----------------------------- MODULE MCSession -----------------------------
(* An administrator and a viewer, two Docker servers.                      *)
EXTENDS Session
=============================================================================
