------------------------- MODULE MCPollingResource -------------------------
(* PollingResource for TLC.                                                 *)
EXTENDS PollingResource
=============================================================================
