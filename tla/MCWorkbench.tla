---------------------------- MODULE MCWorkbench ----------------------------
(* Two containers, the successor an upgrade creates, and a project.        *)
EXTENDS Workbench
=============================================================================
