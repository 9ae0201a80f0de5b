------------------------------ MODULE MCProcesses ------------------------------
(***************************************************************************)
(* Instances of Processes for TLC: one round to warm up and none, one or   *)
(* three that are measured; all processes may be killed.                   *)
(***************************************************************************)
EXTENDS Processes
=============================================================================
