------------------------------ MODULE MCCounters ------------------------------
(***************************************************************************)
(* Instances of Counters for TLC: three threads that compete for the       *)
(* shared count, and increments that are and are not a multiple of the     *)
(* threshold, so that slots are empty or not when main flushes them.       *)
(***************************************************************************)
EXTENDS Counters
=============================================================================
