------------------------------ MODULE MCBarrier ------------------------------
(***************************************************************************)
(* Instances of Barrier for TLC: four children, so that the last one posts *)
(* three times and the children it wakes overtake each other and it.       *)
(***************************************************************************)
EXTENDS Barrier
=============================================================================
