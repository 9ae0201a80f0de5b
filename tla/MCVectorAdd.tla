----------------------------- MODULE MCVectorAdd -----------------------------
(***************************************************************************)
(* Instances of VectorAdd for TLC: three threads, so that two of them add  *)
(* in the same direction and one against them, and vectors of two          *)
(* elements, the fewest that can disagree.                                 *)
(***************************************************************************)
EXTENDS VectorAdd
=============================================================================
