--------------------------- MODULE MCVectorsAndLists ---------------------------
(***************************************************************************)
(* Instances of VectorsAndLists for TLC: up to five elements, so that the  *)
(* doubling vector grows four times and the list has a first, a last and   *)
(* middle nodes.  The largest block holds eight elements of vector_int and *)
(* five of vector_struct, whose last doubling is therefore refused.        *)
(***************************************************************************)
EXTENDS VectorsAndLists, TLC

AnyBlock == Permutations(Blocks)

ElemSizes == [p \in Programs |-> IF p = "vector_int" THEN 2 ELSE 3]
=============================================================================
