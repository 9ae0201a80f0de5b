--------------------------- MODULE MCReaderWriter ---------------------------
(***************************************************************************)
(* Instances of ReaderWriter for TLC: two readers and two writers, twice   *)
(* each, so that a second reader can join the first, either can be the     *)
(* last to leave, and both writers can find the lock taken.                *)
(***************************************************************************)
EXTENDS ReaderWriter
=============================================================================
