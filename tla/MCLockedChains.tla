---------------------------- MODULE MCLockedChains ----------------------------
(***************************************************************************)
(* Instances of LockedChains for TLC: three keys over two buckets, so that *)
(* one bucket has two keys, and two threads that meet in one bucket or     *)
(* work in both.                                                           *)
(***************************************************************************)
EXTENDS LockedChains
=============================================================================
