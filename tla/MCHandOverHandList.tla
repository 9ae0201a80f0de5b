-------------------------- MODULE MCHandOverHandList --------------------------
(***************************************************************************)
(* Instances of HandOverHandList for TLC: three threads, so that one can   *)
(* unlink a node while a second is on it and a third behind it, two keys,  *)
(* and as few nodes as make the allocator hand out a freed one.            *)
(***************************************************************************)
EXTENDS HandOverHandList
=============================================================================
