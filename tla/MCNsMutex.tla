------------------------------ MODULE MCNsMutex ------------------------------
(***************************************************************************)
(* Instances of NsMutex for TLC.  Three workers are the fewest with which  *)
(* one thread can be passed over while two others hand the lock back and   *)
(* forth.                                                                  *)
(***************************************************************************)
EXTENDS NsMutex

\* Two rounds of every worker, or workers that never stop.
TwiceOrForever == {2, Forever}
Always         == {Forever}
=============================================================================
