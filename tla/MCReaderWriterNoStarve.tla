------------------------ MODULE MCReaderWriterNoStarve ------------------------
(***************************************************************************)
(* Instances of ReaderWriterNoStarve for TLC.  Two readers are enough to   *)
(* keep a reader inside at every moment, which is what starves a writer of *)
(* the plain lock; a second writer competes for the turnstile.             *)
(***************************************************************************)
EXTENDS ReaderWriterNoStarve

\* One round of every thread, or threads that never stop.
OnceOrForever == {1, Forever}
=============================================================================
