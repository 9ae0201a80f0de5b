------------------------------- MODULE RWLock -------------------------------
(***************************************************************************)
(* What a reader-writer lock promises, with nothing of how it is built:    *)
(* any number of readers together, or one writer alone.  The two locks of  *)
(* chapter31 (reader-writer.c and reader-writer-nostarve.c) implement it.  *)
(***************************************************************************)
CONSTANTS Readers, Writers

VARIABLES
  reading,    \* readers whose acquire has returned and whose release has not begun
  writing     \* writers likewise

Init == reading = {} /\ writing = {}

BeginRead(r) ==
  /\ r \notin reading /\ writing = {}
  /\ reading' = reading \union {r}
  /\ UNCHANGED writing

EndRead(r) ==
  /\ r \in reading
  /\ reading' = reading \ {r}
  /\ UNCHANGED writing

BeginWrite(w) ==
  /\ reading = {} /\ writing = {}
  /\ writing' = {w}
  /\ UNCHANGED reading

EndWrite(w) ==
  /\ w \in writing
  /\ writing' = writing \ {w}
  /\ UNCHANGED reading

Next ==
  \/ \E r \in Readers : BeginRead(r) \/ EndRead(r)
  \/ \E w \in Writers : BeginWrite(w) \/ EndWrite(w)

Spec == Init /\ [][Next]_<<reading, writing>>
=============================================================================
