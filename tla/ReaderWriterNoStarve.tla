------------------------- MODULE ReaderWriterNoStarve -------------------------
(***************************************************************************)
(* chapter31/reader-writer-nostarve.c: the reader-writer lock with a       *)
(* turnstile.  Everybody passes `w' to come in; a writer keeps it until it *)
(* has written, so the readers behind it wait and the readers inside drain.*)
(* `mutex' protects the count and `rw' is held by the side that is inside. *)
(*                                                                         *)
(* Steps are cut as in ReaderWriter: one semaphore operation each.         *)
(***************************************************************************)
EXTENDS RWClient

VARIABLES
  rw,         \* semaphore held by the readers together or by one writer
  mutex,      \* semaphore protecting readers
  w           \* semaphore of the turnstile

lockVars == <<rw, mutex, w, readers>>
vars == <<clientVars, lockVars>>

Points ==
  {"new", "loop", "acquire", "release", "done"}
    \union {"turn", "count", "first", "enter", "pass", "read", "leave", "unlock"}
    \union {"wait", "load", "store", "print", "turnback"}

Init == ClientInit /\ rw = 1 /\ mutex = 1 /\ w = 1 /\ readers = 0

Quiet == UNCHANGED <<loops, iter, value, seen, main>>

-----------------------------------------------------------------------------
(* Slips a maintainer could make; no specification of this module uses them. *)

\* A reader forgets the turnstile on its way in, and still posts it.
TakeTurnUnwaited(r) ==
  /\ Go(r, "acquire", "turn")
  /\ UNCHANGED lockVars
  /\ Quiet

\* The writer waits for the room before it takes the turnstile.
WriterTurnUnheld(x) ==
  /\ Go(x, "acquire", "wait")
  /\ w > 0
  /\ UNCHANGED lockVars
  /\ Quiet

\* The writer does not wait for the readers to drain.
WaitDrainedUnwaited(x) ==
  /\ Go(x, "wait", "load")
  /\ UNCHANGED lockVars
  /\ Quiet

\* The writer leaves the turnstile shut.
TurnBackUnposted(x) ==
  /\ Go(x, "turnback", "loop")
  /\ UNCHANGED lockVars
  /\ Quiet

-----------------------------------------------------------------------------
(* rwlock_acquire_readlock *)

TakeTurn(r) ==
  /\ Go(r, "acquire", "turn")
  /\ SemWait(w)
  /\ UNCHANGED <<rw, mutex, readers>>
  /\ Quiet

AcquireCount(r) ==
  /\ Go(r, "turn", "count")
  /\ SemWait(mutex)
  /\ UNCHANGED <<rw, w, readers>>
  /\ Quiet

\* readers++ makes it 1: go and block on rw, keeping mutex and the turnstile.
FirstReader(r) ==
  /\ readers + 1 = 1
  /\ Go(r, "count", "first")
  /\ readers' = readers + 1
  /\ UNCHANGED <<rw, mutex, w>>
  /\ Quiet

BlockWriters(r) ==
  /\ Go(r, "first", "enter")
  /\ SemWait(rw)
  /\ UNCHANGED <<mutex, w, readers>>
  /\ Quiet

Enter(r) ==
  /\ Go(r, "enter", "pass")
  /\ SemPost(mutex)
  /\ UNCHANGED <<rw, w, readers>>
  /\ Quiet

JoinReaders(r) ==
  /\ readers + 1 # 1
  /\ Go(r, "count", "pass")
  /\ readers' = readers + 1
  /\ SemPost(mutex)
  /\ UNCHANGED <<rw, w>>
  /\ Quiet

PassTurn(r) ==
  /\ Go(r, "pass", "read")
  /\ SemPost(w)
  /\ UNCHANGED <<rw, mutex, readers>>
  /\ Quiet

-----------------------------------------------------------------------------
(* rwlock_release_readlock *)

ReleaseRead(r) ==
  /\ Go(r, "release", "leave")
  /\ SemWait(mutex)
  /\ UNCHANGED <<rw, w, readers>>
  /\ Quiet

LeaveLast(r) ==
  /\ readers - 1 = 0
  /\ Go(r, "leave", "unlock")
  /\ readers' = readers - 1
  /\ SemPost(rw)
  /\ UNCHANGED <<mutex, w>>
  /\ Quiet

LeaveOthers(r) ==
  /\ readers - 1 # 0
  /\ Go(r, "leave", "unlock")
  /\ readers' = readers - 1
  /\ UNCHANGED <<rw, mutex, w>>
  /\ Quiet

Unlock(r) ==
  /\ Go(r, "unlock", "loop")
  /\ SemPost(mutex)
  /\ UNCHANGED <<rw, w, readers>>
  /\ Quiet

-----------------------------------------------------------------------------
(* rwlock_acquire_writelock, rwlock_release_writelock *)

WriterTurn(x) ==
  /\ Go(x, "acquire", "wait")
  /\ SemWait(w)
  /\ UNCHANGED <<rw, mutex, readers>>
  /\ Quiet

WaitDrained(x) ==
  /\ Go(x, "wait", "load")
  /\ SemWait(rw)
  /\ UNCHANGED <<mutex, w, readers>>
  /\ Quiet

ReleaseWrite(x) ==
  /\ Go(x, "release", "turnback")
  /\ SemPost(rw)
  /\ UNCHANGED <<mutex, w, readers>>
  /\ Quiet

TurnBack(x) ==
  /\ Go(x, "turnback", "loop")
  /\ SemPost(w)
  /\ UNCHANGED <<rw, mutex, readers>>
  /\ Quiet

-----------------------------------------------------------------------------

ReaderLock(r) ==
  \/ TakeTurn(r) \/ AcquireCount(r) \/ FirstReader(r) \/ BlockWriters(r) \/ Enter(r)
  \/ JoinReaders(r) \/ PassTurn(r)
  \/ ReleaseRead(r) \/ LeaveLast(r) \/ LeaveOthers(r) \/ Unlock(r)

WriterLock(x) == WriterTurn(x) \/ WaitDrained(x) \/ ReleaseWrite(x) \/ TurnBack(x)

Step(t) ==
  \/ Work(t) /\ UNCHANGED lockVars
  \/ t \in Readers /\ ReaderLock(t)
  \/ t \in Writers /\ WriterLock(t)

Started(t) == Create(t) /\ UNCHANGED lockVars
Joined == Join /\ UNCHANGED lockVars
Exited == main = "exit" /\ UNCHANGED vars

Next == Joined \/ Exited \/ \E t \in Threads : Started(t) \/ Step(t)

Spec == Init /\ [][Next]_vars

\* Every thread that can take a step forever takes one.
FairSpec ==
  /\ Spec
  /\ WF_vars(Joined)
  /\ \A t \in Threads : WF_vars(Started(t)) /\ WF_vars(Step(t))

\* In addition a thread blocked on a semaphore that is posted again and again
\* gets it in the end.  POSIX does not promise this for sem_wait.
StrongFairSpec ==
  /\ Spec
  /\ WF_vars(Joined)
  /\ \A t \in Threads : WF_vars(Started(t)) /\ SF_vars(Step(t))

-----------------------------------------------------------------------------
(* Properties *)

\* Threads that hold the turnstile.
AtTurn(t) ==
  IF t \in Readers THEN pc[t] \in {"turn", "count", "first", "enter", "pass"}
                   ELSE pc[t] \in {"wait", "load", "store", "print", "release", "turnback"}

\* Every field has its type, and `readers' is the number of readers counted.
TypeOK ==
  /\ rw \in {0, 1} /\ mutex \in {0, 1} /\ w \in {0, 1}
  /\ readers = Cardinality({r \in Readers : Counted(r)})
  /\ pc \in [Threads -> Points]
  /\ \A x \in Writers : pc[x] \in {"new", "loop", "acquire", "release", "done",
                                   "wait", "load", "store", "print", "turnback"}
  /\ \A r \in Readers : pc[r] \notin {"wait", "load", "store", "print", "turnback"}
  /\ loops \in Loops
  /\ iter \in [Threads -> Nat]
  /\ value \in Nat
  /\ seen \in [Threads -> Nat]
  /\ main \in {"run", "exit"}

\* `mutex' and the turnstile are locks, and while the first reader waits for
\* `rw' no other reader is counted in.
LocksAreLocks ==
  /\ \A r \in Readers : AtCount(r) => mutex = 0
  /\ \A r, q \in Readers : AtCount(r) /\ AtCount(q) => r = q
  /\ \A r, q \in Readers : pc[r] = "first" /\ Counted(q) => r = q
  /\ \A t \in Threads : AtTurn(t) => w = 0
  /\ \A t, u \in Threads : AtTurn(t) /\ AtTurn(u) => t = u

\* `rw' is held by the readers together or by one writer.
OneSide ==
  /\ \A r \in Readers : Sharing(r) => rw = 0 /\ Writing = {}
  /\ \A x \in Writing : rw = 0

\* The inductive invariant behind Occupancy, the refinement and the value main
\* prints.
IInv == TypeOK /\ LocksAreLocks /\ OneSide /\ StableView /\ Tally

\* The turnstile: once a writer has passed it, no reader comes in before the
\* writer has released the lock; the readers inside can only leave.
NoOvertaking ==
  [][\A x \in Writers : pc[x] \in {"wait", "load", "store", "print", "release"}
       => Reading' \subseteq Reading]_vars
=============================================================================
