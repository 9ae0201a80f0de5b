---------------------------- MODULE ReaderWriter ----------------------------
(***************************************************************************)
(* chapter31/reader-writer.c: a reader-writer lock from two semaphores and *)
(* a count.  The first reader takes `writelock' for all of them and the    *)
(* last one gives it back; `lock' protects the count.                      *)
(*                                                                         *)
(* Every semaphore operation is a step of its own.  The count is read and  *)
(* written under `lock', in the step of the operation that follows, except *)
(* that the first reader counts itself in before it blocks on `writelock'. *)
(***************************************************************************)
EXTENDS RWClient

VARIABLES
  lock,         \* semaphore protecting readers
  writelock     \* semaphore held by the readers together or by one writer

lockVars == <<lock, writelock, readers>>
vars == <<clientVars, lockVars>>

Points ==
  {"new", "loop", "acquire", "release", "done"}
    \union {"count", "first", "enter", "read", "leave", "unlock"}
    \union {"load", "store", "print"}

Init == ClientInit /\ lock = 1 /\ writelock = 1 /\ readers = 0

Quiet == UNCHANGED <<loops, iter, value, seen, main>>

-----------------------------------------------------------------------------
(* Slips a maintainer could make; no specification of this module uses them. *)

\* The first reader does not wait for the writer to leave.
BlockWritersUnwaited(r) ==
  /\ Go(r, "first", "enter")
  /\ UNCHANGED lockVars
  /\ Quiet

\* The last reader keeps the writers out.
LeaveLastUnposted(r) ==
  /\ readers - 1 = 0
  /\ Go(r, "leave", "unlock")
  /\ readers' = readers - 1
  /\ UNCHANGED <<lock, writelock>>
  /\ Quiet

\* Every reader that leaves lets the writers in.
LeaveOthersPosting(r) ==
  /\ readers - 1 # 0
  /\ Go(r, "leave", "unlock")
  /\ readers' = readers - 1
  /\ SemPost(writelock)
  /\ UNCHANGED lock
  /\ Quiet

\* A writer walks in.
AcquireWriteUnwaited(x) ==
  /\ Go(x, "acquire", "load")
  /\ UNCHANGED lockVars
  /\ Quiet

-----------------------------------------------------------------------------
(* rwlock_acquire_readlock *)

AcquireRead(r) ==
  /\ Go(r, "acquire", "count")
  /\ SemWait(lock)
  /\ UNCHANGED <<writelock, readers>>
  /\ Quiet

\* readers++ makes it 1: go and block on writelock, keeping lock.
FirstReader(r) ==
  /\ readers + 1 = 1
  /\ Go(r, "count", "first")
  /\ readers' = readers + 1
  /\ UNCHANGED <<lock, writelock>>
  /\ Quiet

BlockWriters(r) ==
  /\ Go(r, "first", "enter")
  /\ SemWait(writelock)
  /\ UNCHANGED <<lock, readers>>
  /\ Quiet

Enter(r) ==
  /\ Go(r, "enter", "read")
  /\ SemPost(lock)
  /\ UNCHANGED <<writelock, readers>>
  /\ Quiet

JoinReaders(r) ==
  /\ readers + 1 # 1
  /\ Go(r, "count", "read")
  /\ readers' = readers + 1
  /\ SemPost(lock)
  /\ UNCHANGED writelock
  /\ Quiet

-----------------------------------------------------------------------------
(* rwlock_release_readlock *)

ReleaseRead(r) ==
  /\ Go(r, "release", "leave")
  /\ SemWait(lock)
  /\ UNCHANGED <<writelock, readers>>
  /\ Quiet

LeaveLast(r) ==
  /\ readers - 1 = 0
  /\ Go(r, "leave", "unlock")
  /\ readers' = readers - 1
  /\ SemPost(writelock)
  /\ UNCHANGED lock
  /\ Quiet

LeaveOthers(r) ==
  /\ readers - 1 # 0
  /\ Go(r, "leave", "unlock")
  /\ readers' = readers - 1
  /\ UNCHANGED <<lock, writelock>>
  /\ Quiet

Unlock(r) ==
  /\ Go(r, "unlock", "loop")
  /\ SemPost(lock)
  /\ UNCHANGED <<writelock, readers>>
  /\ Quiet

-----------------------------------------------------------------------------
(* rwlock_acquire_writelock, rwlock_release_writelock *)

AcquireWrite(x) ==
  /\ Go(x, "acquire", "load")
  /\ SemWait(writelock)
  /\ UNCHANGED <<lock, readers>>
  /\ Quiet

ReleaseWrite(x) ==
  /\ Go(x, "release", "loop")
  /\ SemPost(writelock)
  /\ UNCHANGED <<lock, readers>>
  /\ Quiet

-----------------------------------------------------------------------------

ReaderLock(r) ==
  \/ AcquireRead(r) \/ FirstReader(r) \/ BlockWriters(r) \/ Enter(r) \/ JoinReaders(r)
  \/ ReleaseRead(r) \/ LeaveLast(r) \/ LeaveOthers(r) \/ Unlock(r)

WriterLock(x) == AcquireWrite(x) \/ ReleaseWrite(x)

Step(t) ==
  \/ Work(t) /\ UNCHANGED lockVars
  \/ t \in Readers /\ ReaderLock(t)
  \/ t \in Writers /\ WriterLock(t)

Started(t) == Create(t) /\ UNCHANGED lockVars
Joined == Join /\ UNCHANGED lockVars
Exited == main = "exit" /\ UNCHANGED vars

Next == Joined \/ Exited \/ \E t \in Threads : Started(t) \/ Step(t)

Spec == Init /\ [][Next]_vars

\* Every thread that can take a step forever takes one.
FairSpec ==
  /\ Spec
  /\ WF_vars(Joined)
  /\ \A t \in Threads : WF_vars(Started(t)) /\ WF_vars(Step(t))

-----------------------------------------------------------------------------
(* Properties *)

\* Every field has its type, and `readers' is the number of readers counted.
TypeOK ==
  /\ lock \in {0, 1} /\ writelock \in {0, 1}
  /\ readers = Cardinality({r \in Readers : Counted(r)})
  /\ pc \in [Threads -> Points]
  /\ \A x \in Writers : pc[x] \in Points \ {"count", "first", "enter", "read", "leave", "unlock"}
  /\ \A r \in Readers : pc[r] \in Points \ {"load", "store", "print"}
  /\ loops \in Loops
  /\ iter \in [Threads -> Nat]
  /\ value \in Nat
  /\ seen \in [Threads -> Nat]
  /\ main \in {"run", "exit"}

\* `lock' is a lock, and while the first reader waits for writelock no other
\* reader is counted in.
LockIsLock ==
  /\ \A r \in Readers : AtCount(r) => lock = 0
  /\ \A r, q \in Readers : AtCount(r) /\ AtCount(q) => r = q
  /\ \A r, q \in Readers : pc[r] = "first" /\ Counted(q) => r = q

\* `writelock' is held by the readers together or by one writer.
OneSide ==
  /\ \A r \in Readers : Sharing(r) => writelock = 0 /\ Writing = {}
  /\ \A x \in Writing : writelock = 0 /\ Writing = {x}

\* The inductive invariant behind Occupancy, the refinement and the value main
\* prints.
IInv == TypeOK /\ LockIsLock /\ OneSide /\ StableView /\ Tally
=============================================================================
