------------------------------- MODULE NsMutex -------------------------------
(***************************************************************************)
(* chapter31/mutex-nostarve.c: a mutex built from two semaphores, and the  *)
(* worker threads that increment a shared integer under it.                *)
(*                                                                         *)
(* The lock counts the threads that queue on `gate' and is handed over by  *)
(* passing a baton: a release that sees a waiter leaves `locked' at 1 and  *)
(* posts `gate'; the thread that wakes finalises its ownership under       *)
(* `state'.  Every semaphore operation is a step of its own; the fields it *)
(* protects are read and written in the step of the operation that follows *)
(* them.  The increment of the critical section is a load and a store.     *)
(***************************************************************************)
EXTENDS CommonThreads, FiniteSets

CONSTANTS
  Workers,    \* the worker threads
  Loops,      \* the iterations a worker may be asked for
  IntRange    \* number of values of an int (2^32 in the program)

\* A loop count that is never reached, for questions about workers that keep
\* competing; the program's own counts are natural numbers.
Forever == -1

ASSUME NsMutexAssumption ==
  /\ IsFiniteSet(Workers)
  /\ Loops \subseteq Nat \union {Forever}
  /\ IntRange \in Nat \ {0}

VARIABLES
  state,      \* semaphore protecting the fields
  gate,       \* semaphore the queued threads sleep on
  waiters,    \* number of threads queued
  locked,     \* 0 free, 1 held or being passed on
  pc,         \* where each worker is
  iters,      \* iterations of each worker
  iter,       \* iterations each worker has finished
  shared,     \* the integer the workers increment
  tmp,        \* the value each worker loaded from it
  main        \* what main is doing

mutex == <<state, gate, waiters, locked>>
vars  == <<state, gate, waiters, locked, pc, iters, iter, shared, tmp, main>>

\* The control points of a worker, in the order of the code.
Acquiring == {"acquire", "decide", "sleep", "woken", "finalize"}
Critical  == {"load", "store"}
Releasing == {"release", "handoff", "unlock"}
Points    == {"new", "loop", "done"} \union Acquiring \union Critical \union Releasing

Init ==
  /\ state = 1 /\ gate = 0 /\ waiters = 0 /\ locked = 0
  /\ pc = [t \in Workers |-> "new"]
  /\ iters \in Loops
  /\ iter = [t \in Workers |-> 0]
  /\ shared = 0
  /\ tmp = [t \in Workers |-> 0]
  /\ main = "run"

Go(t, from, to) == pc[t] = from /\ pc' = [pc EXCEPT ![t] = to]

-----------------------------------------------------------------------------
(* Slips a maintainer could make in the actions below; no specification of   *)
(* this module uses them.  They show that the properties can fail.           *)

\* The fast path forgets to test `locked'.
TakeFreeUnchecked(t) ==
  /\ waiters = 0
  /\ Go(t, "decide", "load")
  /\ locked' = 1
  /\ SemPost(state)
  /\ UNCHANGED <<gate, waiters, iters, iter, shared, tmp, main>>

\* A thread goes to sleep without counting itself.
QueueUncounted(t) ==
  /\ ~(locked = 0 /\ waiters = 0)
  /\ Go(t, "decide", "sleep")
  /\ SemPost(state)
  /\ UNCHANGED <<gate, waiters, locked, iters, iter, shared, tmp, main>>

\* A queued thread goes on without waiting for the baton.
WakeUnposted(t) ==
  /\ Go(t, "sleep", "woken")
  /\ UNCHANGED <<mutex, iters, iter, shared, tmp, main>>

\* The new owner does not take itself off the count.
FinalizeStillCounted(t) ==
  /\ Go(t, "finalize", "load")
  /\ locked' = 1
  /\ SemPost(state)
  /\ UNCHANGED <<gate, waiters, iters, iter, shared, tmp, main>>

\* The owner leaves `locked' set for a waiter but posts nothing.
PassBatonUnposted(t) ==
  /\ waiters > 0
  /\ Go(t, "handoff", "unlock")
  /\ UNCHANGED <<mutex, iters, iter, shared, tmp, main>>

-----------------------------------------------------------------------------
(* ns_mutex_acquire *)

AcquireState(t) ==
  /\ Go(t, "acquire", "decide")
  /\ SemWait(state)
  /\ UNCHANGED <<gate, waiters, locked, iters, iter, shared, tmp, main>>

\* The fast path: nobody holds the lock and nobody queues for it.
TakeFree(t) ==
  /\ locked = 0 /\ waiters = 0
  /\ Go(t, "decide", "load")
  /\ locked' = 1
  /\ SemPost(state)
  /\ UNCHANGED <<gate, waiters, iters, iter, shared, tmp, main>>

Queue(t) ==
  /\ ~(locked = 0 /\ waiters = 0)
  /\ Go(t, "decide", "sleep")
  /\ waiters' = waiters + 1
  /\ SemPost(state)
  /\ UNCHANGED <<gate, locked, iters, iter, shared, tmp, main>>

Wake(t) ==
  /\ Go(t, "sleep", "woken")
  /\ SemWait(gate)
  /\ UNCHANGED <<state, waiters, locked, iters, iter, shared, tmp, main>>

RelockState(t) ==
  /\ Go(t, "woken", "finalize")
  /\ SemWait(state)
  /\ UNCHANGED <<gate, waiters, locked, iters, iter, shared, tmp, main>>

\* locked-- and locked = 1 both happen before `state' is posted.
Finalize(t) ==
  /\ Go(t, "finalize", "load")
  /\ locked' = 1
  /\ waiters' = waiters - 1
  /\ SemPost(state)
  /\ UNCHANGED <<gate, iters, iter, shared, tmp, main>>

-----------------------------------------------------------------------------
(* The critical section of worker: tmp = *shared; *shared = tmp + 1 *)

Load(t) ==
  /\ Go(t, "load", "store")
  /\ tmp' = [tmp EXCEPT ![t] = shared]
  /\ UNCHANGED <<mutex, iters, iter, shared, main>>

Store(t) ==
  /\ Go(t, "store", "release")
  /\ shared' = (tmp[t] + 1) % IntRange
  /\ UNCHANGED <<mutex, iters, iter, tmp, main>>

-----------------------------------------------------------------------------
(* ns_mutex_release *)

ReleaseState(t) ==
  /\ Go(t, "release", "handoff")
  /\ SemWait(state)
  /\ UNCHANGED <<gate, waiters, locked, iters, iter, shared, tmp, main>>

PassBaton(t) ==
  /\ waiters > 0
  /\ Go(t, "handoff", "unlock")
  /\ SemPost(gate)
  /\ UNCHANGED <<state, waiters, locked, iters, iter, shared, tmp, main>>

FreeLock(t) ==
  /\ ~(waiters > 0)
  /\ Go(t, "handoff", "unlock")
  /\ locked' = 0
  /\ UNCHANGED <<state, gate, waiters, iters, iter, shared, tmp, main>>

Unlock(t) ==
  /\ Go(t, "unlock", "loop")
  /\ SemPost(state)
  /\ iter' = [iter EXCEPT ![t] = IF iters = Forever THEN @ ELSE @ + 1]
  /\ UNCHANGED <<gate, waiters, locked, iters, shared, tmp, main>>

-----------------------------------------------------------------------------
(* The loop of worker, and main *)

Loop(t) ==
  /\ Go(t, "loop", IF iters = Forever \/ iter[t] < iters THEN "acquire" ELSE "done")
  /\ UNCHANGED <<mutex, iters, iter, shared, tmp, main>>

\* pthread_create of one more worker; which one the array of threads has next
\* is not observable.
Create(t) ==
  /\ Go(t, "new", "loop")
  /\ UNCHANGED <<mutex, iters, iter, shared, tmp, main>>

\* All the joins have returned; main prints shared.
Join ==
  /\ main = "run"
  /\ \A t \in Workers : pc[t] = "done"
  /\ main' = "exit"
  /\ UNCHANGED <<mutex, pc, iters, iter, shared, tmp>>

Exited == main = "exit" /\ UNCHANGED vars

Step(t) ==
  \/ Loop(t)
  \/ AcquireState(t) \/ TakeFree(t) \/ Queue(t) \/ Wake(t) \/ RelockState(t) \/ Finalize(t)
  \/ Load(t) \/ Store(t)
  \/ ReleaseState(t) \/ PassBaton(t) \/ FreeLock(t) \/ Unlock(t)

Next == Join \/ Exited \/ \E t \in Workers : Create(t) \/ Step(t)

Spec == Init /\ [][Next]_vars

\* Every thread that can take a step forever takes one: the operating system
\* schedules every runnable thread.
FairSpec ==
  /\ Spec
  /\ WF_vars(Join)
  /\ \A t \in Workers : WF_vars(Create(t)) /\ WF_vars(Step(t))

-----------------------------------------------------------------------------
(* Properties *)

\* Threads counted in `waiters', and threads the baton was passed to.
Queued(t) == pc[t] \in {"sleep", "woken", "finalize"}
Chosen(t) == pc[t] \in {"woken", "finalize"}

\* Threads that own the lock: from the end of acquire to the hand-over.
Owner(t) == pc[t] \in {"load", "store", "release", "handoff"}

\* Threads between a Sem_wait and a Sem_post of `state'.
InState(t) == pc[t] \in {"decide", "finalize", "handoff", "unlock"}

\* Every field has its type, and `waiters' is the number of threads queued.
TypeOK ==
  /\ state \in {0, 1} /\ gate \in {0, 1} /\ locked \in {0, 1}
  /\ waiters = Cardinality({t \in Workers : Queued(t)})
  /\ pc \in [Workers -> Points]
  /\ iters \in Nat \union {Forever}
  /\ iter \in [Workers -> Nat]
  /\ shared \in Nat
  /\ tmp \in [Workers -> Nat]
  /\ main \in {"run", "exit"}

\* `state' is a lock: at most one thread is between its wait and its post.
StateIsLock ==
  /\ \A t \in Workers : InState(t) => state = 0
  /\ \A t, u \in Workers : InState(t) /\ InState(u) => t = u

\* The lock is in one place: with one owner, with one thread that has been
\* chosen, or in the token of `gate'; it is free only when it is in none.
OneBaton ==
  /\ \A t \in Workers : Owner(t) \/ Chosen(t) => gate = 0 /\ locked = 1
  /\ \A t, u \in Workers :
       (Owner(t) \/ Chosen(t)) /\ (Owner(u) \/ Chosen(u)) => t = u
  /\ gate = 1 => locked = 1

\* A thread about to store has loaded the value that is still in `shared'.
Fresh == \A t \in Workers : pc[t] = "store" => tmp[t] = shared

\* Increments a worker has stored, and all of them, one pair for each.
Stored(t)  == iter[t] + (IF pc[t] \in Releasing THEN 1 ELSE 0)
Increments == {r \in Workers \X (1 .. iters) : r[2] <= Stored(r[1])}

\* A worker stops after its iterations and main after the workers; if they can
\* stop at all, `shared' is the number of increments stored so far.
Tally ==
  /\ \A t \in Workers :
       /\ pc[t] = "done" => iters # Forever /\ iter[t] = iters
       /\ iters # Forever => iter[t] <= iters
       /\ pc[t] \in Acquiring \union Critical \union Releasing /\ iters # Forever => iter[t] < iters
  /\ main = "exit" => \A t \in Workers : pc[t] = "done"
  /\ iters # Forever \/ Workers = {} => shared = Cardinality(Increments) % IntRange

\* The inductive invariant behind MutualExclusion and ExpectedTotal: what the
\* two semaphores, the two fields, the positions of the threads and the integer
\* say about each other.
IInv == TypeOK /\ StateIsLock /\ OneBaton /\ Fresh /\ Tally

\* Two workers are never in the critical section together: the lock that
\* ns_mutex_acquire and ns_mutex_release build is a mutual exclusion lock.
MutualExclusion ==
  \A t, u \in Workers : pc[t] \in Critical /\ pc[u] \in Critical => t = u

\* When main prints, no increment has been lost: shared is the number of
\* threads times their iterations, the value main prints as "expected".
ExpectedTotal ==
  main = "exit" => shared = (Cardinality(Workers) * iters) % IntRange

\* A thread that finds the lock free does not overtake one that is queued:
\* while somebody is queued the lock only goes to a queued thread.
NoBarging ==
  [][\A t, u \in Workers : Queued(u) /\ Owner(t)' /\ ~Owner(t) => Queued(t)]_vars

\* All threads finish and main exits: no wake-up is lost and no release finds
\* its semaphore taken for ever.
Termination == iters # Forever ~> main = "exit"

\* A worker that wants the mutex gets it, however often the others take it:
\* the promise of the name and of the header of mutex-nostarve.c.
NoStarvation == \A t \in Workers : pc[t] = "acquire" ~> pc[t] = "load"

\* A thread blocked on a semaphore that is posted again and again gets it in
\* the end.  POSIX does not promise this for sem_wait.
SemaphoresServe == \A t \in Workers : SF_vars(Step(t))

\* Nothing but the semaphores stands between this mutex and NoStarvation: if
\* they serve every thread that waits, every worker gets the mutex.
NoStarvationIfServed == SemaphoresServe => NoStarvation

=============================================================================
