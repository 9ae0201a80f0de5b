---------------------------- MODULE BarrierState ----------------------------
(***************************************************************************)
(* The state of chapter31/barrier.c and what is true of it: the children,  *)
(* the barrier made of two semaphores and a count, and the predicates its  *)
(* steps, in Barrier, are checked and proved to keep.                      *)
(***************************************************************************)
EXTENDS CommonThreads, FiniteSets

CONSTANT Children   \* the threads; the program asserts that there is one

ASSUME BarrierAssumption == IsFiniteSet(Children) /\ Children # {}

VARIABLES
  mutex,      \* semaphore protecting count
  barrier,    \* semaphore the early children sleep on
  count,      \* number of children at the barrier
  i,          \* the local loop variable of barrier() of each child
  pc,         \* where each child is
  main        \* what main is doing

\* number of threads required to pass the barrier
n == Cardinality(Children)

Points == {"new", "before", "arrive", "count", "post", "sleep", "after", "done"}

-----------------------------------------------------------------------------
(* Properties *)

\* Children that count has counted; children between wait and post of mutex.
Counted(t) == pc[t] \in {"post", "sleep", "after", "done"}
InMutex(t) == pc[t] \in {"count", "post"}

BarrierTypeOK ==
  /\ mutex \in {0, 1} /\ barrier \in Nat /\ count \in Nat
  /\ i \in [Children -> Nat]
  /\ pc \in [Children -> Points]
  /\ main \in {"run", "exit"}

\* `mutex' is a lock, and held only by a child.
MutexIsLock ==
  /\ mutex = 0 <=> \E t \in Children : InMutex(t)
  /\ \A t, u \in Children : InMutex(t) /\ InMutex(u) => t = u

\* Until all children are counted the barrier is closed: it has no token, the
\* children counted so far sleep, and count is their number.
ClosedUntilAll ==
  \/ \A t \in Children : Counted(t)
  \/ /\ barrier = 0
     /\ \A t \in Children : Counted(t) => pc[t] = "sleep"
     /\ count = Cardinality({t \in Children : Counted(t)})

Sleepers == {t \in Children : pc[t] = "sleep"}

\* Once all are counted, every sleeper has its token or has it to come, and
\* nobody else has one; the child that posts them resets count when it is done.
Tokens ==
  (\A t \in Children : Counted(t)) =>
    \/ /\ \A t \in Children : pc[t] # "post"
       /\ count = 0 /\ barrier = Cardinality(Sleepers)
    \/ \E t \in Children :
         pc[t] = "post" /\ i[t] <= n - 1 /\ barrier + (n - 1 - i[t]) = Cardinality(Sleepers)

\* The inductive invariant behind BeforeAfter and Restored; main exits after
\* the children.
BarrierInv ==
  /\ BarrierTypeOK /\ MutexIsLock /\ ClosedUntilAll /\ Tokens
  /\ main = "exit" => \A t \in Children : pc[t] = "done"

\* Each child has printed "before" before any child prints "after".
BeforeAfter ==
  \A t, u \in Children : pc[t] \in {"after", "done"} => pc[u] \notin {"new", "before"}

\* When main exits the barrier is as barrier_init made it: every token
\* posted has been used.
Restored == main = "exit" => mutex = 1 /\ barrier = 0 /\ count = 0
=============================================================================
