------------------------------- MODULE Counters -------------------------------
(***************************************************************************)
(* The two counters of chapter29 and the threads that benchmark them:      *)
(*   mutex         chapter29-2.c: one value under one mutex                *)
(*   approximate   chapter29-3.c: a local count for each thread, added to  *)
(*                 the global count when it reaches a threshold            *)
(* Which counter runs, and its threshold, is chosen in the initial state.  *)
(*                                                                         *)
(* Both programs check the total at the end.  The shared count is changed  *)
(* by a load and a store; a local count has one user at a time by its slot.*)
(***************************************************************************)
EXTENDS CommonThreads, FiniteSetsExt

CONSTANTS
  NumThreads,     \* n_threads, which is also nslots
  Iters,          \* increments of each thread
  Thresholds      \* the thresholds the benchmark tries

ASSUME CountersAssumption ==
  /\ NumThreads \in Nat /\ Iters \in Nat
  /\ Thresholds \subseteq Nat \ {0}

VARIABLES
  program,        \* which of the two counters runs
  threshold,      \* flush threshold
  global, glock,  \* the shared count and the owner of its mutex
  local, llock,   \* the local counts and the owners of their mutexes
  pc, iter,       \* where each thread is, increments it has begun
  reg,            \* the value a thread, or main, has loaded
  main, slot      \* what main is doing, and the slot it flushes

vars == <<program, threshold, global, glock, local, llock, pc, iter, reg, main, slot>>

Threads == 0 .. NumThreads - 1
Main    == NumThreads           \* main as the owner of a mutex

Init ==
  /\ program \in {"mutex", "approximate"}
  /\ threshold \in Thresholds
  /\ global = 0 /\ glock = Free
  /\ local = [t \in Threads |-> 0] /\ llock = [t \in Threads |-> Free]
  /\ pc = [t \in Threads |-> "new"]
  /\ iter = [t \in Threads |-> 0]
  /\ reg = [t \in Threads \union {Main} |-> 0]
  /\ main = "run" /\ slot = 0

Go(t, from, to) == pc[t] = from /\ pc' = [pc EXCEPT ![t] = to]

-----------------------------------------------------------------------------
(* Slips a maintainer could make; no specification of this module uses them. *)

\* The shared count is loaded and stored without its mutex.
LockGlobalSkipped(t) ==
  /\ Go(t, "glock", "store")
  /\ glock = Free
  /\ reg' = [reg EXCEPT ![t] = global]
  /\ UNCHANGED <<program, threshold, global, glock, local, llock, iter, main, slot>>

\* A local count that was transferred is not reset.
FinishTransferNoReset(t) ==
  /\ Go(t, "reset", "loop")
  /\ llock' = [llock EXCEPT ![t] = Free]
  /\ UNCHANGED <<program, threshold, global, glock, local, iter, reg, main, slot>>

\* The threshold is missed by one.
ReachedLate(x) == x > threshold + 1

\* The mutex of the shared count stays locked.
UnlockGlobalForgotten(t) ==
  /\ Go(t, "gunlock", IF program = "mutex" THEN "loop" ELSE "reset")
  /\ UNCHANGED <<program, threshold, global, glock, local, llock, iter, reg, main, slot>>

-----------------------------------------------------------------------------
(* increment, and counter_update with amt = 1 *)

\* approximate: lock the slot and count in it.
Reached(x) == x >= threshold

LockLocal(t) ==
  /\ Go(t, "llock", "local")
  /\ MutexLock(llock, t, t)
  /\ UNCHANGED <<program, threshold, global, glock, local, iter, reg, main, slot>>

\* local += 1; go for the global count when the threshold is reached.
AddLocal(t) ==
  /\ Go(t, "local", IF Reached(local[t] + 1) THEN "glock" ELSE "lunlock")
  /\ local' = [local EXCEPT ![t] = @ + 1]
  /\ UNCHANGED <<program, threshold, global, glock, llock, iter, reg, main, slot>>

UnlockLocal(t) ==
  /\ Go(t, "lunlock", "loop")
  /\ MutexUnlock(llock, t)
  /\ UNCHANGED <<program, threshold, global, glock, local, iter, reg, main, slot>>

\* Both: take the mutex of the shared count.
LockGlobal(t) ==
  /\ Go(t, "glock", "load")
  /\ glock = Free /\ glock' = t
  /\ UNCHANGED <<program, threshold, global, local, llock, iter, reg, main, slot>>

Load(t) ==
  /\ Go(t, "load", "store")
  /\ reg' = [reg EXCEPT ![t] = global]
  /\ UNCHANGED <<program, threshold, global, glock, local, llock, iter, main, slot>>

\* value++, or global += local.
Store(t) ==
  /\ Go(t, "store", "gunlock")
  /\ global' = reg[t] + (IF program = "mutex" THEN 1 ELSE local[t])
  /\ UNCHANGED <<program, threshold, glock, local, llock, iter, reg, main, slot>>

UnlockGlobal(t) ==
  /\ Go(t, "gunlock", IF program = "mutex" THEN "loop" ELSE "reset")
  /\ glock' = Free
  /\ UNCHANGED <<program, threshold, global, local, llock, iter, reg, main, slot>>

\* local = 0, still under the lock of the slot.
FinishTransfer(t) ==
  /\ Go(t, "reset", "loop")
  /\ local' = [local EXCEPT ![t] = 0]
  /\ MutexUnlock(llock, t)
  /\ UNCHANGED <<program, threshold, global, glock, iter, reg, main, slot>>

-----------------------------------------------------------------------------
(* worker *)

Begin(t) ==
  /\ iter[t] < Iters
  /\ Go(t, "loop", IF program = "mutex" THEN "glock" ELSE "llock")
  /\ iter' = [iter EXCEPT ![t] = @ + 1]
  /\ UNCHANGED <<program, threshold, global, glock, local, llock, reg, main, slot>>

Finish(t) ==
  /\ ~(iter[t] < Iters)
  /\ Go(t, "loop", "done")
  /\ UNCHANGED <<program, threshold, global, glock, local, llock, iter, reg, main, slot>>

Create(t) ==
  /\ \A u \in Threads : u < t => pc[u] # "new"
  /\ Go(t, "new", "barrier")
  /\ UNCHANGED <<program, threshold, global, glock, local, llock, iter, reg, main, slot>>

\* pthread_barrier_wait of all the workers and main.
Start ==
  /\ \A t \in Threads : pc[t] = "barrier"
  /\ pc' = [t \in Threads |-> "loop"]
  /\ UNCHANGED <<program, threshold, global, glock, local, llock, iter, reg, main, slot>>

-----------------------------------------------------------------------------
(* main: join the workers, then read or flush the counter and check it *)

MainGo(from, to) == main = from /\ main' = to

Join ==
  /\ MainGo("run", IF program = "mutex" THEN "get" ELSE "flush")
  /\ \A t \in Threads : pc[t] = "done"
  /\ UNCHANGED <<program, threshold, global, glock, local, llock, pc, iter, reg, slot>>

\* get
Get ==
  /\ MainGo("get", "exit")
  /\ glock = Free
  /\ reg' = [reg EXCEPT ![Main] = global]
  /\ UNCHANGED <<program, threshold, global, glock, local, llock, pc, iter, slot>>

\* counter_flush: take what is in the slot, then add it to the global count.
FlushTake ==
  /\ slot < NumThreads
  /\ MainGo("flush", IF local[slot] # 0 THEN "add" ELSE "flush")
  /\ llock[slot] = Free
  /\ reg' = [reg EXCEPT ![Main] = local[slot]]
  /\ local' = [local EXCEPT ![slot] = 0]
  /\ slot' = IF local[slot] # 0 THEN slot ELSE slot + 1
  /\ UNCHANGED <<program, threshold, global, glock, llock, pc, iter>>

FlushAdd ==
  /\ MainGo("add", "flush")
  /\ glock = Free
  /\ global' = global + reg[Main]
  /\ slot' = slot + 1
  /\ UNCHANGED <<program, threshold, glock, local, llock, pc, iter, reg>>

\* The comparison with the expected total reads global without its lock: all
\* the threads are gone.
Check ==
  /\ ~(slot < NumThreads)
  /\ MainGo("flush", "exit")
  /\ reg' = [reg EXCEPT ![Main] = global]
  /\ UNCHANGED <<program, threshold, global, glock, local, llock, pc, iter, slot>>

Exited == main = "exit" /\ UNCHANGED vars

Step(t) ==
  \/ Begin(t) \/ Finish(t)
  \/ LockLocal(t) \/ AddLocal(t) \/ UnlockLocal(t)
  \/ LockGlobal(t) \/ Load(t) \/ Store(t) \/ UnlockGlobal(t) \/ FinishTransfer(t)

MainStep == Start \/ Join \/ Get \/ FlushTake \/ FlushAdd \/ Check

Next == MainStep \/ Exited \/ \E t \in Threads : Create(t) \/ Step(t)

Spec == Init /\ [][Next]_vars

\* Every thread that can take a step forever takes one.
FairSpec ==
  /\ Spec
  /\ WF_vars(MainStep)
  /\ \A t \in Threads : WF_vars(Create(t)) /\ WF_vars(Step(t))

-----------------------------------------------------------------------------
(* Properties *)

Points ==
  {"new", "barrier", "loop", "llock", "local", "lunlock", "glock", "load", "store"}
    \union {"gunlock", "reset", "done"}

TypeOK ==
  /\ program \in {"mutex", "approximate"} /\ threshold \in Thresholds
  /\ global \in Nat /\ glock \in Threads \union {Free}
  /\ local \in [Threads -> Nat] /\ llock \in [Threads -> Threads \union {Free}]
  /\ pc \in [Threads -> Points]
  /\ iter \in [Threads -> 0 .. Iters]
  /\ reg \in [Threads \union {Main} -> Nat]
  /\ main \in {"run", "get", "flush", "add", "exit"}
  /\ slot \in 0 .. NumThreads

\* A mutex is owned by the thread that is between its lock and its unlock, and
\* a thread about to store has loaded the value that is still the shared count.
\* main only takes the counter when the threads are gone.
Owners ==
  /\ \A t \in Threads :
       /\ glock = t <=> pc[t] \in {"load", "store", "gunlock"}
       /\ llock[t] = t <=>
            \/ pc[t] \in {"local", "lunlock", "reset"}
            \/ program = "approximate" /\ pc[t] \in {"glock", "load", "store", "gunlock"}
       /\ llock[t] \in {t, Free}
       /\ pc[t] = "store" => reg[t] = global
  /\ main # "run" => \A t \in Threads : pc[t] = "done"

\* A slot is below the threshold unless its count is being transferred, and the
\* mutex counter leaves the slots alone.
Slots ==
  \A t \in Threads :
    /\ local[t] <= threshold
    /\ pc[t] \notin {"glock", "load", "store", "gunlock", "reset"} => local[t] < threshold
    /\ program = "mutex" =>
         local[t] = 0 /\ pc[t] \notin {"llock", "local", "lunlock", "reset"}

\* main reads the counter of a mutex run and flushes that of an approximate one;
\* the slots it has passed are empty, and the threads have done all increments.
Flushed ==
  /\ \A t \in Threads : pc[t] = "done" => iter[t] = Iters
  /\ main = "get" => program = "mutex"
  /\ main \in {"flush", "add"} => program = "approximate"
  /\ main = "add" => slot < NumThreads /\ local[slot] = 0
  /\ \A t \in Threads : t < slot => local[t] = 0
  /\ slot > 0 => main # "run"
  /\ main = "exit" =>
       reg[Main] = global /\ (program = "approximate" => slot = NumThreads)

IInv == TypeOK /\ Owners /\ Slots /\ Flushed

\* Increments a thread has counted, in its slot or in the shared count.
Uncounted(t) ==
  IF program = "mutex" THEN pc[t] \in {"glock", "load", "store"}
                       ELSE pc[t] \in {"llock", "local"}
Counted(t) == iter[t] - (IF Uncounted(t) THEN 1 ELSE 0)
Total == MapThenSumSet(Counted, Threads)

\* What is still in a slot: nothing once its count has been stored.
Pending(t) == IF pc[t] \in {"gunlock", "reset"} THEN 0 ELSE local[t]

\* Nothing is lost and nothing counts twice: what has been counted is in the
\* shared count, in a slot, or in the hand of main on its way between them.
Conservation ==
  Total = global + MapThenSumSet(Pending, Threads) + (IF main = "add" THEN reg[Main] ELSE 0)

\* What a reader may miss of a slot: the threshold of one that is being
\* transferred, and less than that of any other.
Lag(t) == IF pc[t] \in {"glock", "load", "store"} THEN threshold ELSE threshold - 1

\* What makes the counter approximate: a reader that takes glock, as
\* counter_get does, sees at most the lag of each slot too little, and never
\* too much.
Approximation ==
  program = "approximate" /\ main # "add" =>
    Total - global \in 0 .. MapThenSumSet(Lag, Threads)

\* "Sanity: total should equal per-thread * threads": what main compares at
\* the end is the number of increments.
FinalTotal == main = "exit" => reg[Main] = NumThreads * Iters

\* Every thread finishes and main makes its check.
Termination == <>(main = "exit")
=============================================================================
