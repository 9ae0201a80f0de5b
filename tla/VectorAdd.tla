------------------------------ MODULE VectorAdd ------------------------------
(***************************************************************************)
(* chapter32: five programs whose threads add one vector to another, each  *)
(* with its own way of taking the locks of the two vectors:                *)
(*   deadlock             the destination, then the source                 *)
(*   global-order         the vector with the lower address first          *)
(*   try-wait             trylock, and back out when the second fails      *)
(*   avoid-hold-and-wait  both under a global lock                         *)
(*   nolock               none; an atomic fetch-and-add per element        *)
(* main-common.c is the harness they share.  Which program runs, and with  *)
(* which of the switches -d, -p and -v, is chosen in the initial state.    *)
(*                                                                         *)
(* Every lock operation is a step, and an element is added by a load of    *)
(* the two operands and a store of the sum.                                *)
(***************************************************************************)
EXTENDS CommonThreads, FiniteSets

CONSTANTS
  NumThreads,     \* -n
  Loops,          \* -l
  VectorSize,     \* VECTOR_SIZE
  IntRange,       \* number of values of an int (2^32 in the program)
  RetryBound      \* the count of retries stops here

ASSUME VectorAddAssumption ==
  /\ NumThreads \in Nat /\ Loops \in Nat
  /\ VectorSize \in Nat \ {0} /\ IntRange \in Nat \ {0}
  /\ RetryBound \in Nat

VARIABLES
  program,        \* which of the five programs runs
  cause_deadlock, enable_parallelism, verbose,    \* the switches
  lock,           \* the owner of each vector's lock
  global,         \* the owner of the global lock of avoid-hold-and-wait
  print_lock,     \* the owner of print_lock
  values,         \* values of each vector
  retry,          \* the statistics of try-wait
  pc, iter, i,    \* where each thread is, and its two loop variables
  reg,            \* the value each thread has loaded
  main            \* what main is doing

config == <<program, cause_deadlock, enable_parallelism, verbose>>
locks  == <<lock, global, print_lock>>
vars   == <<config, locks, values, retry, pc, iter, i, reg, main>>

Programs == {"deadlock", "global-order", "try-wait", "avoid-hold-and-wait", "nolock"}
Threads  == 0 .. NumThreads - 1
Vectors  == 0 .. 2 * NumThreads - 1
Elements == 1 .. VectorSize

Init ==
  /\ program \in Programs
  /\ cause_deadlock \in BOOLEAN /\ enable_parallelism \in BOOLEAN /\ verbose \in BOOLEAN
  /\ lock = [v \in Vectors |-> Free] /\ global = Free /\ print_lock = Free
  /\ values = [v \in Vectors |-> [e \in Elements |-> v % IntRange]]
  /\ retry = 0
  /\ pc = [t \in Threads |-> "new"]
  /\ iter = [t \in Threads |-> 0]
  /\ i = [t \in Threads |-> 1]
  /\ reg = [t \in Threads |-> 0]
  /\ main = "run"

Go(t, from, to) == pc[t] = from /\ pc' = [pc EXCEPT ![t] = to]

\* The two vectors of a thread: with -p a pair of its own, and with -d the odd
\* threads add them the other way round.
Pair(t) == IF enable_parallelism THEN <<2 * t, 2 * t + 1>> ELSE <<0, 1>>
Swaps(t) == cause_deadlock /\ t % 2 = 1
Dst(t) == IF Swaps(t) THEN Pair(t)[2] ELSE Pair(t)[1]
Src(t) == IF Swaps(t) THEN Pair(t)[1] ELSE Pair(t)[2]

-----------------------------------------------------------------------------
(* Slips a maintainer could make; no specification of this module uses them. *)

\* The addresses are compared, but the branches are the same.
FirstUnordered(t) == Dst(t)

\* The second lock is forgotten.
LockSecondSkipped(t) ==
  /\ program \in {"deadlock", "global-order", "avoid-hold-and-wait"}
  /\ Go(t, "lock2", IF program = "avoid-hold-and-wait" THEN "unglobal" ELSE "load")
  /\ UNCHANGED <<config, locks, values, retry, iter, i, reg, main>>

\* Most of the programs lose their lock calls.
BeginUnlocked == IF program = "avoid-hold-and-wait" THEN "global" ELSE "load"

-----------------------------------------------------------------------------
(* Locking in vector_add *)

\* The vector each thread locks first, and the other one.
First(t) ==
  IF program = "global-order" /\ Src(t) < Dst(t) THEN Src(t) ELSE Dst(t)
Second(t) == IF First(t) = Dst(t) THEN Src(t) ELSE Dst(t)

\* The vector each thread unlocks first, and the other one.
FirstOut(t)  == IF program = "global-order" THEN Src(t) ELSE Dst(t)
SecondOut(t) == IF program = "global-order" THEN Dst(t) ELSE Src(t)

\* The entry of vector_add.
Begin ==
  CASE program = "nolock"              -> "load"
    [] program = "avoid-hold-and-wait" -> "global"
    [] OTHER                           -> "lock1"

LockGlobal(t) ==
  /\ Go(t, "global", "lock1")
  /\ global = Free /\ global' = t
  /\ UNCHANGED <<config, lock, print_lock, values, retry, iter, i, reg, main>>

\* Also a trylock that succeeds: one that fails jumps back to try again.
LockFirst(t) ==
  /\ Go(t, "lock1", "lock2")
  /\ MutexLock(lock, First(t), t)
  /\ UNCHANGED <<config, global, print_lock, values, retry, iter, i, reg, main>>

LockSecond(t) ==
  /\ Go(t, "lock2", IF program = "avoid-hold-and-wait" THEN "unglobal" ELSE "load")
  /\ MutexLock(lock, Second(t), t)
  /\ UNCHANGED <<config, global, print_lock, values, retry, iter, i, reg, main>>

UnlockGlobal(t) ==
  /\ Go(t, "unglobal", "load")
  /\ global' = Free
  /\ UNCHANGED <<config, lock, print_lock, values, retry, iter, i, reg, main>>

\* The second trylock fails: count the retry, without protection (a load and a
\* store), unlock the destination and start again.
TrySecondFails(t) ==
  /\ program = "try-wait"
  /\ lock[Second(t)] # Free
  /\ Go(t, "lock2", "count")
  /\ reg' = [reg EXCEPT ![t] = retry]
  /\ UNCHANGED <<config, locks, values, retry, iter, i, main>>

CountRetry(t) ==
  /\ Go(t, "count", "backout")
  /\ retry' = IF reg[t] < RetryBound THEN reg[t] + 1 ELSE reg[t]
  /\ UNCHANGED <<config, locks, values, iter, i, reg, main>>

BackOut(t) ==
  /\ Go(t, "backout", "lock1")
  /\ MutexUnlock(lock, First(t))
  /\ UNCHANGED <<config, global, print_lock, values, retry, iter, i, reg, main>>

-----------------------------------------------------------------------------
(* The loop over the elements *)

\* v_dst->values[i] + v_src->values[i]; without locks only the second operand
\* is loaded, the first is added by the store.
Load(t) ==
  /\ i[t] <= VectorSize
  /\ Go(t, "load", "store")
  /\ reg' = [reg EXCEPT ![t] =
       IF program = "nolock" THEN values[Src(t)][i[t]]
       ELSE (values[Dst(t)][i[t]] + values[Src(t)][i[t]]) % IntRange]
  /\ UNCHANGED <<config, locks, values, retry, iter, i, main>>

\* What is stored: the sum, or with fetch_and_add the current value plus the
\* operand, in one atomic step.
Sum(t) ==
  IF program = "nolock" THEN (values[Dst(t)][i[t]] + reg[t]) % IntRange ELSE reg[t]

Store(t) ==
  /\ Go(t, "store", "load")
  /\ values' = [values EXCEPT ![Dst(t)][i[t]] = Sum(t)]
  /\ i' = [i EXCEPT ![t] = @ + 1]
  /\ UNCHANGED <<config, locks, retry, iter, reg, main>>

\* After the last element; without locks this is the return.
AddDone(t) ==
  /\ ~(i[t] <= VectorSize)
  /\ Go(t, "load", IF program = "nolock" THEN "added" ELSE "unlock1")
  /\ UNCHANGED <<config, locks, values, retry, iter, i, reg, main>>

UnlockFirst(t) ==
  /\ Go(t, "unlock1", "unlock2")
  /\ MutexUnlock(lock, FirstOut(t))
  /\ UNCHANGED <<config, global, print_lock, values, retry, iter, i, reg, main>>

UnlockSecond(t) ==
  /\ Go(t, "unlock2", "added")
  /\ MutexUnlock(lock, SecondOut(t))
  /\ UNCHANGED <<config, global, print_lock, values, retry, iter, i, reg, main>>

-----------------------------------------------------------------------------
(* worker and print_info *)

\* The loop of worker: call vector_add, with print_info before it under -v.
Loop(t) ==
  /\ iter[t] < Loops
  /\ Go(t, "loop", IF verbose THEN "print" ELSE Begin)
  /\ iter' = [iter EXCEPT ![t] = @ + 1]
  /\ i' = [i EXCEPT ![t] = 1]
  /\ reg' = [reg EXCEPT ![t] = 0]
  /\ UNCHANGED <<config, locks, values, retry, main>>

\* print_info before and after the call: lock, print, unlock.
LockPrint(t) ==
  /\ \/ Go(t, "print", "printing")
     \/ verbose /\ Go(t, "added", "returning")
  /\ print_lock = Free /\ print_lock' = t
  /\ UNCHANGED <<config, lock, global, values, retry, iter, i, reg, main>>

UnlockPrint(t) ==
  /\ Go(t, "printing", Begin) \/ Go(t, "returning", "loop")
  /\ print_lock' = Free
  /\ UNCHANGED <<config, lock, global, values, retry, iter, i, reg, main>>

Quietly(t) ==
  /\ ~verbose
  /\ Go(t, "added", "loop")
  /\ UNCHANGED <<config, locks, values, retry, iter, i, reg, main>>

Finish(t) ==
  /\ ~(iter[t] < Loops)
  /\ Go(t, "loop", "done")
  /\ UNCHANGED <<config, locks, values, retry, iter, i, reg, main>>

\* main creates the threads in the order of their numbers and joins them all.
Create(t) ==
  /\ \A u \in Threads : u < t => pc[u] # "new"
  /\ Go(t, "new", "loop")
  /\ UNCHANGED <<config, locks, values, retry, iter, i, reg, main>>

Join ==
  /\ main = "run"
  /\ \A t \in Threads : pc[t] = "done"
  /\ main' = "exit"
  /\ UNCHANGED <<config, locks, values, retry, pc, iter, i, reg>>

Exited == main = "exit" /\ UNCHANGED vars

Step(t) ==
  \/ LockGlobal(t) \/ LockFirst(t) \/ LockSecond(t) \/ UnlockGlobal(t)
  \/ TrySecondFails(t) \/ CountRetry(t) \/ BackOut(t)
  \/ Load(t) \/ Store(t) \/ AddDone(t) \/ UnlockFirst(t) \/ UnlockSecond(t)
  \/ Loop(t) \/ LockPrint(t) \/ UnlockPrint(t) \/ Quietly(t) \/ Finish(t)

Next == Join \/ Exited \/ \E t \in Threads : Create(t) \/ Step(t)

Spec == Init /\ [][Next]_vars

\* Every thread that can take a step forever takes one.
FairSpec ==
  /\ Spec
  /\ WF_vars(Join)
  /\ \A t \in Threads : WF_vars(Create(t)) /\ WF_vars(Step(t))

-----------------------------------------------------------------------------
(* Properties *)

\* Threads that compete for the same two vectors in both orders.
Opposed == cause_deadlock /\ ~enable_parallelism /\ NumThreads > 1

\* t is blocked in a lock call and u holds the lock.
WaitsFor(t, u) ==
  \/ pc[t] = "global" /\ global = u
  \/ pc[t] = "lock1" /\ lock[First(t)] = u
  \/ pc[t] = "lock2" /\ program # "try-wait" /\ lock[Second(t)] = u
  \/ pc[t] = "print" /\ print_lock = u
  \/ pc[t] = "added" /\ verbose /\ print_lock = u

Points ==
  {"new", "loop", "print", "printing", "global", "lock1", "lock2", "unglobal", "count", "backout"}
    \union {"load", "store", "unlock1", "unlock2", "added", "returning", "done"}

TypeOK ==
  /\ program \in Programs
  /\ {cause_deadlock, enable_parallelism, verbose} \subseteq BOOLEAN
  /\ lock \in [Vectors -> Threads \union {Free}]
  /\ {global, print_lock} \subseteq Threads \union {Free}
  /\ values \in [Vectors -> [Elements -> 0 .. IntRange - 1]]
  /\ retry \in 0 .. RetryBound
  /\ pc \in [Threads -> Points]
  /\ iter \in [Threads -> 0 .. Loops]
  /\ i \in [Threads -> 1 .. VectorSize + 1]
  /\ reg \in [Threads -> Nat]
  /\ main \in {"run", "exit"}

\* The locks of vectors a thread must hold, by where it is.
Held(t) ==
  CASE pc[t] \in {"lock2", "count", "backout"} -> {First(t)}
    [] program # "nolock" /\ pc[t] \in {"unglobal", "load", "store", "unlock1"} -> {Dst(t), Src(t)}
    [] pc[t] = "unlock2" -> {SecondOut(t)}
    [] OTHER -> {}

\* Every lock is owned by the thread that must hold it, and by nobody else: no
\* path through the five vector_add or print_info leaves one locked, unlocks
\* one it does not own, or works without one.
Owners ==
  \A t \in Threads :
    /\ {v \in Vectors : lock[v] = t} = Held(t)
    /\ global = t <=> program = "avoid-hold-and-wait" /\ pc[t] \in {"lock1", "lock2", "unglobal"}
    /\ print_lock = t <=> pc[t] \in {"printing", "returning"}

\* What a thread relies on where it is: it only gets to the lock calls of its
\* own program, and it stores an int in an element of the vector.
OnPath ==
  \A t \in Threads :
    /\ pc[t] \in {"global", "unglobal"} => program = "avoid-hold-and-wait"
    /\ pc[t] \in {"lock1", "lock2", "unlock1", "unlock2"} => program # "nolock"
    /\ pc[t] \in {"count", "backout"} => program = "try-wait"
    /\ pc[t] = "count" => reg[t] <= RetryBound
    /\ pc[t] = "store" => i[t] <= VectorSize /\ reg[t] < IntRange

IInv == TypeOK /\ Owners /\ OnPath

\* Threads wait for each other in a circle only in the program that is meant
\* to, with the switch that is documented as "turn on deadlocking behavior".
DeadlockOnlyOnRequest ==
  (\E S \in (SUBSET Threads) \ {{}} : \A t \in S : \E u \in S : WaitsFor(t, u))
    => program = "deadlock" /\ Opposed

\* Additions of whole vectors happen one after the other: all elements of a
\* vector went through the same additions in the same order, so they are equal
\* at the end.  Without locks this is lost when threads add in both directions.
Serialized ==
  main = "exit" /\ (program = "nolock" => ~Opposed)
    => \A v \in Vectors : \A e \in Elements : values[v][e] = values[v][1]

\* No addition is lost: with one direction, or a pair for each thread, the
\* destination has grown by the source once for every call.
NothingLost ==
  main = "exit" /\ ~Opposed =>
    \A t \in Threads :
      LET calls == IF enable_parallelism THEN Loops ELSE NumThreads * Loops
      IN  \A e \in Elements :
            values[Dst(t)][e] = (Dst(t) + calls * Src(t)) % IntRange

\* Every program finishes, except that with opposed threads `deadlock' can
\* deadlock and `try-wait' can go on backing out for ever.  That is all that
\* keeps `try-wait' from its end: until then somebody backs out again.
Termination ==
  /\ (Opposed => program \notin {"deadlock", "try-wait"}) ~> main = "exit"
  /\ program = "try-wait" ~> main = "exit" \/ \E t \in Threads : pc[t] = "backout"
=============================================================================
