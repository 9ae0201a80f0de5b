---------------------- MODULE BarrierAndProcessesProofs ----------------------
(***************************************************************************)
(* Proofs about Barrier, for any number of children, and about Processes,  *)
(* for any number of rounds: programs whose processes or threads wait for  *)
(* each other.                                                             *)
(*                                                                         *)
(* Barrier: nobody prints "after" before everybody has printed "before",   *)
(* and the barrier is left as it was made.  count is the number of         *)
(* children counted for as long as one is missing, so the child that       *)
(* brings it to n is the last one missing; from then on it owes as many    *)
(* tokens as there are sleepers without one.                               *)
(*                                                                         *)
(* Processes: the two processes of context_switch stay in step, and a      *)
(* parent that waits leaves no child behind.  Both rest on where each      *)
(* actor is in its code.  The parent has a wait ahead of it that returns   *)
(* for each child that has not been reaped; the positions, the numbers     *)
(* and the bytes under way in the ping-pong add up.                        *)
(***************************************************************************)
EXTENDS Processes, BarrierState, SequenceTheorems, FiniteSetTheorems, TLAPS

(***************************************************************************)
(* The barrier                                                             *)
(***************************************************************************)

Bar == INSTANCE Barrier

\* The instance counts as its host does.
LEMMA SameNumber == Bar!n = n
BY DEF Bar!n, n, Bar!Cardinality, Cardinality

USE SameNumber

CountedSet == {t \in Children : Counted(t)}

\* Counting one more child; the count is n exactly when nobody is missing.
LEMMA OneCounted ==
  ASSUME NEW t \in Children, ~Counted(t)
  PROVE  /\ Cardinality(CountedSet \union {t}) = Cardinality(CountedSet) + 1
         /\ Cardinality(CountedSet) \in Nat
         /\ Cardinality(CountedSet) + 1 = n => CountedSet \union {t} = Children
<1>1. IsFiniteSet(CountedSet)
  BY FS_Subset, BarrierAssumption DEF CountedSet, BarrierAssumption
<1>2. Cardinality(CountedSet \union {t}) = Cardinality(CountedSet) + 1
  BY <1>1, FS_AddElement DEF CountedSet
<1>3. CountedSet \union {t} \in SUBSET Children
  BY DEF CountedSet
<1>4. Cardinality(Children) = Cardinality(CountedSet \union {t})
        => CountedSet \union {t} = Children
  BY <1>3, FS_Subset, BarrierAssumption DEF BarrierAssumption
<1>5. Cardinality(CountedSet) \in Nat
  BY <1>1, FS_CardinalityType
<1>. QED  BY <1>2, <1>4, <1>5 DEF n

\* The part of BarrierInv about the children that come.
Counting == BarrierTypeOK /\ MutexIsLock /\ ClosedUntilAll

\* At the start nobody is counted and the barrier has no token.
LEMMA InitCounting == Bar!Init => Counting
<1>. SUFFICES ASSUME Bar!Init PROVE Counting
  OBVIOUS
<1>1. {t \in Children : Counted(t)} = {}
  BY DEF Counted, Bar!Init
<1>2. count = Cardinality({t \in Children : Counted(t)})
  BY <1>1, FS_EmptySet DEF Bar!Init
<1>. QED
  BY <1>2
     DEF Bar!Init, Counting, BarrierTypeOK, Points, MutexIsLock, ClosedUntilAll, InMutex, Counted

\* The counting part of the invariant is inductive on its own.
LEMMA NextCounting == Counting /\ [Bar!Next]_Bar!vars => Counting'
<1>. SUFFICES ASSUME Counting, [Bar!Next]_Bar!vars PROVE Counting'
  OBVIOUS
<1>. USE DEF Counting, Bar!Go, Bar!SemWait, Bar!SemPost
<1>n. n \in Nat
  BY FS_CardinalityType, BarrierAssumption DEF n, BarrierAssumption
<1>1. ASSUME NEW t \in Children, Bar!Create(t) \/ Bar!PrintBefore(t) \/ Bar!Arrive(t)
     PROVE Counting'
  <2>1. BarrierTypeOK' /\ MutexIsLock'
    BY <1>1 DEF Bar!Create, Bar!PrintBefore, Bar!Arrive, BarrierTypeOK, Points, MutexIsLock, InMutex
  <2>2. {u \in Children : Counted(u)}' = {u \in Children : Counted(u)}
    BY <1>1 DEF Bar!Create, Bar!PrintBefore, Bar!Arrive, BarrierTypeOK, Counted
  <2>3. ClosedUntilAll'
    BY <1>1, <2>2
       DEF Bar!Create, Bar!PrintBefore, Bar!Arrive, BarrierTypeOK, ClosedUntilAll, Counted
  <2>. QED  BY <2>1, <2>3
<1>2. ASSUME NEW t \in Children, Bar!Early(t) PROVE Counting'
  <2>1. BarrierTypeOK' /\ MutexIsLock'
    BY <1>2 DEF Bar!Early, BarrierTypeOK, Points, MutexIsLock, InMutex
  <2>2. ~Counted(t)
    BY <1>2 DEF Bar!Early, Counted
  <2>3. CountedSet' = CountedSet \union {t}
    BY <1>2 DEF Bar!Early, BarrierTypeOK, Counted, CountedSet
  <2>4. count = Cardinality(CountedSet) /\ barrier = 0
    BY <2>2 DEF ClosedUntilAll, CountedSet
  <2>5. count' = Cardinality(CountedSet')
    BY <1>2, <2>2, <2>3, <2>4, OneCounted DEF Bar!Early
  <2>6. \A u \in Children : Counted(u)' => pc'[u] = "sleep"
    BY <1>2, <2>2 DEF Bar!Early, BarrierTypeOK, ClosedUntilAll, Counted
  <2>7. ClosedUntilAll'
    BY <1>2, <2>4, <2>5, <2>6 DEF Bar!Early, ClosedUntilAll, CountedSet
  <2>. QED  BY <2>1, <2>7
\* The child that makes count equal to n is the last one missing.
<1>3. ASSUME NEW t \in Children, Bar!Last(t) PROVE Counting'
  <2>1. BarrierTypeOK' /\ MutexIsLock'
    BY <1>3 DEF Bar!Last, BarrierTypeOK, Points, MutexIsLock, InMutex
  <2>2. ~Counted(t)
    BY <1>3 DEF Bar!Last, Counted
  <2>3. CountedSet' = CountedSet \union {t}
    BY <1>3 DEF Bar!Last, BarrierTypeOK, Counted, CountedSet
  <2>4. count = Cardinality(CountedSet)
    BY <2>2 DEF ClosedUntilAll, CountedSet
  <2>5. CountedSet' = Children
    BY <1>3, <2>2, <2>3, <2>4, OneCounted DEF Bar!Last
  <2>6. ClosedUntilAll'
    BY <2>5 DEF ClosedUntilAll, CountedSet
  <2>. QED  BY <2>1, <2>6
\* From here on somebody has been let through, so everybody is counted.
<1>4. ASSUME NEW t \in Children, Bar!Post(t) \/ Bar!Open(t) \/ Bar!Pass(t) \/ Bar!PrintAfter(t)
     PROVE Counting'
  <2>1. BarrierTypeOK'
    BY <1>4
       DEF Bar!Post, Bar!Open, Bar!Pass, Bar!PrintAfter, BarrierTypeOK, Points, MutexIsLock, InMutex
  <2>2. MutexIsLock'
    BY <1>4 DEF Bar!Post, Bar!Open, Bar!Pass, Bar!PrintAfter, BarrierTypeOK, MutexIsLock, InMutex
  <2>3. \A u \in Children : Counted(u)
    BY <1>4 DEF Bar!Post, Bar!Open, Bar!Pass, Bar!PrintAfter, ClosedUntilAll, Counted
  <2>4. \A u \in Children : Counted(u)'
    BY <1>4, <2>3 DEF Bar!Post, Bar!Open, Bar!Pass, Bar!PrintAfter, BarrierTypeOK, Counted
  <2>5. ClosedUntilAll'
    BY <2>4 DEF ClosedUntilAll
  <2>. QED  BY <2>1, <2>2, <2>5
<1>5. CASE Bar!Join \/ UNCHANGED Bar!vars
  <2>1. {u \in Children : Counted(u)}' = {u \in Children : Counted(u)}
    BY <1>5 DEF Bar!Join, Bar!vars, Counted
  <2>. QED
    BY <1>5, <2>1
       DEF Bar!Join, Bar!vars, BarrierTypeOK, MutexIsLock, InMutex, ClosedUntilAll, Counted
<1>. QED  BY <1>1, <1>2, <1>3, <1>4, <1>5 DEF Bar!Next, Bar!Step, Bar!Exited

-----------------------------------------------------------------------------
(* The children that go *)

\* The sleepers are finitely many; one that wakes is one less.
LEMMA OneWoken ==
  /\ IsFiniteSet(Sleepers) /\ Cardinality(Sleepers) \in Nat
  /\ Cardinality(Sleepers) = 0 <=> Sleepers = {}
  /\ \A t \in Sleepers : Cardinality(Sleepers \ {t}) = Cardinality(Sleepers) - 1
<1>1. IsFiniteSet(Sleepers)
  BY FS_Subset, BarrierAssumption DEF Sleepers, BarrierAssumption
<1>. QED  BY <1>1, FS_CardinalityType, FS_EmptySet, FS_RemoveElement

\* The last child to come finds all the others asleep; every post pays one
\* token of what it owes, and every child that passes takes one.
LEMMA NextTokens == Counting /\ Tokens /\ [Bar!Next]_Bar!vars => Tokens'
<1>. SUFFICES ASSUME Counting, Tokens, [Bar!Next]_Bar!vars PROVE Tokens'
  OBVIOUS
<1>. USE DEF Counting, BarrierTypeOK, Bar!Go, Bar!SemWait, Bar!SemPost
<1>n. n \in Nat
  BY FS_CardinalityType, BarrierAssumption DEF n, BarrierAssumption
<1>1. ASSUME NEW t \in Children, Bar!Create(t) \/ Bar!PrintBefore(t) \/ Bar!Arrive(t) PROVE Tokens'
  <2>1. ~Counted(t)'
    BY <1>1 DEF Bar!Create, Bar!PrintBefore, Bar!Arrive, Counted
  <2>. QED  BY <2>1 DEF Tokens
<1>2. ASSUME NEW t \in Children, Bar!Early(t) PROVE Tokens'
  <2>1. ~Counted(t) /\ count = Cardinality(CountedSet)
    BY <1>2 DEF Bar!Early, Counted, ClosedUntilAll, CountedSet
  <2>2. Cardinality(CountedSet \union {t}) # n
    BY <1>2, <2>1, OneCounted DEF Bar!Early
  <2>3. CountedSet \union {t} # Children
    BY <2>2 DEF n
  <2>4. CountedSet' = CountedSet \union {t}
    BY <1>2 DEF Bar!Early, Counted, CountedSet
  <2>5. ~ \A u \in Children : Counted(u)'
    BY <2>3, <2>4 DEF CountedSet
  <2>. QED  BY <2>5 DEF Tokens
<1>3. ASSUME NEW t \in Children, Bar!Last(t) PROVE Tokens'
  <2>1. ~Counted(t) /\ count = Cardinality(CountedSet) /\ barrier = 0
    BY <1>3 DEF Bar!Last, Counted, ClosedUntilAll, CountedSet
  <2>2. CountedSet \union {t} = Children
    BY <1>3, <2>1, OneCounted DEF Bar!Last
  <2>3. Sleepers' = Children \ {t}
    BY <1>3, <2>1, <2>2 DEF Bar!Last, ClosedUntilAll, CountedSet, Sleepers
  <2>4. Cardinality(Children \ {t}) = n - 1
    BY FS_RemoveElement, BarrierAssumption DEF n, BarrierAssumption
  <2>5. pc'[t] = "post" /\ i'[t] = 0 /\ barrier' = 0 /\ 0 <= n - 1
    BY <1>3, <1>n, <2>1, <2>3, <2>4, FS_CardinalityType, FS_RemoveElement, BarrierAssumption
       DEF Bar!Last, BarrierAssumption
  <2>6. n' = n
    BY DEF n
  <2>7. barrier' + (n - 1 - i'[t]) = n - 1
    BY <1>n, <2>5
  <2>. QED  BY <2>3, <2>4, <2>5, <2>6, <2>7 DEF Tokens
<1>4. ASSUME NEW t \in Children, Bar!Post(t) \/ Bar!Open(t) \/ Bar!Pass(t) \/ Bar!PrintAfter(t)
     PROVE Tokens'
  <2>0. n' = n
    BY DEF n
  <2>1. \A u \in Children : Counted(u)
    BY <1>4 DEF Bar!Post, Bar!Open, Bar!Pass, Bar!PrintAfter, ClosedUntilAll, Counted
  <2>2. CASE Bar!Post(t)
    <3>1. i[t] <= n - 1 /\ barrier + (n - 1 - i[t]) = Cardinality(Sleepers)
      BY <2>1, <2>2 DEF Bar!Post, Tokens, MutexIsLock, InMutex
    <3>2. Sleepers' = Sleepers /\ pc'[t] = "post" /\ i'[t] = i[t] + 1 /\ barrier' = barrier + 1
      BY <2>2 DEF Bar!Post, Sleepers
    <3>3. i'[t] <= n - 1 /\ barrier' + (n - 1 - i'[t]) = Cardinality(Sleepers')
      BY <1>n, <2>2, <3>1, <3>2 DEF Bar!Post, Bar!Posts
    <3>. QED  BY <2>0, <3>2, <3>3 DEF Tokens
  <2>3. CASE Bar!Open(t)
    <3>1. i[t] <= n - 1 /\ barrier + (n - 1 - i[t]) = Cardinality(Sleepers)
      BY <2>1, <2>3 DEF Bar!Open, Tokens, MutexIsLock, InMutex
    <3>2. Sleepers' = Sleepers /\ barrier' = barrier /\ count' = 0
      BY <2>3 DEF Bar!Open, Sleepers
    <3>3. \A u \in Children : pc'[u] # "post"
      BY <2>3 DEF Bar!Open, MutexIsLock, InMutex
    <3>4. barrier = Cardinality(Sleepers)
      BY <1>n, <2>3, <3>1, OneWoken DEF Bar!Open, Bar!Posts
    <3>. QED  BY <3>2, <3>3, <3>4 DEF Tokens
  <2>4. CASE Bar!Pass(t)
    <3>1. t \in Sleepers /\ Sleepers' = Sleepers \ {t} /\ barrier' = barrier - 1
      BY <2>4 DEF Bar!Pass, Sleepers
    <3>2. Cardinality(Sleepers') = Cardinality(Sleepers) - 1 /\ Cardinality(Sleepers) \in Nat
      BY <3>1, OneWoken
    <3>3. UNCHANGED <<i, count>> /\ \A u \in Children : pc'[u] = "post" <=> pc[u] = "post"
      BY <2>4 DEF Bar!Pass
    <3>4. CASE \A u \in Children : pc[u] # "post"
      BY <2>1, <3>1, <3>2, <3>3, <3>4 DEF Tokens
    <3>5. ASSUME NEW u \in Children, pc[u] = "post" PROVE Tokens'
      <4>1. i[u] <= n - 1 /\ barrier + (n - 1 - i[u]) = Cardinality(Sleepers)
        BY <2>1, <3>5 DEF Tokens, MutexIsLock, InMutex
      <4>2. barrier' + (n - 1 - i'[u]) = Cardinality(Sleepers')
        BY <1>n, <3>1, <3>2, <3>3, <4>1
      <4>. QED  BY <2>0, <3>3, <3>5, <4>1, <4>2 DEF Tokens
    <3>. QED  BY <3>4, <3>5
  <2>5. CASE Bar!PrintAfter(t)
    <3>1. Sleepers' = Sleepers /\ UNCHANGED <<i, count, barrier>>
      BY <2>5 DEF Bar!PrintAfter, Sleepers
    <3>2. \A u \in Children : pc'[u] = "post" <=> pc[u] = "post"
      BY <2>5 DEF Bar!PrintAfter
    <3>. QED  BY <2>0, <2>1, <3>1, <3>2 DEF Tokens
  <2>. QED  BY <1>4, <2>2, <2>3, <2>4, <2>5
<1>5. CASE Bar!Join \/ UNCHANGED Bar!vars
  <2>1. UNCHANGED <<pc, i, count, barrier, n, Sleepers>>
    BY <1>5 DEF Bar!Join, Bar!vars, n, Sleepers
  <2>. QED  BY <2>1 DEF Tokens, Counted
<1>. QED  BY <1>1, <1>2, <1>3, <1>4, <1>5 DEF Bar!Next, Bar!Step, Bar!Exited

\* At the start there are no sleepers and no tokens to give.
LEMMA InitBarrier == Bar!Init => BarrierInv
<1>1. Bar!Init => Tokens
  BY BarrierAssumption DEF BarrierAssumption, Bar!Init, Tokens, Counted
<1>. QED  BY <1>1, InitCounting DEF BarrierInv, Counting, Bar!Init

\* Every step keeps the whole invariant: the tokens still to come are
\* those of the sleepers.
LEMMA NextBarrier == BarrierInv /\ [Bar!Next]_Bar!vars => BarrierInv'
<1>. SUFFICES ASSUME BarrierInv, [Bar!Next]_Bar!vars PROVE BarrierInv'
  OBVIOUS
<1>1. Counting' /\ Tokens'
  BY NextCounting, NextTokens DEF BarrierInv, Counting
<1>2. ASSUME main' = "exit" PROVE \A t \in Children : pc'[t] = "done"
  <2>1. CASE Bar!Join \/ UNCHANGED Bar!vars
    BY <1>2, <2>1 DEF Bar!Join, Bar!vars, BarrierInv
  <2>2. ASSUME NEW t \in Children, Bar!Create(t) \/ Bar!Step(t) PROVE FALSE
    BY <1>2, <2>2 DEF BarrierInv, Bar!Go, Bar!Create, Bar!Step, Bar!PrintBefore, Bar!Arrive,
           Bar!Early, Bar!Last, Bar!Post, Bar!Open, Bar!Pass,
       Bar!PrintAfter
  <2>. QED  BY <2>1, <2>2 DEF Bar!Next, Bar!Exited
<1>. QED  BY <1>1, <1>2 DEF BarrierInv, Counting

\* Every state of every run satisfies the inductive invariant of barrier.c.
THEOREM BarrierInvariance == Bar!Spec => []BarrierInv
<1>. QED  BY InitBarrier, NextBarrier, PTL DEF Bar!Spec

\* "Each child should print their before message before either prints their
\* after message", for any number of children.
THEOREM BarrierOrdering == Bar!Spec => []BeforeAfter
<1>1. BarrierInv => BeforeAfter
  BY DEF BarrierInv, ClosedUntilAll, BeforeAfter, Counted
<1>. QED  BY <1>1, BarrierInvariance, PTL

\* When main exits, mutex, barrier and count are as barrier_init made them.
THEOREM BarrierRestoration == Bar!Spec => []Restored
<1>1. ASSUME BarrierInv, main = "exit" PROVE mutex = 1 /\ barrier = 0 /\ count = 0
  <2>1. \A t \in Children : pc[t] = "done"
    BY <1>1 DEF BarrierInv
  <2>2. mutex = 1
    BY <1>1, <2>1 DEF BarrierInv, BarrierTypeOK, MutexIsLock, InMutex
  <2>3. Sleepers = {} /\ Cardinality(Sleepers) = 0
    BY <2>1, OneWoken DEF Sleepers
  <2>. QED  BY <1>1, <2>1, <2>2, <2>3 DEF BarrierInv, Tokens, Counted
<1>2. BarrierInv => Restored
  BY <1>1 DEF Restored
<1>. QED  BY <1>2, BarrierInvariance, PTL

(***************************************************************************)
(* The processes                                                           *)
(***************************************************************************)

(* What the code of the programs looks like                                *)

Offspring == {"child", "child2"}

Calls ==
  [op : {"print"}, line : LineNames, ended : BOOLEAN]
    \union [op : {"set"}, by : Int, keep : {0, 1}]
    \union [op : {"pipe"}, name : Pipes]
    \union [op : {"open", "close"}, fd : Descriptors]
    \union [op : {"dup2"}, from : Descriptors, to : Descriptors]
    \union [op : {"write"}, fd : Descriptors, line : LineNames]
    \union [op : {"read"}, fd : Descriptors, n : Nat, must : BOOLEAN]
    \union [op : {"fork", "create"}, child : Offspring]
    \union [op : {"wait"}, children : SUBSET Actors]
    \union [op : {"exec"}] \union [op : {"exit"}, flush : BOOLEAN]
    \union [op : {"post", "await"}, sem : {"s1", "s2"}]

\* The operations of processes, and those of threads.
Begins    == {"fork", "create"}
ProcessOps ==
  {"print", "set", "pipe", "open", "close", "dup2", "write", "read"}
    \union {"fork", "wait", "exec", "exit"}
ThreadOps == {"print", "create", "wait", "exit", "post", "await"}

\* What the fields of a call may hold.
LEMMA CallFields ==
  ASSUME NEW c \in Calls
  PROVE  /\ c.op = "print" => c.line \in LineNames
         /\ c.op = "set" => c.by \in Int /\ c.keep \in {0, 1}
         /\ c.op = "pipe" => c.name \in Pipes
         /\ c.op \in {"open", "close", "write", "read"} => c.fd \in Descriptors
         /\ c.op = "dup2" => c.from \in Descriptors /\ c.to \in Descriptors
         /\ c.op = "write" => c.line \in LineNames
         /\ c.op = "read" => c.n \in Nat
         /\ c.op \in Begins => c.child \in Offspring
         /\ c.op = "wait" => c.children \subseteq Actors
         /\ c.op \in {"post", "await"} => c.sem \in {"s1", "s2"}
BY DEF Calls, Begins

\* Calls that begin and end nothing.
Simple(ops) == {c \in Calls : c.op \in ops \ (Begins \union {"exit"})}

\* One such call is a sequence of them.
LEMMA SimpleCalls ==
  ASSUME NEW ops
  PROVE  /\ "print" \in ops => \A x \in LineNames :
              Printf(x) \in Seq(Simple(ops)) /\ PrintfRaw(x) \in Seq(Simple(ops))
         /\ "set" \in ops => \A x \in Int :
              Set(x) \in Seq(Simple(ops)) /\ Add(x) \in Seq(Simple(ops))
         /\ "pipe" \in ops => \A x \in Pipes : Pipe(x) \in Seq(Simple(ops))
         /\ "open" \in ops => \A x \in Descriptors : Open(x) \in Seq(Simple(ops))
         /\ "close" \in ops => \A x \in Descriptors : Close(x) \in Seq(Simple(ops))
         /\ "dup2" \in ops => \A x, y \in Descriptors : Dup2(x, y) \in Seq(Simple(ops))
         /\ "write" \in ops => \A x \in Descriptors, y \in LineNames :
              Write(x, y) \in Seq(Simple(ops))
         /\ "read" \in ops => \A x \in Descriptors, y \in Nat :
              Read(x, y) \in Seq(Simple(ops)) /\ ReadAll(x, y) \in Seq(Simple(ops))
         /\ "wait" \in ops => /\ \A x \in SUBSET Actors : Wait(x) \in Seq(Simple(ops))
                              /\ \A x \in Offspring : Join(x) \in Seq(Simple(ops))
         /\ "exec" \in ops => Exec \in Seq(Simple(ops))
         /\ {"post", "await"} \subseteq ops => \A x \in {"s1", "s2"} :
              Post(x) \in Seq(Simple(ops)) /\ Await(x) \in Seq(Simple(ops))
<1>. USE DEF Simple, Begins
<1>1. ASSUME NEW x \in LineNames, "print" \in ops
      PROVE  Printf(x) \in Seq(Simple(ops)) /\ PrintfRaw(x) \in Seq(Simple(ops))
  BY <1>1 DEF Calls, Printf, PrintfRaw
<1>2. ASSUME NEW x \in Int, "set" \in ops
      PROVE  Set(x) \in Seq(Simple(ops)) /\ Add(x) \in Seq(Simple(ops))
  BY <1>2 DEF Calls, Set, Add
<1>3. ASSUME NEW x \in Pipes, "pipe" \in ops PROVE Pipe(x) \in Seq(Simple(ops))
  BY <1>3 DEF Calls, Pipe
<1>4. ASSUME NEW x \in Descriptors, "open" \in ops PROVE Open(x) \in Seq(Simple(ops))
  BY <1>4 DEF Calls, Open
<1>5. ASSUME NEW x \in Descriptors, "close" \in ops PROVE Close(x) \in Seq(Simple(ops))
  BY <1>5 DEF Calls, Close
<1>6. ASSUME NEW x \in Descriptors, NEW y \in Descriptors, "dup2" \in ops
      PROVE  Dup2(x, y) \in Seq(Simple(ops))
  BY <1>6 DEF Calls, Dup2
<1>7. ASSUME NEW x \in Descriptors, NEW y \in LineNames, "write" \in ops
      PROVE  Write(x, y) \in Seq(Simple(ops))
  BY <1>7 DEF Calls, Write
<1>8. ASSUME NEW x \in Descriptors, NEW y \in Nat, "read" \in ops
      PROVE  Read(x, y) \in Seq(Simple(ops)) /\ ReadAll(x, y) \in Seq(Simple(ops))
  BY <1>8 DEF Calls, Read, ReadAll
<1>9. ASSUME NEW x \in SUBSET Actors, "wait" \in ops PROVE Wait(x) \in Seq(Simple(ops))
  BY <1>9 DEF Calls, Wait
<1>10. ASSUME NEW x \in Offspring, "wait" \in ops PROVE Join(x) \in Seq(Simple(ops))
  BY <1>10 DEF Calls, Join, Offspring, Actors
<1>11. ASSUME "exec" \in ops PROVE Exec \in Seq(Simple(ops))
  BY <1>11 DEF Calls, Exec
<1>12. ASSUME NEW x \in {"s1", "s2"}, {"post", "await"} \subseteq ops
       PROVE  Post(x) \in Seq(Simple(ops)) /\ Await(x) \in Seq(Simple(ops))
  BY <1>12 DEF Calls, Post, Await
<1>. HIDE DEF Simple
<1>. QED
  BY <1>1, <1>2, <1>3, <1>4, <1>5, <1>6, <1>7, <1>8, <1>9, <1>10, <1>11, <1>12

\* A sequence over a larger set.
LEMMA Wider ==
  ASSUME NEW S, NEW T, S \subseteq T, NEW s \in Seq(S)
  PROVE  s \in Seq(T)
<1>1. \A k \in 1 .. Len(s) : s[k] \in T
  OBVIOUS
<1>2. s = [k \in 1 .. Len(s) |-> s[k]] /\ Len(s) \in Nat
  OBVIOUS
<1>. DEFINE size == Len(s)  At2(k) == s[k]
<1>3. size \in Nat /\ \A k \in 1 .. size : At2(k) \in T
  BY <1>1, <1>2
<1>. HIDE DEF size, At2
<1>4. [k \in 1 .. size |-> At2(k)] \in Seq(T)
  BY <1>3
<1>. QED  BY <1>2, <1>4 DEF size, At2

\* Two sequences, one after the other.
LEMMA Concatenated ==
  ASSUME NEW S, NEW s \in Seq(S), NEW t \in Seq(S)
  PROVE  /\ s \o t \in Seq(S) /\ Len(s \o t) = Len(s) + Len(t)
         /\ Len(s) \in Nat /\ Len(t) \in Nat
         /\ \A k \in 1 .. Len(s) : (s \o t)[k] = s[k]
         /\ \A k \in 1 .. Len(t) : (s \o t)[Len(s) + k] = t[k]
OBVIOUS

\* One element behind a sequence.
LEMMA Lengthened ==
  ASSUME NEW S, NEW s \in Seq(S), NEW e \in Seq(S), NEW u, u = s \o e
  PROVE  Len(e) = 1 =>
         /\ u \in Seq(S) /\ Len(u) = Len(s) + 1 /\ Len(s) \in Nat
         /\ \A k \in 1 .. Len(s) : u[k] = s[k]
         /\ u[Len(s) + 1] = e[1]
<1>1. /\ u \in Seq(S) /\ Len(u) = Len(s) + Len(e)
      /\ Len(s) \in Nat /\ Len(e) \in Nat
      /\ \A k \in 1 .. Len(s) : u[k] = s[k]
      /\ \A k \in 1 .. Len(e) : u[Len(s) + k] = e[k]
  BY Concatenated
<1>2. ASSUME Len(e) = 1 PROVE u[Len(s) + 1] = e[1]
  BY <1>1, <1>2
<1>3. ASSUME Len(e) = 1 PROVE Len(u) = Len(s) + 1
  BY <1>1, <1>3
<1>. QED  BY <1>1, <1>2, <1>3

-----------------------------------------------------------------------------
(* A main program as it grows: which children it has started, and which of *)
(* them it has still to wait for.                                          *)

\* A wait that returns for c, if only those in start have been started.
WaitsFor(call, c, start) ==
  call.op = "wait" /\ c \in call.children /\ call.children \intersect start \subseteq {c}

BodyCalls(ops, start) ==
  {c \in Calls : c.op \in ops \ {"exit", "exec"} /\ (c.op \in Begins => c.child \in start)}

Body(s, ops, start, owed) ==
  /\ s \in Seq(BodyCalls(ops, start))
  /\ \A k \in 1 .. Len(s) : s[k].op \in Begins /\ s[k].child \notin owed =>
       \E j \in k + 1 .. Len(s) : WaitsFor(s[j], s[k].child, start)

\* Without a child yet.
LEMMA BodyBegins ==
  ASSUME NEW ops, NEW start, NEW s \in Seq(Simple(ops \ {"exec"}))
  PROVE  Body(s, ops, start, {})
<1>1. Simple(ops \ {"exec"}) \subseteq BodyCalls(ops, start)
  BY DEF Simple, BodyCalls
<1>2. \A k \in 1 .. Len(s) : s[k] \in Simple(ops \ {"exec"})
  OBVIOUS
<1>3. s \in Seq(BodyCalls(ops, start))
  BY <1>1, Wider
<1>4. \A k \in 1 .. Len(s) : s[k].op \notin Begins
  BY <1>2 DEF Simple
<1>. QED  BY <1>3, <1>4 DEF Body

\* Another sequence of calls, that may start children but does not wait.
LEMMA BodyGrows ==
  ASSUME NEW ops, NEW start, NEW owed, NEW more, NEW s, Body(s, ops, start, owed),
         NEW t \in Seq(BodyCalls(ops, start)),
         \A k \in 1 .. Len(t) : t[k].op \in Begins => t[k].child \in more
  PROVE  Body(s \o t, ops, start, owed \union more)
<1>1. s \in Seq(BodyCalls(ops, start))
  BY DEF Body
<1>2. /\ s \o t \in Seq(BodyCalls(ops, start)) /\ Len(s \o t) = Len(s) + Len(t)
      /\ Len(s) \in Nat /\ Len(t) \in Nat
      /\ \A k \in 1 .. Len(s) : (s \o t)[k] = s[k]
      /\ \A k \in 1 .. Len(t) : (s \o t)[Len(s) + k] = t[k]
  BY <1>1, Concatenated
<1>. DEFINE u == s \o t
<1>. HIDE DEF u
<1>3. ASSUME NEW k \in 1 .. Len(u), u[k].op \in Begins, u[k].child \notin owed \union more
      PROVE  \E j \in k + 1 .. Len(u) : WaitsFor(u[j], u[k].child, start)
  <2>1. CASE k \in 1 .. Len(s)
    <3>1. u[k] = s[k]
      BY <1>2, <2>1 DEF u
    <3>2. PICK j \in k + 1 .. Len(s) : WaitsFor(s[j], s[k].child, start)
      BY <1>3, <2>1, <3>1 DEF Body
    <3>3. j \in 1 .. Len(s) /\ j \in k + 1 .. Len(u)
      BY <1>2, <2>1 DEF u
    <3>4. u[j] = s[j]
      BY <1>2, <3>3 DEF u
    <3>. QED  BY <3>1, <3>2, <3>3, <3>4
  <2>2. CASE k \notin 1 .. Len(s)
    <3>. DEFINE h == k - Len(s)
    <3>1. h \in 1 .. Len(t) /\ k = Len(s) + h
      BY <1>2, <2>2 DEF u
    <3>. HIDE DEF h
    <3>2. u[k] = t[h]
      BY <1>2, <3>1 DEF u
    <3>. QED  BY <1>3, <3>1, <3>2
  <2>. QED  BY <2>1, <2>2
<1>. QED  BY <1>2, <1>3 DEF Body, u

\* Calls that start nobody.
LEMMA BodyGoesOn ==
  ASSUME NEW ops, NEW start, NEW owed, NEW s, Body(s, ops, start, owed),
         NEW t \in Seq(Simple(ops \ {"exec"}))
  PROVE  Body(s \o t, ops, start, owed)
<1>1. Simple(ops \ {"exec"}) \subseteq BodyCalls(ops, start)
  BY DEF Simple, BodyCalls
<1>2. \A k \in 1 .. Len(t) : t[k] \in Simple(ops \ {"exec"})
  OBVIOUS
<1>3. t \in Seq(BodyCalls(ops, start))
  BY <1>1, Wider
<1>4. \A k \in 1 .. Len(t) : t[k].op \in Begins => t[k].child \in {}
  BY <1>2 DEF Simple
<1>5. Body(s \o t, ops, start, owed \union {})
  BY <1>3, <1>4, BodyGrows
<1>. QED  BY <1>5

\* A child is started.
LEMMA BodyStarts ==
  ASSUME NEW ops, NEW start \in SUBSET Offspring, NEW owed, NEW s, Body(s, ops, start, owed),
         NEW c \in start
  PROVE  /\ "fork" \in ops => Body(s \o Fork(c), ops, start, owed \union {c})
         /\ "create" \in ops => Body(s \o Create(c), ops, start, owed \union {c})
<1>1. ASSUME "fork" \in ops PROVE Fork(c) \in Seq(BodyCalls(ops, start))
  BY <1>1 DEF Fork, BodyCalls, Calls, Begins
<1>2. ASSUME "create" \in ops PROVE Create(c) \in Seq(BodyCalls(ops, start))
  BY <1>2 DEF Create, BodyCalls, Calls, Begins
<1>3. \A k \in 1 .. Len(Fork(c)) : Fork(c)[k].op \in Begins => Fork(c)[k].child \in {c}
  BY DEF Fork
<1>4. \A k \in 1 .. Len(Create(c)) : Create(c)[k].op \in Begins => Create(c)[k].child \in {c}
  BY DEF Create
<1>. QED  BY <1>1, <1>2, <1>3, <1>4, BodyGrows

\* A child is waited for.
LEMMA BodyWaits ==
  ASSUME NEW ops, NEW start, NEW owed, NEW s, Body(s, ops, start, owed), "wait" \in ops,
         NEW c, NEW children \in SUBSET Actors, c \in children,
         children \intersect start \subseteq {c}
  PROVE  Body(s \o Wait(children), ops, start, owed \ {c})
<1>. DEFINE t == Wait(children)  u == s \o t  m == Len(s) + 1
<1>1. t \in Seq(BodyCalls(ops, start)) /\ Len(t) = 1
  BY DEF Wait, BodyCalls, Calls, Begins
<1>2. WaitsFor(t[1], c, start)
  BY DEF Wait, WaitsFor
<1>3. s \in Seq(BodyCalls(ops, start))
  BY DEF Body
<1>. HIDE DEF t
<1>4. /\ u \in Seq(BodyCalls(ops, start)) /\ Len(u) = m /\ Len(s) \in Nat
      /\ \A k \in 1 .. Len(s) : u[k] = s[k]
      /\ u[m] = t[1]
  BY <1>1, <1>3, Concatenated
<1>. HIDE DEF u
<1>5. t[1].op = "wait"
  BY <1>2 DEF WaitsFor
<1>6. ASSUME NEW k \in 1 .. Len(u), u[k].op \in Begins, u[k].child \notin owed \ {c}
      PROVE  \E j \in k + 1 .. Len(u) : WaitsFor(u[j], u[k].child, start)
  <2>1. k # m
    BY <1>4, <1>5, <1>6 DEF Begins
  <2>2. k \in 1 .. Len(s) /\ u[k] = s[k]
    BY <1>4, <2>1
  <2>3. CASE u[k].child = c
    <3>1. m \in k + 1 .. Len(u)
      BY <1>4, <2>2
    <3>. QED  BY <1>2, <1>4, <2>3, <3>1
  <2>4. CASE u[k].child # c
    <3>1. PICK j \in k + 1 .. Len(s) : WaitsFor(s[j], s[k].child, start)
      BY <1>6, <2>2, <2>4 DEF Body
    <3>2. j \in 1 .. Len(s) /\ j \in k + 1 .. Len(u)
      BY <1>4, <2>2
    <3>3. u[j] = s[j]
      BY <1>4, <3>2
    <3>. QED  BY <2>2, <3>1, <3>2, <3>3
  <2>. QED  BY <2>3, <2>4
<1>. QED  BY <1>4, <1>6 DEF Body, u, t

-----------------------------------------------------------------------------
(* Whole programs *)

\* Every code ends with its only exit; only the parent starts others, which
\* have a code; and the parent never execs.
Formed(code, ops) ==
  /\ code \in [Actors -> Seq(Calls)]
  /\ Len(code["parent"]) > 0
  /\ \A a \in Actors : \A k \in 1 .. Len(code[a]) :
       /\ code[a][k].op \in ops
       /\ code[a][k].op = "exit" <=> k = Len(code[a])
       /\ code[a][k].op \in Begins => a = "parent" /\ Len(code[code[a][k].child]) > 0
       /\ a = "parent" => code[a][k].op # "exec"

\* Those that have a code.
Started(code) == {c \in Offspring : Len(code[c]) > 0}

\* Whoever the parent starts it waits for later.
Awaited(code) ==
  \A k \in 1 .. Len(code["parent"]) : code["parent"][k].op \in Begins =>
    \E j \in k + 1 .. Len(code["parent"]) :
      WaitsFor(code["parent"][j], code["parent"][k].child, Started(code))

\* The code of a child.
ChildCode(s, ops) ==
  \E t \in Seq(Simple(ops)), e \in {Return, ExitNow} : s = t \o e

\* The end of a code.
LEMMA Ending ==
  ASSUME NEW e \in {Return, ExitNow}
  PROVE  e \in Seq(Calls) /\ Len(e) = 1 /\ e[1].op = "exit"
<1>1. CASE e = Return
  BY <1>1 DEF Return, Calls
<1>2. CASE e = ExitNow
  BY <1>2 DEF ExitNow, Calls
<1>. QED  BY <1>1, <1>2

\* What a child's code is like.
LEMMA ChildFormed ==
  ASSUME NEW ops, NEW s, ChildCode(s, ops), "exit" \in ops
  PROVE  /\ s \in Seq(Calls) /\ Len(s) > 0
         /\ \A k \in 1 .. Len(s) : /\ s[k].op \in ops /\ s[k].op \notin Begins
                                   /\ s[k].op = "exit" <=> k = Len(s)
<1>1. PICK t \in Seq(Simple(ops)), e \in {Return, ExitNow} : s = t \o e
  BY DEF ChildCode
<1>2. t \in Seq(Calls)
  BY Wider DEF Simple
<1>3. e \in Seq(Calls) /\ Len(e) = 1 /\ e[1].op = "exit"
  BY Ending
<1>4. /\ s \in Seq(Calls) /\ Len(s) = Len(t) + 1 /\ Len(t) \in Nat
      /\ \A k \in 1 .. Len(t) : s[k] = t[k]
      /\ s[Len(t) + 1] = e[1]
  BY <1>1, <1>2, <1>3, Concatenated
<1>5. \A k \in 1 .. Len(t) : t[k] \in Simple(ops)
  OBVIOUS
<1>6. ASSUME NEW k \in 1 .. Len(s)
      PROVE  s[k].op \in ops /\ s[k].op \notin Begins /\ (s[k].op = "exit" <=> k = Len(s))
  <2>1. CASE k \in 1 .. Len(t)
    <3>1. s[k] \in Simple(ops) /\ k # Len(s)
      BY <1>4, <1>5, <2>1
    <3>. QED  BY <3>1 DEF Simple
  <2>2. CASE k \notin 1 .. Len(t)
    <3>1. k = Len(t) + 1
      BY <1>4, <2>2
    <3>. QED  BY <1>3, <1>4, <3>1 DEF Begins
  <2>. QED  BY <2>1, <2>2
<1>. QED  BY <1>4, <1>6

\* A program put together from the three codes.
LEMMA Program ==
  ASSUME NEW ops, "exit" \in ops, NEW start \in SUBSET Offspring, NEW owed,
         NEW s, NEW e \in {Return, ExitNow}, Body(s, ops, start, owed),
         NEW c, IF "child" \in start THEN ChildCode(c, ops) ELSE c = <<>>,
         NEW d, IF "child2" \in start THEN ChildCode(d, ops) ELSE d = <<>>
  PROVE  /\ Formed(Code(s \o e, c, d), ops)
         /\ owed = {} => Awaited(Code(s \o e, c, d))
<1>p. PICK p : p = s \o e
  OBVIOUS
<1>. DEFINE code == Code(p, c, d)
<1>1. /\ s \in Seq(BodyCalls(ops, start))
      /\ \A k \in 1 .. Len(s) : s[k].op \in Begins /\ s[k].child \notin owed =>
           \E j \in k + 1 .. Len(s) : WaitsFor(s[j], s[k].child, start)
  BY DEF Body
<1>2. e \in Seq(Calls) /\ Len(e) = 1 /\ e[1].op = "exit"
  BY Ending
<1>3. s \in Seq(Calls)
  BY <1>1, Wider DEF BodyCalls
<1>. HIDE DEF code
<1>4. /\ p \in Seq(Calls) /\ Len(p) = Len(s) + 1 /\ Len(s) \in Nat
      /\ \A k \in 1 .. Len(s) : p[k] = s[k]
      /\ p[Len(s) + 1] = e[1]
  BY <1>p, <1>2, <1>3, Lengthened
<1>5. \A k \in 1 .. Len(s) : s[k] \in BodyCalls(ops, start)
  BY <1>1
<1>6. <<>> \in Seq(Calls) /\ Len(<<>>) = 0
  OBVIOUS
<1>7. c \in Seq(Calls) /\ d \in Seq(Calls)
  BY <1>6, ChildFormed
<1>8. code["parent"] = p /\ code["child"] = c /\ code["child2"] = d
  BY DEF Code, Actors, code
<1>9. code \in [Actors -> Seq(Calls)]
  BY <1>4, <1>7 DEF Code, code
<1>10. Started(code) = start
  <2>1. Len(c) > 0 <=> "child" \in start
    BY <1>6, ChildFormed
  <2>2. Len(d) > 0 <=> "child2" \in start
    BY <1>6, ChildFormed
  <2>. QED  BY <1>8, <2>1, <2>2 DEF Started, Offspring
<1>11. ASSUME NEW k \in 1 .. Len(p)
       PROVE  /\ p[k].op \in ops /\ p[k].op # "exec"
              /\ p[k].op = "exit" <=> k = Len(p)
              /\ p[k].op \in Begins => Len(code[p[k].child]) > 0
  <2>1. CASE k \in 1 .. Len(s)
    <3>1. p[k] \in BodyCalls(ops, start) /\ k # Len(p)
      BY <1>4, <1>5, <2>1
    <3>2. p[k].op \in Begins => p[k].child \in start
      BY <3>1 DEF BodyCalls
    <3>3. p[k].op \in Begins => Len(code[p[k].child]) > 0
      BY <3>2, <1>10 DEF Started
    <3>. QED  BY <3>1, <3>3 DEF BodyCalls
  <2>2. CASE k \notin 1 .. Len(s)
    <3>1. k = Len(s) + 1
      BY <1>4, <2>2
    <3>. QED  BY <1>2, <1>4, <3>1 DEF Begins
  <2>. QED  BY <2>1, <2>2
<1>12. ASSUME NEW x \in {c, d}, NEW k \in 1 .. Len(x)
       PROVE  /\ x[k].op \in ops /\ x[k].op \notin Begins
              /\ x[k].op = "exit" <=> k = Len(x)
  <2>1. x # <<>>
    BY <1>6, <1>12
  <2>2. ChildCode(x, ops)
    BY <2>1
  <2>. QED  BY <2>2, ChildFormed
<1>13. Formed(code, ops)
  <2>1. ASSUME NEW a \in Actors, NEW k \in 1 .. Len(code[a])
        PROVE  /\ code[a][k].op \in ops
               /\ code[a][k].op = "exit" <=> k = Len(code[a])
               /\ code[a][k].op \in Begins => a = "parent" /\ Len(code[code[a][k].child]) > 0
               /\ a = "parent" => code[a][k].op # "exec"
    <3>1. CASE a = "parent"
      BY <3>1, <1>8, <1>11
    <3>2. CASE a # "parent"
      <4>1. code[a] \in {c, d}
        BY <3>2, <1>8 DEF Actors
      <4>. QED  BY <3>2, <4>1, <1>12
    <3>. QED  BY <3>1, <3>2
  <2>2. Len(code["parent"]) > 0
    BY <1>4, <1>8
  <2>. QED  BY <1>9, <2>1, <2>2 DEF Formed
<1>14. ASSUME owed = {}, NEW k \in 1 .. Len(p), p[k].op \in Begins
       PROVE  \E j \in k + 1 .. Len(p) : WaitsFor(p[j], p[k].child, start)
  <2>1. k # Len(p)
    BY <1>11, <1>14 DEF Begins
  <2>2. k \in 1 .. Len(s) /\ p[k] = s[k]
    BY <1>4, <2>1
  <2>3. PICK j \in k + 1 .. Len(s) : WaitsFor(s[j], s[k].child, start)
    BY <1>1, <1>14, <2>2
  <2>4. j \in 1 .. Len(s) /\ j \in k + 1 .. Len(p)
    BY <1>4, <2>2
  <2>5. p[j] = s[j]
    BY <1>4, <2>4
  <2>. QED  BY <2>2, <2>3, <2>4, <2>5
<1>15. owed = {} => Awaited(code)
  BY <1>8, <1>10, <1>14 DEF Awaited
<1>. QED  BY <1>p, <1>13, <1>15 DEF code

-----------------------------------------------------------------------------
(* The programs of ProcessPrograms *)

\* A round of two calls, repeated.
LEMMA Repeated ==
  ASSUME NEW S, NEW s \in Seq(S), Len(s) = 2, NEW r \in Nat
  PROVE  /\ Times(r, s) \in Seq(S) /\ Len(Times(r, s)) = 2 * r
         /\ \A j \in 1 .. 2 * r : Times(r, s)[j] = s[((j - 1) % 2) + 1]
<1>1. r * Len(s) = 2 * r
  OBVIOUS
<1>2. \A j \in 1 .. 2 * r :
        ((j - 1) % Len(s)) + 1 = ((j - 1) % 2) + 1 /\ ((j - 1) % 2) + 1 \in 1 .. Len(s)
  OBVIOUS
<1>3. Times(r, s) = [j \in 1 .. 2 * r |-> s[((j - 1) % 2) + 1]]
  BY <1>1, <1>2 DEF Times
<1>. DEFINE m == 2 * r  At2(j) == s[((j - 1) % 2) + 1]
<1>4. m \in Nat
  OBVIOUS
<1>5. \A j \in 1 .. m : At2(j) \in S
  <2>1. \A x \in 1 .. Len(s) : s[x] \in S
    OBVIOUS
  <2>. QED  BY <1>2, <2>1
<1>6. Times(r, s) = [j \in 1 .. m |-> At2(j)]
  BY <1>3
<1>. HIDE DEF m, At2
<1>7. Times(r, s) \in Seq(S) /\ Len(Times(r, s)) = m /\ \A j \in 1 .. m : Times(r, s)[j] = At2(j)
  BY <1>4, <1>5, <1>6
<1>. QED  BY <1>7 DEF m, At2

\* A single call, repeated.
LEMMA SixTimes ==
  ASSUME NEW S, Exec \in Seq(S)
  PROVE  Times(6, Exec) \in Seq(S)
<1>1. Len(Exec) = 1 /\ 6 * Len(Exec) = 6
  BY DEF Exec
<1>2. Times(6, Exec) = [j \in 1 .. 6 |-> Exec[((j - 1) % 1) + 1]]
  BY <1>1 DEF Times
<1>3. \A j \in 1 .. 6 : ((j - 1) % 1) + 1 = 1
  OBVIOUS
<1>4. Times(6, Exec) = [j \in 1 .. 6 |-> Exec[1]]
  BY <1>2, <1>3
<1>5. Exec[1] \in S
  BY <1>1
<1>. DEFINE x == Exec[1]
<1>. HIDE DEF x
<1>6. [j \in 1 .. 6 |-> x] \in Seq(S)
  BY <1>5 DEF x
<1>. QED  BY <1>4, <1>6 DEF x

\* The strings of the programs are lines and descriptors.
LEMMA Names ==
  /\ {"before fork", "calling fork", "parent x", "child x", "parent text", "child text"}
        \subseteq LineNames
  /\ {"hello", "goodbye", "x", "parent", "child", "parent waited", "child waited"}
        \subseteq LineNames
  /\ {"before close", "wrote in", "test", "cost", "begin", "end"} \subseteq LineNames
  /\ {"before 1", "before 2", "after 1", "after 2"} \subseteq LineNames
  /\ {"stdin", "stdout", "file", "p[0]", "p[1]", "q[0]", "q[1]"} \subseteq Descriptors
  /\ Anyone \in SUBSET Actors /\ {"child"} \in SUBSET Actors /\ {"child2"} \in SUBSET Actors
BY DEF LineNames, Descriptors, Ends, Anyone, Actors

\* The programs with one child are formed well, and those that wait do.
LEMMA SingleCodes ==
  /\ \A code \in {q1, q2, q3, q3_without_wait, q4, q5, q6, q7} : Formed(code, ProcessOps)
  /\ \A code \in {q3, q5, q6, q7} : Awaited(code)
<1>. DEFINE S == Seq(Simple(ProcessOps \ {"exec"}))
            B(s, owed) == Body(s, ProcessOps, {"child"}, owed)
            C(s) == ChildCode(s, ProcessOps)
            Forms(code) == Formed(code, ProcessOps)
<1>o. {"print", "set", "pipe", "open", "close", "dup2", "write", "read", "wait"}
        \subseteq ProcessOps \ {"exec"}
  BY DEF ProcessOps
<1>p. \A x \in LineNames : Printf(x) \in S
  BY <1>o, SimpleCalls
<1>z. \A x \in Int : Set(x) \in S /\ Add(x) \in S
  BY <1>o, SimpleCalls
<1>a. \A x \in SUBSET Actors : Wait(x) \in S
  BY <1>o, SimpleCalls
<1>d. \A x \in Descriptors : Open(x) \in S /\ Close(x) \in S
  BY <1>o, SimpleCalls
<1>r. \A x \in Descriptors, y \in LineNames : Write(x, y) \in S
  BY <1>o, SimpleCalls
<1>n. \A x \in Descriptors : Read(x, 1) \in S
  BY <1>o, SimpleCalls
<1>i. Pipe("p") \in S
  BY <1>o, SimpleCalls DEF Pipes
<1>e. <<>> \in S
  OBVIOUS
<1>c. \A s, t \in S : s \o t \in S
  BY Concatenated
<1>h. \A t \in S : C(t \o Return) /\ C(t \o ExitNow)
  BY Wider DEF ChildCode, Simple
<1>b. \A t \in S : B(t, {})
  BY BodyBegins
<1>g. \A s, owed : \A t \in S : B(s, owed) => B(s \o t, owed)
  BY BodyGoesOn
<1>f. \A s : B(s, {}) => B(s \o Fork("child"), {"child"})
  BY BodyStarts DEF ProcessOps, Offspring
<1>w. \A s : B(s, {"child"}) => B(s \o Wait(Anyone), {}) /\ B(s \o Wait({"child"}), {})
  <2>1. "wait" \in ProcessOps /\ {"child"} \ {"child"} = {}
    BY DEF ProcessOps
  <2>2. /\ "child" \in Anyone /\ Anyone \intersect {"child"} \subseteq {"child"}
        /\ "child" \in {"child"} /\ {"child"} \intersect {"child"} \subseteq {"child"}
    BY DEF Anyone, Actors
  <2>3. ASSUME NEW s, B(s, {"child"}), NEW children \in SUBSET Actors, "child" \in children,
               children \intersect {"child"} \subseteq {"child"}
        PROVE  B(s \o Wait(children), {})
    BY <2>1, <2>3, BodyWaits
  <2>. HIDE DEF B
  <2>. QED  BY <2>2, <2>3, Names
<1>x. ASSUME NEW s, NEW owed, B(s, owed), NEW c, C(c)
      PROVE  /\ Forms(Code(s \o Return, c, <<>>))
             /\ owed = {} => Awaited(Code(s \o Return, c, <<>>))
  <2>1. {"child"} \in SUBSET Offspring /\ "child" \in {"child"} /\ "child2" \notin {"child"}
    BY DEF Offspring
  <2>2. "exit" \in ProcessOps /\ Return \in {Return, ExitNow}
    BY DEF ProcessOps
  <2>. QED  BY <1>x, <2>1, <2>2, Program
<1>. HIDE DEF S, B, C, Forms
<1>u. /\ \A s, owed : \A t \in S : B(s, owed) => /\ Forms(Code(s \o Return, t \o Return, <<>>))
                                                 /\ Forms(Code(s \o Return, t \o ExitNow, <<>>))
      /\ \A s : \A t \in S : B(s, {}) => Awaited(Code(s \o Return, t \o Return, <<>>))
  BY <1>h, <1>x
<1>s. Set(100) \in S /\ Add(10) \in S /\ Add(50) \in S
  <2>1. 100 \in Int /\ 10 \in Int /\ 50 \in Int
    OBVIOUS
  <2>. QED  BY <1>z, <2>1
<1>k. BeforeFork \in S
  BY <1>p, <1>c, Names DEF BeforeFork
<1>1. Forms(q1)
  <2>. DEFINE A == Set(100) \o BeforeFork \o Fork("child")
              Z == Printf("child x") \o Add(50) \o Printf("child x")
  <2>1. Printf("parent x") \in S /\ Printf("child x") \in S
    BY <1>p, Names
  <2>2. Z \in S
    BY <2>1, <1>s, <1>c
  <2>3. B(A, {"child"})
    BY <1>s, <1>k, <1>c, <1>b, <1>f
  <2>4. q1 = Code(A \o Printf("parent x") \o Add(10) \o Printf("parent x") \o Return,
                  Z \o Return, <<>>)
    BY DEF q1
  <2>. HIDE DEF A, Z
  <2>5. B(A \o Printf("parent x") \o Add(10) \o Printf("parent x"), {"child"})
    BY <2>1, <2>3, <1>s, <1>g
  <2>. QED  BY <2>2, <2>4, <2>5, <1>u
<1>2. Forms(q2)
  <2>. DEFINE A == Open("file") \o BeforeFork \o Fork("child")
              Z == Write("file", "child text")
  <2>1. Write("file", "parent text") \in S /\ Z \in S /\ Open("file") \in S
    BY <1>r, <1>d, Names
  <2>2. B(A, {"child"})
    BY <2>1, <1>k, <1>c, <1>b, <1>f
  <2>3. q2 = Code(A \o Write("file", "parent text") \o Return, Z \o Return, <<>>)
    BY DEF q2
  <2>. HIDE DEF A, Z
  <2>4. B(A \o Write("file", "parent text"), {"child"})
    BY <2>1, <2>2, <1>g
  <2>. QED  BY <2>1, <2>3, <2>4, <1>u
<1>3. Forms(q3) /\ Awaited(q3)
  <2>. DEFINE A == BeforeFork \o Fork("child") \o Wait(Anyone)
  <2>1. Printf("hello") \in S /\ Printf("goodbye") \in S
    BY <1>p, Names
  <2>2. B(A, {})
    BY <1>k, <1>b, <1>f, <1>w
  <2>3. q3 = Code(A \o Printf("goodbye") \o Return, Printf("hello") \o Return, <<>>)
    BY DEF q3
  <2>. HIDE DEF A
  <2>4. B(A \o Printf("goodbye"), {})
    BY <2>1, <2>2, <1>g
  <2>. QED  BY <2>1, <2>3, <2>4, <1>u
<1>4. Forms(q3_without_wait)
  <2>. DEFINE A == Pipe("p") \o Fork("child")
              Y == Write("stdout", "goodbye")
              Z == Write("stdout", "hello") \o Close("p[0]") \o Write("p[1]", "x") \o Close("p[1]")
  <2>1. Close("p[0]") \in S /\ Close("p[1]") \in S /\ Read("p[0]", 1) \in S
    BY <1>d, <1>n, Names
  <2>2. Y \in S /\ Write("stdout", "hello") \in S /\ Write("p[1]", "x") \in S
    BY <1>r, Names
  <2>3. Z \in S
    BY <2>1, <2>2, <1>c
  <2>4. B(A, {"child"})
    BY <1>i, <1>b, <1>f
  <2>5. q3_without_wait =
          Code(A \o Close("p[1]") \o Read("p[0]", 1) \o Close("p[0]") \o Y \o Return,
                Z \o ExitNow, <<>>)
    BY DEF q3_without_wait
  <2>. HIDE DEF A, Y, Z
  <2>6. B(A \o Close("p[1]") \o Read("p[0]", 1) \o Close("p[0]") \o Y, {"child"})
    BY <2>1, <2>2, <2>4, <1>g
  <2>. QED  BY <2>3, <2>5, <2>6, <1>u
<1>5. Forms(q4)
  <2>1. B(Fork("child"), {"child"})
    <3>1. B(<<>> \o Fork("child"), {"child"})
      BY <1>e, <1>b, <1>f
    <3>2. <<>> \o Fork("child") = Fork("child")
      BY DEF Fork
    <3>. QED  BY <3>1, <3>2
  <2>2. Times(6, Exec) \in Seq(Simple(ProcessOps))
    <3>1. Exec \in Seq(Simple(ProcessOps))
      BY SimpleCalls DEF ProcessOps
    <3>. QED  BY <3>1, SixTimes
  <2>3. C(Times(6, Exec) \o Return)
    BY <2>2 DEF C, ChildCode
  <2>. QED  BY <2>1, <2>3, <1>x DEF q4
<1>6. Forms(q5) /\ Awaited(q5)
  <2>. DEFINE A == Fork("child")
              Z == Printf("child") \o Wait(Anyone) \o Printf("child waited")
  <2>1. /\ Printf("parent") \in S /\ Printf("parent waited") \in S
        /\ Printf("child") \in S /\ Printf("child waited") \in S
    BY <1>p, Names
  <2>2. Z \in S
    BY <2>1, <1>a, <1>c, Names
  <2>3. B(A, {"child"})
    <3>1. B(<<>> \o Fork("child"), {"child"})
      BY <1>e, <1>b, <1>f
    <3>2. <<>> \o Fork("child") = Fork("child")
      BY DEF Fork
    <3>. QED  BY <3>1, <3>2
  <2>4. q5 = Code(A \o Printf("parent") \o Wait(Anyone) \o Printf("parent waited") \o Return,
                  Z \o Return, <<>>)
    BY DEF q5
  <2>. HIDE DEF A, Z
  <2>5. B(A \o Printf("parent") \o Wait(Anyone) \o Printf("parent waited"), {})
    BY <2>1, <2>3, <1>g, <1>w
  <2>. QED  BY <2>2, <2>4, <2>5, <1>u
<1>7. Forms(q6) /\ Awaited(q6)
  <2>. DEFINE A == Fork("child")
  <2>1. Printf("parent") \in S /\ Printf("parent waited") \in S /\ Printf("child") \in S
    BY <1>p, Names
  <2>2. B(A, {"child"})
    <3>1. B(<<>> \o Fork("child"), {"child"})
      BY <1>e, <1>b, <1>f
    <3>2. <<>> \o Fork("child") = Fork("child")
      BY DEF Fork
    <3>. QED  BY <3>1, <3>2
  <2>3. q6 = Code(A \o Printf("parent") \o Wait({"child"}) \o Printf("parent waited") \o Return,
                  Printf("child") \o Return, <<>>)
    BY DEF q6
  <2>. HIDE DEF A
  <2>4. B(A \o Printf("parent") \o Wait({"child"}) \o Printf("parent waited"), {})
    BY <2>1, <2>2, <1>g, <1>w
  <2>. QED  BY <2>1, <2>3, <2>4, <1>u
<1>8. Forms(q7) /\ Awaited(q7)
  <2>. DEFINE A == BeforeFork \o Fork("child") \o Wait(Anyone)
              Z == Printf("before close") \o Close("stdout") \o Printf("hello")
  <2>1. Printf("hello") \in S /\ Printf("goodbye") \in S /\ Printf("before close") \in S
    BY <1>p, Names
  <2>2. Close("stdout") \in S
    BY <1>d, Names
  <2>3. Z \in S
    BY <2>1, <2>2, <1>c
  <2>4. B(A, {})
    BY <1>k, <1>b, <1>f, <1>w
  <2>5. q7 = Code(A \o Printf("goodbye") \o Return, Z \o Return, <<>>)
    BY DEF q7
  <2>. HIDE DEF A, Z
  <2>6. B(A \o Printf("goodbye"), {})
    BY <2>1, <2>4, <1>g
  <2>. QED  BY <2>3, <2>5, <2>6, <1>u
<1>. QED  BY <1>1, <1>2, <1>3, <1>4, <1>5, <1>6, <1>7, <1>8 DEF Forms

\* The calls behind the last if of q8.c, behind those before it.
LEMMA Behind ==
  ASSUME NEW second \in SUBSET Actors, NEW s \in Seq(Calls)
  PROVE  s \o q8_end(second)
           = s \o Close("p[0]") \o Close("p[1]") \o Wait({"child"}) \o Wait(second) \o Return
<1>. DEFINE T == Seq(Calls)
<1>1. "close" \in ProcessOps /\ "wait" \in ProcessOps
  BY DEF ProcessOps
<1>2. "p[0]" \in Descriptors /\ "p[1]" \in Descriptors /\ {"child"} \in SUBSET Actors
  BY Names
<1>3. \A t \in Seq(Simple(ProcessOps)) : t \in T
  <2>1. Simple(ProcessOps) \subseteq Calls
    BY DEF Simple
  <2>. QED  BY <2>1, Wider
<1>4. \A x \in Descriptors : Close(x) \in T
  BY <1>1, <1>3, SimpleCalls
<1>5. \A x \in SUBSET Actors : Wait(x) \in T
  BY <1>1, <1>3, SimpleCalls
<1>6. Return \in T
  BY Ending
<1>. DEFINE cat(x, y) == x \o y
<1>7. \A x, y \in T : cat(x, y) \in T
  BY Concatenated
<1>8. \A x, y, z \in T : cat(x, cat(y, z)) = cat(cat(x, y), z)
  BY ConcatAssociative
<1>9. s \in T
  OBVIOUS
<1>. HIDE DEF T, cat
<1>10. PICK a, b, c, d \in T :
         a = Close("p[0]") /\ b = Close("p[1]") /\ c = Wait({"child"}) /\ d = Wait(second)
  BY <1>2, <1>4, <1>5
<1>11. cat(a, b) \in T /\ cat(cat(a, b), c) \in T /\ cat(cat(cat(a, b), c), d) \in T
  BY <1>7
<1>12. cat(s, cat(cat(cat(cat(a, b), c), d), Return))
         = cat(cat(s, cat(cat(cat(a, b), c), d)), Return)
  BY <1>6, <1>8, <1>9, <1>11
<1>13. cat(s, cat(cat(cat(a, b), c), d)) = cat(cat(s, cat(cat(a, b), c)), d)
  BY <1>8, <1>9, <1>11
<1>14. cat(s, cat(cat(a, b), c)) = cat(cat(s, cat(a, b)), c)
  BY <1>8, <1>9, <1>11
<1>15. cat(s, cat(a, b)) = cat(cat(s, a), b)
  BY <1>8, <1>9
<1>16. cat(s, cat(cat(cat(cat(a, b), c), d), Return))
         = cat(cat(cat(cat(cat(s, a), b), c), d), Return)
  BY <1>12, <1>13, <1>14, <1>15
<1>. QED  BY <1>10, <1>16 DEF q8_end, cat

\* The program with two children, each of which is waited for by its name.
LEMMA TwoChildren == Formed(q8, ProcessOps) /\ Awaited(q8)
<1>. DEFINE S == Seq(Simple(ProcessOps \ {"exec"}))
            B(s, owed) == Body(s, ProcessOps, Offspring, owed)
            C(s) == ChildCode(s, ProcessOps)
<1>o. {"print", "pipe", "close", "dup2", "read", "wait"} \subseteq ProcessOps \ {"exec"}
  BY DEF ProcessOps
<1>p. \A x \in LineNames : Printf(x) \in S /\ PrintfRaw(x) \in S
  BY <1>o, SimpleCalls
<1>a. \A x \in SUBSET Actors : Wait(x) \in S
  BY <1>o, SimpleCalls
<1>d. \A x \in Descriptors : Close(x) \in S
  BY <1>o, SimpleCalls
<1>2. \A x, y \in Descriptors : Dup2(x, y) \in S
  BY <1>o, SimpleCalls
<1>n. \A x \in Descriptors, y \in Nat : Read(x, y) \in S
  BY <1>o, SimpleCalls
<1>i. Pipe("p") \in S
  BY <1>o, SimpleCalls DEF Pipes
<1>c. \A s, t \in S : s \o t \in S
  BY Concatenated
<1>h. \A t \in S : C(t \o Return)
  BY Wider DEF ChildCode, Simple
<1>b. \A t \in S : B(t, {})
  BY BodyBegins
<1>g. \A s, owed : \A t \in S : B(s, owed) => B(s \o t, owed)
  BY BodyGoesOn
<1>f. ASSUME NEW s, NEW owed, B(s, owed), NEW c \in Offspring
      PROVE  B(s \o Fork(c), owed \union {c})
  <2>1. "fork" \in ProcessOps /\ Offspring \in SUBSET Offspring
    BY DEF ProcessOps
  <2>. QED  BY <1>f, <2>1, BodyStarts
<1>w. ASSUME NEW s, NEW owed, B(s, owed), NEW c \in Offspring
      PROVE  B(s \o Wait({c}), owed \ {c})
  <2>1. "wait" \in ProcessOps
    BY DEF ProcessOps
  <2>2. {c} \in SUBSET Actors /\ c \in {c} /\ {c} \intersect Offspring \subseteq {c}
    BY DEF Offspring, Actors
  <2>. QED  BY <1>w, <2>1, <2>2, BodyWaits
<1>x. ASSUME NEW s, B(s, {}), NEW c, C(c), NEW d, C(d)
      PROVE  Formed(Code(s \o Return, c, d), ProcessOps) /\ Awaited(Code(s \o Return, c, d))
  <2>1. Offspring \in SUBSET Offspring /\ "child" \in Offspring /\ "child2" \in Offspring
    BY DEF Offspring
  <2>2. "exit" \in ProcessOps /\ Return \in {Return, ExitNow}
    BY DEF ProcessOps
  <2>. QED  BY <1>x, <2>1, <2>2, Program
<1>y. \A s, owed : B(s, owed) => s \in Seq(Calls)
  BY Wider DEF Body, BodyCalls
<1>z. \A t \in S : t \in Seq(Calls)
  BY Wider DEF Simple
<1>. HIDE DEF S, B, C
<1>1. \A x \in {"p[0]", "p[1]", "stdin", "stdout"} : x \in Descriptors
  BY Names
<1>3. Close("p[0]") \in S /\ Close("p[1]") \in S
  BY <1>1, <1>d
<1>4. Dup2("p[1]", "stdout") \in S /\ Dup2("p[0]", "stdin") \in S
  <2>1. /\ "p[0]" \in Descriptors /\ "p[1]" \in Descriptors
        /\ "stdin" \in Descriptors /\ "stdout" \in Descriptors
    BY <1>1
  <2>. QED  BY <1>2, <2>1
<1>5. Read("stdin", len1) \in S /\ Read("p[0]", len2) \in S
  <2>1. len1 \in Nat /\ len2 \in Nat
    BY DEF len1, len2
  <2>2. "p[0]" \in Descriptors /\ "stdin" \in Descriptors
    BY <1>1
  <2>. QED  BY <1>n, <2>1, <2>2
<1>6. Printf("wrote in") \in S /\ PrintfRaw("test") \in S
  BY <1>p, Names
<1>7. "child" \in Offspring /\ "child2" \in Offspring
  BY DEF Offspring
<1>8. Wait({"child"}) \in S /\ Wait(Anyone) \in S
  BY <1>a, Names
\* The parent.
<1>. DEFINE P == Pipe("p") \o Fork("child") \o Fork("child2")
            P2 == P \o Close("p[0]") \o Close("p[1]") \o Wait({"child"}) \o Wait({"child2"})
<1>9. B(P, {"child", "child2"})
  <2>1. B(Pipe("p") \o Fork("child"), {} \union {"child"})
    BY <1>i, <1>b, <1>f, <1>7
  <2>2. B(Pipe("p") \o Fork("child") \o Fork("child2"), ({} \union {"child"}) \union {"child2"})
    BY <2>1, <1>f, <1>7
  <2>3. ({} \union {"child"}) \union {"child2"} = {"child", "child2"}
    OBVIOUS
  <2>. QED  BY <2>2, <2>3
<1>10. P \in Seq(Calls)
  BY <1>9, <1>y
<1>. HIDE DEF P
<1>11. B(P2, {})
  <2>1. B(P \o Close("p[0]") \o Close("p[1]"), {"child", "child2"})
    BY <1>9, <1>3, <1>g
  <2>2. B(P2, ({"child", "child2"} \ {"child"}) \ {"child2"})
    BY <2>1, <1>w, <1>7
  <2>3. ({"child", "child2"} \ {"child"}) \ {"child2"} = {}
    OBVIOUS
  <2>. QED  BY <2>2, <2>3
<1>12. P \o q8_end({"child2"}) = P2 \o Return
  BY <1>10, Behind, Names
<1>. HIDE DEF P2
\* The children.
<1>. DEFINE Y == Close("p[0]") \o Dup2("p[1]", "stdout") \o Close("p[1]") \o Printf("wrote in")
            Z == Close("p[1]") \o Dup2("p[0]", "stdin") \o Read("stdin", len1) \o Read("p[0]", len2)
                   \o PrintfRaw("test")
            Z2 == Z \o Close("p[0]") \o Close("p[1]") \o Wait({"child"}) \o Wait(Anyone)
<1>13. Y \in S
  BY <1>3, <1>4, <1>6, <1>c
<1>14. Z \in S
  BY <1>3, <1>4, <1>5, <1>6, <1>c
<1>. HIDE DEF Y, Z
<1>15. Z2 \in S
  BY <1>3, <1>8, <1>14, <1>c
<1>16. Z \o q8_end(Anyone) = Z2 \o Return
  BY <1>14, <1>z, Behind, Names
<1>. HIDE DEF Z2
<1>17. q8 = Code(P \o q8_end({"child2"}), Y \o Return, Z \o q8_end(Anyone))
  BY DEF q8, P, Y, Z
<1>18. C(Y \o Return) /\ C(Z2 \o Return)
  BY <1>13, <1>15, <1>h
<1>. QED  BY <1>11, <1>12, <1>16, <1>17, <1>18, <1>x

\* The two-thread programs are formed well, and rendezvous.c joins its threads.
LEMMA ThreadCodes ==
  Formed(rendezvous, ThreadOps) /\ Formed(fork_join, ThreadOps) /\ Awaited(rendezvous)
<1>. DEFINE S == Seq(Simple(ThreadOps \ {"exec"}))
            B(s, start, owed) == Body(s, ThreadOps, start, owed)
            C(s) == ChildCode(s, ThreadOps)
<1>o. {"print", "post", "await", "wait"} \subseteq ThreadOps \ {"exec"}
  BY DEF ThreadOps
<1>p. \A x \in LineNames : Printf(x) \in S
  BY <1>o, SimpleCalls
<1>m. Post("s1") \in S /\ Post("s2") \in S /\ Await("s1") \in S /\ Await("s2") \in S
  <2>1. {"post", "await"} \subseteq ThreadOps \ {"exec"}
    BY <1>o
  <2>. QED  BY <2>1, SimpleCalls
<1>c. \A s, t \in S : s \o t \in S
  BY Concatenated
<1>h. \A t \in S : C(t \o Return)
  BY Wider DEF ChildCode, Simple
<1>b. \A t \in S : \A start : B(t, start, {})
  BY BodyBegins
<1>g. \A s, start, owed : \A t \in S : B(s, start, owed) => B(s \o t, start, owed)
  BY BodyGoesOn
<1>f. ASSUME NEW s, NEW start \in SUBSET Offspring, NEW owed, B(s, start, owed), NEW c \in start
      PROVE  B(s \o Create(c), start, owed \union {c})
  <2>1. "create" \in ThreadOps
    BY DEF ThreadOps
  <2>. QED  BY <1>f, <2>1, BodyStarts
<1>w. ASSUME NEW s, NEW start \in SUBSET Offspring, NEW owed, B(s, start, owed), NEW c \in Offspring
      PROVE  B(s \o Join(c), start, owed \ {c})
  <2>1. "wait" \in ThreadOps
    BY DEF ThreadOps
  <2>2. {c} \in SUBSET Actors /\ c \in {c} /\ {c} \intersect start \subseteq {c}
    BY DEF Offspring, Actors
  <2>3. Join(c) = Wait({c})
    BY DEF Join, Wait
  <2>. QED  BY <1>w, <2>1, <2>2, <2>3, BodyWaits
<1>k. /\ "child" \in Offspring /\ "child2" \in Offspring
      /\ Offspring \in SUBSET Offspring /\ {"child"} \in SUBSET Offspring
  BY DEF Offspring
<1>e. "exit" \in ThreadOps /\ Return \in {Return, ExitNow}
  BY DEF ThreadOps
<1>x. ASSUME NEW s, B(s, Offspring, {}), NEW c, C(c), NEW d, C(d)
      PROVE  Formed(Code(s \o Return, c, d), ThreadOps) /\ Awaited(Code(s \o Return, c, d))
  BY <1>e, <1>k, <1>x, Program
<1>y. ASSUME NEW s, NEW owed, B(s, {"child"}, owed), NEW c, C(c)
      PROVE  Formed(Code(s \o Return, c, <<>>), ThreadOps)
  <2>1. "child" \in {"child"} /\ "child2" \notin {"child"}
    OBVIOUS
  <2>. QED  BY <1>e, <1>k, <1>y, <2>1, Program
<1>. HIDE DEF S, B, C
<1>1. Formed(rendezvous, ThreadOps) /\ Awaited(rendezvous)
  <2>. DEFINE P == Printf("begin") \o Create("child") \o Create("child2")
                     \o Join("child") \o Join("child2")
              Y == Printf("before 1") \o Post("s2") \o Await("s1") \o Printf("after 1")
              Z == Printf("before 2") \o Post("s1") \o Await("s2") \o Printf("after 2")
  <2>1. /\ Printf("begin") \in S /\ Printf("end") \in S /\ Printf("before 1") \in S
        /\ Printf("after 1") \in S /\ Printf("before 2") \in S /\ Printf("after 2") \in S
    BY <1>p, Names
  <2>2. Y \in S /\ Z \in S
    BY <2>1, <1>m, <1>c
  <2>3. B(P, Offspring, {})
    <3>1. B(Printf("begin") \o Create("child"), Offspring, {} \union {"child"})
      BY <2>1, <1>b, <1>f, <1>k
    <3>2. B(Printf("begin") \o Create("child") \o Create("child2"), Offspring,
            ({} \union {"child"}) \union {"child2"})
      BY <3>1, <1>f, <1>k
    <3>3. B(P, Offspring, ((({} \union {"child"}) \union {"child2"}) \ {"child"}) \ {"child2"})
      BY <3>2, <1>w, <1>k
    <3>4. ((({} \union {"child"}) \union {"child2"}) \ {"child"}) \ {"child2"} = {}
      OBVIOUS
    <3>. QED  BY <3>3, <3>4
  <2>4. rendezvous = Code(P \o Printf("end") \o Return, Y \o Return, Z \o Return)
    BY DEF rendezvous
  <2>. HIDE DEF P, Y, Z
  <2>5. B(P \o Printf("end"), Offspring, {})
    BY <2>1, <2>3, <1>g
  <2>6. C(Y \o Return) /\ C(Z \o Return)
    BY <2>2, <1>h
  <2>. QED  BY <2>4, <2>5, <2>6, <1>x
<1>2. Formed(fork_join, ThreadOps)
  <2>. DEFINE P == Printf("begin") \o Create("child")
              Y == Printf("child") \o Post("s1")
  <2>1. Printf("begin") \in S /\ Printf("end") \in S /\ Printf("child") \in S
    BY <1>p, Names
  <2>2. Y \in S
    BY <2>1, <1>m, <1>c
  <2>3. B(P, {"child"}, {} \union {"child"})
    BY <2>1, <1>b, <1>f, <1>k
  <2>4. fork_join = Code(P \o Await("s1") \o Printf("end") \o Return, Y \o Return, <<>>)
    BY DEF fork_join
  <2>. HIDE DEF P, Y
  <2>5. B(P \o Await("s1") \o Printf("end"), {"child"}, {} \union {"child"})
    BY <2>1, <2>3, <1>m, <1>g
  <2>6. C(Y \o Return)
    BY <2>2, <1>h
  <2>. QED  BY <2>4, <2>5, <2>6, <1>y
<1>. QED  BY <1>1, <1>2

-----------------------------------------------------------------------------
(* context_switch.c, for any number of rounds *)

\* A round of the parent and of the child, and what they do before the rounds.
Ping == Write("p[1]", "x") \o ReadAll("q[0]", 1)
Pong == ReadAll("p[0]", 1) \o Write("q[1]", "x")
ParentHead == Pipe("p") \o Pipe("q") \o Fork("child") \o Close("p[0]") \o Close("q[1]")
ChildHead  == Close("p[1]") \o Close("q[0]")

\* The rounds that are run with the argument it.
Rounds(it) == Warmup + it

\* The calls of a round.
LEMMA RoundFields ==
  /\ Len(Ping) = 2 /\ Len(Pong) = 2
  /\ Ping[1].op = "write" /\ Ping[1].fd = "p[1]"
  /\ Ping[2].op = "read" /\ Ping[2].fd = "q[0]" /\ Ping[2].n = 1 /\ Ping[2].must
  /\ Pong[1].op = "read" /\ Pong[1].fd = "p[0]" /\ Pong[1].n = 1 /\ Pong[1].must
  /\ Pong[2].op = "write" /\ Pong[2].fd = "q[1]"
<1>. USE DEF Ping, Pong, Write, ReadAll
<1>1. Len(Ping) = 2
  OBVIOUS
<1>2. Len(Pong) = 2
  OBVIOUS
<1>3. Ping[1].op = "write"
  OBVIOUS
<1>4. Ping[1].fd = "p[1]"
  OBVIOUS
<1>5. Ping[2].op = "read"
  OBVIOUS
<1>6. Ping[2].fd = "q[0]"
  OBVIOUS
<1>7. Ping[2].n = 1
  OBVIOUS
<1>8. Ping[2].must
  OBVIOUS
<1>9. Pong[1].op = "read"
  OBVIOUS
<1>10. Pong[1].fd = "p[0]"
  OBVIOUS
<1>11. Pong[1].n = 1
  OBVIOUS
<1>12. Pong[1].must
  OBVIOUS
<1>13. Pong[2].op = "write"
  OBVIOUS
<1>14. Pong[2].fd = "q[1]"
  OBVIOUS
<1>. HIDE DEF Ping, Pong, Write, ReadAll
<1>. QED
  BY <1>1, <1>2, <1>3, <1>4, <1>5, <1>6, <1>7, <1>8, <1>9, <1>10, <1>11, <1>12, <1>13, <1>14

\* The calls before the rounds.
LEMMA HeadFields ==
  /\ Len(ParentHead) = 5 /\ Len(ChildHead) = 2
  /\ ParentHead[1].op = "pipe" /\ ParentHead[1].name = "p"
  /\ ParentHead[2].op = "pipe" /\ ParentHead[2].name = "q"
  /\ ParentHead[3].op = "fork" /\ ParentHead[3].child = "child"
  /\ ParentHead[4].op = "close" /\ ParentHead[4].fd = "p[0]"
  /\ ParentHead[5].op = "close" /\ ParentHead[5].fd = "q[1]"
  /\ ChildHead[1].op = "close" /\ ChildHead[1].fd = "p[1]"
  /\ ChildHead[2].op = "close" /\ ChildHead[2].fd = "q[0]"
<1>. USE DEF ParentHead, ChildHead, Pipe, Fork, Close
<1>1. Len(ParentHead) = 5
  OBVIOUS
<1>2. Len(ChildHead) = 2
  OBVIOUS
<1>3. ParentHead[1].op = "pipe"
  OBVIOUS
<1>4. ParentHead[1].name = "p"
  OBVIOUS
<1>5. ParentHead[2].op = "pipe"
  OBVIOUS
<1>6. ParentHead[2].name = "q"
  OBVIOUS
<1>7. ParentHead[3].op = "fork"
  OBVIOUS
<1>8. ParentHead[3].child = "child"
  OBVIOUS
<1>9. ParentHead[4].op = "close"
  OBVIOUS
<1>10. ParentHead[4].fd = "p[0]"
  OBVIOUS
<1>11. ParentHead[5].op = "close"
  OBVIOUS
<1>12. ParentHead[5].fd = "q[1]"
  OBVIOUS
<1>13. ChildHead[1].op = "close"
  OBVIOUS
<1>14. ChildHead[1].fd = "p[1]"
  OBVIOUS
<1>15. ChildHead[2].op = "close"
  OBVIOUS
<1>16. ChildHead[2].fd = "q[0]"
  OBVIOUS
<1>. HIDE DEF ParentHead, ChildHead, Pipe, Fork, Close
<1>. QED
  BY <1>1, <1>2, <1>3, <1>4, <1>5, <1>6, <1>7, <1>8, <1>9, <1>10, <1>11, <1>12, <1>13, <1>14,
     <1>15, <1>16

\* The code of context_switch is formed well, and the parent waits.
LEMMA SwitchFormed ==
  ASSUME NEW it \in Int
  PROVE  /\ Formed(context_switch(it), ProcessOps) /\ Awaited(context_switch(it))
         /\ it > 0 => /\ Rounds(it) \in Nat
                      /\ {ParentHead, ChildHead, Ping, Pong} \subseteq Seq(Calls)
                      /\ Printf("cost") \in Seq(Calls) /\ Wait({"child"}) \in Seq(Calls)
<1>. DEFINE S == Seq(Simple(ProcessOps \ {"exec"}))
            B(s, owed) == Body(s, ProcessOps, {"child"}, owed)
            C(s) == ChildCode(s, ProcessOps)
<1>o. {"print", "pipe", "close", "write", "read", "wait"} \subseteq ProcessOps \ {"exec"}
  BY DEF ProcessOps
<1>p. Printf("cost") \in S
  <2>1. \A x \in LineNames : Printf(x) \in S
    BY <1>o, SimpleCalls
  <2>. QED  BY <2>1, Names
<1>a. Wait({"child"}) \in S
  <2>1. \A x \in SUBSET Actors : Wait(x) \in S
    BY <1>o, SimpleCalls
  <2>. QED  BY <2>1, Names
<1>d. \A x \in Descriptors : Close(x) \in S
  BY <1>o, SimpleCalls
<1>r. \A x \in Descriptors, y \in LineNames : Write(x, y) \in S
  BY <1>o, SimpleCalls
<1>n. \A x \in Descriptors : ReadAll(x, 1) \in S
  BY <1>o, SimpleCalls
<1>i. Pipe("p") \in S /\ Pipe("q") \in S
  BY <1>o, SimpleCalls DEF Pipes
<1>c. \A s, t \in S : s \o t \in S
  BY Concatenated
<1>h. \A t \in S : C(t \o ExitNow)
  BY Wider DEF ChildCode, Simple
<1>b. \A t \in S : B(t, {})
  BY BodyBegins
<1>g. \A s, owed : \A t \in S : B(s, owed) => B(s \o t, owed)
  BY BodyGoesOn
<1>f. \A s : B(s, {}) => B(s \o Fork("child"), {"child"})
  BY BodyStarts DEF ProcessOps, Offspring
<1>w. ASSUME NEW s, B(s, {"child"}) PROVE B(s \o Wait({"child"}), {})
  <2>1. "wait" \in ProcessOps /\ {"child"} \ {"child"} = {}
    BY DEF ProcessOps
  <2>2. /\ "child" \in {"child"} /\ {"child"} \intersect {"child"} \subseteq {"child"}
        /\ {"child"} \in SUBSET Actors
    BY Names
  <2>. QED  BY <1>w, <2>1, <2>2, BodyWaits
<1>x. ASSUME NEW s, B(s, {}), NEW c, C(c)
      PROVE  /\ Formed(Code(s \o Return, c, <<>>), ProcessOps)
             /\ Awaited(Code(s \o Return, c, <<>>))
  <2>1. {"child"} \in SUBSET Offspring /\ "child" \in {"child"} /\ "child2" \notin {"child"}
    BY DEF Offspring
  <2>2. "exit" \in ProcessOps /\ Return \in {Return, ExitNow}
    BY DEF ProcessOps
  <2>. QED  BY <1>x, <2>1, <2>2, Program
<1>t. ASSUME NEW s \in S, Len(s) = 2, NEW r \in Nat PROVE Times(r, s) \in S
  BY <1>t, Repeated
<1>y. \A s, owed : B(s, owed) => s \in Seq(Calls)
  BY Wider DEF Body, BodyCalls
<1>z. \A t \in S : t \in Seq(Calls)
  BY Wider DEF Simple
<1>. HIDE DEF S, B, C
<1>1. CASE ~(it > 0)
  <2>1. Body(<<>>, ProcessOps, {}, {})
    BY DEF Body
  <2>2. {} \in SUBSET Offspring /\ "child" \notin {} /\ "child2" \notin {}
    OBVIOUS
  <2>3. "exit" \in ProcessOps /\ Return \in {Return, ExitNow}
    BY DEF ProcessOps
  <2>4. /\ Formed(Code(<<>> \o Return, <<>>, <<>>), ProcessOps)
        /\ Awaited(Code(<<>> \o Return, <<>>, <<>>))
    BY <2>1, <2>2, <2>3, Program
  <2>5. <<>> \o Return = Return
    BY DEF Return
  <2>6. context_switch(it) = Code(Return, <<>>, <<>>)
    BY <1>1 DEF context_switch
  <2>. QED  BY <1>1, <2>4, <2>5, <2>6
<1>2. CASE it > 0
  <2>1. PICK r \in Nat : r = Rounds(it)
    BY <1>2, WarmupAssumption DEF WarmupAssumption, Rounds
  <2>2. /\ Close("p[0]") \in S /\ Close("p[1]") \in S /\ Close("q[0]") \in S /\ Close("q[1]") \in S
    BY <1>d, Names
  <2>3. Ping \in S /\ Pong \in S
    <3>1. Write("p[1]", "x") \in S /\ Write("q[1]", "x") \in S
      BY <1>r, Names
    <3>2. ReadAll("p[0]", 1) \in S /\ ReadAll("q[0]", 1) \in S
      BY <1>n, Names
    <3>. QED  BY <3>1, <3>2, <1>c DEF Ping, Pong
  <2>4. B(ParentHead, {"child"})
    BY <2>2, <1>i, <1>c, <1>b, <1>f, <1>g DEF ParentHead
  <2>5. ChildHead \in S
    BY <2>2, <1>c DEF ChildHead
  <2>6. Times(r, Ping) \in S /\ Times(r, Pong) \in S
    BY <2>3, <1>t, RoundFields
  <2>7. B(ParentHead \o Times(r, Ping) \o Printf("cost") \o Wait({"child"}), {})
    BY <2>4, <2>6, <1>p, <1>g, <1>w
  <2>8. C(ChildHead \o Times(r, Pong) \o ExitNow)
    BY <2>5, <2>6, <1>c, <1>h
  <2>9. context_switch(it) =
          Code(ParentHead \o Times(r, Ping) \o Printf("cost") \o Wait({"child"}) \o Return,
               ChildHead \o Times(r, Pong) \o ExitNow, <<>>)
    BY <1>2, <2>1 DEF context_switch, Rounds, ParentHead, ChildHead, Ping, Pong
  <2>10. {ParentHead, ChildHead, Ping, Pong} \subseteq Seq(Calls)
    BY <2>3, <2>4, <2>5, <1>y, <1>z
  <2>11. Printf("cost") \in Seq(Calls) /\ Wait({"child"}) \in Seq(Calls)
    BY <1>p, <1>a, <1>z
  <2>. QED  BY <2>1, <2>7, <2>8, <2>9, <2>10, <2>11, <1>x
<1>. QED  BY <1>1, <1>2

OpsOf(prog) == IF prog \in Threaded THEN ThreadOps ELSE ProcessOps

\* Every program is formed well, and those that are said to wait do.
LEMMA AllFormed ==
  ASSUME NEW prog \in Programs, NEW it \in Int
  PROVE  /\ Formed(CodeOf(prog, it), OpsOf(prog))
         /\ prog \in Waiting => Awaited(CodeOf(prog, it))
<1>1. CASE prog \in Threaded
  BY <1>1, ThreadCodes DEF Threaded, CodeOf, OpsOf, Waiting
<1>2. CASE prog = "context_switch"
  BY <1>2, SwitchFormed DEF Threaded, CodeOf, OpsOf
<1>3. CASE prog = "q8"
  BY <1>3, TwoChildren DEF Threaded, CodeOf, OpsOf
<1>4. CASE prog \notin Threaded \union {"context_switch", "q8"}
  <2>1. CodeOf(prog, it) \in {q1, q2, q3, q3_without_wait, q4, q5, q6, q7}
    BY <1>4 DEF Programs, Threaded, CodeOf
  <2>2. prog \in Waiting => CodeOf(prog, it) \in {q3, q5, q6, q7}
    BY <1>4 DEF Waiting, Threaded, CodeOf
  <2>. QED  BY <1>4, <2>1, <2>2, SingleCodes DEF OpsOf
<1>. QED  BY <1>1, <1>2, <1>3, <1>4

\* Sequences of so many calls, one that is two others, and one that begins
\* like another.
LongOf(s, size)    == s \in Seq(Calls) /\ Len(s) = size
Glued(u, s, t)  == u = s \o t
Begun(u, s, size)  == \A k \in 1 .. size : u[k] = s[k]

\* Where the calls of two sequences are.
LEMMA Placed ==
  ASSUME NEW h \in Nat, NEW size \in Nat, NEW s, LongOf(s, h), NEW t, LongOf(t, size),
         NEW u, Glued(u, s, t)
  PROVE  LongOf(u, h + size) /\ Begun(u, s, h) /\ \A k \in 1 .. size : u[h + k] = t[k]
<1>1. s \in Seq(Calls) /\ t \in Seq(Calls) /\ u = s \o t
  BY DEF LongOf, Glued
<1>3. Len(s) = h /\ Len(t) = size
  BY DEF LongOf
<1>2. /\ u \in Seq(Calls) /\ Len(u) = Len(s) + Len(t)
      /\ \A k \in 1 .. Len(s) : u[k] = s[k]
      /\ \A k \in 1 .. Len(t) : u[Len(s) + k] = t[k]
  BY <1>1, Concatenated
<1>. QED  BY <1>2, <1>3 DEF LongOf, Begun

\* One call more.
LEMMA OneMore ==
  ASSUME NEW size \in Nat, NEW s, LongOf(s, size), NEW e, LongOf(e, 1), NEW u, Glued(u, s, e)
  PROVE  LongOf(u, size + 1) /\ Begun(u, s, size) /\ u[size + 1] = e[1]
<1>1. LongOf(u, size + 1) /\ Begun(u, s, size) /\ \A k \in 1 .. 1 : u[size + k] = e[k]
  <2>1. 1 \in Nat
    OBVIOUS
  <2>. QED  BY <2>1, Placed
<1>2. 1 \in 1 .. 1
  OBVIOUS
<1>. QED  BY <1>1, <1>2

\* A beginning and then rounds of two calls.
LEMMA Looped ==
  ASSUME NEW h \in Nat, NEW head, LongOf(head, h), NEW round, LongOf(round, 2), NEW r \in Nat,
         NEW t, t = Times(r, round), NEW s, Glued(s, head, t)
  PROVE  /\ LongOf(s, h + 2 * r) /\ Begun(s, head, h)
         /\ \A j \in 0 .. r - 1 : s[h + 2 * j + 1] = round[1] /\ s[h + 2 * j + 2] = round[2]
<1>. head \in Seq(Calls) /\ Len(head) = h /\ round \in Seq(Calls) /\ Len(round) = 2
  BY DEF LongOf
<1>1. t \in Seq(Calls) /\ Len(t) = 2 * r
  BY Repeated
<1>2. \A j \in 1 .. 2 * r : t[j] = round[((j - 1) % 2) + 1]
  BY Repeated
<1>3. LongOf(s, h + 2 * r) /\ Begun(s, head, h) /\ \A k \in 1 .. 2 * r : s[h + k] = t[k]
  <2>1. LongOf(t, 2 * r) /\ 2 * r \in Nat
    BY <1>1 DEF LongOf
  <2>. HIDE DEF LongOf, Glued
  <2>. QED  BY <2>1, Placed
<1>4. PICK x, y : x = round[1] /\ y = round[2]
  OBVIOUS
<1>5. ASSUME NEW j \in 1 .. 2 * r PROVE t[j] = IF (j - 1) % 2 = 0 THEN x ELSE y
  <2>1. PICK b \in {0, 1} : b = (j - 1) % 2
    OBVIOUS
  <2>2. t[j] = round[b + 1]
    BY <1>2, <2>1
  <2>3. CASE b = 0
    <3>1. b + 1 = 1
      BY <2>3
    <3>. QED  BY <3>1, <2>1, <2>2, <2>3, <1>4
  <2>4. CASE b = 1
    <3>1. b + 1 = 2 /\ b # 0
      BY <2>4
    <3>. QED  BY <3>1, <2>1, <2>2, <1>4
  <2>. QED  BY <2>1, <2>3, <2>4
<1>6. \A k \in 1 .. 2 * r : s[h + k] = t[k]
  BY <1>3
<1>7. \A j \in 0 .. r - 1 : s[h + 2 * j + 1] = x /\ s[h + 2 * j + 2] = y
  <2>. SUFFICES ASSUME NEW j \in 0 .. r - 1
                PROVE  s[h + 2 * j + 1] = x /\ s[h + 2 * j + 2] = y
    OBVIOUS
  <2>1. PICK k \in 1 .. 2 * r : k = 2 * j + 1 /\ (k - 1) % 2 = 0
    OBVIOUS
  <2>2. PICK m \in 1 .. 2 * r : m = 2 * j + 2 /\ (m - 1) % 2 = 1
    OBVIOUS
  <2>3. t[k] = x /\ t[m] = y
    BY <1>5, <2>1, <2>2
  <2>4. s[h + k] = t[k] /\ s[h + m] = t[m]
    BY <1>6
  <2>5. h + k = h + 2 * j + 1 /\ h + m = h + 2 * j + 2
    BY <2>1, <2>2
  <2>. QED  BY <2>3, <2>4, <2>5
<1>. QED  BY <1>3, <1>4, <1>7

\* The calls of context_switch.c by their places.
SwitchPlaces(code, r) ==
  /\ Len(code["parent"]) = 8 + 2 * r
  /\ \A k \in 1 .. 5 : code["parent"][k] = ParentHead[k]
  /\ \A j \in 0 .. r - 1 : /\ code["parent"][6 + 2 * j] = Ping[1]
                           /\ code["parent"][7 + 2 * j] = Ping[2]
  /\ code["parent"][6 + 2 * r] = Printf("cost")[1]
  /\ code["parent"][7 + 2 * r] = Wait({"child"})[1]
  /\ code["parent"][8 + 2 * r] = Return[1]
  /\ Len(code["child"]) = 3 + 2 * r
  /\ \A k \in 1 .. 2 : code["child"][k] = ChildHead[k]
  /\ \A j \in 0 .. r - 1 : /\ code["child"][3 + 2 * j] = Pong[1]
                           /\ code["child"][4 + 2 * j] = Pong[2]
  /\ code["child"][3 + 2 * r] = ExitNow[1]
  /\ Len(code["child2"]) = 0

\* They are where they should be.
LEMMA SwitchCalls ==
  ASSUME NEW it \in Int, it > 0, NEW r, r = Rounds(it), NEW code, code = context_switch(it)
  PROVE  r \in Nat /\ SwitchPlaces(code, r)
<1>1. /\ r \in Nat /\ {ParentHead, ChildHead, Ping, Pong} \subseteq Seq(Calls)
      /\ Printf("cost") \in Seq(Calls) /\ Wait({"child"}) \in Seq(Calls)
  BY SwitchFormed
<1>2. LongOf(Return, 1) /\ LongOf(ExitNow, 1)
  BY Ending DEF LongOf
<1>3. LongOf(Printf("cost"), 1) /\ LongOf(Wait({"child"}), 1)
  <2>1. Len(Printf("cost")) = 1 /\ Len(Wait({"child"})) = 1
    BY DEF Printf, Wait
  <2>. QED  BY <1>1, <2>1 DEF LongOf
<1>4. LongOf(ParentHead, 5) /\ LongOf(ChildHead, 2) /\ LongOf(Ping, 2) /\ LongOf(Pong, 2)
  BY <1>1, HeadFields, RoundFields DEF LongOf
<1>5. PICK a, b, c, d, e, f, g, h :
        /\ g = Times(r, Ping) /\ h = Times(r, Pong)
        /\ a = ParentHead \o g /\ b = a \o Printf("cost") /\ c = b \o Wait({"child"})
        /\ d = c \o Return /\ e = ChildHead \o h /\ f = e \o ExitNow
  OBVIOUS
<1>6. /\ Glued(a, ParentHead, g) /\ Glued(b, a, Printf("cost")) /\ Glued(c, b, Wait({"child"}))
      /\ Glued(d, c, Return) /\ Glued(e, ChildHead, h) /\ Glued(f, e, ExitNow)
  BY <1>5 DEF Glued
<1>7. code["parent"] = d /\ code["child"] = f /\ code["child2"] = <<>>
  <2>1. code = Code(d, f, <<>>)
    BY <1>5 DEF context_switch, Rounds, ParentHead, ChildHead, Ping, Pong
  <2>. QED  BY <2>1 DEF Code, Actors
<1>8. PICK m \in Nat : m = 5 + 2 * r
  BY <1>1
<1>9. PICK size \in Nat : size = 2 + 2 * r
  BY <1>1
<1>10. /\ LongOf(a, 5 + 2 * r) /\ Begun(a, ParentHead, 5)
       /\ \A j \in 0 .. r - 1 : a[5 + 2 * j + 1] = Ping[1] /\ a[5 + 2 * j + 2] = Ping[2]
  <2>1. 5 \in Nat /\ r \in Nat /\ g = Times(r, Ping)
    BY <1>1, <1>5
  <2>. HIDE DEF ParentHead, Ping
  <2>. QED  BY <1>4, <1>6, <2>1, Looped
<1>11. /\ LongOf(e, 2 + 2 * r) /\ Begun(e, ChildHead, 2)
       /\ \A j \in 0 .. r - 1 : e[2 + 2 * j + 1] = Pong[1] /\ e[2 + 2 * j + 2] = Pong[2]
  <2>1. 2 \in Nat /\ r \in Nat /\ h = Times(r, Pong)
    BY <1>1, <1>5
  <2>. QED  BY <1>4, <1>6, <2>1, Looped
<1>12. LongOf(b, m + 1) /\ Begun(b, a, m) /\ b[m + 1] = Printf("cost")[1]
  BY <1>3, <1>6, <1>8, <1>10, OneMore
<1>13. LongOf(c, m + 1 + 1) /\ Begun(c, b, m + 1) /\ c[m + 1 + 1] = Wait({"child"})[1]
  <2>1. m + 1 \in Nat
    OBVIOUS
  <2>. QED  BY <1>3, <1>6, <1>12, <2>1, OneMore
<1>14. LongOf(d, m + 1 + 1 + 1) /\ Begun(d, c, m + 1 + 1) /\ d[m + 1 + 1 + 1] = Return[1]
  <2>1. m + 1 + 1 \in Nat
    OBVIOUS
  <2>. QED  BY <1>2, <1>6, <1>13, <2>1, OneMore
<1>15. LongOf(f, size + 1) /\ Begun(f, e, size) /\ f[size + 1] = ExitNow[1]
  BY <1>2, <1>6, <1>9, <1>11, OneMore
<1>16. /\ Len(d) = 8 + 2 * r /\ d[6 + 2 * r] = Printf("cost")[1]
       /\ d[7 + 2 * r] = Wait({"child"})[1] /\ d[8 + 2 * r] = Return[1]
       /\ \A k \in 1 .. m : d[k] = a[k]
  <2>. r \in Nat
    BY <1>1
  <2>1. m + 1 = 6 + 2 * r /\ m + 1 + 1 = 7 + 2 * r /\ m + 1 + 1 + 1 = 8 + 2 * r
    BY <1>8
  <2>2. \A k \in 1 .. m : k \in 1 .. m + 1 /\ k \in 1 .. m + 1 + 1
    OBVIOUS
  <2>3. m + 1 \in 1 .. m + 1 /\ m + 1 \in 1 .. m + 1 + 1 /\ m + 1 + 1 \in 1 .. m + 1 + 1
    OBVIOUS
  <2>4. \A k \in 1 .. m : d[k] = a[k]
    BY <1>12, <1>13, <1>14, <2>2 DEF Begun
  <2>5. d[m + 1] = Printf("cost")[1] /\ d[m + 1 + 1] = Wait({"child"})[1]
    BY <1>12, <1>13, <1>14, <2>3 DEF Begun
  <2>6. Len(d) = m + 1 + 1 + 1
    BY <1>14 DEF LongOf
  <2>. QED  BY <1>14, <2>1, <2>4, <2>5, <2>6
<1>17. /\ Len(f) = 3 + 2 * r /\ f[3 + 2 * r] = ExitNow[1]
       /\ \A k \in 1 .. size : f[k] = e[k]
  <2>1. size + 1 = 3 + 2 * r
    BY <1>1, <1>9
  <2>2. Len(f) = size + 1
    BY <1>15 DEF LongOf
  <2>. QED  BY <1>15, <2>1, <2>2 DEF Begun
<1>18. ASSUME NEW j \in 0 .. r - 1 PROVE d[6 + 2 * j] = Ping[1] /\ d[7 + 2 * j] = Ping[2]
  <2>1. 5 + 2 * j + 1 = 6 + 2 * j /\ 5 + 2 * j + 2 = 7 + 2 * j
    BY <1>1
  <2>2. 6 + 2 * j \in 1 .. m /\ 7 + 2 * j \in 1 .. m
    BY <1>1, <1>8
  <2>. QED  BY <1>10, <1>16, <2>1, <2>2
<1>19. ASSUME NEW j \in 0 .. r - 1 PROVE f[3 + 2 * j] = Pong[1] /\ f[4 + 2 * j] = Pong[2]
  <2>1. 2 + 2 * j + 1 = 3 + 2 * j /\ 2 + 2 * j + 2 = 4 + 2 * j
    BY <1>1
  <2>2. 3 + 2 * j \in 1 .. size /\ 4 + 2 * j \in 1 .. size
    BY <1>1, <1>9
  <2>. QED  BY <1>11, <1>17, <2>1, <2>2
<1>20. /\ \A k \in 1 .. 5 : d[k] = ParentHead[k]
       /\ \A k \in 1 .. 2 : f[k] = ChildHead[k]
  <2>1. \A k \in 1 .. 5 : k \in 1 .. m
    BY <1>1, <1>8
  <2>2. \A k \in 1 .. 2 : k \in 1 .. size
    BY <1>1, <1>9
  <2>. QED  BY <1>10, <1>11, <1>16, <1>17, <2>1, <2>2 DEF Begun
<1>21. Len(<<>>) = 0
  OBVIOUS
<1>. QED  BY <1>1, <1>7, <1>16, <1>17, <1>18, <1>19, <1>20, <1>21 DEF SwitchPlaces

-----------------------------------------------------------------------------
(* The state of the processes: types, and where each one is in its code    *)

codes == CodeOf(program, iters)

\* Who runs has a code, and its next call is in it.
InCode ==
  \A a \in Actors : /\ Len(codes[a]) > 0 => next[a] \in 1 .. Len(codes[a])
                    /\ status[a] # "none" => Len(codes[a]) > 0

\* What AllFormed says of the program that runs.
LEMMA Running ==
  ASSUME TypeOK
  PROVE  /\ Formed(codes, OpsOf(program))
         /\ program \in Waiting => Awaited(codes)
<1>1. program \in Programs /\ iters \in Int
  BY KillsAssumption DEF TypeOK, KillsAssumption
<1>. QED  BY <1>1, AllFormed DEF codes

\* The next call of whoever runs.
LEMMA Calling ==
  ASSUME TypeOK, InCode, NEW a \in Actors, status[a] = "running"
  PROVE  /\ Call(a) \in Calls /\ Call(a).op \in OpsOf(program)
         /\ Call(a) = codes[a][next[a]] /\ next[a] \in 1 .. Len(codes[a])
         /\ Call(a).op = "exit" <=> next[a] = Len(codes[a])
         /\ Call(a).op \in Begins => a = "parent" /\ Len(codes[Call(a).child]) > 0
         /\ a = "parent" => Call(a).op # "exec"
<1>1. Len(codes[a]) > 0
  BY DEF InCode
<1>2. PICK k : k = next[a] /\ k \in 1 .. Len(codes[a])
  BY <1>1 DEF InCode
<1>3. Formed(codes, OpsOf(program))
  BY Running
<1>4. Call(a) = codes[a][k]
  BY <1>2 DEF Call, codes
<1>5. codes[a][k] \in Calls
  BY <1>2, <1>3 DEF Formed
<1>6. /\ codes[a][k].op \in OpsOf(program)
      /\ codes[a][k].op = "exit" <=> k = Len(codes[a])
      /\ codes[a][k].op \in Begins => a = "parent" /\ Len(codes[codes[a][k].child]) > 0
      /\ a = "parent" => codes[a][k].op # "exec"
  BY <1>2, <1>3 DEF Formed
<1>. QED  BY <1>2, <1>4, <1>5, <1>6

\* At the start.
LEMMA InitTyped == Init => TypeOK /\ InCode
<1>. SUFFICES ASSUME Init PROVE TypeOK /\ InCode
  OBVIOUS
<1>1. TypeOK
  <2>1. next \in [Actors -> Nat \ {0}] /\ value \in [Actors -> Int] /\ offset \in [Actors -> Nat]
    BY DEF Init
  <2>2. pipe \in [Pipes -> Nat] /\ sem \in [{"s1", "s2"} -> Nat]
    BY DEF Init
  <2>3. fds \in [Actors -> [Descriptors -> Objects]]
    BY DEF Init, Objects
  <2>4. buffer \in [Actors -> Lines] /\ output \in Lines /\ text \in Seq(LineNames)
    BY DEF Init, Lines
  <2>5. /\ program \in Programs /\ tty \in BOOLEAN /\ iters \in Iters \union {0}
        /\ status \in [Actors -> {"none", "running", "zombie", "reaped"}]
        /\ faults \subseteq Actors
    BY DEF Init
  <2>. QED  BY <2>1, <2>2, <2>3, <2>4, <2>5 DEF TypeOK
<1>2. Formed(codes, OpsOf(program))
  BY <1>1, Running
<1>3. ASSUME NEW a \in Actors
      PROVE  /\ Len(codes[a]) > 0 => next[a] \in 1 .. Len(codes[a])
             /\ status[a] # "none" => Len(codes[a]) > 0
  <2>1. codes[a] \in Seq(Calls)
    BY <1>2 DEF Formed
  <2>2. Len(codes[a]) \in Nat
    BY <2>1
  <2>3. next[a] = 1
    BY DEF Init
  <2>4. status[a] # "none" => a = "parent"
    BY DEF Init
  <2>5. Len(codes["parent"]) > 0
    BY <1>2 DEF Formed
  <2>. QED  BY <2>2, <2>3, <2>4, <2>5
<1>. QED  BY <1>1, <1>3 DEF InCode

\* The processes and threads are actors.
LEMMA ProcessType == \A a \in Actors : Process(a) \in Actors
BY DEF Process, Actors

\* What is written goes to stdout or into a pipe.
LEMMA EmitTyped ==
  ASSUME TypeOK, NEW o, NEW lines \in Lines, Emit(o, lines)
  PROVE  output' \in Lines /\ pipe' \in [Pipes -> Nat]
<1>1. Len(lines) \in Nat /\ LineBytes = 28
  BY DEF Lines, LineBytes, len1, len2
<1>2. output \in Lines /\ pipe \in [Pipes -> Nat]
  BY DEF TypeOK
<1>3. output \o lines \in Lines
  BY <1>2 DEF Lines
<1>4. LineBytes * Len(lines) \in Nat
  BY <1>1
<1>5. PICK k \in Nat : k = LineBytes * Len(lines)
  BY <1>4
<1>6. \A p \in Pipes : pipe[p] + k \in Nat
  BY <1>2
<1>7. output' \in Lines
  <2>1. output' = IF o \in {"terminal", "redirected"} THEN output \o lines ELSE output
    BY DEF Emit
  <2>. QED  BY <1>2, <1>3, <2>1
<1>8. pipe' \in [Pipes -> Nat]
  <2>1. pipe' = [p \in Pipes |-> IF o = WriteEnd[p] THEN pipe[p] + k ELSE pipe[p]]
    BY <1>5 DEF Emit
  <2>. QED  BY <1>2, <1>6, <2>1
<1>. QED  BY <1>7, <1>8

\* The end of a process.
LEMMA OverTyped ==
  ASSUME TypeOK, NEW a \in Actors, NEW lines \in Lines, Over(a, lines), faults' \subseteq Actors
  PROVE  TypeOK'
<1>1. output' \in Lines /\ pipe' \in [Pipes -> Nat]
  BY EmitTyped DEF Over
<1>2. status' \in [Actors -> {"none", "running", "zombie", "reaped"}]
  BY DEF TypeOK, Over
<1>3. fds' \in [Actors -> [Descriptors -> Objects]]
  BY ProcessType DEF TypeOK, Over, Objects
<1>4. buffer' \in [Actors -> Lines]
  <2>1. <<>> \in Lines
    BY DEF Lines
  <2>. QED  BY <2>1, ProcessType DEF TypeOK, Over
<1>5. UNCHANGED <<program, iters, tty, next, value, text, offset, sem>>
  BY DEF Over, config
<1>. QED  BY <1>1, <1>2, <1>3, <1>4, <1>5 DEF TypeOK

\* The number of an actor and its place in the code, when it goes on.
LEMMA ReturnsTyped ==
  ASSUME TypeOK, NEW a \in Actors, NEW v \in Int, Returns(a, v)
  PROVE  next' \in [Actors -> Nat \ {0}] /\ value' \in [Actors -> Int]
<1>1. next[a] + 1 \in Nat \ {0}
  BY DEF TypeOK
<1>. QED  BY <1>1 DEF TypeOK, Returns

\* A call that does not use its number keeps it.
LEMMA DoneTyped ==
  ASSUME TypeOK, NEW a \in Actors, Done(a)
  PROVE  /\ next' \in [Actors -> Nat \ {0}] /\ value' \in [Actors -> Int] /\ value' = value
<1>1. value[a] \in Int
  BY DEF TypeOK
<1>2. value' = value
  BY DEF TypeOK, Done, Returns
<1>. QED  BY <1>1, <1>2, ReturnsTyped DEF Done

\* Descriptors that a call changes.
LEMMA OpenedTyped ==
  ASSUME TypeOK, NEW a \in Actors, NEW changed, Opened(a, changed),
         \A d \in DOMAIN changed : changed[d] \in Objects
  PROVE  /\ fds' \in [Actors -> [Descriptors -> Objects]]
         /\ next' \in [Actors -> Nat \ {0}] /\ value' = value
         /\ UNCHANGED <<program, iters, tty, status, buffer, pipe, output, sem>>
<1>1. fds' \in [Actors -> [Descriptors -> Objects]]
  BY ProcessType DEF TypeOK, Opened
<1>2. Done(a) /\ UNCHANGED <<program, iters, tty, status, buffer, pipe, output, sem>>
  BY DEF Opened, config
<1>. QED  BY <1>1, <1>2, DoneTyped

\* A call that ends nobody keeps the types.
LEMMA QuietTyped ==
  ASSUME TypeOK, InCode, NEW a \in Actors,
         \/ ExecFails(a) \/ ForkProcess(a) \/ CreateThread(a) \/ WaitForChild(a)
         \/ SemPostCall(a) \/ SemWaitCall(a) \/ Compute(a)
  PROVE  TypeOK'
<1>r. status[a] = "running"
  BY DEF ExecFails, ForkProcess, CreateThread, WaitForChild, SemPostCall, SemWaitCall, Compute, At
<1>c. Call(a) \in Calls
  BY <1>r, Calling
<1>1. CASE ExecFails(a)
  <2>1. /\ UNCHANGED <<program, iters, tty, status, fds, buffer, pipe, output, text, offset>>
        /\ UNCHANGED <<sem, faults>> /\ Done(a)
    BY <1>1 DEF ExecFails, config, files
  <2>. QED  BY <2>1, DoneTyped DEF TypeOK
<1>2. CASE ForkProcess(a)
  <2>1. /\ UNCHANGED <<program, iters, tty, pipe, output, text, offset, sem, faults>>
        /\ Call(a).op = "fork"
    BY <1>2 DEF ForkProcess, config, files, At
  <2>2. PICK c \in Offspring : c = Call(a).child
    BY <1>c, <2>1, CallFields DEF Begins
  <2>3. c \in Actors
    BY DEF Offspring, Actors
  <2>4. /\ next' = [next EXCEPT ![a] = @ + 1]
        /\ status' = [status EXCEPT ![c] = "running"]
        /\ value' = [value EXCEPT ![c] = value[a]]
        /\ fds' = [fds EXCEPT ![c] = fds[a]]
        /\ buffer' = [buffer EXCEPT ![c] = buffer[a]]
    BY <1>2, <2>2 DEF ForkProcess, Begin
  <2>5. next' \in [Actors -> Nat \ {0}]
    <3>1. next[a] + 1 \in Nat \ {0}
      BY DEF TypeOK
    <3>. QED  BY <2>4, <3>1 DEF TypeOK
  <2>6. /\ status' \in [Actors -> {"none", "running", "zombie", "reaped"}]
        /\ value' \in [Actors -> Int] /\ buffer' \in [Actors -> Lines]
        /\ fds' \in [Actors -> [Descriptors -> Objects]]
    BY <2>3, <2>4 DEF TypeOK
  <2>. QED  BY <2>1, <2>5, <2>6 DEF TypeOK
<1>3. CASE CreateThread(a)
  <2>1. /\ UNCHANGED <<program, iters, tty, fds, buffer, pipe, output, text, offset, sem, faults>>
        /\ Done(a) /\ Begin(a, Call(a).child)
    BY <1>3 DEF CreateThread, config, files
  <2>2. status' \in [Actors -> {"none", "running", "zombie", "reaped"}]
    BY <2>1 DEF TypeOK, Begin
  <2>. QED  BY <2>1, <2>2, DoneTyped DEF TypeOK
<1>4. CASE WaitForChild(a)
  <2>1. /\ UNCHANGED <<program, iters, tty, fds, buffer, pipe, output, text, offset, sem, faults>>
        /\ \/ Returns(a, -1) /\ status' = status
           \/ \E c \in Actors : Returns(a, Pid(c)) /\ status' = [status EXCEPT ![c] = "reaped"]
    BY <1>4 DEF WaitForChild, config, files
  <2>2. status' \in [Actors -> {"none", "running", "zombie", "reaped"}]
    BY <2>1 DEF TypeOK
  <2>3. -1 \in Int /\ \A c \in Actors : Pid(c) \in Int
    BY DEF Pid
  <2>4. next' \in [Actors -> Nat \ {0}] /\ value' \in [Actors -> Int]
    BY <2>1, <2>3, ReturnsTyped
  <2>. QED  BY <2>1, <2>2, <2>4 DEF TypeOK
<1>5. CASE SemPostCall(a) \/ SemWaitCall(a)
  <2>1. /\ UNCHANGED <<program, iters, tty, status, fds, buffer, pipe, output, text, offset>>
        /\ UNCHANGED faults
        /\ Done(a)
    BY <1>5 DEF SemPostCall, SemWaitCall, config, files
  <2>2. PICK s \in {"s1", "s2"} : s = Call(a).sem
    BY <1>5, <1>c, CallFields DEF SemPostCall, SemWaitCall, At
  <2>3. sem[s] \in Nat
    BY DEF TypeOK
  <2>4. \/ sem' = [sem EXCEPT ![s] = sem[s] + 1]
        \/ sem[s] > 0 /\ sem' = [sem EXCEPT ![s] = sem[s] - 1]
    BY <1>5, <2>2 DEF SemPostCall, SemWaitCall
  <2>5. sem[s] + 1 \in Nat /\ (sem[s] > 0 => sem[s] - 1 \in Nat)
    BY <2>3
  <2>6. sem' \in [{"s1", "s2"} -> Nat]
    BY <2>4, <2>5 DEF TypeOK
  <2>. QED  BY <2>1, <2>6, DoneTyped DEF TypeOK
<1>6. CASE Compute(a)
  <2>1. /\ UNCHANGED <<program, iters, tty, status, fds, buffer, pipe, output, text, offset>>
        /\ UNCHANGED <<sem, faults>>
    BY <1>6 DEF Compute, config, files
  <2>2. Call(a).by \in Int /\ Call(a).keep \in {0, 1}
    BY <1>6, <1>c, CallFields DEF Compute, At
  <2>3. value[a] \in Int
    BY DEF TypeOK
  <2>4. PICK b, k : b = Call(a).by /\ k = Call(a).keep
    OBVIOUS
  <2>5. b + k * value[a] \in Int
    <3>1. CASE k = 0
      BY <2>2, <2>3, <2>4, <3>1
    <3>2. CASE k = 1
      BY <2>2, <2>3, <2>4, <3>2
    <3>. QED  BY <2>2, <2>4, <3>1, <3>2
  <2>6. Returns(a, b + k * value[a])
    BY <1>6, <2>4 DEF Compute
  <2>. QED  BY <2>1, <2>5, <2>6, ReturnsTyped DEF TypeOK
<1>. QED  BY <1>1, <1>2, <1>3, <1>4, <1>5, <1>6

\* So does one about descriptors.
LEMMA DescriptorsTyped ==
  ASSUME TypeOK, InCode, NEW a \in Actors,
         CreatePipe(a) \/ OpenFile(a) \/ CloseDescriptor(a) \/ Duplicate(a)
  PROVE  TypeOK'
<1>r. status[a] = "running"
  BY DEF CreatePipe, OpenFile, CloseDescriptor, Duplicate, At
<1>c. Call(a) \in Calls
  BY <1>r, Calling
<1>n. value' = value => value' \in [Actors -> Int]
  BY DEF TypeOK
<1>1. CASE CreatePipe(a)
  <2>1. PICK p \in Pipes : p = Call(a).name
    BY <1>1, <1>c, CallFields DEF CreatePipe, At
  <2>2. /\ Opened(a, [d \in {ReadEnd[p], WriteEnd[p]} |-> d])
        /\ UNCHANGED <<text, offset, faults>>
    BY <1>1, <2>1 DEF CreatePipe
  <2>3. \A d \in DOMAIN [d \in {ReadEnd[p], WriteEnd[p]} |-> d] :
          [e \in {ReadEnd[p], WriteEnd[p]} |-> e][d] \in Objects
    BY DEF Pipes, ReadEnd, WriteEnd, Objects, Ends
  <2>. QED  BY <1>n, <2>2, <2>3, OpenedTyped DEF TypeOK
<1>2. CASE OpenFile(a)
  <2>1. CASE UNCHANGED faults /\ Opened(a, [d \in {"file"} |-> a])
               /\ text' = <<>> /\ offset' = [offset EXCEPT ![a] = 0]
    <3>1. \A d \in DOMAIN [d \in {"file"} |-> a] : [e \in {"file"} |-> a][d] \in Objects
      BY DEF Objects
    <3>2. text' \in Seq(LineNames) /\ offset' \in [Actors -> Nat]
      BY <2>1 DEF TypeOK
    <3>. QED  BY <1>n, <2>1, <3>1, <3>2, OpenedTyped DEF TypeOK
  <2>2. CASE Opened(a, <<>>) /\ faults' = faults \union {a} /\ UNCHANGED <<text, offset>>
    <3>1. \A d \in DOMAIN <<>> : <<>>[d] \in Objects
      OBVIOUS
    <3>. QED  BY <1>n, <2>2, <3>1, OpenedTyped DEF TypeOK
  <2>. QED  BY <1>2, <2>1, <2>2 DEF OpenFile
<1>3. CASE CloseDescriptor(a)
  <2>1. /\ Opened(a, [d \in {Call(a).fd} |-> "closed"]) /\ UNCHANGED <<text, offset, faults>>
    BY <1>3 DEF CloseDescriptor
  <2>2. \A d \in DOMAIN [d \in {Call(a).fd} |-> "closed"] :
          [e \in {Call(a).fd} |-> "closed"][d] \in Objects
    BY DEF Objects
  <2>. QED  BY <1>n, <2>1, <2>2, OpenedTyped DEF TypeOK
<1>4. CASE Duplicate(a)
  <2>1. PICK from \in Descriptors : from = Call(a).from
    BY <1>4, <1>c, CallFields DEF Duplicate, At
  <2>2. /\ Opened(a, [d \in {Call(a).to} |-> My(a, from)]) /\ UNCHANGED <<text, offset, faults>>
    BY <1>4, <2>1 DEF Duplicate
  <2>3. My(a, from) \in Objects
    BY ProcessType DEF My, TypeOK
  <2>4. \A d \in DOMAIN [d \in {Call(a).to} |-> My(a, from)] :
          [e \in {Call(a).to} |-> My(a, from)][d] \in Objects
    BY <2>3
  <2>. QED  BY <1>n, <2>2, <2>4, OpenedTyped DEF TypeOK
<1>. QED  BY <1>1, <1>2, <1>3, <1>4

\* So does one that ends a process.
LEMMA EndsTyped ==
  ASSUME TypeOK, InCode, NEW a \in Actors,
         Exit(a) \/ Fail(a) \/ Kill(a) \/ ExecSucceeds(a) \/ CallFails(a)
  PROVE  TypeOK'
<1>1. <<>> \in Lines /\ \A p \in Actors : buffer[p] \in Lines
  BY DEF TypeOK, Lines
<1>2. faults \union {a} \subseteq Actors /\ faults \subseteq Actors
  BY DEF TypeOK
<1>3. ASSUME Fail(a) PROVE TypeOK'
  <2>1. Over(a, buffer[Process(a)]) /\ faults' = faults \union {a}
    BY <1>3 DEF Fail
  <2>. QED  BY <1>1, <1>2, <2>1, ProcessType, OverTyped
<1>4. CASE CallFails(a)
  BY <1>3, <1>4 DEF CallFails
<1>5. CASE Kill(a)
  <2>1. Over(a, <<>>) /\ faults' = faults \union {a}
    BY <1>5 DEF Kill
  <2>. QED  BY <1>1, <1>2, <2>1, OverTyped
<1>6. CASE ExecSucceeds(a)
  <2>1. Over(a, <<<<"list", 0>>>>) /\ UNCHANGED faults
    BY <1>6 DEF ExecSucceeds
  <2>2. <<<<"list", 0>>>> \in Lines
    <3>1. <<"list", 0>> \in LineNames \X Int
      <4>1. "list" \in LineNames
        BY DEF LineNames
      <4>. QED  BY <4>1
    <3>. QED  BY <3>1 DEF Lines
  <2>. QED  BY <1>2, <2>1, <2>2, OverTyped
<1>7. CASE Exit(a) /\ a = Process(a)
  <2>1. PICK lines \in {buffer[a], <<>>} : Over(a, lines) /\ UNCHANGED faults
    BY <1>7 DEF Exit
  <2>. QED  BY <1>1, <1>2, <2>1, OverTyped
<1>8. CASE Exit(a) /\ a # Process(a)
  <2>1. /\ status' = [status EXCEPT ![a] = "zombie"]
        /\ UNCHANGED <<program, iters, tty, next, value, fds, buffer, pipe, output, text>>
        /\ UNCHANGED <<offset, sem, faults>>
    BY <1>8 DEF Exit, config, files
  <2>. QED  BY <2>1 DEF TypeOK
<1>. QED  BY <1>3, <1>4, <1>5, <1>6, <1>7, <1>8

\* So do the calls that print, write and read.
LEMMA TransfersTyped ==
  ASSUME TypeOK, InCode, NEW a \in Actors,
         PrintLine(a) \/ WriteBytes(a) \/ WriteFile(a) \/ ReadPipe(a)
  PROVE  TypeOK'
<1>r. status[a] = "running"
  BY DEF PrintLine, WriteBytes, WriteFile, ReadPipe, At
<1>c. Call(a) \in Calls
  BY <1>r, Calling
<1>p. Process(a) \in Actors
  BY ProcessType
<1>v. value[a] \in Int
  BY DEF TypeOK
<1>l. output \in Seq(LineNames \X Int) /\ buffer[Process(a)] \in Seq(LineNames \X Int)
  BY <1>p DEF TypeOK, Lines
<1>f. faults \union {a} \subseteq Actors
  BY DEF TypeOK
<1>1. CASE PrintLine(a)
  <2>1. /\ UNCHANGED <<program, iters, tty, status, fds, pipe, text, offset, sem, faults>>
        /\ Done(a)
    BY <1>1 DEF PrintLine, config
  <2>2. PICK line \in LineNames : line = Call(a).line
    BY <1>1, <1>c, CallFields DEF PrintLine, At
  <2>3. PICK v \in Int :
          \/ output' = Append(output, <<line, v>>) /\ UNCHANGED buffer
          \/ /\ buffer' = [buffer EXCEPT ![Process(a)] = Append(buffer[Process(a)], <<line, v>>)]
             /\ UNCHANGED output
    <3>1. Garbage \in Int
      BY DEF Garbage
    <3>2. PICK v \in {value[a], Garbage} :
            IF My(a, "stdout") = "terminal"
            THEN output' = Append(output, <<line, v>>) /\ UNCHANGED buffer
            ELSE /\ buffer' = [buffer EXCEPT ![Process(a)] = Append(@, <<line, v>>)]
                 /\ UNCHANGED output
      BY <1>1, <2>2 DEF PrintLine
    <3>. QED  BY <1>v, <3>1, <3>2
  <2>4. /\ Append(output, <<line, v>>) \in Seq(LineNames \X Int)
        /\ Append(buffer[Process(a)], <<line, v>>) \in Seq(LineNames \X Int)
    BY <1>l
  <2>5. output' \in Lines /\ buffer' \in [Actors -> Lines]
    BY <1>p, <2>3, <2>4 DEF TypeOK, Lines
  <2>. QED  BY <2>1, <2>5, DoneTyped DEF TypeOK
<1>2. CASE WriteBytes(a)
  <2>1. CASE Over(a, <<>>) /\ faults' = faults \union {a}
    <3>1. <<>> \in Lines
      BY DEF Lines
    <3>. QED  BY <1>f, <2>1, <3>1, OverTyped
  <2>2. CASE ~(Over(a, <<>>) /\ faults' = faults \union {a})
    <3>1. PICK object :
            /\ Done(a)
            /\ pipe' = [p \in Pipes |-> IF object = WriteEnd[p] THEN pipe[p] + 1 ELSE pipe[p]]
            /\ output' = IF object \in {"terminal", "redirected"}
                         THEN Append(output, <<Call(a).line, 0>>) ELSE output
            /\ UNCHANGED <<program, iters, tty, status, fds, buffer, text, offset, sem, faults>>
      BY <1>2, <2>2 DEF WriteBytes, config
    <3>2. Call(a).line \in LineNames
      BY <1>2, <1>c, CallFields DEF WriteBytes, At
    <3>3. output' \in Lines
      <4>1. Append(output, <<Call(a).line, 0>>) \in Seq(LineNames \X Int)
        BY <1>l, <3>2
      <4>. QED  BY <1>l, <3>1, <4>1 DEF Lines
    <3>4. pipe' \in [Pipes -> Nat]
      <4>1. \A p \in Pipes : pipe[p] \in Nat /\ pipe[p] + 1 \in Nat
        BY DEF TypeOK
      <4>. QED  BY <3>1, <4>1
    <3>. QED  BY <3>1, <3>3, <3>4, DoneTyped DEF TypeOK
  <2>. QED  BY <2>1, <2>2
<1>3. CASE WriteFile(a)
  <2>1. /\ UNCHANGED <<program, iters, tty, status, fds, buffer, pipe, output, sem, faults>>
        /\ Done(a)
    BY <1>3 DEF WriteFile, config
  <2>2. PICK o \in Actors : o = My(a, Call(a).fd)
    BY <1>3 DEF WriteFile
  <2>3. PICK line \in LineNames : line = Call(a).line
    BY <1>3, <1>c, CallFields DEF WriteFile, At
  <2>4. /\ text' = IF offset[o] < Len(text) THEN [text EXCEPT ![offset[o] + 1] = line]
                   ELSE Append(text, line)
        /\ offset' = [offset EXCEPT ![o] = offset[o] + 1]
    BY <1>3, <2>2, <2>3 DEF WriteFile
  <2>5. text \in Seq(LineNames) /\ offset[o] \in Nat
    BY DEF TypeOK
  <2>6. offset' \in [Actors -> Nat]
    BY <2>4, <2>5 DEF TypeOK
  <2>7. text' \in Seq(LineNames)
    <3>1. Append(text, line) \in Seq(LineNames)
      BY <2>5
    <3>2. offset[o] < Len(text) => [text EXCEPT ![offset[o] + 1] = line] \in Seq(LineNames)
      BY <2>5, ExceptSeq
    <3>. QED  BY <2>4, <3>1, <3>2
  <2>. QED  BY <2>1, <2>6, <2>7, DoneTyped DEF TypeOK
<1>4. CASE ReadPipe(a)
  <2>1. CASE Fail(a)
    BY <2>1, EndsTyped
  <2>2. CASE ~Fail(a)
    <3>0. PICK p \in Pipes : \E got :
            /\ got = IF pipe[p] < Call(a).n THEN pipe[p] ELSE Call(a).n
            /\ Returns(a, value[a] + got)
            /\ pipe' = [pipe EXCEPT ![p] = @ - got]
            /\ UNCHANGED <<config, status, fds, buffer, files, sem, faults>>
      BY <1>4, <2>2 DEF ReadPipe
    <3>1. PICK got :
            /\ got = IF pipe[p] < Call(a).n THEN pipe[p] ELSE Call(a).n
            /\ Returns(a, value[a] + got)
            /\ pipe' = [pipe EXCEPT ![p] = @ - got]
            /\ UNCHANGED <<config, status, fds, buffer, files, sem, faults>>
      BY <3>0
    <3>2. Call(a).n \in Nat /\ pipe[p] \in Nat
      BY <1>4, <1>c, CallFields DEF ReadPipe, At, TypeOK
    <3>3. got \in Nat /\ got <= pipe[p]
      <4>1. PICK m \in Nat : m = Call(a).n
        BY <3>2
      <4>. QED  BY <3>1, <3>2, <4>1
    <3>4. pipe[p] - got \in Nat /\ value[a] + got \in Int
      BY <1>v, <3>2, <3>3
    <3>5. pipe' \in [Pipes -> Nat]
      BY <3>1, <3>4 DEF TypeOK
    <3>6. UNCHANGED <<program, iters, tty, status, fds, buffer, output, text, offset, sem, faults>>
      BY <3>1 DEF config, files
    <3>. QED  BY <3>1, <3>4, <3>5, <3>6, ReturnsTyped DEF TypeOK
  <2>. QED  BY <2>1, <2>2
<1>. QED  BY <1>1, <1>2, <1>3, <1>4

\* Every step keeps the types.
LEMMA NextTyped == TypeOK /\ InCode /\ [Next]_vars => TypeOK'
<1>. SUFFICES ASSUME TypeOK, InCode, [Next]_vars PROVE TypeOK'
  OBVIOUS
<1>1. CASE \E a \in Actors : Step(a) \/ Kill(a)
  <2>1. PICK a \in Actors : Step(a) \/ Kill(a)
    BY <1>1
  <2>. QED  BY <2>1, QuietTyped, DescriptorsTyped, EndsTyped, TransfersTyped DEF Step
<1>2. CASE UNCHANGED vars
  BY <1>2 DEF vars, config, local, files, TypeOK
<1>. QED  BY <1>1, <1>2 DEF Next, Exited

-----------------------------------------------------------------------------
(* What a step does to who runs and to where everybody is in the code      *)

MovesOn(a) ==
  Call(a).op # "exit" /\ next' = [next EXCEPT ![a] = @ + 1] /\ faults \subseteq faults'

Goes(a) == MovesOn(a) /\ status' = status /\ Call(a).op # "wait"

Starts(a) ==
  MovesOn(a) /\ Call(a).op \in Begins /\ status' = [status EXCEPT ![Call(a).child] = "running"]

\* Whom a wait may return.
Asked(a) ==
  IF a = "parent"
  THEN {c \in Call(a).children \intersect Offspring : status[c] \in {"running", "zombie"}}
  ELSE {}

Waits(a) ==
  /\ MovesOn(a) /\ Call(a).op = "wait"
  /\ \/ Asked(a) = {} /\ status' = status
     \/ \E c \in Asked(a) : status[c] = "zombie" /\ status' = [status EXCEPT ![c] = "reaped"]

\* The parent ends by its last call, or because it was killed or a call failed.
Stops(a) ==
  /\ UNCHANGED next /\ faults \subseteq faults'
  /\ \A b \in Actors : status'[b] # status[b] => status[b] = "running" /\ status'[b] = "zombie"
  /\ status'["parent"] # status["parent"] =>
       a = "parent" /\ ("parent" \in faults' \/ Call(a).op = "exit")

\* The end of a process, which only the thread that runs main can bring about.
LEMMA OverStops ==
  ASSUME TypeOK, InCode, NEW a \in Actors, status[a] = "running", a = Process(a), NEW lines,
         Over(a, lines), faults \subseteq faults',
         a \in faults' \/ Call(a).op = "exit" \/ Call(a).op = "exec"
  PROVE  Stops(a)
<1>1. UNCHANGED next
  BY DEF Over
<1>2. \A b \in Actors : status'[b] = IF b \in Members(a) /\ status[b] = "running" THEN "zombie"
                                     ELSE status[b]
  BY DEF Over
<1>3. "parent" \in Actors /\ ("parent" \in Members(a) => a = "parent")
  BY DEF Members, Process, Actors
<1>4. a = "parent" => Call(a).op # "exec"
  BY Calling
<1>. QED  BY <1>1, <1>2, <1>3, <1>4 DEF Stops

\* In a program with threads nothing but the end of main ends the process.
LEMMA OnlyProcesses ==
  ASSUME TypeOK, InCode, NEW a \in Actors, status[a] = "running",
         Call(a).op \in {"pipe", "fork", "write", "read", "exec"}
  PROVE  a = Process(a)
<1>1. Call(a).op \in OpsOf(program)
  BY Calling
<1>2. program \notin Threaded
  BY <1>1 DEF OpsOf, ThreadOps
<1>. QED  BY <1>2 DEF Process

\* Every step is one of the four.
LEMMA Kinds ==
  ASSUME TypeOK, InCode, NEW a \in Actors, Step(a) \/ Kill(a)
  PROVE  /\ status[a] = "running" /\ program' = program /\ iters' = iters
         /\ Goes(a) \/ Starts(a) \/ Waits(a) \/ Stops(a)
<1>1. ASSUME Done(a), status' = status, faults \subseteq faults', Call(a).op \notin {"exit", "wait"}
      PROVE  Goes(a)
  BY <1>1 DEF Done, Returns, Goes, MovesOn
<1>2. ASSUME Fail(a), status[a] = "running", Call(a).op \in {"pipe", "fork", "write", "read"}
      PROVE  Stops(a) /\ program' = program /\ iters' = iters
  <2>1. Over(a, buffer[Process(a)]) /\ faults' = faults \union {a}
    BY <1>2 DEF Fail
  <2>2. a = Process(a)
    BY <1>2, OnlyProcesses
  <2>3. Stops(a)
    BY <1>2, <2>1, <2>2, OverStops
  <2>. QED  BY <2>1, <2>3 DEF Over, config
<1>3. CASE Exit(a)
  <2>1. At(a, "exit") /\ UNCHANGED faults
    BY <1>3 DEF Exit
  <2>2. CASE a = Process(a)
    <3>1. PICK lines : Over(a, lines)
      BY <1>3, <2>2 DEF Exit
    <3>2. Stops(a)
      BY <2>1, <2>2, <3>1, OverStops DEF At
    <3>. QED  BY <2>1, <3>1, <3>2 DEF Over, config, At
  <2>3. CASE a # Process(a)
    <3>1. status' = [status EXCEPT ![a] = "zombie"] /\ UNCHANGED <<program, iters, next>>
      BY <1>3, <2>3 DEF Exit, config
    <3>2. a # "parent"
      BY <2>3 DEF Process
    <3>3. \A b \in Actors : status'[b] # status[b] => status[b] = "running" /\ status'[b] = "zombie"
      BY <2>1, <3>1 DEF At, TypeOK
    <3>4. status'["parent"] = status["parent"]
      BY <3>1, <3>2 DEF TypeOK, Actors
    <3>. QED  BY <2>1, <3>1, <3>3, <3>4 DEF Stops, At
  <2>. QED  BY <2>2, <2>3
<1>4. CASE ExecSucceeds(a)
  <2>1. At(a, "exec") /\ UNCHANGED faults
    BY <1>4 DEF ExecSucceeds
  <2>2. a = Process(a)
    BY <2>1, OnlyProcesses DEF At
  <2>3. PICK lines : Over(a, lines)
    BY <1>4 DEF ExecSucceeds
  <2>4. Stops(a)
    BY <2>1, <2>2, <2>3, OverStops DEF At
  <2>. QED  BY <2>1, <2>3, <2>4 DEF Over, config, At
<1>5. CASE Kill(a)
  <2>1. a = Process(a) /\ status[a] = "running" /\ Over(a, <<>>) /\ faults' = faults \union {a}
    BY <1>5 DEF Kill
  <2>2. Stops(a)
    BY <2>1, OverStops
  <2>. QED  BY <2>1, <2>2 DEF Over, config
<1>6. CASE CallFails(a)
  <2>1. Fail(a) /\ status[a] = "running" /\ Call(a).op \in {"pipe", "fork"}
    BY <1>6 DEF CallFails, At
  <2>. QED  BY <1>2, <2>1
<1>7. CASE ForkProcess(a) \/ CreateThread(a)
  <2>1. /\ status[a] = "running" /\ Call(a).op \in {"fork", "create"}
        /\ UNCHANGED <<program, iters, faults>>
        /\ status' = [status EXCEPT ![Call(a).child] = "running"]
        /\ next' = [next EXCEPT ![a] = @ + 1]
    BY <1>7 DEF ForkProcess, CreateThread, At, config, Begin, Done, Returns
  <2>. QED  BY <2>1 DEF Starts, MovesOn, Begins
<1>8. CASE WaitForChild(a)
  <2>1. Actors \ {"parent"} = Offspring
    BY DEF Actors, Offspring
  <2>2. /\ status[a] = "running" /\ Call(a).op = "wait" /\ UNCHANGED <<program, iters, faults>>
        /\ next' = [next EXCEPT ![a] = @ + 1]
    BY <1>8 DEF WaitForChild, At, config, Returns
  <2>3. \/ Asked(a) = {} /\ status' = status
        \/ \E c \in Asked(a) : status[c] = "zombie" /\ status' = [status EXCEPT ![c] = "reaped"]
    BY <1>8, <2>1 DEF WaitForChild, Asked
  <2>. QED  BY <2>2, <2>3 DEF Waits, MovesOn
<1>9. CASE ExecFails(a) \/ SemPostCall(a) \/ SemWaitCall(a) \/ PrintLine(a)
  <2>1. /\ status[a] = "running" /\ Call(a).op \in {"exec", "post", "await", "print"}
        /\ UNCHANGED <<program, iters, status, faults>> /\ Done(a)
    BY <1>9 DEF ExecFails, SemPostCall, SemWaitCall, PrintLine, At, config
  <2>. QED  BY <1>1, <2>1
<1>10. CASE Compute(a)
  <2>1. /\ status[a] = "running" /\ Call(a).op = "set"
        /\ UNCHANGED <<program, iters, status, faults>> /\ next' = [next EXCEPT ![a] = @ + 1]
    BY <1>10 DEF Compute, At, config, Returns
  <2>. QED  BY <2>1 DEF Goes, MovesOn
<1>11. CASE CreatePipe(a) \/ OpenFile(a) \/ CloseDescriptor(a) \/ Duplicate(a)
  <2>1. /\ status[a] = "running" /\ Call(a).op \in {"pipe", "open", "close", "dup2"}
        /\ faults \subseteq faults' /\ \E changed : Opened(a, changed)
    BY <1>11 DEF CreatePipe, OpenFile, CloseDescriptor, Duplicate, At
  <2>2. UNCHANGED <<program, iters, status>> /\ Done(a)
    BY <2>1 DEF Opened, config
  <2>. QED  BY <1>1, <2>1, <2>2
<1>12. CASE WriteBytes(a)
  <2>1. status[a] = "running" /\ Call(a).op = "write"
    BY <1>12 DEF WriteBytes, At
  <2>2. CASE Over(a, <<>>) /\ faults' = faults \union {a}
    <3>1. a = Process(a)
      BY <2>1, OnlyProcesses
    <3>2. Stops(a)
      BY <2>1, <2>2, <3>1, OverStops
    <3>. QED  BY <2>1, <2>2, <3>2 DEF Over, config
  <2>3. CASE ~(Over(a, <<>>) /\ faults' = faults \union {a})
    <3>1. Done(a) /\ UNCHANGED <<program, iters, status, faults>>
      BY <1>12, <2>3 DEF WriteBytes, config
    <3>. QED  BY <1>1, <2>1, <3>1
  <2>. QED  BY <2>2, <2>3
<1>13. CASE WriteFile(a)
  <2>1. /\ status[a] = "running" /\ Call(a).op = "write"
        /\ UNCHANGED <<program, iters, status, faults>> /\ Done(a)
    BY <1>13 DEF WriteFile, At, config
  <2>. QED  BY <1>1, <2>1
<1>14. CASE ReadPipe(a)
  <2>1. status[a] = "running" /\ Call(a).op = "read"
    BY <1>14 DEF ReadPipe, At
  <2>2. CASE Fail(a)
    BY <1>2, <2>1, <2>2
  <2>3. CASE ~Fail(a)
    <3>1. \E v : Returns(a, v) /\ UNCHANGED <<program, iters, status, faults>>
      BY <1>14, <2>3 DEF ReadPipe, config
    <3>. QED  BY <2>1, <3>1 DEF Goes, MovesOn, Returns
  <2>. QED  BY <2>2, <2>3
<1>. QED
  BY <1>3, <1>4, <1>5, <1>6, <1>7, <1>8, <1>9, <1>10, <1>11, <1>12, <1>13, <1>14 DEF Step

\* A step keeps who runs in its code: no call but the last ends it.
LEMMA NextInCode == TypeOK /\ InCode /\ [Next]_vars => InCode'
<1>. SUFFICES ASSUME TypeOK, InCode, [Next]_vars PROVE InCode'
  OBVIOUS
<1>1. CASE UNCHANGED vars
  BY <1>1 DEF vars, config, local, InCode, codes
<1>2. CASE \E a \in Actors : Step(a) \/ Kill(a)
  <2>1. PICK a \in Actors : Step(a) \/ Kill(a)
    BY <1>2
  <2>2. /\ status[a] = "running" /\ codes' = codes
        /\ Goes(a) \/ Starts(a) \/ Waits(a) \/ Stops(a)
    BY <2>1, Kinds DEF codes
  <2>3. /\ Call(a).op = "exit" <=> next[a] = Len(codes[a])
        /\ next[a] \in 1 .. Len(codes[a])
        /\ Call(a).op \in Begins => Len(codes[Call(a).child]) > 0
    BY <2>2, Calling
  <2>4. \A b \in Actors : Len(codes[b]) \in Nat
    <3>1. \A b \in Actors : codes[b] \in Seq(Calls)
      BY Running DEF Formed
    <3>. QED  BY <3>1
  <2>5. ASSUME NEW b \in Actors, Len(codes[b]) > 0 PROVE next'[b] \in 1 .. Len(codes[b])
    <3>1. next[b] \in 1 .. Len(codes[b])
      BY <2>5 DEF InCode
    <3>2. CASE Stops(a)
      BY <3>1, <3>2 DEF Stops
    <3>3. CASE MovesOn(a) /\ b # a
      BY <3>1, <3>3 DEF MovesOn, TypeOK
    <3>4. CASE MovesOn(a) /\ b = a
      <4>1. next'[b] = next[a] + 1 /\ next[a] # Len(codes[a])
        BY <2>3, <3>4 DEF MovesOn, TypeOK
      <4>2. PICK m \in Nat : m = Len(codes[a])
        BY <2>4
      <4>. QED  BY <2>3, <3>4, <4>1, <4>2
    <3>. QED  BY <2>2, <3>2, <3>3, <3>4 DEF Goes, Starts, Waits
  <2>6. ASSUME NEW b \in Actors, status'[b] # "none" PROVE Len(codes[b]) > 0
    <3>1. status[b] # "none" => Len(codes[b]) > 0
      BY DEF InCode
    <3>2. CASE Stops(a)
      BY <2>6, <3>1, <3>2 DEF Stops
    <3>3. CASE Goes(a)
      BY <2>6, <3>1, <3>3 DEF Goes
    <3>4. CASE Starts(a)
      BY <2>3, <2>6, <3>1, <3>4 DEF Starts, TypeOK
    <3>5. CASE Waits(a)
      <4>1. status[b] # "none"
        BY <2>6, <3>5 DEF Waits, TypeOK
      <4>. QED  BY <3>1, <4>1
    <3>. QED  BY <2>2, <3>2, <3>3, <3>4, <3>5
  <2>. QED  BY <2>2, <2>5, <2>6 DEF InCode
<1>. QED  BY <1>1, <1>2 DEF Next, Exited

-----------------------------------------------------------------------------
(* A parent that waits leaves no child behind                              *)

\* The wait that will return for a child is still to come.
Owed ==
  program \in Waiting => \A c \in Offspring : status[c] \in {"running", "zombie"} =>
    \E k \in next["parent"] .. Len(codes["parent"]) :
      WaitsFor(codes["parent"][k], c, Started(codes))

\* Unless it fails, the parent has come to the end of its code.
EndedWell ==
  status["parent"] = "zombie" /\ "parent" \notin faults =>
    codes["parent"][next["parent"]].op = "exit"

\* Behind the end nothing is left to wait for.
LEMMA ReapedAtEnd == TypeOK /\ InCode /\ Owed /\ EndedWell => Reaped
<1>. SUFFICES ASSUME TypeOK, InCode, Owed, EndedWell, program \in Waiting,
                     status["parent"] = "zombie", "parent" \notin faults,
                     NEW c \in Actors \ {"parent"}, status[c] \notin {"none", "reaped"}
              PROVE  FALSE
  BY DEF Reaped
<1>1. c \in Offspring /\ status[c] \in {"running", "zombie"}
  BY DEF TypeOK, Offspring, Actors
<1>2. codes["parent"][next["parent"]].op = "exit"
  BY DEF EndedWell
<1>3. PICK k \in next["parent"] .. Len(codes["parent"]) :
        WaitsFor(codes["parent"][k], c, Started(codes))
  BY <1>1 DEF Owed
<1>4. Len(codes["parent"]) > 0 /\ codes["parent"] \in Seq(Calls)
  BY Running DEF Formed, Actors
<1>5. "parent" \in Actors
  BY DEF Actors
<1>6. next["parent"] \in 1 .. Len(codes["parent"])
  BY <1>4, <1>5 DEF InCode
<1>7. next["parent"] = Len(codes["parent"])
  BY <1>2, <1>5, <1>6, Running DEF Formed
<1>8. k = next["parent"]
  <2>1. PICK m \in Nat : m = Len(codes["parent"])
    BY <1>4
  <2>. QED  BY <1>6, <1>7, <2>1
<1>. QED  BY <1>2, <1>3, <1>8 DEF WaitsFor

\* At the start no child is there.
LEMMA InitOwed == Init => Owed /\ EndedWell
BY DEF Init, Owed, EndedWell, Offspring, Actors

\* A step keeps the promise.
LEMMA NextOwed == TypeOK /\ InCode /\ Owed /\ EndedWell /\ [Next]_vars => Owed' /\ EndedWell'
<1>. SUFFICES ASSUME TypeOK, InCode, Owed, EndedWell, [Next]_vars PROVE Owed' /\ EndedWell'
  OBVIOUS
<1>1. CASE UNCHANGED vars
  BY <1>1 DEF vars, config, local, Owed, EndedWell, codes
<1>2. CASE \E a \in Actors : Step(a) \/ Kill(a)
  <2>1. PICK a \in Actors : Step(a) \/ Kill(a)
    BY <1>2
  <2>2. /\ status[a] = "running" /\ codes' = codes /\ program' = program
        /\ Goes(a) \/ Starts(a) \/ Waits(a) \/ Stops(a)
    BY <2>1, Kinds DEF codes
  <2>3. /\ Call(a) = codes[a][next[a]] /\ next[a] \in 1 .. Len(codes[a])
        /\ Call(a) \in Calls
        /\ Call(a).op \in Begins => a = "parent" /\ Len(codes[Call(a).child]) > 0
    BY <2>2, Calling
  <2>4. "parent" \in Actors /\ "parent" \notin Offspring /\ Offspring \subseteq Actors
    BY DEF Actors, Offspring
  <2>5. Call(a).op \in Begins => Call(a).child \in Offspring
    BY <2>3, CallFields
  <2>6. Asked(a) \subseteq Offspring
    BY DEF Asked
  <2>7. EndedWell'
    <3>. SUFFICES ASSUME status'["parent"] = "zombie", "parent" \notin faults'
                  PROVE  codes["parent"][next'["parent"]].op = "exit"
      BY <2>2 DEF EndedWell
    <3>1. CASE MovesOn(a) /\ status'["parent"] = status["parent"]
      <4>1. a # "parent" /\ next'["parent"] = next["parent"] /\ "parent" \notin faults
        BY <2>2, <2>4, <3>1 DEF MovesOn, TypeOK
      <4>. QED  BY <3>1, <4>1 DEF EndedWell
    <3>2. CASE Goes(a)
      BY <3>1, <3>2 DEF Goes
    <3>3. CASE Starts(a)
      <4>1. status'["parent"] = status["parent"]
        BY <2>4, <2>5, <3>3 DEF Starts, TypeOK
      <4>. QED  BY <3>1, <3>3, <4>1 DEF Starts
    <3>4. CASE Waits(a)
      <4>1. status'["parent"] = status["parent"]
        BY <2>4, <2>6, <3>4 DEF Waits, TypeOK
      <4>. QED  BY <3>1, <3>4, <4>1 DEF Waits
    <3>5. CASE Stops(a)
      <4>1. next' = next /\ "parent" \notin faults
        BY <3>5 DEF Stops
      <4>2. CASE status'["parent"] = status["parent"]
        BY <4>1, <4>2 DEF EndedWell
      <4>3. CASE status'["parent"] # status["parent"]
        BY <2>3, <3>5, <4>1, <4>3 DEF Stops
      <4>. QED  BY <4>2, <4>3
    <3>. QED  BY <2>2, <3>2, <3>3, <3>4, <3>5
  <2>8. Owed'
    <3>. SUFFICES ASSUME program \in Waiting, NEW c \in Offspring,
                         status'[c] \in {"running", "zombie"}
                  PROVE  \E k \in next'["parent"] .. Len(codes["parent"]) :
                           WaitsFor(codes["parent"][k], c, Started(codes))
      BY <2>2 DEF Owed
    <3>1. PICK m \in Nat : m = Len(codes["parent"])
      <4>1. codes["parent"] \in Seq(Calls)
        BY <2>4, Running DEF Formed
      <4>. QED  BY <4>1
    <3>2. next["parent"] \in Nat
      BY <2>4 DEF TypeOK
    <3>3. CASE status[c] \in {"running", "zombie"}
      <4>1. PICK k \in next["parent"] .. m : WaitsFor(codes["parent"][k], c, Started(codes))
        BY <3>1, <3>3 DEF Owed
      <4>2. CASE next'["parent"] = next["parent"]
        BY <3>1, <4>1, <4>2
      <4>3. CASE next'["parent"] # next["parent"]
        <5>1. a = "parent" /\ MovesOn(a) /\ next'["parent"] = next["parent"] + 1
          BY <2>2, <2>4, <4>3 DEF Goes, Starts, Waits, Stops, MovesOn, TypeOK
        <5>2. CASE k = next["parent"]
          <6>1. WaitsFor(Call(a), c, Started(codes))
            BY <2>3, <4>1, <5>1, <5>2
          <6>2. Waits(a)
            BY <2>2, <5>1, <6>1 DEF WaitsFor, Goes, Starts, Waits, Stops, Begins, MovesOn, TypeOK
          <6>3. c \in Asked(a)
            BY <3>3, <5>1, <6>1 DEF WaitsFor, Asked
          <6>4. PICK d \in Asked(a) : status' = [status EXCEPT ![d] = "reaped"]
            BY <6>2, <6>3 DEF Waits
          <6>5. d \in Started(codes) /\ d \in Call(a).children
            BY <2>4, <5>1, <6>4 DEF Asked, Started, InCode
          <6>6. d = c
            BY <6>1, <6>5 DEF WaitsFor
          <6>. QED  BY <2>4, <6>4, <6>6 DEF TypeOK
        <5>3. CASE k # next["parent"]
          <6>1. k \in next'["parent"] .. m
            BY <3>1, <3>2, <4>1, <5>1, <5>3
          <6>. QED  BY <3>1, <4>1, <6>1
        <5>. QED  BY <5>2, <5>3
      <4>. QED  BY <4>2, <4>3
    <3>4. CASE status[c] \notin {"running", "zombie"}
      <4>1. Starts(a)
        BY <2>2, <2>4, <3>4 DEF Goes, Waits, Stops, TypeOK
      <4>2. c = Call(a).child /\ a = "parent"
        BY <2>3, <2>4, <3>4, <4>1 DEF Starts, TypeOK
      <4>3. next'["parent"] = next["parent"] + 1
        BY <2>4, <4>1, <4>2 DEF Starts, MovesOn, TypeOK
      <4>4. PICK j \in next["parent"] + 1 .. m : WaitsFor(codes["parent"][j], c, Started(codes))
        BY <2>3, <3>1, <4>1, <4>2, Running DEF Awaited, Starts
      <4>. QED  BY <3>1, <4>3, <4>4
    <3>. QED  BY <3>3, <3>4
  <2>. QED  BY <2>7, <2>8
<1>. QED  BY <1>1, <1>2 DEF Next, Exited

-----------------------------------------------------------------------------
(* The ping-pong of context_switch                                         *)

Switching == program = "context_switch" /\ iters > 0

\* The parent at call k, with v answers and s bytes sent; the child at call k,
\* with u bytes read and t sent.
Asking(k, v, s, r) ==
  \/ k <= 5 /\ v = 0 /\ s = 0
  \/ k = 6 + 2 * v /\ v <= r /\ s = v
  \/ k = 7 + 2 * v /\ v < r /\ s = v + 1
  \/ k = 7 + 2 * r /\ v = r /\ s = r

Answering(k, u, t, r) ==
  \/ k <= 2 /\ u = 0 /\ t = 0
  \/ k = 3 + 2 * u /\ u <= r /\ t = u
  \/ k = 2 + 2 * u /\ 1 <= u /\ u <= r /\ t = u - 1

\* Until the parent has waited; what was sent is in the pipe or was read.
Playing ==
  /\ value["parent"] \in Nat
  /\ Asking(next["parent"], value["parent"], pipe["p"] + value["child"], Rounds(iters))
  /\ Answering(next["child"], value["child"], pipe["q"] + value["parent"], Rounds(iters))

Played ==
  /\ next["parent"] = 8 + 2 * Rounds(iters)
  /\ pipe["p"] + pipe["q"] <= 1 /\ status["child"] \notin {"running", "zombie"}

SwitchRounds == Switching => value["child"] \in Nat /\ (Playing \/ Played)

\* Without rounds nothing happens at all.
SwitchIdle ==
  program = "context_switch" /\ ~(iters > 0) =>
    pipe["p"] = 0 /\ pipe["q"] = 0 /\ status["child"] = "none"

\* No descriptor but stdout is anything but an end of a pipe, and it is its own.
SwitchEnds ==
  program = "context_switch" => \A a \in Actors :
    /\ \A e \in Ends : fds[a][e] \in {"closed", e}
    /\ fds[a]["stdout"] \in {"closed", "terminal", "redirected"}

\* Both can write to each other.
SwitchOpen ==
  Switching =>
    /\ status["parent"] = "running" =>
         /\ next["parent"] >= 2 => fds["parent"]["p[1]"] = "p[1]"
         /\ next["parent"] = 3 => fds["parent"]["q[1]"] = "q[1]"
    /\ status["child"] = "running" => fds["child"]["q[1]"] = "q[1]"

\* The places, for the code that runs.
LEMMA SwitchCodes ==
  ASSUME TypeOK, Switching, NEW r, r = Rounds(iters)
  PROVE  r \in Nat /\ SwitchPlaces(codes, r)
<1>1. iters \in Int
  BY KillsAssumption DEF KillsAssumption, TypeOK
<1>2. iters > 0 /\ codes = context_switch(iters)
  BY DEF Switching, codes, CodeOf
<1>. QED  BY <1>1, <1>2, SwitchCalls

\* What the parent does at its place.
LEMMA ParentAt ==
  ASSUME TypeOK, InCode, Switching, NEW r \in Nat, r = Rounds(iters),
         NEW c, c = Call("parent"), NEW k, k = next["parent"]
  PROVE  /\ k \in 1 .. 8 + 2 * r
         /\ k = 1 => c.op = "pipe" /\ c.name = "p"
         /\ k = 2 => c.op = "pipe" /\ c.name = "q"
         /\ k = 3 => c.op = "fork" /\ c.child = "child"
         /\ k = 4 => c.op = "close" /\ c.fd = "p[0]"
         /\ k = 5 => c.op = "close" /\ c.fd = "q[1]"
         /\ \A j \in 0 .. r - 1 :
              /\ k = 6 + 2 * j => c.op = "write" /\ c.fd = "p[1]"
              /\ k = 7 + 2 * j => c.op = "read" /\ c.fd = "q[0]" /\ c.n = 1 /\ c.must
         /\ k = 6 + 2 * r => c.op = "print"
         /\ k = 7 + 2 * r => c.op = "wait"
         /\ k = 8 + 2 * r => c.op = "exit"
<1>2. /\ Len(codes["parent"]) = 8 + 2 * r
      /\ \A j \in 1 .. 5 : codes["parent"][j] = ParentHead[j]
      /\ \A j \in 0 .. r - 1 : /\ codes["parent"][6 + 2 * j] = Ping[1]
                               /\ codes["parent"][7 + 2 * j] = Ping[2]
      /\ codes["parent"][6 + 2 * r] = Printf("cost")[1]
      /\ codes["parent"][7 + 2 * r] = Wait({"child"})[1]
      /\ codes["parent"][8 + 2 * r] = Return[1]
  BY SwitchCodes DEF SwitchPlaces
<1>3. c = codes["parent"][k]
  BY DEF Call, codes
<1>4. "parent" \in Actors /\ Len(codes["parent"]) > 0
  BY Running DEF Formed, Actors
<1>5. k \in 1 .. 8 + 2 * r
  BY <1>2, <1>4 DEF InCode
<1>6. 1 \in 1 .. 5 /\ 2 \in 1 .. 5 /\ 3 \in 1 .. 5 /\ 4 \in 1 .. 5 /\ 5 \in 1 .. 5
  OBVIOUS
<1>7. /\ k = 1 => c = ParentHead[1]
      /\ k = 2 => c = ParentHead[2]
      /\ k = 3 => c = ParentHead[3]
      /\ k = 4 => c = ParentHead[4]
      /\ k = 5 => c = ParentHead[5]
  BY <1>2, <1>3, <1>6
<1>8. /\ k = 1 => c.op = "pipe" /\ c.name = "p"
      /\ k = 2 => c.op = "pipe" /\ c.name = "q"
      /\ k = 3 => c.op = "fork" /\ c.child = "child"
      /\ k = 4 => c.op = "close" /\ c.fd = "p[0]"
      /\ k = 5 => c.op = "close" /\ c.fd = "q[1]"
  BY <1>7, HeadFields
<1>9. ASSUME NEW j \in 0 .. r - 1
      PROVE  /\ k = 6 + 2 * j => c.op = "write" /\ c.fd = "p[1]"
             /\ k = 7 + 2 * j => c.op = "read" /\ c.fd = "q[0]" /\ c.n = 1 /\ c.must
  <2>1. k = 6 + 2 * j => c = Ping[1]
    BY <1>2, <1>3
  <2>2. k = 7 + 2 * j => c = Ping[2]
    BY <1>2, <1>3
  <2>. QED  BY <2>1, <2>2, RoundFields
<1>10. Printf("cost")[1].op = "print"
  BY DEF Printf
<1>11. Wait({"child"})[1].op = "wait"
  BY DEF Wait
<1>12. Return[1].op = "exit"
  BY DEF Return
<1>13. k = 6 + 2 * r => c.op = "print"
  BY <1>2, <1>3, <1>10
<1>14. k = 7 + 2 * r => c.op = "wait"
  BY <1>2, <1>3, <1>11
<1>15. k = 8 + 2 * r => c.op = "exit"
  BY <1>2, <1>3, <1>12
<1>. QED  BY <1>5, <1>8, <1>9, <1>13, <1>14, <1>15

\* What the child does at its place.
LEMMA ChildAt ==
  ASSUME TypeOK, InCode, Switching, NEW r \in Nat, r = Rounds(iters),
         NEW c, c = Call("child"), NEW k, k = next["child"]
  PROVE  /\ k \in 1 .. 3 + 2 * r
         /\ k = 1 => c.op = "close" /\ c.fd = "p[1]"
         /\ k = 2 => c.op = "close" /\ c.fd = "q[0]"
         /\ \A j \in 0 .. r - 1 :
              /\ k = 3 + 2 * j => c.op = "read" /\ c.fd = "p[0]" /\ c.n = 1 /\ c.must
              /\ k = 4 + 2 * j => c.op = "write" /\ c.fd = "q[1]"
         /\ k = 3 + 2 * r => c.op = "exit"
<1>2. /\ Len(codes["child"]) = 3 + 2 * r
      /\ \A j \in 1 .. 2 : codes["child"][j] = ChildHead[j]
      /\ \A j \in 0 .. r - 1 : /\ codes["child"][3 + 2 * j] = Pong[1]
                               /\ codes["child"][4 + 2 * j] = Pong[2]
      /\ codes["child"][3 + 2 * r] = ExitNow[1]
  BY SwitchCodes DEF SwitchPlaces
<1>3. c = codes["child"][k]
  BY DEF Call, codes
<1>4. "child" \in Actors /\ Len(codes["child"]) > 0
  <2>1. "child" \in Actors
    BY DEF Actors
  <2>2. 3 + 2 * r > 0
    OBVIOUS
  <2>. QED  BY <1>2, <2>1, <2>2
<1>5. k \in 1 .. 3 + 2 * r
  BY <1>2, <1>4 DEF InCode
<1>6. 1 \in 1 .. 2 /\ 2 \in 1 .. 2
  OBVIOUS
<1>7. (k = 1 => c = ChildHead[1]) /\ (k = 2 => c = ChildHead[2])
  BY <1>2, <1>3, <1>6
<1>8. /\ k = 1 => c.op = "close" /\ c.fd = "p[1]"
      /\ k = 2 => c.op = "close" /\ c.fd = "q[0]"
  BY <1>7, HeadFields
<1>9. ASSUME NEW j \in 0 .. r - 1
      PROVE  /\ k = 3 + 2 * j => c.op = "read" /\ c.fd = "p[0]" /\ c.n = 1 /\ c.must
             /\ k = 4 + 2 * j => c.op = "write" /\ c.fd = "q[1]"
  <2>1. k = 3 + 2 * j => c = Pong[1]
    BY <1>2, <1>3
  <2>2. k = 4 + 2 * j => c = Pong[2]
    BY <1>2, <1>3
  <2>. QED  BY <2>1, <2>2, RoundFields
<1>10. ExitNow[1].op = "exit"
  BY DEF ExitNow
<1>11. k = 3 + 2 * r => c.op = "exit"
  BY <1>2, <1>3, <1>10
<1>. QED  BY <1>5, <1>8, <1>9, <1>11

\* Only the parent and, with rounds, the child have a code.
LEMMA TwoRun ==
  ASSUME TypeOK, InCode, program = "context_switch", NEW a \in Actors, status[a] # "none"
  PROVE  a = "parent" \/ (a = "child" /\ Switching)
<1>1. iters \in Int /\ codes = context_switch(iters)
  BY KillsAssumption DEF KillsAssumption, TypeOK, codes, CodeOf
<1>2. Len(codes[a]) > 0
  BY DEF InCode
<1>3. CASE iters > 0
  <2>1. Switching
    BY <1>3 DEF Switching
  <2>2. Len(codes["child2"]) = 0
    BY <2>1, SwitchCodes DEF SwitchPlaces
  <2>. QED  BY <1>2, <2>1, <2>2 DEF Actors
<1>4. CASE ~(iters > 0)
  <2>1. codes = Code(Return, <<>>, <<>>)
    BY <1>1, <1>4 DEF context_switch
  <2>2. a # "parent" => codes[a] = <<>>
    BY <2>1 DEF Code, Actors
  <2>3. Len(<<>>) = 0
    OBVIOUS
  <2>. QED  BY <1>2, <2>2, <2>3
<1>. QED  BY <1>3, <1>4

\* Without rounds the parent only returns.
LEMMA IdleAt ==
  ASSUME TypeOK, InCode, program = "context_switch", ~(iters > 0)
  PROVE  Call("parent").op = "exit"
<1>1. iters \in Int /\ codes = context_switch(iters)
  BY KillsAssumption DEF KillsAssumption, TypeOK, codes, CodeOf
<1>2. codes = Code(Return, <<>>, <<>>)
  BY <1>1 DEF context_switch
<1>3. codes["parent"] = Return /\ "parent" \in Actors
  BY <1>2 DEF Code, Actors
<1>4. Len(Return) = 1 /\ Return[1].op = "exit"
  BY Ending
<1>5. Len(codes["parent"]) = 1 /\ codes["parent"][1].op = "exit"
  BY <1>3, <1>4
<1>6. next["parent"] \in 1 .. Len(codes["parent"])
  <2>1. Len(codes["parent"]) > 0
    BY <1>5
  <2>. QED  BY <1>3, <2>1 DEF InCode
<1>7. next["parent"] = 1
  BY <1>5, <1>6
<1>. QED  BY <1>5, <1>7 DEF Call, codes

-----------------------------------------------------------------------------
(* What a step does to the ping-pong                                       *)

\* A process ends: nothing but that.
Halts(a) ==
  /\ UNCHANGED <<next, value, pipe>>
  /\ status' = [status EXCEPT ![a] = "zombie"]
  /\ fds' = [fds EXCEPT ![a] = [d \in Descriptors |-> "closed"]]

\* It goes on, and nothing else changes; but its descriptors, its pipes or who runs.
Onward(a)  == next' = [next EXCEPT ![a] = @ + 1]
SameFds    == fds' = fds
SamePlay   == value' = value /\ pipe' = pipe
SameStatus == status' = status

\* An end in this program never writes into a pipe.
LEMMA OverHalts ==
  ASSUME TypeOK, SwitchEnds, program = "context_switch", NEW a \in Actors, status[a] = "running",
         NEW lines, Over(a, lines)
  PROVE  Halts(a) /\ program' = program /\ iters' = iters
<1>1. Process(a) = a /\ Members(a) = {a}
  BY DEF Process, Members, Threaded
<1>2. My(a, "stdout") \in {"closed", "terminal", "redirected"}
  BY <1>1 DEF SwitchEnds, My
<1>3. \A p \in Pipes : My(a, "stdout") # WriteEnd[p]
  BY <1>2 DEF Pipes, WriteEnd
<1>4. pipe' = [p \in Pipes |-> pipe[p]]
  BY <1>3 DEF Over, Emit
<1>5. pipe' = pipe
  BY <1>4 DEF TypeOK
<1>6. UNCHANGED <<program, iters, next, value>>
  BY DEF Over, config
<1>7. status' = [status EXCEPT ![a] = "zombie"]
  <2>1. status' = [b \in Actors |-> IF b \in Members(Process(a)) /\ status[b] = "running"
                                    THEN "zombie" ELSE status[b]]
    BY DEF Over
  <2>. QED  BY <1>1, <2>1 DEF TypeOK
<1>8. fds' = [fds EXCEPT ![a] = [d \in Descriptors |-> "closed"]]
  BY <1>1 DEF Over
<1>. QED  BY <1>5, <1>6, <1>7, <1>8 DEF Halts

\* A call of this program does what it is for, or the process ends.
Piped(a) ==
  /\ Call(a).op = "pipe" /\ Onward(a) /\ SamePlay /\ SameStatus
  /\ fds' = [fds EXCEPT ![a] = [d \in Descriptors |->
       IF d \in {ReadEnd[Call(a).name], WriteEnd[Call(a).name]} THEN d ELSE fds[a][d]]]

Closed(a) ==
  /\ Call(a).op = "close" /\ Onward(a) /\ SamePlay /\ SameStatus
  /\ fds' = [fds EXCEPT ![a] = [d \in Descriptors |->
       IF d = Call(a).fd THEN "closed" ELSE fds[a][d]]]

Forked(a) ==
  /\ Call(a).op = "fork" /\ Onward(a) /\ pipe' = pipe
  /\ status' = [status EXCEPT ![Call(a).child] = "running"]
  /\ value' = [value EXCEPT ![Call(a).child] = value[a]]
  /\ fds' = [fds EXCEPT ![Call(a).child] = fds[a]]

Shown(a) == Call(a).op = "print" /\ Onward(a) /\ SamePlay /\ SameStatus /\ SameFds

Waited(a) ==
  /\ Call(a).op = "wait" /\ Onward(a) /\ pipe' = pipe /\ SameFds
  /\ \E v \in Int : value' = [value EXCEPT ![a] = v]
  /\ \A b \in Actors : status'[b] # status[b] => status[b] = "zombie" /\ status'[b] = "reaped"

Sent(a) ==
  /\ Call(a).op = "write" /\ Onward(a) /\ value' = value /\ SameStatus /\ SameFds
  /\ pipe' = [p \in Pipes |-> IF fds[a][Call(a).fd] = WriteEnd[p] THEN pipe[p] + 1 ELSE pipe[p]]

Received(a) ==
  /\ Call(a).op = "read" /\ Onward(a) /\ SameStatus /\ SameFds
  /\ \E p \in Pipes :
       /\ fds[a][Call(a).fd] = ReadEnd[p] /\ pipe[p] >= 1
       /\ value' = [value EXCEPT ![a] = value[a] + 1]
       /\ pipe' = [pipe EXCEPT ![p] = pipe[p] - 1]

\* Its calls, each with what it does.
LEMMA SwitchSteps ==
  ASSUME TypeOK, InCode, SwitchEnds, program = "context_switch",
         NEW a \in Actors, Step(a) \/ Kill(a),
         Call(a).op \in {"pipe", "close", "fork", "print", "wait", "write", "read", "exit"},
         Call(a).op = "write" => Call(a).fd \in Ends,
         Call(a).op = "read" => Call(a).n = 1 /\ Call(a).must
  PROVE  \/ Halts(a) \/ Piped(a) \/ Closed(a) \/ Forked(a) \/ Shown(a) \/ Waited(a)
         \/ Sent(a) \/ Received(a)
<1>1. status[a] = "running"
  BY Kinds
<1>2. Process(a) = a
  BY DEF Process, Threaded
<1>3. ASSUME Fail(a) PROVE Halts(a)
  BY <1>1, <1>3, OverHalts DEF Fail
<1>d. ASSUME Done(a) PROVE Onward(a) /\ value' = value
  BY <1>d DEF Done, Returns, Onward, TypeOK
<1>o. ASSUME NEW changed, Opened(a, changed)
      PROVE  /\ Onward(a) /\ SamePlay /\ SameStatus
             /\ fds' = [fds EXCEPT ![a] = [d \in Descriptors |->
                  IF d \in DOMAIN changed THEN changed[d] ELSE fds[a][d]]]
  <2>1. Done(a) /\ UNCHANGED <<status, pipe>>
    BY <1>o DEF Opened
  <2>2. fds' = [fds EXCEPT ![a] = [d \in Descriptors |->
          IF d \in DOMAIN changed THEN changed[d] ELSE fds[a][d]]]
    BY <1>2, <1>o DEF Opened, TypeOK
  <2>. QED  BY <1>d, <2>1, <2>2 DEF SamePlay, SameStatus
<1>4. CASE Exit(a)
  <2>1. PICK lines : Over(a, lines)
    BY <1>2, <1>4 DEF Exit
  <2>. QED  BY <1>1, <2>1, OverHalts
<1>5. CASE Kill(a)
  BY <1>1, <1>5, OverHalts DEF Kill
<1>6. CASE CallFails(a)
  BY <1>3, <1>6 DEF CallFails
<1>7. CASE ForkProcess(a)
  BY <1>7 DEF ForkProcess, Forked, At, Onward, Begin
<1>8. CASE WaitForChild(a)
  <2>1. /\ Call(a).op = "wait" /\ pipe' = pipe /\ SameFds
        /\ \/ Returns(a, -1) /\ status' = status
           \/ \E c \in Actors : /\ Returns(a, Pid(c)) /\ status[c] = "zombie"
                                /\ status' = [status EXCEPT ![c] = "reaped"]
    BY <1>8 DEF WaitForChild, At, SameFds
  <2>2. -1 \in Int /\ \A c \in Actors : Pid(c) \in Int
    BY DEF Pid
  <2>3. \E v \in Int : Returns(a, v)
    BY <2>1, <2>2
  <2>4. \A b \in Actors : status'[b] # status[b] => status[b] = "zombie" /\ status'[b] = "reaped"
    BY <2>1 DEF TypeOK
  <2>. QED  BY <2>1, <2>3, <2>4 DEF Waited, Returns, Onward
<1>9. CASE CreatePipe(a)
  <2>1. Call(a).op = "pipe"
    BY <1>9 DEF CreatePipe, At
  <2>2. PICK r, w : r = ReadEnd[Call(a).name] /\ w = WriteEnd[Call(a).name]
    OBVIOUS
  <2>3. Opened(a, [d \in {r, w} |-> d])
    BY <1>9, <2>2 DEF CreatePipe
  <2>4. /\ Onward(a) /\ SamePlay /\ SameStatus
        /\ fds' = [fds EXCEPT ![a] = [d \in Descriptors |->
             IF d \in DOMAIN [e \in {r, w} |-> e] THEN [e \in {r, w} |-> e][d] ELSE fds[a][d]]]
    BY <1>o, <2>3
  <2>5. fds' = [fds EXCEPT ![a] = [d \in Descriptors |-> IF d \in {r, w} THEN d ELSE fds[a][d]]]
    BY <2>4
  <2>. QED  BY <2>1, <2>2, <2>4, <2>5 DEF Piped
<1>10. CASE CloseDescriptor(a)
  <2>1. Call(a).op = "close"
    BY <1>10 DEF CloseDescriptor, At
  <2>2. PICK f : f = Call(a).fd
    OBVIOUS
  <2>3. Opened(a, [d \in {f} |-> "closed"])
    BY <1>10, <2>2 DEF CloseDescriptor
  <2>4. /\ Onward(a) /\ SamePlay /\ SameStatus
        /\ fds' = [fds EXCEPT ![a] = [d \in Descriptors |->
             IF d \in DOMAIN [e \in {f} |-> "closed"] THEN [e \in {f} |-> "closed"][d]
             ELSE fds[a][d]]]
    BY <1>o, <2>3
  <2>5. fds' = [fds EXCEPT ![a] = [d \in Descriptors |-> IF d = f THEN "closed" ELSE fds[a][d]]]
    BY <2>4
  <2>. QED  BY <2>1, <2>2, <2>4, <2>5 DEF Closed
<1>11. CASE PrintLine(a)
  <2>1. Call(a).op = "print" /\ Done(a) /\ UNCHANGED <<status, fds, pipe>>
    BY <1>11 DEF PrintLine, At
  <2>. QED  BY <1>d, <2>1 DEF Shown, SamePlay, SameStatus, SameFds
<1>12. CASE WriteBytes(a)
  <2>1. Call(a).op = "write"
    BY <1>12 DEF WriteBytes, At
  <2>2. CASE Over(a, <<>>) /\ faults' = faults \union {a}
    BY <1>1, <2>2, OverHalts
  <2>3. CASE ~(Over(a, <<>>) /\ faults' = faults \union {a})
    <3>1. /\ Done(a) /\ UNCHANGED <<status, fds>>
          /\ pipe' = [p \in Pipes |->
                 IF My(a, Call(a).fd) = WriteEnd[p] THEN pipe[p] + 1 ELSE pipe[p]]
      BY <1>12, <2>3 DEF WriteBytes
    <3>. QED  BY <1>2, <1>d, <2>1, <3>1 DEF Sent, SameStatus, SameFds, My
  <2>. QED  BY <2>2, <2>3
<1>13. CASE WriteFile(a)
  <2>1. Call(a).op = "write" /\ fds[a][Call(a).fd] \in Actors
    BY <1>2, <1>13 DEF WriteFile, At, My
  <2>2. fds[a][Call(a).fd] \in Ends \union {"closed"}
    BY <2>1 DEF SwitchEnds
  <2>. QED  BY <2>1, <2>2 DEF Ends, Actors
<1>14. CASE ReadPipe(a)
  <2>1. Call(a).op = "read" /\ Call(a).n = 1 /\ Call(a).must
    BY <1>14 DEF ReadPipe, At
  <2>2. CASE Fail(a)
    BY <1>3, <2>2
  <2>3. CASE ~Fail(a)
    <3>0. PICK p \in Pipes : \E got :
            /\ My(a, Call(a).fd) = ReadEnd[p]
            /\ got = IF pipe[p] < 1 THEN pipe[p] ELSE 1
            /\ ~(got < 1)
            /\ Returns(a, value[a] + got)
            /\ pipe' = [pipe EXCEPT ![p] = @ - got]
            /\ UNCHANGED <<status, fds>>
      BY <1>14, <2>1, <2>3 DEF ReadPipe
    <3>1. PICK got :
            /\ My(a, Call(a).fd) = ReadEnd[p]
            /\ got = IF pipe[p] < 1 THEN pipe[p] ELSE 1
            /\ ~(got < 1)
            /\ Returns(a, value[a] + got)
            /\ pipe' = [pipe EXCEPT ![p] = @ - got]
            /\ UNCHANGED <<status, fds>>
      BY <3>0
    <3>2. pipe[p] \in Nat
      BY DEF TypeOK
    <3>3. got = 1 /\ pipe[p] >= 1
      BY <3>1, <3>2
    <3>4. /\ value' = [value EXCEPT ![a] = value[a] + 1] /\ Onward(a)
          /\ pipe' = [pipe EXCEPT ![p] = pipe[p] - 1]
      BY <3>1, <3>3 DEF Returns, Onward
    <3>. QED  BY <1>2, <2>1, <3>1, <3>3, <3>4 DEF Received, SameStatus, SameFds, My
  <2>. QED  BY <2>2, <2>3
<1>15. ~(CreateThread(a) \/ SemPostCall(a) \/ SemWaitCall(a) \/ Compute(a) \/ OpenFile(a)
          \/ Duplicate(a) \/ ExecSucceeds(a) \/ ExecFails(a))
  BY DEF CreateThread, SemPostCall, SemWaitCall, Compute, OpenFile, Duplicate, ExecSucceeds,
         ExecFails, At
<1>. QED
  BY <1>4, <1>5, <1>6, <1>7, <1>8, <1>9, <1>10, <1>11, <1>12, <1>13, <1>14, <1>15 DEF Step

-----------------------------------------------------------------------------
(* The counts of the ping-pong                                             *)

\* The parent at call k with v answers, the child at call m with u bytes read,
\* and a and b bytes in the two pipes.
Play(k, m, v, u, a, b, r) == v \in Nat /\ Asking(k, v, a + u, r) /\ Answering(m, u, b + v, r)

\* Never more than one byte is under way.
LEMMA PlayBounds ==
  ASSUME NEW k \in Nat, NEW m \in Nat, NEW v \in Int, NEW u \in Nat, NEW a \in Nat, NEW b \in Nat,
         NEW r \in Nat, Play(k, m, v, u, a, b, r)
  PROVE  a + b <= 1 /\ u - v \in {0, 1}
BY DEF Play, Asking, Answering

\* What the parent does.
LEMMA ParentPlays ==
  ASSUME NEW k \in Nat, NEW m \in Nat, NEW v \in Int, NEW u \in Nat, NEW a \in Nat, NEW b \in Nat,
         NEW r \in Nat, Play(k, m, v, u, a, b, r)
  PROVE  /\ k <= 5 => Play(k + 1, m, v, u, a, b, r) /\ u = 0 /\ v = 0
         /\ k = 6 + 2 * v /\ v < r => Play(k + 1, m, v, u, a + 1, b, r)
         /\ k = 7 + 2 * v /\ v < r /\ b >= 1 => Play(k + 1, m, v + 1, u, a, b - 1, r)
         /\ k = 6 + 2 * r => Play(k + 1, m, v, u, a, b, r)
BY DEF Play, Asking, Answering

\* What the child does.
LEMMA ChildPlays ==
  ASSUME NEW k \in Nat, NEW m \in Nat, NEW v \in Int, NEW u \in Nat, NEW a \in Nat, NEW b \in Nat,
         NEW r \in Nat, Play(k, m, v, u, a, b, r)
  PROVE  /\ m <= 2 => Play(k, m + 1, v, u, a, b, r)
         /\ m = 3 + 2 * u /\ u < r /\ a >= 1 => Play(k, m + 1, v, u + 1, a - 1, b, r)
         /\ m = 2 + 2 * u /\ 1 <= u /\ u <= r => Play(k, m + 1, v, u, a, b + 1, r)
BY DEF Play, Asking, Answering

\* Where the parent is and what it does there.
LEMMA ParentDoes ==
  ASSUME TypeOK, InCode, SwitchEnds, SwitchRounds, Switching,
         Step("parent") \/ Kill("parent"), NEW k, k = next["parent"], NEW v, v = value["parent"],
         NEW r, r = Rounds(iters)
  PROVE  \/ Halts("parent")
         \/ k = 1 /\ Piped("parent") /\ Call("parent").name = "p"
         \/ k = 2 /\ Piped("parent") /\ Call("parent").name = "q"
         \/ k = 3 /\ Forked("parent") /\ Call("parent").child = "child"
         \/ k = 4 /\ Closed("parent") /\ Call("parent").fd = "p[0]"
         \/ k = 5 /\ Closed("parent") /\ Call("parent").fd = "q[1]"
         \/ k = 6 + 2 * v /\ v < r /\ Sent("parent") /\ Call("parent").fd = "p[1]"
         \/ k = 7 + 2 * v /\ v < r /\ Received("parent") /\ Call("parent").fd = "q[0]"
         \/ k = 6 + 2 * r /\ Shown("parent")
         \/ k = 7 + 2 * r /\ Waited("parent")
<1>1. PICK c : c = Call("parent")
  OBVIOUS
<1>2. r \in Nat
  BY SwitchCodes
<1>3. /\ k \in 1 .. 8 + 2 * r
      /\ k = 1 => c.op = "pipe" /\ c.name = "p"
      /\ k = 2 => c.op = "pipe" /\ c.name = "q"
      /\ k = 3 => c.op = "fork" /\ c.child = "child"
      /\ k = 4 => c.op = "close" /\ c.fd = "p[0]"
      /\ k = 5 => c.op = "close" /\ c.fd = "q[1]"
      /\ \A j \in 0 .. r - 1 :
           /\ k = 6 + 2 * j => c.op = "write" /\ c.fd = "p[1]"
           /\ k = 7 + 2 * j => c.op = "read" /\ c.fd = "q[0]" /\ c.n = 1 /\ c.must
      /\ k = 6 + 2 * r => c.op = "print"
      /\ k = 7 + 2 * r => c.op = "wait"
      /\ k = 8 + 2 * r => c.op = "exit"
  BY <1>1, <1>2, ParentAt
<1>4. \/ k \in {1, 2, 3, 4, 5}
      \/ v \in 0 .. r - 1 /\ k = 6 + 2 * v
      \/ v \in 0 .. r - 1 /\ k = 7 + 2 * v
      \/ k \in {6 + 2 * r, 7 + 2 * r, 8 + 2 * r}
  <2>1. (v \in Nat /\ \E s : Asking(k, v, s, r)) \/ k = 8 + 2 * r
    BY DEF SwitchRounds, Playing, Played
  <2>2. CASE v \in Nat /\ \E s : Asking(k, v, s, r)
    <3>1. PICK s : Asking(k, v, s, r)
      BY <2>2
    <3>2. k \in Nat /\ k >= 1
      BY <1>2, <1>3
    <3>3. k <= 5 => k \in {1, 2, 3, 4, 5}
      BY <3>2
    <3>. QED  BY <1>2, <2>2, <3>1, <3>2, <3>3 DEF Asking
  <2>. QED  BY <2>1, <2>2
<1>5. "parent" \in Actors /\ program = "context_switch"
  BY DEF Actors, Switching
<1>6. \/ k = 1 /\ c.op = "pipe" /\ c.name = "p"
      \/ k = 2 /\ c.op = "pipe" /\ c.name = "q"
      \/ k = 3 /\ c.op = "fork" /\ c.child = "child"
      \/ k = 4 /\ c.op = "close" /\ c.fd = "p[0]"
      \/ k = 5 /\ c.op = "close" /\ c.fd = "q[1]"
      \/ k = 6 + 2 * v /\ v < r /\ c.op = "write" /\ c.fd = "p[1]"
      \/ k = 7 + 2 * v /\ v < r /\ c.op = "read" /\ c.fd = "q[0]" /\ c.n = 1 /\ c.must
      \/ k = 6 + 2 * r /\ c.op = "print"
      \/ k = 7 + 2 * r /\ c.op = "wait"
      \/ c.op = "exit"
  BY <1>2, <1>3, <1>4
<1>7. /\ c.op \in {"pipe", "close", "fork", "print", "wait", "write", "read", "exit"}
      /\ c.op = "write" => c.fd \in Ends
      /\ c.op = "read" => c.n = 1 /\ c.must
  BY <1>6 DEF Ends
<1>8. \/ Halts("parent") \/ Piped("parent") \/ Closed("parent") \/ Forked("parent")
      \/ Shown("parent") \/ Waited("parent") \/ Sent("parent") \/ Received("parent")
  BY <1>1, <1>5, <1>7, SwitchSteps
<1>9. /\ Piped("parent") => c.op = "pipe"
      /\ Closed("parent") => c.op = "close"
      /\ Forked("parent") => c.op = "fork"
      /\ Shown("parent") => c.op = "print"
      /\ Waited("parent") => c.op = "wait"
      /\ Sent("parent") => c.op = "write"
      /\ Received("parent") => c.op = "read"
  BY <1>1 DEF Piped, Closed, Forked, Shown, Waited, Sent, Received
<1>. QED  BY <1>1, <1>6, <1>8, <1>9

\* Where the child is and what it does there.
LEMMA ChildDoes ==
  ASSUME TypeOK, InCode, SwitchEnds, SwitchRounds, Switching,
         Step("child") \/ Kill("child"), NEW k, k = next["child"], NEW u, u = value["child"],
         NEW r, r = Rounds(iters)
  PROVE  /\ Playing
         /\ \/ Halts("child")
            \/ k = 1 /\ Closed("child") /\ Call("child").fd = "p[1]"
            \/ k = 2 /\ Closed("child") /\ Call("child").fd = "q[0]"
            \/ k = 3 + 2 * u /\ u < r /\ Received("child") /\ Call("child").fd = "p[0]"
            \/ k = 2 + 2 * u /\ 1 <= u /\ u <= r /\ Sent("child") /\ Call("child").fd = "q[1]"
<1>1. PICK c : c = Call("child")
  OBVIOUS
<1>2. r \in Nat
  BY SwitchCodes
<1>3. /\ k \in 1 .. 3 + 2 * r
      /\ k = 1 => c.op = "close" /\ c.fd = "p[1]"
      /\ k = 2 => c.op = "close" /\ c.fd = "q[0]"
      /\ \A j \in 0 .. r - 1 :
           /\ k = 3 + 2 * j => c.op = "read" /\ c.fd = "p[0]" /\ c.n = 1 /\ c.must
           /\ k = 4 + 2 * j => c.op = "write" /\ c.fd = "q[1]"
      /\ k = 3 + 2 * r => c.op = "exit"
  BY <1>1, <1>2, ChildAt
<1>4. "child" \in Actors /\ program = "context_switch"
  BY DEF Actors, Switching
<1>5. Playing /\ u \in Nat
  <2>1. status["child"] = "running"
    BY <1>4, Kinds
  <2>. QED  BY <2>1 DEF SwitchRounds, Played
<1>6. PICK t : Answering(k, u, t, r)
  BY <1>5 DEF Playing
<1>7. \/ k \in {1, 2}
      \/ k = 3 + 2 * u /\ u <= r
      \/ k = 2 + 2 * u /\ 1 <= u /\ u <= r
  BY <1>3, <1>6 DEF Answering
<1>8. \/ k = 1 /\ c.op = "close" /\ c.fd = "p[1]"
      \/ k = 2 /\ c.op = "close" /\ c.fd = "q[0]"
      \/ k = 3 + 2 * u /\ u < r /\ c.op = "read" /\ c.fd = "p[0]" /\ c.n = 1 /\ c.must
      \/ k = 2 + 2 * u /\ 1 <= u /\ u <= r /\ c.op = "write" /\ c.fd = "q[1]"
      \/ c.op = "exit"
  <2>1. CASE k = 3 + 2 * u /\ u < r
    <3>1. u \in 0 .. r - 1
      BY <1>2, <1>5, <2>1
    <3>. QED  BY <1>3, <2>1, <3>1
  <2>2. CASE k = 3 + 2 * u /\ ~(u < r) /\ u <= r
    <3>1. u = r
      BY <1>2, <1>5, <2>2
    <3>. QED  BY <1>3, <2>2, <3>1
  <2>3. CASE k = 2 + 2 * u /\ 1 <= u /\ u <= r
    <3>1. PICK j \in 0 .. r - 1 : j = u - 1 /\ k = 4 + 2 * j
      BY <1>2, <1>5, <2>3
    <3>. QED  BY <1>3, <2>3, <3>1
  <2>. QED  BY <1>3, <1>7, <2>1, <2>2, <2>3
<1>9. /\ c.op \in {"pipe", "close", "fork", "print", "wait", "write", "read", "exit"}
      /\ c.op = "write" => c.fd \in Ends
      /\ c.op = "read" => c.n = 1 /\ c.must
  BY <1>8 DEF Ends
<1>10. \/ Halts("child") \/ Piped("child") \/ Closed("child") \/ Forked("child")
       \/ Shown("child") \/ Waited("child") \/ Sent("child") \/ Received("child")
  BY <1>1, <1>4, <1>9, SwitchSteps
<1>11. /\ Piped("child") => c.op = "pipe"
       /\ Closed("child") => c.op = "close"
       /\ Forked("child") => c.op = "fork"
       /\ Shown("child") => c.op = "print"
       /\ Waited("child") => c.op = "wait"
       /\ Sent("child") => c.op = "write"
       /\ Received("child") => c.op = "read"
  BY <1>1 DEF Piped, Closed, Forked, Shown, Waited, Sent, Received
<1>. QED  BY <1>1, <1>5, <1>8, <1>10, <1>11

\* All that is said of the ping-pong.
SwitchAll == SwitchEnds /\ SwitchOpen /\ SwitchRounds /\ SwitchIdle

\* The counts of a state.
LEMMA PlayingPlay ==
  ASSUME TypeOK, InCode, Switching, SwitchRounds, next["parent"] # 8 + 2 * Rounds(iters)
  PROVE  Play(next["parent"], next["child"], value["parent"], value["child"], pipe["p"], pipe["q"],
              Rounds(iters))
BY DEF SwitchRounds, Playing, Played, Play

\* And of the next one.
LEMMA PlayPlaying ==
  ASSUME iters' = iters, value'["child"] \in Nat,
         Play(next'["parent"], next'["child"], value'["parent"], value'["child"],
              pipe'["p"], pipe'["q"], Rounds(iters))
  PROVE  SwitchRounds'
BY DEF SwitchRounds, Playing, Play, Rounds

\* The end of a process disturbs nothing.
LEMMA HaltsKeep ==
  ASSUME TypeOK, SwitchAll, NEW a \in Actors, status[a] = "running", Halts(a),
         program' = program, iters' = iters
  PROVE  SwitchAll'
<1>1. SwitchEnds'
  <2>. SUFFICES ASSUME program = "context_switch", NEW b \in Actors
                PROVE  /\ \A e \in Ends : fds'[b][e] \in {"closed", e}
                       /\ fds'[b]["stdout"] \in {"closed", "terminal", "redirected"}
    BY DEF SwitchEnds
  <2>1. Ends \subseteq Descriptors /\ "stdout" \in Descriptors
    BY DEF Descriptors
  <2>2. CASE b = a
    BY <2>1, <2>2 DEF Halts, TypeOK
  <2>3. CASE b # a
    BY <2>3 DEF Halts, TypeOK, SwitchAll, SwitchEnds
  <2>. QED  BY <2>2, <2>3
<1>2. SwitchOpen'
  BY DEF Halts, TypeOK, SwitchAll, SwitchOpen, Switching
<1>3. SwitchIdle'
  BY DEF Halts, TypeOK, SwitchAll, SwitchIdle
<1>4. SwitchRounds'
  <2>. SUFFICES ASSUME Switching PROVE value["child"] \in Nat /\ (Playing \/ Played')
    BY DEF SwitchRounds, Halts, Playing, Rounds, Switching
  <2>1. value["child"] \in Nat /\ (Playing \/ Played)
    BY DEF SwitchAll, SwitchRounds
  <2>2. ASSUME Played PROVE Played'
    <3>1. status'["child"] = status["child"]
      BY <2>2 DEF Played, Halts, TypeOK
    <3>. QED  BY <2>2, <3>1 DEF Played, Halts, Rounds
  <2>. QED  BY <2>1, <2>2
<1>. QED  BY <1>1, <1>2, <1>3, <1>4 DEF SwitchAll

\* Descriptors that are ends stay so, whatever is closed or copied.
LEMMA EndsKeep ==
  ASSUME TypeOK, SwitchEnds, NEW a \in Actors, program' = program,
         SameFds \/ Piped(a) \/ Closed(a) \/ Forked(a),
         Call(a).op = "pipe" => Call(a).name \in Pipes
  PROVE  SwitchEnds'
<1>. SUFFICES ASSUME program = "context_switch", NEW b \in Actors
              PROVE  /\ \A e \in Ends : fds'[b][e] \in {"closed", e}
                     /\ fds'[b]["stdout"] \in {"closed", "terminal", "redirected"}
  BY DEF SwitchEnds
<1>1. Ends \subseteq Descriptors /\ "stdout" \in Descriptors
  BY DEF Descriptors
<1>2. \A c \in Actors : /\ \A e \in Ends : fds[c][e] \in {"closed", e}
                        /\ fds[c]["stdout"] \in {"closed", "terminal", "redirected"}
  BY DEF SwitchEnds
<1>3. CASE SameFds
  BY <1>2, <1>3 DEF SameFds
<1>4. CASE Piped(a)
  <2>1. \A e \in Ends \union {"stdout"} :
          \/ fds'[b][e] = fds[b][e]
          \/ fds'[b][e] = e /\ e \in {ReadEnd[Call(a).name], WriteEnd[Call(a).name]}
    BY <1>1, <1>4 DEF Piped, TypeOK
  <2>2. "stdout" \notin {ReadEnd[Call(a).name], WriteEnd[Call(a).name]}
    BY <1>4 DEF Piped, Pipes, ReadEnd, WriteEnd
  <2>. QED  BY <1>2, <2>1, <2>2
<1>5. CASE Closed(a)
  <2>1. \A e \in Ends \union {"stdout"} : fds'[b][e] = fds[b][e] \/ fds'[b][e] = "closed"
    BY <1>1, <1>5 DEF Closed, TypeOK
  <2>. QED  BY <1>2, <2>1
<1>6. CASE Forked(a)
  <2>1. fds'[b] = fds[b] \/ fds'[b] = fds[a]
    BY <1>6 DEF Forked, TypeOK
  <2>. QED  BY <1>2, <2>1
<1>. QED  BY <1>3, <1>4, <1>5, <1>6

\* The parent's steps.
LEMMA ParentSwitch ==
  ASSUME TypeOK, InCode, SwitchAll, Switching, Step("parent") \/ Kill("parent"),
         next'["parent"] = 8 + 2 * Rounds(iters) => status'["child"] \notin {"running", "zombie"}
  PROVE  SwitchAll'
<1>1. "parent" \in Actors /\ "child" \in Actors /\ "p" \in Pipes /\ "q" \in Pipes
  BY DEF Actors, Pipes
<1>2. /\ status["parent"] = "running" /\ program' = program /\ iters' = iters
      /\ Switching' /\ program = "context_switch"
  BY <1>1, Kinds DEF Switching
<1>3. PICK k, m, v, u, a, b, r :
        /\ k = next["parent"] /\ m = next["child"] /\ v = value["parent"] /\ u = value["child"]
        /\ a = pipe["p"] /\ b = pipe["q"] /\ r = Rounds(iters)
  OBVIOUS
<1>4. k \in Nat /\ m \in Nat /\ v \in Int /\ a \in Nat /\ b \in Nat
  BY <1>1, <1>3 DEF TypeOK
<1>5. r \in Nat /\ u \in Nat
  <2>1. r \in Nat
    BY <1>3, SwitchCodes
  <2>. QED  BY <1>3, <2>1 DEF SwitchAll, SwitchRounds
<1>6. \/ Halts("parent")
      \/ k = 1 /\ Piped("parent") /\ Call("parent").name = "p"
      \/ k = 2 /\ Piped("parent") /\ Call("parent").name = "q"
      \/ k = 3 /\ Forked("parent") /\ Call("parent").child = "child"
      \/ k = 4 /\ Closed("parent") /\ Call("parent").fd = "p[0]"
      \/ k = 5 /\ Closed("parent") /\ Call("parent").fd = "q[1]"
      \/ k = 6 + 2 * v /\ v < r /\ Sent("parent") /\ Call("parent").fd = "p[1]"
      \/ k = 7 + 2 * v /\ v < r /\ Received("parent") /\ Call("parent").fd = "q[0]"
      \/ k = 6 + 2 * r /\ Shown("parent")
      \/ k = 7 + 2 * r /\ Waited("parent")
  BY <1>3, ParentDoes DEF SwitchAll
<1>7. CASE Halts("parent")
  BY <1>1, <1>2, <1>7, HaltsKeep
<1>8. CASE ~Halts("parent")
  <2>1. Play(k, m, v, u, a, b, r)
    <3>1. k # 8 + 2 * r
      BY <1>4, <1>5, <1>6, <1>8
    <3>. QED  BY <1>3, <3>1, PlayingPlay DEF SwitchAll
  <2>2. Onward("parent")
    BY <1>6, <1>8 DEF Piped, Forked, Closed, Sent, Received, Shown, Waited
  <2>3. next'["parent"] = k + 1 /\ next'["child"] = m
    BY <1>1, <1>3, <2>2 DEF Onward, TypeOK
  <2>4. SwitchEnds'
    <3>1. /\ SameFds \/ Piped("parent") \/ Closed("parent") \/ Forked("parent")
          /\ Call("parent").op = "pipe" => Call("parent").name \in Pipes
      BY <1>1, <1>6, <1>8 DEF Sent, Received, Shown, Waited, Piped, Closed, Forked
    <3>. QED  BY <1>1, <1>2, <3>1, EndsKeep DEF SwitchAll
  <2>5. SwitchIdle'
    BY <1>2 DEF SwitchIdle, Switching
  <2>6. SwitchRounds'
    <3>1. Rounds(iters') = r /\ Rounds(iters) = r
      BY <1>2, <1>3
    <3>2. CASE k <= 5 /\ (SamePlay \/ (k = 3 /\ Forked("parent") /\ Call("parent").child = "child"))
      <4>1. Play(k + 1, m, v, u, a, b, r) /\ u = 0 /\ v = 0
        <5>1. k <= 5
          BY <3>2
        <5>. QED  BY <1>4, <1>5, <2>1, <5>1, ParentPlays
      <4>2. pipe' = pipe /\ value'["parent"] = v /\ value'["child"] = u
        BY <1>1, <1>3, <3>2, <4>1 DEF SamePlay, Forked, TypeOK
      <4>. QED  BY <1>2, <1>3, <1>5, <2>3, <4>1, <4>2, PlayPlaying
    <3>3. CASE k = 6 + 2 * r /\ Shown("parent")
      <4>1. Play(k + 1, m, v, u, a, b, r)
        BY <1>4, <1>5, <2>1, <3>3, ParentPlays
      <4>2. pipe' = pipe /\ value' = value
        BY <3>3 DEF SamePlay, Shown
      <4>. QED  BY <1>2, <1>3, <1>5, <2>3, <4>1, <4>2, PlayPlaying
    <3>4. CASE k = 6 + 2 * v /\ v < r /\ Sent("parent") /\ Call("parent").fd = "p[1]"
      <4>1. Play(k + 1, m, v, u, a + 1, b, r)
        BY <1>4, <1>5, <2>1, <3>4, ParentPlays
      <4>2. fds["parent"]["p[1]"] = "p[1]"
        <5>1. v \in Nat
          BY <2>1 DEF Play
        <5>2. k >= 2
          BY <1>4, <3>4, <5>1
        <5>. QED  BY <1>2, <1>3, <5>2 DEF SwitchAll, SwitchOpen
      <4>3. pipe'["p"] = a + 1 /\ pipe'["q"] = b /\ value' = value
        <5>1. WriteEnd["p"] = "p[1]" /\ WriteEnd["q"] # "p[1]"
          BY DEF WriteEnd
        <5>. QED  BY <1>1, <1>3, <3>4, <4>2, <5>1 DEF Sent
      <4>. QED  BY <1>2, <1>3, <1>5, <2>3, <4>1, <4>3, PlayPlaying
    <3>5. CASE k = 7 + 2 * v /\ v < r /\ Received("parent") /\ Call("parent").fd = "q[0]"
      <4>1. PICK p \in Pipes :
              /\ fds["parent"]["q[0]"] = ReadEnd[p] /\ pipe[p] >= 1
              /\ value' = [value EXCEPT !["parent"] = value["parent"] + 1]
              /\ pipe' = [pipe EXCEPT ![p] = pipe[p] - 1]
        BY <3>5 DEF Received
      <4>2. fds["parent"]["q[0]"] \in {"closed", "q[0]"}
        BY <1>1, <1>2 DEF SwitchAll, SwitchEnds, Ends
      <4>3. p = "q"
        BY <4>1, <4>2 DEF Pipes, ReadEnd
      <4>4. b >= 1 /\ pipe'["q"] = b - 1 /\ pipe'["p"] = a
        BY <1>1, <1>3, <4>1, <4>3 DEF TypeOK
      <4>5. value'["parent"] = v + 1 /\ value'["child"] = u
        BY <1>1, <1>3, <4>1 DEF TypeOK
      <4>6. Play(k + 1, m, v + 1, u, a, b - 1, r)
        BY <1>4, <1>5, <2>1, <3>5, <4>4, ParentPlays
      <4>. QED  BY <1>2, <1>3, <1>5, <2>3, <4>4, <4>5, <4>6, PlayPlaying
    <3>6. CASE k = 7 + 2 * r /\ Waited("parent")
      <4>1. a + b <= 1
        BY <1>4, <1>5, <2>1, PlayBounds
      <4>2. pipe' = pipe /\ value'["child"] = u
        BY <1>1, <1>3, <3>6 DEF Waited, TypeOK
      <4>3. next'["parent"] = 8 + 2 * r
        BY <1>5, <2>3, <3>6
      <4>4. status'["child"] \notin {"running", "zombie"}
        BY <3>1, <4>3
      <4>. QED  BY <1>3, <1>5, <3>1, <4>1, <4>2, <4>3, <4>4 DEF SwitchRounds, Played
    <3>7. \/ k <= 5 /\ (SamePlay \/ (k = 3 /\ Forked("parent") /\ Call("parent").child = "child"))
          \/ k = 6 + 2 * r /\ Shown("parent")
          \/ k = 6 + 2 * v /\ v < r /\ Sent("parent") /\ Call("parent").fd = "p[1]"
          \/ k = 7 + 2 * v /\ v < r /\ Received("parent") /\ Call("parent").fd = "q[0]"
          \/ k = 7 + 2 * r /\ Waited("parent")
      <4>1. (Piped("parent") \/ Closed("parent")) => SamePlay
        BY DEF Piped, Closed
      <4>. QED  BY <1>6, <1>8, <4>1
    <3>. QED  BY <3>2, <3>3, <3>4, <3>5, <3>6, <3>7
  <2>7. SwitchOpen'
    <3>1. {"p[1]", "q[1]"} \subseteq Descriptors
      BY DEF Descriptors, Ends
    <3>2. /\ k >= 2 => fds["parent"]["p[1]"] = "p[1]"
          /\ k = 3 => fds["parent"]["q[1]"] = "q[1]"
          /\ status["child"] = "running" => fds["child"]["q[1]"] = "q[1]"
      BY <1>2, <1>3 DEF SwitchAll, SwitchOpen
    <3>. SUFFICES /\ k + 1 >= 2 => fds'["parent"]["p[1]"] = "p[1]"
                  /\ k + 1 = 3 => fds'["parent"]["q[1]"] = "q[1]"
                  /\ status'["child"] = "running" => fds'["child"]["q[1]"] = "q[1]"
      BY <2>3 DEF SwitchOpen
    <3>3. CASE k = 1 /\ Piped("parent") /\ Call("parent").name = "p"
      <4>1. fds'["parent"]["p[1]"] = "p[1]"
        BY <1>1, <3>1, <3>3 DEF Piped, TypeOK, WriteEnd
      <4>2. fds'["child"] = fds["child"] /\ status' = status
        BY <1>1, <3>3 DEF Piped, TypeOK, SameStatus
      <4>. QED  BY <3>2, <3>3, <4>1, <4>2
    <3>4. CASE k = 2 /\ Piped("parent") /\ Call("parent").name = "q"
      <4>1. fds'["parent"]["q[1]"] = "q[1]"
        BY <1>1, <3>1, <3>4 DEF Piped, TypeOK, WriteEnd
      <4>2. fds'["parent"]["p[1]"] = fds["parent"]["p[1]"]
        BY <1>1, <3>1, <3>4 DEF Piped, TypeOK, WriteEnd, ReadEnd
      <4>3. fds'["child"] = fds["child"] /\ status' = status
        BY <1>1, <3>4 DEF Piped, TypeOK, SameStatus
      <4>. QED  BY <3>2, <3>4, <4>1, <4>2, <4>3
    <3>5. CASE k = 3 /\ Forked("parent") /\ Call("parent").child = "child"
      <4>1. fds'["parent"] = fds["parent"] /\ fds'["child"] = fds["parent"]
        BY <1>1, <3>5 DEF Forked, TypeOK
      <4>. QED  BY <3>2, <3>5, <4>1
    <3>6. CASE k \in {4, 5} /\ Closed("parent") /\ Call("parent").fd \in {"p[0]", "q[1]"}
      <4>1. fds'["parent"]["p[1]"] = fds["parent"]["p[1]"]
        BY <1>1, <3>1, <3>6 DEF Closed, TypeOK
      <4>2. fds'["child"] = fds["child"] /\ status' = status
        BY <1>1, <3>6 DEF Closed, TypeOK, SameStatus
      <4>. QED  BY <3>2, <3>6, <4>1, <4>2
    <3>7. CASE k >= 6 /\ SameFds /\ (status'["child"] = "running" => status["child"] = "running")
      BY <1>4, <3>2, <3>7 DEF SameFds
    <3>8. ASSUME Sent("parent") \/ Received("parent") \/ Shown("parent") \/ Waited("parent")
          PROVE  SameFds /\ (status'["child"] = "running" => status["child"] = "running")
      BY <1>1, <3>8 DEF Sent, Received, Shown, Waited, SameStatus
    <3>9. v \in Nat
      BY <2>1 DEF Play
    <3>10. (k = 6 + 2 * v \/ k = 7 + 2 * v \/ k = 6 + 2 * r \/ k = 7 + 2 * r) => k >= 6
      BY <1>4, <1>5, <3>9
    <3>. QED  BY <1>6, <1>8, <3>3, <3>4, <3>5, <3>6, <3>7, <3>8, <3>10
  <2>. QED  BY <2>4, <2>5, <2>6, <2>7 DEF SwitchAll
<1>. QED  BY <1>7, <1>8

\* The child's steps.
LEMMA ChildSwitch ==
  ASSUME TypeOK, InCode, SwitchAll, Switching, Step("child") \/ Kill("child")
  PROVE  SwitchAll'
<1>1. "parent" \in Actors /\ "child" \in Actors /\ "p" \in Pipes /\ "q" \in Pipes
  BY DEF Actors, Pipes
<1>2. /\ status["child"] = "running" /\ program' = program /\ iters' = iters
      /\ Switching' /\ program = "context_switch"
  BY <1>1, Kinds DEF Switching
<1>3. PICK k, m, v, u, a, b, r :
        /\ k = next["parent"] /\ m = next["child"] /\ v = value["parent"] /\ u = value["child"]
        /\ a = pipe["p"] /\ b = pipe["q"] /\ r = Rounds(iters)
  OBVIOUS
<1>4. k \in Nat /\ m \in Nat /\ v \in Int /\ a \in Nat /\ b \in Nat
  BY <1>1, <1>3 DEF TypeOK
<1>5. r \in Nat /\ u \in Nat
  <2>1. r \in Nat
    BY <1>3, SwitchCodes
  <2>. QED  BY <1>3, <2>1 DEF SwitchAll, SwitchRounds
<1>6. /\ Playing
      /\ \/ Halts("child")
         \/ m = 1 /\ Closed("child") /\ Call("child").fd = "p[1]"
         \/ m = 2 /\ Closed("child") /\ Call("child").fd = "q[0]"
         \/ m = 3 + 2 * u /\ u < r /\ Received("child") /\ Call("child").fd = "p[0]"
         \/ m = 2 + 2 * u /\ 1 <= u /\ u <= r /\ Sent("child") /\ Call("child").fd = "q[1]"
  BY <1>3, ChildDoes DEF SwitchAll
<1>7. CASE Halts("child")
  BY <1>1, <1>2, <1>7, HaltsKeep
<1>8. CASE ~Halts("child")
  <2>1. Play(k, m, v, u, a, b, r)
    BY <1>3, <1>6 DEF Playing, Play
  <2>2. Onward("child") /\ status' = status
    BY <1>6, <1>8 DEF Closed, Sent, Received, SameStatus
  <2>3. next'["child"] = m + 1 /\ next'["parent"] = k
    BY <1>1, <1>3, <2>2 DEF Onward, TypeOK
  <2>4. SwitchEnds'
    <3>1. SameFds \/ Closed("child")
      BY <1>6, <1>8 DEF Sent, Received
    <3>2. Call("child").op # "pipe"
      BY <1>6, <1>8 DEF Sent, Received, Closed
    <3>. QED  BY <1>1, <1>2, <3>1, <3>2, EndsKeep DEF SwitchAll
  <2>5. SwitchIdle'
    BY <1>2 DEF SwitchIdle, Switching
  <2>6. SwitchRounds'
    <3>1. Rounds(iters) = r
      BY <1>3
    <3>2. CASE m <= 2 /\ Closed("child")
      <4>1. Play(k, m + 1, v, u, a, b, r)
        BY <1>4, <1>5, <2>1, <3>2, ChildPlays
      <4>2. pipe' = pipe /\ value' = value
        BY <3>2 DEF SamePlay, Closed
      <4>. QED  BY <1>2, <1>3, <1>5, <2>3, <4>1, <4>2, PlayPlaying
    <3>3. CASE m = 2 + 2 * u /\ 1 <= u /\ u <= r /\ Sent("child") /\ Call("child").fd = "q[1]"
      <4>1. Play(k, m + 1, v, u, a, b + 1, r)
        BY <1>4, <1>5, <2>1, <3>3, ChildPlays
      <4>2. fds["child"]["q[1]"] = "q[1]"
        BY <1>2 DEF SwitchAll, SwitchOpen
      <4>3. pipe'["q"] = b + 1 /\ pipe'["p"] = a /\ value' = value
        <5>1. WriteEnd["q"] = "q[1]" /\ WriteEnd["p"] # "q[1]"
          BY DEF WriteEnd
        <5>. QED  BY <1>1, <1>3, <3>3, <4>2, <5>1 DEF Sent
      <4>. QED  BY <1>2, <1>3, <1>5, <2>3, <4>1, <4>3, PlayPlaying
    <3>4. CASE m = 3 + 2 * u /\ u < r /\ Received("child") /\ Call("child").fd = "p[0]"
      <4>1. PICK p \in Pipes :
              /\ fds["child"]["p[0]"] = ReadEnd[p] /\ pipe[p] >= 1
              /\ value' = [value EXCEPT !["child"] = value["child"] + 1]
              /\ pipe' = [pipe EXCEPT ![p] = pipe[p] - 1]
        BY <3>4 DEF Received
      <4>2. fds["child"]["p[0]"] \in {"closed", "p[0]"}
        BY <1>1, <1>2 DEF SwitchAll, SwitchEnds, Ends
      <4>3. p = "p"
        BY <4>1, <4>2 DEF Pipes, ReadEnd
      <4>4. a >= 1 /\ pipe'["p"] = a - 1 /\ pipe'["q"] = b
        BY <1>1, <1>3, <4>1, <4>3 DEF TypeOK
      <4>5. value'["child"] = u + 1 /\ value'["parent"] = v
        BY <1>1, <1>3, <4>1 DEF TypeOK
      <4>6. Play(k, m + 1, v, u + 1, a - 1, b, r)
        BY <1>4, <1>5, <2>1, <3>4, <4>4, ChildPlays
      <4>7. u + 1 \in Nat
        BY <1>5
      <4>. QED  BY <1>2, <1>3, <2>3, <4>4, <4>5, <4>6, <4>7, PlayPlaying
    <3>5. (m = 1 \/ m = 2) => m <= 2
      OBVIOUS
    <3>. QED  BY <1>6, <1>8, <3>2, <3>3, <3>4, <3>5
  <2>7. SwitchOpen'
    <3>1. "q[1]" \in Descriptors
      BY DEF Descriptors, Ends
    <3>2. fds'["parent"] = fds["parent"] /\ fds'["child"]["q[1]"] = fds["child"]["q[1]"]
      <4>1. CASE SameFds
        BY <4>1 DEF SameFds
      <4>2. CASE Closed("child") /\ Call("child").fd # "q[1]"
        BY <1>1, <3>1, <4>2 DEF Closed, TypeOK
      <4>. QED  BY <1>6, <1>8, <4>1, <4>2 DEF Sent, Received
    <3>. QED  BY <1>2, <1>3, <2>2, <2>3, <3>2 DEF SwitchAll, SwitchOpen
  <2>. QED  BY <2>4, <2>5, <2>6, <2>7 DEF SwitchAll
<1>. QED  BY <1>7, <1>8

\* At the start nothing is open and nothing sent.
LEMMA InitSwitch == Init => SwitchAll
<1>. SUFFICES ASSUME Init PROVE SwitchAll
  OBVIOUS
<1>1. SwitchEnds
  BY DEF Init, SwitchEnds, Ends, Descriptors
<1>2. SwitchOpen
  <2>1. next["parent"] = 1 /\ status["child"] = "none"
    BY DEF Init, Actors
  <2>. QED  BY <2>1 DEF SwitchOpen
<1>3. SwitchRounds
  <2>1. next["parent"] = 1 /\ next["child"] = 1 /\ value["parent"] = 0 /\ value["child"] = 0
    BY DEF Init, Actors
  <2>2. pipe["p"] = 0 /\ pipe["q"] = 0
    BY DEF Init, Pipes
  <2>. QED  BY <2>1, <2>2 DEF SwitchRounds, Playing, Asking, Answering
<1>4. SwitchIdle
  BY DEF Init, SwitchIdle, Actors, Pipes
<1>. QED  BY <1>1, <1>2, <1>3, <1>4 DEF SwitchAll

\* Any step.
LEMMA NextSwitch ==
  TypeOK /\ InCode /\ SwitchAll /\ [Next]_vars /\ TypeOK' /\ InCode' /\ Owed' => SwitchAll'
<1>. SUFFICES ASSUME TypeOK, InCode, SwitchAll, [Next]_vars, TypeOK', InCode', Owed'
              PROVE  SwitchAll'
  OBVIOUS
<1>1. CASE UNCHANGED vars
  BY <1>1 DEF vars, config, local, SwitchAll, SwitchEnds, SwitchOpen, SwitchRounds, SwitchIdle,
              Switching, Playing, Played
<1>2. CASE \E a \in Actors : Step(a) \/ Kill(a)
  <2>1. PICK a \in Actors : Step(a) \/ Kill(a)
    BY <1>2
  <2>2. status[a] = "running" /\ program' = program /\ iters' = iters
    BY <2>1, Kinds
  <2>3. CASE program # "context_switch"
    BY <2>2, <2>3 DEF SwitchAll, SwitchEnds, SwitchOpen, SwitchRounds, SwitchIdle, Switching
  <2>4. CASE program = "context_switch" /\ Switching
    <3>1. a = "parent" \/ a = "child"
      BY <2>2, <2>4, TwoRun
    <3>2. next'["parent"] = 8 + 2 * Rounds(iters) => status'["child"] \notin {"running", "zombie"}
      <4>. SUFFICES ASSUME next'["parent"] = 8 + 2 * Rounds(iters),
                           status'["child"] \in {"running", "zombie"}
                    PROVE  FALSE
        OBVIOUS
      <4>1. Rounds(iters) \in Nat /\ SwitchPlaces(codes, Rounds(iters))
        BY <2>4, SwitchCodes
      <4>2. Len(codes["parent"]) = 8 + 2 * Rounds(iters)
        BY <4>1 DEF SwitchPlaces
      <4>3. codes' = codes /\ program' \in Waiting /\ "child" \in Offspring
        BY <2>2, <2>4 DEF codes, Waiting, Offspring
      <4>4. PICK j \in next'["parent"] .. Len(codes["parent"]) :
              WaitsFor(codes["parent"][j], "child", Started(codes))
        BY <4>3 DEF Owed
      <4>5. j = 8 + 2 * Rounds(iters)
        BY <4>1, <4>2, <4>4
      <4>6. codes["parent"][j] = Return[1]
        BY <4>1, <4>5 DEF SwitchPlaces
      <4>7. Return[1].op = "exit"
        BY Ending
      <4>. QED  BY <4>4, <4>6, <4>7 DEF WaitsFor
    <3>. QED  BY <2>1, <2>4, <3>1, <3>2, ParentSwitch, ChildSwitch
  <2>5. CASE program = "context_switch" /\ ~Switching
    <3>1. a = "parent" /\ ~(iters > 0)
      BY <2>2, <2>5, TwoRun DEF Switching
    <3>2. Call(a).op = "exit"
      BY <2>5, <3>1, IdleAt
    <3>3. Halts(a)
      <4>1. \/ Halts(a) \/ Piped(a) \/ Closed(a) \/ Forked(a) \/ Shown(a) \/ Waited(a)
            \/ Sent(a) \/ Received(a)
        BY <2>1, <2>5, <3>2, SwitchSteps DEF SwitchAll
      <4>. QED  BY <3>2, <4>1 DEF Piped, Closed, Forked, Shown, Waited, Sent, Received
    <3>. QED  BY <2>2, <3>3, HaltsKeep
  <2>. QED  BY <2>3, <2>4, <2>5
<1>. QED  BY <1>1, <1>2 DEF Next, Exited

\* So the two stay in step.
LEMMA SwitchLockstep == TypeOK /\ InCode /\ SwitchAll => Lockstep
<1>. SUFFICES ASSUME TypeOK, InCode, SwitchAll, program = "context_switch"
              PROVE  /\ pipe["p"] + pipe["q"] <= 1
                     /\ status["child"] \in {"running", "zombie"}
                          => value["child"] - value["parent"] \in {0, 1}
  BY DEF Lockstep
<1>1. CASE ~Switching
  <2>1. pipe["p"] = 0 /\ pipe["q"] = 0 /\ status["child"] = "none"
    BY <1>1 DEF SwitchAll, SwitchIdle, Switching
  <2>. QED  BY <2>1
<1>2. CASE Switching
  <2>1. CASE Played
    BY <2>1 DEF Played
  <2>2. CASE Playing
    <3>1. PICK k, m, v, u, a, b, r :
            /\ k = next["parent"] /\ m = next["child"] /\ v = value["parent"]
            /\ u = value["child"] /\ a = pipe["p"] /\ b = pipe["q"] /\ r = Rounds(iters)
      OBVIOUS
    <3>2. k \in Nat /\ m \in Nat /\ v \in Int /\ a \in Nat /\ b \in Nat
      BY <3>1 DEF TypeOK, Actors, Pipes
    <3>3. r \in Nat
      BY <1>2, <3>1, SwitchCodes
    <3>4. u \in Nat
      BY <1>2, <3>1 DEF SwitchAll, SwitchRounds
    <3>5. Play(k, m, v, u, a, b, r)
      BY <2>2, <3>1 DEF Playing, Play
    <3>6. a + b <= 1 /\ u - v \in {0, 1}
      BY <3>2, <3>3, <3>4, <3>5, PlayBounds
    <3>. QED  BY <3>1, <3>6
  <2>. QED  BY <1>2, <2>1, <2>2 DEF SwitchAll, SwitchRounds
<1>. QED  BY <1>1, <1>2

-----------------------------------------------------------------------------
(* The invariant                                                           *)

Inductive == TypeOK /\ InCode /\ Owed /\ EndedWell /\ SwitchAll

\* Every reachable state satisfies IInv: in context_switch never more than one
\* byte is under way and the child has answered all but the last, and a parent
\* that waits leaves no child behind, for any number of rounds and whoever is
\* killed or fails when.
THEOREM ProcessesInvariance == Spec => []IInv
<1>1. Init => Inductive
  BY InitTyped, InitOwed, InitSwitch DEF Inductive
<1>2. Inductive /\ [Next]_vars => Inductive'
  BY NextTyped, NextInCode, NextOwed, NextSwitch DEF Inductive
<1>3. Inductive => IInv
  BY ReapedAtEnd, SwitchLockstep DEF Inductive, IInv
<1>. QED  BY <1>1, <1>2, <1>3, PTL DEF Spec
==============================================================================
