---------------------------- MODULE CountersProofs ----------------------------
(***************************************************************************)
(* Proofs about Counters, for both counters and any number of threads,     *)
(* increments and thresholds.                                              *)
(***************************************************************************)
EXTENDS Counters, FiniteSetTheorems, WellFoundedInduction, TLAPS

-----------------------------------------------------------------------------
(* Sums over a finite set.  MapThenSumSet takes the elements out of the set *)
(* one by one; a running sum has the sum of every subset.                   *)

Pick(s) == CHOOSE x \in s : TRUE

RunningSum(it, f, S) ==
  /\ it \in [SUBSET S -> Int]
  /\ \A s \in SUBSET S : it[s] = IF s = {} THEN 0 ELSE f[Pick(s)] + it[s \ {Pick(s)}]

SumOver(f, S) == (CHOOSE it : RunningSum(it, f, S))[S]

\* The element that is taken out is one of the set; what is left is smaller.
LEMMA Picked ==
  ASSUME NEW S, IsFiniteSet(S), NEW s \in SUBSET S, s # {}
  PROVE  /\ Pick(s) \in s /\ Pick(s) \in S /\ s \ {Pick(s)} \in SUBSET S
         /\ IsFiniteSet(s) /\ Cardinality(s) \in Nat
         /\ Cardinality(s \ {Pick(s)}) = Cardinality(s) - 1
<1>1. Pick(s) \in s
  BY DEF Pick
<1>2. IsFiniteSet(s)
  BY FS_Subset
<1>. QED  BY <1>1, <1>2, FS_CardinalityType, FS_RemoveElement

\* A set of naturals without a smallest member is empty.
LEMMA NoSmallest ==
  ASSUME NEW B, B \subseteq Nat, \A n \in B : \E h \in B : h < n
  PROVE  B = {}
<1>. SUFFICES ASSUME B # {} PROVE FALSE
  OBVIOUS
<1>. DEFINE R == {ss \in Nat \X Nat : ss[1] < ss[2]}
<1>1. PICK x \in B : \A y \in B : <<y, x>> \notin R
  <2>1. IsWellFoundedOn(R, Nat)
    BY NatLessThanWellFounded DEF OpToRel
  <2>. HIDE DEF R
  <2>. QED  BY <2>1, WFMin
<1>2. PICK h \in B : h < x
  OBVIOUS
<1>. QED  BY <1>1, <1>2

\* There is a running sum, built up from the smaller subsets to the larger.
LEMMA SumExists ==
  ASSUME NEW S, IsFiniteSet(S), NEW f \in [S -> Int]
  PROVE  \E it : RunningSum(it, f, S)
<1>. DEFINE UpTo(it, n) ==
       /\ it \in [SUBSET S -> Int] /\ it[{}] = 0
       /\ \A s \in SUBSET S :
            s # {} /\ Cardinality(s) <= n => it[s] = f[Pick(s)] + it[s \ {Pick(s)}]
     Bad == {n \in Nat : ~ \E it : UpTo(it, n)}
<1>1. \A s \in SUBSET S : Cardinality(s) \in Nat /\ (Cardinality(s) = 0 <=> s = {})
  BY FS_Subset, FS_CardinalityType, FS_EmptySet
<1>2. UpTo([s \in SUBSET S |-> 0], 0)
  BY <1>1
<1>3. ASSUME NEW n \in Nat, NEW it, UpTo(it, n) PROVE \E jt : UpTo(jt, n + 1)
  <2>. DEFINE jt == [s \in SUBSET S |-> IF Cardinality(s) <= n THEN it[s]
                                        ELSE f[Pick(s)] + it[s \ {Pick(s)}]]
  <2>1. ASSUME NEW s \in SUBSET S PROVE jt[s] \in Int
    <3>1. CASE Cardinality(s) <= n
      BY <1>3, <3>1
    <3>2. CASE ~(Cardinality(s) <= n)
      <4>1. s # {}
        BY <1>1, <3>2
      <4>. QED  BY <1>3, <3>2, <4>1, Picked
    <3>. QED  BY <3>1, <3>2
  <2>2. jt[{}] = 0
    BY <1>1, <1>3
  <2>3. ASSUME NEW s \in SUBSET S, s # {}, Cardinality(s) <= n + 1
        PROVE  jt[s] = f[Pick(s)] + jt[s \ {Pick(s)}]
    <3>1. /\ s \ {Pick(s)} \in SUBSET S /\ Cardinality(s) \in Nat
          /\ Cardinality(s \ {Pick(s)}) = Cardinality(s) - 1
      BY <2>3, Picked
    <3>2. jt[s \ {Pick(s)}] = it[s \ {Pick(s)}]
      BY <2>3, <3>1
    <3>3. jt[s] = f[Pick(s)] + it[s \ {Pick(s)}]
      BY <1>3, <2>3
    <3>. QED  BY <3>2, <3>3
  <2>4. jt \in [SUBSET S -> Int]
    BY <2>1
  <2>. HIDE DEF jt
  <2>. QED  BY <2>2, <2>3, <2>4
<1>. HIDE DEF UpTo
<1>4. \A n \in Bad : \E h \in Bad : h < n
  <2>. TAKE n \in Bad
  <2>1. n # 0
    BY <1>2
  <2>2. n - 1 \in Nat /\ (n - 1) + 1 = n /\ n - 1 < n
    BY <2>1
  <2>3. n - 1 \in Bad
    BY <1>3, <2>2
  <2>. QED  BY <2>2, <2>3
<1>5. Bad = {}
  <2>. HIDE DEF Bad
  <2>1. Bad \subseteq Nat
    BY DEF Bad
  <2>. QED  BY <1>4, <2>1, NoSmallest
<1>6. PICK it : UpTo(it, Cardinality(S))
  BY <1>1, <1>5
<1>7. RunningSum(it, f, S)
  <2>1. \A s \in SUBSET S : Cardinality(s) <= Cardinality(S)
    BY FS_Subset
  <2>. QED  BY <1>6, <2>1 DEF RunningSum, UpTo
<1>. QED  BY <1>7

\* A running sum of smaller terms is smaller throughout.
LEMMA RunningMono ==
  ASSUME NEW S, IsFiniteSet(S), NEW f \in [S -> Int], NEW g \in [S -> Int],
         NEW a, RunningSum(a, f, S), NEW b, RunningSum(b, g, S),
         \A x \in S : f[x] <= g[x]
  PROVE  \A s \in SUBSET S : a[s] <= b[s]
<1>. DEFINE Bad == {Cardinality(s) : s \in {r \in SUBSET S : ~(a[r] <= b[r])}}
<1>1. \A s \in SUBSET S : Cardinality(s) \in Nat
  BY FS_Subset, FS_CardinalityType
<1>2. ASSUME NEW s \in SUBSET S, ~(a[s] <= b[s])
      PROVE  \E r \in SUBSET S : ~(a[r] <= b[r]) /\ Cardinality(r) < Cardinality(s)
  <2>1. s # {}
    <3>1. a[{}] = 0 /\ b[{}] = 0
      BY DEF RunningSum
    <3>. QED  BY <1>2, <3>1
  <2>2. /\ Pick(s) \in S /\ s \ {Pick(s)} \in SUBSET S
        /\ Cardinality(s \ {Pick(s)}) = Cardinality(s) - 1
    BY <2>1, Picked
  <2>3. a[s] = f[Pick(s)] + a[s \ {Pick(s)}] /\ b[s] = g[Pick(s)] + b[s \ {Pick(s)}]
    BY <2>1 DEF RunningSum
  <2>4. /\ a[s \ {Pick(s)}] \in Int /\ b[s \ {Pick(s)}] \in Int
        /\ f[Pick(s)] \in Int /\ g[Pick(s)] \in Int /\ f[Pick(s)] <= g[Pick(s)]
    BY <2>2 DEF RunningSum
  <2>5. ~(a[s \ {Pick(s)}] <= b[s \ {Pick(s)}])
    BY <1>2, <2>3, <2>4
  <2>. QED  BY <1>1, <2>2, <2>5
<1>3. Bad \subseteq Nat /\ \A n \in Bad : \E h \in Bad : h < n
  BY <1>1, <1>2
<1>4. Bad = {}
  <2>. HIDE DEF Bad
  <2>. QED  BY <1>3, NoSmallest
<1>. QED  BY <1>4

\* Every finite family of integers has a running sum, and all running sums
\* agree on the whole set, so SumOver is well defined.
LEMMA SumRuns ==
  ASSUME NEW S, IsFiniteSet(S), NEW f \in [S -> Int]
  PROVE  /\ SumOver(f, S) \in Int
         /\ \E it : RunningSum(it, f, S) /\ SumOver(f, S) = it[S]
         /\ \A it : RunningSum(it, f, S) => SumOver(f, S) = it[S]
<1>. DEFINE it0 == CHOOSE it : RunningSum(it, f, S)
<1>1. RunningSum(it0, f, S)
  BY SumExists
<1>2. SumOver(f, S) = it0[S]
  BY DEF SumOver
<1>. HIDE DEF it0
<1>3. ASSUME NEW it, RunningSum(it, f, S) PROVE it[S] = it0[S]
  <2>1. \A x \in S : f[x] <= f[x]
    OBVIOUS
  <2>2. S \in SUBSET S /\ it[S] \in Int /\ it0[S] \in Int
    BY <1>1, <1>3 DEF RunningSum
  <2>3. it[S] <= it0[S]
    BY <1>1, <1>3, <2>1, <2>2, RunningMono
  <2>4. it0[S] <= it[S]
    BY <1>1, <1>3, <2>1, <2>2, RunningMono
  <2>. QED  BY <2>2, <2>3, <2>4
<1>4. it0[S] \in Int
  BY <1>1 DEF RunningSum
<1>. QED  BY <1>1, <1>2, <1>3, <1>4

\* A sum of smaller terms is smaller.
LEMMA SumMono ==
  ASSUME NEW S, IsFiniteSet(S), NEW f \in [S -> Int], NEW g \in [S -> Int],
         \A x \in S : f[x] <= g[x]
  PROVE  SumOver(f, S) <= SumOver(g, S)
<1>1. PICK a : RunningSum(a, f, S) /\ SumOver(f, S) = a[S]
  BY SumRuns
<1>2. PICK b : RunningSum(b, g, S) /\ SumOver(g, S) = b[S]
  BY SumRuns
<1>3. S \in SUBSET S
  OBVIOUS
<1>. QED  BY <1>1, <1>2, <1>3, RunningMono

\* When one term changes, the sum changes by as much.
LEMMA SumOne ==
  ASSUME NEW S, IsFiniteSet(S), NEW f \in [S -> Int], NEW g \in [S -> Int],
         NEW t \in S, \A x \in S \ {t} : g[x] = f[x]
  PROVE  SumOver(g, S) = SumOver(f, S) + (g[t] - f[t])
<1>1. PICK a : RunningSum(a, f, S) /\ SumOver(f, S) = a[S]
  BY SumRuns
<1>. DEFINE d == g[t] - f[t]
            b == [s \in SUBSET S |-> IF t \in s THEN a[s] + d ELSE a[s]]
<1>2. d \in Int /\ g[t] = f[t] + d
  OBVIOUS
<1>. HIDE DEF d
<1>3. \A s \in SUBSET S : a[s] \in Int
  BY <1>1 DEF RunningSum
<1>4. b \in [SUBSET S -> Int]
  BY <1>2, <1>3
<1>5. ASSUME NEW s \in SUBSET S
      PROVE  b[s] = IF s = {} THEN 0 ELSE g[Pick(s)] + b[s \ {Pick(s)}]
  <2>1. CASE s = {}
    BY <1>1, <2>1 DEF RunningSum
  <2>2. CASE s # {}
    <3>1. /\ Pick(s) \in s /\ Pick(s) \in S /\ s \ {Pick(s)} \in SUBSET S
          /\ a[s] = f[Pick(s)] + a[s \ {Pick(s)}] /\ f[Pick(s)] \in Int /\ a[s \ {Pick(s)}] \in Int
      BY <1>1, <1>3, <2>2, Picked DEF RunningSum
    <3>2. CASE t = Pick(s)
      <4>1. b[s] = a[s] + d /\ b[s \ {Pick(s)}] = a[s \ {Pick(s)}] /\ g[Pick(s)] = f[Pick(s)] + d
        BY <1>2, <3>1, <3>2
      <4>. HIDE DEF b
      <4>. QED  BY <1>2, <2>2, <3>1, <4>1
    <3>3. CASE t # Pick(s)
      <4>1. g[Pick(s)] = f[Pick(s)]
        BY <3>1, <3>3
      <4>2. CASE t \in s
        <5>1. b[s] = a[s] + d /\ b[s \ {Pick(s)}] = a[s \ {Pick(s)}] + d
          BY <3>1, <3>3, <4>2
        <5>. HIDE DEF b
        <5>. QED  BY <1>2, <2>2, <3>1, <4>1, <5>1
      <4>3. CASE t \notin s
        <5>1. b[s] = a[s] /\ b[s \ {Pick(s)}] = a[s \ {Pick(s)}]
          BY <3>1, <4>3
        <5>. HIDE DEF b
        <5>. QED  BY <2>2, <3>1, <4>1, <5>1
      <4>. QED  BY <4>2, <4>3
    <3>. QED  BY <3>2, <3>3
  <2>. QED  BY <2>1, <2>2
<1>6. RunningSum(b, g, S) /\ b[S] = a[S] + d
  <2>1. b[S] = a[S] + d
    OBVIOUS
  <2>. HIDE DEF b
  <2>. QED  BY <1>4, <1>5, <2>1 DEF RunningSum
<1>7. SumOver(g, S) = b[S]
  <2>. HIDE DEF b
  <2>. QED  BY <1>6, SumRuns
<1>. QED  BY <1>1, <1>6, <1>7 DEF d

\* The sum of equal terms.
LEMMA SumConst ==
  ASSUME NEW S, IsFiniteSet(S), NEW f \in [S -> Int], NEW c \in Int, \A x \in S : f[x] = c
  PROVE  SumOver(f, S) = Cardinality(S) * c
<1>. DEFINE b == [s \in SUBSET S |-> Cardinality(s) * c]
<1>1. \A s \in SUBSET S : Cardinality(s) \in Nat
  BY FS_Subset, FS_CardinalityType
<1>2. b \in [SUBSET S -> Int]
  <2>1. \A n \in Nat : n * c \in Int
    OBVIOUS
  <2>. QED  BY <1>1, <2>1
<1>3. ASSUME NEW s \in SUBSET S
      PROVE  b[s] = IF s = {} THEN 0 ELSE f[Pick(s)] + b[s \ {Pick(s)}]
  <2>1. CASE s = {}
    <3>1. Cardinality(s) = 0 /\ 0 * c = 0
      BY <2>1, FS_EmptySet
    <3>. QED  BY <2>1, <3>1
  <2>2. CASE s # {}
    <3>1. Pick(s) \in S /\ s \ {Pick(s)} \in SUBSET S /\ Cardinality(s \ {Pick(s)}) = Cardinality(s) - 1
      BY <2>2, Picked
    <3>2. \A n \in Nat : n * c = c + (n - 1) * c
      OBVIOUS
    <3>3. Cardinality(s) * c = c + (Cardinality(s) - 1) * c
      BY <1>1, <3>2
    <3>4. b[s \ {Pick(s)}] = (Cardinality(s) - 1) * c
      <4>1. b[s \ {Pick(s)}] = Cardinality(s \ {Pick(s)}) * c
        BY <3>1
      <4>. QED  BY <3>1, <4>1
    <3>5. f[Pick(s)] = c /\ b[s] = Cardinality(s) * c
      BY <3>1
    <3>. HIDE DEF b
    <3>6. b[s] = f[Pick(s)] + b[s \ {Pick(s)}]
      <4>. DEFINE p == Cardinality(s) * c
                  q == (Cardinality(s) - 1) * c
      <4>1. p = c + q /\ b[s] = p /\ b[s \ {Pick(s)}] = q /\ f[Pick(s)] = c
        BY <3>3, <3>4, <3>5
      <4>. HIDE DEF p, q
      <4>. QED  BY <4>1
    <3>. QED  BY <2>2, <3>6
  <2>. QED  BY <2>1, <2>2
<1>4. b[S] = Cardinality(S) * c
  OBVIOUS
<1>. HIDE DEF b
<1>5. RunningSum(b, f, S)
  BY <1>2, <1>3 DEF RunningSum
<1>6. SumOver(f, S) = b[S]
  BY <1>5, SumRuns
<1>. QED  BY <1>4, <1>6

-----------------------------------------------------------------------------
(* The inductive invariant, action by action *)

\* No thread has run and the counter is empty.
LEMMA InitIInv == Init => IInv
<1>. SUFFICES ASSUME Init PROVE IInv
  OBVIOUS
<1>. USE CountersAssumption DEF CountersAssumption
<1>1. \A t \in Threads : t # Free
  BY DEF Threads, Free
<1>2. TypeOK
  BY DEF Init, TypeOK, Points
<1>3. Owners
  BY <1>1 DEF Init, Owners
<1>4. Slots
  BY DEF Init, Slots
<1>5. Flushed
  BY DEF Init, Flushed, Threads
<1>. QED  BY <1>2, <1>3, <1>4, <1>5 DEF IInv

\* A step of a worker changes nothing of main or of another worker, and a step
\* while main is past the join is none of a worker.
LEMMA WorkerStep ==
  ASSUME IInv, NEW t \in Threads, Create(t) \/ Step(t)
  PROVE  /\ UNCHANGED <<program, threshold, main, slot>> /\ main = "run" /\ slot = 0
         /\ pc[t] # "done" /\ reg'[Main] = reg[Main]
         /\ \A u \in Threads \ {t} :
              /\ pc'[u] = pc[u] /\ iter'[u] = iter[u] /\ reg'[u] = reg[u]
              /\ local'[u] = local[u] /\ llock'[u] = llock[u]
<1>. USE CountersAssumption DEF CountersAssumption, IInv, Go, MutexLock, MutexUnlock
<1>1. t # Main
  BY DEF Threads, Main
<1>2. /\ pc[t] # "done" /\ UNCHANGED <<program, threshold, main, slot>>
      /\ reg' = reg \/ \E x : reg' = [reg EXCEPT ![t] = x]
      /\ \E x : pc' = [pc EXCEPT ![t] = x]
      /\ iter' = iter \/ \E x : iter' = [iter EXCEPT ![t] = x]
      /\ local' = local \/ \E x : local' = [local EXCEPT ![t] = x]
      /\ llock' = llock \/ \E x : llock' = [llock EXCEPT ![t] = x]
  BY DEF Step, Create, Begin, Finish, LockLocal, AddLocal, UnlockLocal, LockGlobal,
         Load, Store, UnlockGlobal, FinishTransfer
<1>3. main = "run" /\ slot = 0
  BY <1>2 DEF Owners, Flushed, TypeOK
<1>4. reg'[Main] = reg[Main]
  BY <1>1, <1>2 DEF TypeOK
<1>5. ASSUME NEW u \in Threads, u # t
      PROVE  /\ pc'[u] = pc[u] /\ iter'[u] = iter[u] /\ reg'[u] = reg[u]
             /\ local'[u] = local[u] /\ llock'[u] = llock[u]
  BY <1>2, <1>5 DEF TypeOK
<1>. QED  BY <1>2, <1>3, <1>4, <1>5

\* Every step keeps the type invariant.
LEMMA NextType == IInv /\ [Next]_vars => TypeOK'
<1>. SUFFICES ASSUME IInv, [Next]_vars PROVE TypeOK'
  OBVIOUS
<1>. USE CountersAssumption DEF CountersAssumption, IInv, Go, MutexLock, MutexUnlock
<1>. USE DEF TypeOK, Points
<1>1. ASSUME NEW t \in Threads, Begin(t) PROVE TypeOK'
  BY <1>1 DEF Begin
<1>2. ASSUME NEW t \in Threads, Finish(t) \/ LockLocal(t) \/ UnlockLocal(t) \/ Create(t)
      PROVE TypeOK'
  BY <1>2 DEF Finish, LockLocal, UnlockLocal, Create
<1>3. ASSUME NEW t \in Threads, AddLocal(t) PROVE TypeOK'
  BY <1>3 DEF AddLocal
<1>4. ASSUME NEW t \in Threads, LockGlobal(t) \/ UnlockGlobal(t) \/ FinishTransfer(t)
      PROVE TypeOK'
  BY <1>4 DEF LockGlobal, UnlockGlobal, FinishTransfer
<1>5. ASSUME NEW t \in Threads, Load(t) PROVE TypeOK'
  BY <1>5 DEF Load
<1>6. ASSUME NEW t \in Threads, Store(t) PROVE TypeOK'
  BY <1>6 DEF Store
<1>7. CASE Start \/ Join
  BY <1>7 DEF Start, Join, MainGo
<1>8. CASE Get \/ Check
  BY <1>8 DEF Get, Check, MainGo
<1>9. CASE FlushTake
  <2>1. slot \in Threads
    BY <1>9 DEF FlushTake, Threads
  <2>. QED  BY <1>9, <2>1 DEF FlushTake, MainGo
<1>10. CASE FlushAdd
  <2>1. Main \in Threads \union {Main} /\ slot < NumThreads
    BY <1>10 DEF FlushAdd, MainGo, Flushed
  <2>. QED  BY <1>10, <2>1 DEF FlushAdd, MainGo
<1>11. CASE UNCHANGED vars
  BY <1>11 DEF vars
<1>. QED
  BY <1>1, <1>2, <1>3, <1>4, <1>5, <1>6, <1>7, <1>8, <1>9, <1>10, <1>11
     DEF Next, MainStep, Step, Exited

\* Every step keeps the mutexes with the threads whose points say so.
LEMMA NextOwners == IInv /\ [Next]_vars => Owners'
<1>. SUFFICES ASSUME IInv, [Next]_vars PROVE Owners'
  OBVIOUS
<1>. USE CountersAssumption DEF CountersAssumption, IInv, Go, MutexLock, MutexUnlock
<1>. USE DEF TypeOK, Owners
<1>f. \A t \in Threads : t # Free
  BY DEF Threads, Free
<1>1. ASSUME NEW t \in Threads,
             Begin(t) \/ Finish(t) \/ Create(t) \/ AddLocal(t)
      PROVE  Owners'
  <2>1. UNCHANGED <<glock, llock, global, reg>>
    BY <1>1 DEF Begin, Finish, Create, AddLocal
  <2>. QED  BY <1>1, <2>1, WorkerStep DEF Begin, Finish, Create, AddLocal, Slots, Step
<1>2. ASSUME NEW t \in Threads, LockLocal(t) \/ UnlockLocal(t) \/ FinishTransfer(t)
      PROVE  Owners'
  BY <1>2, <1>f, WorkerStep DEF LockLocal, UnlockLocal, FinishTransfer, Slots, Step
<1>3. ASSUME NEW t \in Threads, LockGlobal(t) \/ Load(t) \/ UnlockGlobal(t)
      PROVE  Owners'
  BY <1>3, <1>f, WorkerStep DEF LockGlobal, Load, UnlockGlobal, Slots, Step
<1>4. ASSUME NEW t \in Threads, Store(t) PROVE Owners'
  <2>1. \A u \in Threads \ {t} : pc[u] \notin {"load", "store", "gunlock"}
    BY <1>4 DEF Store
  <2>. QED  BY <1>4, <2>1, WorkerStep DEF Store, Step
<1>5. CASE Start
  BY <1>5, <1>f DEF Start
<1>6. CASE Join \/ Get \/ Check \/ FlushTake \/ FlushAdd
  <2>1. UNCHANGED <<pc, glock, llock, program>> /\ \A t \in Threads : pc[t] = "done"
    BY <1>6 DEF Join, Get, Check, FlushTake, FlushAdd, MainGo
  <2>. QED  BY <2>1
<1>7. CASE UNCHANGED vars
  BY <1>7 DEF vars
<1>. QED
  BY <1>1, <1>2, <1>3, <1>4, <1>5, <1>6, <1>7 DEF Next, MainStep, Step, Exited

\* Every step keeps the slots below the threshold.
LEMMA NextSlots == IInv /\ [Next]_vars => Slots'
<1>. SUFFICES ASSUME IInv, [Next]_vars PROVE Slots'
  OBVIOUS
<1>. USE CountersAssumption DEF CountersAssumption, IInv, Go, TypeOK, Slots
<1>t. threshold \in Nat /\ 0 < threshold
  OBVIOUS
<1>1. ASSUME NEW t \in Threads, AddLocal(t) PROVE Slots'
  <2>1. /\ pc[t] = "local" /\ local[t] < threshold /\ program # "mutex"
        /\ local'[t] = local[t] + 1
        /\ pc'[t] = IF Reached(local[t] + 1) THEN "glock" ELSE "lunlock"
    BY <1>1 DEF AddLocal
  <2>. QED  BY <1>1, <1>t, <2>1, WorkerStep DEF Reached, Step
<1>2. ASSUME NEW t \in Threads, FinishTransfer(t) PROVE Slots'
  BY <1>2, <1>t, WorkerStep DEF FinishTransfer, Step
<1>3. ASSUME NEW t \in Threads, Create(t) \/ Step(t), ~AddLocal(t), ~FinishTransfer(t)
      PROVE  Slots'
  <2>1. local' = local
    BY <1>3 DEF Create, Step, Begin, Finish, LockLocal, UnlockLocal, LockGlobal, Load,
                Store, UnlockGlobal
  <2>2. /\ pc[t] \in {"glock", "load", "store", "gunlock", "reset"} =>
             pc'[t] \in {"glock", "load", "store", "gunlock", "reset"} \/ program = "mutex"
        /\ program = "mutex" => pc'[t] \notin {"llock", "local", "lunlock", "reset"}
    BY <1>3 DEF Create, Step, Begin, Finish, LockLocal, UnlockLocal, LockGlobal, Load,
                Store, UnlockGlobal
  <2>. QED  BY <1>3, <1>t, <2>1, <2>2, WorkerStep
<1>4. CASE Start
  BY <1>4, <1>t DEF Start
<1>5. CASE FlushTake
  BY <1>5, <1>t DEF FlushTake
<1>6. CASE Join \/ Get \/ Check \/ FlushAdd \/ UNCHANGED vars
  <2>1. UNCHANGED <<pc, program, local, threshold>>
    BY <1>6 DEF Join, Get, Check, FlushAdd, vars
  <2>. QED  BY <2>1
<1>. QED  BY <1>1, <1>2, <1>3, <1>4, <1>5, <1>6 DEF Next, MainStep, Exited

\* Every step keeps what main has flushed empty.
LEMMA NextFlushed == IInv /\ [Next]_vars => Flushed'
<1>. SUFFICES ASSUME IInv, [Next]_vars PROVE Flushed'
  OBVIOUS
<1>. USE CountersAssumption DEF CountersAssumption, IInv, Go, MainGo, TypeOK, Flushed
<1>1. ASSUME NEW t \in Threads, Create(t) \/ Step(t) PROVE Flushed'
  <2>1. pc'[t] = "done" => iter'[t] = Iters
    BY <1>1 DEF Create, Step, Begin, Finish, LockLocal, AddLocal, UnlockLocal, LockGlobal,
                Load, Store, UnlockGlobal, FinishTransfer
  <2>2. \A u \in Threads : ~(u < 0)
    BY DEF Threads
  <2>. QED  BY <1>1, <2>1, <2>2, WorkerStep
<1>2. CASE Start
  BY <1>2 DEF Start, Owners
<1>3. CASE Join \/ Get
  BY <1>3 DEF Join, Get
<1>4. CASE FlushTake
  <2>1. slot \in Threads /\ \A u \in Threads : u < slot + 1 => u < slot \/ u = slot
    BY <1>4 DEF FlushTake, Threads
  <2>. QED  BY <1>4, <2>1 DEF FlushTake
<1>5. CASE FlushAdd
  <2>1. slot \in Threads /\ \A u \in Threads : u < slot + 1 => u < slot \/ u = slot
    BY <1>5 DEF FlushAdd, Threads
  <2>. QED  BY <1>5, <2>1 DEF FlushAdd
<1>6. CASE Check
  BY <1>6 DEF Check
<1>7. CASE UNCHANGED vars
  BY <1>7 DEF vars
<1>. QED  BY <1>1, <1>2, <1>3, <1>4, <1>5, <1>6, <1>7 DEF Next, MainStep, Exited

\* Each mutex has the owner its threads' points say, a slot stays at or below
\* the threshold, and main leaves nothing in the slots it has passed.
THEOREM Invariance == Spec => []IInv
<1>1. IInv /\ [Next]_vars => IInv'
  BY NextType, NextOwners, NextSlots, NextFlushed DEF IInv
<1>. QED  BY <1>1, InitIInv, PTL DEF Spec

-----------------------------------------------------------------------------
(* The sums of the properties *)

\* The sum that the library's fold takes is the one above.  A fold takes the
\* terms from a function of all subsets, as a running sum does.
FoldOf(f, S) ==
  (CHOOSE sums : sums = [s \in SUBSET S |->
                           IF s = {} THEN 0 ELSE f[Pick(s)] + sums[s \ {Pick(s)}]])[S]

\* The fold the model sums with is SumOver: both are the running sum.
LEMMA FoldIsSum ==
  ASSUME NEW S, IsFiniteSet(S), NEW f \in [S -> Int]
  PROVE  FoldOf(f, S) = SumOver(f, S)
<1>. DEFINE Eq(it) == it = [s \in SUBSET S |->
                              IF s = {} THEN 0 ELSE f[Pick(s)] + it[s \ {Pick(s)}]]
            it0 == CHOOSE it : Eq(it)
<1>1. \A it : RunningSum(it, f, S) => Eq(it)
  BY DEF RunningSum
<1>2. Eq(it0)
  <2>1. \E it : Eq(it)
    BY <1>1, SumExists
  <2>. HIDE DEF Eq
  <2>. QED  BY <2>1
<1>3. PICK it : RunningSum(it, f, S) /\ SumOver(f, S) = it[S]
  BY SumRuns
<1>4. \A s \in SUBSET S : it0[s] = it[s]
  <2>. HIDE DEF it0
  <2>. DEFINE Bad == {Cardinality(s) : s \in {r \in SUBSET S : it0[r] # it[r]}}
  <2>1. \A s \in SUBSET S : Cardinality(s) \in Nat
    BY FS_Subset, FS_CardinalityType
  <2>2. ASSUME NEW s \in SUBSET S, it0[s] # it[s]
        PROVE  \E r \in SUBSET S : it0[r] # it[r] /\ Cardinality(r) < Cardinality(s)
    <3>1. it0[s] = IF s = {} THEN 0 ELSE f[Pick(s)] + it0[s \ {Pick(s)}]
      BY <1>2
    <3>2. it[s] = IF s = {} THEN 0 ELSE f[Pick(s)] + it[s \ {Pick(s)}]
      BY <1>3 DEF RunningSum
    <3>3. s # {} /\ it0[s \ {Pick(s)}] # it[s \ {Pick(s)}]
      BY <2>2, <3>1, <3>2
    <3>. QED  BY <2>1, <3>3, Picked
  <2>3. Bad \subseteq Nat /\ \A n \in Bad : \E h \in Bad : h < n
    BY <2>1, <2>2
  <2>4. Bad = {}
    <3>. HIDE DEF Bad
    <3>. QED  BY <2>3, NoSmallest
  <2>. QED  BY <2>4
<1>5. FoldOf(f, S) = it0[S]
  BY DEF FoldOf
<1>6. S \in SUBSET S
  OBVIOUS
<1>. HIDE DEF it0
<1>. QED  BY <1>3, <1>4, <1>5, <1>6

\* The terms of the three sums as functions.
Counts   == [t \in Threads |-> Counted(t)]
Pendings == [t \in Threads |-> Pending(t)]
Lags     == [t \in Threads |-> Lag(t)]

\* There are NumThreads threads.
LEMMA ThreadsFinite == IsFiniteSet(Threads) /\ Cardinality(Threads) = NumThreads
BY CountersAssumption, FS_Interval DEF CountersAssumption, Threads

\* All the terms are integers, and a slot holds no more than it may lag behind.
TermsFit ==
  /\ Counts \in [Threads -> Int] /\ Pendings \in [Threads -> Int] /\ Lags \in [Threads -> Int]
  /\ \A t \in Threads : 0 <= Pendings[t] /\ Pendings[t] <= Lags[t]

\* That follows from the invariant, before and after a step.
LEMMA Terms == (IInv => TermsFit) /\ (IInv' => TermsFit')
<1>1. ASSUME IInv PROVE TermsFit
  <2>. USE CountersAssumption DEF CountersAssumption, IInv, TypeOK
  <2>0. threshold \in Nat /\ 0 < threshold
    BY <1>1
  <2>1. \A t \in Threads : Counted(t) \in Int
    BY <1>1 DEF Counted
  <2>2. \A t \in Threads : Pending(t) \in Int /\ Lag(t) \in Int /\ 0 <= Pending(t) /\ Pending(t) <= Lag(t)
    BY <1>1, <2>0 DEF Pending, Lag, Slots
  <2>. QED  BY <2>1, <2>2 DEF TermsFit, Counts, Pendings, Lags
<1>2. IInv => TermsFit
  BY <1>1
<1>. QED  BY <1>2, PTL

\* The three sums of the properties are sums of these functions.
LEMMA Sums ==
  ASSUME IInv
  PROVE  /\ Total = SumOver(Counts, Threads)
         /\ MapThenSumSet(Pending, Threads) = SumOver(Pendings, Threads)
         /\ MapThenSumSet(Lag, Threads) = SumOver(Lags, Threads)
<1>1. Total = FoldOf(Counts, Threads)
  <2>1. \A s \in SUBSET Threads : s # {} => Counted(Pick(s)) = Counts[Pick(s)]
    BY ThreadsFinite, Picked DEF Counts
  <2>2. \A it : [s \in SUBSET Threads |-> IF s = {} THEN 0 ELSE Counted(Pick(s)) + it[s \ {Pick(s)}]]
              = [s \in SUBSET Threads |-> IF s = {} THEN 0 ELSE Counts[Pick(s)] + it[s \ {Pick(s)}]]
    BY <2>1
  <2>3. Total = (CHOOSE it : it = [s \in SUBSET Threads |->
          IF s = {} THEN 0 ELSE Counted(Pick(s)) + it[s \ {Pick(s)}]])[Threads]
    BY DEF Total, MapThenSumSet, MapThenFoldSet, Pick
  <2>. QED  BY <2>2, <2>3, Zenon DEF FoldOf
<1>2. MapThenSumSet(Pending, Threads) = FoldOf(Pendings, Threads)
  <2>1. \A s \in SUBSET Threads : s # {} => Pending(Pick(s)) = Pendings[Pick(s)]
    BY ThreadsFinite, Picked DEF Pendings
  <2>2. \A it : [s \in SUBSET Threads |-> IF s = {} THEN 0 ELSE Pending(Pick(s)) + it[s \ {Pick(s)}]]
              = [s \in SUBSET Threads |-> IF s = {} THEN 0 ELSE Pendings[Pick(s)] + it[s \ {Pick(s)}]]
    BY <2>1
  <2>3. MapThenSumSet(Pending, Threads) = (CHOOSE it : it = [s \in SUBSET Threads |->
          IF s = {} THEN 0 ELSE Pending(Pick(s)) + it[s \ {Pick(s)}]])[Threads]
    BY DEF MapThenSumSet, MapThenFoldSet, Pick
  <2>4. (CHOOSE it : it = [s \in SUBSET Threads |->
          IF s = {} THEN 0 ELSE Pending(Pick(s)) + it[s \ {Pick(s)}]])[Threads] = FoldOf(Pendings, Threads)
    BY <2>2, Zenon DEF FoldOf
  <2>. QED  BY <2>3, <2>4
<1>3. MapThenSumSet(Lag, Threads) = FoldOf(Lags, Threads)
  <2>1. \A s \in SUBSET Threads : s # {} => Lag(Pick(s)) = Lags[Pick(s)]
    BY ThreadsFinite, Picked DEF Lags
  <2>2. \A it : [s \in SUBSET Threads |-> IF s = {} THEN 0 ELSE Lag(Pick(s)) + it[s \ {Pick(s)}]]
              = [s \in SUBSET Threads |-> IF s = {} THEN 0 ELSE Lags[Pick(s)] + it[s \ {Pick(s)}]]
    BY <2>1
  <2>3. MapThenSumSet(Lag, Threads) = (CHOOSE it : it = [s \in SUBSET Threads |->
          IF s = {} THEN 0 ELSE Lag(Pick(s)) + it[s \ {Pick(s)}]])[Threads]
    BY DEF MapThenSumSet, MapThenFoldSet, Pick
  <2>4. (CHOOSE it : it = [s \in SUBSET Threads |->
          IF s = {} THEN 0 ELSE Lag(Pick(s)) + it[s \ {Pick(s)}]])[Threads] = FoldOf(Lags, Threads)
    BY <2>2, Zenon DEF FoldOf
  <2>. QED  BY <2>3, <2>4
<1>. QED  BY <1>1, <1>2, <1>3, ThreadsFinite, Terms, FoldIsSum DEF TermsFit

-----------------------------------------------------------------------------
(* Conservation *)

\* A step of a thread counts as much as it adds to its slot and to the shared
\* count together, and leaves the terms of the other threads alone.
LEMMA StepCounts ==
  ASSUME IInv, NEW t \in Threads, Create(t) \/ Step(t)
  PROVE  /\ \A u \in Threads \ {t} : Counts'[u] = Counts[u] /\ Pendings'[u] = Pendings[u]
         /\ Counts'[t] = Counts[t] + (global' - global) + (Pendings'[t] - Pendings[t])
<1>. USE CountersAssumption DEF CountersAssumption, IInv, Go, TypeOK
<1>1. ASSUME NEW u \in Threads, u # t PROVE Counted(u)' = Counted(u) /\ Pending(u)' = Pending(u)
  BY <1>1, WorkerStep DEF Counted, Uncounted, Pending
<1>2. Counted(t)' = Counted(t) + (global' - global) + (Pending(t)' - Pending(t))
  <2>. DEFINE Goal == Counted(t)' = Counted(t) + (global' - global) + (Pending(t)' - Pending(t))
  <2>. USE DEF Counted, Uncounted, Pending
  <2>0. program \in {"mutex", "approximate"} /\ program' = program
    BY WorkerStep
  <2>1. CASE Begin(t) \/ Finish(t) \/ Create(t)
    BY <2>0, <2>1 DEF Begin, Finish, Create
  <2>2. CASE LockLocal(t) \/ UnlockLocal(t) \/ LockGlobal(t) \/ Load(t)
    BY <2>0, <2>2 DEF LockLocal, UnlockLocal, LockGlobal, Load
  <2>3. CASE AddLocal(t)
    BY <2>0, <2>3 DEF AddLocal, Slots
  <2>4. CASE Store(t)
    <3>1. reg[t] = global
      BY <2>4 DEF Store, Owners
    <3>. QED  BY <2>0, <2>4, <3>1 DEF Store, Slots
  <2>5. CASE UnlockGlobal(t)
    BY <2>0, <2>5 DEF UnlockGlobal, Slots
  <2>6. CASE FinishTransfer(t)
    BY <2>0, <2>6 DEF FinishTransfer, Slots
  <2>. QED  BY <2>1, <2>2, <2>3, <2>4, <2>5, <2>6 DEF Step
<1>. QED  BY <1>1, <1>2 DEF Counts, Pendings

\* What main has taken out of a slot and not yet added to the shared count.
InHand == IF main = "add" THEN reg[Main] ELSE 0

\* Conservation with the sums as SumOver.
Balance == SumOver(Counts, Threads) = global + SumOver(Pendings, Threads) + InHand

\* Conservation, in the sums that have lemmas.
LEMMA BalanceIsConservation == IInv => (Conservation <=> Balance)
BY Sums DEF Conservation, Balance, InHand

\* At the start nothing has been counted and nothing is anywhere.
LEMMA InitBalance == Init => Balance
<1>. SUFFICES ASSUME Init PROVE Balance
  OBVIOUS
<1>1. \A t \in Threads : Counted(t) = 0 /\ Pending(t) = 0
  BY DEF Init, Counted, Uncounted, Pending
<1>2. Counts = Pendings /\ global = 0 /\ InHand = 0
  BY <1>1 DEF Counts, Pendings, Init, InHand
<1>3. SumOver(Pendings, Threads) \in Int
  BY InitIInv, Terms, ThreadsFinite, SumRuns DEF TermsFit
<1>. QED  BY <1>2, <1>3 DEF Balance

\* A step moves an increment from one place to another, or counts one and
\* puts it in one place.
LEMMA NextBalance ==
  ASSUME IInv, IInv', Balance, [Next]_vars
  PROVE  Balance'
<1>. DEFINE C == SumOver(Counts, Threads)
            P == SumOver(Pendings, Threads)
<1>0. C \in Int /\ P \in Int /\ global \in Int /\ global' \in Int /\ InHand \in Int
  BY Terms, ThreadsFinite, SumRuns DEF TermsFit, IInv, TypeOK, InHand
<1>1. ASSUME NEW t \in Threads, Create(t) \/ Step(t) PROVE Balance'
  <2>1. /\ Counts' \in [Threads -> Int] /\ Pendings' \in [Threads -> Int]
        /\ Counts \in [Threads -> Int] /\ Pendings \in [Threads -> Int]
    BY Terms DEF TermsFit
  <2>2. SumOver(Counts', Threads) = C + (Counts'[t] - Counts[t])
    BY <1>1, <2>1, StepCounts, ThreadsFinite, SumOne
  <2>3. SumOver(Pendings', Threads) = P + (Pendings'[t] - Pendings[t])
    BY <1>1, <2>1, StepCounts, ThreadsFinite, SumOne
  <2>4. InHand = 0 /\ InHand' = 0
    BY <1>1, WorkerStep DEF InHand
  <2>5. Counts'[t] = Counts[t] + (global' - global) + (Pendings'[t] - Pendings[t])
    BY <1>1, StepCounts
  <2>. QED  BY <1>0, <2>1, <2>2, <2>3, <2>4, <2>5 DEF Balance
<1>2. ASSUME pc' = pc \/ Start, UNCHANGED <<program, iter>> PROVE Counts' = Counts
  <2>1. \A t \in Threads : Counted(t)' = Counted(t)
    BY <1>2 DEF Counted, Uncounted, Start
  <2>. QED  BY <2>1 DEF Counts
<1>3. ASSUME pc' = pc \/ Start, UNCHANGED local PROVE Pendings' = Pendings
  <2>1. \A t \in Threads : Pending(t)' = Pending(t)
    BY <1>3 DEF Pending, Start
  <2>. QED  BY <2>1 DEF Pendings
<1>4. CASE Start \/ Join \/ Get \/ Check \/ UNCHANGED vars
  <2>1. Counts' = Counts /\ Pendings' = Pendings /\ global' = global
    BY <1>2, <1>3, <1>4 DEF Start, Join, Get, Check, vars
  <2>2. InHand' = InHand
    BY <1>4 DEF Start, Join, Get, Check, vars, MainGo, InHand
  <2>. QED  BY <2>1, <2>2 DEF Balance
<1>5. CASE FlushTake
  <2>1. /\ Counts' = Counts /\ global' = global /\ slot \in Threads /\ main = "flush"
        /\ Pendings' \in [Threads -> Int] /\ Pendings \in [Threads -> Int]
    BY <1>2, <1>5, Terms DEF TermsFit, FlushTake, MainGo, Threads, IInv, TypeOK
  <2>2. /\ Pendings[slot] = local[slot] /\ Pendings'[slot] = 0 /\ local[slot] \in Nat
        /\ \A u \in Threads \ {slot} : Pendings'[u] = Pendings[u]
    BY <1>5, <2>1 DEF FlushTake, Pendings, Pending, IInv, Owners, TypeOK
  <2>3. SumOver(Pendings', Threads) = P + (Pendings'[slot] - Pendings[slot])
    BY <2>1, <2>2, ThreadsFinite, SumOne
  <2>4. InHand = 0 /\ InHand' = local[slot]
    BY <1>5, <2>1 DEF FlushTake, MainGo, InHand, IInv, TypeOK
  <2>. QED  BY <1>0, <2>1, <2>2, <2>3, <2>4 DEF Balance
<1>6. CASE FlushAdd
  <2>1. Counts' = Counts /\ Pendings' = Pendings
    BY <1>2, <1>3, <1>6 DEF FlushAdd
  <2>2. InHand' = 0 /\ global' = global + InHand
    BY <1>6 DEF FlushAdd, MainGo, InHand
  <2>. QED  BY <1>0, <2>1, <2>2 DEF Balance
<1>. QED  BY <1>1, <1>4, <1>5, <1>6 DEF Next, MainStep, Exited

\* The sums agree in every state.
LEMMA BalanceInvariance == Spec => []Balance
<1>1. IInv /\ IInv' /\ Balance /\ [Next]_vars => Balance'
  BY NextBalance
<1>. QED  BY <1>1, InitBalance, Invariance, PTL DEF Spec

\* Nothing is lost and nothing counts twice, in either counter: every increment
\* is in the shared count, in a slot, or in the hand of main.
THEOREM Conserved == Spec => []Conservation
<1>1. IInv /\ Balance => Conservation
  BY BalanceIsConservation
<1>. QED  BY <1>1, Invariance, BalanceInvariance, PTL

\* A reader that takes glock while the threads run misses at most the lag of
\* every slot, and never reads too much.
THEOREM Approximates == Spec => []Approximation
<1>1. ASSUME IInv, Balance, main # "add" PROVE Total - global \in 0 .. MapThenSumSet(Lag, Threads)
  <2>. DEFINE P == SumOver(Pendings, Threads)
              L == SumOver(Lags, Threads)
              Z == [t \in Threads |-> 0]
  <2>1. P \in Int /\ L \in Int /\ P <= L
    BY <1>1, Terms, ThreadsFinite, SumRuns, SumMono DEF TermsFit
  <2>2. 0 <= P
    <3>1. Z \in [Threads -> Int] /\ \A t \in Threads : Z[t] = 0 /\ Z[t] <= Pendings[t]
      BY <1>1, Terms DEF TermsFit
    <3>2. SumOver(Z, Threads) = 0
      <4>. HIDE DEF Z
      <4>1. SumOver(Z, Threads) = Cardinality(Threads) * 0
        BY <3>1, ThreadsFinite, SumConst
      <4>2. Cardinality(Threads) * 0 = 0
        BY ThreadsFinite, CountersAssumption DEF CountersAssumption
      <4>. QED  BY <4>1, <4>2
    <3>. HIDE DEF Z
    <3>3. SumOver(Z, Threads) <= SumOver(Pendings, Threads)
      BY <1>1, <3>1, Terms, ThreadsFinite, SumMono DEF TermsFit
    <3>. QED  BY <3>2, <3>3
  <2>3. Total - global = P
    <3>1. global \in Int /\ InHand = 0
      BY <1>1 DEF IInv, TypeOK, InHand
    <3>. QED  BY <1>1, <2>1, <3>1, Sums DEF Balance
  <2>. QED  BY <1>1, <2>1, <2>2, <2>3, Sums
<1>2. IInv /\ Balance => Approximation
  BY <1>1 DEF Approximation
<1>. QED  BY <1>2, Invariance, BalanceInvariance, PTL

\* The check at the end of the program succeeds: what main compares is the
\* number of all increments.
THEOREM TotalIsExact == Spec => []FinalTotal
<1>1. ASSUME IInv, Balance, main = "exit" PROVE reg[Main] = NumThreads * Iters
  <2>1. \A t \in Threads : pc[t] = "done" /\ iter[t] = Iters /\ local[t] = 0
    <3>1. \A t \in Threads : pc[t] = "done" /\ iter[t] = Iters
      BY <1>1 DEF IInv, Owners, Flushed
    <3>2. CASE program = "mutex"
      BY <3>1, <3>2, <1>1 DEF IInv, Slots
    <3>3. CASE program = "approximate"
      <4>1. \A t \in Threads : t < NumThreads
        BY CountersAssumption DEF Threads, CountersAssumption
      <4>. QED  BY <1>1, <3>1, <3>3, <4>1, CountersAssumption DEF IInv, Flushed, CountersAssumption
    <3>. QED  BY <1>1, <3>2, <3>3 DEF IInv, TypeOK
  <2>2. \A t \in Threads : Counts[t] = Iters /\ Pendings[t] = 0
    BY <2>1, CountersAssumption DEF Counts, Pendings, Counted, Uncounted, Pending, CountersAssumption
  <2>3. Counts \in [Threads -> Int] /\ Pendings \in [Threads -> Int] /\ Iters \in Int
    BY <1>1, Terms, CountersAssumption DEF TermsFit, CountersAssumption
  <2>4. SumOver(Counts, Threads) = NumThreads * Iters /\ SumOver(Pendings, Threads) = NumThreads * 0
    BY <2>2, <2>3, ThreadsFinite, SumConst
  <2>5. reg[Main] = global /\ InHand = 0 /\ global \in Int
    BY <1>1 DEF IInv, TypeOK, Flushed, InHand
  <2>6. NumThreads * 0 = 0
    BY CountersAssumption DEF CountersAssumption
  <2>. QED  BY <1>1, <2>4, <2>5, <2>6 DEF Balance
<1>2. IInv /\ Balance => FinalTotal
  BY <1>1 DEF FinalTotal
<1>. QED  BY <1>2, Invariance, BalanceInvariance, PTL
=============================================================================
