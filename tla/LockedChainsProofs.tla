-------------------------- MODULE LockedChainsProofs --------------------------
(***************************************************************************)
(* Proofs about LockedChains, for all three programs and any number of     *)
(* workers, operations, keys and buckets.                                  *)
(***************************************************************************)
EXTENDS LockedChains, FiniteSetTheorems, SequenceTheorems, TLAPS

\* A key is found in a chain just when it is one of its elements.
LEMMA Found ==
  ASSUME NEW S, NEW s \in Seq(S), NEW x
  PROVE  Contains(s, x) <=> x \in ToSet(s)
BY DEF Contains, ToSet

\* A key that is put in front of a chain that does not have it.
LEMMA Prefixed ==
  ASSUME NEW S, NEW s \in Seq(S), NEW x \in S, IsInjective(s), x \notin ToSet(s)
  PROVE  /\ <<x>> \o s \in Seq(S)
         /\ IsInjective(<<x>> \o s)
         /\ ToSet(<<x>> \o s) = ToSet(s) \union {x}
<1>. DEFINE r == <<x>> \o s
<1>1. r \in Seq(S) /\ Len(r) = Len(s) + 1 /\ Len(s) \in Nat
  OBVIOUS
<1>2. r[1] = x /\ \A i \in 1 .. Len(s) : r[i + 1] = s[i]
  OBVIOUS
<1>3. DOMAIN r = 1 .. Len(s) + 1 /\ DOMAIN s = 1 .. Len(s)
  BY <1>1
<1>. HIDE DEF r
<1>4. \A i \in 1 .. Len(s) + 1 : i = 1 \/ (i - 1 \in 1 .. Len(s) /\ r[i] = s[i - 1])
  <2>. TAKE i \in 1 .. Len(s) + 1
  <2>1. i = 1 \/ (i - 1 \in 1 .. Len(s) /\ (i - 1) + 1 = i)
    BY <1>1
  <2>. QED  BY <1>2, <2>1
<1>5. \A i \in 1 .. Len(s) : s[i] # x
  BY <1>3 DEF ToSet
<1>6. IsInjective(r)
  <2>. SUFFICES ASSUME NEW a \in 1 .. Len(s) + 1, NEW b \in 1 .. Len(s) + 1, r[a] = r[b]
                PROVE  a = b
    BY <1>3 DEF IsInjective
  <2>1. CASE a = 1 \/ b = 1
    BY <1>2, <1>4, <1>5, <2>1
  <2>2. CASE a # 1 /\ b # 1
    <3>1. a - 1 \in 1 .. Len(s) /\ b - 1 \in 1 .. Len(s) /\ s[a - 1] = s[b - 1]
      BY <1>4, <2>2
    <3>2. a - 1 = b - 1
      BY <1>3, <3>1 DEF IsInjective
    <3>. QED  BY <1>1, <3>2
  <2>. QED  BY <2>1, <2>2
<1>7. ToSet(r) = ToSet(s) \union {x}
  <2>1. ASSUME NEW y \in ToSet(r) PROVE y \in ToSet(s) \union {x}
    <3>1. PICK i \in 1 .. Len(s) + 1 : y = r[i]
      BY <1>3 DEF ToSet
    <3>. QED  BY <1>2, <1>3, <1>4, <3>1 DEF ToSet
  <2>2. ASSUME NEW y \in ToSet(s) PROVE y \in ToSet(r)
    <3>1. PICK i \in 1 .. Len(s) : y = s[i]
      BY <1>3 DEF ToSet
    <3>2. i + 1 \in 1 .. Len(s) + 1 /\ r[i + 1] = y
      BY <1>1, <1>2, <3>1
    <3>. QED  BY <1>3, <3>2 DEF ToSet
  <2>3. x \in ToSet(r)
    <3>1. 1 \in 1 .. Len(s) + 1
      BY <1>1
    <3>. QED  BY <1>2, <1>3, <3>1 DEF ToSet
  <2>. QED  BY <2>1, <2>2, <2>3
<1>. QED  BY <1>1, <1>6, <1>7 DEF r

\* A key that is taken out of a chain that has it once.
LEMMA Removed ==
  ASSUME NEW S, NEW s \in Seq(S), NEW x, IsInjective(s), x \in ToSet(s)
  PROVE  /\ RemoveFirst(s, x) \in Seq(S)
         /\ IsInjective(RemoveFirst(s, x))
         /\ ToSet(RemoveFirst(s, x)) = ToSet(s) \ {x}
<1>1. PICK i \in 1 .. Len(s) : s[i] = x
  BY DEF ToSet
<1>2. \A j \in 1 .. Len(s) : s[j] = x => j = i
  BY <1>1 DEF IsInjective
<1>3. RemoveFirst(s, x) = RemoveAt(s, i)
  <2>1. {j \in 1 .. Len(s) : s[j] = x} = {i}
    BY <1>1, <1>2
  <2>2. Min({i}) = i
    BY DEF Min
  <2>3. SelectInSeq(s, LAMBDA v : v = x) = i
    BY <2>1, <2>2 DEF SelectInSeq
  <2>. QED  BY <1>1, <2>3 DEF RemoveFirst
<1>. DEFINE r == RemoveAt(s, i)
            At(j) == IF j < i THEN j ELSE j + 1
<1>4. Len(s) \in Nat /\ i \in Nat /\ 1 <= i /\ i <= Len(s)
  OBVIOUS
<1>5. r \in Seq(S) /\ Len(r) = Len(s) - 1 /\ \A j \in 1 .. Len(s) - 1 : r[j] = s[At(j)]
  <2>. DEFINE a == SubSeq(s, 1, i - 1)
              b == SubSeq(s, i + 1, Len(s))
  <2>1. a \in Seq(S) /\ Len(a) = i - 1 /\ \A j \in 1 .. i - 1 : a[j] = s[j]
    BY <1>4
  <2>2. b \in Seq(S) /\ Len(b) = Len(s) - i /\ \A j \in 1 .. Len(s) - i : b[j] = s[i + j]
    BY <1>4
  <2>3. r = a \o b
    BY DEF RemoveAt
  <2>. HIDE DEF a, b, r
  <2>4. r \in Seq(S) /\ Len(r) = Len(s) - 1
    <3>1. r \in Seq(S) /\ Len(r) = Len(a) + Len(b)
      BY <2>1, <2>2, <2>3, ConcatProperties
    <3>. QED  BY <1>4, <2>1, <2>2, <3>1
  <2>5. ASSUME NEW j \in 1 .. Len(s) - 1 PROVE r[j] = s[At(j)]
    <3>1. CASE j < i
      BY <1>4, <2>1, <2>2, <2>3, <3>1
    <3>2. CASE ~(j < i)
      <4>1. r[j] = b[j - (i - 1)] /\ j - (i - 1) \in 1 .. Len(s) - i /\ i + (j - (i - 1)) = j + 1
        BY <1>4, <2>1, <2>2, <2>3, <3>2
      <4>. QED  BY <2>2, <3>2, <4>1
    <3>. QED  BY <3>1, <3>2
  <2>. QED  BY <2>4, <2>5
<1>6. DOMAIN r = 1 .. Len(s) - 1 /\ DOMAIN s = 1 .. Len(s)
  BY <1>5
<1>. HIDE DEF r
<1>7. \A j \in 1 .. Len(s) - 1 : At(j) \in 1 .. Len(s) /\ At(j) # i
  BY <1>4
<1>8. \A j \in 1 .. Len(s) : j = i \/ \E h \in 1 .. Len(s) - 1 : j = At(h)
  <2>. TAKE j \in 1 .. Len(s)
  <2>1. CASE j < i
    BY <1>4, <2>1
  <2>2. CASE j > i
    <3>1. j - 1 \in 1 .. Len(s) - 1 /\ j = At(j - 1)
      BY <1>4, <2>2
    <3>. QED  BY <3>1
  <2>. QED  BY <1>4, <2>1, <2>2
<1>9. IsInjective(r)
  <2>. SUFFICES ASSUME NEW a \in 1 .. Len(s) - 1, NEW b \in 1 .. Len(s) - 1, r[a] = r[b]
                PROVE  a = b
    BY <1>6 DEF IsInjective
  <2>1. At(a) = At(b)
    <3>. HIDE DEF At
    <3>. QED  BY <1>5, <1>6, <1>7 DEF IsInjective
  <2>. QED  BY <1>4, <2>1
<1>10. ToSet(r) = ToSet(s) \ {x}
  <2>. HIDE DEF At
  <2>1. ASSUME NEW y \in ToSet(r) PROVE y \in ToSet(s) \ {x}
    <3>1. PICK j \in 1 .. Len(s) - 1 : y = r[j]
      BY <1>6 DEF ToSet
    <3>2. At(j) \in 1 .. Len(s) /\ y = s[At(j)] /\ y # x
      BY <1>2, <1>5, <1>7, <3>1
    <3>. QED  BY <1>6, <3>2 DEF ToSet
  <2>2. ASSUME NEW y \in ToSet(s) \ {x} PROVE y \in ToSet(r)
    <3>1. PICK j \in 1 .. Len(s) : y = s[j]
      BY <1>6 DEF ToSet
    <3>2. PICK h \in 1 .. Len(s) - 1 : j = At(h)
      BY <1>1, <1>8, <3>1
    <3>. QED  BY <1>5, <1>6, <3>1, <3>2 DEF ToSet
  <2>. QED  BY <2>1, <2>2
<1>. QED  BY <1>3, <1>5, <1>9, <1>10 DEF r

\* The chain main has filled has each of its keys once.
LEMMA Filled ==
  ASSUME NEW S, IsFiniteSet(S)
  PROVE  SetToSeq(S) \in Seq(S) /\ IsInjective(SetToSeq(S))
<1>1. Cardinality(S) \in Nat
  BY FS_CardinalityType
<1>2. PICK f \in [1 .. Cardinality(S) -> S] : IsInjective(f)
  <2>1. ExistsBijection(1 .. Cardinality(S), S)
    BY FS_CardinalityType
  <2>. QED  BY <2>1 DEF ExistsBijection, Bijection, Injection
<1>3. SetToSeq(S) \in [1 .. Cardinality(S) -> S] /\ IsInjective(SetToSeq(S))
  BY <1>2 DEF SetToSeq
<1>. QED  BY <1>1, <1>3, IsASeq

-----------------------------------------------------------------------------
(* The inductive invariant *)

\* Buckets exist for all keys, and two calls on one chain need the same lock.
LEMMA Places ==
  ASSUME TypeOK
  PROVE  /\ \A x \in Keys \union {0} : bkt(x) \in Buckets
         /\ \A t \in Threads : LockOf(t) \in Buckets /\ bkt(k[t]) \in Buckets
         /\ \A t, u \in Threads : bkt(k[t]) = bkt(k[u]) => LockOf(t) = LockOf(u)
<1>. USE ChainsAssumption DEF ChainsAssumption
<1>1. 0 \in Buckets
  BY DEF Buckets
<1>2. ASSUME NEW x \in Keys \union {0} PROVE bkt(x) \in Buckets
  <2>1. x \in Nat
    BY DEF Keys
  <2>2. x % nbk \in 0 .. nbk - 1
    BY <2>1
  <2>. QED  BY <1>1, <2>2 DEF bkt, Buckets
<1>3. \A t \in Threads : bkt(k[t]) \in Buckets
  BY <1>2 DEF TypeOK
<1>. QED  BY <1>1, <1>2, <1>3 DEF LockOf

\* What a call finds in its chain.
LEMMA PresentIn ==
  ASSUME TypeOK, NEW t \in Threads
  PROVE  Present(t) <=> k[t] \in ToSet(lists[bkt(k[t])])
<1>1. lists[bkt(k[t])] \in Seq(Keys)
  BY Places DEF TypeOK
<1>. QED  BY <1>1, Found DEF Present

\* Main fills one chain with different keys, and only when there is no hashing.
LEMMA InitIInv == Init => IInv
<1>. SUFFICES ASSUME Init PROVE IInv
  OBVIOUS
<1>. USE ChainsAssumption DEF ChainsAssumption
<1>1. PICK S \in SUBSET Keys :
        /\ program # "list" => S = {}
        /\ lists = [b \in Buckets |-> IF b = 0 THEN SetToSeq(S) ELSE <<>>]
  BY DEF Init
<1>2. IsFiniteSet(S)
  <2>1. IsFiniteSet(Keys)
    BY FS_Interval DEF Keys
  <2>. QED  BY <2>1, FS_Subset
<1>3. SetToSeq(S) \in Seq(S) /\ IsInjective(SetToSeq(S))
  BY <1>2, Filled
<1>4. SetToSeq(S) \in Seq(Keys) /\ ToSet(SetToSeq(S)) \subseteq S
  <2>1. Len(SetToSeq(S)) \in Nat /\ SetToSeq(S) \in [1 .. Len(SetToSeq(S)) -> S]
    BY <1>3
  <2>. HIDE DEF Keys
  <2>. QED  BY <1>3, <2>1, SeqMonotonic DEF ToSet
<1>5. <<>> \in Seq(Keys) /\ IsInjective(<<>>) /\ ToSet(<<>>) = {}
  BY DEF IsInjective, ToSet
<1>6. \A t \in Threads : pc[t] = "new"
  BY DEF Init
<1>7. TypeOK
  <2>1. lists \in [Buckets -> Seq(Keys)]
    BY <1>1, <1>4, <1>5
  <2>. QED  BY <2>1 DEF Init, TypeOK, Points
<1>8. Owners
  <2>1. \A b \in Buckets : lock[b] = Free
    BY DEF Init
  <2>. QED  BY <1>6, <2>1 DEF Owners
<1>9. WellFormed
  <2>. SUFFICES ASSUME NEW b \in Buckets
                PROVE  IsInjective(lists[b]) /\ \A x \in ToSet(lists[b]) : bkt(x) = b
    BY DEF WellFormed
  <2>1. CASE b = 0
    <3>1. lists[b] = SetToSeq(S)
      BY <1>1, <2>1
    <3>. QED  BY <1>1, <1>3, <1>4, <2>1, <3>1 DEF bkt
  <2>2. CASE b # 0
    <3>1. lists[b] = <<>>
      BY <1>1, <2>2
    <3>. QED  BY <1>5, <3>1
  <2>. QED  BY <2>1, <2>2
<1>10. Calls
  BY <1>6 DEF Calls
<1>. QED  BY <1>7, <1>8, <1>9, <1>10 DEF IInv

-----------------------------------------------------------------------------
(* The steps *)

Worked(t) == Create(t) \/ Step(t)

\* A step of a worker leaves the other workers where they are.
LEMMA Others ==
  ASSUME TypeOK, NEW t \in Threads, Worked(t), NEW u \in Threads \ {t}
  PROVE  pc'[u] = pc[u] /\ op'[u] = op[u] /\ k'[u] = k[u] /\ call'[u] = call[u] /\ ok'[u] = ok[u]
<1>. USE DEF TypeOK, Worked, Step, Create, Begin, Finish, Lock, Unlock, Again, Lookup, InsertFails,
             InsertMisses, Link, DeleteMisses, DeleteFinds, Unlink
<1>1. pc'[u] = pc[u]
  BY DEF Go
<1>2. op'[u] = op[u]
  OBVIOUS
<1>3. k'[u] = k[u]
  OBVIOUS
<1>4. call'[u] = call[u]
  OBVIOUS
<1>5. ok'[u] = ok[u]
  OBVIOUS
<1>. QED  BY <1>1, <1>2, <1>3, <1>4, <1>5

\* A worker keeps its key, and with it its chain and its lock, until it begins
\* another operation; the program never changes.
LEMMA SameKey ==
  ASSUME NEW t \in Threads, Worked(t)
  PROVE  program' = program /\ (~Begin(t) => k' = k)
BY DEF Worked, Step, Create, Begin, Finish, Lock, Unlock, Again, Lookup, InsertFails,
       InsertMisses, Link, DeleteMisses, DeleteFinds, Unlink

\* A thread whose key does not change keeps its bucket and its lock.
LEMMA SamePlace ==
  ASSUME program' = program, NEW u \in Threads, k'[u] = k[u]
  PROVE  bkt(k[u])' = bkt(k[u]) /\ LockOf(u)' = LockOf(u)
BY DEF bkt, LockOf

\* The keys of a chain change by the one key that is linked or unlinked, which
\* hashes to this chain.
LEMMA ChainNext ==
  ASSUME IInv, NEW t \in Threads, Worked(t)
  PROVE  /\ lists' \in [Buckets -> Seq(Keys)]
         /\ Link(t) => /\ ~Present(t)
                       /\ IsInjective(lists'[bkt(k[t])])
                       /\ ToSet(lists'[bkt(k[t])]) = ToSet(lists[bkt(k[t])]) \union {k[t]}
         /\ Unlink(t) => /\ Present(t)
                         /\ IsInjective(lists'[bkt(k[t])])
                         /\ ToSet(lists'[bkt(k[t])]) = ToSet(lists[bkt(k[t])]) \ {k[t]}
         /\ ~Link(t) /\ ~Unlink(t) => lists' = lists
         /\ \A b \in Buckets \ {bkt(k[t])} : lists'[b] = lists[b]
<1>1. TypeOK /\ bkt(k[t]) \in Buckets
  BY Places DEF IInv
<1>2. lists[bkt(k[t])] \in Seq(Keys) /\ IsInjective(lists[bkt(k[t])])
  BY <1>1 DEF TypeOK, IInv, WellFormed
<1>3. CASE Link(t)
  <2>1. pc[t] = "link" /\ lists' = [lists EXCEPT ![bkt(k[t])] = <<k[t]>> \o @]
    BY <1>3 DEF Link, Go
  <2>2. k[t] \in Keys /\ ~Present(t)
    BY <2>1 DEF IInv, Calls, Owners
  <2>3. k[t] \notin ToSet(lists[bkt(k[t])])
    BY <1>1, <2>2, PresentIn
  <2>4. lists'[bkt(k[t])] = <<k[t]>> \o lists[bkt(k[t])]
        /\ \A b \in Buckets \ {bkt(k[t])} : lists'[b] = lists[b]
    BY <1>1, <2>1 DEF TypeOK
  <2>5. /\ lists'[bkt(k[t])] \in Seq(Keys)
        /\ IsInjective(lists'[bkt(k[t])])
        /\ ToSet(lists'[bkt(k[t])]) = ToSet(lists[bkt(k[t])]) \union {k[t]}
    BY <1>2, <2>2, <2>3, <2>4, Prefixed
  <2>6. lists' \in [Buckets -> Seq(Keys)]
    BY <1>1, <2>1, <2>4, <2>5 DEF TypeOK
  <2>7. ~Unlink(t)
    BY <2>1 DEF Unlink, Go
  <2>. QED  BY <1>3, <2>2, <2>4, <2>5, <2>6, <2>7
<1>4. CASE Unlink(t)
  <2>1. pc[t] = "unlink" /\ lists' = [lists EXCEPT ![bkt(k[t])] = RemoveFirst(@, k[t])]
    BY <1>4 DEF Unlink, Go
  <2>2. k[t] \in Keys /\ Present(t)
    BY <2>1 DEF IInv, Calls, Owners
  <2>3. k[t] \in ToSet(lists[bkt(k[t])])
    BY <1>1, <2>2, PresentIn
  <2>4. lists'[bkt(k[t])] = RemoveFirst(lists[bkt(k[t])], k[t])
        /\ \A b \in Buckets \ {bkt(k[t])} : lists'[b] = lists[b]
    BY <1>1, <2>1 DEF TypeOK
  <2>5. /\ lists'[bkt(k[t])] \in Seq(Keys)
        /\ IsInjective(lists'[bkt(k[t])])
        /\ ToSet(lists'[bkt(k[t])]) = ToSet(lists[bkt(k[t])]) \ {k[t]}
    BY <1>2, <2>3, <2>4, Removed
  <2>6. lists' \in [Buckets -> Seq(Keys)]
    BY <1>1, <2>1, <2>4, <2>5 DEF TypeOK
  <2>7. ~Link(t)
    BY <2>1 DEF Link, Go
  <2>. QED  BY <1>4, <2>2, <2>4, <2>5, <2>6, <2>7
<1>5. CASE ~Link(t) /\ ~Unlink(t)
  <2>1. lists' = lists
    BY <1>5 DEF Worked, Step, Create, Begin, Finish, Lock, Unlock, Again, Lookup, InsertFails,
                InsertMisses, DeleteMisses, DeleteFinds
  <2>. QED  BY <1>1, <1>5, <2>1 DEF TypeOK
<1>. QED  BY <1>3, <1>4, <1>5

\* A worker's step keeps the type invariant.
LEMMA NextType ==
  ASSUME IInv, NEW t \in Threads, Worked(t) PROVE TypeOK'
<1>. USE ChainsAssumption DEF ChainsAssumption
<1>1. TypeOK /\ LockOf(t) \in Buckets /\ lists' \in [Buckets -> Seq(Keys)]
  BY Places, ChainNext DEF IInv
<1>2. CASE Begin(t)
  <2>1. ops'[t] \in 0 .. Ops /\ ops' = [ops EXCEPT ![t] = ops'[t]]
    BY <1>1, <1>2 DEF Begin, TypeOK
  <2>2. ops' \in [Threads -> 0 .. Ops]
    BY <1>1, <2>1 DEF TypeOK
  <2>3. op' \in [Threads -> {"lookup", "insert", "delete", "update"}]
        /\ call' \in [Threads -> {"lookup", "insert", "delete"}]
    BY <1>1, <1>2 DEF Begin, TypeOK
  <2>4. UNCHANGED <<program, lists, lock, main>> /\ pc' \in [Threads -> Points]
        /\ k' \in [Threads -> Keys \union {0}] /\ ok' \in [Threads -> BOOLEAN]
    BY <1>1, <1>2 DEF Begin, Go, TypeOK, Points
  <2>. QED  BY <1>1, <2>2, <2>3, <2>4 DEF TypeOK
<1>3. CASE Create(t) \/ Finish(t) \/ InsertMisses(t) \/ DeleteFinds(t)
  BY <1>1, <1>3 DEF Create, Finish, InsertMisses, DeleteFinds, Go, TypeOK, Points
<1>4. CASE Lock(t) \/ Unlock(t)
  <2>1. lock' \in [Buckets -> Threads \union {Free}]
    BY <1>1, <1>4 DEF Lock, Unlock, MutexLock, MutexUnlock, TypeOK
  <2>2. pc' \in [Threads -> Points] /\ UNCHANGED <<program, lists, ops, op, k, call, ok, main>>
    BY <1>1, <1>4 DEF Lock, Unlock, Go, TypeOK, Points
  <2>. QED  BY <1>1, <2>1, <2>2 DEF TypeOK
<1>5. CASE Again(t) \/ InsertFails(t) \/ DeleteMisses(t)
  BY <1>1, <1>5 DEF Again, InsertFails, DeleteMisses, Go, TypeOK, Points
<1>6. CASE Lookup(t)
  <2>1. Present(t) \in BOOLEAN
    BY DEF Present, Contains
  <2>. QED  BY <1>1, <1>6, <2>1 DEF Lookup, Go, TypeOK, Points
<1>7. CASE Link(t) \/ Unlink(t)
  <2>1. pc' \in [Threads -> Points] /\ ok' \in [Threads -> BOOLEAN]
        /\ UNCHANGED <<program, lock, ops, op, k, call, main>>
    BY <1>1, <1>7 DEF Link, Unlink, Go, TypeOK, Points
  <2>. QED  BY <1>1, <2>1 DEF TypeOK
<1>. QED  BY <1>2, <1>3, <1>4, <1>5, <1>6, <1>7 DEF Worked, Step

\* Whoever is inside a list function holds the lock of its chain; a call that is
\* about to change its chain is the only one that can.
LEMMA NextOwners ==
  ASSUME IInv, NEW t \in Threads, Worked(t) PROVE Owners'
<1>. USE ChainsAssumption DEF ChainsAssumption
<1>. DEFINE Inside(p) == p \in {"search", "link", "unlink", "unlock"}
<1>1. TypeOK /\ Free \notin Threads
  BY DEF IInv
<1>2. \A u \in Threads, b \in Buckets : lock[b] = u <=> b = LockOf(u) /\ Inside(pc[u])
  BY DEF IInv, Owners
<1>3. \A u \in Threads : (u # t \/ ~Begin(t)) => bkt(k[u])' = bkt(k[u]) /\ LockOf(u)' = LockOf(u)
  BY <1>1, Others, SameKey, SamePlace
<1>4. ASSUME \A b \in Buckets : lock'[b] # lock[b] => {lock[b], lock'[b]} \subseteq {t, Free},
             \A b \in Buckets : lock'[b] = t <=> b = LockOf(t)' /\ Inside(pc'[t])
      PROVE  \A u \in Threads, b \in Buckets : lock'[b] = u <=> b = LockOf(u)' /\ Inside(pc'[u])
  <2>. SUFFICES ASSUME NEW u \in Threads \ {t}, NEW b \in Buckets
                PROVE  lock'[b] = u <=> b = LockOf(u)' /\ Inside(pc'[u])
    BY <1>4
  <2>1. lock'[b] = u <=> lock[b] = u
    BY <1>1, <1>4
  <2>2. pc'[u] = pc[u] /\ LockOf(u)' = LockOf(u)
    BY <1>1, <1>3, Others
  <2>. QED  BY <1>2, <2>1, <2>2
<1>5. \A u \in Threads, b \in Buckets : lock'[b] = u <=> b = LockOf(u)' /\ Inside(pc'[u])
  <2>1. CASE Begin(t)
    <3>1. ~Inside(pc[t]) /\ ~Inside(pc'[t]) /\ UNCHANGED lock
      BY <1>1, <2>1 DEF Begin, Go, TypeOK
    <3>. QED  BY <1>2, <1>4, <3>1
  <2>2. CASE Create(t) \/ Finish(t) \/ Again(t)
    <3>1. ~Inside(pc[t]) /\ ~Inside(pc'[t]) /\ UNCHANGED lock
      BY <1>1, <2>2 DEF Create, Finish, Again, Go, TypeOK
    <3>. QED  BY <1>2, <1>4, <3>1
  <2>3. CASE Lookup(t) \/ InsertFails(t) \/ InsertMisses(t) \/ Link(t) \/ DeleteMisses(t) \/ DeleteFinds(t) \/ Unlink(t)
    <3>1. Inside(pc[t]) /\ Inside(pc'[t]) /\ UNCHANGED lock /\ ~Begin(t)
      BY <1>1, <2>3 DEF Lookup, InsertFails, InsertMisses, Link, DeleteMisses, DeleteFinds, Unlink, Begin,
                        Go, TypeOK
    <3>. QED  BY <1>2, <1>3, <1>4, <3>1
  <2>4. CASE Lock(t)
    <3>1. /\ pc[t] = "lock" /\ pc'[t] = "search" /\ ~Begin(t)
          /\ lock[LockOf(t)] = Free /\ lock' = [lock EXCEPT ![LockOf(t)] = t]
      BY <1>1, <2>4 DEF Lock, Begin, MutexLock, Go, TypeOK
    <3>2. LockOf(t)' = LockOf(t) /\ LockOf(t) \in Buckets
      BY <1>1, <1>3, <3>1, Places
    <3>. QED  BY <1>1, <1>2, <1>4, <3>1, <3>2 DEF TypeOK
  <2>5. CASE Unlock(t)
    <3>1. /\ pc[t] = "unlock" /\ ~Inside(pc'[t]) /\ ~Begin(t)
          /\ lock' = [lock EXCEPT ![LockOf(t)] = Free]
      BY <1>1, <2>5 DEF Unlock, Begin, MutexUnlock, Go, TypeOK
    <3>2. LockOf(t)' = LockOf(t) /\ LockOf(t) \in Buckets
      BY <1>1, <1>3, <3>1, Places
    <3>3. lock[LockOf(t)] = t
      BY <1>2, <3>1, <3>2
    <3>. QED  BY <1>1, <1>2, <1>4, <3>1, <3>2, <3>3 DEF TypeOK
  <2>. QED  BY <2>1, <2>2, <2>3, <2>4, <2>5 DEF Worked, Step
<1>6. ASSUME NEW u \in Threads \ {t}, pc'[u] \in {"link", "unlink"}
      PROVE  Present(u)' <=> Present(u)
  <2>1. pc'[u] = pc[u] /\ k'[u] = k[u] /\ bkt(k[u])' = bkt(k[u]) /\ bkt(k[u]) \in Buckets
    BY <1>1, <1>3, Others, Places
  <2>2. lists'[bkt(k[u])] = lists[bkt(k[u])]
    <3>1. CASE Link(t) \/ Unlink(t)
      <4>1. Inside(pc[t]) /\ Inside(pc[u])
        BY <1>6, <2>1, <3>1 DEF Link, Unlink, Go
      <4>2. LockOf(u) # LockOf(t)
        BY <1>1, <1>2, <4>1, Places
      <4>3. bkt(k[u]) # bkt(k[t])
        BY <1>1, <4>2, Places
      <4>. QED  BY <2>1, <4>3, ChainNext
    <3>2. CASE ~Link(t) /\ ~Unlink(t)
      BY <3>2, ChainNext
    <3>. QED  BY <3>1, <3>2
  <2>. QED  BY <2>1, <2>2 DEF Present
<1>7. ASSUME pc'[t] \in {"link", "unlink"}
      PROVE  (Present(t)' <=> Present(t)) /\ (pc'[t] = "link" => ~Present(t))
             /\ (pc'[t] = "unlink" => Present(t))
  <2>1. InsertMisses(t) \/ DeleteFinds(t)
    BY <1>1, <1>7 DEF Worked, Step, Create, Begin, Finish, Lock, Unlock, Again, Lookup, InsertFails,
                      Link, DeleteMisses, Unlink, Go, TypeOK
  <2>2. UNCHANGED <<program, lists, k>>
    BY <2>1 DEF InsertMisses, DeleteFinds
  <2>3. Present(t)' <=> Present(t)
    BY <2>2 DEF Present, bkt
  <2>. QED  BY <1>1, <1>7, <2>1, <2>3 DEF InsertMisses, DeleteFinds, Go, TypeOK
<1>8. ASSUME NEW u \in Threads
      PROVE  (pc'[u] = "link" => ~Present(u)') /\ (pc'[u] = "unlink" => Present(u)')
  <2>1. CASE u = t
    BY <1>7, <2>1
  <2>2. CASE u # t
    <3>1. pc'[u] = pc[u]
      BY <1>1, <2>2, Others
    <3>. QED  BY <1>6, <2>2, <3>1 DEF IInv, Owners
  <2>. QED  BY <2>1, <2>2
<1>. QED  BY <1>5, <1>8 DEF Owners

\* A chain gets a key that hashes to it and that it does not have.
LEMMA NextWellFormed ==
  ASSUME IInv, NEW t \in Threads, Worked(t) PROVE WellFormed'
<1>1. TypeOK /\ WellFormed /\ bkt(k[t]) \in Buckets
  BY Places DEF IInv
<1>2. \A x : bkt(x)' = bkt(x)
  BY SameKey DEF bkt
<1>. SUFFICES ASSUME NEW b \in Buckets
              PROVE  IsInjective(lists'[b]) /\ \A x \in ToSet(lists'[b]) : bkt(x) = b
  BY <1>2 DEF WellFormed
<1>3. IsInjective(lists[b]) /\ \A x \in ToSet(lists[b]) : bkt(x) = b
  BY <1>1 DEF WellFormed
<1>4. CASE b = bkt(k[t]) /\ (Link(t) \/ Unlink(t))
  BY <1>3, <1>4, ChainNext
<1>5. CASE ~(b = bkt(k[t]) /\ (Link(t) \/ Unlink(t)))
  BY <1>3, <1>5, ChainNext
<1>. QED  BY <1>4, <1>5

\* A worker's step keeps what the calls have come to.
LEMMA NextCalls ==
  ASSUME IInv, NEW t \in Threads, Worked(t) PROVE Calls'
<1>1. TypeOK /\ Calls
  BY DEF IInv
<1>. DEFINE Fits(u) ==
       /\ pc[u] \notin {"new", "barrier", "op", "done"} =>
            /\ k[u] \in Keys
            /\ IF program = "list" THEN op[u] # "update" /\ call[u] = op[u]
                                   ELSE op[u] = "update" /\ call[u] # "lookup"
       /\ pc[u] \in {"link", "again"} => call[u] = "insert"
       /\ pc[u] = "unlink" => call[u] = "delete"
       /\ pc[u] = "again" => program = "hash"
       /\ pc[u] = "unlock" /\ call[u] = "insert" /\ program = "buckets" => ok[u]
<1>2. \A u \in Threads : Fits(u)
  BY <1>1 DEF Calls
<1>3. ASSUME NEW u \in Threads \ {t} PROVE Fits(u)'
  BY <1>1, <1>2, Others, SameKey
<1>4. Fits(t)'
  <2>1. CASE Begin(t)
    <3>1. pc'[t] = "lock" /\ k'[t] \in Keys /\ program' = program
      BY <1>1, <2>1 DEF Begin, Go, TypeOK
    <3>2. PICK o \in IF program = "list" THEN {"lookup", "insert", "delete"} ELSE {"update"} :
            /\ op' = [op EXCEPT ![t] = o]
            /\ call' = [call EXCEPT ![t] = IF o = "update" THEN "insert" ELSE o]
      BY <2>1 DEF Begin
    <3>3. op'[t] = o /\ call'[t] = (IF o = "update" THEN "insert" ELSE o)
      BY <1>1, <3>2 DEF TypeOK
    <3>. QED  BY <3>1, <3>2, <3>3
  <2>2. CASE Create(t) \/ Finish(t)
    BY <1>1, <2>2 DEF Create, Finish, Go, TypeOK
  <2>3. CASE Lock(t) \/ Unlock(t)
    BY <1>1, <1>2, <2>3 DEF Lock, Unlock, Go, TypeOK
  <2>4. CASE Again(t) \/ InsertFails(t)
    BY <1>1, <1>2, <2>4 DEF Again, InsertFails, HoldsOn, Go, TypeOK
  <2>5. CASE Lookup(t) \/ InsertMisses(t) \/ Link(t) \/ DeleteMisses(t) \/ DeleteFinds(t) \/ Unlink(t)
    BY <1>1, <1>2, <2>5 DEF Lookup, InsertMisses, Link, DeleteMisses, DeleteFinds, Unlink, Go, TypeOK
  <2>. QED  BY <2>1, <2>2, <2>3, <2>4, <2>5 DEF Worked, Step
<1>. QED  BY <1>3, <1>4 DEF Calls

\* The inductive step: all parts together.
LEMMA NextIInv == IInv /\ [Next]_vars => IInv'
<1>. SUFFICES ASSUME IInv, [Next]_vars PROVE IInv'
  OBVIOUS
<1>1. CASE Start \/ Join \/ Exited \/ UNCHANGED vars
  <2>1. /\ UNCHANGED <<program, lists, lock, ops, op, k, call, ok>>
        /\ pc' \in [Threads -> Points] /\ main' \in {"run", "exit"}
        /\ \/ pc' = pc
           \/ \A u \in Threads : pc[u] = "barrier" /\ pc'[u] = "op"
    BY <1>1 DEF Start, Join, Exited, vars, IInv, TypeOK, Points
  <2>2. TypeOK'
    BY <2>1 DEF IInv, TypeOK
  <2>3. \A u \in Threads : LockOf(u)' = LockOf(u) /\ (Present(u)' <=> Present(u))
    BY <2>1 DEF LockOf, Present, bkt
  <2>4. Owners' /\ Calls'
    BY <2>1, <2>3 DEF IInv, Owners, Calls
  <2>5. WellFormed'
    BY <2>1 DEF IInv, WellFormed, bkt
  <2>. QED  BY <2>2, <2>4, <2>5 DEF IInv
<1>2. ASSUME NEW t \in Threads, Create(t) \/ Step(t) PROVE IInv'
  BY <1>2, NextType, NextOwners, NextWellFormed, NextCalls DEF IInv, Worked
<1>. QED  BY <1>1, <1>2 DEF Next

\* In every state of the three programs the chains are well formed and a lock
\* is held by the thread that works on its chain.
THEOREM Invariance == Spec => []IInv
BY InitIInv, NextIInv, PTL DEF Spec

-----------------------------------------------------------------------------
(* The chains are a set *)

Members == UNION {ToSet(lists[b]) : b \in Buckets}
Status  == [t \in Threads |-> CallOf(t)]

\* The name under which a call is known to the set.
Name(t) == IF program = "hash" THEN call[t] ELSE op[t]

\* The call of a worker, point by point.
LEMMA CallPoint ==
  ASSUME NEW t \in Threads
  PROVE  /\ pc[t] \in {"lock", "search", "link", "unlink"} => CallOf(t) = <<Name(t), k[t]>>
         /\ pc[t] = "unlock" => CallOf(t) = <<Name(t), k[t], ok[t]>>
         /\ pc[t] \notin {"lock", "search", "link", "unlink", "unlock"} => CallOf(t) = <<>>
BY DEF CallOf, Name

\* The same after a step.
LEMMA CallPointNext ==
  ASSUME NEW t \in Threads
  PROVE  /\ pc'[t] \in {"lock", "search", "link", "unlink"} => CallOf(t)' = <<Name(t)', k'[t]>>
         /\ pc'[t] = "unlock" => CallOf(t)' = <<Name(t)', k'[t], ok'[t]>>
         /\ pc'[t] \notin {"lock", "search", "link", "unlink", "unlock"} => CallOf(t)' = <<>>
BY DEF CallOf, Name

\* A step of a worker changes the call of nobody else.
LEMMA OneCall ==
  ASSUME TypeOK, NEW t \in Threads, Worked(t)
  PROVE  Status' = [Status EXCEPT ![t] = CallOf(t)']
<1>1. ASSUME NEW u \in Threads \ {t} PROVE CallOf(u)' = CallOf(u)
  <2>1. Name(u)' = Name(u)
    BY Others, SameKey DEF Name
  <2>. QED  BY <2>1, Others, CallPoint, CallPointNext
<1>. QED  BY <1>1 DEF Status

\* A search of one chain decides whether the key is in the set.
LEMMA Search ==
  ASSUME IInv, NEW t \in Threads
  PROVE  k[t] \in Members <=> Present(t)
<1>1. TypeOK /\ bkt(k[t]) \in Buckets /\ (Present(t) <=> k[t] \in ToSet(lists[bkt(k[t])]))
  BY Places, PresentIn DEF IInv
<1>2. \A b \in Buckets : k[t] \in ToSet(lists[b]) => bkt(k[t]) = b
  BY DEF IInv, WellFormed
<1>. QED  BY <1>1, <1>2 DEF Members

\* A link adds the key of the call to the set and an unlink takes it away;
\* nothing else changes the set.
LEMMA MembersNext ==
  ASSUME IInv, NEW t \in Threads, Worked(t)
  PROVE  /\ Link(t) => k[t] \notin Members /\ Members' = Members \union {k[t]}
         /\ Unlink(t) => k[t] \in Members /\ Members' = Members \ {k[t]}
         /\ ~Link(t) /\ ~Unlink(t) => Members' = Members
<1>1. TypeOK /\ bkt(k[t]) \in Buckets
  BY Places DEF IInv
<1>2. \A x : x \in Members <=> \E b \in Buckets : x \in ToSet(lists[b])
  BY DEF Members
<1>3. \A x : x \in Members' <=> \E b \in Buckets : x \in ToSet(lists'[b])
  BY DEF Members
<1>4. \A b \in Buckets : k[t] \in ToSet(lists[b]) => bkt(k[t]) = b
  BY DEF IInv, WellFormed
<1>5. \A b \in Buckets \ {bkt(k[t])} : ToSet(lists'[b]) = ToSet(lists[b])
  BY ChainNext
<1>6. CASE Link(t)
  <2>1. /\ ToSet(lists'[bkt(k[t])]) = ToSet(lists[bkt(k[t])]) \union {k[t]}
        /\ k[t] \notin Members
    BY <1>6, ChainNext, Search
  <2>2. ASSUME NEW x PROVE x \in Members' <=> x \in Members \union {k[t]}
    BY <1>1, <1>2, <1>3, <1>5, <2>1
  <2>3. ~Unlink(t)
    BY <1>6 DEF Link, Unlink, Go
  <2>. QED  BY <1>6, <2>1, <2>2, <2>3
<1>7. CASE Unlink(t)
  <2>1. /\ ToSet(lists'[bkt(k[t])]) = ToSet(lists[bkt(k[t])]) \ {k[t]}
        /\ k[t] \in Members
    BY <1>7, ChainNext, Search
  <2>2. ASSUME NEW x PROVE x \in Members' <=> x \in Members \ {k[t]}
    BY <1>1, <1>2, <1>3, <1>4, <1>5, <2>1
  <2>3. ~Link(t)
    BY <1>7 DEF Link, Unlink, Go
  <2>. QED  BY <1>7, <2>1, <2>2, <2>3
<1>. QED  BY <1>6, <1>7, ChainNext DEF Members

\* The steps of the set in which a call takes effect.
LEMMA Effects ==
  ASSUME NEW t \in Threads, NEW x \in Keys,
         \/ Set!Lookup(t, x) \/ Set!Insert(t, x) \/ Set!NoMemory(t, x)
         \/ Set!Delete(t, x) \/ Set!Update(t, x)
  PROVE  Set!Next
BY Zenon DEF Set!Next

\* At the start the members are the prefilled keys and nobody is in a call.
LEMMA RefineInit == Init => Set!Init
<1>. SUFFICES ASSUME Init PROVE Set!Init
  OBVIOUS
<1>1. TypeOK
  BY InitIInv DEF IInv
<1>2. Members \in SUBSET Keys
  <2>1. ASSUME NEW b \in Buckets, NEW x \in ToSet(lists[b]) PROVE x \in Keys
    <3>1. lists[b] \in Seq(Keys)
      BY <1>1 DEF TypeOK
    <3>2. PICK i \in DOMAIN lists[b] : x = lists[b][i]
      BY <2>1 DEF ToSet
    <3>. HIDE DEF Keys
    <3>. QED  BY <3>1, <3>2
  <2>. QED  BY <2>1 DEF Members
<1>3. Status = [t \in Threads |-> <<>>]
  BY CallPoint DEF Init, Status
<1>. QED  BY <1>2, <1>3 DEF Set!Init, Set!Idle, Members, Status

\* A call that returns from its search has the answer of the set: a missing or
\* deleted key, a new key, one that is there, or no memory.
LEMMA RefineDecision ==
  ASSUME IInv, NEW t \in Threads, Worked(t), pc'[t] = "unlock"
  PROVE  Set!Next
<1>1. TypeOK /\ Calls
  BY DEF IInv
<1>2. /\ pc[t] \in {"search", "link", "unlink"} /\ UNCHANGED <<program, op, k, call>>
      /\ Lookup(t) \/ InsertFails(t) \/ Link(t) \/ DeleteMisses(t) \/ Unlink(t)
  <2>1. Lookup(t) \/ InsertFails(t) \/ Link(t) \/ DeleteMisses(t) \/ Unlink(t)
    BY <1>1 DEF Worked, Step, Create, Begin, Finish, Lock, Unlock, Again, InsertMisses, DeleteFinds, Go,
                TypeOK
  <2>2. CASE Lookup(t) \/ Link(t) \/ DeleteMisses(t) \/ Unlink(t)
    BY <2>1, <2>2 DEF Lookup, Link, DeleteMisses, Unlink, Go
  <2>3. CASE InsertFails(t)
    BY <1>1, <2>1, <2>3 DEF InsertFails, Go, TypeOK
  <2>. QED  BY <2>1, <2>2, <2>3
<1>3. /\ k[t] \in Keys
      /\ IF program = "list" THEN op[t] # "update" /\ call[t] = op[t]
                             ELSE op[t] = "update" /\ call[t] # "lookup"
  BY <1>1, <1>2 DEF Calls
<1>4. PICK x \in Keys : x = k[t]
  BY <1>3
<1>5. x \in Members <=> Present(t)
  BY <1>4, Search
<1>6. /\ Status[t] = <<Name(t), x>>
      /\ Status' = [Status EXCEPT ![t] = <<Name(t), x, ok'[t]>>]
  <2>1. Name(t)' = Name(t)
    BY <1>2 DEF Name
  <2>. QED  BY <1>1, <1>2, <1>4, <2>1, CallPoint, CallPointNext, OneCall DEF Status
<1>7. CASE Lookup(t)
  <2>1. Name(t) = "lookup" /\ ok'[t] = Present(t)
    BY <1>1, <1>3, <1>7 DEF Lookup, Name, TypeOK
  <2>2. Members' = Members
    BY <1>7, MembersNext DEF Lookup, Link, Unlink, Go
  <2>3. ok'[t] = (x \in Members)
    <3>1. ok'[t] \in BOOLEAN /\ (ok'[t] <=> x \in Members)
      <4>1. ok'[t] \in BOOLEAN
        BY NextType DEF TypeOK
      <4>. QED  BY <1>5, <2>1, <4>1, Zenon
    <3>. QED  BY <3>1
  <2>4. Set!Lookup(t, x)
    BY <1>6, <2>1, <2>2, <2>3 DEF Set!Lookup, Set!Answer, Members, Status
  <2>. QED  BY <2>4, Effects
<1>8. CASE InsertFails(t)
  <2>1. Name(t) = "insert" /\ ok'[t] = FALSE
    <3>1. call[t] = "insert" /\ ok'[t] = FALSE /\ ~(op[t] = "update" /\ HoldsOn)
      BY <1>1, <1>8 DEF InsertFails, Go, TypeOK
    <3>. QED  BY <1>1, <1>3, <3>1 DEF Name, HoldsOn, TypeOK
  <2>2. Members' = Members
    <3>1. pc[t] = "search"
      BY <1>8 DEF InsertFails, Go
    <3>. QED  BY <3>1, MembersNext DEF Link, Unlink, Go
  <2>3. CASE Present(t)
    <3>1. Members' = Members \union {x} /\ ok'[t] = (x \notin Members)
      BY <1>5, <2>1, <2>2, <2>3
    <3>2. Set!Insert(t, x)
      BY <1>6, <2>1, <3>1 DEF Set!Insert, Set!Answer, Members, Status
    <3>. QED  BY <3>2, Effects
  <2>4. CASE ~Present(t)
    <3>1. x \notin Members
      BY <1>5, <2>4
    <3>2. Set!NoMemory(t, x)
      BY <1>6, <2>1, <2>2, <3>1 DEF Set!NoMemory, Set!Answer, Members, Status
    <3>. QED  BY <3>2, Effects
  <2>. QED  BY <2>3, <2>4
<1>9. CASE Link(t)
  <2>1. pc[t] = "link" /\ ok'[t] = TRUE
    BY <1>1, <1>9 DEF Link, Go, TypeOK
  <2>2. call[t] = "insert" /\ Name(t) \in {"insert", "update"}
    BY <1>1, <1>3, <2>1 DEF Calls, Name
  <2>3. x \notin Members /\ Members' = Members \union {x}
    BY <1>4, <1>9, MembersNext
  <2>4. CASE Name(t) = "insert"
    <3>1. ok'[t] = (x \notin Members)
      BY <2>1, <2>3
    <3>2. Set!Insert(t, x)
      BY <1>6, <2>3, <2>4, <3>1 DEF Set!Insert, Set!Answer, Members, Status
    <3>. QED  BY <3>2, Effects
  <2>5. CASE Name(t) = "update"
    <3>1. Set!Update(t, x)
      BY <1>6, <2>1, <2>3, <2>5 DEF Set!Update, Set!Answer, Members, Status
    <3>. QED  BY <3>1, Effects
  <2>. QED  BY <2>2, <2>4, <2>5
<1>10. CASE DeleteMisses(t)
  <2>1. call[t] = "delete" /\ ~Present(t) /\ ok'[t] = FALSE /\ Name(t) \in {"delete", "update"}
    BY <1>1, <1>3, <1>10 DEF DeleteMisses, Name, TypeOK
  <2>2. Members' = Members
    BY <1>10, MembersNext DEF DeleteMisses, Link, Unlink, Go
  <2>3. x \notin Members
    BY <1>5, <2>1
  <2>4. CASE Name(t) = "delete"
    <3>1. Members' = Members \ {x}
      BY <2>2, <2>3
    <3>2. ok'[t] \in BOOLEAN /\ (ok'[t] <=> x \in Members)
      BY <2>1, <2>3
    <3>3. ok'[t] = (x \in Members)
      BY <3>2
    <3>4. Set!Delete(t, x)
      BY <1>6, <2>4, <3>1, <3>3 DEF Set!Delete, Set!Answer, Members, Status
    <3>. QED  BY <3>4, Effects
  <2>5. CASE Name(t) = "update"
    <3>1. Set!NoMemory(t, x)
      BY <1>6, <2>1, <2>2, <2>3, <2>5 DEF Set!NoMemory, Set!Answer, Members, Status
    <3>. QED  BY <3>1, Effects
  <2>. QED  BY <2>1, <2>4, <2>5
<1>11. CASE Unlink(t)
  <2>1. pc[t] = "unlink" /\ ok'[t] = TRUE
    BY <1>1, <1>11 DEF Unlink, Go, TypeOK
  <2>2. call[t] = "delete" /\ Name(t) \in {"delete", "update"}
    BY <1>1, <1>3, <2>1 DEF Calls, Name
  <2>3. x \in Members /\ Members' = Members \ {x}
    BY <1>4, <1>11, MembersNext
  <2>4. CASE Name(t) = "delete"
    <3>1. ok'[t] = (x \in Members)
      BY <2>1, <2>3
    <3>2. Set!Delete(t, x)
      BY <1>6, <2>3, <2>4, <3>1 DEF Set!Delete, Set!Answer, Members, Status
    <3>. QED  BY <3>2, Effects
  <2>5. CASE Name(t) = "update"
    <3>1. Set!Update(t, x)
      BY <1>6, <2>1, <2>3, <2>5 DEF Set!Update, Set!Answer, Members, Status
    <3>. QED  BY <3>1, Effects
  <2>. QED  BY <2>2, <2>4, <2>5
<1>. QED  BY <1>2, <1>7, <1>8, <1>9, <1>10, <1>11

\* Every step of the programs is a step of the set or leaves it alone.
LEMMA RefineStep == IInv /\ [Next]_vars => [Set!Next]_<<Members, Status>>
<1>. SUFFICES ASSUME IInv, [Next]_vars PROVE [Set!Next]_<<Members, Status>>
  OBVIOUS
<1>1. TypeOK /\ Calls
  BY DEF IInv
<1>2. CASE Start \/ Join \/ Exited \/ UNCHANGED vars
  <2>1. /\ UNCHANGED <<program, lists, op, k, call, ok>>
        /\ \/ pc' = pc
           \/ \A u \in Threads : pc[u] = "barrier" /\ pc'[u] = "op"
    BY <1>2 DEF Start, Join, Exited, vars
  <2>2. ASSUME NEW u \in Threads PROVE CallOf(u)' = CallOf(u)
    <3>1. Name(u)' = Name(u)
      BY <2>1 DEF Name
    <3>. QED  BY <2>1, <3>1, CallPoint, CallPointNext
  <2>. QED  BY <2>1, <2>2 DEF Members, Status
<1>. SUFFICES ASSUME NEW t \in Threads, Worked(t) PROVE [Set!Next]_<<Members, Status>>
  BY <1>2 DEF Next, Worked
<1>3. Status' = [Status EXCEPT ![t] = CallOf(t)'] /\ Status[t] = CallOf(t)
  BY <1>1, OneCall DEF Status
<1>4. ASSUME CallOf(t)' = CallOf(t), ~Link(t), ~Unlink(t)
      PROVE  UNCHANGED <<Members, Status>>
  BY <1>3, <1>4, MembersNext DEF Status
<1>5. ASSUME NEW x \in Keys, CallOf(t) = <<>>, ~Link(t), ~Unlink(t),
             Name(t)' \in {"lookup", "insert", "delete", "update"}, CallOf(t)' = <<Name(t)', x>>
      PROVE  Set!Next
  <2>1. Members' = Members
    BY <1>5, MembersNext
  <2>2. PICK o \in {"lookup", "insert", "delete", "update"} : o = Name(t)'
    BY <1>5
  <2>3. Set!Call(t, o, x)
    BY <1>3, <1>5, <2>1, <2>2 DEF Set!Call, Set!Idle, Members, Status
  <2>. QED  BY <2>3, Zenon DEF Set!Next, Set!Operations
<1>6. CASE pc'[t] = "unlock"
  BY <1>6, RefineDecision
<1>7. CASE Create(t) \/ Finish(t)
  <2>1. {pc[t], pc'[t]} \subseteq {"new", "barrier", "op", "done"}
    BY <1>1, <1>7 DEF Create, Finish, Go, TypeOK
  <2>2. CallOf(t)' = CallOf(t)
    BY <2>1, CallPoint, CallPointNext
  <2>. QED  BY <1>4, <2>1, <2>2 DEF Link, Unlink, Go
<1>8. CASE Begin(t)
  <2>1. pc[t] = "op" /\ pc'[t] = "lock" /\ k'[t] \in Keys
    BY <1>1, <1>8 DEF Begin, Go, TypeOK
  <2>2. TypeOK'
    BY NextType
  <2>3. Name(t)' \in {"lookup", "insert", "delete", "update"}
    BY <2>2 DEF Name, TypeOK
  <2>4. CallOf(t) = <<>> /\ CallOf(t)' = <<Name(t)', k'[t]>>
    BY <2>1, CallPoint, CallPointNext
  <2>5. PICK x \in Keys : x = k'[t]
    BY <2>1
  <2>. QED  BY <1>5, <2>1, <2>3, <2>4, <2>5 DEF Link, Unlink, Go
<1>9. CASE Again(t)
  <2>1. pc[t] = "again" /\ pc'[t] = "lock" /\ k'[t] = k[t] /\ k[t] \in Keys
    BY <1>1, <1>9 DEF Again, Go, TypeOK, Calls
  <2>2. TypeOK'
    BY NextType
  <2>3. Name(t)' \in {"lookup", "insert", "delete", "update"}
    BY <2>2 DEF Name, TypeOK
  <2>4. CallOf(t) = <<>> /\ CallOf(t)' = <<Name(t)', k'[t]>>
    BY <2>1, CallPoint, CallPointNext
  <2>5. PICK x \in Keys : x = k'[t]
    BY <2>1
  <2>. QED  BY <1>5, <2>1, <2>3, <2>4, <2>5 DEF Link, Unlink, Go
<1>10. CASE Lock(t) \/ InsertMisses(t) \/ DeleteFinds(t)
  <2>1. /\ {pc[t], pc'[t]} \subseteq {"lock", "search", "link", "unlink"}
        /\ pc[t] \notin {"link", "unlink"} /\ UNCHANGED <<program, op, k, call>>
    BY <1>1, <1>10 DEF Lock, InsertMisses, DeleteFinds, Go, TypeOK
  <2>2. CallOf(t)' = CallOf(t)
    BY <2>1, CallPoint, CallPointNext DEF Name
  <2>. QED  BY <1>4, <2>1, <2>2 DEF Link, Unlink, Go
<1>11. CASE InsertFails(t) /\ pc'[t] # "unlock"
  <2>1. /\ pc[t] = "search" /\ pc'[t] = "search" /\ op[t] = "update" /\ program = "buckets"
        /\ UNCHANGED <<program, op, k>>
    BY <1>1, <1>11 DEF InsertFails, HoldsOn, Go, TypeOK
  <2>2. CallOf(t)' = CallOf(t)
    BY <2>1, CallPoint, CallPointNext DEF Name
  <2>. QED  BY <1>4, <2>1, <2>2 DEF Link, Unlink, Go
<1>12. CASE Unlock(t)
  <2>1. pc[t] = "unlock" /\ pc'[t] \in {"again", "op"}
    BY <1>1, <1>12 DEF Unlock, Go, TypeOK
  <2>2. CallOf(t) = <<Name(t), k[t], ok[t]>> /\ CallOf(t)' = <<>> /\ Members' = Members
    BY <2>1, CallPoint, CallPointNext, MembersNext DEF Link, Unlink, Go
  <2>3. Set!Return(t)
    BY <1>3, <2>2 DEF Set!Return, Set!Idle, Members, Status
  <2>. QED  BY <2>3 DEF Set!Next
<1>13. CASE Lookup(t) \/ Link(t) \/ DeleteMisses(t) \/ Unlink(t)
  <2>1. pc'[t] = "unlock"
    BY <1>1, <1>13 DEF Lookup, Link, DeleteMisses, Unlink, Go, TypeOK
  <2>. QED  BY <1>6, <2>1
<1>. QED  BY <1>6, <1>7, <1>8, <1>9, <1>10, <1>11, <1>12, <1>13 DEF Worked, Step

\* All three programs implement the set of SetObject: every call of the lists
\* and of the hash tables takes effect in one step.
THEOREM Refinement == Spec => ImplementsSet
<1>1. [Set!Next]_<<Members, Status>> <=>
        [Set!Next]_<<UNION {ToSet(lists[b]) : b \in Buckets}, [t \in Threads |-> CallOf(t)]>>
  BY DEF Members, Status
<1>. QED  BY <1>1, Invariance, RefineInit, RefineStep, PTL DEF Spec, ImplementsSet, Set!Spec
=============================================================================
