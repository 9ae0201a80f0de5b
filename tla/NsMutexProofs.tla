---------------------------- MODULE NsMutexProofs ----------------------------
(***************************************************************************)
(* Proofs about NsMutex, for every finite set of workers and every bound.  *)
(*                                                                         *)
(* IInv is inductive.  Its parts need each other: a step is confined to    *)
(* one thread because `state' is a lock (StateIsLock); the lock has one    *)
(* place because only that thread moves it (OneBaton); the hand-over finds *)
(* a thread to hand over to because `waiters' is exactly the number of     *)
(* queued threads (TypeOK).  These parts, LockInv, are inductive without   *)
(* Tally, which counts the increments and in its turn needs only that      *)
(* nobody stores between the load and the store of another (Fresh).        *)
(***************************************************************************)
EXTENDS NsMutex, FiniteSetTheorems, TLAPS

QueuedSet == {t \in Workers : Queued(t)}

\* The three ways a step changes the set of queued threads, and what each
\* does to its size.
LEMMA QueuedCount ==
  ASSUME NEW t \in Workers, IsFiniteSet(QueuedSet)
  PROVE  /\ QueuedSet' = QueuedSet => Cardinality(QueuedSet') = Cardinality(QueuedSet)
         /\ ~Queued(t) /\ QueuedSet' = QueuedSet \union {t}
              => Cardinality(QueuedSet') = Cardinality(QueuedSet) + 1
         /\ Queued(t) /\ QueuedSet' = QueuedSet \ {t}
              => Cardinality(QueuedSet') = Cardinality(QueuedSet) - 1
<1>1. /\ t \notin QueuedSet => Cardinality(QueuedSet \union {t}) = Cardinality(QueuedSet) + 1
      /\ t \in QueuedSet => Cardinality(QueuedSet \ {t}) = Cardinality(QueuedSet) - 1
  BY FS_AddElement, FS_RemoveElement
<1>2. t \in QueuedSet <=> Queued(t)
  BY DEF QueuedSet
<1>. QED  BY <1>1, <1>2

\* The queued threads are finitely many, and `waiters' is positive exactly
\* when there is one.
LEMMA WaitersPositive ==
  ASSUME TypeOK
  PROVE  /\ IsFiniteSet(QueuedSet)
         /\ waiters = Cardinality(QueuedSet)
         /\ waiters \in Nat
         /\ waiters = 0 <=> \A t \in Workers : ~Queued(t)
<1>1. IsFiniteSet(QueuedSet)
  BY FS_Subset, NsMutexAssumption DEF QueuedSet, NsMutexAssumption
<1>2. waiters = Cardinality(QueuedSet)
  BY DEF TypeOK, QueuedSet
<1>3. Cardinality(QueuedSet) \in Nat
  BY <1>1, FS_CardinalityType
<1>4. Cardinality(QueuedSet) = 0 <=> QueuedSet = {}
  BY <1>1, FS_EmptySet
<1>5. QueuedSet = {} <=> \A t \in Workers : ~Queued(t)
  BY DEF QueuedSet
<1>. QED  BY <1>1, <1>2, <1>3, <1>4, <1>5

\* The part of IInv that is about the lock is inductive by itself.
LockInv == TypeOK /\ StateIsLock /\ OneBaton /\ Fresh

\* At the start the lock is free and nobody is queued.
LEMMA InitLock == Init => LockInv
<1>. SUFFICES ASSUME Init PROVE LockInv
  OBVIOUS
<1>1. QueuedSet = {}
  BY DEF QueuedSet, Queued, Init
<1>2. waiters = Cardinality({t \in Workers : Queued(t)})
  BY <1>1, FS_EmptySet DEF QueuedSet, Init
<1>3. TypeOK
  BY <1>2, NsMutexAssumption DEF Init, TypeOK, Points, NsMutexAssumption
<1>. QED  BY <1>3 DEF Init, LockInv, StateIsLock, OneBaton, Fresh, InState, Owner, Chosen

\* A step that neither enters nor leaves the queue keeps the count right.
LEMMA SameQueue ==
  ASSUME TypeOK, waiters' = waiters, QueuedSet' = QueuedSet
  PROVE  waiters' = Cardinality({t \in Workers : Queued(t)})'
<1>1. waiters' = Cardinality(QueuedSet)'
  BY WaitersPositive
<1>. QED  BY <1>1 DEF QueuedSet

\* What makes it a lock is inductive on its own, without the totals.
LEMMA NextLock == LockInv /\ [Next]_vars => LockInv'
<1>. SUFFICES ASSUME LockInv, [Next]_vars PROVE LockInv'
  OBVIOUS
<1>. USE NsMutexAssumption DEF NsMutexAssumption
<1>. USE DEF LockInv, Go, mutex, SemWait, SemPost
<1>q. /\ IsFiniteSet(QueuedSet)
      /\ waiters = Cardinality(QueuedSet)
      /\ waiters \in Nat
      /\ waiters = 0 <=> \A t \in Workers : ~Queued(t)
  BY WaitersPositive
<1>1. ASSUME NEW t \in Workers, Create(t) PROVE LockInv'
  <2>1. QueuedSet' = QueuedSet
    BY <1>1 DEF Create, TypeOK, QueuedSet, Queued
  <2>. QED  BY <1>1, <2>1, SameQueue DEF Create, TypeOK, Points, StateIsLock, OneBaton, Fresh,
              InState, Owner, Chosen
<1>2. ASSUME NEW t \in Workers, Loop(t) PROVE LockInv'
  <2>1. QueuedSet' = QueuedSet
    BY <1>2 DEF Loop, TypeOK, QueuedSet, Queued
  <2>. QED  BY <1>2, <2>1, SameQueue DEF Loop, TypeOK, Points, Acquiring, StateIsLock, OneBaton,
              Fresh, InState, Owner, Chosen
<1>3. ASSUME NEW t \in Workers, AcquireState(t) PROVE LockInv'
  <2>1. QueuedSet' = QueuedSet
    BY <1>3 DEF AcquireState, TypeOK, QueuedSet, Queued
  <2>. QED  BY <1>3, <2>1, SameQueue DEF AcquireState, TypeOK, Points, Acquiring, StateIsLock,
              OneBaton, Fresh, InState, Owner, Chosen
\* The fast path: nobody is queued and `locked' is 0, so nobody is chosen and
\* nobody owns the lock.
<1>4. ASSUME NEW t \in Workers, TakeFree(t) PROVE LockInv'
  <2>1. QueuedSet' = QueuedSet
    BY <1>4 DEF TakeFree, TypeOK, QueuedSet, Queued
  <2>2. TypeOK'
    BY <1>4, <2>1, SameQueue DEF TakeFree, TypeOK, Points, Critical, StateIsLock, InState
  <2>3. StateIsLock'
    BY <1>4 DEF TakeFree, TypeOK, StateIsLock, InState
  <2>4. OneBaton'
    BY <1>4 DEF TakeFree, TypeOK, OneBaton, Owner, Chosen
  <2>. QED  BY <1>4, <2>2, <2>3, <2>4 DEF TakeFree, TypeOK, Fresh
<1>5. ASSUME NEW t \in Workers, Queue(t) PROVE LockInv'
  <2>1. ~Queued(t) /\ QueuedSet' = QueuedSet \union {t}
    BY <1>5 DEF Queue, TypeOK, QueuedSet, Queued
  <2>2. waiters' = Cardinality({u \in Workers : Queued(u)})'
    BY <1>5, <1>q, <2>1, QueuedCount DEF Queue, QueuedSet
  <2>3. TypeOK'
    BY <1>5, <2>2 DEF Queue, TypeOK, Points, Acquiring, StateIsLock, InState
  <2>. QED  BY <1>5, <2>3 DEF Queue, TypeOK, StateIsLock, OneBaton, Fresh, InState, Owner, Chosen
<1>6. ASSUME NEW t \in Workers, Wake(t) PROVE LockInv'
  <2>1. QueuedSet' = QueuedSet
    BY <1>6 DEF Wake, TypeOK, QueuedSet, Queued
  <2>. QED  BY <1>6, <2>1, SameQueue DEF Wake, TypeOK, Points, Acquiring, StateIsLock, OneBaton,
              Fresh, InState, Owner, Chosen
<1>7. ASSUME NEW t \in Workers, RelockState(t) PROVE LockInv'
  <2>1. QueuedSet' = QueuedSet
    BY <1>7 DEF RelockState, TypeOK, QueuedSet, Queued
  <2>. QED  BY <1>7, <2>1, SameQueue DEF RelockState, TypeOK, Points, Acquiring, StateIsLock,
              OneBaton, Fresh, InState, Owner, Chosen
\* The chosen thread becomes the owner and leaves the count.
<1>8. ASSUME NEW t \in Workers, Finalize(t) PROVE LockInv'
  <2>1. Queued(t) /\ QueuedSet' = QueuedSet \ {t}
    BY <1>8 DEF Finalize, TypeOK, QueuedSet, Queued
  <2>2. waiters' = Cardinality({u \in Workers : Queued(u)})'
    BY <1>8, <1>q, <2>1, QueuedCount DEF Finalize, QueuedSet
  <2>3. TypeOK'
    BY <1>8, <2>2 DEF Finalize, TypeOK, Points, Critical, StateIsLock, InState
  <2>. QED  BY <1>8, <2>3 DEF Finalize, TypeOK, StateIsLock, OneBaton, Fresh, InState, Owner, Chosen
<1>9. ASSUME NEW t \in Workers, Load(t) PROVE LockInv'
  <2>1. QueuedSet' = QueuedSet
    BY <1>9 DEF Load, TypeOK, QueuedSet, Queued
  <2>. QED  BY <1>9, <2>1, SameQueue DEF Load, TypeOK, Points, Critical, StateIsLock, OneBaton,
              Fresh, InState, Owner, Chosen
\* Only one thread is an owner, so no other thread is about to store.
<1>10. ASSUME NEW t \in Workers, Store(t) PROVE LockInv'
  <2>1. QueuedSet' = QueuedSet
    BY <1>10 DEF Store, TypeOK, QueuedSet, Queued
  <2>2. shared' \in Nat
    BY <1>10 DEF Store, TypeOK
  <2>3. TypeOK'
    BY <1>10, <2>1, <2>2, SameQueue DEF Store, TypeOK, Points, Releasing
  <2>. QED  BY <1>10, <2>3 DEF Store, TypeOK, StateIsLock, OneBaton, Fresh, InState, Owner, Chosen
<1>11. ASSUME NEW t \in Workers, ReleaseState(t) PROVE LockInv'
  <2>1. QueuedSet' = QueuedSet
    BY <1>11 DEF ReleaseState, TypeOK, QueuedSet, Queued
  <2>. QED  BY <1>11, <2>1, SameQueue DEF ReleaseState, TypeOK, Points, Releasing, StateIsLock,
              OneBaton, Fresh, InState, Owner, Chosen
\* The owner gives the lock to the token of `gate'.
<1>12. ASSUME NEW t \in Workers, PassBaton(t) PROVE LockInv'
  <2>1. QueuedSet' = QueuedSet
    BY <1>12 DEF PassBaton, TypeOK, QueuedSet, Queued
  <2>2. gate = 0 /\ locked = 1
    BY <1>12 DEF PassBaton, OneBaton, Owner
  <2>3. TypeOK'
    BY <1>12, <2>1, <2>2, SameQueue DEF PassBaton, TypeOK, Points, Releasing
  <2>. QED  BY <1>12, <2>2, <2>3 DEF PassBaton, TypeOK, StateIsLock, OneBaton, Fresh, InState,
              Owner, Chosen
<1>13. ASSUME NEW t \in Workers, FreeLock(t) PROVE LockInv'
  <2>1. QueuedSet' = QueuedSet
    BY <1>13 DEF FreeLock, TypeOK, QueuedSet, Queued
  <2>2. gate = 0
    BY <1>13 DEF FreeLock, OneBaton, Owner
  <2>3. TypeOK'
    BY <1>13, <2>1, SameQueue DEF FreeLock, TypeOK, Points, Releasing
  <2>. QED  BY <1>13, <2>2, <2>3 DEF FreeLock, TypeOK, StateIsLock, OneBaton, Fresh, InState,
              Owner, Chosen
<1>14. ASSUME NEW t \in Workers, Unlock(t) PROVE LockInv'
  <2>1. QueuedSet' = QueuedSet
    BY <1>14 DEF Unlock, TypeOK, QueuedSet, Queued
  <2>2. iter' \in [Workers -> Nat]
    BY <1>14 DEF Unlock, TypeOK
  <2>3. TypeOK'
    BY <1>14, <2>1, <2>2, SameQueue DEF Unlock, TypeOK, Points, StateIsLock, InState
  <2>. QED  BY <1>14, <2>3 DEF Unlock, TypeOK, StateIsLock, OneBaton, Fresh, InState, Owner, Chosen
<1>15. CASE Join
  <2>1. QueuedSet' = QueuedSet
    BY <1>15 DEF Join, QueuedSet, Queued
  <2>. QED  BY <1>15, <2>1, SameQueue DEF Join, TypeOK, StateIsLock, OneBaton, Fresh, InState,
              Owner, Chosen
<1>16. CASE UNCHANGED vars
  <2>1. QueuedSet' = QueuedSet
    BY <1>16 DEF vars, QueuedSet, Queued
  <2>. QED  BY <1>16, <2>1, SameQueue DEF vars, TypeOK, StateIsLock, OneBaton, Fresh, InState,
              Owner, Chosen
<1>. QED
  BY <1>1, <1>2, <1>3, <1>4, <1>5, <1>6, <1>7, <1>8, <1>9, <1>10, <1>11, <1>12, <1>13, <1>14,
     <1>15, <1>16 DEF Next, Step, Exited

-----------------------------------------------------------------------------
(* The increments *)

\* A number is determined by its quotient and remainder.
LEMMA Remainder ==
  ASSUME NEW y \in Nat, NEW d \in Nat \ {0}, NEW b \in Nat, NEW q \in 0 .. d - 1, y = d * b + q
  PROVE  y % d = q
OBVIOUS

\* One more before the remainder is taken, or after.
LEMMA OneMoreRemainder ==
  ASSUME NEW x \in Nat, NEW d \in Nat \ {0}
  PROVE  ((x % d) + 1) % d = (x + 1) % d
<1>. DEFINE a == x \div d  r == x % d
<1>1. a \in Nat /\ r \in 0 .. d - 1 /\ x = d * a + r
  OBVIOUS
<1>. SUFFICES (r + 1) % d = (x + 1) % d
  OBVIOUS
<1>. HIDE DEF a, r
<1>2. CASE r + 1 < d
  <2>1. x + 1 = d * a + (r + 1) /\ r + 1 \in 0 .. d - 1
    BY <1>1, <1>2
  <2>2. r + 1 = d * 0 + (r + 1)
    BY <1>1
  <2>3. x + 1 \in Nat /\ r + 1 \in Nat
    BY <1>1
  <2>4. (x + 1) % d = r + 1 /\ (r + 1) % d = r + 1
    BY <1>1, <2>1, <2>2, <2>3, Remainder
  <2>. QED  BY <2>4
<1>3. CASE ~(r + 1 < d)
  <2>1. r + 1 = d /\ x + 1 = d * a + d
    BY <1>1, <1>3
  <2>2. d * a + d = d * (a + 1) + 0 /\ d = d * 1 + 0
    BY <1>1
  <2>3. a + 1 \in Nat /\ 0 \in 0 .. d - 1 /\ x + 1 \in Nat /\ d \in Nat
    BY <1>1
  <2>4. (x + 1) % d = 0 /\ d % d = 0
    BY <2>1, <2>2, <2>3, Remainder
  <2>. QED  BY <2>1, <2>4
<1>. QED  BY <1>2, <1>3

\* The increments are finitely many.
LEMMA IncrementsFinite ==
  ASSUME TypeOK
  PROVE  IsFiniteSet(Increments) /\ Cardinality(Increments) \in Nat
<1>1. IsFiniteSet(1 .. iters)
  BY FS_Interval DEF TypeOK, Forever
<1>2. IsFiniteSet(Workers \X (1 .. iters))
  BY <1>1, FS_Product, NsMutexAssumption DEF NsMutexAssumption
<1>3. Increments \in SUBSET (Workers \X (1 .. iters))
  BY DEF Increments
<1>. QED  BY <1>2, <1>3, FS_Subset, FS_CardinalityType

\* No worker has run and no increment is stored.
LEMMA InitTally == Init => Tally
<1>. SUFFICES ASSUME Init PROVE Tally
  OBVIOUS
<1>. USE NsMutexAssumption DEF NsMutexAssumption
<1>1. Increments = {}
  BY DEF Init, Increments, Stored, Releasing
<1>2. Cardinality(Increments) % IntRange = 0
  BY <1>1, FS_EmptySet
<1>. QED  BY <1>2 DEF Init, Tally, Acquiring, Critical, Releasing, Forever

\* A store is the only step that stores an increment.
LEMMA NextTally == LockInv /\ Tally /\ [Next]_vars => Tally'
<1>. SUFFICES ASSUME LockInv, Tally, [Next]_vars PROVE Tally'
  OBVIOUS
<1>. USE NsMutexAssumption DEF NsMutexAssumption, LockInv, TypeOK, Go
<1>. DEFINE Sum == iters # Forever \/ Workers = {} => shared = Cardinality(Increments) % IntRange
            Rest == /\ \A t \in Workers :
                         /\ pc[t] = "done" => iters # Forever /\ iter[t] = iters
                         /\ iters # Forever => iter[t] <= iters
                         /\ pc[t] \in Acquiring \union Critical \union Releasing /\ iters # Forever
                              => iter[t] < iters
                    /\ main = "exit" => \A t \in Workers : pc[t] = "done"
<1>i. \A t \in Workers : iter[t] \in Nat /\ (iters # Forever => iters \in Nat)
  OBVIOUS
<1>1. Rest'
  <2>. USE DEF Tally, Acquiring, Critical, Releasing
  <2>1. ASSUME NEW t \in Workers, Create(t) \/ Step(t), ~Unlock(t), ~Loop(t) PROVE Rest'
    BY <2>1, <1>i DEF Create, Step, AcquireState, TakeFree, Queue, Wake, RelockState, Finalize,
       Load, Store, ReleaseState, PassBaton, FreeLock
  <2>2. ASSUME NEW t \in Workers, Unlock(t) PROVE Rest'
    BY <2>2, <1>i DEF Unlock
  <2>3. ASSUME NEW t \in Workers, Loop(t) PROVE Rest'
    BY <2>3, <1>i DEF Loop
  <2>4. CASE Join \/ UNCHANGED vars
    BY <2>4 DEF Join, vars
  <2>. QED  BY <2>1, <2>2, <2>3, <2>4 DEF Next, Exited
<1>2. Sum'
  <2>1. ASSUME UNCHANGED <<iters, shared>>, \A t \in Workers : iters # Forever => Stored(t)' = Stored(t)
        PROVE  Sum'
    <3>1. iters # Forever \/ Workers = {} => Increments' = Increments
      BY <2>1 DEF Increments
    <3>. QED  BY <2>1, <3>1 DEF Tally
  <2>2. ASSUME NEW t \in Workers, Create(t) \/ Step(t), ~Store(t) PROVE Sum'
    <3>1. UNCHANGED <<iters, shared>>
      BY <2>2 DEF Create, Step, Loop, AcquireState, TakeFree, Queue, Wake, RelockState, Finalize,
         Load, ReleaseState, PassBaton, FreeLock, Unlock
    <3>2. \A u \in Workers : iters # Forever => Stored(u)' = Stored(u)
      BY <2>2 DEF Create, Step, Loop, AcquireState, TakeFree, Queue, Wake, RelockState, Finalize,
         Load, ReleaseState, PassBaton, FreeLock, Unlock, Stored, Releasing
    <3>. QED  BY <2>1, <3>1, <3>2
  <2>3. ASSUME NEW t \in Workers, Store(t), iters # Forever PROVE Sum'
    <3>. DEFINE k == iter[t] + 1
                c == Cardinality(Increments)
    <3>1. /\ UNCHANGED iters /\ Stored(t) = k - 1 /\ Stored(t)' = k
          /\ \A u \in Workers \ {t} : Stored(u)' = Stored(u)
      BY <2>3 DEF Store, Stored, Releasing
    <3>2. k \in 1 .. iters
      BY <1>i, <2>3 DEF Store, Tally, Critical
    <3>3. /\ Increments' = Increments \union {<<t, k>>}
          /\ <<t, k>> \notin Increments
      <4>1. <<t, k>> \notin Increments
        BY <3>1, <3>2 DEF Increments
      <4>2. ASSUME NEW r \in Workers \X (1 .. iters)
            PROVE  r[2] <= Stored(r[1])' <=> r[2] <= Stored(r[1]) \/ r = <<t, k>>
        <5>1. CASE r[1] # t
          BY <3>1, <5>1
        <5>2. CASE r[1] = t
          BY <3>1, <3>2, <5>2
        <5>. QED  BY <5>1, <5>2
      <4>. QED  BY <3>1, <3>2, <4>1, <4>2 DEF Increments
    <3>4. Cardinality(Increments') = c + 1 /\ c \in Nat
      BY <3>3, IncrementsFinite, FS_AddElement
    <3>5. shared' = ((c % IntRange) + 1) % IntRange
      BY <2>3 DEF Store, Fresh, Tally
    <3>. QED  BY <3>4, <3>5, OneMoreRemainder
  <2>4. CASE Join \/ UNCHANGED vars
    <3>1. UNCHANGED <<iters, shared>> /\ \A t \in Workers : Stored(t)' = Stored(t)
      BY <2>4 DEF Join, vars, Stored
    <3>. QED  BY <2>1, <3>1
  <2>5. ASSUME NEW t \in Workers, Store(t), iters = Forever PROVE Sum'
    BY <2>5 DEF Store
  <2>. QED  BY <2>2, <2>3, <2>4, <2>5 DEF Next, Exited
<1>. QED  BY <1>1, <1>2 DEF Tally

-----------------------------------------------------------------------------

\* Every state of every run satisfies the inductive invariant: the semaphore
\* `state' is a lock, the lock of the mutex is in one place, and `waiters' is
\* the number of threads queued on `gate'.
THEOREM Invariance == Spec => []IInv
<1>1. Init => IInv
  BY InitLock, InitTally DEF IInv, LockInv
<1>2. IInv /\ [Next]_vars => IInv'
  BY NextLock, NextTally DEF IInv, LockInv
<1>. QED  BY <1>1, <1>2, PTL DEF Spec

\* Two workers are never in the critical section that ns_mutex_acquire and
\* ns_mutex_release enclose, however many workers there are.
THEOREM Exclusion == Spec => []MutualExclusion
<1>1. IInv => MutualExclusion
  BY DEF IInv, OneBaton, MutualExclusion, Critical, Owner
<1>. QED  BY <1>1, Invariance, PTL

\* ns_mutex_acquire lets nobody overtake a queued thread: the fast path needs
\* `waiters' to be zero, and `waiters' is zero only when nobody is queued.
THEOREM Handover == Spec => NoBarging
<1>1. IInv /\ [Next]_vars =>
        [\A t, u \in Workers : Queued(u) /\ Owner(t)' /\ ~Owner(t) => Queued(t)]_vars
  <2>. SUFFICES ASSUME IInv, Next, NEW t \in Workers, NEW u \in Workers,
                       Queued(u), Owner(t)', ~Owner(t)
                PROVE  Queued(t)
    OBVIOUS
  <2>1. waiters # 0
    BY WaitersPositive DEF IInv
  <2>2. TypeOK
    BY DEF IInv
  <2>3. CASE Join \/ Exited
    BY <2>3 DEF Join, Exited, vars, Owner
  <2>4. ASSUME NEW v \in Workers, Create(v) \/ Step(v) PROVE Queued(t)
    <3>1. pc' = [pc EXCEPT ![v] = pc'[v]]
      BY <2>2, <2>4 DEF TypeOK, Create, Step, Go, Loop, AcquireState, TakeFree, Queue, Wake,
           RelockState, Finalize, Load, Store, ReleaseState, PassBaton, FreeLock, Unlock
    <3>2. v = t
      BY <2>2, <3>1 DEF TypeOK, Owner
    <3>. QED
      BY <2>1, <2>2, <2>4, <3>2 DEF TypeOK, Create, Step, Go, Loop, AcquireState, TakeFree, Queue,
           Wake, RelockState, Finalize, Load, Store, ReleaseState, PassBaton, FreeLock, Unlock,
           Owner, Queued
  <2>. QED  BY <2>3, <2>4 DEF Next
<1>. QED  BY <1>1, Invariance, PTL DEF Spec, NoBarging

\* No increment is lost: what main prints as the final value is what it prints
\* as the expected one, the number of threads times their iterations.
THEOREM NothingLost == Spec => []ExpectedTotal
<1>1. ASSUME IInv, main = "exit"
      PROVE  shared = (Cardinality(Workers) * iters) % IntRange
  <2>. USE NsMutexAssumption DEF NsMutexAssumption
  <2>1. \A t \in Workers : pc[t] = "done" /\ iters # Forever /\ iter[t] = iters
    BY <1>1 DEF IInv, Tally
  <2>2. shared = Cardinality(Increments) % IntRange
    BY <1>1, <2>1 DEF IInv, Tally
  <2>3. CASE Workers = {}
    <3>1. Increments = {} /\ Cardinality(Workers) = 0 /\ Cardinality({}) = 0
      BY <2>3, FS_EmptySet DEF Increments
    <3>2. 0 * iters = 0
      BY <1>1 DEF IInv, TypeOK, Forever
    <3>. QED  BY <2>2, <3>1, <3>2
  <2>4. CASE Workers # {}
    <3>1. iters \in Nat
      BY <1>1, <2>1, <2>4 DEF IInv, TypeOK
    <3>2. Increments = Workers \X (1 .. iters)
      BY <2>1, <3>1 DEF Increments, Stored, Releasing
    <3>3. IsFiniteSet(1 .. iters) /\ Cardinality(1 .. iters) = iters
      BY <3>1, FS_Interval
    <3>4. Cardinality(Increments) = Cardinality(Workers) * iters
      BY <3>2, <3>3, FS_Product
    <3>. QED  BY <2>2, <3>4
  <2>. QED  BY <2>3, <2>4
<1>2. IInv => ExpectedTotal
  BY <1>1 DEF ExpectedTotal
<1>. QED  BY <1>2, Invariance, PTL
=============================================================================
