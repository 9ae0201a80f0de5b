---------------------- MODULE ReaderWriterLocksProofs ----------------------
(***************************************************************************)
(* Proofs about the two reader-writer locks of chapter 31, for any number  *)
(* of readers and writers: for each the inductive invariant and the        *)
(* refinement of the abstract lock, and that no write is lost.             *)
(*                                                                         *)
(* First ReaderWriterNoStarve, with the turnstile's promise that nobody    *)
(* overtakes a waiting writer; then ReaderWriter, an instance that shares  *)
(* the threads, the client and the count of readers and has semaphores of  *)
(* its own.  In each the first lock confines the count to one reader at a  *)
(* time; the count is the number of readers counted in, so the reader that *)
(* finds it zero is the first and the one that brings it to zero the last; *)
(* hence the writers' semaphore changes hands only between the two sides.  *)
(***************************************************************************)
EXTENDS ReaderWriterNoStarve, FiniteSetTheorems, TLAPS

CountedSet == {r \in Readers : Counted(r)}

\* How the number of counted readers changes with the set.
LEMMA CountChange ==
  ASSUME NEW r \in Readers, IsFiniteSet(CountedSet)
  PROVE  /\ ~Counted(r) /\ CountedSet' = CountedSet \union {r}
              => Cardinality(CountedSet') = Cardinality(CountedSet) + 1
         /\ Counted(r) /\ CountedSet' = CountedSet \ {r}
              => Cardinality(CountedSet') = Cardinality(CountedSet) - 1
<1>1. /\ r \notin CountedSet => Cardinality(CountedSet \union {r}) = Cardinality(CountedSet) + 1
      /\ r \in CountedSet => Cardinality(CountedSet \ {r}) = Cardinality(CountedSet) - 1
  BY FS_AddElement, FS_RemoveElement
<1>2. r \in CountedSet <=> Counted(r)
  BY DEF CountedSet
<1>. QED  BY <1>1, <1>2

\* What readers = 0 and readers = 1 say about who is counted.
LEMMA CountMeaning ==
  ASSUME TypeOK
  PROVE  /\ IsFiniteSet(CountedSet)
         /\ readers = Cardinality(CountedSet)
         /\ readers \in Nat
         /\ readers = 0 <=> \A r \in Readers : ~Counted(r)
         /\ \A r, q \in Readers : readers = 1 /\ Counted(r) /\ Counted(q) => r = q
<1>1. IsFiniteSet(CountedSet)
  BY FS_Subset, RWClientAssumption DEF CountedSet, RWClientAssumption
<1>2. readers = Cardinality(CountedSet)
  BY DEF TypeOK, CountedSet
<1>3. Cardinality(CountedSet) \in Nat
  BY <1>1, FS_CardinalityType
<1>4. Cardinality(CountedSet) = 0 <=> CountedSet = {}
  BY <1>1, FS_EmptySet
<1>5. Cardinality(CountedSet) = 1 <=> \E x : CountedSet = {x}
  BY <1>1, FS_Singleton
<1>6. \A r \in Readers : r \in CountedSet <=> Counted(r)
  BY DEF CountedSet
<1>7. CountedSet \subseteq Readers
  BY DEF CountedSet
<1>. QED  BY <1>1, <1>2, <1>3, <1>4, <1>5, <1>6, <1>7

\* A step that neither counts a reader in nor out keeps the count right.
LEMMA SameCount ==
  ASSUME TypeOK, readers' = readers, CountedSet' = CountedSet
  PROVE  readers' = Cardinality({r \in Readers : Counted(r)})'
<1>1. readers' = Cardinality(CountedSet)'
  BY CountMeaning
<1>. QED  BY <1>1 DEF CountedSet

\* The part of IInv that is about the lock is inductive by itself.
LockInv == TypeOK /\ LocksAreLocks /\ OneSide /\ StableView

\* At the start all three semaphores are free and nobody is counted.
LEMMA InitLock == Init => LockInv
<1>. SUFFICES ASSUME Init PROVE LockInv
  OBVIOUS
<1>. USE RWClientAssumption DEF RWClientAssumption
<1>1. CountedSet = {}
  BY DEF CountedSet, Counted, Init, ClientInit, Threads
<1>2. readers = Cardinality({r \in Readers : Counted(r)})
  BY <1>1, FS_EmptySet DEF CountedSet, Init
<1>3. TypeOK
  BY <1>2 DEF Init, ClientInit, TypeOK, Points, Threads
<1>. QED
  BY <1>3 DEF Init, ClientInit, LockInv, LocksAreLocks, OneSide, StableView, AtCount,
     AtTurn, Sharing, Writing, Counted, Threads

\* The steps a thread takes outside the lock's own code.
LEMMA WorkLock ==
  ASSUME LockInv, NEW t \in Threads, Work(t) \/ Create(t), UNCHANGED lockVars
  PROVE  LockInv'
<1>. USE RWClientAssumption DEF RWClientAssumption, LockInv, Go, lockVars, Threads
<1>0. CountedSet' = CountedSet
  BY DEF Work, Create, Loop, Read, Load, Store, Show, TypeOK, CountedSet, Counted
<1>1. readers' = Cardinality({r \in Readers : Counted(r)})'
  BY <1>0, SameCount
<1>2. CASE Create(t)
  BY <1>1, <1>2 DEF Create, TypeOK, Points, LocksAreLocks, OneSide, StableView, AtCount, AtTurn,
     Sharing, Writing, Counted
<1>3. CASE Loop(t)
  <2>1. iter' \in [Threads -> Nat]
    BY <1>3 DEF Loop, TypeOK
  <2>2. \A u \in Threads : pc'[u] # pc[u] => pc[u] = "loop" /\ pc'[u] \in {"acquire", "done"}
    BY <1>3 DEF Loop, TypeOK
  <2>3. pc' \in [Threads -> Points]
    BY <1>3 DEF Loop, TypeOK, Points
  <2>4. TypeOK'
    BY <1>1, <1>3, <2>1, <2>2, <2>3 DEF Loop, TypeOK, Points
  <2>. QED
    BY <1>3, <2>2, <2>4 DEF Loop, LocksAreLocks, OneSide, StableView, AtCount, AtTurn,
       Sharing, Writing, Counted
<1>4. CASE t \in Readers /\ Read(t)
  BY <1>1, <1>4 DEF Read, TypeOK, Points, LocksAreLocks, OneSide, StableView, AtCount, AtTurn,
     Sharing, Writing, Counted
<1>5. CASE t \in Writers /\ Load(t)
  BY <1>1, <1>5 DEF Load, TypeOK, Points, LocksAreLocks, OneSide, StableView, AtCount, AtTurn,
     Sharing, Writing, Counted
\* Nobody else is inside, so nobody else has a view of value to spoil.
<1>6. CASE t \in Writers /\ Store(t)
  <2>1. value' \in Nat
    BY <1>6 DEF Store, TypeOK
  <2>2. TypeOK'
    BY <1>1, <1>6, <2>1 DEF Store, TypeOK, Points
  <2>3. \A u \in Threads : u # t => pc[u] \notin {"store", "print", "release"}
    BY <1>6 DEF Store, TypeOK, OneSide, LocksAreLocks, AtTurn, Writing, Sharing
  <2>. QED
    BY <1>6, <2>2, <2>3 DEF Store, TypeOK, LocksAreLocks, OneSide, StableView, AtCount, AtTurn,
       Sharing, Writing, Counted
<1>7. CASE t \in Writers /\ Show(t)
  BY <1>1, <1>7 DEF Show, TypeOK, Points, LocksAreLocks, OneSide, StableView, AtCount, AtTurn,
     Sharing, Writing, Counted
<1>. QED  BY <1>2, <1>3, <1>4, <1>5, <1>6, <1>7 DEF Work

\* A reader on its way in keeps the lock's invariant.
LEMMA ReaderIn ==
  ASSUME LockInv, NEW r \in Readers,
         TakeTurn(r) \/ AcquireCount(r) \/ FirstReader(r) \/ BlockWriters(r) \/ Enter(r)
           \/ JoinReaders(r) \/ PassTurn(r)
  PROVE  LockInv'
<1>. USE RWClientAssumption DEF RWClientAssumption, LockInv, Go, Quiet, Threads, SemWait, SemPost
<1>q. /\ IsFiniteSet(CountedSet)
      /\ readers = Cardinality(CountedSet)
      /\ readers \in Nat
      /\ readers = 0 <=> \A q \in Readers : ~Counted(q)
  BY CountMeaning
<1>1. CASE TakeTurn(r)
  <2>1. CountedSet' = CountedSet
    BY <1>1 DEF TakeTurn, TypeOK, CountedSet, Counted
  <2>2. TypeOK'
    BY <1>1, <2>1, SameCount DEF TakeTurn, TypeOK, Points
  <2>. QED
    BY <1>1, <2>2 DEF TakeTurn, TypeOK, LocksAreLocks, OneSide, StableView, AtCount, AtTurn,
       Sharing, Writing, Counted
<1>2. CASE AcquireCount(r)
  <2>1. CountedSet' = CountedSet
    BY <1>2 DEF AcquireCount, TypeOK, CountedSet, Counted
  <2>2. TypeOK'
    BY <1>2, <2>1, SameCount DEF AcquireCount, TypeOK, Points
  <2>. QED
    BY <1>2, <2>2 DEF AcquireCount, TypeOK, LocksAreLocks, OneSide, StableView, AtCount, AtTurn,
       Sharing, Writing, Counted
<1>3. CASE FirstReader(r)
  <2>1. ~Counted(r) /\ CountedSet' = CountedSet \union {r}
    BY <1>3 DEF FirstReader, TypeOK, CountedSet, Counted
  <2>2. readers' = Cardinality({q \in Readers : Counted(q)})'
    BY <1>3, <1>q, <2>1, CountChange DEF FirstReader, CountedSet
  <2>3. TypeOK'
    BY <1>3, <2>2 DEF FirstReader, TypeOK, Points
  <2>4. \A q \in Readers : ~Counted(q)
    BY <1>3, <1>q DEF FirstReader
  <2>. QED
    BY <1>3, <2>3, <2>4 DEF FirstReader, TypeOK, LocksAreLocks, OneSide, StableView, AtCount,
       AtTurn, Sharing, Writing, Counted
<1>4. CASE BlockWriters(r)
  <2>1. CountedSet' = CountedSet
    BY <1>4 DEF BlockWriters, TypeOK, CountedSet, Counted
  <2>2. Writing = {}
    BY <1>4 DEF BlockWriters, OneSide
  <2>3. TypeOK'
    BY <1>4, <2>1, SameCount DEF BlockWriters, TypeOK, Points
  <2>. QED
    BY <1>4, <2>2, <2>3 DEF BlockWriters, TypeOK, LocksAreLocks, OneSide, StableView, AtCount,
       AtTurn, Sharing, Writing, Counted
<1>5. CASE Enter(r)
  <2>1. CountedSet' = CountedSet
    BY <1>5 DEF Enter, TypeOK, CountedSet, Counted
  <2>2. TypeOK'
    BY <1>5, <2>1, SameCount DEF Enter, TypeOK, Points, LocksAreLocks, AtCount
  <2>. QED
    BY <1>5, <2>2 DEF Enter, TypeOK, LocksAreLocks, OneSide, StableView, AtCount, AtTurn, Sharing,
       Writing, Counted
\* A reader that finds others counted shares the rw they hold.
<1>6. CASE JoinReaders(r)
  <2>1. ~Counted(r) /\ CountedSet' = CountedSet \union {r}
    BY <1>6 DEF JoinReaders, TypeOK, CountedSet, Counted
  <2>2. readers' = Cardinality({q \in Readers : Counted(q)})'
    BY <1>6, <1>q, <2>1, CountChange DEF JoinReaders, CountedSet
  <2>3. TypeOK'
    BY <1>6, <2>2 DEF JoinReaders, TypeOK, Points, LocksAreLocks, AtCount
  <2>4. PICK q \in Readers : Counted(q)
    BY <1>6, <1>q DEF JoinReaders
  <2>5. \A p \in Readers : pc[p] # "first"
    BY <1>6 DEF JoinReaders, LocksAreLocks, AtCount
  <2>6. rw = 0 /\ Writing = {}
    BY <2>4, <2>5 DEF OneSide, Counted, Sharing
  <2>. QED
    BY <1>6, <2>3, <2>5, <2>6 DEF JoinReaders, TypeOK, LocksAreLocks, OneSide, StableView, AtCount,
       AtTurn, Sharing, Writing, Counted
<1>7. CASE PassTurn(r)
  <2>1. CountedSet' = CountedSet
    BY <1>7 DEF PassTurn, TypeOK, CountedSet, Counted
  <2>2. w' = 1
    BY <1>7 DEF PassTurn, LocksAreLocks, AtTurn
  <2>3. TypeOK'
    BY <1>7, <2>1, <2>2, SameCount DEF PassTurn, TypeOK, Points
  <2>. QED
    BY <1>7, <2>3 DEF PassTurn, TypeOK, LocksAreLocks, OneSide, StableView, AtCount, AtTurn,
       Sharing, Writing, Counted
<1>. QED  BY <1>1, <1>2, <1>3, <1>4, <1>5, <1>6, <1>7

\* A reader on its way out keeps the lock's invariant.
LEMMA ReaderOut ==
  ASSUME LockInv, NEW r \in Readers, ReleaseRead(r) \/ LeaveLast(r) \/ LeaveOthers(r) \/ Unlock(r)
  PROVE  LockInv'
<1>. USE RWClientAssumption DEF RWClientAssumption, LockInv, Go, Quiet, Threads, SemWait, SemPost
<1>q. /\ IsFiniteSet(CountedSet)
      /\ readers = Cardinality(CountedSet)
      /\ readers \in Nat
      /\ \A p, q \in Readers : readers = 1 /\ Counted(p) /\ Counted(q) => p = q
  BY CountMeaning
<1>1. CASE ReleaseRead(r)
  <2>1. CountedSet' = CountedSet
    BY <1>1 DEF ReleaseRead, TypeOK, CountedSet, Counted
  <2>2. TypeOK'
    BY <1>1, <2>1, SameCount DEF ReleaseRead, TypeOK, Points
  <2>. QED
    BY <1>1, <2>2 DEF ReleaseRead, TypeOK, LocksAreLocks, OneSide, StableView, AtCount, AtTurn,
       Sharing, Writing, Counted
\* The last reader is the only one counted, so nobody shares the rw it gives
\* back.
<1>2. CASE LeaveLast(r)
  <2>1. Counted(r) /\ CountedSet' = CountedSet \ {r}
    BY <1>2 DEF LeaveLast, TypeOK, CountedSet, Counted
  <2>2. readers' = Cardinality({q \in Readers : Counted(q)})'
    BY <1>2, <1>q, <2>1, CountChange DEF LeaveLast, CountedSet
  <2>3. readers = 1
    BY <1>2, <1>q DEF LeaveLast
  <2>4. \A q \in Readers : Counted(q) => q = r
    BY <1>q, <2>1, <2>3
  <2>5. rw = 0 /\ Writing = {}
    BY <1>2 DEF LeaveLast, OneSide, Sharing
  <2>6. TypeOK'
    BY <1>2, <2>2, <2>5 DEF LeaveLast, TypeOK, Points
  <2>. QED
    BY <1>2, <2>4, <2>5, <2>6 DEF LeaveLast, TypeOK, LocksAreLocks, OneSide, StableView, AtCount,
       AtTurn, Sharing, Writing, Counted
<1>3. CASE LeaveOthers(r)
  <2>1. Counted(r) /\ CountedSet' = CountedSet \ {r}
    BY <1>3 DEF LeaveOthers, TypeOK, CountedSet, Counted
  <2>2. readers' = Cardinality({q \in Readers : Counted(q)})'
    BY <1>3, <1>q, <2>1, CountChange DEF LeaveOthers, CountedSet
  <2>3. TypeOK'
    BY <1>3, <2>2 DEF LeaveOthers, TypeOK, Points
  <2>. QED
    BY <1>3, <2>3 DEF LeaveOthers, TypeOK, LocksAreLocks, OneSide, StableView, AtCount, AtTurn,
       Sharing, Writing, Counted
<1>4. CASE Unlock(r)
  <2>1. CountedSet' = CountedSet
    BY <1>4 DEF Unlock, TypeOK, CountedSet, Counted
  <2>2. mutex' = 1
    BY <1>4 DEF Unlock, LocksAreLocks, AtCount
  <2>3. TypeOK'
    BY <1>4, <2>1, <2>2, SameCount DEF Unlock, TypeOK, Points
  <2>. QED
    BY <1>4, <2>2, <2>3 DEF Unlock, TypeOK, LocksAreLocks, OneSide, StableView, AtCount, AtTurn,
       Sharing, Writing, Counted
<1>. QED  BY <1>1, <1>2, <1>3, <1>4

\* A writer's steps on the semaphores keep the lock's invariant.
LEMMA WriterLockInv ==
  ASSUME LockInv, NEW x \in Writers, WriterLock(x)
  PROVE  LockInv'
<1>. USE RWClientAssumption DEF RWClientAssumption, LockInv, Go, Quiet, Threads, SemWait, SemPost
<1>0. CountedSet' = CountedSet /\ readers' = readers
  BY DEF WriterLock, WriterTurn, WaitDrained, ReleaseWrite, TurnBack, TypeOK, CountedSet, Counted
<1>1. readers' = Cardinality({r \in Readers : Counted(r)})'
  BY <1>0, SameCount
<1>2. CASE WriterTurn(x)
  <2>1. TypeOK'
    BY <1>1, <1>2 DEF WriterTurn, TypeOK, Points
  <2>. QED
    BY <1>2, <2>1 DEF WriterTurn, TypeOK, LocksAreLocks, OneSide, StableView, AtCount, AtTurn,
       Sharing, Writing, Counted
<1>3. CASE WaitDrained(x)
  <2>1. TypeOK'
    BY <1>1, <1>3 DEF WaitDrained, TypeOK, Points
  <2>2. \A r \in Readers : ~Sharing(r)
    BY <1>3 DEF WaitDrained, OneSide
  <2>. QED
    BY <1>3, <2>1, <2>2 DEF WaitDrained, TypeOK, LocksAreLocks, OneSide, StableView, AtCount,
       AtTurn, Sharing, Writing, Counted
<1>4. CASE ReleaseWrite(x)
  <2>1. rw = 0 /\ AtTurn(x)
    BY <1>4 DEF ReleaseWrite, OneSide, Writing, AtTurn
  <2>2. Writing = {x}
    BY <1>4, <2>1 DEF ReleaseWrite, LocksAreLocks, Writing, AtTurn
  <2>3. TypeOK'
    BY <1>1, <1>4, <2>1 DEF ReleaseWrite, TypeOK, Points
  <2>. QED
    BY <1>4, <2>1, <2>2, <2>3 DEF ReleaseWrite, TypeOK, LocksAreLocks, OneSide, StableView,
       AtCount, AtTurn, Sharing, Writing, Counted
<1>5. CASE TurnBack(x)
  <2>1. w = 0
    BY <1>5 DEF TurnBack, LocksAreLocks, AtTurn
  <2>2. TypeOK'
    BY <1>1, <1>5, <2>1 DEF TurnBack, TypeOK, Points
  <2>. QED
    BY <1>5, <2>1, <2>2 DEF TurnBack, TypeOK, LocksAreLocks, OneSide, StableView, AtCount, AtTurn,
       Sharing, Writing, Counted
<1>. QED  BY <1>2, <1>3, <1>4, <1>5 DEF WriterLock

\* What makes it a lock is inductive on its own, without the totals.
LEMMA NextLock == LockInv /\ [Next]_vars => LockInv'
<1>. SUFFICES ASSUME LockInv, [Next]_vars PROVE LockInv'
  OBVIOUS
<1>1. ASSUME NEW t \in Threads, Started(t) PROVE LockInv'
  BY <1>1, WorkLock DEF Started
<1>2. ASSUME NEW t \in Threads, Step(t) PROVE LockInv'
  BY <1>2, WorkLock, ReaderIn, ReaderOut, WriterLockInv DEF Step, ReaderLock
<1>3. CASE Joined \/ UNCHANGED vars
  <2>1. CountedSet' = CountedSet /\ readers' = readers
    BY <1>3 DEF Joined, Join, vars, lockVars, clientVars, CountedSet, Counted
  <2>2. readers' = Cardinality({r \in Readers : Counted(r)})'
    BY <2>1, SameCount DEF LockInv
  <2>. QED
    BY <1>3, <2>2 DEF Joined, Join, vars, lockVars, clientVars, LockInv, TypeOK, LocksAreLocks,
       OneSide, StableView, AtCount, AtTurn,
       Sharing, Writing, Counted
<1>. QED  BY <1>1, <1>2, <1>3 DEF Next, Exited

-----------------------------------------------------------------------------
(* The increments *)

\* A number is determined by its quotient and remainder.
LEMMA Remainder ==
  ASSUME NEW y \in Nat, NEW d \in Nat \ {0}, NEW b \in Nat, NEW q \in 0 .. d - 1, y = d * b + q
  PROVE  y % d = q
OBVIOUS

\* One more before the remainder is taken, or after.
LEMMA OneMoreRemainder ==
  ASSUME NEW x \in Nat, NEW d \in Nat \ {0}
  PROVE  ((x % d) + 1) % d = (x + 1) % d
<1>. DEFINE a == x \div d  r == x % d
<1>1. a \in Nat /\ r \in 0 .. d - 1 /\ x = d * a + r
  OBVIOUS
<1>. SUFFICES (r + 1) % d = (x + 1) % d
  OBVIOUS
<1>. HIDE DEF a, r
<1>2. CASE r + 1 < d
  <2>1. x + 1 = d * a + (r + 1) /\ r + 1 \in 0 .. d - 1
    BY <1>1, <1>2
  <2>2. r + 1 = d * 0 + (r + 1)
    BY <1>1
  <2>3. x + 1 \in Nat /\ r + 1 \in Nat
    BY <1>1
  <2>4. (x + 1) % d = r + 1 /\ (r + 1) % d = r + 1
    BY <1>1, <2>1, <2>2, <2>3, Remainder
  <2>. QED  BY <2>4
<1>3. CASE ~(r + 1 < d)
  <2>1. r + 1 = d /\ x + 1 = d * a + d
    BY <1>1, <1>3
  <2>2. d * a + d = d * (a + 1) + 0 /\ d = d * 1 + 0
    BY <1>1
  <2>3. a + 1 \in Nat /\ 0 \in 0 .. d - 1 /\ x + 1 \in Nat /\ d \in Nat
    BY <1>1
  <2>4. (x + 1) % d = 0 /\ d % d = 0
    BY <2>1, <2>2, <2>3, Remainder
  <2>. QED  BY <2>1, <2>4
<1>. QED  BY <1>2, <1>3

\* The increments are finitely many.
LEMMA IncrementsFinite ==
  ASSUME TypeOK
  PROVE  IsFiniteSet(Increments) /\ Cardinality(Increments) \in Nat
<1>. USE RWClientAssumption DEF RWClientAssumption
<1>1. IsFiniteSet(1 .. loops)
  BY FS_Interval DEF TypeOK, Forever
<1>2. IsFiniteSet(Writers \X (1 .. loops))
  BY <1>1, FS_Product
<1>3. Increments \in SUBSET (Writers \X (1 .. loops))
  BY DEF Increments
<1>. QED  BY <1>2, <1>3, FS_Subset, FS_CardinalityType

\* No writer has run and no increment is stored.
LEMMA InitTally == Init => Tally
<1>. SUFFICES ASSUME Init PROVE Tally
  OBVIOUS
<1>. USE RWClientAssumption DEF RWClientAssumption, Init, ClientInit, Threads
<1>1. Increments = {}
  BY DEF Increments, Stored
<1>2. Cardinality(Increments) % IntRange = 0
  BY <1>1, FS_EmptySet
<1>. QED  BY <1>2 DEF Tally, Forever

\* The semaphore operations of the lock touch nothing the writers count.
LEMMA LockStep ==
  ASSUME LockInv, NEW t \in Threads, (t \in Readers /\ ReaderLock(t)) \/ (t \in Writers /\ WriterLock(t))
  PROVE  /\ UNCHANGED <<loops, iter, value, main>>
         /\ pc[t] \notin {"done", "loop", "new"} /\ pc'[t] # "done"
         /\ \A u \in Threads \ {t} : pc'[u] = pc[u]
         /\ pc'[t] \in {"acquire", "wait", "load", "store"} =>
              pc[t] \in {"acquire", "wait", "load", "store"}
         /\ t \in Writers /\ pc[t] \in {"acquire", "wait", "load", "store"} =>
              pc'[t] \in {"acquire", "wait", "load", "store"}
<1>. USE RWClientAssumption DEF RWClientAssumption, LockInv, TypeOK, Go, Quiet, Threads
<1>1. CASE t \in Readers /\ ReaderLock(t)
  BY <1>1 DEF ReaderLock, TakeTurn, AcquireCount, FirstReader, BlockWriters, Enter,
     JoinReaders, PassTurn, ReleaseRead, LeaveLast, LeaveOthers, Unlock
<1>2. CASE t \in Writers /\ WriterLock(t)
  BY <1>2 DEF WriterLock, WriterTurn, WaitDrained, ReleaseWrite, TurnBack
<1>. QED  BY <1>1, <1>2

\* What a step of the program is, one action of one thread at a time.
LEMMA Steps ==
  ASSUME [Next]_vars
  PROVE  \/ \E t \in Threads :
              \/ Create(t) \/ Loop(t) \/ (t \in Readers /\ Read(t))
              \/ t \in Writers /\ (Load(t) \/ Store(t) \/ Show(t))
              \/ (t \in Readers /\ ReaderLock(t)) \/ (t \in Writers /\ WriterLock(t))
         \/ Join \/ UNCHANGED vars
<1>1. ASSUME NEW t \in Threads, Started(t) \/ Step(t)
      PROVE  \/ Create(t) \/ Loop(t) \/ (t \in Readers /\ Read(t))
             \/ t \in Writers /\ (Load(t) \/ Store(t) \/ Show(t))
             \/ (t \in Readers /\ ReaderLock(t)) \/ (t \in Writers /\ WriterLock(t))
  BY <1>1 DEF Started, Step, Work
<1>. QED  BY <1>1, Zenon DEF Next, Joined, Exited

\* A store is the only step that stores an increment.
LEMMA NextTally == LockInv /\ Tally /\ [Next]_vars => Tally'
<1>. SUFFICES ASSUME LockInv, Tally, [Next]_vars PROVE Tally'
  OBVIOUS
<1>. USE RWClientAssumption DEF RWClientAssumption, LockInv, TypeOK, Go, Threads
<1>. DEFINE Sum == loops # Forever \/ Writers = {} => value = Cardinality(Increments) % IntRange
            Rest == /\ \A t \in Threads :
                         /\ pc[t] = "done" => loops # Forever /\ iter[t] = loops
                         /\ loops # Forever => iter[t] <= loops
                         /\ pc[t] \in {"acquire", "wait", "load", "store"} /\ loops # Forever
                              => 1 <= iter[t]
                    /\ main = "exit" => \A t \in Threads : pc[t] = "done"
<1>i. \A t \in Threads : iter[t] \in Nat /\ (loops # Forever => loops \in Nat)
  OBVIOUS
<1>1. Rest'
  <2>. USE DEF Tally
  <2>1. ASSUME NEW t \in Threads, Create(t) \/ Read(t) \/ Load(t) \/ Store(t) \/ Show(t) PROVE Rest'
    BY <2>1, <1>i DEF Create, Read, Load, Store, Show
  <2>2. ASSUME NEW t \in Threads, Loop(t) PROVE Rest'
    BY <2>2, <1>i DEF Loop, Forever
  <2>3. ASSUME NEW t \in Threads,
               (t \in Readers /\ ReaderLock(t)) \/ (t \in Writers /\ WriterLock(t))
        PROVE  Rest'
    BY <2>3, <1>i, LockStep
  <2>4. CASE Join \/ UNCHANGED vars
    BY <2>4 DEF Join, vars, clientVars
  <2>. HIDE DEF Rest
  <2>. QED  BY Steps, <2>1, <2>2, <2>3, <2>4, Zenon
<1>2. Sum'
  <2>1. ASSUME UNCHANGED <<loops, value>>, \A x \in Writers : loops # Forever => Stored(x)' = Stored(x)
        PROVE  Sum'
    <3>1. loops # Forever \/ Writers = {} => Increments' = Increments
      BY <2>1 DEF Increments
    <3>. QED  BY <2>1, <3>1 DEF Tally
  <2>2. ASSUME NEW t \in Threads,
               \/ Create(t) \/ Loop(t) \/ (t \in Readers /\ Read(t))
               \/ t \in Writers /\ (Load(t) \/ Show(t))
        PROVE  Sum'
    <3>1. UNCHANGED <<loops, value>> /\ \A x \in Writers : loops # Forever => Stored(x)' = Stored(x)
      BY <2>2, <1>i DEF Create, Loop, Read, Load, Show, Stored, Tally
    <3>. QED  BY <2>1, <3>1
  <2>3. ASSUME NEW t \in Threads,
               (t \in Readers /\ ReaderLock(t)) \/ (t \in Writers /\ WriterLock(t))
        PROVE  Sum'
    <3>1. UNCHANGED <<loops, value>> /\ \A x \in Writers : Stored(x)' = Stored(x)
      BY <2>3, LockStep DEF Stored
    <3>. QED  BY <2>1, <3>1
  <2>4. ASSUME NEW t \in Writers, Store(t) PROVE Sum'
    <3>. SUFFICES ASSUME loops # Forever PROVE Sum'
      BY <2>4 DEF Store
    <3>. DEFINE k == iter[t]
                c == Cardinality(Increments)
    <3>1. /\ UNCHANGED loops /\ Stored(t) = k - 1 /\ Stored(t)' = k
          /\ \A x \in Writers \ {t} : Stored(x)' = Stored(x)
      BY <2>4 DEF Store, Stored
    <3>2. k \in 1 .. loops
      BY <1>i, <2>4 DEF Store, Tally
    <3>3. /\ Increments' = Increments \union {<<t, k>>}
          /\ <<t, k>> \notin Increments
      <4>1. <<t, k>> \notin Increments
        BY <3>1, <3>2 DEF Increments
      <4>2. ASSUME NEW r \in Writers \X (1 .. loops)
            PROVE  r[2] <= Stored(r[1])' <=> r[2] <= Stored(r[1]) \/ r = <<t, k>>
        <5>1. CASE r[1] # t
          BY <3>1, <5>1
        <5>2. CASE r[1] = t
          BY <3>1, <3>2, <5>2
        <5>. QED  BY <5>1, <5>2
      <4>. QED  BY <3>1, <3>2, <4>1, <4>2 DEF Increments
    <3>4. Cardinality(Increments') = c + 1 /\ c \in Nat
      BY <3>3, IncrementsFinite, FS_AddElement
    <3>5. value' = ((c % IntRange) + 1) % IntRange
      BY <2>4 DEF Store, StableView, Tally
    <3>. QED  BY <3>4, <3>5, OneMoreRemainder
  <2>5. CASE Join \/ UNCHANGED vars
    <3>1. UNCHANGED <<loops, value>> /\ \A x \in Writers : Stored(x)' = Stored(x)
      BY <2>5 DEF Join, vars, clientVars, Stored
    <3>. QED  BY <2>1, <3>1
  <2>. HIDE DEF Sum
  <2>. QED  BY Steps, <2>2, <2>3, <2>4, <2>5, Zenon
<1>. QED  BY <1>1, <1>2 DEF Tally

-----------------------------------------------------------------------------

\* Every state of every run satisfies the inductive invariant of the lock of
\* reader-writer-nostarve.c: the count is exact, `rw' is on one side, and one
\* thread at a time is in the turnstile.
THEOREM Invariance == Spec => []IInv
<1>1. Init => IInv
  BY InitLock, InitTally DEF IInv, LockInv
<1>2. IInv /\ [Next]_vars => IInv'
  BY NextLock, NextTally DEF IInv, LockInv
<1>. QED  BY <1>1, <1>2, PTL DEF Spec

\* The readers are inside together or one writer alone, and the count is the
\* number of readers inside or on their way.
THEOREM OneSideInside == Spec => []Occupancy
<1>1. ASSUME IInv, NEW x \in Writing PROVE Writing = {x}
  <2>1. \A y \in Writing : y \in Threads /\ AtTurn(y)
    BY RWClientAssumption DEF RWClientAssumption, Writing, AtTurn, Threads
  <2>. QED  BY <1>1, <2>1 DEF IInv, LocksAreLocks
<1>2. IInv => Occupancy
  BY <1>1 DEF IInv, TypeOK, LocksAreLocks, OneSide, Occupancy
<1>. QED  BY <1>2, Invariance, PTL

\* What each step does to the threads that are inside.
LEMMA Entering ==
  ASSUME IInv, IInv', [Next]_vars
  PROVE  \/ UNCHANGED <<Reading, Writing>>
         \/ \E r \in Readers : PassTurn(r) /\ Lock!BeginRead(r)
         \/ \E r \in Readers : Lock!EndRead(r)
         \/ \E x \in Writers : Lock!BeginWrite(x) \/ Lock!EndWrite(x)
<1>. USE RWClientAssumption DEF RWClientAssumption, IInv, TypeOK, Go, Quiet, Threads
<1>1. ASSUME NEW r \in Readers, PassTurn(r) PROVE Lock!BeginRead(r)
  <2>1. r \notin Reading /\ Reading' = Reading \union {r} /\ Writing' = Writing
    BY <1>1 DEF PassTurn, Reading, Writing
  <2>2. Sharing(r)
    BY <1>1 DEF PassTurn, Sharing
  <2>. QED  BY <2>1, <2>2 DEF OneSide, Lock!BeginRead
<1>2. ASSUME NEW r \in Readers, ReleaseRead(r) PROVE Lock!EndRead(r)
  BY <1>2 DEF ReleaseRead, Reading, Writing, Lock!EndRead
<1>3. ASSUME NEW x \in Writers, WaitDrained(x) PROVE Lock!BeginWrite(x)
  <2>1. rw # 0
    BY <1>3 DEF WaitDrained, SemWait
  <2>2. Reading = {} /\ Writing = {}
    BY <2>1 DEF OneSide, Sharing, Reading
  <2>. QED  BY <1>3, <2>2 DEF WaitDrained, Reading, Writing, Lock!BeginWrite
<1>4. ASSUME NEW x \in Writers, ReleaseWrite(x) PROVE Lock!EndWrite(x)
  BY <1>4 DEF ReleaseWrite, Reading, Writing, Lock!EndWrite
<1>5. ASSUME NEW r \in Readers,
             TakeTurn(r) \/ AcquireCount(r) \/ FirstReader(r) \/ BlockWriters(r) \/ Enter(r)
               \/ JoinReaders(r) \/ LeaveLast(r) \/ LeaveOthers(r) \/ Unlock(r)
      PROVE  UNCHANGED <<Reading, Writing>>
  BY <1>5 DEF TakeTurn, AcquireCount, FirstReader, BlockWriters, Enter, JoinReaders, LeaveLast,
     LeaveOthers, Unlock, Reading, Writing
<1>6. ASSUME NEW x \in Writers, WriterTurn(x) \/ TurnBack(x) PROVE UNCHANGED <<Reading, Writing>>
  BY <1>6 DEF WriterTurn, TurnBack, Reading, Writing
<1>7. ASSUME NEW t \in Threads, Work(t) \/ Create(t) PROVE UNCHANGED <<Reading, Writing>>
  BY <1>7 DEF Work, Create, Loop, Read, Load, Store, Show, Reading, Writing
<1>8. CASE Joined \/ UNCHANGED vars
  BY <1>8 DEF Joined, Join, vars, clientVars, Reading, Writing
<1>. QED
  BY <1>1, <1>2, <1>3, <1>4, <1>5, <1>6, <1>7, <1>8
     DEF Next, Exited, Started, Step, ReaderLock, WriterLock

\* The lock of reader-writer-nostarve.c is a reader-writer lock: every step
\* maps to a step of the abstract lock or leaves it alone.
THEOREM Refinement == Spec => ImplementsLock
<1>1. Init => Lock!Init
  BY RWClientAssumption DEF RWClientAssumption, Init, ClientInit, Lock!Init, Reading, Writing,
     Threads
<1>2. IInv /\ IInv' /\ [Next]_vars => [Lock!Next]_<<Reading, Writing>>
  BY Entering DEF Lock!Next
<1>. QED  BY <1>1, <1>2, Invariance, PTL DEF Spec, ImplementsLock, Lock!Spec

\* Once a writer has passed the turnstile no reader comes in before it has
\* written: a reader comes in by posting the turnstile, which the writer holds.
THEOREM Turnstile == Spec => NoOvertaking
<1>1. IInv /\ IInv' /\ [Next]_vars =>
        [\A x \in Writers : pc[x] \in {"wait", "load", "store", "print", "release"}
           => Reading' \subseteq Reading]_vars
  <2>. SUFFICES ASSUME IInv, IInv', [Next]_vars, NEW x \in Writers,
                       pc[x] \in {"wait", "load", "store", "print", "release"}
                PROVE  Reading' \subseteq Reading
    OBVIOUS
  <2>1. AtTurn(x)
    BY RWClientAssumption DEF RWClientAssumption, AtTurn
  <2>2. ~ \E r \in Readers : PassTurn(r)
    BY <2>1, RWClientAssumption
       DEF RWClientAssumption, PassTurn, Go, IInv, LocksAreLocks, AtTurn, Threads
  <2>. QED
    BY <2>2, Entering DEF Lock!EndRead, Lock!BeginWrite, Lock!EndWrite
<1>. QED  BY <1>1, Invariance, PTL DEF Spec, NoOvertaking

\* No write is lost: the value main prints is the number of writers times
\* their iterations.
THEOREM NoWriteLost == Spec => []ExpectedValue
<1>1. ASSUME IInv, main = "exit"
      PROVE  value = (Cardinality(Writers) * loops) % IntRange
  <2>. USE RWClientAssumption DEF RWClientAssumption
  <2>1. \A x \in Writers : pc[x] = "done" /\ loops # Forever /\ iter[x] = loops
    BY <1>1 DEF IInv, Tally, Threads
  <2>2. value = Cardinality(Increments) % IntRange
    BY <1>1, <2>1 DEF IInv, Tally
  <2>3. CASE Writers = {}
    <3>1. Increments = {} /\ Cardinality(Writers) = 0 /\ Cardinality({}) = 0
      BY <2>3, FS_EmptySet DEF Increments
    <3>2. 0 * loops = 0
      BY <1>1 DEF IInv, TypeOK, Forever
    <3>. QED  BY <2>2, <3>1, <3>2
  <2>4. CASE Writers # {}
    <3>1. loops \in Nat
      BY <1>1, <2>1, <2>4 DEF IInv, TypeOK
    <3>2. Increments = Writers \X (1 .. loops)
      BY <2>1, <3>1 DEF Increments, Stored
    <3>3. IsFiniteSet(1 .. loops) /\ Cardinality(1 .. loops) = loops
      BY <3>1, FS_Interval
    <3>4. Cardinality(Increments) = Cardinality(Writers) * loops
      BY <3>2, <3>3, FS_Product
    <3>. QED  BY <2>2, <3>4
  <2>. QED  BY <2>3, <2>4
<1>2. IInv => ExpectedValue
  BY <1>1 DEF ExpectedValue
<1>. QED  BY <1>2, Invariance, PTL
-----------------------------------------------------------------------------
(***************************************************************************)
(* The lock of reader-writer.c                                             *)
(***************************************************************************)

VARIABLES lock, writelock

Plain == INSTANCE ReaderWriter


\* The instance counts as its host does.
LEMMA SameCardinality == \A S : Plain!Cardinality(S) = Cardinality(S)
BY DEF Plain!Cardinality, Cardinality

USE SameCardinality

PlainCountedSet == {r \in Readers : Plain!Counted(r)}

\* How the number of counted readers changes with the set.
LEMMA PlainCountChange ==
  ASSUME NEW r \in Readers, IsFiniteSet(PlainCountedSet)
  PROVE  /\ ~Plain!Counted(r) /\ PlainCountedSet' = PlainCountedSet \union {r}
              => Cardinality(PlainCountedSet') = Cardinality(PlainCountedSet) + 1
         /\ Plain!Counted(r) /\ PlainCountedSet' = PlainCountedSet \ {r}
              => Cardinality(PlainCountedSet') = Cardinality(PlainCountedSet) - 1
<1>1. /\ r \notin PlainCountedSet => Cardinality(PlainCountedSet \union {r}) = Cardinality(PlainCountedSet) + 1
      /\ r \in PlainCountedSet => Cardinality(PlainCountedSet \ {r}) = Cardinality(PlainCountedSet) - 1
  BY FS_AddElement, FS_RemoveElement
<1>2. r \in PlainCountedSet <=> Plain!Counted(r)
  BY DEF PlainCountedSet
<1>. QED  BY <1>1, <1>2

\* What readers = 0 and readers = 1 say about who is counted.
LEMMA PlainCountMeaning ==
  ASSUME Plain!TypeOK
  PROVE  /\ IsFiniteSet(PlainCountedSet)
         /\ readers = Cardinality(PlainCountedSet)
         /\ readers \in Nat
         /\ readers = 0 <=> \A r \in Readers : ~Plain!Counted(r)
         /\ \A r, q \in Readers : readers = 1 /\ Plain!Counted(r) /\ Plain!Counted(q) => r = q
<1>1. IsFiniteSet(PlainCountedSet)
  BY FS_Subset, RWClientAssumption DEF PlainCountedSet, RWClientAssumption
<1>2. readers = Cardinality(PlainCountedSet)
  BY DEF Plain!TypeOK, PlainCountedSet
<1>3. Cardinality(PlainCountedSet) \in Nat
  BY <1>1, FS_CardinalityType
<1>4. Cardinality(PlainCountedSet) = 0 <=> PlainCountedSet = {}
  BY <1>1, FS_EmptySet
<1>5. Cardinality(PlainCountedSet) = 1 <=> \E x : PlainCountedSet = {x}
  BY <1>1, FS_Singleton
<1>6. \A r \in Readers : r \in PlainCountedSet <=> Plain!Counted(r)
  BY DEF PlainCountedSet
<1>7. PlainCountedSet \subseteq Readers
  BY DEF PlainCountedSet
<1>. QED  BY <1>1, <1>2, <1>3, <1>4, <1>5, <1>6, <1>7

\* A step that neither counts a reader in nor out keeps the count right.
LEMMA PlainSameCount ==
  ASSUME Plain!TypeOK, readers' = readers, PlainCountedSet' = PlainCountedSet
  PROVE  readers' = Cardinality({r \in Readers : Plain!Counted(r)})'
<1>1. readers' = Cardinality(PlainCountedSet)'
  BY PlainCountMeaning
<1>. QED  BY <1>1 DEF PlainCountedSet

\* The part of ReaderWriter's IInv that is about the lock is inductive by itself.
PlainLockInv == Plain!TypeOK /\ Plain!LockIsLock /\ Plain!OneSide /\ Plain!StableView

\* At the start both semaphores are free and nobody is counted.
LEMMA PlainInitLock == Plain!Init => PlainLockInv
<1>. SUFFICES ASSUME Plain!Init PROVE PlainLockInv
  OBVIOUS
<1>. USE RWClientAssumption DEF RWClientAssumption
<1>1. PlainCountedSet = {}
  BY DEF PlainCountedSet, Plain!Counted, Plain!Init, Plain!ClientInit, Plain!Threads
<1>2. readers = Cardinality({r \in Readers : Plain!Counted(r)})
  BY <1>1, FS_EmptySet DEF PlainCountedSet, Plain!Init
<1>3. Plain!TypeOK
  BY <1>2 DEF Plain!Init, Plain!ClientInit, Plain!TypeOK, Plain!Points, Plain!Threads
<1>. QED
  BY <1>3 DEF Plain!Init, Plain!ClientInit, PlainLockInv, Plain!LockIsLock, Plain!OneSide,
       Plain!StableView, Plain!AtCount, Plain!Sharing, Plain!Writing, Plain!Counted, Plain!Threads

\* The steps a thread takes outside the lock's own code.
LEMMA PlainWorkLock ==
  ASSUME PlainLockInv, NEW t \in Plain!Threads, Plain!Work(t) \/ Plain!Create(t), UNCHANGED Plain!lockVars
  PROVE  PlainLockInv'
<1>. USE RWClientAssumption DEF RWClientAssumption, PlainLockInv, Plain!Go, Plain!lockVars,
       Plain!Threads
<1>0. PlainCountedSet' = PlainCountedSet
  BY DEF Plain!Work, Plain!Create, Plain!Loop, Plain!Read, Plain!Load, Plain!Store, Plain!Show,
       Plain!TypeOK, PlainCountedSet, Plain!Counted
<1>1. readers' = Cardinality({r \in Readers : Plain!Counted(r)})'
  BY <1>0, PlainSameCount
<1>2. CASE Plain!Create(t)
  BY <1>1, <1>2 DEF Plain!Create, Plain!TypeOK, Plain!Points, Plain!LockIsLock, Plain!OneSide,
       Plain!StableView, Plain!AtCount, Plain!Sharing, Plain!Writing, Plain!Counted
<1>3. CASE Plain!Loop(t)
  <2>1. iter' \in [Plain!Threads -> Nat]
    BY <1>3 DEF Plain!Loop, Plain!TypeOK
  <2>2. \A u \in Plain!Threads : pc'[u] # pc[u] => pc[u] = "loop" /\ pc'[u] \in {"acquire", "done"}
    BY <1>3 DEF Plain!Loop, Plain!TypeOK
  <2>3. pc' \in [Plain!Threads -> Plain!Points]
    BY <1>3 DEF Plain!Loop, Plain!TypeOK, Plain!Points
  <2>4. Plain!TypeOK'
    BY <1>1, <1>3, <2>1, <2>2, <2>3 DEF Plain!Loop, Plain!TypeOK, Plain!Points
  <2>. QED
    BY <1>3, <2>2, <2>4 DEF Plain!Loop, Plain!LockIsLock, Plain!OneSide, Plain!StableView,
         Plain!AtCount, Plain!Sharing, Plain!Writing, Plain!Counted
<1>4. CASE t \in Readers /\ Plain!Read(t)
  BY <1>1, <1>4 DEF Plain!Read, Plain!TypeOK, Plain!Points, Plain!LockIsLock, Plain!OneSide,
       Plain!StableView, Plain!AtCount, Plain!Sharing, Plain!Writing, Plain!Counted
<1>5. CASE t \in Writers /\ Plain!Load(t)
  BY <1>1, <1>5 DEF Plain!Load, Plain!TypeOK, Plain!Points, Plain!LockIsLock, Plain!OneSide,
       Plain!StableView, Plain!AtCount, Plain!Sharing, Plain!Writing, Plain!Counted
\* Nobody else is inside, so nobody else has a view of value to spoil.
<1>6. CASE t \in Writers /\ Plain!Store(t)
  <2>1. value' \in Nat
    BY <1>6 DEF Plain!Store, Plain!TypeOK
  <2>2. Plain!TypeOK'
    BY <1>1, <1>6, <2>1 DEF Plain!Store, Plain!TypeOK, Plain!Points
  <2>3. \A u \in Plain!Threads : u # t => pc[u] \notin {"store", "print", "release"}
    BY <1>6 DEF Plain!Store, Plain!TypeOK, Plain!OneSide, Plain!Writing, Plain!Sharing
  <2>. QED
    BY <1>6, <2>2, <2>3 DEF Plain!Store, Plain!TypeOK, Plain!LockIsLock, Plain!OneSide,
         Plain!StableView, Plain!AtCount, Plain!Sharing, Plain!Writing, Plain!Counted
<1>7. CASE t \in Writers /\ Plain!Show(t)
  BY <1>1, <1>7 DEF Plain!Show, Plain!TypeOK, Plain!Points, Plain!LockIsLock, Plain!OneSide,
       Plain!StableView, Plain!AtCount, Plain!Sharing, Plain!Writing, Plain!Counted
<1>. QED  BY <1>2, <1>3, <1>4, <1>5, <1>6, <1>7 DEF Plain!Work

\* A reader's steps on the semaphores keep the lock's invariant.
LEMMA PlainReaderLockInv ==
  ASSUME PlainLockInv, NEW r \in Readers, Plain!ReaderLock(r)
  PROVE  PlainLockInv'
<1>. USE RWClientAssumption DEF RWClientAssumption, PlainLockInv, Plain!Go, Plain!Quiet,
       Plain!Threads, Plain!SemWait, Plain!SemPost
<1>q. /\ IsFiniteSet(PlainCountedSet)
      /\ readers = Cardinality(PlainCountedSet)
      /\ readers \in Nat
      /\ readers = 0 <=> \A q \in Readers : ~Plain!Counted(q)
      /\ \A p, q \in Readers : readers = 1 /\ Plain!Counted(p) /\ Plain!Counted(q) => p = q
  BY PlainCountMeaning
<1>1. CASE Plain!AcquireRead(r)
  <2>1. PlainCountedSet' = PlainCountedSet
    BY <1>1 DEF Plain!AcquireRead, Plain!TypeOK, PlainCountedSet, Plain!Counted
  <2>. QED
    BY <1>1, <2>1, PlainSameCount DEF Plain!AcquireRead, Plain!TypeOK, Plain!Points,
         Plain!LockIsLock, Plain!OneSide, Plain!StableView, Plain!AtCount, Plain!Sharing,
         Plain!Writing, Plain!Counted
<1>2. CASE Plain!FirstReader(r)
  <2>1. ~Plain!Counted(r) /\ PlainCountedSet' = PlainCountedSet \union {r}
    BY <1>2 DEF Plain!FirstReader, Plain!TypeOK, PlainCountedSet, Plain!Counted
  <2>2. readers' = Cardinality({q \in Readers : Plain!Counted(q)})'
    BY <1>2, <1>q, <2>1, PlainCountChange DEF Plain!FirstReader, PlainCountedSet
  <2>3. Plain!TypeOK'
    BY <1>2, <2>2 DEF Plain!FirstReader, Plain!TypeOK, Plain!Points
  <2>4. \A q \in Readers : ~Plain!Counted(q)
    BY <1>2, <1>q DEF Plain!FirstReader
  <2>. QED
    BY <1>2, <2>3, <2>4 DEF Plain!FirstReader, Plain!TypeOK, Plain!LockIsLock, Plain!OneSide,
         Plain!StableView, Plain!AtCount, Plain!Sharing, Plain!Writing, Plain!Counted
<1>3. CASE Plain!BlockWriters(r)
  <2>1. PlainCountedSet' = PlainCountedSet
    BY <1>3 DEF Plain!BlockWriters, Plain!TypeOK, PlainCountedSet, Plain!Counted
  <2>2. Plain!Writing = {}
    BY <1>3 DEF Plain!BlockWriters, Plain!OneSide
  <2>. QED
    BY <1>3, <2>1, <2>2, PlainSameCount DEF Plain!BlockWriters, Plain!TypeOK, Plain!Points,
         Plain!LockIsLock, Plain!OneSide, Plain!StableView, Plain!AtCount, Plain!Sharing,
         Plain!Writing, Plain!Counted
<1>4. CASE Plain!Enter(r)
  <2>1. PlainCountedSet' = PlainCountedSet
    BY <1>4 DEF Plain!Enter, Plain!TypeOK, PlainCountedSet, Plain!Counted
  <2>. QED
    BY <1>4, <2>1, PlainSameCount DEF Plain!Enter, Plain!TypeOK, Plain!Points, Plain!LockIsLock,
         Plain!OneSide, Plain!StableView, Plain!AtCount, Plain!Sharing, Plain!Writing, Plain!Counted
\* A reader that finds others counted shares the writelock they hold.
<1>5. CASE Plain!JoinReaders(r)
  <2>1. ~Plain!Counted(r) /\ PlainCountedSet' = PlainCountedSet \union {r}
    BY <1>5 DEF Plain!JoinReaders, Plain!TypeOK, PlainCountedSet, Plain!Counted
  <2>2. readers' = Cardinality({q \in Readers : Plain!Counted(q)})'
    BY <1>5, <1>q, <2>1, PlainCountChange DEF Plain!JoinReaders, PlainCountedSet
  <2>3. Plain!TypeOK'
    BY <1>5, <2>2 DEF Plain!JoinReaders, Plain!TypeOK, Plain!Points, Plain!LockIsLock, Plain!AtCount
  <2>4. PICK q \in Readers : Plain!Counted(q)
    BY <1>5, <1>q DEF Plain!JoinReaders
  <2>5. q # r /\ pc[q] # "first"
    BY <1>5, <2>4 DEF Plain!JoinReaders, Plain!LockIsLock, Plain!AtCount, Plain!Counted
  <2>6. writelock = 0 /\ Plain!Writing = {}
    BY <2>4, <2>5 DEF Plain!OneSide, Plain!Counted, Plain!Sharing
  <2>7. \A p \in Readers : pc[p] # "first"
    BY <1>5 DEF Plain!JoinReaders, Plain!LockIsLock, Plain!AtCount
  <2>. QED
    BY <1>5, <2>3, <2>6, <2>7 DEF Plain!JoinReaders, Plain!TypeOK, Plain!LockIsLock, Plain!OneSide,
         Plain!StableView, Plain!AtCount, Plain!Sharing, Plain!Writing, Plain!Counted
<1>6. CASE Plain!ReleaseRead(r)
  <2>1. PlainCountedSet' = PlainCountedSet
    BY <1>6 DEF Plain!ReleaseRead, Plain!TypeOK, PlainCountedSet, Plain!Counted
  <2>. QED
    BY <1>6, <2>1, PlainSameCount DEF Plain!ReleaseRead, Plain!TypeOK, Plain!Points,
         Plain!LockIsLock, Plain!OneSide, Plain!StableView, Plain!AtCount, Plain!Sharing,
         Plain!Writing, Plain!Counted
\* The last reader is the only one counted, so nobody shares the writelock
\* it gives back.
<1>7. CASE Plain!LeaveLast(r)
  <2>1. Plain!Counted(r) /\ PlainCountedSet' = PlainCountedSet \ {r}
    BY <1>7 DEF Plain!LeaveLast, Plain!TypeOK, PlainCountedSet, Plain!Counted
  <2>2. readers' = Cardinality({q \in Readers : Plain!Counted(q)})'
    BY <1>7, <1>q, <2>1, PlainCountChange DEF Plain!LeaveLast, PlainCountedSet
  <2>3. readers = 1
    BY <1>7, <1>q DEF Plain!LeaveLast
  <2>4. \A q \in Readers : Plain!Counted(q) => q = r
    BY <1>q, <2>1, <2>3
  <2>5. writelock = 0 /\ Plain!Writing = {}
    BY <1>7 DEF Plain!LeaveLast, Plain!OneSide, Plain!Sharing
  <2>6. Plain!TypeOK'
    BY <1>7, <2>2, <2>5 DEF Plain!LeaveLast, Plain!TypeOK, Plain!Points
  <2>. QED
    BY <1>7, <2>4, <2>5, <2>6 DEF Plain!LeaveLast, Plain!TypeOK, Plain!LockIsLock, Plain!OneSide,
         Plain!StableView, Plain!AtCount, Plain!Sharing, Plain!Writing, Plain!Counted
<1>8. CASE Plain!LeaveOthers(r)
  <2>1. Plain!Counted(r) /\ PlainCountedSet' = PlainCountedSet \ {r}
    BY <1>8 DEF Plain!LeaveOthers, Plain!TypeOK, PlainCountedSet, Plain!Counted
  <2>2. readers' = Cardinality({q \in Readers : Plain!Counted(q)})'
    BY <1>8, <1>q, <2>1, PlainCountChange DEF Plain!LeaveOthers, PlainCountedSet
  <2>3. Plain!TypeOK'
    BY <1>8, <2>2 DEF Plain!LeaveOthers, Plain!TypeOK, Plain!Points
  <2>. QED
    BY <1>8, <2>3 DEF Plain!LeaveOthers, Plain!TypeOK, Plain!LockIsLock, Plain!OneSide,
         Plain!StableView, Plain!AtCount, Plain!Sharing, Plain!Writing, Plain!Counted
<1>9. CASE Plain!Unlock(r)
  <2>1. PlainCountedSet' = PlainCountedSet
    BY <1>9 DEF Plain!Unlock, Plain!TypeOK, PlainCountedSet, Plain!Counted
  <2>2. lock' = 1
    BY <1>9 DEF Plain!Unlock, Plain!LockIsLock, Plain!AtCount
  <2>. QED
    BY <1>9, <2>1, <2>2, PlainSameCount DEF Plain!Unlock, Plain!TypeOK, Plain!Points,
         Plain!LockIsLock, Plain!OneSide, Plain!StableView, Plain!AtCount, Plain!Sharing,
         Plain!Writing, Plain!Counted
<1>. QED
  BY <1>1, <1>2, <1>3, <1>4, <1>5, <1>6, <1>7, <1>8, <1>9 DEF Plain!ReaderLock

\* A writer's steps on the semaphores keep the lock's invariant.
LEMMA PlainWriterLockInv ==
  ASSUME PlainLockInv, NEW x \in Writers, Plain!WriterLock(x)
  PROVE  PlainLockInv'
<1>. USE RWClientAssumption DEF RWClientAssumption, PlainLockInv, Plain!Go, Plain!Quiet,
       Plain!Threads, Plain!SemWait, Plain!SemPost
<1>0. PlainCountedSet' = PlainCountedSet /\ readers' = readers
  BY DEF Plain!WriterLock, Plain!AcquireWrite, Plain!ReleaseWrite, Plain!TypeOK, PlainCountedSet,
       Plain!Counted
<1>1. readers' = Cardinality({r \in Readers : Plain!Counted(r)})'
  BY <1>0, PlainSameCount
<1>2. CASE Plain!AcquireWrite(x)
  <2>1. Plain!TypeOK'
    <3>1. /\ UNCHANGED <<lock, readers, loops, iter, value, seen, main>>
          /\ writelock' \in {0, 1} /\ pc' = [pc EXCEPT ![x] = "load"]
      BY <1>2 DEF Plain!AcquireWrite, Plain!TypeOK
    <3>2. pc' \in [Plain!Threads -> Plain!Points]
      BY <3>1 DEF Plain!TypeOK, Plain!Points
    <3>3. \A t \in Plain!Threads : pc'[t] = pc[t] \/ (t = x /\ pc'[t] = "load")
      BY <3>1 DEF Plain!TypeOK
    <3>4. \A t \in Writers : pc'[t] \in Plain!Points \ {"count", "first", "enter", "read", "leave", "unlock"}
      BY <3>3 DEF Plain!TypeOK, Plain!Points
    <3>5. \A t \in Readers : pc'[t] \in Plain!Points \ {"load", "store", "print"}
      BY <3>3 DEF Plain!TypeOK
    <3>. QED  BY <1>1, <3>1, <3>2, <3>4, <3>5 DEF Plain!TypeOK
  <2>2. /\ writelock = 1 /\ writelock' = 0 /\ UNCHANGED <<lock, value, seen>>
        /\ \A t \in Plain!Threads \ {x} : pc'[t] = pc[t]
        /\ pc[x] = "acquire" /\ pc'[x] = "load"
    BY <1>2 DEF Plain!AcquireWrite, Plain!TypeOK
  <2>3. Plain!Writing = {} /\ Plain!Writing' = {x}
    BY <2>1, <2>2 DEF Plain!OneSide, Plain!Writing, Plain!TypeOK
  <2>4. \A r \in Readers : pc'[r] = pc[r] /\ ~Plain!Sharing(r)
    BY <2>2 DEF Plain!OneSide
  <2>5. Plain!LockIsLock'
    BY <2>2, <2>4 DEF Plain!LockIsLock, Plain!AtCount, Plain!Counted
  <2>6. Plain!OneSide'
    BY <2>2, <2>3, <2>4 DEF Plain!OneSide, Plain!Sharing
  <2>7. Plain!StableView'
    BY <2>2, <2>3 DEF Plain!StableView
  <2>. QED  BY <2>1, <2>5, <2>6, <2>7
<1>3. CASE Plain!ReleaseWrite(x)
  <2>1. x \in Plain!Writing /\ writelock = 0
    BY <1>3 DEF Plain!ReleaseWrite, Plain!OneSide, Plain!Writing
  <2>2. Plain!Writing = {x}
    BY <2>1 DEF Plain!OneSide
  <2>. QED
    BY <1>1, <1>3, <2>1, <2>2 DEF Plain!ReleaseWrite, Plain!TypeOK, Plain!Points, Plain!LockIsLock,
         Plain!OneSide, Plain!StableView, Plain!AtCount, Plain!Sharing, Plain!Writing, Plain!Counted
<1>. QED  BY <1>2, <1>3 DEF Plain!WriterLock

\* What makes it a lock is inductive on its own, without the totals.
LEMMA PlainNextLock == PlainLockInv /\ [Plain!Next]_Plain!vars => PlainLockInv'
<1>. SUFFICES ASSUME PlainLockInv, [Plain!Next]_Plain!vars PROVE PlainLockInv'
  OBVIOUS
<1>1. ASSUME NEW t \in Plain!Threads, Plain!Started(t) PROVE PlainLockInv'
  BY <1>1, PlainWorkLock DEF Plain!Started
<1>2. ASSUME NEW t \in Plain!Threads, Plain!Step(t) PROVE PlainLockInv'
  BY <1>2, PlainWorkLock, PlainReaderLockInv, PlainWriterLockInv DEF Plain!Step
<1>3. CASE Plain!Joined \/ UNCHANGED Plain!vars
  <2>1. PlainCountedSet' = PlainCountedSet /\ readers' = readers
    BY <1>3 DEF Plain!Joined, Plain!Join, Plain!vars, Plain!lockVars, Plain!clientVars,
         PlainCountedSet, Plain!Counted
  <2>2. readers' = Cardinality({r \in Readers : Plain!Counted(r)})'
    BY <2>1, PlainSameCount DEF PlainLockInv
  <2>. QED
    BY <1>3, <2>2 DEF Plain!Joined, Plain!Join, Plain!vars, Plain!lockVars, Plain!clientVars,
         PlainLockInv, Plain!TypeOK, Plain!LockIsLock, Plain!OneSide, Plain!StableView,
         Plain!AtCount, Plain!Sharing, Plain!Writing, Plain!Counted
<1>. QED  BY <1>1, <1>2, <1>3 DEF Plain!Next, Plain!Exited

-----------------------------------------------------------------------------
(* The increments *)

\* The increments are finitely many.
LEMMA PlainIncrementsFinite ==
  ASSUME Plain!TypeOK
  PROVE  IsFiniteSet(Plain!Increments) /\ Cardinality(Plain!Increments) \in Nat
<1>. USE RWClientAssumption DEF RWClientAssumption
<1>1. IsFiniteSet(1 .. loops)
  BY FS_Interval DEF Plain!TypeOK, Plain!Forever
<1>2. IsFiniteSet(Writers \X (1 .. loops))
  BY <1>1, FS_Product
<1>3. Plain!Increments \in SUBSET (Writers \X (1 .. loops))
  BY DEF Plain!Increments
<1>. QED  BY <1>2, <1>3, FS_Subset, FS_CardinalityType

\* No writer has run and no increment is stored.
LEMMA PlainInitTally == Plain!Init => Plain!Tally
<1>. SUFFICES ASSUME Plain!Init PROVE Plain!Tally
  OBVIOUS
<1>. USE RWClientAssumption DEF RWClientAssumption, Plain!Init, Plain!ClientInit, Plain!Threads
<1>1. Plain!Increments = {}
  BY DEF Plain!Increments, Plain!Stored
<1>2. Cardinality(Plain!Increments) % IntRange = 0
  BY <1>1, FS_EmptySet
<1>. QED  BY <1>2 DEF Plain!Tally, Plain!Forever, Forever

\* The semaphore operations of the lock touch nothing the writers count.
LEMMA PlainLockStep ==
  ASSUME PlainLockInv, NEW t \in Plain!Threads, (t \in Readers /\ Plain!ReaderLock(t)) \/ (t \in Writers /\ Plain!WriterLock(t))
  PROVE  /\ UNCHANGED <<loops, iter, value, main>>
         /\ pc[t] \notin {"done", "loop", "new"} /\ pc'[t] # "done"
         /\ \A u \in Plain!Threads \ {t} : pc'[u] = pc[u]
         /\ pc'[t] \in {"acquire", "wait", "load", "store"} =>
              pc[t] \in {"acquire", "wait", "load", "store"}
         /\ t \in Writers /\ pc[t] \in {"acquire", "wait", "load", "store"} =>
              pc'[t] \in {"acquire", "wait", "load", "store"}
<1>. USE RWClientAssumption DEF RWClientAssumption, PlainLockInv, Plain!TypeOK, Plain!Go,
       Plain!Quiet, Plain!Threads
<1>1. CASE t \in Readers /\ Plain!ReaderLock(t)
  BY <1>1 DEF Plain!ReaderLock, Plain!AcquireRead, Plain!FirstReader, Plain!BlockWriters,
       Plain!Enter, Plain!JoinReaders, Plain!ReleaseRead, Plain!LeaveLast, Plain!LeaveOthers,
       Plain!Unlock
<1>2. CASE t \in Writers /\ Plain!WriterLock(t)
  BY <1>2 DEF Plain!WriterLock, Plain!AcquireWrite, Plain!ReleaseWrite
<1>. QED  BY <1>1, <1>2

\* What a step of the program is, one action of one thread at a time.
LEMMA PlainSteps ==
  ASSUME [Plain!Next]_Plain!vars
  PROVE  \/ \E t \in Plain!Threads :
              \/ Plain!Create(t) \/ Plain!Loop(t) \/ (t \in Readers /\ Plain!Read(t))
              \/ t \in Writers /\ (Plain!Load(t) \/ Plain!Store(t) \/ Plain!Show(t))
              \/ (t \in Readers /\ Plain!ReaderLock(t)) \/ (t \in Writers /\ Plain!WriterLock(t))
         \/ Plain!Join \/ UNCHANGED Plain!vars
<1>1. ASSUME NEW t \in Plain!Threads, Plain!Started(t) \/ Plain!Step(t)
      PROVE  \/ Plain!Create(t) \/ Plain!Loop(t) \/ (t \in Readers /\ Plain!Read(t))
             \/ t \in Writers /\ (Plain!Load(t) \/ Plain!Store(t) \/ Plain!Show(t))
             \/ (t \in Readers /\ Plain!ReaderLock(t)) \/ (t \in Writers /\ Plain!WriterLock(t))
  BY <1>1 DEF Plain!Started, Plain!Step, Plain!Work
<1>. QED  BY <1>1, Zenon DEF Plain!Next, Plain!Joined, Plain!Exited

\* A store is the only step that stores an increment.
LEMMA PlainNextTally == PlainLockInv /\ Plain!Tally /\ [Plain!Next]_Plain!vars => Plain!Tally'
<1>. SUFFICES ASSUME PlainLockInv, Plain!Tally, [Plain!Next]_Plain!vars PROVE Plain!Tally'
  OBVIOUS
<1>. USE RWClientAssumption DEF RWClientAssumption, PlainLockInv, Plain!TypeOK, Plain!Go,
       Plain!Threads, Plain!Forever, Forever
<1>. DEFINE Sum == loops # Plain!Forever \/ Writers = {} => value = Cardinality(Plain!Increments) % IntRange
            Rest == /\ \A t \in Plain!Threads :
                         /\ pc[t] = "done" => loops # Plain!Forever /\ iter[t] = loops
                         /\ loops # Plain!Forever => iter[t] <= loops
                         /\ pc[t] \in {"acquire", "wait", "load", "store"} /\ loops # Plain!Forever
                              => 1 <= iter[t]
                    /\ main = "exit" => \A t \in Plain!Threads : pc[t] = "done"
<1>i. \A t \in Plain!Threads : iter[t] \in Nat /\ (loops # Plain!Forever => loops \in Nat)
  OBVIOUS
<1>1. Rest'
  <2>. USE DEF Plain!Tally
  <2>1. ASSUME NEW t \in Plain!Threads, Plain!Create(t) \/ Plain!Read(t) \/ Plain!Load(t) \/ Plain!Store(t) \/ Plain!Show(t) PROVE Rest'
    BY <2>1, <1>i DEF Plain!Create, Plain!Read, Plain!Load, Plain!Store, Plain!Show
  <2>2. ASSUME NEW t \in Plain!Threads, Plain!Loop(t) PROVE Rest'
    BY <2>2, <1>i DEF Plain!Loop, Plain!Forever
  <2>3. ASSUME NEW t \in Plain!Threads,
               (t \in Readers /\ Plain!ReaderLock(t)) \/ (t \in Writers /\ Plain!WriterLock(t))
        PROVE  Rest'
    BY <2>3, <1>i, PlainLockStep
  <2>4. CASE Plain!Join \/ UNCHANGED Plain!vars
    BY <2>4 DEF Plain!Join, Plain!vars, Plain!clientVars
  <2>. HIDE DEF Rest
  <2>. QED  BY PlainSteps, <2>1, <2>2, <2>3, <2>4, Zenon
<1>2. Sum'
  <2>1. ASSUME UNCHANGED <<loops, value>>, \A x \in Writers : loops # Plain!Forever => Plain!Stored(x)' = Plain!Stored(x)
        PROVE  Sum'
    <3>1. loops # Plain!Forever \/ Writers = {} => Plain!Increments' = Plain!Increments
      BY <2>1 DEF Plain!Increments
    <3>. QED  BY <2>1, <3>1 DEF Plain!Tally
  <2>2. ASSUME NEW t \in Plain!Threads,
               \/ Plain!Create(t) \/ Plain!Loop(t) \/ (t \in Readers /\ Plain!Read(t))
               \/ t \in Writers /\ (Plain!Load(t) \/ Plain!Show(t))
        PROVE  Sum'
    <3>1. UNCHANGED <<loops, value>> /\ \A x \in Writers : loops # Plain!Forever => Plain!Stored(x)' = Plain!Stored(x)
      BY <2>2, <1>i DEF Plain!Create, Plain!Loop, Plain!Read, Plain!Load, Plain!Show, Plain!Stored,
           Plain!Tally
    <3>. QED  BY <2>1, <3>1
  <2>3. ASSUME NEW t \in Plain!Threads,
               (t \in Readers /\ Plain!ReaderLock(t)) \/ (t \in Writers /\ Plain!WriterLock(t))
        PROVE  Sum'
    <3>1. UNCHANGED <<loops, value>> /\ \A x \in Writers : Plain!Stored(x)' = Plain!Stored(x)
      BY <2>3, PlainLockStep DEF Plain!Stored
    <3>. QED  BY <2>1, <3>1
  <2>4. ASSUME NEW t \in Writers, Plain!Store(t) PROVE Sum'
    <3>. SUFFICES ASSUME loops # Plain!Forever PROVE Sum'
      BY <2>4 DEF Plain!Store
    <3>. DEFINE k == iter[t]
                c == Cardinality(Plain!Increments)
    <3>1. /\ UNCHANGED loops /\ Plain!Stored(t) = k - 1 /\ Plain!Stored(t)' = k
          /\ \A x \in Writers \ {t} : Plain!Stored(x)' = Plain!Stored(x)
      BY <2>4 DEF Plain!Store, Plain!Stored
    <3>2. k \in 1 .. loops
      BY <1>i, <2>4 DEF Plain!Store, Plain!Tally
    <3>3. /\ Plain!Increments' = Plain!Increments \union {<<t, k>>}
          /\ <<t, k>> \notin Plain!Increments
      <4>1. <<t, k>> \notin Plain!Increments
        BY <3>1, <3>2 DEF Plain!Increments
      <4>2. ASSUME NEW r \in Writers \X (1 .. loops)
            PROVE  r[2] <= Plain!Stored(r[1])' <=> r[2] <= Plain!Stored(r[1]) \/ r = <<t, k>>
        <5>1. CASE r[1] # t
          BY <3>1, <5>1
        <5>2. CASE r[1] = t
          BY <3>1, <3>2, <5>2
        <5>. QED  BY <5>1, <5>2
      <4>. QED  BY <3>1, <3>2, <4>1, <4>2 DEF Plain!Increments
    <3>4. Cardinality(Plain!Increments') = c + 1 /\ c \in Nat
      BY <3>3, PlainIncrementsFinite, FS_AddElement
    <3>5. value' = ((c % IntRange) + 1) % IntRange
      BY <2>4 DEF Plain!Store, Plain!StableView, Plain!Tally
    <3>. QED  BY <3>4, <3>5, OneMoreRemainder
  <2>5. CASE Plain!Join \/ UNCHANGED Plain!vars
    <3>1. UNCHANGED <<loops, value>> /\ \A x \in Writers : Plain!Stored(x)' = Plain!Stored(x)
      BY <2>5 DEF Plain!Join, Plain!vars, Plain!clientVars, Plain!Stored
    <3>. QED  BY <2>1, <3>1
  <2>. HIDE DEF Sum
  <2>. QED  BY PlainSteps, <2>2, <2>3, <2>4, <2>5, Zenon
<1>. QED  BY <1>1, <1>2 DEF Plain!Tally

-----------------------------------------------------------------------------

\* Every state of every run satisfies the inductive invariant of the lock of
\* reader-writer.c: the count is exact and writelock is on one side.
THEOREM PlainInvariance == Plain!Spec => []Plain!IInv
<1>1. Plain!Init => Plain!IInv
  BY PlainInitLock, PlainInitTally DEF Plain!IInv, PlainLockInv
<1>2. Plain!IInv /\ [Plain!Next]_Plain!vars => Plain!IInv'
  BY PlainNextLock, PlainNextTally DEF Plain!IInv, PlainLockInv
<1>. QED  BY <1>1, <1>2, PTL DEF Plain!Spec

\* With two semaphores, too, the readers are inside together or one writer
\* alone, and the count is the number of readers inside or on their way.
THEOREM PlainOccupancy == Plain!Spec => []Occupancy
<1>1. Plain!IInv => Occupancy
  BY DEF Plain!IInv, Plain!TypeOK, Plain!LockIsLock, Plain!OneSide, Plain!StableView, Plain!Tally,
       Plain!Counted, Plain!AtCount, Plain!Sharing, Plain!Writing, Plain!Increments, Plain!Stored,
       Plain!Forever, Plain!Threads, Occupancy, StableView, Tally, Counted, AtCount, Sharing,
       Writing, Increments, Stored, Forever, Threads
<1>. QED  BY <1>1, PlainInvariance, PTL

\* The lock of reader-writer.c is a reader-writer lock: every step maps to a
\* step of the abstract lock or leaves it alone.
THEOREM PlainRefinement == Plain!Spec => ImplementsLock
<1>1. Plain!Init => Lock!Init
  BY RWClientAssumption DEF RWClientAssumption, Plain!Init, Plain!ClientInit, Lock!Init,
       Reading, Writing, Plain!Threads
<1>2. Plain!IInv /\ Plain!IInv' /\ [Plain!Next]_Plain!vars => [Lock!Next]_<<Reading, Writing>>
  <2>. SUFFICES ASSUME Plain!IInv, Plain!IInv', [Plain!Next]_Plain!vars
                PROVE  Lock!Next \/ UNCHANGED <<Reading, Writing>>
    OBVIOUS
  <2>. USE RWClientAssumption DEF RWClientAssumption, Plain!IInv, Plain!TypeOK, Plain!Go,
       Plain!Quiet, Plain!Threads
  <2>1. ASSUME NEW r \in Readers, Plain!Enter(r) \/ Plain!JoinReaders(r) PROVE Lock!BeginRead(r)
    <3>1. r \notin Reading /\ Reading' = Reading \union {r} /\ Writing' = Writing
      BY <2>1 DEF Plain!Enter, Plain!JoinReaders, Reading, Writing
    <3>2. Plain!Sharing(r)'
      BY <2>1 DEF Plain!Enter, Plain!JoinReaders, Plain!Sharing
    <3>. QED  BY <3>1, <3>2 DEF Plain!OneSide, Plain!Writing, Lock!BeginRead, Writing
  <2>2. ASSUME NEW r \in Readers, Plain!ReleaseRead(r) PROVE Lock!EndRead(r)
    BY <2>2 DEF Plain!ReleaseRead, Reading, Writing, Lock!EndRead
  <2>3. ASSUME NEW x \in Writers, Plain!AcquireWrite(x) PROVE Lock!BeginWrite(x)
    <3>1. writelock # 0
      BY <2>3 DEF Plain!AcquireWrite, Plain!SemWait
    <3>2. Reading = {} /\ Writing = {}
      BY <3>1 DEF Plain!OneSide, Plain!Sharing, Plain!Writing, Reading, Writing
    <3>. QED  BY <2>3, <3>2 DEF Plain!AcquireWrite, Reading, Writing,
         Lock!BeginWrite
  <2>4. ASSUME NEW x \in Writers, Plain!ReleaseWrite(x) PROVE Lock!EndWrite(x)
    BY <2>4 DEF Plain!ReleaseWrite, Reading, Writing, Lock!EndWrite
  <2>5. ASSUME NEW r \in Readers,
               Plain!AcquireRead(r) \/ Plain!FirstReader(r) \/ Plain!BlockWriters(r) \/ Plain!LeaveLast(r) \/ Plain!LeaveOthers(r)
                 \/ Plain!Unlock(r)
        PROVE  UNCHANGED <<Reading, Writing>>
    BY <2>5 DEF Plain!AcquireRead, Plain!FirstReader, Plain!BlockWriters, Plain!LeaveLast,
         Plain!LeaveOthers, Plain!Unlock, Reading, Writing
  <2>6. ASSUME NEW t \in Plain!Threads, Plain!Work(t) \/ Plain!Create(t) PROVE UNCHANGED <<Reading, Writing>>
    BY <2>6 DEF Plain!Work, Plain!Create, Plain!Loop, Plain!Read, Plain!Load, Plain!Store,
         Plain!Show, Reading, Writing
  <2>7. CASE Plain!Joined \/ UNCHANGED Plain!vars
    BY <2>7 DEF Plain!Joined, Plain!Join, Plain!vars, Plain!clientVars, Reading, Writing
  <2>. QED
    BY <2>1, <2>2, <2>3, <2>4, <2>5, <2>6, <2>7
       DEF Plain!Next, Plain!Exited, Plain!Started, Plain!Step, Plain!ReaderLock, Plain!WriterLock,
            Lock!Next
<1>. QED
  BY <1>1, <1>2, PlainInvariance, PTL
     DEF Plain!Spec, ImplementsLock, Lock!Spec

\* No write is lost: the value main prints is the number of writers times
\* their iterations.
THEOREM PlainNoWriteLost == Plain!Spec => []ExpectedValue
<1>1. ASSUME Plain!IInv, main = "exit"
      PROVE  value = (Cardinality(Writers) * loops) % IntRange
  <2>. USE RWClientAssumption DEF RWClientAssumption
  <2>1. \A x \in Writers : pc[x] = "done" /\ loops # Plain!Forever /\ iter[x] = loops
    BY <1>1 DEF Plain!IInv, Plain!Tally, Plain!Threads
  <2>2. value = Cardinality(Plain!Increments) % IntRange
    BY <1>1, <2>1 DEF Plain!IInv, Plain!Tally
  <2>3. CASE Writers = {}
    <3>1. Plain!Increments = {} /\ Cardinality(Writers) = 0 /\ Cardinality({}) = 0
      BY <2>3, FS_EmptySet DEF Plain!Increments
    <3>2. 0 * loops = 0
      BY <1>1 DEF Plain!IInv, Plain!TypeOK, Plain!Forever
    <3>. QED  BY <2>2, <3>1, <3>2
  <2>4. CASE Writers # {}
    <3>1. loops \in Nat
      BY <1>1, <2>1, <2>4 DEF Plain!IInv, Plain!TypeOK, Plain!Forever, Forever
    <3>2. Plain!Increments = Writers \X (1 .. loops)
      BY <2>1, <3>1 DEF Plain!Increments, Plain!Stored
    <3>3. IsFiniteSet(1 .. loops) /\ Cardinality(1 .. loops) = loops
      BY <3>1, FS_Interval
    <3>4. Cardinality(Plain!Increments) = Cardinality(Writers) * loops
      BY <3>2, <3>3, FS_Product
    <3>. QED  BY <2>2, <3>4
  <2>. QED  BY <2>3, <2>4
<1>2. Plain!IInv => ExpectedValue
  BY <1>1 DEF ExpectedValue
<1>. QED  BY <1>2, PlainInvariance, PTL
=============================================================================
