---------------------------- MODULE VectorAddProofs ----------------------------
(***************************************************************************)
(* Proofs about VectorAdd, for any number of threads and loops, vectors of *)
(* any size and any width of int.                                          *)
(***************************************************************************)
EXTENDS VectorAdd, FiniteSetTheorems, TLAPS

\* The two vectors of a thread are two different vectors, and the two orders
\* in which they are locked and unlocked name both of them.
LEMMA TwoVectors ==
  ASSUME TypeOK, NEW t \in Threads
  PROVE  /\ {Dst(t), Src(t)} \subseteq Vectors /\ Dst(t) # Src(t)
         /\ {First(t), Second(t)} = {Dst(t), Src(t)} /\ First(t) # Second(t)
         /\ {FirstOut(t), SecondOut(t)} = {Dst(t), Src(t)} /\ FirstOut(t) # SecondOut(t)
<1>. USE VectorAddAssumption DEF VectorAddAssumption
<1>1. /\ {Pair(t)[1], Pair(t)[2]} \subseteq Vectors
      /\ Pair(t)[1] # Pair(t)[2]
  BY DEF Pair, Threads, Vectors
<1>2. {Dst(t), Src(t)} \subseteq Vectors /\ Dst(t) # Src(t)
  BY <1>1 DEF Dst, Src
<1>. QED  BY <1>2 DEF First, Second, FirstOut, SecondOut

\* The switches do not change while the program runs, and with them the order
\* in which a thread takes its vectors.
LEMMA SameVectors ==
  ASSUME UNCHANGED config, NEW t \in Threads
  PROVE  /\ Dst(t)' = Dst(t) /\ Src(t)' = Src(t)
         /\ First(t)' = First(t) /\ Second(t)' = Second(t)
         /\ FirstOut(t)' = FirstOut(t) /\ SecondOut(t)' = SecondOut(t)
<1>1. Dst(t)' = Dst(t) /\ Src(t)' = Src(t)
  BY DEF config, Dst, Src, Swaps, Pair
<1>. QED  BY <1>1 DEF config, First, Second, FirstOut, SecondOut

\* What a thread holds, point by point.
LEMMA HeldByPoint ==
  ASSUME NEW t \in Threads
  PROVE  /\ pc[t] \in {"lock2", "count", "backout"} => Held(t) = {First(t)}
         /\ pc[t] \in {"unglobal", "load", "store", "unlock1"} =>
              Held(t) = IF program # "nolock" THEN {Dst(t), Src(t)} ELSE {}
         /\ pc[t] = "unlock2" => Held(t) = {SecondOut(t)}
         /\ pc[t] \notin {"lock2", "count", "backout", "unglobal", "load", "store", "unlock1", "unlock2"}
              => Held(t) = {}
BY DEF Held

\* The same after a step, which does not change the program.
LEMMA HeldByPointNext ==
  ASSUME NEW t \in Threads, UNCHANGED config
  PROVE  /\ pc'[t] \in {"lock2", "count", "backout"} => Held(t)' = {First(t)}
         /\ pc'[t] \in {"unglobal", "load", "store", "unlock1"} =>
              Held(t)' = IF program # "nolock" THEN {Dst(t), Src(t)} ELSE {}
         /\ pc'[t] = "unlock2" => Held(t)' = {SecondOut(t)}
         /\ pc'[t] \notin {"lock2", "count", "backout", "unglobal", "load", "store", "unlock1", "unlock2"}
              => Held(t)' = {}
         /\ pc'[t] = pc[t] => Held(t)' = Held(t)
<1>1. program' = program
  BY DEF config
<1>. QED  BY <1>1, SameVectors DEF Held

\* The part of Owners about the locks of the vectors.
VectorOwners == \A t \in Threads : {v \in Vectors : lock[v] = t} = Held(t)

\* A step of one thread that keeps, takes or leaves the lock of a vector keeps
\* VectorOwners, if what the thread must hold changes in the same way.
LEMMA VectorOwnersNext ==
  ASSUME TypeOK, VectorOwners, NEW t \in Threads, UNCHANGED config,
         \A u \in Threads \ {t} : pc'[u] = pc[u]
  PROVE  /\ lock' = lock /\ Held(t)' = Held(t) => VectorOwners'
         /\ \A v \in Vectors :
              /\ /\ MutexLock(lock, v, t) /\ Held(t)' = Held(t) \union {v}
                 => VectorOwners'
              /\ /\ v \in Held(t) /\ MutexUnlock(lock, v) /\ Held(t)' = Held(t) \ {v}
                 => VectorOwners'
<1>1. \A u \in Threads \ {t} : Held(u)' = Held(u)
  BY HeldByPointNext
<1>2. \A u \in Threads : u # Free
  BY DEF Threads, Free
<1>3. ASSUME lock' = lock, Held(t)' = Held(t) PROVE VectorOwners'
  BY <1>1, <1>3 DEF VectorOwners
<1>4. ASSUME NEW v \in Vectors, MutexLock(lock, v, t), Held(t)' = Held(t) \union {v}
      PROVE  VectorOwners'
  <2>1. ASSUME NEW u \in Threads, u # t PROVE {w \in Vectors : lock'[w] = u} = Held(u)'
    BY <1>1, <1>2, <1>4, <2>1 DEF VectorOwners, MutexLock, TypeOK
  <2>2. {w \in Vectors : lock'[w] = t} = Held(t) \union {v}
    BY <1>4 DEF VectorOwners, MutexLock, TypeOK
  <2>. QED  BY <1>4, <2>1, <2>2 DEF VectorOwners
<1>5. ASSUME NEW v \in Vectors, v \in Held(t), MutexUnlock(lock, v), Held(t)' = Held(t) \ {v}
      PROVE  VectorOwners'
  <2>1. lock[v] = t
    BY <1>5 DEF VectorOwners
  <2>2. ASSUME NEW u \in Threads, u # t PROVE {w \in Vectors : lock'[w] = u} = Held(u)'
    BY <1>1, <1>2, <1>5, <2>1, <2>2 DEF VectorOwners, MutexUnlock, TypeOK
  <2>3. {w \in Vectors : lock'[w] = t} = Held(t) \ {v}
    BY <1>2, <1>5 DEF VectorOwners, MutexUnlock, TypeOK
  <2>. QED  BY <1>5, <2>2, <2>3 DEF VectorOwners
<1>. QED  BY <1>3, <1>4, <1>5

\* Where vector_add begins in each program.
LEMMA BeginPoint ==
  ASSUME program \in Programs
  PROVE  /\ Begin \in {"load", "global", "lock1"}
         /\ Begin = "load" <=> program = "nolock"
         /\ Begin = "global" <=> program = "avoid-hold-and-wait"
BY DEF Begin, Programs

\* At the start every lock is free.
LEMMA InitIInv == Init => IInv
<1>. SUFFICES ASSUME Init PROVE IInv
  OBVIOUS
<1>. USE VectorAddAssumption DEF VectorAddAssumption
<1>1. \A v \in Vectors : v % IntRange \in 0 .. IntRange - 1
  BY DEF Vectors
<1>2. TypeOK
  BY <1>1 DEF Init, TypeOK, Points, Free
<1>3. \A t \in Threads : t # Free
  BY DEF Threads, Free
<1>4. Owners
  BY <1>3 DEF Init, Owners, Held
<1>5. OnPath
  BY DEF Init, OnPath
<1>. QED  BY <1>2, <1>4, <1>5 DEF IInv

\* The inductive step: every action, with the locks it takes and gives back.
LEMMA NextIInv == IInv /\ [Next]_vars => IInv'
<1>. SUFFICES ASSUME IInv, [Next]_vars PROVE IInv'
  OBVIOUS
<1>. USE VectorAddAssumption DEF VectorAddAssumption, IInv, Go, locks
<1>f. /\ \A t \in Threads : t # Free
      /\ VectorOwners
      /\ program \in Programs
  <2>1. \A t \in Threads : t # Free
    BY DEF Threads, Free
  <2>2. VectorOwners
    BY DEF Owners, VectorOwners
  <2>. QED  BY <2>1, <2>2 DEF TypeOK
<1>1. ASSUME NEW t \in Threads, LockGlobal(t) PROVE IInv'
  <2>1. /\ UNCHANGED config
        /\ \A u \in Threads \ {t} : pc'[u] = pc[u]
    BY <1>1 DEF LockGlobal, TypeOK
  <2>2. TypeOK'
    BY <1>1 DEF LockGlobal, TypeOK, Points, config, OnPath
  <2>3. VectorOwners'
    <3>1. Held(t)' = Held(t)
      BY <1>1, <2>1, HeldByPoint, HeldByPointNext DEF LockGlobal, TypeOK, OnPath
    <3>. QED  BY <1>1, <1>f, <2>1, <3>1, VectorOwnersNext DEF LockGlobal
  <2>4. Owners'
    BY <1>1, <1>f, <2>1, <2>3 DEF LockGlobal, TypeOK, Owners, VectorOwners, OnPath, config
  <2>5. OnPath'
    BY <1>1, <2>1 DEF LockGlobal, TypeOK, OnPath, config
  <2>. QED  BY <2>2, <2>4, <2>5
<1>2. ASSUME NEW t \in Threads, LockFirst(t) PROVE IInv'
  <2>1. /\ UNCHANGED config
        /\ \A u \in Threads \ {t} : pc'[u] = pc[u]
    BY <1>2 DEF LockFirst, TypeOK
  <2>2. TypeOK'
    BY <1>2, TwoVectors DEF LockFirst, MutexLock, TypeOK, Points, config, OnPath
  <2>3. VectorOwners'
    <3>1. Held(t) = {} /\ Held(t)' = {First(t)}
      BY <1>2, <2>1, HeldByPoint, HeldByPointNext DEF LockFirst, TypeOK, OnPath
    <3>2. Held(t)' = Held(t) \union {First(t)} /\ First(t) \in Vectors
      BY <3>1, TwoVectors
    <3>. QED  BY <1>2, <1>f, <2>1, <3>2, VectorOwnersNext DEF LockFirst
  <2>4. Owners'
    BY <1>2, <1>f, <2>1, <2>3 DEF LockFirst, TypeOK, Owners, VectorOwners, OnPath, config
  <2>5. OnPath'
    BY <1>2, <2>1 DEF LockFirst, TypeOK, OnPath, config
  <2>. QED  BY <2>2, <2>4, <2>5
<1>3. ASSUME NEW t \in Threads, LockSecond(t) PROVE IInv'
  <2>1. /\ UNCHANGED config
        /\ \A u \in Threads \ {t} : pc'[u] = pc[u]
    BY <1>3 DEF LockSecond, TypeOK
  <2>2. TypeOK'
    BY <1>3, TwoVectors DEF LockSecond, MutexLock, TypeOK, Points, config, OnPath
  <2>3. VectorOwners'
    <3>1. Held(t) = {First(t)} /\ Held(t)' = {Dst(t), Src(t)}
      BY <1>3, <2>1, HeldByPoint, HeldByPointNext DEF LockSecond, TypeOK, OnPath
    <3>2. Held(t)' = Held(t) \union {Second(t)} /\ Second(t) \in Vectors
      BY <3>1, TwoVectors
    <3>. QED  BY <1>3, <1>f, <2>1, <3>2, VectorOwnersNext DEF LockSecond
  <2>4. Owners'
    BY <1>3, <1>f, <2>1, <2>3 DEF LockSecond, TypeOK, Owners, VectorOwners, OnPath, config
  <2>5. OnPath'
    BY <1>3, <2>1 DEF LockSecond, TypeOK, OnPath, config
  <2>. QED  BY <2>2, <2>4, <2>5
<1>4. ASSUME NEW t \in Threads, UnlockGlobal(t) PROVE IInv'
  <2>1. /\ UNCHANGED config
        /\ \A u \in Threads \ {t} : pc'[u] = pc[u]
    BY <1>4 DEF UnlockGlobal, TypeOK
  <2>2. TypeOK'
    BY <1>4 DEF UnlockGlobal, TypeOK, Points, config, OnPath
  <2>3. VectorOwners'
    <3>1. Held(t)' = Held(t)
      BY <1>4, <2>1, HeldByPoint, HeldByPointNext DEF UnlockGlobal, TypeOK, OnPath
    <3>. QED  BY <1>4, <1>f, <2>1, <3>1, VectorOwnersNext DEF UnlockGlobal
  <2>4. Owners'
    BY <1>4, <1>f, <2>1, <2>3 DEF UnlockGlobal, TypeOK, Owners, VectorOwners, OnPath, config
  <2>5. OnPath'
    BY <1>4, <2>1 DEF UnlockGlobal, TypeOK, OnPath, config
  <2>. QED  BY <2>2, <2>4, <2>5
<1>5. ASSUME NEW t \in Threads, TrySecondFails(t) PROVE IInv'
  <2>1. /\ UNCHANGED config
        /\ \A u \in Threads \ {t} : pc'[u] = pc[u]
    BY <1>5 DEF TrySecondFails, TypeOK
  <2>2. TypeOK'
    BY <1>5 DEF TrySecondFails, TypeOK, Points, config, OnPath
  <2>3. VectorOwners'
    <3>1. Held(t)' = Held(t)
      BY <1>5, <2>1, HeldByPoint, HeldByPointNext DEF TrySecondFails, TypeOK, OnPath
    <3>. QED  BY <1>5, <1>f, <2>1, <3>1, VectorOwnersNext DEF TrySecondFails
  <2>4. Owners'
    BY <1>5, <1>f, <2>1, <2>3 DEF TrySecondFails, TypeOK, Owners, VectorOwners, OnPath, config
  <2>5. OnPath'
    BY <1>5, <2>1 DEF TrySecondFails, TypeOK, OnPath, config
  <2>. QED  BY <2>2, <2>4, <2>5
<1>6. ASSUME NEW t \in Threads, CountRetry(t) PROVE IInv'
  <2>1. /\ UNCHANGED config
        /\ \A u \in Threads \ {t} : pc'[u] = pc[u]
    BY <1>6 DEF CountRetry, TypeOK
  <2>2. TypeOK'
    BY <1>6 DEF CountRetry, TypeOK, Points, config, OnPath
  <2>3. VectorOwners'
    <3>1. Held(t)' = Held(t)
      BY <1>6, <2>1, HeldByPoint, HeldByPointNext DEF CountRetry, TypeOK, OnPath
    <3>. QED  BY <1>6, <1>f, <2>1, <3>1, VectorOwnersNext DEF CountRetry
  <2>4. Owners'
    BY <1>6, <1>f, <2>1, <2>3 DEF CountRetry, TypeOK, Owners, VectorOwners, OnPath, config
  <2>5. OnPath'
    BY <1>6, <2>1 DEF CountRetry, TypeOK, OnPath, config
  <2>. QED  BY <2>2, <2>4, <2>5
<1>7. ASSUME NEW t \in Threads, BackOut(t) PROVE IInv'
  <2>1. /\ UNCHANGED config
        /\ \A u \in Threads \ {t} : pc'[u] = pc[u]
    BY <1>7 DEF BackOut, TypeOK
  <2>2. TypeOK'
    BY <1>7, TwoVectors DEF BackOut, MutexUnlock, TypeOK, Points, config, OnPath
  <2>3. VectorOwners'
    <3>1. Held(t) = {First(t)} /\ Held(t)' = {}
      BY <1>7, <2>1, HeldByPoint, HeldByPointNext DEF BackOut, TypeOK, OnPath
    <3>2. /\ Held(t)' = Held(t) \ {First(t)}
          /\ First(t) \in Held(t) /\ First(t) \in Vectors
      BY <3>1, TwoVectors
    <3>. QED  BY <1>7, <1>f, <2>1, <3>2, VectorOwnersNext DEF BackOut
  <2>4. Owners'
    BY <1>7, <1>f, <2>1, <2>3 DEF BackOut, TypeOK, Owners, VectorOwners, OnPath, config
  <2>5. OnPath'
    BY <1>7, <2>1 DEF BackOut, TypeOK, OnPath, config
  <2>. QED  BY <2>2, <2>4, <2>5
<1>8. ASSUME NEW t \in Threads, Load(t) PROVE IInv'
  <2>1. /\ UNCHANGED config
        /\ \A u \in Threads \ {t} : pc'[u] = pc[u]
    BY <1>8 DEF Load, TypeOK
  <2>a. reg'[t] \in 0 .. IntRange - 1
    <3>1. \A v \in Vectors : values[v][i[t]] \in 0 .. IntRange - 1
      BY <1>8 DEF Load, TypeOK, Elements
    <3>2. \A x, y \in 0 .. IntRange - 1 : (x + y) % IntRange \in 0 .. IntRange - 1
      OBVIOUS
    <3>. QED  BY <1>8, <3>1, <3>2, TwoVectors DEF Load, TypeOK
  <2>2. TypeOK'
    BY <1>8, <2>a DEF Load, TypeOK, Points, config
  <2>3. VectorOwners'
    <3>1. Held(t)' = Held(t)
      BY <1>8, <2>1, HeldByPoint, HeldByPointNext DEF Load, TypeOK, OnPath
    <3>. QED  BY <1>8, <1>f, <2>1, <3>1, VectorOwnersNext DEF Load
  <2>4. Owners'
    BY <1>8, <1>f, <2>1, <2>3 DEF Load, TypeOK, Owners, VectorOwners, OnPath, config
  <2>5. OnPath'
    BY <1>8, <2>1, <2>a DEF Load, TypeOK, OnPath, config
  <2>. QED  BY <2>2, <2>4, <2>5
<1>9. ASSUME NEW t \in Threads, Store(t) PROVE IInv'
  <2>1. /\ UNCHANGED config
        /\ \A u \in Threads \ {t} : pc'[u] = pc[u]
    BY <1>9 DEF Store, TypeOK
  <2>a. i[t] \in Elements /\ Sum(t) \in 0 .. IntRange - 1
    <3>1. i[t] \in Elements /\ reg[t] \in 0 .. IntRange - 1
      BY <1>9 DEF Store, TypeOK, OnPath, Elements
    <3>2. values[Dst(t)][i[t]] \in 0 .. IntRange - 1
      BY <3>1, TwoVectors DEF TypeOK
    <3>3. \A x, y \in 0 .. IntRange - 1 : (x + y) % IntRange \in 0 .. IntRange - 1
      OBVIOUS
    <3>. QED  BY <3>1, <3>2, <3>3 DEF Sum
  <2>b. values' \in [Vectors -> [Elements -> 0 .. IntRange - 1]]
    BY <1>9, <2>a, TwoVectors DEF Store, TypeOK
  <2>c. i' \in [Threads -> 1 .. VectorSize + 1]
    BY <1>9, <2>a DEF Store, TypeOK, Elements
  <2>2. TypeOK'
    BY <1>9, <2>b, <2>c DEF Store, TypeOK, Points, config
  <2>3. VectorOwners'
    <3>1. Held(t)' = Held(t)
      BY <1>9, <2>1, HeldByPoint, HeldByPointNext DEF Store, TypeOK, OnPath
    <3>. QED  BY <1>9, <1>f, <2>1, <3>1, VectorOwnersNext DEF Store
  <2>4. Owners'
    BY <1>9, <1>f, <2>1, <2>3 DEF Store, TypeOK, Owners, VectorOwners, OnPath, config
  <2>5. OnPath'
    BY <1>9, <2>1 DEF Store, TypeOK, OnPath, config
  <2>. QED  BY <2>2, <2>4, <2>5
<1>10. ASSUME NEW t \in Threads, AddDone(t) PROVE IInv'
  <2>1. /\ UNCHANGED config
        /\ \A u \in Threads \ {t} : pc'[u] = pc[u]
    BY <1>10 DEF AddDone, TypeOK
  <2>2. TypeOK'
    BY <1>10 DEF AddDone, TypeOK, Points, config, OnPath
  <2>3. VectorOwners'
    <3>1. Held(t)' = Held(t)
      BY <1>10, <2>1, HeldByPoint, HeldByPointNext DEF AddDone, TypeOK, OnPath
    <3>. QED  BY <1>10, <1>f, <2>1, <3>1, VectorOwnersNext DEF AddDone
  <2>4. Owners'
    BY <1>10, <1>f, <2>1, <2>3 DEF AddDone, TypeOK, Owners, VectorOwners, OnPath, config
  <2>5. OnPath'
    BY <1>10, <2>1 DEF AddDone, TypeOK, OnPath, config
  <2>. QED  BY <2>2, <2>4, <2>5
<1>11. ASSUME NEW t \in Threads, UnlockFirst(t) PROVE IInv'
  <2>1. /\ UNCHANGED config
        /\ \A u \in Threads \ {t} : pc'[u] = pc[u]
    BY <1>11 DEF UnlockFirst, TypeOK
  <2>2. TypeOK'
    BY <1>11, TwoVectors DEF UnlockFirst, MutexUnlock, TypeOK, Points, config, OnPath
  <2>3. VectorOwners'
    <3>1. Held(t) = {Dst(t), Src(t)} /\ Held(t)' = {SecondOut(t)}
      BY <1>11, <2>1, HeldByPoint, HeldByPointNext DEF UnlockFirst, TypeOK, OnPath
    <3>2. /\ Held(t)' = Held(t) \ {FirstOut(t)}
          /\ FirstOut(t) \in Held(t) /\ FirstOut(t) \in Vectors
      BY <3>1, TwoVectors
    <3>. QED  BY <1>11, <1>f, <2>1, <3>2, VectorOwnersNext DEF UnlockFirst
  <2>4. Owners'
    BY <1>11, <1>f, <2>1, <2>3 DEF UnlockFirst, TypeOK, Owners, VectorOwners, OnPath, config
  <2>5. OnPath'
    BY <1>11, <2>1 DEF UnlockFirst, TypeOK, OnPath, config
  <2>. QED  BY <2>2, <2>4, <2>5
<1>12. ASSUME NEW t \in Threads, UnlockSecond(t) PROVE IInv'
  <2>1. /\ UNCHANGED config
        /\ \A u \in Threads \ {t} : pc'[u] = pc[u]
    BY <1>12 DEF UnlockSecond, TypeOK
  <2>2. TypeOK'
    BY <1>12, TwoVectors DEF UnlockSecond, MutexUnlock, TypeOK, Points, config, OnPath
  <2>3. VectorOwners'
    <3>1. Held(t) = {SecondOut(t)} /\ Held(t)' = {}
      BY <1>12, <2>1, HeldByPoint, HeldByPointNext DEF UnlockSecond, TypeOK, OnPath
    <3>2. /\ Held(t)' = Held(t) \ {SecondOut(t)}
          /\ SecondOut(t) \in Held(t) /\ SecondOut(t) \in Vectors
      BY <3>1, TwoVectors
    <3>. QED  BY <1>12, <1>f, <2>1, <3>2, VectorOwnersNext DEF UnlockSecond
  <2>4. Owners'
    BY <1>12, <1>f, <2>1, <2>3 DEF UnlockSecond, TypeOK, Owners, VectorOwners, OnPath, config
  <2>5. OnPath'
    BY <1>12, <2>1 DEF UnlockSecond, TypeOK, OnPath, config
  <2>. QED  BY <2>2, <2>4, <2>5
<1>13. ASSUME NEW t \in Threads, Loop(t) PROVE IInv'
  <2>1. /\ UNCHANGED config
        /\ \A u \in Threads \ {t} : pc'[u] = pc[u]
    BY <1>13 DEF Loop, TypeOK
  <2>2. TypeOK'
    BY <1>13, <1>f, BeginPoint DEF Loop, TypeOK, Points, config, OnPath
  <2>3. VectorOwners'
    <3>1. Held(t)' = Held(t)
      BY <1>13, <2>1, HeldByPoint, HeldByPointNext, <1>f, BeginPoint DEF Loop, TypeOK, OnPath
    <3>. QED  BY <1>13, <1>f, <2>1, <3>1, VectorOwnersNext DEF Loop
  <2>4. Owners'
    BY <1>13, <1>f, <2>1, <2>3, BeginPoint DEF Loop, TypeOK, Owners, VectorOwners, OnPath, config
  <2>5. OnPath'
    BY <1>13, <2>1, <1>f, BeginPoint DEF Loop, TypeOK, OnPath, config
  <2>. QED  BY <2>2, <2>4, <2>5
<1>14. ASSUME NEW t \in Threads, UnlockPrint(t) PROVE IInv'
  <2>1. /\ UNCHANGED config
        /\ \A u \in Threads \ {t} : pc'[u] = pc[u]
    BY <1>14 DEF UnlockPrint, TypeOK
  <2>2. TypeOK'
    BY <1>14, <1>f, BeginPoint DEF UnlockPrint, TypeOK, Points, config, OnPath
  <2>3. VectorOwners'
    <3>1. Held(t)' = Held(t)
      BY <1>14, <2>1, HeldByPoint, HeldByPointNext, <1>f, BeginPoint DEF UnlockPrint, TypeOK, OnPath
    <3>. QED  BY <1>14, <1>f, <2>1, <3>1, VectorOwnersNext DEF UnlockPrint
  <2>4. Owners'
    BY <1>14, <1>f, <2>1, <2>3, BeginPoint DEF UnlockPrint, TypeOK, Owners, VectorOwners, OnPath, config
  <2>5. OnPath'
    BY <1>14, <2>1, <1>f, BeginPoint DEF UnlockPrint, TypeOK, OnPath, config
  <2>. QED  BY <2>2, <2>4, <2>5
<1>15. ASSUME NEW t \in Threads, LockPrint(t) PROVE IInv'
  <2>1. /\ UNCHANGED config
        /\ \A u \in Threads \ {t} : pc'[u] = pc[u]
    BY <1>15 DEF LockPrint, TypeOK
  <2>2. TypeOK'
    BY <1>15 DEF LockPrint, TypeOK, Points, config, OnPath
  <2>3. VectorOwners'
    <3>1. Held(t)' = Held(t)
      BY <1>15, <2>1, HeldByPoint, HeldByPointNext DEF LockPrint, TypeOK, OnPath
    <3>. QED  BY <1>15, <1>f, <2>1, <3>1, VectorOwnersNext DEF LockPrint
  <2>4. Owners'
    BY <1>15, <1>f, <2>1, <2>3 DEF LockPrint, TypeOK, Owners, VectorOwners, OnPath, config
  <2>5. OnPath'
    BY <1>15, <2>1 DEF LockPrint, TypeOK, OnPath, config
  <2>. QED  BY <2>2, <2>4, <2>5
<1>16. ASSUME NEW t \in Threads, Quietly(t) PROVE IInv'
  <2>1. /\ UNCHANGED config
        /\ \A u \in Threads \ {t} : pc'[u] = pc[u]
    BY <1>16 DEF Quietly, TypeOK
  <2>2. TypeOK'
    BY <1>16 DEF Quietly, TypeOK, Points, config, OnPath
  <2>3. VectorOwners'
    <3>1. Held(t)' = Held(t)
      BY <1>16, <2>1, HeldByPoint, HeldByPointNext DEF Quietly, TypeOK, OnPath
    <3>. QED  BY <1>16, <1>f, <2>1, <3>1, VectorOwnersNext DEF Quietly
  <2>4. Owners'
    BY <1>16, <1>f, <2>1, <2>3 DEF Quietly, TypeOK, Owners, VectorOwners, OnPath, config
  <2>5. OnPath'
    BY <1>16, <2>1 DEF Quietly, TypeOK, OnPath, config
  <2>. QED  BY <2>2, <2>4, <2>5
<1>17. ASSUME NEW t \in Threads, Finish(t) PROVE IInv'
  <2>1. /\ UNCHANGED config
        /\ \A u \in Threads \ {t} : pc'[u] = pc[u]
    BY <1>17 DEF Finish, TypeOK
  <2>2. TypeOK'
    BY <1>17 DEF Finish, TypeOK, Points, config, OnPath
  <2>3. VectorOwners'
    <3>1. Held(t)' = Held(t)
      BY <1>17, <2>1, HeldByPoint, HeldByPointNext DEF Finish, TypeOK, OnPath
    <3>. QED  BY <1>17, <1>f, <2>1, <3>1, VectorOwnersNext DEF Finish
  <2>4. Owners'
    BY <1>17, <1>f, <2>1, <2>3 DEF Finish, TypeOK, Owners, VectorOwners, OnPath, config
  <2>5. OnPath'
    BY <1>17, <2>1 DEF Finish, TypeOK, OnPath, config
  <2>. QED  BY <2>2, <2>4, <2>5
<1>18. ASSUME NEW t \in Threads, Create(t) PROVE IInv'
  <2>1. /\ UNCHANGED config
        /\ \A u \in Threads \ {t} : pc'[u] = pc[u]
    BY <1>18 DEF Create, TypeOK
  <2>2. TypeOK'
    BY <1>18 DEF Create, TypeOK, Points, config, OnPath
  <2>3. VectorOwners'
    <3>1. Held(t)' = Held(t)
      BY <1>18, <2>1, HeldByPoint, HeldByPointNext DEF Create, TypeOK, OnPath
    <3>. QED  BY <1>18, <1>f, <2>1, <3>1, VectorOwnersNext DEF Create
  <2>4. Owners'
    BY <1>18, <1>f, <2>1, <2>3 DEF Create, TypeOK, Owners, VectorOwners, OnPath, config
  <2>5. OnPath'
    BY <1>18, <2>1 DEF Create, TypeOK, OnPath, config
  <2>. QED  BY <2>2, <2>4, <2>5
<1>19. CASE Join \/ UNCHANGED vars
  <2>1. /\ UNCHANGED <<config, locks, values, retry, pc, iter, i, reg>>
        /\ main' \in {"run", "exit"}
    BY <1>19 DEF Join, vars, TypeOK
  <2>2. \A t \in Threads : Held(t)' = Held(t)
    BY <2>1, HeldByPointNext
  <2>. QED  BY <2>1, <2>2 DEF config, TypeOK, Owners, OnPath
<1>. QED
  BY <1>1, <1>2, <1>3, <1>4, <1>5, <1>6, <1>7, <1>8, <1>9, <1>10, <1>11, <1>12, <1>13, <1>14, <1>15, <1>16, <1>17, <1>18, <1>19 DEF Next, Step, Exited

\* Every state of every run satisfies the inductive invariant of chapter32:
\* every lock is with the thread that must hold it.
THEOREM Invariance == Spec => []IInv
<1>. QED  BY InitIInv, NextIInv, PTL DEF Spec

\* With -p nobody shares a vector with another thread.
LEMMA OwnPairs ==
  ASSUME enable_parallelism, NEW t \in Threads, NEW u \in Threads,
         {Dst(t), Src(t)} \cap {Dst(u), Src(u)} # {}
  PROVE  t = u
BY DEF Dst, Src, Pair, Threads

\* A thread that waits in its vector_add with a lock in its hand has one lock
\* and waits for the other; no other thread that waits holds a vector.
LEMMA WaitingHolder ==
  ASSUME IInv, NEW t \in Threads, NEW u \in Threads, NEW w \in Threads,
         WaitsFor(t, u), WaitsFor(u, w)
  PROVE  \/ pc[t] = "global" /\ pc[u] \in {"lock1", "lock2"}
         \/ pc[t] = "lock1" /\ pc[u] = "lock2" /\ First(u) = First(t)
         \/ pc[t] = "lock2" /\ pc[u] = "lock2" /\ First(u) = Second(t) /\ program # "try-wait"
<1>1. pc[u] \in {"global", "lock1", "lock2", "print", "added"}
  BY DEF WaitsFor
<1>2. \A v \in Vectors : lock[v] = u => pc[u] = "lock2" /\ First(u) = v
  BY <1>1, HeldByPoint DEF IInv, Owners
<1>3. global = u => pc[u] \in {"lock1", "lock2"}
  BY <1>1 DEF IInv, Owners
<1>4. print_lock # u
  BY <1>1 DEF IInv, Owners
<1>5. First(t) \in Vectors /\ Second(t) \in Vectors
  BY TwoVectors DEF IInv
<1>. QED  BY <1>2, <1>3, <1>4, <1>5 DEF WaitsFor

\* Two threads that each hold the vector the other one wants, or follow each
\* other in a longer circle, are threads of `deadlock' that add in opposite
\* directions: a common order of the vectors, a pair of vectors for each
\* thread, or the global lock leave no such two.
LEMMA CrossedLocks ==
  ASSUME IInv, NEW t \in Threads, NEW u \in Threads,
         pc[t] = "lock2", pc[u] = "lock2", First(u) = Second(t), program # "try-wait"
  PROVE  program = "deadlock" /\ Opposed
<1>1. /\ {First(t), Second(t)} = {Dst(t), Src(t)} /\ First(t) # Second(t)
      /\ {First(u), Second(u)} = {Dst(u), Src(u)} /\ First(u) # Second(u)
  BY TwoVectors DEF IInv
<1>2. t # u
  BY <1>1
<1>3. ~enable_parallelism
  BY <1>1, <1>2, OwnPairs
<1>4. program # "avoid-hold-and-wait"
  BY <1>2 DEF IInv, Owners
<1>5. program # "nolock"
  BY DEF IInv, OnPath
<1>6. program # "global-order"
  <2>1. ASSUME program = "global-order", NEW x \in Threads PROVE First(x) = 0
    BY <1>3, <2>1 DEF First, Dst, Src, Swaps, Pair
  <2>. QED  BY <1>1, <2>1
<1>7. program = "deadlock"
  BY <1>4, <1>5, <1>6 DEF IInv, TypeOK, Programs
<1>8. cause_deadlock
  <2>1. ASSUME ~cause_deadlock, NEW x \in Threads PROVE First(x) = 0
    BY <1>3, <1>7, <2>1 DEF First, Dst, Src, Swaps, Pair
  <2>. QED  BY <1>1, <2>1
<1>9. NumThreads > 1
  BY <1>2, VectorAddAssumption DEF VectorAddAssumption, Threads
<1>. QED  BY <1>3, <1>7, <1>8, <1>9 DEF Opposed

\* Threads only ever wait for each other in a circle in `deadlock -d', the
\* program and the switch that are there to show it.
THEOREM NoDeadlock == Spec => []DeadlockOnlyOnRequest
<1>1. ASSUME IInv, NEW S \in (SUBSET Threads) \ {{}}, \A t \in S : \E u \in S : WaitsFor(t, u)
      PROVE  program = "deadlock" /\ Opposed
  <2>1. \E t \in S : pc[t] = "lock2"
    <3>0. S # {}
      OBVIOUS
    <3>1. PICK t \in S : TRUE
      BY <3>0
    <3>2. PICK u \in S : WaitsFor(t, u)
      BY <1>1
    <3>3. PICK w \in S : WaitsFor(u, w)
      BY <1>1
    <3>4. PICK x \in S : WaitsFor(w, x)
      BY <1>1
    <3>. QED  BY <1>1, <3>2, <3>3, <3>4, WaitingHolder
  <2>2. PICK t \in S : pc[t] = "lock2"
    BY <2>1
  <2>3. PICK u \in S : WaitsFor(t, u)
    BY <1>1
  <2>4. PICK w \in S : WaitsFor(u, w)
    BY <1>1
  <2>. QED  BY <1>1, <2>2, <2>3, <2>4, WaitingHolder, CrossedLocks
<1>2. IInv => DeadlockOnlyOnRequest
  BY <1>1 DEF DeadlockOnlyOnRequest
<1>. QED  BY <1>2, Invariance, PTL

-----------------------------------------------------------------------------
(* What the additions add up to *)

\* How far a thread is: the calls it has begun, and the elements of this call.
Progress ==
  /\ \A t \in Threads :
       /\ pc[t] = "new" => iter[t] = 0
       /\ pc[t] \notin {"new", "loop", "done"} => iter[t] \in 1 .. Loops
       /\ pc[t] = "done" => iter[t] = Loops
       /\ pc[t] \in {"print", "printing", "global", "lock1", "lock2", "unglobal", "count", "backout"}
            => i[t] = 1
  /\ main = "exit" => \A t \in Threads : pc[t] = "done"

\* The program adds every vector as a whole: with locks, or without when no two
\* threads are opposed.
Exclusive == program = "nolock" => ~Opposed

\* What a thread has loaded is still what its vectors say.
FreshOperand ==
  Exclusive =>
    \A t \in Threads : pc[t] = "store" =>
      reg[t] = IF program = "nolock" THEN values[Src(t)][i[t]]
               ELSE (values[Dst(t)][i[t]] + values[Src(t)][i[t]]) % IntRange

\* The current call has stored element e; all of the calls that have.
Behind(t, e) ==
  \/ pc[t] \in {"unlock1", "unlock2", "added", "returning", "loop", "done"}
  \/ pc[t] \in {"load", "store"} /\ e < i[t]
StoredIn(t, c, e) == c < iter[t] \/ (c = iter[t] /\ Behind(t, e))
Calls == Threads \X (1 .. Loops)
Additions(v, e) == {p \in Calls : Dst(p[1]) = v /\ StoredIn(p[1], p[2], e)}

\* A vector that is no destination never changes.  Without opposed threads,
\* where that holds of every source, an element of a destination has grown by
\* the source once for each call that has stored it.
Accounted ==
  /\ \A v \in Vectors : (\A t \in Threads : Dst(t) # v) =>
       \A e \in Elements : values[v][e] = v % IntRange
  /\ ~Opposed =>
       \A t \in Threads, e \in Elements :
         values[Dst(t)][e] = (Dst(t) + Cardinality(Additions(Dst(t), e)) * Src(t)) % IntRange

\* With locks, whatever the directions: a vector nobody is adding to has equal
\* elements, and one that a thread is adding to has equal elements behind that
\* thread and equal elements ahead of it, one addition apart.
Adding(t) == pc[t] \in {"load", "store"}
Unison ==
  program # "nolock" =>
    /\ \A v \in Vectors : (\A t \in Threads : Adding(t) => Dst(t) # v) =>
         \A e, f \in Elements : values[v][e] = values[v][f]
    /\ \A t \in Threads : Adding(t) =>
         \A e, f \in Elements :
           /\ (e < i[t] <=> f < i[t]) => values[Dst(t)][e] = values[Dst(t)][f]
           /\ e < i[t] /\ ~(f < i[t]) =>
                values[Dst(t)][e] = (values[Dst(t)][f] + values[Src(t)][f]) % IntRange

SumInv == Progress /\ FreshOperand /\ Accounted /\ Unison

\* At the start no addition has begun and every vector holds what main put there.
LEMMA InitSumInv == Init => SumInv
<1>. SUFFICES ASSUME Init PROVE SumInv
  OBVIOUS
<1>. USE VectorAddAssumption DEF VectorAddAssumption
<1>1. Progress /\ FreshOperand
  BY DEF Init, Progress, FreshOperand
<1>2. Accounted
  <2>1. ASSUME NEW v, NEW e PROVE Additions(v, e) = {}
    BY DEF Init, Additions, Calls, StoredIn, Behind
  <2>2. IInv
    BY InitIInv
  <2>3. \A v \in Vectors, e \in Elements : values[v][e] = v % IntRange
    BY DEF Init
  <2>4. \A t \in Threads : Dst(t) \in Vectors /\ Src(t) \in Vectors /\ Src(t) \in Nat /\ Dst(t) \in Nat
    BY <2>2, TwoVectors DEF IInv, Vectors
  <2>5. \A t \in Threads, e \in Elements :
          Dst(t) + Cardinality(Additions(Dst(t), e)) * Src(t) = Dst(t)
    <3>1. \A x \in Nat : 0 * x = 0
      OBVIOUS
    <3>. QED  BY <2>1, <2>4, <3>1, FS_EmptySet
  <2>. QED  BY <2>3, <2>4, <2>5 DEF Accounted
<1>3. Unison
  BY DEF Init, Unison, Adding
<1>. QED  BY <1>1, <1>2, <1>3 DEF SumInv

\* Where a thread is agrees with the calls it has begun and the elements it
\* has stored.
LEMMA NextProgress ==
  ASSUME IInv, Progress, [Next]_vars
  PROVE  Progress'
<1>. USE VectorAddAssumption DEF VectorAddAssumption, IInv, Go
<1>1. ASSUME NEW t \in Threads, Loop(t) PROVE Progress'
  BY <1>1, BeginPoint DEF Loop, TypeOK, Progress
<1>2. ASSUME NEW t \in Threads, UnlockPrint(t) PROVE Progress'
  BY <1>2, BeginPoint DEF UnlockPrint, TypeOK, Progress
<1>3. ASSUME NEW t \in Threads, Store(t) PROVE Progress'
  BY <1>3 DEF Store, TypeOK, Progress
<1>4. ASSUME NEW t \in Threads,
             LockGlobal(t) \/ LockFirst(t) \/ LockSecond(t) \/ UnlockGlobal(t)
      PROVE  Progress'
  BY <1>4 DEF LockGlobal, LockFirst, LockSecond, UnlockGlobal, TypeOK, Progress
<1>5. ASSUME NEW t \in Threads, TrySecondFails(t) \/ CountRetry(t) \/ BackOut(t)
      PROVE  Progress'
  BY <1>5 DEF TrySecondFails, CountRetry, BackOut, TypeOK, Progress
<1>6. ASSUME NEW t \in Threads, Load(t) \/ AddDone(t) \/ UnlockFirst(t) \/ UnlockSecond(t)
      PROVE  Progress'
  BY <1>6 DEF Load, AddDone, UnlockFirst, UnlockSecond, TypeOK, Progress
<1>7. ASSUME NEW t \in Threads, LockPrint(t) \/ Quietly(t) \/ Create(t)
      PROVE  Progress'
  BY <1>7 DEF LockPrint, Quietly, Create, TypeOK, Progress
<1>8. ASSUME NEW t \in Threads, Finish(t) PROVE Progress'
  <2>1. iter[t] = Loops
    <3>1. iter[t] \in 0 .. Loops
      BY DEF TypeOK
    <3>2. ~(iter[t] < Loops)
      BY <1>8 DEF Finish
    <3>. QED  BY <3>1, <3>2
  <2>. QED  BY <1>8, <2>1 DEF Finish, TypeOK, Progress
<1>9. CASE Join \/ UNCHANGED vars
  BY <1>9 DEF Join, vars, Progress
<1>. QED
  BY <1>1, <1>2, <1>3, <1>4, <1>5, <1>6, <1>7, <1>8, <1>9 DEF Next, Step, Exited

\* With locks, two threads that are adding have no vector in common.
LEMMA OneAdder ==
  ASSUME IInv, program # "nolock", NEW t \in Threads, NEW u \in Threads, t # u,
         Adding(t), pc[u] \in {"unglobal", "load", "store", "unlock1"}
  PROVE  {Dst(t), Src(t)} \cap {Dst(u), Src(u)} = {}
<1>1. Held(t) = {Dst(t), Src(t)} /\ Held(u) = {Dst(u), Src(u)}
  BY HeldByPoint DEF Adding
<1>2. \A v \in Held(t) : lock[v] = t
  BY DEF IInv, Owners
<1>3. \A v \in Held(u) : lock[v] = u
  BY DEF IInv, Owners
<1>. QED  BY <1>1, <1>2, <1>3

\* Without opposed threads no destination is a source, and threads with the
\* same destination have the same source.
LEMMA NotOpposed ==
  ASSUME ~Opposed, NEW t \in Threads, NEW u \in Threads
  PROVE  Dst(t) # Src(u) /\ (Dst(t) = Dst(u) => Src(t) = Src(u))
<1>. USE VectorAddAssumption DEF VectorAddAssumption
<1>1. CASE enable_parallelism
  <2>1. Dst(t) # Src(t)
    BY DEF Dst, Src, Pair, Threads
  <2>. QED  BY <1>1, <2>1, OwnPairs
<1>2. CASE ~enable_parallelism /\ ~cause_deadlock
  BY <1>2 DEF Dst, Src, Pair, Swaps
<1>3. CASE ~enable_parallelism /\ ~(NumThreads > 1)
  <2>1. t = 0 /\ u = 0
    BY <1>3 DEF Threads
  <2>2. ~(0 % 2 = 1)
    OBVIOUS
  <2>. QED  BY <1>3, <2>1, <2>2 DEF Dst, Src, Pair, Swaps
<1>. QED  BY <1>1, <1>2, <1>3 DEF Opposed

\* What a step other than a store may do to the additions: no value changes,
\* no call has stored more or less than before, a thread begins at the first
\* element and leaves after the last.
LEMMA QuietStep ==
  ASSUME IInv, Progress, NEW t \in Threads, Create(t) \/ Step(t), ~Store(t)
  PROVE  /\ UNCHANGED <<config, values>>
         /\ \A u \in Threads \ {t} : /\ pc'[u] = pc[u] /\ iter'[u] = iter[u]
                                     /\ i'[u] = i[u] /\ reg'[u] = reg[u]
         /\ \A e \in Elements, c \in 1 .. Loops : StoredIn(t, c, e)' <=> StoredIn(t, c, e)
         /\ pc'[t] = "store" => Load(t)
         /\ Adding(t) /\ Adding(t)' => i'[t] = i[t]
         /\ Adding(t)' /\ ~Adding(t) => i'[t] = 1
         /\ Adding(t) /\ ~Adding(t)' => \A e \in Elements : e < i[t]
<1>. USE VectorAddAssumption DEF VectorAddAssumption, IInv, Go
<1>1. CASE Loop(t)
  BY <1>1, BeginPoint DEF Loop, TypeOK, Progress, StoredIn, Behind, Adding, Elements
<1>2. CASE UnlockPrint(t)
  BY <1>2, BeginPoint DEF UnlockPrint, TypeOK, Progress, StoredIn, Behind, Adding, Elements
<1>3. CASE LockGlobal(t) \/ LockFirst(t) \/ LockSecond(t) \/ UnlockGlobal(t)
  BY <1>3 DEF LockGlobal, LockFirst, LockSecond, UnlockGlobal, TypeOK, Progress, StoredIn,
              Behind, Adding, Elements
<1>4. CASE TrySecondFails(t) \/ CountRetry(t) \/ BackOut(t)
  BY <1>4 DEF TrySecondFails, CountRetry, BackOut, TypeOK, Progress, StoredIn, Behind, Adding,
              Elements, locks
<1>5. CASE Load(t)
  BY <1>5 DEF Load, TypeOK, Progress, StoredIn, Behind, Adding, Elements
<1>6. CASE AddDone(t)
  BY <1>6 DEF AddDone, TypeOK, Progress, StoredIn, Behind, Adding, Elements
<1>7. CASE UnlockFirst(t) \/ UnlockSecond(t) \/ LockPrint(t) \/ Quietly(t) \/ Finish(t)
  BY <1>7 DEF UnlockFirst, UnlockSecond, LockPrint, Quietly, Finish, TypeOK, Progress, StoredIn,
              Behind, Adding, Elements
<1>8. CASE Create(t)
  BY <1>8 DEF Create, TypeOK, Progress, StoredIn, Behind, Adding, Elements
<1>. QED  BY <1>1, <1>2, <1>3, <1>4, <1>5, <1>6, <1>7, <1>8 DEF Step

\* Arithmetic of ints that wrap around: a number is determined by its quotient
\* and remainder, and remainders may be added.
LEMMA Remainder ==
  ASSUME NEW x \in Nat, NEW w \in Nat \ {0}, NEW q \in Nat, NEW r \in 0 .. w - 1, x = w * q + r
  PROVE  x % w = r
OBVIOUS

\* Remainders can be added before or after they are taken.
LEMMA AddRemainders ==
  ASSUME NEW x \in Nat, NEW y \in Nat, NEW w \in Nat \ {0}
  PROVE  ((x % w) + (y % w)) % w = (x + y) % w
<1>. DEFINE a == x \div w  b == y \div w  r == x % w  q == y % w
<1>1. a \in Nat /\ b \in Nat /\ r \in 0 .. w - 1 /\ q \in 0 .. w - 1
  OBVIOUS
<1>2. x = w * a + r /\ y = w * b + q
  OBVIOUS
<1>. SUFFICES (r + q) % w = (x + y) % w
  OBVIOUS
<1>. HIDE DEF a, b, r, q
<1>3. w * (a + b) + (r + q) = w * a + r + (w * b + q) /\ w * (a + b + 1) = w * (a + b) + w
  BY <1>1
<1>4. CASE r + q < w
  <2>1. x + y = w * (a + b) + (r + q)
    BY <1>1, <1>2, <1>3
  <2>2. a + b \in Nat /\ r + q \in 0 .. w - 1 /\ x + y \in Nat
    BY <1>1, <1>4
  <2>3. (x + y) % w = r + q
    BY <2>1, <2>2, Remainder
  <2>. QED  BY <1>1, <1>4, <2>3
<1>5. CASE ~(r + q < w)
  <2>1. x + y = w * (a + b + 1) + (r + q - w) /\ r + q = w * 1 + (r + q - w)
    BY <1>1, <1>2, <1>3
  <2>2. a + b + 1 \in Nat /\ r + q - w \in 0 .. w - 1 /\ x + y \in Nat /\ r + q \in Nat
    BY <1>1, <1>5
  <2>3. (x + y) % w = r + q - w /\ (r + q) % w = r + q - w
    BY <2>1, <2>2, Remainder
  <2>. QED  BY <2>3
<1>. QED  BY <1>4, <1>5

\* What a store does: one element of the destination grows by its operand, and
\* this call, and no other, has stored it.
LEMMA StoreStep ==
  ASSUME IInv, Progress, FreshOperand, NEW t \in Threads, Store(t)
  PROVE  /\ UNCHANGED config /\ i[t] \in Elements /\ iter[t] \in 1 .. Loops
         /\ \A u \in Threads \ {t} : /\ pc'[u] = pc[u] /\ iter'[u] = iter[u]
                                     /\ i'[u] = i[u] /\ reg'[u] = reg[u]
         /\ pc[t] = "store" /\ pc'[t] = "load" /\ i'[t] = i[t] + 1
         /\ \A v \in Vectors, e \in Elements :
              ~(v = Dst(t) /\ e = i[t]) => values'[v][e] = values[v][e]
         /\ Exclusive =>
              values'[Dst(t)][i[t]] = (values[Dst(t)][i[t]] + values[Src(t)][i[t]]) % IntRange
         /\ \A e \in Elements, c \in 1 .. Loops :
              StoredIn(t, c, e)' <=> StoredIn(t, c, e) \/ (c = iter[t] /\ e = i[t])
         /\ ~StoredIn(t, iter[t], i[t])
<1>. USE VectorAddAssumption DEF VectorAddAssumption, IInv, Go
<1>1. i[t] \in Elements /\ iter[t] \in 1 .. Loops /\ UNCHANGED config
  <2>1. pc[t] = "store" /\ UNCHANGED config
    BY DEF Store
  <2>2. i[t] \in 1 .. VectorSize + 1 /\ i[t] <= VectorSize
    BY <2>1 DEF TypeOK, OnPath
  <2>3. iter[t] \in 1 .. Loops
    BY <2>1 DEF Progress
  <2>. QED  BY <2>1, <2>2, <2>3 DEF Elements
<1>2. \A u \in Threads \ {t} : /\ pc'[u] = pc[u] /\ iter'[u] = iter[u]
                               /\ i'[u] = i[u] /\ reg'[u] = reg[u]
  BY DEF Store, TypeOK
<1>3. pc[t] = "store" /\ pc'[t] = "load" /\ i'[t] = i[t] + 1 /\ iter'[t] = iter[t]
  BY DEF Store, TypeOK
<1>4. \A v \in Vectors, e \in Elements :
        ~(v = Dst(t) /\ e = i[t]) => values'[v][e] = values[v][e]
  BY DEF Store, TypeOK
<1>5. values'[Dst(t)][i[t]] = Sum(t)
  BY <1>1, TwoVectors DEF Store, TypeOK
<1>6. \A e \in Elements, c \in 1 .. Loops :
        StoredIn(t, c, e)' <=> StoredIn(t, c, e) \/ (c = iter[t] /\ e = i[t])
  BY <1>1, <1>3 DEF StoredIn, Behind, Elements
<1>7. ~StoredIn(t, iter[t], i[t])
  BY <1>1, <1>3 DEF StoredIn, Behind, Elements
<1>. QED  BY <1>1, <1>2, <1>3, <1>4, <1>5, <1>6, <1>7 DEF FreshOperand, Sum

\* No thread loses what it has loaded: with locks nobody else writes to its two
\* vectors; without, the source it has loaded does not change.
LEMMA NextFreshOperand ==
  ASSUME IInv, Progress, FreshOperand, [Next]_vars
  PROVE  FreshOperand'
<1>. DEFINE Loaded(u) == reg[u] = IF program = "nolock" THEN values[Src(u)][i[u]]
                         ELSE (values[Dst(u)][i[u]] + values[Src(u)][i[u]]) % IntRange
<1>. SUFFICES ASSUME Exclusive', NEW u \in Threads, pc'[u] = "store"
              PROVE  Loaded(u)'
  BY DEF FreshOperand
<1>0. ASSUME UNCHANGED config
      PROVE  /\ Dst(u)' = Dst(u) /\ Src(u)' = Src(u) /\ program' = program /\ Exclusive
  BY <1>0, SameVectors DEF Exclusive, Opposed, config
<1>1. ASSUME NEW t \in Threads, Store(t) PROVE Loaded(u)'
  <2>1. u # t /\ pc[u] = "store" /\ UNCHANGED config /\ i'[u] = i[u] /\ reg'[u] = reg[u]
    BY <1>1, StoreStep
  <2>2. i[u] \in Elements /\ Dst(u) \in Vectors /\ Src(u) \in Vectors
    BY <2>1, TwoVectors DEF IInv, TypeOK, OnPath, Elements
  <2>3. program # "nolock" => Dst(u) # Dst(t) /\ Src(u) # Dst(t)
    BY <1>1, <2>1, OneAdder, StoreStep DEF Adding
  <2>4. program = "nolock" => Src(u) # Dst(t)
    BY <1>0, <2>1, NotOpposed DEF Exclusive
  <2>5. /\ values'[Src(u)][i[u]] = values[Src(u)][i[u]]
        /\ program # "nolock" => values'[Dst(u)][i[u]] = values[Dst(u)][i[u]]
    BY <1>1, <2>2, <2>3, <2>4, StoreStep
  <2>. QED  BY <1>0, <2>1, <2>5 DEF FreshOperand
<1>2. ASSUME NEW t \in Threads, Create(t) \/ Step(t), ~Store(t) PROVE Loaded(u)'
  <2>1. UNCHANGED <<config, values>>
    BY <1>2, QuietStep
  <2>2. CASE u # t
    <3>1. pc[u] = "store" /\ i'[u] = i[u] /\ reg'[u] = reg[u]
      BY <1>2, <2>2, QuietStep
    <3>. QED  BY <1>0, <2>1, <3>1 DEF FreshOperand
  <2>3. CASE u = t
    <3>1. Load(u)
      BY <1>2, <2>3, QuietStep
    <3>. QED  BY <1>0, <2>1, <3>1 DEF Load, IInv, TypeOK
  <2>. QED  BY <2>2, <2>3
<1>3. CASE Join \/ UNCHANGED vars
  <2>1. UNCHANGED <<config, values, pc, i, reg>>
    BY <1>3 DEF Join, vars
  <2>. QED  BY <1>0, <2>1 DEF FreshOperand
<1>. QED  BY <1>1, <1>2, <1>3 DEF Next, Step, Exited

\* There are finitely many additions to an element.
LEMMA AdditionsFinite ==
  ASSUME NEW v, NEW e
  PROVE  IsFiniteSet(Additions(v, e)) /\ Cardinality(Additions(v, e)) \in Nat
<1>1. IsFiniteSet(Threads) /\ IsFiniteSet(1 .. Loops)
  BY FS_Interval, VectorAddAssumption DEF VectorAddAssumption, Threads
<1>2. IsFiniteSet(Calls)
  BY <1>1, FS_Product DEF Calls
<1>3. Additions(v, e) \in SUBSET Calls
  BY DEF Additions
<1>. QED  BY <1>2, <1>3, FS_Subset, FS_CardinalityType

\* A store of t adds its call to the additions of one element; no other step
\* changes them.
LEMMA NextAdditions ==
  ASSUME IInv, Progress, FreshOperand, NEW t \in Threads, Create(t) \/ Step(t),
         NEW v \in Vectors, NEW e \in Elements
  PROVE  /\ ~(Store(t) /\ v = Dst(t) /\ e = i[t]) => Additions(v, e)' = Additions(v, e)
         /\ Store(t) /\ v = Dst(t) /\ e = i[t] =>
              Cardinality(Additions(v, e)') = Cardinality(Additions(v, e)) + 1
<1>1. /\ UNCHANGED config
      /\ \A u \in Threads \ {t} : pc'[u] = pc[u] /\ iter'[u] = iter[u] /\ i'[u] = i[u]
  BY StoreStep, QuietStep
<1>2. \A u \in Threads \ {t}, c \in 1 .. Loops : StoredIn(u, c, e)' <=> StoredIn(u, c, e)
  BY <1>1 DEF StoredIn, Behind
<1>3. \A u \in Threads : Dst(u)' = Dst(u)
  BY <1>1, SameVectors
<1>4. ASSUME ~(Store(t) /\ v = Dst(t) /\ e = i[t])
      PROVE  Additions(v, e)' = Additions(v, e)
  <2>1. \A c \in 1 .. Loops : v = Dst(t) => (StoredIn(t, c, e)' <=> StoredIn(t, c, e))
    BY <1>4, StoreStep, QuietStep
  <2>. QED  BY <1>2, <1>3, <2>1 DEF Additions, Calls
<1>5. ASSUME Store(t), v = Dst(t), e = i[t]
      PROVE  Cardinality(Additions(v, e)') = Cardinality(Additions(v, e)) + 1
  <2>1. /\ \A c \in 1 .. Loops : StoredIn(t, c, e)' <=> StoredIn(t, c, e) \/ c = iter[t]
        /\ ~StoredIn(t, iter[t], e) /\ iter[t] \in 1 .. Loops
    BY <1>5, StoreStep
  <2>2. /\ Additions(v, e)' = Additions(v, e) \union {<<t, iter[t]>>}
        /\ <<t, iter[t]>> \notin Additions(v, e)
    BY <1>2, <1>3, <1>5, <2>1 DEF Additions, Calls
  <2>. QED  BY <2>2, AdditionsFinite, FS_AddElement
<1>. QED  BY <1>4, <1>5

\* A store adds the source once, and stores one addition more.
LEMMA NextAccounted ==
  ASSUME IInv, Progress, FreshOperand, Accounted, [Next]_vars
  PROVE  Accounted'
<1>. USE VectorAddAssumption DEF VectorAddAssumption
<1>1. UNCHANGED config
  <2>1. ASSUME NEW t \in Threads, Create(t) \/ Step(t) PROVE UNCHANGED config
    BY <2>1, StoreStep, QuietStep
  <2>. QED  BY <2>1 DEF Next, Exited, Join, vars
<1>2. ASSUME NEW v \in Vectors, NEW e \in Elements, \A t \in Threads : Dst(t)' # v
      PROVE  values'[v][e] = v % IntRange
  <2>1. \A t \in Threads : Dst(t) # v
    BY <1>1, <1>2, SameVectors
  <2>2. values'[v][e] = values[v][e]
    <3>1. ASSUME NEW t \in Threads, Create(t) \/ Step(t) PROVE values'[v][e] = values[v][e]
      BY <2>1, <3>1, StoreStep, QuietStep
    <3>. QED  BY <3>1 DEF Next, Exited, Join, vars
  <2>. QED  BY <2>1, <2>2 DEF Accounted
<1>3. ASSUME ~Opposed', NEW u \in Threads, NEW e \in Elements
      PROVE  (values[Dst(u)][e] =
               (Dst(u) + Cardinality(Additions(Dst(u), e)) * Src(u)) % IntRange)'
  <2>1. PICK d \in Vectors, s \in Vectors : d = Dst(u) /\ s = Src(u)
    BY TwoVectors DEF IInv
  <2>2. d \in Nat /\ s \in Nat
    BY DEF Vectors
  <2>. DEFINE Grown == values[d][e] = (d + Cardinality(Additions(d, e)) * s) % IntRange
  <2>3. Dst(u)' = d /\ Src(u)' = s /\ ~Opposed
    BY <1>1, <1>3, <2>1, SameVectors DEF Opposed, config
  <2>4. Grown /\ values[s][e] = s % IntRange
    BY <2>1, <2>3, NotOpposed DEF Accounted
  <2>5. SUFFICES Grown'
    BY <2>3 DEF Additions
  <2>6. ASSUME NEW t \in Threads, Create(t) \/ Step(t), ~(Store(t) /\ d = Dst(t) /\ e = i[t])
        PROVE  Grown'
    <3>1. Additions(d, e)' = Additions(d, e)
      BY <2>6, NextAdditions
    <3>2. values'[d][e] = values[d][e]
      BY <2>6, StoreStep, QuietStep
    <3>. QED  BY <2>4, <3>1, <3>2
  <2>7. ASSUME NEW t \in Threads, Store(t), d = Dst(t), e = i[t] PROVE Grown'
    <3>. DEFINE c == Cardinality(Additions(d, e))
                x == d + c * s
    <3>1. c \in Nat /\ Cardinality(Additions(d, e)') = c + 1
      BY <2>7, NextAdditions, AdditionsFinite DEF Step
    <3>2. values'[d][e] = (values[d][e] + values[s][e]) % IntRange
      <4>1. Exclusive /\ Src(t) = s
        BY <2>1, <2>3, <2>7, NotOpposed DEF Exclusive
      <4>. QED  BY <2>7, <4>1, StoreStep
    <3>3. values'[d][e] = ((x % IntRange) + (s % IntRange)) % IntRange
      BY <2>4, <3>2
    <3>4. x \in Nat /\ x + s = d + (c + 1) * s
      <4>. HIDE DEF c
      <4>1. c * s \in Nat /\ (c + 1) * s = c * s + s
        BY <2>2, <3>1
      <4>. QED  BY <2>2, <3>1, <4>1
    <3>5. values'[d][e] = (d + (c + 1) * s) % IntRange
      <4>. HIDE DEF c, x
      <4>1. ((x % IntRange) + (s % IntRange)) % IntRange = (x + s) % IntRange
        BY <2>2, <3>4, AddRemainders
      <4>. QED  BY <3>3, <3>4, <4>1
    <3>. QED  BY <3>1, <3>5
  <2>8. CASE Join \/ UNCHANGED vars
    <3>1. UNCHANGED <<config, values, pc, iter, i>>
      BY <2>8 DEF Join, vars
    <3>2. Additions(d, e)' = Additions(d, e)
      BY <3>1, SameVectors DEF Additions, Calls, StoredIn, Behind
    <3>. QED  BY <2>4, <3>1, <3>2
  <2>. QED  BY <2>6, <2>7, <2>8 DEF Next, Exited
<1>. QED  BY <1>2, <1>3 DEF Accounted

\* The elements of v are equal.
Even(v) == \A e, f \in Elements : values[v][e] = values[v][f]

\* The vector a thread is adding is one that nobody is adding to.
LEMMA EvenSource ==
  ASSUME IInv, Unison, program # "nolock", NEW t \in Threads, Adding(t)
  PROVE  Even(Src(t))
<1>1. \A u \in Threads : Adding(u) => Dst(u) # Src(t)
  BY OneAdder, TwoVectors DEF Adding, IInv
<1>. QED  BY <1>1, TwoVectors DEF Unison, Even, IInv

\* With one addition at a time, the elements behind its index are still equal,
\* and so are those before it.
LEMMA NextUnison ==
  ASSUME IInv, IInv', Progress, FreshOperand, Unison, [Next]_vars
  PROVE  Unison'
<1>. USE VectorAddAssumption DEF VectorAddAssumption
<1>. SUFFICES ASSUME program' # "nolock" PROVE Unison'
  BY DEF Unison
<1>. DEFINE Level(u) == \A e, f \in Elements :
              /\ (e < i[u] <=> f < i[u]) => values[Dst(u)][e] = values[Dst(u)][f]
              /\ e < i[u] /\ ~(f < i[u]) =>
                   values[Dst(u)][e] = (values[Dst(u)][f] + values[Src(u)][f]) % IntRange
<1>1. UNCHANGED config
  <2>1. ASSUME NEW t \in Threads, Create(t) \/ Step(t) PROVE UNCHANGED config
    BY <2>1, StoreStep, QuietStep
  <2>. QED  BY <2>1 DEF Next, Exited, Join, vars
<1>2. program # "nolock" /\ \A u \in Threads : Dst(u)' = Dst(u) /\ Src(u)' = Src(u)
  BY <1>1, SameVectors DEF config
<1>3. /\ \A v \in Vectors : (\A u \in Threads : Adding(u) => Dst(u) # v) => Even(v)
      /\ \A u \in Threads : Adding(u) => Level(u)
  BY <1>2 DEF Unison, Even
<1>4. SUFFICES /\ \A v \in Vectors : (\A u \in Threads : Adding(u)' => Dst(u) # v) => Even(v)'
               /\ \A u \in Threads : Adding(u)' => Level(u)'
  BY <1>2 DEF Unison, Even
\* A store takes one element from the part ahead of t to the part behind it.
<1>5. ASSUME NEW t \in Threads, Store(t)
      PROVE  /\ \A v \in Vectors : (\A u \in Threads : Adding(u)' => Dst(u) # v) => Even(v)'
             /\ \A u \in Threads : Adding(u)' => Level(u)'
  <2>. DEFINE d == Dst(t)  s == Src(t)  n == i[t]
  <2>1. /\ Adding(t) /\ Adding(t)' /\ n \in Elements /\ i'[t] = n + 1
        /\ \A u \in Threads \ {t} : (Adding(u)' <=> Adding(u)) /\ i'[u] = i[u]
    BY <1>5, StoreStep DEF Adding
  <2>2. d \in Vectors /\ s \in Vectors /\ d # s
    BY TwoVectors DEF IInv
  <2>3. /\ \A v \in Vectors \ {d}, e \in Elements : values'[v][e] = values[v][e]
        /\ \A e \in Elements \ {n} : values'[d][e] = values[d][e]
        /\ values'[d][n] = (values[d][n] + values[s][n]) % IntRange
    <3>1. Exclusive
      BY <1>2 DEF Exclusive
    <3>. QED  BY <1>5, <2>2, <3>1, StoreStep
  <2>4. ASSUME NEW v \in Vectors, \A u \in Threads : Adding(u)' => Dst(u) # v
        PROVE  Even(v)'
    <3>1. v # d /\ \A u \in Threads : Adding(u) => Dst(u) # v
      BY <2>1, <2>4
    <3>. QED  BY <1>3, <2>3, <3>1 DEF Even
  <2>5. ASSUME NEW u \in Threads, u # t, Adding(u)' PROVE Level(u)'
    <3>1. Adding(u) /\ i'[u] = i[u]
      BY <2>1, <2>5
    <3>2. Dst(u) # d /\ Src(u) # d /\ Dst(u) \in Vectors /\ Src(u) \in Vectors
      BY <1>2, <2>1, <2>5, <3>1, OneAdder, TwoVectors DEF Adding, IInv
    <3>3. Level(u)
      BY <1>3, <3>1
    <3>. QED  BY <1>2, <2>3, <3>1, <3>2, <3>3
  <2>6. Level(t)'
    <3>1. Level(t) /\ Even(s)
      BY <1>2, <1>3, <2>1, EvenSource
    <3>2. Elements \subseteq Int /\ ~(n < n)
      BY <2>1 DEF Elements
    <3>. HIDE DEF d, s, n
    <3>a. \A e, f \in Elements :
            /\ (e < n <=> f < n) => values[d][e] = values[d][f]
            /\ e < n /\ ~(f < n) => values[d][e] = (values[d][f] + values[s][f]) % IntRange
      BY <3>1 DEF d, s, n
    <3>3. \A e \in Elements : e < n => values[d][e] = (values[d][n] + values[s][n]) % IntRange
      BY <2>1, <3>a, <3>2
    <3>4. \A e \in Elements : e < n + 1 => values'[d][e] = values'[d][n]
      <4>1. ASSUME NEW e \in Elements, e < n + 1, e # n PROVE e < n
        BY <2>1, <3>2, <4>1
      <4>. QED  BY <2>1, <2>3, <3>3, <4>1
    <3>5. \A e, f \in Elements : ~(e < n + 1) /\ ~(f < n + 1) => values'[d][e] = values'[d][f]
      <4>1. ASSUME NEW e \in Elements, ~(e < n + 1) PROVE ~(e < n) /\ e # n
        BY <2>1, <3>2, <4>1
      <4>. QED  BY <2>3, <3>a, <4>1
    <3>6. \A f \in Elements : ~(f < n + 1) =>
            values'[d][n] = (values'[d][f] + values'[s][f]) % IntRange
      <4>1. ASSUME NEW f \in Elements, ~(f < n + 1)
            PROVE  /\ values'[d][f] = values[d][n]
                   /\ values'[s][f] = values[s][n]
        <5>1. ~(f < n) /\ f # n
          BY <2>1, <3>2, <4>1
        <5>2. values[d][f] = values[d][n] /\ values[s][f] = values[s][n]
          BY <2>1, <3>1, <3>2, <3>a, <5>1 DEF Even
        <5>. QED  BY <2>2, <2>3, <5>1, <5>2
      <4>. QED  BY <2>3, <4>1
    <3>. QED  BY <1>2, <2>1, <3>4, <3>5, <3>6 DEF d, s, n
  <2>. QED  BY <2>4, <2>5, <2>6
\* A thread begins with both its vectors even, and leaves with all elements
\* behind it.
<1>6. ASSUME NEW t \in Threads, Create(t) \/ Step(t), ~Store(t)
      PROVE  /\ \A v \in Vectors : (\A u \in Threads : Adding(u)' => Dst(u) # v) => Even(v)'
             /\ \A u \in Threads : Adding(u)' => Level(u)'
  <2>1. /\ values' = values
        /\ \A u \in Threads \ {t} : (Adding(u)' <=> Adding(u)) /\ i'[u] = i[u]
        /\ Adding(t) /\ Adding(t)' => i'[t] = i[t]
        /\ Adding(t)' /\ ~Adding(t) => i'[t] = 1
        /\ Adding(t) /\ ~Adding(t)' => \A e \in Elements : e < i[t]
    BY <1>6, QuietStep DEF Adding
  <2>2. ASSUME NEW v \in Vectors, \A u \in Threads : Adding(u)' => Dst(u) # v
        PROVE  Even(v)'
    <3>1. CASE Adding(t) /\ Dst(t) = v
      <4>1. \A e \in Elements : e < i[t]
        BY <2>1, <2>2, <3>1
      <4>. QED  BY <1>3, <2>1, <3>1, <4>1 DEF Even
    <3>2. CASE ~(Adding(t) /\ Dst(t) = v)
      BY <1>3, <2>1, <2>2, <3>2 DEF Even
    <3>. QED  BY <3>1, <3>2
  <2>3. ASSUME NEW u \in Threads, Adding(u)', u # t \/ Adding(t) PROVE Level(u)'
    <3>1. Adding(u) /\ i'[u] = i[u]
      BY <2>1, <2>3
    <3>. QED  BY <1>2, <1>3, <2>1, <3>1
  <2>4. ASSUME Adding(t)', ~Adding(t) PROVE Level(t)'
    <3>1. \A u \in Threads \ {t} : Adding(u)' => {Dst(t), Src(t)} \cap {Dst(u), Src(u)} = {}
      <4>1. ASSUME NEW u \in Threads, u # t, Adding(u)'
            PROVE  {Dst(t)', Src(t)'} \cap {Dst(u)', Src(u)'} = {}
        <5>1. Held(t)' = {Dst(t)', Src(t)'} /\ Held(u)' = {Dst(u)', Src(u)'}
          BY <1>2, <2>4, <4>1, HeldByPointNext, <1>1 DEF Adding
        <5>2. \A v \in Held(t)' : lock'[v] = t
          BY DEF IInv, Owners
        <5>3. \A v \in Held(u)' : lock'[v] = u
          BY DEF IInv, Owners
        <5>. QED  BY <4>1, <5>1, <5>2, <5>3
      <4>. QED  BY <1>2, <4>1
    <3>2. Even(Dst(t))
      BY <1>3, <2>1, <2>4, <3>1, TwoVectors DEF IInv
    <3>3. \A e \in Elements : ~(e < i'[t])
      BY <2>1, <2>4 DEF Elements
    <3>. QED  BY <1>2, <2>1, <3>2, <3>3 DEF Even
  <2>. QED  BY <2>2, <2>3, <2>4
<1>7. CASE Join \/ UNCHANGED vars
  <2>1. UNCHANGED <<values, pc, i>>
    BY <1>7 DEF Join, vars
  <2>. QED  BY <1>2, <1>3, <2>1 DEF Adding, Even
<1>. QED  BY <1>5, <1>6, <1>7 DEF Next, Step, Exited

\* What the additions add up to, in every state: an element is where main
\* started it plus the source for each call that has stored it, and with locks
\* a vector differs at most ahead of and behind the one thread that adds to it.
THEOREM SumInvariance == Spec => []SumInv
<1>1. IInv /\ SumInv /\ [Next]_vars => SumInv'
  BY NextIInv, NextProgress, NextFreshOperand, NextAccounted, NextUnison DEF SumInv
<1>. QED  BY <1>1, InitSumInv, Invariance, PTL DEF Spec

\* At the end a destination has got all the additions there were.
LEMMA AllAdded ==
  ASSUME SumInv, ~Opposed, main = "exit", NEW t \in Threads, NEW e \in Elements
  PROVE  Cardinality(Additions(Dst(t), e))
           = IF enable_parallelism THEN Loops ELSE NumThreads * Loops
<1>. USE VectorAddAssumption DEF VectorAddAssumption
<1>1. \A u \in Threads, c \in 1 .. Loops : StoredIn(u, c, e)
  BY DEF SumInv, Progress, StoredIn, Behind
<1>2. /\ IsFiniteSet(1 .. Loops) /\ Cardinality(1 .. Loops) = Loops
      /\ IsFiniteSet(Threads) /\ Cardinality(Threads) = NumThreads
  BY FS_Interval DEF Threads
<1>3. CASE enable_parallelism
  <2>1. Additions(Dst(t), e) = {t} \X (1 .. Loops)
    BY <1>1, <1>3, OwnPairs DEF Additions, Calls
  <2>2. IsFiniteSet({t}) /\ Cardinality({t}) = 1
    BY FS_Singleton
  <2>3. Cardinality({t} \X (1 .. Loops)) = 1 * Loops
    BY <1>2, <2>2, FS_Product
  <2>. QED  BY <1>3, <2>1, <2>3
<1>4. CASE ~enable_parallelism
  <2>1. \A u \in Threads : Dst(u) = Dst(t)
    BY <1>4, NotOpposed DEF Dst, Src, Pair
  <2>2. Additions(Dst(t), e) = Threads \X (1 .. Loops)
    BY <1>1, <2>1 DEF Additions, Calls
  <2>. QED  BY <1>2, <1>4, <2>2, FS_Product
<1>. QED  BY <1>3, <1>4

\* No addition is lost: where threads are not opposed, locks or not, every
\* element of the destination has grown by the source once for every call.
THEOREM NoneLost == Spec => []NothingLost
<1>1. SumInv => NothingLost
  BY AllAdded DEF SumInv, Accounted, NothingLost
<1>. QED  BY <1>1, SumInvariance, PTL

\* Vectors are added as wholes: with locks, and without where threads are not
\* opposed, all the elements of a vector end up equal.
THEOREM WholeVectors == Spec => []Serialized
<1>. USE VectorAddAssumption DEF VectorAddAssumption
<1>1. ASSUME IInv, SumInv, main = "exit", program = "nolock" => ~Opposed,
             NEW v \in Vectors, NEW e \in Elements
      PROVE  values[v][e] = values[v][1]
  <2>1. 1 \in Elements
    BY DEF Elements
  <2>2. CASE program # "nolock"
    <3>1. \A t \in Threads : ~Adding(t)
      BY <1>1 DEF SumInv, Progress, Adding
    <3>. QED  BY <1>1, <2>1, <2>2, <3>1 DEF SumInv, Unison
  <2>3. CASE ~Opposed
    <3>1. CASE \A t \in Threads : Dst(t) # v
      BY <1>1, <2>1, <3>1 DEF SumInv, Accounted
    <3>2. ASSUME NEW t \in Threads, v = Dst(t) PROVE values[v][e] = values[v][1]
      <4>1. Cardinality(Additions(v, e)) = Cardinality(Additions(v, 1))
        BY <1>1, <2>1, <2>3, <3>2, AllAdded
      <4>. QED  BY <1>1, <2>1, <2>3, <3>2, <4>1 DEF SumInv, Accounted
    <3>. QED  BY <3>1, <3>2
  <2>. QED  BY <1>1, <2>2, <2>3
<1>2. IInv /\ SumInv => Serialized
  BY <1>1 DEF Serialized
<1>. QED  BY <1>2, Invariance, SumInvariance, PTL
=============================================================================
