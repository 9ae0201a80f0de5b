-------------------------- MODULE HandOverHandProofs --------------------------
(***************************************************************************)
(* Proofs about HandOverHandList, for any number of workers, operations    *)
(* and nodes and every key space that leaves INT_MAX to the tail sentinel. *)
(* With KeySpace = INT_MAX the list loses its tail, and the theorems fail. *)
(***************************************************************************)
EXTENDS HandOverHandList, WellFoundedInduction, TLAPS

\* A non-empty set of naturals has a smallest member.
LEMMA Smallest ==
  ASSUME NEW S, S \subseteq Nat, S # {}
  PROVE  \E x \in S : \A y \in S : x <= y
<1>. DEFINE R == {ss \in Nat \X Nat : ss[1] < ss[2]}
<1>1. PICK x \in S : \A y \in S : <<y, x>> \notin R
  <2>1. IsWellFoundedOn(R, Nat)
    BY NatLessThanWellFounded DEF OpToRel
  <2>. HIDE DEF R
  <2>. QED  BY <2>1, WFMin
<1>2. \A y \in S : y \in Nat /\ x \in Nat /\ ~(y < x)
  BY <1>1
<1>. QED  BY <1>2

\* A list from lo to hi in which each node leads to the one with the next
\* larger key.
SortedFrom(L, nx, ky, lo, hi) ==
  /\ lo \in L /\ hi \in L
  /\ \A n \in L : ky[n] \in Int /\ ky[lo] <= ky[n] /\ ky[n] <= ky[hi]
  /\ \A n, o \in L : ky[n] = ky[o] => n = o
  /\ \A n \in L \ {hi} :
       /\ nx[n] \in L /\ ky[n] < ky[nx[n]]
       /\ \A o \in L : ky[o] <= ky[n] \/ ky[nx[n]] <= ky[o]

\* In such a list every node but the first has a predecessor.
LEMMA AllReached ==
  ASSUME NEW L, NEW nx, NEW ky, NEW lo, NEW hi, SortedFrom(L, nx, ky, lo, hi)
  PROVE  /\ \A n \in L \ {hi} : nx[n] \in L \ {lo}
         /\ \A b \in L \ {lo} : \E n \in L \ {hi} : b = nx[n]
<1>. USE DEF SortedFrom
<1>1. ASSUME NEW n \in L \ {hi} PROVE nx[n] \in L \ {lo}
  <2>1. ky[lo] <= ky[n] /\ ky[n] < ky[nx[n]] /\ ky[lo] \in Int /\ ky[n] \in Int
    OBVIOUS
  <2>. QED  BY <2>1
<1>2. ASSUME NEW b \in L \ {lo} PROVE \E n \in L \ {hi} : b = nx[n]
  <2>. DEFINE Dist == {ky[b] - ky[a] : a \in {c \in L : ky[c] < ky[b]}}
  <2>1. ky[lo] # ky[b] /\ ky[lo] <= ky[b] /\ ky[lo] \in Int /\ ky[b] \in Int
    OBVIOUS
  <2>2. Dist \subseteq Nat /\ ky[b] - ky[lo] \in Dist
    BY <2>1
  <2>3. PICK x \in Dist : \A y \in Dist : x <= y
    <3>. HIDE DEF Dist
    <3>. QED  BY <2>2, Smallest
  <2>4. PICK a \in L : ky[a] < ky[b] /\ \A c \in L : ky[c] < ky[b] => ky[c] <= ky[a]
    <3>1. PICK a \in L : ky[a] < ky[b] /\ x = ky[b] - ky[a]
      OBVIOUS
    <3>2. ASSUME NEW c \in L, ky[c] < ky[b] PROVE ky[c] <= ky[a]
      <4>1. ky[b] - ky[a] <= ky[b] - ky[c]
        BY <2>3, <3>1, <3>2
      <4>. QED  BY <4>1
    <3>. QED  BY <3>1, <3>2
  <2>5. a # hi
    BY <2>4
  <2>6. nx[a] \in L /\ ky[a] < ky[nx[a]] /\ (ky[b] <= ky[a] \/ ky[nx[a]] <= ky[b])
    BY <2>5
  <2>7. ky[nx[a]] = ky[b]
    BY <2>4, <2>6
  <2>. QED  BY <2>5, <2>6, <2>7
<1>. QED  BY <1>1, <1>2

-----------------------------------------------------------------------------
(* The inductive invariant *)

\* The part of IInv that is inductive; the rest follows from it.
Core == TypeOK /\ Owners /\ Coupled /\ Pointers /\ Sentinels /\ Sorted

\* The keys of the sentinels enclose those of all the workers.
LEMMA Bounds ==
  ASSUME KeySpace < INT_MAX, TypeOK, Sentinels, Sorted
  PROVE  /\ \A n \in Nodes : key[n] \in Int
         /\ \A x \in Keys : INT_MIN < x /\ x < INT_MAX /\ x \in Int
         /\ \A n \in Linked : n \in Nodes /\ n \in heap
         /\ \A n \in Linked : key[head] <= key[n] /\ key[n] <= key[tail]
<1>. USE ListAssumption DEF ListAssumption
<1>1. \A x \in Keys : INT_MIN < x /\ x < INT_MAX /\ x \in Int
  BY DEF Keys, INT_MIN
<1>2. \A n \in Nodes : key[n] \in Int
  BY DEF TypeOK, Keys, INT_MIN
<1>3. \A n \in Linked : n \in Nodes /\ n \in heap
  BY DEF Linked, TypeOK
<1>4. \A n \in Linked : key[head] <= key[n] /\ key[n] <= key[tail]
  BY <1>1, <1>2, <1>3 DEF Sorted, Sentinels, INT_MIN
<1>. QED  BY <1>1, <1>2, <1>3, <1>4

\* No node but the head is without a predecessor.
LEMMA CoreChained ==
  ASSUME KeySpace < INT_MAX, TypeOK, Sentinels, Sorted
  PROVE  Chained
<1>1. SortedFrom(Linked, next, key, head, tail)
  BY Bounds DEF Sentinels, Sorted, SortedFrom
<1>. QED  BY <1>1, AllReached DEF Chained

\* A node with an owner, or that a call has unlinked and not freed, is allocated;
\* the one that is freed has no owner and is in no other thread's hands.
LEMMA CoreNoUseAfterFree == TypeOK /\ Owners /\ Pointers => NoUseAfterFree
<1>. SUFFICES ASSUME TypeOK, Owners, Pointers PROVE NoUseAfterFree
  OBVIOUS
<1>1. ASSUME NEW t \in Threads, NEW n \in Nodes, Follows(t, n) PROVE n \in heap
  BY <1>1 DEF Follows, Pointers, Linked
<1>2. ASSUME NEW t \in Threads, pc[t] = "free", NEW u \in Threads \ {t}
      PROVE  ~Follows(u, curr[t])
  <2>1. Unlinking(t) /\ curr[t] \notin Linked
    BY <1>2 DEF Pointers, Linked
  <2>. QED  BY <2>1 DEF Follows, Pointers
<1>3. ASSUME NEW t \in Threads, pc[t] = "free" PROVE m[curr[t]] = Free
  <2>1. curr[t] \in Nodes /\ m[curr[t]] \in Threads \union {Free}
    BY <1>3 DEF Pointers, TypeOK
  <2>2. ASSUME NEW u \in Threads, m[curr[t]] = u PROVE FALSE
    <3>1. u # t
      BY <1>3, <2>1, <2>2 DEF Owners, HoldsPred, HoldsCurr
    <3>2. Follows(u, curr[t])
      BY <2>1, <2>2 DEF Owners, Follows, HoldsCurr
    <3>. QED  BY <1>2, <1>3, <3>1, <3>2
  <2>. QED  BY <2>1, <2>2
<1>. QED  BY <1>1, <1>2, <1>3 DEF NoUseAfterFree

\* What is proved inductive gives the invariant that the runs check.
LEMMA CoreIInv ==
  ASSUME KeySpace < INT_MAX, Core PROVE IInv
BY CoreChained, CoreNoUseAfterFree DEF Core, IInv

\* The list main has filled: whatever keys it holds, each node leads to the one
\* with the next larger key.
LEMMA InitCore ==
  ASSUME KeySpace < INT_MAX PROVE Init => Core
<1>. SUFFICES ASSUME Init PROVE Core
  OBVIOUS
<1>. USE ListAssumption DEF ListAssumption
<1>1. PICK S \in SUBSET (Keys \ {INT_MAX}) :
        LET Node(x) == x + 1
            Above(x) == {y \in S : y > x}
            Succ(x) == IF Above(x) = {} THEN tail
                       ELSE Node(CHOOSE y \in Above(x) : \A z \in Above(x) : y <= z)
        IN  /\ heap = {head, tail} \union {Node(x) : x \in S}
            /\ key = [n \in Nodes |->
                 CASE n = head -> INT_MIN
                   [] n = tail -> INT_MAX
                   [] OTHER    -> n - 1]
            /\ next = [n \in Nodes |->
                 CASE n = head -> Succ(0)
                   [] n = tail -> NULL
                   [] OTHER    -> IF n - 1 \in S THEN Succ(n - 1) ELSE NULL]
  BY DEF Init
<1>. DEFINE Above(x) == {y \in S : y > x}
            Succ(x) == IF Above(x) = {} THEN tail
                       ELSE (CHOOSE y \in Above(x) : \A z \in Above(x) : y <= z) + 1
<1>2. heap = {head, tail} \union {x + 1 : x \in S}
  BY <1>1
<1>3. /\ key \in [Nodes -> UNION {{key[n]} : n \in Nodes}]
      /\ next \in [Nodes -> UNION {{next[n]} : n \in Nodes}]
  BY <1>1
<1>4. ASSUME NEW n \in Nodes
      PROVE  /\ n = head => key[n] = INT_MIN /\ next[n] = Succ(0)
             /\ n = tail => key[n] = INT_MAX /\ next[n] = NULL
             /\ n \notin {head, tail} => key[n] = n - 1
             /\ n \notin {head, tail} /\ n - 1 \in S => next[n] = Succ(n - 1)
             /\ n \notin {head, tail} /\ n - 1 \notin S => next[n] = NULL
  <2>1. head # tail
    BY DEF head, tail
  <2>. QED  BY <1>1, <2>1
<1>5. ASSUME NEW x \in Nat
      PROVE  \/ Succ(x) = tail /\ \A y \in S : y <= x
             \/ \E y \in S : Succ(x) = y + 1 /\ y > x /\ \A z \in S : z <= x \/ y <= z
  <2>1. S \subseteq Nat /\ Above(x) \subseteq Nat
    <3>1. Keys \subseteq Nat
      BY DEF Keys
    <3>. QED  BY <3>1
  <2>2. CASE Above(x) = {}
    BY <2>1, <2>2
  <2>3. CASE Above(x) # {}
    <3>. DEFINE y == CHOOSE y \in Above(x) : \A z \in Above(x) : y <= z
    <3>1. \E w \in Above(x) : \A z \in Above(x) : w <= z
      <4>. HIDE DEF Above
      <4>. QED  BY <2>1, <2>3, Smallest
    <3>2. y \in Above(x) /\ \A z \in Above(x) : y <= z
      BY <3>1
    <3>3. Succ(x) = y + 1
      BY <2>3
    <3>. HIDE DEF y, Succ
    <3>4. y \in S /\ y > x /\ \A z \in S : z <= x \/ y <= z
      BY <2>1, <3>2
    <3>. QED  BY <3>3, <3>4
  <2>. QED  BY <2>2, <2>3
<1>. HIDE DEF Above, Succ
<1>6. S \subseteq Keys /\ {head, tail} \subseteq Nodes /\ \A x \in S : x + 1 \in Nodes \ {head, tail}
  BY DEF Keys, Nodes, head, tail
<1>7. heap \subseteq Nodes
  BY <1>2, <1>6
<1>8. \A t \in Threads : pc[t] = "new"
  BY DEF Init
<1>9. Linked = heap
  BY <1>8 DEF Linked, Unlinking
<1>10. \A x \in Nat : Succ(x) \in heap
  BY <1>2, <1>5
<1>11. TypeOK
  <2>1. \A n \in Nodes : n \notin {head, tail} => n - 1 \in 0 .. MaxNodes /\ n - 1 \in Nat
    BY DEF Nodes, head, tail
  <2>2. \A n \in Nodes : key[n] \in Keys \union {INT_MIN, INT_MAX} \union 0 .. MaxNodes
    BY <1>4, <2>1
  <2>3. \A n \in Nodes : next[n] \in Nodes \union {NULL}
    BY <1>4, <1>7, <1>10, <2>1
  <2>4. /\ key \in [Nodes -> Keys \union {INT_MIN, INT_MAX} \union 0 .. MaxNodes]
        /\ next \in [Nodes -> Nodes \union {NULL}]
    BY <1>3, <2>2, <2>3
  <2>5. pc \in [Threads -> Points] /\ op \in [Threads -> Operations]
    BY DEF Init, Points, Operations
  <2>6. /\ m \in [Nodes -> Threads \union {Free}] /\ ops \in [Threads -> 0 .. Ops]
        /\ k \in [Threads -> Keys \union {0}] /\ ok \in [Threads -> BOOLEAN]
        /\ pred \in [Threads -> Nodes] /\ curr \in [Threads -> Nodes \union {NULL}]
        /\ main \in {"run", "exit"}
    BY <1>6 DEF Init
  <2>. QED  BY <1>7, <2>4, <2>5, <2>6 DEF TypeOK
<1>12. Owners /\ Coupled /\ Pointers
  <2>1. \A n \in Nodes : m[n] = Free
    BY DEF Init
  <2>. QED  BY <1>8, <2>1 DEF Owners, Coupled, Pointers, HoldsPred, HoldsCurr, Unlinking
<1>13. Sentinels
  BY <1>2, <1>4, <1>6, <1>9 DEF Sentinels
<1>14. Sorted
  <2>1. ASSUME NEW n \in heap \ {head, tail} PROVE n - 1 \in S /\ key[n] = n - 1 /\ n = key[n] + 1
    BY <1>2, <1>4, <1>6 DEF Keys, Nodes
  <2>2. key[head] = -1 /\ key[tail] = INT_MAX
    BY <1>4, <1>6 DEF INT_MIN
  <2>3. \A x \in S : x + 1 \in heap \ {head, tail} /\ key[x + 1] = x /\ x \in Nat /\ 0 < x /\ x < INT_MAX
    BY <1>2, <1>4, <1>6 DEF Keys
  <2>4. \A n \in heap \ {head, tail} : key[n] \in S
    BY <2>1
  <2>5. \A n, o \in heap : key[n] = key[o] => n = o
    BY <2>1, <2>2, <2>3, <2>4
  <2>6. ASSUME NEW n \in heap \ {tail}
        PROVE  \E x \in Nat : /\ next[n] = Succ(x) /\ key[n] <= x
                              /\ \A o \in heap : key[o] <= x => key[o] <= key[n]
    <3>1. CASE n = head
      BY <1>4, <1>6, <2>2, <2>3, <2>4, <3>1
    <3>2. CASE n # head
      BY <1>4, <1>7, <2>1, <2>3, <2>4, <3>2
    <3>. QED  BY <3>1, <3>2
  <2>7. ASSUME NEW n \in heap \ {tail}
        PROVE  /\ next[n] \in heap /\ key[n] < key[next[n]]
               /\ \A o \in heap : key[o] <= key[n] \/ key[next[n]] <= key[o]
    <3>1. PICK x \in Nat : /\ next[n] = Succ(x) /\ key[n] <= x
                           /\ \A o \in heap : key[o] <= x => key[o] <= key[n]
      BY <2>6
    <3>2. next[n] \in heap
      BY <1>10, <3>1
    <3>3. CASE Succ(x) = tail /\ \A y \in S : y <= x
      BY <2>2, <2>3, <2>4, <3>1, <3>2, <3>3
    <3>4. CASE \E y \in S : Succ(x) = y + 1 /\ y > x /\ \A z \in S : z <= x \/ y <= z
      <4>1. PICK y \in S : Succ(x) = y + 1 /\ y > x /\ \A z \in S : z <= x \/ y <= z
        BY <3>4
      <4>2. key[next[n]] = y /\ y \in Nat /\ 0 < y /\ y < INT_MAX
        BY <2>3, <3>1, <4>1
      <4>3. ASSUME NEW o \in heap PROVE key[o] <= key[n] \/ y <= key[o]
        <5>1. CASE o \in {head, tail}
          BY <2>2, <3>1, <4>2, <5>1
        <5>2. CASE o \notin {head, tail}
          <6>1. key[o] \in S
            BY <2>4, <5>2
          <6>. QED  BY <3>1, <4>1, <6>1
        <5>. QED  BY <5>1, <5>2
      <4>4. key[n] \in Int
        BY <2>2, <2>3, <2>4
      <4>. QED  BY <3>1, <3>2, <4>1, <4>2, <4>3, <4>4
    <3>. QED  BY <1>5, <3>3, <3>4
  <2>. QED  BY <1>6, <1>9, <2>4, <2>5, <2>7 DEF Sorted
<1>. QED  BY <1>11, <1>12, <1>13, <1>14 DEF Core

-----------------------------------------------------------------------------
(* The steps *)

\* A step of a worker leaves the other workers where they are.
LEMMA Others ==
  ASSUME TypeOK, NEW t \in Threads, Create(t) \/ Step(t), NEW u \in Threads \ {t}
  PROVE  /\ pc'[u] = pc[u] /\ op'[u] = op[u] /\ k'[u] = k[u] /\ ok'[u] = ok[u]
         /\ pred'[u] = pred[u] /\ curr'[u] = curr[u]
<1>1. pc'[u] = pc[u]
  BY DEF TypeOK, Go, Step, Create, Begin, Finish, LockHead, LockCurr, Advance, Lookup, InsertDuplicate,
         InsertNoMemory, InsertLink, DeleteMissing, Unlink, UnlockCurr, UnlockPred, FreeNode, Decide
<1>2. op'[u] = op[u] /\ k'[u] = k[u]
  BY DEF TypeOK, Step, Create, Begin, Finish, LockHead, LockCurr, Advance, Lookup, InsertDuplicate,
         InsertNoMemory, InsertLink, DeleteMissing, Unlink, UnlockCurr, UnlockPred, FreeNode, Decide
<1>3. ok'[u] = ok[u]
  BY DEF TypeOK, Step, Create, Begin, Finish, LockHead, LockCurr, Advance, Lookup, InsertDuplicate,
         InsertNoMemory, InsertLink, DeleteMissing, Unlink, UnlockCurr, UnlockPred, FreeNode, Decide
<1>4. pred'[u] = pred[u] /\ curr'[u] = curr[u]
  BY DEF TypeOK, Step, Create, Begin, Finish, LockHead, LockCurr, Advance, Lookup, InsertDuplicate,
         InsertNoMemory, InsertLink, DeleteMissing, Unlink, UnlockCurr, UnlockPred, FreeNode, Decide
<1>. QED  BY <1>1, <1>2, <1>3, <1>4

\* With it, what the invariants say of the other workers' points.
LEMMA OtherPoints ==
  ASSUME TypeOK, NEW t \in Threads, Create(t) \/ Step(t), NEW u \in Threads \ {t}
  PROVE  /\ Unlinking(u)' <=> Unlinking(u)
         /\ HoldsPred(u)' <=> HoldsPred(u)
         /\ HoldsCurr(u)' <=> HoldsCurr(u)
BY Others DEF Unlinking, HoldsPred, HoldsCurr

\* The key and the pointers of a search: where a worker has decided to move on,
\* its key is larger than the one it looks at, and both nodes are of the list.
LEMMA AtNodes ==
  ASSUME KeySpace < INT_MAX, Core, NEW t \in Threads, pc[t] \in {"lockcurr", "compare"}
  PROVE  /\ pred[t] \in Linked /\ curr[t] \in Linked
         /\ pred[t] \in Nodes /\ curr[t] \in Nodes
         /\ next[pred[t]] = curr[t] /\ key[pred[t]] < k[t]
         /\ k[t] \in Keys
         /\ m[pred[t]] = t /\ (pc[t] = "compare" => m[curr[t]] = t /\ pred[t] # curr[t])
<1>1. pred[t] \in Linked /\ curr[t] \in Linked /\ k[t] \in Keys /\ (pc[t] = "compare" => pred[t] # curr[t])
  BY DEF Core, Pointers, HoldsPred, HoldsCurr, Unlinking
<1>2. pred[t] \in Nodes /\ curr[t] \in Nodes
  BY <1>1 DEF Core, TypeOK, Linked
<1>3. m[pred[t]] = t /\ (pc[t] = "compare" => m[curr[t]] = t)
  BY <1>2 DEF Core, Owners, HoldsPred, HoldsCurr
<1>. QED  BY <1>1, <1>2, <1>3 DEF Core, Coupled

\* Every step keeps the type invariant.
LEMMA NextType ==
  ASSUME KeySpace < INT_MAX, Core, Next PROVE TypeOK'
<1>. USE ListAssumption DEF ListAssumption
<1>1. TypeOK /\ Free \notin Threads /\ 0 \in Nodes
  BY DEF Core, Nodes
<1>2. CASE Start \/ Join \/ Exited
  BY <1>1, <1>2 DEF Start, Join, Exited, vars, memory, TypeOK, Points
<1>3. ASSUME NEW t \in Threads, Create(t) \/ Begin(t) \/ Finish(t) PROVE TypeOK'
  <2>1. CASE Create(t) \/ Finish(t)
    BY <1>1, <2>1 DEF Create, Finish, Go, memory, TypeOK, Points
  <2>2. CASE Begin(t)
    <3>1. ops'[t] \in 0 .. Ops /\ ops' = [ops EXCEPT ![t] = ops'[t]]
      BY <1>1, <2>2 DEF Begin, TypeOK
    <3>2. ops' \in [Threads -> 0 .. Ops]
      BY <1>1, <3>1 DEF TypeOK
    <3>. QED  BY <1>1, <2>2, <3>2 DEF Begin, Go, memory, TypeOK, Points
  <2>. QED  BY <1>3, <2>1, <2>2
<1>4. ASSUME NEW t \in Threads, LockHead(t) PROVE TypeOK'
  BY <1>1, <1>4 DEF LockHead, Go, MutexLock, TypeOK, Points, head
<1>5. ASSUME NEW t \in Threads, LockCurr(t) PROVE TypeOK'
  BY <1>1, <1>5 DEF LockCurr, Go, MutexLock, TypeOK, Points
<1>6. ASSUME NEW t \in Threads, Advance(t) PROVE TypeOK'
  <2>1. curr[t] \in Nodes
    BY <1>6, AtNodes DEF Advance, Go
  <2>. QED  BY <1>1, <1>6, <2>1 DEF Advance, Go, MutexUnlock, TypeOK, Points
<1>7. ASSUME NEW t \in Threads, NEW a \in BOOLEAN, Decide(t, a) PROVE TypeOK'
  BY <1>1, <1>7 DEF Decide, Go, memory, TypeOK, Points
<1>8. ASSUME NEW t \in Threads, Lookup(t) \/ InsertDuplicate(t) \/ InsertNoMemory(t) \/ DeleteMissing(t)
      PROVE  TypeOK'
  BY <1>7, <1>8 DEF Lookup, InsertDuplicate, InsertNoMemory, DeleteMissing
<1>9. ASSUME NEW t \in Threads, InsertLink(t) PROVE TypeOK'
  <2>1. PICK n \in Nodes \ heap :
          /\ heap' = heap \union {n}
          /\ key'  = [key EXCEPT ![n] = k[t]]
          /\ next' = [next EXCEPT ![n] = curr[t], ![pred[t]] = n]
          /\ m'    = [m EXCEPT ![n] = Free]
    BY <1>9 DEF InsertLink
  <2>2. k[t] \in Keys /\ curr[t] \in Nodes
    BY <1>9, AtNodes DEF InsertLink, Go
  <2>. QED  BY <1>1, <1>9, <2>1, <2>2 DEF InsertLink, Go, TypeOK, Points
<1>10. ASSUME NEW t \in Threads, Unlink(t) PROVE TypeOK'
  <2>1. next[curr[t]] \in Nodes \union {NULL}
    <3>1. curr[t] \in Nodes
      BY <1>10, AtNodes DEF Unlink, Go
    <3>. QED  BY <1>1, <3>1 DEF TypeOK
  <2>. QED  BY <1>1, <1>10, <2>1 DEF Unlink, Go, TypeOK, Points
<1>11. ASSUME NEW t \in Threads, UnlockCurr(t) \/ UnlockPred(t) \/ FreeNode(t) PROVE TypeOK'
  BY <1>1, <1>11 DEF UnlockCurr, UnlockPred, FreeNode, Go, MutexUnlock, TypeOK, Points
<1>. QED  BY <1>2, <1>3, <1>4, <1>5, <1>6, <1>8, <1>9, <1>10, <1>11 DEF Next, Step

\* A node that is not allocated is nobody's.
LEMMA FreshNode ==
  ASSUME Core, NEW n \in Nodes \ heap
  PROVE  /\ m[n] = Free
         /\ \A t \in Threads : HoldsPred(t) => pred[t] # n
         /\ \A t \in Threads : HoldsCurr(t) => curr[t] # n
<1>1. \A t \in Threads : HoldsPred(t) => pred[t] # n
  BY DEF Core, Pointers, Linked
<1>2. \A t \in Threads : HoldsCurr(t) => curr[t] # n
  BY DEF Core, Pointers, Linked, HoldsCurr
<1>3. \A t \in Threads : m[n] # t
  BY <1>1, <1>2 DEF Core, Owners
<1>. QED  BY <1>1, <1>2, <1>3 DEF Core, TypeOK

\* Every step keeps the node mutexes with the threads that lock them.
LEMMA NextOwners ==
  ASSUME KeySpace < INT_MAX, Core, Next PROVE Owners'
<1>. USE ListAssumption DEF ListAssumption
<1>1. TypeOK /\ Owners /\ Free \notin Threads /\ 0 \in Nodes
  BY DEF Core, Nodes
<1>2. CASE Start \/ Join \/ Exited
  BY <1>1, <1>2 DEF Start, Join, Exited, vars, memory, Owners, HoldsPred, HoldsCurr
<1>. SUFFICES ASSUME NEW t \in Threads, Create(t) \/ Step(t) PROVE Owners'
  BY <1>2 DEF Next
<1>3. ASSUME \A n \in Nodes : m'[n] # m[n] => {m[n], m'[n]} \subseteq {t, Free}
      PROVE  \A n \in Nodes, u \in Threads \ {t} :
               m'[n] = u <=> \/ HoldsPred(u)' /\ pred'[u] = n
                             \/ HoldsCurr(u)' /\ curr'[u] = n
  <2>. SUFFICES ASSUME NEW n \in Nodes, NEW u \in Threads \ {t}
                PROVE  m'[n] = u <=> \/ HoldsPred(u)' /\ pred'[u] = n
                                     \/ HoldsCurr(u)' /\ curr'[u] = n
    OBVIOUS
  <2>1. m'[n] = u <=> m[n] = u
    BY <1>1, <1>3
  <2>2. m[n] = u <=> \/ HoldsPred(u) /\ pred[u] = n
                     \/ HoldsCurr(u) /\ curr[u] = n
    BY <1>1, Zenon DEF Owners
  <2>3. pred'[u] = pred[u] /\ curr'[u] = curr[u]
    BY <1>1, Others
  <2>4. (HoldsPred(u)' <=> HoldsPred(u)) /\ (HoldsCurr(u)' <=> HoldsCurr(u))
    BY <1>1, OtherPoints
  <2>. QED  BY <2>1, <2>2, <2>3, <2>4, Zenon
<1>4. ASSUME /\ \A n \in Nodes : m'[n] # m[n] => {m[n], m'[n]} \subseteq {t, Free}
             /\ \A n \in Nodes : m'[n] = t <=> \/ HoldsPred(t)' /\ pred'[t] = n
                                               \/ HoldsCurr(t)' /\ curr'[t] = n
      PROVE  Owners'
  BY <1>3, <1>4 DEF Owners
<1>5. \A n \in Nodes : m[n] = t <=> \/ HoldsPred(t) /\ pred[t] = n
                                    \/ HoldsCurr(t) /\ curr[t] = n
  BY <1>1 DEF Owners
<1>6. ASSUME UNCHANGED <<m, pred, curr>>, HoldsPred(t)' <=> HoldsPred(t), HoldsCurr(t)' <=> HoldsCurr(t)
      PROVE  Owners'
  BY <1>4, <1>5, <1>6
<1>7. CASE Create(t) \/ Begin(t) \/ Finish(t) \/ FreeNode(t)
  BY <1>1, <1>6, <1>7 DEF Create, Begin, Finish, FreeNode, Go, memory, TypeOK, HoldsPred, HoldsCurr
<1>8. ASSUME NEW a \in BOOLEAN, Decide(t, a) \/ Unlink(t) PROVE Owners'
  BY <1>1, <1>6, <1>8 DEF Decide, Unlink, Go, memory, TypeOK, HoldsPred, HoldsCurr
<1>9. CASE Lookup(t) \/ InsertDuplicate(t) \/ InsertNoMemory(t) \/ DeleteMissing(t)
  BY <1>8, <1>9 DEF Lookup, InsertDuplicate, InsertNoMemory, DeleteMissing
<1>10. CASE LockHead(t)
  <2>1. head \in Nodes /\ m[head] = Free /\ m' = [m EXCEPT ![head] = t] /\ pred'[t] = head
    BY <1>1, <1>10 DEF LockHead, MutexLock, TypeOK, head
  <2>2. ~HoldsPred(t) /\ ~HoldsCurr(t) /\ HoldsPred(t)' /\ ~HoldsCurr(t)'
    BY <1>1, <1>10 DEF LockHead, Go, TypeOK, HoldsPred, HoldsCurr
  <2>. QED  BY <1>1, <1>4, <1>5, <2>1, <2>2 DEF TypeOK
<1>11. CASE LockCurr(t)
  <2>1. pc[t] = "lockcurr" /\ pc'[t] = "compare"
    BY <1>1, <1>11 DEF LockCurr, Go, TypeOK
  <2>2. curr[t] \in Nodes
    BY <2>1, AtNodes
  <2>3. m[curr[t]] = Free /\ m' = [m EXCEPT ![curr[t]] = t] /\ UNCHANGED <<pred, curr>>
    BY <1>11 DEF LockCurr, MutexLock
  <2>4. HoldsPred(t) /\ ~HoldsCurr(t) /\ HoldsPred(t)' /\ HoldsCurr(t)'
    BY <2>1 DEF HoldsPred, HoldsCurr
  <2>. QED  BY <1>1, <1>4, <1>5, <2>2, <2>3, <2>4 DEF TypeOK
<1>12. CASE Advance(t)
  <2>1. pc[t] = "compare" /\ pc'[t] = "lockcurr"
    BY <1>1, <1>12 DEF Advance, Go, TypeOK
  <2>2. pred[t] \in Nodes /\ pred[t] # curr[t] /\ m[pred[t]] = t
    BY <2>1, AtNodes
  <2>3. m' = [m EXCEPT ![pred[t]] = Free] /\ pred'[t] = curr[t]
    BY <1>1, <1>12 DEF Advance, MutexUnlock, TypeOK
  <2>4. HoldsPred(t) /\ HoldsCurr(t) /\ HoldsPred(t)' /\ ~HoldsCurr(t)'
    BY <2>1 DEF HoldsPred, HoldsCurr
  <2>. QED  BY <1>1, <1>4, <1>5, <2>2, <2>3, <2>4 DEF TypeOK
<1>13. CASE InsertLink(t)
  <2>1. PICK n \in Nodes \ heap : m' = [m EXCEPT ![n] = Free]
    BY <1>13 DEF InsertLink
  <2>2. m' = m
    BY <1>1, <2>1, FreshNode DEF TypeOK
  <2>. QED  BY <1>1, <1>6, <1>13, <2>2 DEF InsertLink, Go, TypeOK, HoldsPred, HoldsCurr
<1>14. CASE UnlockCurr(t)
  <2>1. pc[t] = "unlockcurr" /\ pc'[t] = "unlockpred"
    BY <1>1, <1>14 DEF UnlockCurr, Go, TypeOK
  <2>2. curr[t] \in Nodes /\ pred[t] # curr[t]
    BY <2>1 DEF Core, TypeOK, Pointers, HoldsCurr, Linked
  <2>3. m' = [m EXCEPT ![curr[t]] = Free] /\ UNCHANGED <<pred, curr>>
    BY <1>14 DEF UnlockCurr, MutexUnlock
  <2>4. HoldsPred(t) /\ HoldsCurr(t) /\ HoldsPred(t)' /\ ~HoldsCurr(t)'
    BY <2>1 DEF HoldsPred, HoldsCurr
  <2>5. m[curr[t]] = t
    BY <1>5, <2>2, <2>4
  <2>. QED  BY <1>1, <1>4, <1>5, <2>2, <2>3, <2>4, <2>5 DEF TypeOK
<1>15. CASE UnlockPred(t)
  <2>1. pc[t] = "unlockpred" /\ pc'[t] \in {"free", "op"}
    BY <1>1, <1>15 DEF UnlockPred, Go, TypeOK
  <2>2. m' = [m EXCEPT ![pred[t]] = Free] /\ UNCHANGED <<pred, curr>> /\ pred[t] \in Nodes
    BY <1>1, <1>15 DEF UnlockPred, MutexUnlock, TypeOK
  <2>3. HoldsPred(t) /\ ~HoldsCurr(t) /\ ~HoldsPred(t)' /\ ~HoldsCurr(t)'
    BY <2>1 DEF HoldsPred, HoldsCurr
  <2>4. m[pred[t]] = t
    BY <1>5, <2>2, <2>3
  <2>. QED  BY <1>1, <1>4, <1>5, <2>2, <2>3, <2>4 DEF TypeOK
<1>. QED  BY <1>7, <1>8, <1>9, <1>10, <1>11, <1>12, <1>13, <1>14, <1>15 DEF Step

\* Only a link adds a node to the list and only an unlink removes one; a free
\* takes away a node that has left it.
LEMMA LinkedNext ==
  ASSUME KeySpace < INT_MAX, Core, NEW t \in Threads, Create(t) \/ Step(t)
  PROVE  /\ Unlinking(t)' => pc'[t] \in {"unlockcurr", "unlockpred", "free"}
         /\ InsertLink(t) => \E n \in Nodes \ heap :
              /\ Linked' = Linked \union {n} /\ n # pred[t]
              /\ key'  = [key EXCEPT ![n] = k[t]]
              /\ next' = [next EXCEPT ![n] = curr[t], ![pred[t]] = n]
         /\ Unlink(t) => Linked' = Linked \ {curr[t]} /\ Unlinking(t)' /\ heap' = heap
         /\ ~InsertLink(t) /\ ~Unlink(t) =>
              /\ Linked' = Linked /\ UNCHANGED <<key, next>>
              /\ Unlinking(t)' => Unlinking(t) /\ heap' = heap /\ curr'[t] = curr[t]
<1>1. TypeOK
  BY DEF Core
<1>2. \A n : n \in Linked <=> n \in heap /\ \A u \in Threads : Unlinking(u) => curr[u] # n
  BY DEF Linked
<1>3. \A n : n \in Linked' <=> n \in heap' /\ \A u \in Threads : Unlinking(u)' => curr'[u] # n
  BY DEF Linked
<1>4. \A u \in Threads \ {t} : (Unlinking(u)' <=> Unlinking(u)) /\ curr'[u] = curr[u]
  BY <1>1, Others, OtherPoints
<1>5. ASSUME UNCHANGED heap, Unlinking(t)' <=> Unlinking(t), Unlinking(t) => curr'[t] = curr[t]
      PROVE  Linked' = Linked
  <2>1. ASSUME NEW n PROVE n \in Linked' <=> n \in Linked
    BY <1>2, <1>3, <1>4, <1>5
  <2>. QED  BY <2>1
<1>6. ASSUME Create(t) \/ Begin(t) \/ Finish(t) \/ LockHead(t) \/ LockCurr(t) \/ Advance(t)
      PROVE  ~Unlinking(t) /\ ~Unlinking(t)' /\ UNCHANGED <<key, next, heap>>
  BY <1>1, <1>6 DEF Create, Begin, Finish, LockHead, LockCurr, Advance, Go, memory, TypeOK, Unlinking
<1>7. ASSUME Lookup(t) \/ InsertDuplicate(t) \/ InsertNoMemory(t) \/ DeleteMissing(t)
      PROVE  ~Unlinking(t) /\ ~Unlinking(t)' /\ UNCHANGED <<key, next, heap>>
  BY <1>1, <1>7 DEF Lookup, InsertDuplicate, InsertNoMemory, DeleteMissing, Decide, Go, memory, TypeOK,
                    Unlinking
<1>8. ASSUME UnlockCurr(t) \/ UnlockPred(t)
      PROVE  (Unlinking(t)' <=> Unlinking(t)) /\ UNCHANGED <<key, next, heap, curr>>
  BY <1>1, <1>8 DEF UnlockCurr, UnlockPred, Go, TypeOK, Unlinking
<1>9. ASSUME FreeNode(t)
      PROVE  ~Unlinking(t)' /\ UNCHANGED <<key, next, curr>> /\ Linked' = Linked
  <2>1. ~Unlinking(t)' /\ UNCHANGED <<key, next, curr>> /\ heap' = heap \ {curr[t]}
    BY <1>1, <1>9 DEF FreeNode, Go, TypeOK, Unlinking
  <2>2. Unlinking(t)
    BY <1>9 DEF Core, Pointers, FreeNode, Go
  <2>3. ASSUME NEW n PROVE n \in Linked' <=> n \in Linked
    BY <1>2, <1>3, <1>4, <2>1, <2>2
  <2>. QED  BY <2>1, <2>3
<1>10. ASSUME Unlink(t)
       PROVE  Linked' = Linked \ {curr[t]} /\ Unlinking(t)' /\ heap' = heap
  <2>1. ~Unlinking(t) /\ Unlinking(t)' /\ UNCHANGED <<heap, curr>>
    BY <1>1, <1>10 DEF Unlink, Go, TypeOK, Unlinking
  <2>2. ASSUME NEW n PROVE n \in Linked' <=> n \in Linked \ {curr[t]}
    BY <1>2, <1>3, <1>4, <2>1
  <2>. QED  BY <2>1, <2>2
<1>11. ASSUME InsertLink(t)
       PROVE  /\ ~Unlinking(t)'
              /\ \E n \in Nodes \ heap :
                   /\ Linked' = Linked \union {n} /\ n # pred[t]
                   /\ key'  = [key EXCEPT ![n] = k[t]]
                   /\ next' = [next EXCEPT ![n] = curr[t], ![pred[t]] = n]
  <2>1. ~Unlinking(t) /\ ~Unlinking(t)' /\ pc[t] = "compare"
    BY <1>1, <1>11 DEF InsertLink, Go, TypeOK, Unlinking
  <2>2. PICK n \in Nodes \ heap :
          /\ heap' = heap \union {n}
          /\ key'  = [key EXCEPT ![n] = k[t]]
          /\ next' = [next EXCEPT ![n] = curr[t], ![pred[t]] = n]
    BY <1>11 DEF InsertLink
  <2>3. \A u \in Threads : Unlinking(u) => curr[u] # n
    BY DEF Core, Pointers
  <2>4. ASSUME NEW x PROVE x \in Linked' <=> x \in Linked \union {n}
    BY <1>2, <1>3, <1>4, <2>1, <2>2, <2>3
  <2>5. n # pred[t]
    BY <1>2, <2>1, AtNodes
  <2>. QED  BY <2>1, <2>2, <2>4, <2>5
<1>12. Unlinking(t)' => pc'[t] \in {"unlockcurr", "unlockpred", "free"}
  BY DEF Unlinking
<1>13. ASSUME ~InsertLink(t), ~Unlink(t)
       PROVE  /\ Linked' = Linked /\ UNCHANGED <<key, next>>
              /\ Unlinking(t)' => Unlinking(t) /\ heap' = heap /\ curr'[t] = curr[t]
  BY <1>5, <1>6, <1>7, <1>8, <1>9, <1>13 DEF Step
<1>. QED  BY <1>10, <1>11, <1>12, <1>13

\* Only its predecessor leads to a node of the list.
LEMMA OnePredecessor ==
  ASSUME KeySpace < INT_MAX, Core,
         NEW a \in Linked \ {tail}, NEW b \in Linked \ {tail}, next[a] = next[b]
  PROVE  a = b
<1>1. /\ key[a] \in Int /\ key[b] \in Int /\ key[next[a]] \in Int
      /\ key[a] < key[next[a]] /\ key[b] < key[next[a]]
      /\ key[b] <= key[a] \/ key[next[a]] <= key[b]
      /\ key[a] <= key[b] \/ key[next[a]] <= key[a]
  BY Bounds DEF Core, Sorted
<1>2. key[a] = key[b]
  BY <1>1
<1>. QED  BY <1>2 DEF Core, Sorted

\* The key a call looks for is smaller than that of the tail, so a node it goes
\* past or removes is not a sentinel.
LEMMA BeforeTail ==
  ASSUME KeySpace < INT_MAX, Core, NEW t \in Threads, pc[t] \in {"lockcurr", "compare"}
  PROVE  /\ pred[t] # tail
         /\ pc[t] = "compare" /\ key[curr[t]] <= k[t] => curr[t] # tail
         /\ pc[t] = "compare" /\ key[curr[t]] = k[t] => curr[t] # head
<1>1. /\ k[t] \in Int /\ INT_MIN < k[t] /\ k[t] < INT_MAX
      /\ pred[t] \in Nodes /\ curr[t] \in Nodes /\ key[pred[t]] < k[t]
      /\ key[pred[t]] \in Int /\ key[curr[t]] \in Int
  BY AtNodes, Bounds DEF Core
<1>2. key[head] = INT_MIN /\ key[tail] = INT_MAX /\ INT_MAX \in Int /\ INT_MIN \in Int
  BY ListAssumption DEF Core, Sentinels, ListAssumption, INT_MIN
<1>. QED  BY <1>1, <1>2

\* While a search waits for curr, nobody changes the next of pred, which is
\* locked, so curr stays its successor.
LEMMA NextCoupled ==
  ASSUME KeySpace < INT_MAX, Core, Next PROVE Coupled'
<1>1. TypeOK /\ Coupled /\ head \in Nodes
  BY ListAssumption DEF Core, ListAssumption, Nodes, head
<1>2. CASE Start \/ Join \/ Exited
  BY <1>1, <1>2 DEF Start, Join, Exited, vars, memory, Coupled
<1>. SUFFICES ASSUME NEW t \in Threads, Create(t) \/ Step(t) PROVE Coupled'
  BY <1>2 DEF Next
<1>3. ASSUME NEW u \in Threads \ {t}, pc'[u] \in {"lockcurr", "compare"}
      PROVE  next'[pred'[u]] = curr'[u] /\ key'[pred'[u]] < k'[u]
  <2>1. /\ pc'[u] = pc[u] /\ k'[u] = k[u] /\ pred'[u] = pred[u] /\ curr'[u] = curr[u]
    BY <1>1, Others
  <2>2. /\ next[pred[u]] = curr[u] /\ key[pred[u]] < k[u] /\ pred[u] \in Linked
        /\ pred[u] \in Nodes /\ m[pred[u]] = u
    BY <1>3, <2>1, AtNodes
  <2>3. CASE InsertLink(t)
    <3>1. PICK n \in Nodes \ heap :
            /\ key'  = [key EXCEPT ![n] = k[t]]
            /\ next' = [next EXCEPT ![n] = curr[t], ![pred[t]] = n]
      BY <2>3, LinkedNext
    <3>2. n # pred[u] /\ pred[t] # pred[u]
      BY <2>2, <2>3, AtNodes DEF InsertLink, Go, Linked
    <3>. QED  BY <1>1, <2>1, <2>2, <3>1, <3>2 DEF TypeOK
  <2>4. CASE Unlink(t)
    <3>1. pred[t] # pred[u]
      BY <2>2, <2>4, AtNodes DEF Unlink, Go
    <3>. QED  BY <1>1, <2>1, <2>2, <2>4, <3>1 DEF Unlink, TypeOK
  <2>5. CASE ~InsertLink(t) /\ ~Unlink(t)
    BY <2>1, <2>2, <2>5, LinkedNext
  <2>. QED  BY <2>3, <2>4, <2>5
<1>4. ASSUME pc'[t] \in {"lockcurr", "compare"}
      PROVE  next'[pred'[t]] = curr'[t] /\ key'[pred'[t]] < k'[t]
  <2>1. LockHead(t) \/ LockCurr(t) \/ Advance(t)
    BY <1>1, <1>4 DEF Step, TypeOK, Go, Create, Begin, Finish, Lookup, InsertDuplicate, InsertNoMemory,
                  InsertLink, DeleteMissing, Unlink, UnlockCurr, UnlockPred, FreeNode, Decide
  <2>2. CASE LockHead(t)
    <3>1. key[head] < k[t]
      BY <2>2, Bounds DEF Core, Pointers, Sentinels, LockHead, Go
    <3>. QED  BY <1>1, <2>2, <3>1 DEF LockHead, TypeOK
  <2>3. CASE LockCurr(t)
    BY <1>1, <2>3 DEF LockCurr, Coupled, Go
  <2>4. CASE Advance(t)
    BY <1>1, <2>4 DEF Advance, Before, TypeOK
  <2>. QED  BY <2>1, <2>2, <2>3, <2>4
<1>. QED  BY <1>3, <1>4 DEF Coupled

\* An insertion between two adjacent nodes and an unlinking keep the chain
\* sorted; every other step leaves it alone.
LEMMA NextSorted ==
  ASSUME KeySpace < INT_MAX, Core, Next PROVE Sentinels' /\ Sorted'
<1>1. TypeOK /\ Sentinels /\ Sorted /\ head \in Linked /\ tail \in Linked /\ head # tail
  BY DEF Core, Sentinels, head, tail
<1>2. CASE Start \/ Join \/ Exited
  <2>1. /\ \A u \in Threads : Unlinking(u)' <=> Unlinking(u)
        /\ UNCHANGED <<heap, curr, key, next>>
    BY <1>1, <1>2 DEF Start, Join, Exited, vars, memory, Unlinking
  <2>2. Linked' = Linked
    BY <2>1 DEF Linked
  <2>. QED  BY <1>1, <2>1, <2>2 DEF Sentinels, Sorted
<1>. SUFFICES ASSUME NEW t \in Threads, Create(t) \/ Step(t) PROVE Sentinels' /\ Sorted'
  BY <1>2 DEF Next
<1>3. CASE ~InsertLink(t) /\ ~Unlink(t)
  BY <1>1, <1>3, LinkedNext DEF Sentinels, Sorted
<1>4. \A n \in Linked : n \in Nodes /\ n \in heap /\ key[n] \in Int
  BY <1>1, Bounds
<1>5. \A n, o \in Linked : key[n] = key[o] => n = o
  BY <1>1 DEF Sorted
<1>6. ASSUME NEW n \in Linked \ {tail}
      PROVE  /\ next[n] \in Linked /\ key[n] < key[next[n]]
             /\ \A o \in Linked : key[o] <= key[n] \/ key[next[n]] <= key[o]
  BY <1>1 DEF Sorted
<1>7. CASE InsertLink(t)
  <2>1. PICK q \in Nodes \ heap :
          /\ Linked' = Linked \union {q} /\ q # pred[t]
          /\ key'  = [key EXCEPT ![q] = k[t]]
          /\ next' = [next EXCEPT ![q] = curr[t], ![pred[t]] = q]
    BY <1>7, LinkedNext
  <2>2. /\ pc[t] = "compare" /\ ~(key[curr[t]] < k[t]) /\ key[curr[t]] # k[t]
    BY <1>7 DEF InsertLink, Go, Before
  <2>3. /\ pred[t] \in Linked /\ curr[t] \in Linked /\ next[pred[t]] = curr[t]
        /\ key[pred[t]] < k[t] /\ k[t] \in Keys /\ k[t] \in Int /\ pred[t] # tail
    BY <1>1, <2>2, AtNodes, BeforeTail, Bounds
  <2>4. k[t] < key[curr[t]]
    BY <1>4, <2>2, <2>3
  <2>5. q \notin Linked /\ key'[q] = k[t] /\ \A n \in Linked : key'[n] = key[n]
    BY <1>1, <1>4, <2>1 DEF TypeOK
  <2>6. /\ next'[q] = curr[t] /\ next'[pred[t]] = q
        /\ \A n \in Linked \ {pred[t]} : next'[n] = next[n]
    BY <1>1, <1>4, <2>1, <2>3, <2>5 DEF TypeOK
  <2>7. \A o \in Linked : key[o] <= key[pred[t]] \/ key[curr[t]] <= key[o]
    BY <1>6, <2>3
  <2>8. \A o \in Linked : key[o] # k[t]
    BY <1>4, <2>3, <2>4, <2>7
  <2>9. ASSUME NEW n \in Linked' \ {tail}
        PROVE  /\ next'[n] \in Linked' /\ key'[n] < key'[next'[n]]
               /\ \A o \in Linked' : key'[o] <= key'[n] \/ key'[next'[n]] <= key'[o]
    <3>1. CASE n = q
      <4>1. next'[n] = curr[t] /\ key'[n] = k[t] /\ key'[next'[n]] = key[curr[t]]
        BY <2>3, <2>5, <2>6, <3>1
      <4>2. ASSUME NEW o \in Linked PROVE key[o] <= k[t] \/ key[curr[t]] <= key[o]
        BY <1>4, <2>3, <2>7
      <4>. QED
        <5>1. next'[n] \in Linked' /\ key'[n] < key'[next'[n]]
          BY <2>1, <2>3, <2>4, <4>1
        <5>2. ASSUME NEW o \in Linked' PROVE key'[o] <= key'[n] \/ key'[next'[n]] <= key'[o]
          BY <2>1, <2>3, <2>5, <4>1, <4>2
        <5>. QED  BY <5>1, <5>2
    <3>2. CASE n = pred[t]
      <4>1. next'[n] = q /\ key'[n] = key[pred[t]] /\ key'[next'[n]] = k[t]
        BY <2>3, <2>5, <2>6, <3>2
      <4>2. ASSUME NEW o \in Linked PROVE key[o] <= key[pred[t]] \/ k[t] <= key[o]
        BY <1>4, <2>3, <2>4, <2>7
      <4>. QED
        <5>1. next'[n] \in Linked' /\ key'[n] < key'[next'[n]]
          BY <2>1, <2>3, <4>1
        <5>2. ASSUME NEW o \in Linked' PROVE key'[o] <= key'[n] \/ key'[next'[n]] <= key'[o]
          BY <2>1, <2>3, <2>5, <4>1, <4>2
        <5>. QED  BY <5>1, <5>2
    <3>3. CASE n \in Linked \ {pred[t]}
      <4>1. next'[n] = next[n] /\ key'[n] = key[n] /\ key'[next'[n]] = key[next[n]] /\ next[n] \in Linked
        BY <1>6, <2>5, <2>6, <3>3
      <4>2. \/ key[pred[t]] <= key[n] /\ key[curr[t]] <= key[n]
            \/ key[next[n]] <= key[pred[t]]
        <5>1. key[pred[t]] <= key[n] \/ key[next[n]] <= key[pred[t]]
          <6>1. key[pred[t]] <= key[n] \/ key[next[n]] <= key[pred[t]]
            BY <1>6, <2>3, <3>3
          <6>. QED  BY <6>1
        <5>2. key[n] # key[pred[t]]
          BY <1>5, <2>3, <3>3
        <5>3. key[n] <= key[pred[t]] \/ key[curr[t]] <= key[n]
          BY <2>7, <3>3
        <5>. QED  BY <1>4, <2>3, <3>3, <5>1, <5>2, <5>3
      <4>3. k[t] <= key[n] \/ key[next[n]] <= k[t]
        BY <1>4, <2>3, <2>4, <3>3, <4>1, <4>2
      <4>. QED
        <5>1. next'[n] \in Linked' /\ key'[n] < key'[next'[n]]
          BY <1>6, <2>1, <3>3, <4>1
        <5>2. ASSUME NEW o \in Linked' PROVE key'[o] <= key'[n] \/ key'[next'[n]] <= key'[o]
          <6>1. CASE o = q
            BY <2>5, <4>1, <4>3, <6>1
          <6>2. CASE o \in Linked
            BY <1>6, <2>5, <3>3, <4>1, <6>2
          <6>. QED  BY <2>1, <6>1, <6>2
        <5>. QED  BY <5>1, <5>2
    <3>. QED  BY <2>1, <3>1, <3>2, <3>3
  <2>10. \A n, o \in Linked' : key'[n] = key'[o] => n = o
    BY <1>5, <2>1, <2>5, <2>8
  <2>11. \A n \in Linked' \ {head, tail} : key'[n] \in Keys
    BY <1>1, <2>1, <2>3, <2>5 DEF Sorted
  <2>12. Sentinels'
    BY <1>1, <2>1, <2>5 DEF Sentinels
  <2>. QED  BY <2>9, <2>10, <2>11, <2>12 DEF Sorted
<1>8. CASE Unlink(t)
  <2>1. pc[t] = "compare" /\ key[curr[t]] = k[t] /\ next' = [next EXCEPT ![pred[t]] = next[curr[t]]]
    BY <1>8 DEF Unlink, Go
  <2>2. key' = key /\ Linked' = Linked \ {curr[t]}
    BY <1>8, LinkedNext DEF Unlink
  <2>3. /\ pred[t] \in Linked /\ curr[t] \in Linked /\ next[pred[t]] = curr[t] /\ pred[t] # curr[t]
    BY <2>1, AtNodes
  <2>4. pred[t] # tail /\ curr[t] # tail /\ curr[t] # head
    <3>1. key[curr[t]] <= k[t]
      BY <1>4, <2>1, <2>3
    <3>. QED  BY <2>1, <3>1, BeforeTail
  <2>5. /\ next'[pred[t]] = next[curr[t]]
        /\ \A n \in Linked \ {pred[t]} : next'[n] = next[n]
    BY <1>1, <1>4, <2>1, <2>3 DEF TypeOK
  <2>6. /\ next[curr[t]] \in Linked /\ key[curr[t]] < key[next[curr[t]]]
        /\ \A o \in Linked : key[o] <= key[curr[t]] \/ key[next[curr[t]]] <= key[o]
    BY <1>6, <2>3, <2>4
  <2>7. /\ key[pred[t]] < key[curr[t]]
        /\ \A o \in Linked : key[o] <= key[pred[t]] \/ key[curr[t]] <= key[o]
    BY <1>6, <2>3, <2>4
  <2>8. ASSUME NEW n \in Linked' \ {tail}
        PROVE  /\ next'[n] \in Linked' /\ key[n] < key[next'[n]]
               /\ \A o \in Linked' : key[o] <= key[n] \/ key[next'[n]] <= key[o]
    <3>1. CASE n = pred[t]
      <4>1. next'[n] = next[curr[t]] /\ next'[n] # curr[t] /\ key[n] < key[next'[n]]
        BY <1>4, <2>3, <2>5, <2>6, <2>7, <3>1
      <4>2. ASSUME NEW o \in Linked \ {curr[t]}
            PROVE  key[o] <= key[pred[t]] \/ key[next[curr[t]]] <= key[o]
        <5>1. key[o] # key[curr[t]]
          BY <1>5, <2>3
        <5>2. key[o] <= key[pred[t]] \/ key[curr[t]] <= key[o]
          BY <2>7
        <5>3. key[o] <= key[curr[t]] \/ key[next[curr[t]]] <= key[o]
          BY <2>6
        <5>. QED  BY <1>4, <2>3, <5>1, <5>2, <5>3
      <4>. QED  BY <2>2, <2>6, <3>1, <4>1, <4>2
    <3>2. CASE n # pred[t]
      <4>1. n \in Linked \ {tail} /\ next'[n] = next[n]
        BY <2>2, <2>5, <3>2
      <4>2. next[n] # curr[t]
        BY <2>3, <2>4, <3>2, <4>1, OnePredecessor
      <4>. QED  BY <1>6, <2>2, <4>1, <4>2
    <3>. QED  BY <3>1, <3>2
  <2>9. \A n, o \in Linked' : key[n] = key[o] => n = o
    BY <1>5, <2>2
  <2>10. \A n \in Linked' \ {head, tail} : key[n] \in Keys
    BY <1>1, <2>2 DEF Sorted
  <2>11. Sentinels'
    BY <1>1, <2>2, <2>4 DEF Sentinels
  <2>. QED  BY <2>2, <2>8, <2>9, <2>10, <2>11 DEF Sorted
<1>. QED  BY <1>3, <1>7, <1>8

\* The pointers of a worker that takes no step.
LEMMA OtherPointers ==
  ASSUME KeySpace < INT_MAX, Core, NEW t \in Threads, Create(t) \/ Step(t), NEW u \in Threads \ {t}
  PROVE  /\ HoldsPred(u)' => pred'[u] \in Linked'
         /\ pc'[u] \in {"lockcurr", "compare", "unlockcurr"} /\ ~Unlinking(u)' => curr'[u] \in Linked'
         /\ HoldsCurr(u)' => pred'[u] # curr'[u]
         /\ Unlinking(u)' => /\ curr'[u] \in heap' \ {head, tail}
                             /\ Unlinking(t)' => curr'[t] # curr'[u]
         /\ pc'[u] \notin {"new", "barrier", "op", "done"} => k'[u] \in Keys
         /\ pc'[u] = "free" => Unlinking(u)'
<1>1. TypeOK /\ Pointers /\ Owners /\ \A n \in Linked : n \in Nodes /\ n \in heap
  BY Bounds DEF Core
<1>2. /\ pc'[u] = pc[u] /\ k'[u] = k[u] /\ pred'[u] = pred[u] /\ curr'[u] = curr[u]
      /\ (Unlinking(u)' <=> Unlinking(u)) /\ (HoldsPred(u)' <=> HoldsPred(u))
      /\ (HoldsCurr(u)' <=> HoldsCurr(u))
  BY <1>1, Others, OtherPoints
<1>3. ASSUME NEW n \in Linked, n \notin Linked'
      PROVE  Unlink(t) /\ n = curr[t] /\ pc[t] = "compare" /\ m[n] = t /\ next[pred[t]] = n
             /\ pred[t] \in Linked \ {tail} /\ m[pred[t]] = t
  <2>1. Unlink(t) /\ n = curr[t]
    BY <1>3, LinkedNext
  <2>. QED  BY <2>1, AtNodes, BeforeTail DEF Unlink, Go
<1>4. HoldsPred(u) => pred[u] \in Linked'
  <2>. SUFFICES ASSUME HoldsPred(u), pred[u] \notin Linked' PROVE FALSE
    OBVIOUS
  <2>1. pred[u] \in Linked /\ pred[u] \in Nodes
    BY <1>1 DEF Pointers
  <2>2. m[pred[u]] = u
    BY <1>1, <2>1 DEF Owners
  <2>. QED  BY <1>3, <2>1, <2>2
<1>5. pc[u] \in {"lockcurr", "compare", "unlockcurr"} /\ ~Unlinking(u) => curr[u] \in Linked'
  <2>. SUFFICES ASSUME pc[u] \in {"lockcurr", "compare", "unlockcurr"}, ~Unlinking(u),
                       curr[u] \notin Linked'
                PROVE  FALSE
    OBVIOUS
  <2>1. curr[u] \in Linked /\ curr[u] \in Nodes
    BY <1>1 DEF Pointers
  <2>2. CASE pc[u] \in {"compare", "unlockcurr"}
    <3>1. m[curr[u]] = u
      BY <1>1, <2>1, <2>2 DEF Owners, HoldsCurr
    <3>. QED  BY <1>3, <2>1, <3>1
  <2>3. CASE pc[u] = "lockcurr"
    <3>1. next[pred[u]] = curr[u] /\ pred[u] \in Linked \ {tail} /\ m[pred[u]] = u
      BY <2>3, AtNodes, BeforeTail
    <3>2. next[pred[t]] = curr[u] /\ pred[t] \in Linked \ {tail} /\ m[pred[t]] = t
      BY <1>3, <2>1
    <3>3. pred[u] = pred[t]
      BY <3>1, <3>2, OnePredecessor
    <3>. QED  BY <3>1, <3>2, <3>3
  <2>. QED  BY <2>2, <2>3
<1>6. Unlinking(u) => /\ curr[u] \in heap' \ {head, tail}
                      /\ Unlinking(t)' => curr'[t] # curr[u]
  <2>. SUFFICES ASSUME Unlinking(u) PROVE curr[u] \in heap' \ {head, tail}
                                          /\ (Unlinking(t)' => curr'[t] # curr[u])
    OBVIOUS
  <2>1. curr[u] \in heap \ {head, tail} /\ curr[u] \notin Linked
        /\ (Unlinking(t) => curr[t] # curr[u])
    BY <1>1 DEF Pointers, Linked
  <2>2. curr[u] \in heap'
    <3>1. heap' = heap \/ FreeNode(t) \/ InsertLink(t)
      BY DEF Step, Create, Begin, Finish, LockHead, LockCurr, Advance, Lookup, InsertDuplicate,
             InsertNoMemory, DeleteMissing, Unlink, UnlockCurr, UnlockPred, Decide, memory
    <3>2. CASE FreeNode(t)
      <4>1. Unlinking(t) /\ heap' = heap \ {curr[t]}
        BY <1>1, <3>2 DEF FreeNode, Go, Pointers
      <4>. QED  BY <2>1, <4>1
    <3>3. CASE InsertLink(t)
      BY <2>1, <3>3 DEF InsertLink
    <3>. QED  BY <2>1, <3>1, <3>2, <3>3
  <2>3. ASSUME Unlinking(t)' PROVE curr'[t] # curr[u]
    <3>1. CASE Unlink(t)
      <4>1. curr'[t] = curr[t] /\ curr[t] \in Linked
        BY <3>1, AtNodes DEF Unlink, Go
      <4>. QED  BY <2>1, <4>1
    <3>2. CASE InsertLink(t)
      BY <1>1, <2>3, <3>2 DEF InsertLink, Go, Unlinking, TypeOK
    <3>3. CASE ~Unlink(t) /\ ~InsertLink(t)
      BY <2>1, <2>3, <3>3, LinkedNext
    <3>. QED  BY <3>1, <3>2, <3>3
  <2>. QED  BY <2>1, <2>2, <2>3
<1>7. /\ HoldsCurr(u) => pred[u] # curr[u]
      /\ pc[u] \notin {"new", "barrier", "op", "done"} => k[u] \in Keys
      /\ pc[u] = "free" => Unlinking(u)
  BY <1>1 DEF Pointers
<1>. QED  BY <1>2, <1>4, <1>5, <1>6, <1>7

\* The pointers of the worker that takes a step.
LEMMA OwnPointers ==
  ASSUME KeySpace < INT_MAX, Core, NEW t \in Threads, Create(t) \/ Step(t)
  PROVE  /\ HoldsPred(t)' => pred'[t] \in Linked'
         /\ pc'[t] \in {"lockcurr", "compare", "unlockcurr"} /\ ~Unlinking(t)' => curr'[t] \in Linked'
         /\ HoldsCurr(t)' => pred'[t] # curr'[t]
         /\ Unlinking(t)' => curr'[t] \in heap' \ {head, tail}
         /\ pc'[t] \notin {"new", "barrier", "op", "done"} => k'[t] \in Keys
         /\ pc'[t] = "free" => Unlinking(t)'
<1>. DEFINE Own == /\ HoldsPred(t)' => pred'[t] \in Linked'
                   /\ pc'[t] \in {"lockcurr", "compare", "unlockcurr"} /\ ~Unlinking(t)'
                        => curr'[t] \in Linked'
                   /\ HoldsCurr(t)' => pred'[t] # curr'[t]
                   /\ Unlinking(t)' => curr'[t] \in heap' \ {head, tail}
                   /\ pc'[t] \notin {"new", "barrier", "op", "done"} => k'[t] \in Keys
                   /\ pc'[t] = "free" => Unlinking(t)'
<1>1. TypeOK /\ Pointers /\ Owners
  BY DEF Core
<1>2. CASE Create(t) \/ Begin(t) \/ Finish(t) \/ FreeNode(t)
  BY <1>1, <1>2 DEF Create, Begin, Finish, FreeNode, Go, TypeOK, HoldsPred, HoldsCurr, Unlinking
<1>3. ASSUME Linked' = Linked, ~InsertLink(t), ~Unlink(t), UNCHANGED <<heap, k>>,
             pc'[t] \in {"lockcurr", "compare", "unlockcurr"}, ~Unlinking(t)',
             k[t] \in Keys, pred'[t] \in Linked, curr'[t] \in Linked,
             pc'[t] # "lockcurr" => pred'[t] # curr'[t]
      PROVE  Own
  BY <1>3 DEF HoldsPred, HoldsCurr
<1>4. CASE LockHead(t)
  <2>1. pc[t] = "lockhead" /\ pc'[t] = "lockcurr" /\ pred'[t] = head /\ curr'[t] = next[head]
        /\ UNCHANGED <<heap, k>>
    BY <1>1, <1>4 DEF LockHead, Go, TypeOK
  <2>2. head \in Linked /\ next[head] \in Linked /\ k[t] \in Keys
    BY <1>1, <2>1 DEF Core, Sentinels, Sorted, Pointers, head, tail
  <2>3. ~InsertLink(t) /\ ~Unlink(t) /\ ~Unlinking(t)'
    BY <2>1 DEF InsertLink, Unlink, Go, Unlinking
  <2>4. Linked' = Linked
    BY <2>3, LinkedNext
  <2>. QED  BY <1>3, <2>1, <2>2, <2>3, <2>4
<1>5. CASE LockCurr(t)
  <2>1. pc[t] = "lockcurr" /\ pc'[t] = "compare" /\ UNCHANGED <<heap, k, pred, curr>> /\ m[curr[t]] = Free
    BY <1>1, <1>5 DEF LockCurr, Go, MutexLock, TypeOK
  <2>2. pred[t] \in Linked /\ curr[t] \in Linked /\ k[t] \in Keys /\ m[pred[t]] = t
    BY <2>1, AtNodes
  <2>3. ~InsertLink(t) /\ ~Unlink(t) /\ ~Unlinking(t)'
    BY <2>1 DEF InsertLink, Unlink, Go, Unlinking
  <2>4. Linked' = Linked
    BY <2>3, LinkedNext
  <2>5. pred[t] # curr[t]
    BY <2>1, <2>2, ListAssumption DEF ListAssumption
  <2>. QED  BY <1>3, <2>1, <2>2, <2>3, <2>4, <2>5
<1>6. CASE Advance(t)
  <2>1. /\ pc[t] = "compare" /\ pc'[t] = "lockcurr" /\ pred'[t] = curr[t] /\ curr'[t] = next[curr[t]]
        /\ UNCHANGED <<heap, k>> /\ key[curr[t]] < k[t]
    BY <1>1, <1>6 DEF Advance, Before, Go, TypeOK
  <2>2. curr[t] \in Linked /\ k[t] \in Keys
    BY <2>1, AtNodes
  <2>3. curr[t] # tail
    <3>1. key[curr[t]] <= k[t]
      BY <1>1, <2>1, <2>2, Bounds DEF Core
    <3>. QED  BY <2>1, <3>1, BeforeTail
  <2>4. next[curr[t]] \in Linked
    BY <2>2, <2>3 DEF Core, Sorted
  <2>5. ~InsertLink(t) /\ ~Unlink(t) /\ ~Unlinking(t)'
    BY <1>1, <1>6, <2>1 DEF Advance, InsertLink, Unlink, Go, Unlinking
  <2>6. Linked' = Linked
    BY <2>5, LinkedNext
  <2>. QED  BY <1>3, <2>1, <2>2, <2>4, <2>5, <2>6
<1>7. CASE Lookup(t) \/ InsertDuplicate(t) \/ InsertNoMemory(t) \/ DeleteMissing(t)
  <2>1. /\ pc[t] = "compare" /\ pc'[t] = "unlockcurr" /\ UNCHANGED <<heap, key, next, pred, curr, k>>
        /\ ~Unlinking(t)'
    BY <1>1, <1>7 DEF Lookup, InsertDuplicate, InsertNoMemory, DeleteMissing, Decide, Go, memory, TypeOK,
                      Unlinking
  <2>2. pred[t] \in Linked /\ curr[t] \in Linked /\ k[t] \in Keys /\ pred[t] # curr[t]
    BY <2>1, AtNodes
  <2>3. ~InsertLink(t) /\ ~Unlink(t)
    <3>1. ~InsertLink(t)
      BY <2>1 DEF InsertLink
    <3>2. ~Unlink(t)
      BY <2>1, LinkedNext
    <3>. QED  BY <3>1, <3>2
  <2>4. Linked' = Linked
    BY <2>3, LinkedNext
  <2>. QED  BY <1>3, <2>1, <2>2, <2>3, <2>4
<1>8. CASE InsertLink(t)
  <2>1. pc[t] = "compare" /\ pc'[t] = "unlockcurr" /\ UNCHANGED <<pred, curr, k>> /\ ~Unlinking(t)'
    BY <1>1, <1>8 DEF InsertLink, Go, TypeOK, Unlinking
  <2>2. pred[t] \in Linked /\ curr[t] \in Linked /\ k[t] \in Keys /\ pred[t] # curr[t]
    BY <2>1, AtNodes
  <2>3. Linked \subseteq Linked'
    BY <1>8, LinkedNext
  <2>. QED  BY <2>1, <2>2, <2>3 DEF HoldsPred, HoldsCurr
<1>9. CASE Unlink(t)
  <2>1. pc[t] = "compare" /\ pc'[t] = "unlockcurr" /\ UNCHANGED <<heap, pred, curr, k>>
        /\ key[curr[t]] = k[t] /\ Linked' = Linked \ {curr[t]} /\ Unlinking(t)'
    BY <1>1, <1>9, LinkedNext DEF Unlink, Go, TypeOK
  <2>2. pred[t] \in Linked /\ curr[t] \in Linked /\ k[t] \in Keys /\ pred[t] # curr[t]
    BY <2>1, AtNodes
  <2>3. curr[t] # tail /\ curr[t] # head /\ curr[t] \in heap
    <3>1. key[curr[t]] <= k[t] /\ curr[t] \in heap
      BY <1>1, <2>1, <2>2, Bounds DEF Core
    <3>. QED  BY <2>1, <3>1, BeforeTail
  <2>. QED  BY <2>1, <2>2, <2>3
<1>10. CASE UnlockCurr(t) \/ UnlockPred(t)
  <2>1. /\ UNCHANGED <<heap, pred, curr, k>>
        /\ \/ pc[t] = "unlockcurr" /\ pc'[t] = "unlockpred"
           \/ pc[t] = "unlockpred" /\ pc'[t] = (IF op[t] = "delete" /\ ok[t] THEN "free" ELSE "op")
    BY <1>1, <1>10 DEF UnlockCurr, UnlockPred, Go, TypeOK
  <2>2. ~InsertLink(t) /\ ~Unlink(t)
    BY <2>1 DEF InsertLink, Unlink, Go
  <2>3. Linked' = Linked /\ (Unlinking(t)' => Unlinking(t))
    BY <2>2, LinkedNext
  <2>4. pc'[t] = "free" => Unlinking(t)'
    BY <1>1, <1>10, <2>1 DEF UnlockCurr, UnlockPred, Unlinking
  <2>5. /\ HoldsPred(t)' => HoldsPred(t)
        /\ pc'[t] \notin {"lockcurr", "compare", "unlockcurr"} /\ ~HoldsCurr(t)'
    BY <2>1 DEF HoldsPred, HoldsCurr
  <2>6. /\ pc[t] \notin {"new", "barrier", "op", "done"}
        /\ HoldsPred(t) => pred[t] \in Linked
        /\ Unlinking(t) => curr[t] \in heap \ {head, tail}
    BY <1>1, <2>1 DEF Pointers
  <2>7. k[t] \in Keys
    BY <1>1, <2>6 DEF Pointers
  <2>. QED  BY <2>1, <2>3, <2>4, <2>5, <2>6, <2>7
<1>. QED  BY <1>2, <1>4, <1>5, <1>6, <1>7, <1>8, <1>9, <1>10 DEF Step

\* No step of one thread takes away a node that another one points to.
LEMMA NextPointers ==
  ASSUME KeySpace < INT_MAX, Core, Next PROVE Pointers'
<1>1. TypeOK /\ Pointers
  BY DEF Core
<1>2. CASE Join \/ Exited
  <2>1. UNCHANGED <<heap, pc, op, ok, k, pred, curr>>
    BY <1>2 DEF Join, Exited, vars, memory
  <2>2. Linked' = Linked /\ \A u \in Threads : Unlinking(u)' <=> Unlinking(u)
    BY <2>1 DEF Linked, Unlinking
  <2>. QED  BY <1>1, <2>1, <2>2 DEF Pointers, HoldsPred, HoldsCurr
<1>3. CASE Start
  BY <1>3 DEF Start, Pointers, HoldsPred, HoldsCurr, Unlinking
<1>. SUFFICES ASSUME NEW t \in Threads, Create(t) \/ Step(t) PROVE Pointers'
  BY <1>2, <1>3 DEF Next
<1>4. ASSUME NEW u \in Threads \ {t}, NEW v \in Threads \ {t, u}, Unlinking(u)', Unlinking(v)'
      PROVE  curr'[v] # curr'[u]
  <2>1. Unlinking(u) /\ Unlinking(v) /\ curr'[v] = curr[v] /\ curr'[u] = curr[u]
    BY <1>1, <1>4, Others, OtherPoints
  <2>. QED  BY <1>1, <2>1 DEF Pointers
<1>. QED  BY <1>4, OtherPointers, OwnPointers DEF Pointers

\* The inductive step: all parts together.
LEMMA NextCore ==
  ASSUME KeySpace < INT_MAX PROVE Core /\ [Next]_vars => Core'
<1>1. ASSUME Core, UNCHANGED vars PROVE Core'
  <2>1. UNCHANGED <<key, next, m, heap, pc, ops, op, k, pred, curr, ok, main>>
    BY <1>1 DEF vars, memory
  <2>2. /\ \A u \in Threads : /\ Unlinking(u)' <=> Unlinking(u)
                              /\ HoldsPred(u)' <=> HoldsPred(u)
                              /\ HoldsCurr(u)' <=> HoldsCurr(u)
        /\ Linked' = Linked
    BY <2>1 DEF Unlinking, HoldsPred, HoldsCurr, Linked
  <2>3. TypeOK' /\ Owners' /\ Coupled'
    BY <1>1, <2>1, <2>2 DEF Core, TypeOK, Owners, Coupled
  <2>4. Pointers'
    BY <1>1, <2>1, <2>2 DEF Core, Pointers
  <2>5. Sentinels' /\ Sorted'
    BY <1>1, <2>1, <2>2 DEF Core, Sentinels, Sorted
  <2>. QED  BY <2>3, <2>4, <2>5 DEF Core
<1>. QED  BY <1>1, NextType, NextOwners, NextCoupled, NextPointers, NextSorted DEF Core

-----------------------------------------------------------------------------
(* The theorems *)

\* Everything the steps of the list rely on holds in every state: the owners of
\* the node mutexes, the two adjacent nodes of a search, the sorted chain from
\* sentinel to sentinel, and where the pointers of the calls point.
THEOREM Invariance ==
  ASSUME KeySpace < INT_MAX PROVE Spec => []IInv
<1>1. Spec => []Core
  BY InitCore, NextCore, PTL DEF Spec
<1>. QED  BY <1>1, CoreIInv, PTL

\* No call follows a pointer to memory that was freed, and no node is freed
\* while another call has a pointer to it.
THEOREM Reclamation ==
  ASSUME KeySpace < INT_MAX PROVE Spec => []NoUseAfterFree
<1>1. IInv => NoUseAfterFree
  BY DEF IInv
<1>. QED  BY <1>1, Invariance, PTL

\* The list keeps its two sentinels: what a run refutes with KeySpace = INT_MAX
\* holds for every smaller key space.
THEOREM SentinelsStay ==
  ASSUME KeySpace < INT_MAX PROVE Spec => []Sentinels
<1>1. IInv => Sentinels
  BY DEF IInv
<1>. QED  BY <1>1, Invariance, PTL

-----------------------------------------------------------------------------
(* The list is a set *)

Members == {key[n] : n \in Linked \ {head, tail}}
Status  == [t \in Threads |-> CallOf(t)]

\* The call of a worker, point by point.
LEMMA CallPoint ==
  ASSUME NEW t \in Threads
  PROVE  /\ pc[t] \in {"lockhead", "lockcurr", "compare"} => CallOf(t) = <<op[t], k[t]>>
         /\ pc[t] \in {"unlockcurr", "unlockpred", "free"} => CallOf(t) = <<op[t], k[t], ok[t]>>
         /\ pc[t] \notin {"lockhead", "lockcurr", "compare", "unlockcurr", "unlockpred", "free"}
              => CallOf(t) = <<>>
BY DEF CallOf

\* The same after a step.
LEMMA CallPointNext ==
  ASSUME NEW t \in Threads
  PROVE  /\ pc'[t] \in {"lockhead", "lockcurr", "compare"} => CallOf(t)' = <<op'[t], k'[t]>>
         /\ pc'[t] \in {"unlockcurr", "unlockpred", "free"} => CallOf(t)' = <<op'[t], k'[t], ok'[t]>>
         /\ pc'[t] \notin {"lockhead", "lockcurr", "compare", "unlockcurr", "unlockpred", "free"}
              => CallOf(t)' = <<>>
BY DEF CallOf

\* A step of a worker changes the call of nobody else.
LEMMA OneCall ==
  ASSUME TypeOK, NEW t \in Threads, Create(t) \/ Step(t)
  PROVE  Status' = [Status EXCEPT ![t] = CallOf(t)']
<1>1. ASSUME NEW u \in Threads \ {t} PROVE CallOf(u)' = CallOf(u)
  BY <1>1, Others, CallPoint, CallPointNext
<1>. QED  BY <1>1 DEF Status

\* Where a search has come to its end, the key it looked for is in the set just
\* when it is the key of the node it has found.
LEMMA Search ==
  ASSUME KeySpace < INT_MAX, Core, NEW t \in Threads, pc[t] = "compare", ~Before(t)
  PROVE  k[t] \in Members <=> key[curr[t]] = k[t]
<1>1. /\ pred[t] \in Linked /\ curr[t] \in Linked /\ next[pred[t]] = curr[t]
      /\ key[pred[t]] < k[t] /\ k[t] \in Int /\ ~(key[curr[t]] < k[t]) /\ pred[t] # tail
  BY AtNodes, BeforeTail, Bounds DEF Core, Before
<1>2. \A n \in Linked : key[n] \in Int
  BY Bounds DEF Core
<1>3. ASSUME key[curr[t]] = k[t] PROVE k[t] \in Members
  <2>1. key[curr[t]] <= k[t]
    BY <1>1, <1>3
  <2>2. curr[t] \in Linked \ {head, tail}
    BY <1>1, <1>3, <2>1, BeforeTail
  <2>. QED  BY <1>3, <2>2 DEF Members
<1>4. ASSUME k[t] \in Members PROVE key[curr[t]] = k[t]
  <2>1. PICK n \in Linked : key[n] = k[t]
    BY <1>4 DEF Members
  <2>2. key[n] <= key[pred[t]] \/ key[curr[t]] <= key[n]
    BY <1>1 DEF Core, Sorted
  <2>. QED  BY <1>1, <1>2, <2>1, <2>2
<1>. QED  BY <1>3, <1>4

\* A link adds the key of the call to the set and an unlink takes it away;
\* nothing else changes the set.
LEMMA MembersNext ==
  ASSUME KeySpace < INT_MAX, Core, NEW t \in Threads, Create(t) \/ Step(t)
  PROVE  /\ InsertLink(t) => Members' = Members \union {k[t]}
         /\ Unlink(t) => Members' = Members \ {k[t]}
         /\ ~InsertLink(t) /\ ~Unlink(t) => Members' = Members
<1>1. TypeOK /\ head \in Linked /\ tail \in Linked /\ \A n \in Linked : n \in Nodes /\ n \in heap
  BY Bounds DEF Core, Sentinels
<1>2. CASE InsertLink(t)
  <2>1. PICK q \in Nodes \ heap :
          /\ Linked' = Linked \union {q}
          /\ key'  = [key EXCEPT ![q] = k[t]]
    BY <1>2, LinkedNext
  <2>2. q \notin Linked /\ q \notin {head, tail} /\ key'[q] = k[t] /\ \A n \in Linked : key'[n] = key[n]
    BY <1>1, <2>1 DEF TypeOK
  <2>3. Members' = Members \union {k[t]}
    BY <2>1, <2>2 DEF Members
  <2>4. ~Unlink(t)
    BY <1>2 DEF InsertLink, Unlink
  <2>. QED  BY <1>2, <2>3, <2>4
<1>3. CASE Unlink(t)
  <2>1. Linked' = Linked \ {curr[t]} /\ key' = key /\ key[curr[t]] = k[t] /\ curr[t] \in Linked
    BY <1>3, LinkedNext, AtNodes DEF Unlink, Go
  <2>2. \A n \in Linked : key[n] = k[t] => n = curr[t]
    BY <2>1 DEF Core, Sorted
  <2>3. Members' = Members \ {k[t]}
    BY <2>1, <2>2 DEF Members
  <2>4. ~InsertLink(t)
    BY <1>3 DEF InsertLink, Unlink
  <2>. QED  BY <1>3, <2>3, <2>4
<1>. QED  BY <1>2, <1>3, LinkedNext DEF Members

\* The steps of the set in which a call takes effect.
LEMMA Effects ==
  ASSUME NEW t \in Threads, NEW x \in Keys,
         Set!Lookup(t, x) \/ Set!Insert(t, x) \/ Set!NoMemory(t, x) \/ Set!Delete(t, x)
  PROVE  Set!Next
BY Zenon DEF Set!Next

\* A call that has been decided has its answer.
LEMMA Decided ==
  ASSUME KeySpace < INT_MAX, Core, NEW t \in Threads, Step(t),
         pc[t] = "compare", pc'[t] = "unlockcurr", op'[t] = op[t], k'[t] = k[t]
  PROVE  k[t] \in Keys /\ Set!Answer(t, op[t], k[t], ok'[t])
<1>1. k[t] \in Keys
  BY AtNodes
<1>2. CallOf(t) = <<op[t], k[t]>> /\ CallOf(t)' = <<op[t], k[t], ok'[t]>>
  BY CallPoint, CallPointNext
<1>3. Status' = [Status EXCEPT ![t] = CallOf(t)']
  BY OneCall DEF Core
<1>. QED  BY <1>1, <1>2, <1>3 DEF Set!Answer, Status

\* At the start the members are the prefilled keys and nobody is in a call.
LEMMA RefineInit ==
  ASSUME KeySpace < INT_MAX PROVE Init => Set!Init
<1>. SUFFICES ASSUME Init PROVE Set!Init
  OBVIOUS
<1>1. Members \in SUBSET Keys
  BY InitCore DEF Core, Sorted, Members
<1>2. Status = [t \in Threads |-> <<>>]
  BY CallPoint DEF Init, Status
<1>. QED  BY <1>1, <1>2 DEF Set!Init, Set!Idle, Members, Status

\* Every step of the program is a step of the set or leaves it alone.
LEMMA RefineStep ==
  ASSUME KeySpace < INT_MAX PROVE Core /\ [Next]_vars => [Set!Next]_<<Members, Status>>
<1>. SUFFICES ASSUME Core, [Next]_vars PROVE [Set!Next]_<<Members, Status>>
  OBVIOUS
<1>1. TypeOK
  BY DEF Core
<1>2. ASSUME UNCHANGED <<pc, op, k, ok>> PROVE UNCHANGED Status
  <2>1. ASSUME NEW u \in Threads PROVE CallOf(u)' = CallOf(u)
    BY <1>2, CallPoint, CallPointNext
  <2>. QED  BY <2>1 DEF Status
<1>3. ASSUME UNCHANGED <<key, heap, pc, op, curr, ok>> PROVE UNCHANGED Members
  <2>1. Linked' = Linked
    BY <1>3 DEF Linked, Unlinking
  <2>. QED  BY <1>3, <2>1 DEF Members
<1>4. CASE Join \/ Exited \/ UNCHANGED vars
  BY <1>2, <1>3, <1>4 DEF Join, Exited, vars, memory
<1>5. CASE Start
  <2>1. ASSUME NEW u \in Threads PROVE CallOf(u)' = CallOf(u)
    <3>1. pc[u] = "barrier" /\ pc'[u] = "op"
      BY <1>5 DEF Start
    <3>. QED  BY <3>1, CallPoint, CallPointNext
  <2>2. Linked' = Linked /\ key' = key
    BY <1>5 DEF Start, Linked, Unlinking, memory
  <2>. QED  BY <2>1, <2>2 DEF Status, Members
<1>. SUFFICES ASSUME NEW t \in Threads, Create(t) \/ Step(t) PROVE [Set!Next]_<<Members, Status>>
  BY <1>4, <1>5 DEF Next
<1>6. Status' = [Status EXCEPT ![t] = CallOf(t)'] /\ Status[t] = CallOf(t) /\ DOMAIN Status = Threads
  BY <1>1, OneCall DEF Status
<1>7. ASSUME CallOf(t)' = CallOf(t), ~InsertLink(t), ~Unlink(t)
      PROVE  UNCHANGED <<Members, Status>>
  BY <1>6, <1>7, MembersNext DEF Status
<1>8. CASE Create(t) \/ Finish(t) \/ LockHead(t) \/ LockCurr(t) \/ Advance(t) \/ UnlockCurr(t)
  <2>1. /\ UNCHANGED <<op, k, ok>>
        /\ \/ {pc[t], pc'[t]} \subseteq {"new", "barrier", "op", "done"}
           \/ {pc[t], pc'[t]} \subseteq {"lockhead", "lockcurr", "compare"}
           \/ {pc[t], pc'[t]} \subseteq {"unlockcurr", "unlockpred"}
    BY <1>1, <1>8 DEF Create, Finish, LockHead, LockCurr, Advance, UnlockCurr, Go, TypeOK
  <2>2. ~InsertLink(t) /\ ~Unlink(t)
    <3>1. pc[t] # "compare" \/ pc'[t] # "unlockcurr"
      BY <2>1
    <3>. QED  BY <1>1, <3>1 DEF InsertLink, Unlink, Go, TypeOK
  <2>3. CallOf(t)' = CallOf(t)
    BY <2>1, CallPoint, CallPointNext
  <2>. QED  BY <1>7, <2>2, <2>3
<1>9. CASE Begin(t)
  <2>1. pc[t] = "op" /\ pc'[t] = "lockhead" /\ op'[t] \in Operations /\ k'[t] \in Keys
    BY <1>1, <1>9 DEF Begin, Go, TypeOK
  <2>2. ~InsertLink(t) /\ ~Unlink(t)
    BY <2>1 DEF InsertLink, Unlink, Go
  <2>3. CallOf(t) = <<>> /\ CallOf(t)' = <<op'[t], k'[t]>> /\ Members' = Members
    BY <2>1, <2>2, CallPoint, CallPointNext, MembersNext
  <2>4. Set!Call(t, op'[t], k'[t])
    BY <1>6, <2>3 DEF Set!Call, Set!Idle, Members, Status
  <2>. QED  BY <2>1, <2>4 DEF Set!Next, Set!Operations, Operations
<1>10. CASE Lookup(t) \/ InsertDuplicate(t) \/ InsertNoMemory(t) \/ InsertLink(t) \/ DeleteMissing(t) \/ Unlink(t)
  <2>1. pc[t] = "compare" /\ pc'[t] = "unlockcurr" /\ op'[t] = op[t] /\ k'[t] = k[t] /\ ~Before(t)
    BY <1>1, <1>10 DEF Lookup, InsertDuplicate, InsertNoMemory, InsertLink, DeleteMissing, Unlink, Decide, Go,
                       TypeOK
  <2>2. PICK x \in Keys : x = k[t]
    BY <2>1, AtNodes
  <2>3. Set!Answer(t, op[t], x, ok'[t])
    BY <1>10, <2>1, <2>2, Decided DEF Step
  <2>4. x \in Members <=> key[curr[t]] = k[t]
    BY <2>1, <2>2, Search
  <2>5. CASE Lookup(t)
    <3>1. op[t] = "lookup" /\ ok'[t] = (key[curr[t]] = k[t]) /\ UNCHANGED key
      BY <1>1, <2>5 DEF Lookup, Decide, TypeOK, memory
    <3>2. ok'[t] = (x \in Members) /\ Members' = Members
      BY <2>2, <2>3, <2>4, <2>5, <3>1, MembersNext DEF Lookup, InsertLink, Unlink
    <3>3. Set!Lookup(t, x)
      BY <2>2, <2>3, <2>4, <3>1, <3>2 DEF Set!Lookup, Members
    <3>. QED  BY <3>3, Effects
  <2>6. CASE InsertDuplicate(t)
    <3>1. op[t] = "insert" /\ ok'[t] = FALSE /\ key[curr[t]] = k[t]
      BY <1>1, <2>6 DEF InsertDuplicate, Decide, TypeOK
    <3>2. x \in Members /\ Members' = Members
      BY <2>2, <2>3, <2>4, <3>1, MembersNext DEF InsertLink, Unlink
    <3>3. Members' = Members \union {x} /\ ok'[t] = (x \notin Members)
      BY <3>1, <3>2
    <3>4. Set!Insert(t, x)
      BY <2>2, <2>3, <2>4, <3>1, <3>3 DEF Set!Insert, Members
    <3>. QED  BY <3>4, Effects
  <2>7. CASE InsertNoMemory(t)
    <3>1. op[t] = "insert" /\ ok'[t] = FALSE /\ key[curr[t]] # k[t] /\ heap' = heap
      BY <1>1, <2>7 DEF InsertNoMemory, Decide, TypeOK, memory
    <3>2. ~InsertLink(t) /\ ~Unlink(t)
      BY <3>1 DEF InsertLink, Unlink
    <3>3. x \notin Members /\ Members' = Members
      BY <2>2, <2>3, <2>4, <3>1, <3>2, MembersNext
    <3>4. Set!NoMemory(t, x)
      BY <2>2, <2>3, <2>4, <3>1, <3>3 DEF Set!NoMemory, Members
    <3>. QED  BY <3>4, Effects
  <2>8. CASE InsertLink(t)
    <3>1. op[t] = "insert" /\ ok'[t] = TRUE /\ key[curr[t]] # k[t]
      BY <1>1, <2>8 DEF InsertLink, TypeOK
    <3>2. ok'[t] = (x \notin Members) /\ Members' = Members \union {x}
      BY <2>2, <2>3, <2>4, <2>8, <3>1, MembersNext
    <3>3. Set!Insert(t, x)
      BY <2>2, <2>3, <2>4, <3>1, <3>2 DEF Set!Insert, Members
    <3>. QED  BY <3>3, Effects
  <2>9. CASE DeleteMissing(t)
    <3>1. op[t] = "delete" /\ ok'[t] = FALSE /\ key[curr[t]] # k[t]
      BY <1>1, <2>9 DEF DeleteMissing, Decide, TypeOK
    <3>2. x \notin Members /\ Members' = Members
      BY <2>2, <2>3, <2>4, <3>1, MembersNext DEF InsertLink, Unlink
    <3>3. ok'[t] \in BOOLEAN /\ (ok'[t] <=> x \in Members)
      BY <3>1, <3>2
    <3>4. Members' = Members \ {x} /\ ok'[t] = (x \in Members)
      BY <3>2, <3>3
    <3>5. Set!Delete(t, x)
      BY <2>2, <2>3, <2>4, <3>1, <3>4 DEF Set!Delete, Members
    <3>. QED  BY <3>5, Effects
  <2>10. CASE Unlink(t)
    <3>1. op[t] = "delete" /\ ok'[t] = TRUE /\ key[curr[t]] = k[t]
      BY <1>1, <2>10 DEF Unlink, TypeOK
    <3>2. ok'[t] = (x \in Members) /\ Members' = Members \ {x}
      BY <2>2, <2>3, <2>4, <2>10, <3>1, MembersNext
    <3>3. Set!Delete(t, x)
      BY <2>2, <2>3, <2>4, <3>1, <3>2 DEF Set!Delete, Members
    <3>. QED  BY <3>3, Effects
  <2>. QED  BY <1>10, <2>5, <2>6, <2>7, <2>8, <2>9, <2>10
<1>11. CASE UnlockPred(t) \/ FreeNode(t)
  <2>1. /\ pc[t] \in {"unlockpred", "free"} /\ pc'[t] \in {"free", "op"} /\ UNCHANGED <<op, k, ok>>
    BY <1>1, <1>11 DEF UnlockPred, FreeNode, Go, TypeOK
  <2>2. ~InsertLink(t) /\ ~Unlink(t)
    BY <2>1 DEF InsertLink, Unlink, Go
  <2>3. CASE pc'[t] = "free"
    <3>1. CallOf(t)' = CallOf(t)
      BY <2>1, <2>3, CallPoint, CallPointNext
    <3>. QED  BY <1>7, <2>2, <3>1
  <2>4. CASE pc'[t] = "op"
    <3>1. CallOf(t) = <<op[t], k[t], ok[t]>> /\ CallOf(t)' = <<>> /\ Members' = Members
      BY <2>1, <2>2, <2>4, CallPoint, CallPointNext, MembersNext
    <3>2. Set!Return(t)
      BY <1>6, <3>1 DEF Set!Return, Set!Idle, Members, Status
    <3>. QED  BY <3>2 DEF Set!Next
  <2>. QED  BY <2>1, <2>3, <2>4
<1>. QED  BY <1>8, <1>9, <1>10, <1>11 DEF Step

\* The lock-coupled list implements the set of SetObject: every lookup, insert
\* and delete takes effect in one step between its start and its return.
THEOREM Refinement ==
  ASSUME KeySpace < INT_MAX PROVE Spec => ImplementsSet
<1>1. Spec => []Core
  BY InitCore, NextCore, PTL DEF Spec
<1>2. [Set!Next]_<<Members, Status>> <=>
        [Set!Next]_<<{key[n] : n \in Linked \ {head, tail}}, [t \in Threads |-> CallOf(t)]>>
  BY DEF Members, Status
<1>. QED  BY <1>1, <1>2, RefineInit, RefineStep, PTL DEF Spec, ImplementsSet, Set!Spec
=============================================================================
