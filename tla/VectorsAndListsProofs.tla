------------------------ MODULE VectorsAndListsProofs ------------------------
(***************************************************************************)
(* Proofs about VectorsAndLists, for any sizes, any pool of blocks and any *)
(* size of an element.                                                     *)
(***************************************************************************)
EXTENDS VectorsAndLists, FiniteSetTheorems, WellFoundedInduction, TLAPS

-----------------------------------------------------------------------------
(* Induction over the naturals, and what the recursive definitions denote. *)

\* A set of naturals without a smallest member is empty.
LEMMA NoSmallest ==
  ASSUME NEW B, B \subseteq Nat, \A m \in B : \E h \in B : h < m
  PROVE  B = {}
<1>. SUFFICES ASSUME B # {} PROVE FALSE
  OBVIOUS
<1>. DEFINE R == {ss \in Nat \X Nat : ss[1] < ss[2]}
<1>1. PICK x \in B : \A y \in B : <<y, x>> \notin R
  <2>1. IsWellFoundedOn(R, Nat)
    BY NatLessThanWellFounded DEF OpToRel
  <2>. HIDE DEF R
  <2>. QED  BY <2>1, WFMin
<1>2. PICK h \in B : h < x
  OBVIOUS
<1>. QED  BY <1>1, <1>2

\* The functions Chain and Counted choose among.
IsChain(at, b, length) ==
  at = [j \in 1 .. length |-> IF j = 1 THEN b ELSE Follow(at[j - 1])]
IsCount(after, count) ==
  after = [j \in 0 .. count |-> IF j = 0 THEN Uncounted ELSE Turn(after[j - 1], j - 1)]

\* There is one chain of a length at most: the nodes it passes are those the
\* pointers lead to.
LEMMA TheChain ==
  ASSUME NEW length \in Nat, NEW b, NEW at, IsChain(at, b, length)
  PROVE  Chain(b, length) = at
<1>. DEFINE it == CHOOSE f : IsChain(f, b, length)
            Bad == {j \in 1 .. length : it[j] # at[j]}
<1>1. IsChain(it, b, length)
  OBVIOUS
<1>2. Chain(b, length) = it
  BY DEF Chain, IsChain
<1>. HIDE DEF it
<1>3. ASSUME NEW j \in Bad PROVE j - 1 \in Bad /\ j - 1 < j
  BY <1>1 DEF IsChain
<1>4. Bad = {}
  <2>1. Bad \subseteq Nat
    OBVIOUS
  <2>. HIDE DEF Bad
  <2>. QED  BY <1>3, <2>1, NoSmallest
<1>5. \A j \in 1 .. length : it[j] = at[j]
  BY <1>4
<1>. QED  BY <1>1, <1>2, <1>5 DEF IsChain

\* The loops of count_reallocs count one thing.
LEMMA TheCount ==
  ASSUME NEW count \in Nat, NEW after, IsCount(after, count)
  PROVE  Counted(count) = after[count]
<1>. DEFINE it == CHOOSE f : IsCount(f, count)
            Bad == {j \in 0 .. count : it[j] # after[j]}
<1>1. IsCount(it, count)
  OBVIOUS
<1>2. Counted(count) = it[count]
  BY DEF Counted, IsCount
<1>. HIDE DEF it
<1>3. ASSUME NEW j \in Bad PROVE j - 1 \in Bad /\ j - 1 < j
  BY <1>1 DEF IsCount
<1>4. Bad = {}
  <2>1. Bad \subseteq Nat
    OBVIOUS
  <2>. HIDE DEF Bad
  <2>. QED  BY <1>3, <2>1, NoSmallest
<1>. QED  BY <1>2, <1>4

-----------------------------------------------------------------------------
(* The inductive invariant.                                                *)

Elem == ElemSize[program]

\* The array is a block that could be allocated.
Fits == vec.capacity * Elem <= MaxAlloc

\* Where the list, or what is left of it, begins.
First == IF pc = "list_freeing" THEN current ELSE list.head

Nodes(s) == {s[j] : j \in 1 .. Len(s)}

\* s is the list: every node leads to the next one, no node is passed twice,
\* and the blocks allocated are the nodes and the array.
IsList(s) ==
  /\ s \in Seq(Blocks)
  /\ \A j, k \in 1 .. Len(s) : s[j] = s[k] => j = k
  /\ First = IF Len(s) = 0 THEN NULL ELSE s[1]
  /\ \A j \in 1 .. Len(s) : node[s[j]].next = IF j = Len(s) THEN NULL ELSE s[j + 1]
  /\ heap = ({vec.data} \ {NULL}) \union Nodes(s)
  /\ vec.data \notin Nodes(s)
  /\ pc # "list_freeing" =>
       list.size = Len(s) /\ list.tail = IF Len(s) = 0 THEN NULL ELSE s[Len(s)]

Listing == \E s : IsList(s)

\* Pushes to the vector in this benchmark so far.
Pushes == IF pc = "list_push" THEN i + 1 ELSE i

\* Where the counters are compared with the loops of count_reallocs: as long
\* as no push to the vector was refused.
Compared ==
  UsesVector /\ missed = 0 /\ pc \notin {"list_free", "list_freeing", "end", "exit"}

\* The vector and the counters are where the loops were after so many turns.
Agrees ==
  /\ vec.size = Pushes
  /\ \E after :
       /\ IsCount(after, Pushes)
       /\ Now = "naive" => calls = Pushes /\ copied + Pushes = after[Pushes].naive
       /\ Now # "naive" => /\ vec.capacity = after[Pushes].capacity
                           /\ calls = after[Pushes].calls
                           /\ copied = after[Pushes].copies

Counting == Compared => Agrees

Inv == TypeOK /\ Lifetimes /\ VectorShape /\ Fits /\ Listing /\ Counting

\* Rounding down undoes a multiplication, and a product in range is itself.
LEMMA Exact ==
  ASSUME NEW c \in Nat, NEW e \in Nat \ {0}, NEW m \in Nat, c * e < m
  PROVE  /\ c * e \in Nat /\ (c * e) % m = c * e
         /\ (c * e) \div e = c
<1>1. c * e \in Nat
  OBVIOUS
<1>2. \A p \in Nat : p < m => p % m = p
  OBVIOUS
<1>3. (c * e) \div e = c
  OBVIOUS
<1>. QED  BY <1>1, <1>2, <1>3

\* What the assumptions say of the sizes of elements and blocks.
LEMMA Sized ==
  ASSUME program \in Programs
  PROVE  /\ Elem \in Nat \ {0} /\ Elem <= MaxAlloc
         /\ MaxAlloc \in Nat /\ SizeRange \in Nat /\ 2 * MaxAlloc < SizeRange
BY VectorsAssumption DEF VectorsAssumption, Elem

\* The capacity asked for is one the size in bytes can be computed of.
LEMMA Asked ==
  ASSUME TypeOK, VectorShape, Fits, Reallocates
  PROVE  /\ NewCapacity \in Nat \ {0}
         /\ vec.size + 1 <= NewCapacity /\ NewCapacity < 2 * (vec.size + 1)
         /\ NewCapacity * Elem <= 2 * MaxAlloc
<1>. DEFINE c == vec.capacity
            z == vec.size
<1>0. c \in Nat /\ z \in Nat /\ z <= c /\ c * Elem <= MaxAlloc
  BY DEF TypeOK, VectorShape, Fits
<1>1. Elem \in Nat \ {0} /\ Elem <= MaxAlloc /\ MaxAlloc \in Nat
  BY Sized DEF TypeOK
<1>2. CASE Now = "naive"
  <2>1. NewCapacity = z + 1
    BY <1>2 DEF NewCapacity
  <2>. HIDE DEF c, z
  <2>2. z * Elem <= c * Elem /\ z * Elem \in Nat /\ c * Elem \in Nat
    BY <1>0, <1>1
  <2>3. (z + 1) * Elem = z * Elem + Elem
    BY <1>0, <1>1
  <2>4. (z + 1) * Elem <= 2 * MaxAlloc
    BY <1>0, <1>1, <2>2, <2>3
  <2>. QED  BY <1>0, <2>1, <2>4 DEF z
<1>3. CASE Now # "naive" /\ c = 0
  <2>1. NewCapacity = 1 /\ z = 0
    BY <1>0, <1>3 DEF NewCapacity
  <2>2. 1 * Elem = Elem
    BY <1>1
  <2>. QED  BY <1>1, <2>1, <2>2
<1>4. CASE Now # "naive" /\ c # 0
  <2>1. NewCapacity = c * 2 /\ z = c
    BY <1>0, <1>4 DEF NewCapacity, Reallocates, Full
  <2>. HIDE DEF c, z
  <2>2. (c * 2) * Elem = 2 * (c * Elem)
    BY <1>0, <1>1
  <2>. QED  BY <1>0, <1>1, <1>4, <2>1, <2>2 DEF z
<1>. QED  BY <1>2, <1>3, <1>4

\* The array realloc returns has the room that was asked for, and what was
\* in the old one.
LEMMA Room ==
  ASSUME TypeOK, VectorShape, Fits, Reallocates, Bytes(NewCapacity) \in 1 .. MaxAlloc
  PROVE  /\ NewCapacity * Elem <= MaxAlloc
         /\ Enlarged(NewCapacity) = [j \in 1 .. NewCapacity |-> At(Stored, j)]
<1>. DEFINE k == NewCapacity
<1>1. k \in Nat /\ k * Elem <= 2 * MaxAlloc
  BY Asked
<1>2. Elem \in Nat \ {0} /\ MaxAlloc \in Nat /\ SizeRange \in Nat /\ 2 * MaxAlloc < SizeRange
  BY Sized DEF TypeOK
<1>3. Bytes(k) = (k * Elem) % SizeRange
  BY DEF Bytes, Elem
<1>. HIDE DEF k
<1>4. k * Elem \in Nat
  BY <1>1, <1>2
<1>5. k * Elem < SizeRange
  BY <1>1, <1>2, <1>4
<1>6. (k * Elem) % SizeRange = k * Elem /\ (k * Elem) \div Elem = k
  BY <1>1, <1>2, <1>5, Exact
<1>7. Bytes(k) \div Elem = k
  BY <1>3, <1>6
<1>8. k * Elem <= MaxAlloc
  BY <1>3, <1>6 DEF k
<1>9. Enlarged(k) = [j \in 1 .. Bytes(k) \div Elem |-> At(Stored, j)]
  BY DEF Enlarged, Elem
<1>. QED  BY <1>7, <1>8, <1>9 DEF k

-----------------------------------------------------------------------------
(* Control: which structure exists where.                                  *)

\* The four benchmarks, and what each starts with.
LEMMA Benchmarks ==
  /\ DOMAIN Drivers = 1 .. 4 /\ Len(Drivers) = 4
  /\ Drivers[1] = "naive" /\ Drivers[2] = "optimized"
  /\ Drivers[3] = "list" /\ Drivers[4] = "random_access"
  /\ \A d \in 1 .. 4 : Start(d) = IF d = 3 THEN "list_create" ELSE "vector_create"
BY DEF Drivers, Start

\* What the control of a benchmark needs of the types.
LEMMA Types ==
  ASSUME TypeOK
  PROVE  /\ n \in Nat /\ n # 0 /\ i \in Nat /\ i <= n
         /\ driver \in 1 .. 4 /\ Now = Drivers[driver]
         /\ vec \in [live : BOOLEAN, data : Pointers, size : Nat, capacity : Nat]
         /\ list \in [live : BOOLEAN, head : Pointers, tail : Pointers, size : Nat]
BY VectorsAssumption, Benchmarks DEF TypeOK, VectorsAssumption, Now

\* A structure exists only where the benchmarks use it.
LEMMA LifetimesStep ==
  ASSUME TypeOK, Lifetimes, [Next]_vars
  PROVE  Lifetimes'
<1>. USE Types DEF Lifetimes, Go, UsesVector, UsesList, NoVector, NoList, config, memory, counts
<1>1. ASSUME VectorCreate \/ ListCreate PROVE Lifetimes'
  BY <1>1 DEF VectorCreate, ListCreate, Now
<1>2. ASSUME Fill \/ Filled \/ Accessed PROVE Lifetimes'
  BY <1>2 DEF Fill, Filled, Accessed, Now
<1>3. ASSUME PushInPlace \/ PushRefused PROVE Lifetimes'
  BY <1>3 DEF PushInPlace, PushRefused, VectorPushed, Now
<1>4. ASSUME NEW b \in Blocks, PushRealloc(b) PROVE Lifetimes'
  BY <1>4 DEF PushRealloc, VectorPushed, Now
<1>5. ASSUME NEW b \in Blocks, ListPush(b) PROVE Lifetimes'
  BY <1>5 DEF ListPush, ListPushed, Now
<1>6. ASSUME ListRefused PROVE Lifetimes'
  BY <1>6 DEF ListRefused, ListPushed, Now
<1>7. ASSUME NEW index \in 0 .. n - 1, VectorGet(index) \/ ListGet(index) PROVE Lifetimes'
  BY <1>7 DEF VectorGet, ListGet, Now
<1>8. ASSUME VectorFree \/ ListFree \/ FreeNode \/ FreeList PROVE Lifetimes'
  BY <1>8 DEF VectorFree, ListFree, FreeNode, FreeList, Now
<1>9. ASSUME NextDriver \/ Finish PROVE Lifetimes'
  BY <1>9, Benchmarks DEF NextDriver, Finish, Now
<1>10. ASSUME UNCHANGED vars PROVE Lifetimes'
  BY <1>10 DEF vars, control, Now
<1>. QED
  BY <1>1, <1>2, <1>3, <1>4, <1>5, <1>6, <1>7, <1>8, <1>9, <1>10 DEF Next, Exited

-----------------------------------------------------------------------------
(* The vector.                                                             *)

Contents == Numbers \union {Garbage}

\* An index of the benchmark is an element.
LEMMA Element ==
  ASSUME TypeOK, i < n
  PROVE  i \in Numbers
BY Types, VectorsAssumption DEF TypeOK, VectorsAssumption, Numbers

\* A function on 1 .. k is a sequence of length k.
LEMMA FcnSeq ==
  ASSUME NEW S, NEW k \in Nat, NEW f \in [1 .. k -> S]
  PROVE  f \in Seq(S) /\ Len(f) = k
OBVIOUS

\* What can be read of an array or a node.
LEMMA Reads ==
  ASSUME TypeOK
  PROVE  /\ Stored \in Seq(Contents)
         /\ \A s \in Seq(Contents), j \in Int : At(s, j) \in Contents
         /\ \A b \in Pointers : Item(b) \in Contents /\ Follow(b) \in Pointers
<1>1. Stored \in Seq(Contents)
  <2>1. CASE vec.data = NULL
    BY <2>1 DEF Stored
  <2>2. CASE vec.data # NULL
    <3>1. vec.data \in Blocks
      BY <2>2, Types DEF Pointers
    <3>2. array[vec.data] \in Seq(Contents)
      BY <3>1 DEF TypeOK, Contents
    <3>. QED  BY <2>2, <3>2 DEF Stored
  <2>. QED  BY <2>1, <2>2
<1>2. \A s \in Seq(Contents), j \in Int : At(s, j) \in Contents
  BY DEF At, Contents
<1>3. \A b \in Blocks : node[b].item \in Contents /\ node[b].next \in Pointers
  BY DEF TypeOK, Contents
<1>. QED  BY <1>1, <1>2, <1>3 DEF Item, Follow, Contents, Pointers

\* A push that finds room writes one element of the array.
LEMMA InPlace ==
  ASSUME TypeOK, Lifetimes, VectorShape, PushInPlace
  PROVE  /\ vec.data \in Blocks /\ vec.size + 1 \in 1 .. vec.capacity
         /\ array[vec.data] \in Seq(Contents) /\ Len(array[vec.data]) = vec.capacity
         /\ array' = [array EXCEPT ![vec.data] = [array[vec.data] EXCEPT ![vec.size + 1] = i]]
         /\ array'[vec.data] = [array[vec.data] EXCEPT ![vec.size + 1] = i]
         /\ array'[vec.data] \in Seq(Contents) /\ Len(array'[vec.data]) = vec.capacity
         /\ vec' = [vec EXCEPT !.size = vec.size + 1]
         /\ i \in Numbers
<1>1. vec.size < vec.capacity
  BY Types DEF PushInPlace, Reallocates, Full
<1>2. vec.data \in Blocks
  BY <1>1, Types DEF VectorShape, Pointers
<1>3. array[vec.data] \in Seq(Contents) /\ Len(array[vec.data]) = vec.capacity
  BY <1>2, VectorsAssumption DEF TypeOK, Contents, VectorShape, VectorsAssumption
<1>4. i \in Numbers
  BY Element DEF PushInPlace, VectorPushed, Go, Lifetimes
<1>5. array' = [array EXCEPT ![vec.data] = [array[vec.data] EXCEPT ![vec.size + 1] = i]]
  BY DEF PushInPlace
<1>6. array'[vec.data] = [array[vec.data] EXCEPT ![vec.size + 1] = i]
  BY <1>2, <1>5 DEF TypeOK
<1>7. vec.size + 1 \in 1 .. vec.capacity
  BY <1>1, Types
<1>8. array'[vec.data] \in Seq(Contents) /\ Len(array'[vec.data]) = vec.capacity
  BY <1>3, <1>4, <1>6, <1>7 DEF Contents
<1>9. vec' = [vec EXCEPT !.size = vec.size + 1]
  BY DEF PushInPlace
<1>. QED  BY <1>2, <1>3, <1>4, <1>5, <1>6, <1>7, <1>8, <1>9

\* A push that calls realloc has the elements and one more in the new block.
LEMMA Moved ==
  ASSUME TypeOK, Lifetimes, VectorShape, Fits, NEW b \in Blocks, PushRealloc(b)
  PROVE  /\ NewCapacity \in Nat \ {0} /\ vec.size + 1 \in 1 .. NewCapacity
         /\ NewCapacity < 2 * (vec.size + 1) /\ NewCapacity * Elem <= MaxAlloc
         /\ vec' = [vec EXCEPT !.data = b, !.size = vec.size + 1, !.capacity = NewCapacity]
         /\ array'[b] = [j \in 1 .. NewCapacity |->
                            IF j = vec.size + 1 THEN i ELSE At(Stored, j)]
         /\ array'[b] \in Seq(Contents) /\ Len(array'[b]) = NewCapacity
         /\ array' \in [Blocks -> Seq(Contents)]
         /\ i \in Numbers
<1>1. Reallocates /\ Bytes(NewCapacity) \in 1 .. MaxAlloc
  BY DEF PushRealloc
<1>2. /\ NewCapacity \in Nat \ {0}
      /\ vec.size + 1 <= NewCapacity /\ NewCapacity < 2 * (vec.size + 1)
  BY <1>1, Asked
<1>3. /\ NewCapacity * Elem <= MaxAlloc
      /\ Enlarged(NewCapacity) = [j \in 1 .. NewCapacity |-> At(Stored, j)]
  BY <1>1, Room
<1>4. vec.size + 1 \in 1 .. NewCapacity
  BY <1>2, Types
<1>5. i \in Numbers
  BY Element DEF PushRealloc, VectorPushed, Go, Lifetimes
<1>. DEFINE k == NewCapacity
            new == [j \in 1 .. k |-> IF j = vec.size + 1 THEN i ELSE At(Stored, j)]
<1>6. array' = [x \in Blocks |->
                 CASE x = b -> [Enlarged(k) EXCEPT ![vec.size + 1] = i]
                   [] x = vec.data /\ x # b -> <<>>
                   [] OTHER -> array[x]]
  BY DEF PushRealloc
<1>7. vec' = [vec EXCEPT !.data = b, !.size = vec.size + 1, !.capacity = k]
  BY DEF PushRealloc, NewData
<1>. HIDE DEF k
<1>8. [Enlarged(k) EXCEPT ![vec.size + 1] = i] = new
  BY <1>3, <1>4 DEF k
<1>9. new \in [1 .. k -> Contents]
  <2>1. \A j \in 1 .. k : At(Stored, j) \in Contents
    BY <1>2, Reads DEF k
  <2>2. i \in Contents
    BY <1>5 DEF Contents
  <2>. QED  BY <2>1, <2>2
<1>10. new \in Seq(Contents) /\ Len(new) = k
  BY <1>2, <1>9, FcnSeq DEF k
<1>. HIDE DEF new
<1>11. array'[b] = new
  BY <1>6, <1>8
<1>12. array' \in [Blocks -> Seq(Contents)]
  <2>1. \A x \in Blocks : array[x] \in Seq(Contents)
    BY DEF TypeOK, Contents
  <2>2. <<>> \in Seq(Contents)
    OBVIOUS
  <2>3. ASSUME NEW x \in Blocks PROVE array'[x] \in Seq(Contents)
    BY <1>6, <1>8, <1>10, <2>1, <2>2
  <2>4. array' = [x \in Blocks |-> array'[x]]
    BY <1>6, Zenon
  <2>. QED  BY <2>3, <2>4
<1>. QED  BY <1>2, <1>3, <1>4, <1>5, <1>7, <1>10, <1>11, <1>12 DEF k, new

\* The calls that change the vector.
LEMMA VectorCalls ==
  ASSUME [Next]_vars
  PROVE  \/ PushInPlace \/ VectorCreate \/ VectorFree
         \/ (\E b \in Blocks : PushRealloc(b))
         \/ UNCHANGED <<vec, array>>
BY DEF Next, vars, memory, counts, ListCreate, Fill, Filled, Accessed, PushRefused, ListRefused,
   ListPush, ListPushed, VectorGet, ListGet, ListFree, FreeNode, FreeList, NextDriver, Finish,
   Exited

\* The fields of the vector keep agreeing with its block.
LEMMA VectorStep ==
  ASSUME TypeOK, Lifetimes, VectorShape, Fits, [Next]_vars
  PROVE  VectorShape' /\ Fits'
<1>1. program' = program
  BY DEF Next, vars, config, PushInPlace, PushRealloc, VectorPushed, ListPushed, ListPush,
     VectorCreate, VectorFree, ListCreate, Fill, Filled, Accessed, PushRefused, ListRefused,
     VectorGet, ListGet, ListFree, FreeNode, FreeList, NextDriver, Finish, Exited
<1>2. Elem' = Elem /\ Elem \in Nat /\ MaxAlloc \in Nat
  BY <1>1, Sized DEF Elem, TypeOK
<1>3. NULL \notin Blocks
  BY VectorsAssumption DEF VectorsAssumption
<1>4. CASE PushInPlace
  <2>1. /\ vec'.data = vec.data /\ vec'.capacity = vec.capacity /\ vec'.size = vec.size + 1
        /\ Len(array'[vec.data]) = vec.capacity /\ vec.data \in Blocks
        /\ vec.size + 1 \in 1 .. vec.capacity
    BY <1>4, InPlace, Types
  <2>. QED  BY <1>2, <1>3, <2>1, Types DEF VectorShape, Fits
<1>5. CASE \E b \in Blocks : PushRealloc(b)
  <2>1. PICK b \in Blocks : PushRealloc(b)
    BY <1>5
  <2>2. /\ vec'.data = b /\ vec'.capacity = NewCapacity /\ vec'.size = vec.size + 1
        /\ Len(array'[b]) = NewCapacity /\ NewCapacity \in Nat \ {0}
        /\ vec.size + 1 \in 1 .. NewCapacity
        /\ NewCapacity < 2 * (vec.size + 1) /\ NewCapacity * Elem <= MaxAlloc
    BY <2>1, Moved, Types
  <2>. QED  BY <1>2, <1>3, <2>2, Types DEF VectorShape, Fits
<1>6. CASE VectorCreate \/ VectorFree
  <2>1. vec'.data = NULL /\ vec'.capacity = 0 /\ vec'.size = 0
    BY <1>6 DEF VectorCreate, VectorFree, NoVector
  <2>2. 0 * Elem = 0
    BY <1>2
  <2>. QED  BY <1>2, <2>1, <2>2 DEF VectorShape, Fits
<1>7. CASE UNCHANGED <<vec, array>>
  BY <1>2, <1>7 DEF VectorShape, Fits
<1>. QED  BY <1>4, <1>5, <1>6, <1>7, VectorCalls

\* The parts of TypeOK, with the assumption on the size of the pool.
LEMMA Heap ==
  ASSUME TypeOK
  PROVE  /\ heap \subseteq Blocks /\ array \in [Blocks -> Seq(Contents)]
         /\ node \in [Blocks -> [item : Contents, next : Pointers]]
         /\ current \in Pointers /\ NULL \in Pointers /\ Garbage \in Contents
         /\ NULL \notin Blocks /\ Blocks \subseteq Pointers
         /\ answer \in [vector : Answers, list : Answers]
BY VectorsAssumption DEF TypeOK, Contents, Pointers, VectorsAssumption

-----------------------------------------------------------------------------
(* The list.                                                               *)

\* The nodes of the list are blocks that are allocated.
LEMMA NodesOf ==
  ASSUME NEW s, IsList(s)
  PROVE  /\ s \in Seq(Blocks) /\ Len(s) \in Nat /\ \A j \in 1 .. Len(s) : s[j] \in Blocks
         /\ Nodes(s) \subseteq heap /\ NULL \notin Nodes(s)
         /\ vec.data # NULL => vec.data \in heap
<1>1. s \in Seq(Blocks) /\ \A j \in 1 .. Len(s) : s[j] \in Blocks
  BY DEF IsList
<1>2. NULL \notin Blocks
  BY VectorsAssumption DEF VectorsAssumption
<1>. QED  BY <1>1, <1>2 DEF IsList, Nodes

\* A step that leaves the nodes and the pointers to them alone.
LEMMA ListKept ==
  ASSUME NEW s, IsList(s), node' = node, list' = list, heap' = heap, vec'.data = vec.data,
         First' = First, pc # "list_freeing" \/ pc' = "list_freeing"
  PROVE  Listing'
<1>1. IsList(s)'
  BY DEF IsList, Nodes
<1>. QED  BY <1>1 DEF Listing

\* The new node is linked behind the last one.
LEMMA ListGrows ==
  ASSUME TypeOK, NEW s, IsList(s), NEW b \in Blocks, ListPush(b)
  PROVE  /\ IsList(Append(s, b))' /\ Len(Append(s, b)) = Len(s) + 1
         /\ \A j \in 1 .. Len(s) : Append(s, b)[j] = s[j] /\ node'[s[j]].item = node[s[j]].item
         /\ Append(s, b)[Len(s) + 1] = b /\ node'[b].item = i
<1>. DEFINE z == Append(s, b)
            m == Len(s)
<1>1. /\ s \in Seq(Blocks) /\ m \in Nat /\ \A j \in 1 .. m : s[j] \in Blocks
      /\ Nodes(s) \subseteq heap /\ (vec.data # NULL => vec.data \in heap)
  BY NodesOf
<1>2. /\ z \in Seq(Blocks) /\ Len(z) = m + 1 /\ z[m + 1] = b
      /\ \A j \in 1 .. m : z[j] = s[j]
  BY <1>1
<1>3. b \notin heap /\ b # NULL /\ NULL \notin Blocks
  BY Heap DEF ListPush
<1>4. \A j \in 1 .. m : s[j] # b
  BY <1>1, <1>3 DEF Nodes
<1>5. list.tail = (IF m = 0 THEN NULL ELSE s[m]) /\ list.size = m /\ pc # "list_freeing"
  BY DEF IsList, ListPush, ListPushed, Go
<1>6. /\ list'.head = (IF m = 0 THEN b ELSE list.head) /\ list'.tail = b /\ list'.size = m + 1
      /\ pc' = "loop" /\ vec' = vec /\ heap' = heap \union {b}
  BY <1>1, <1>3, <1>5, Types DEF ListPush, ListPushed, Go
<1>7. /\ node'[b] = [item |-> i, next |-> NULL]
      /\ m # 0 => node'[s[m]].next = b /\ node'[s[m]].item = node[s[m]].item
      /\ \A j \in 1 .. m : j # m => node'[s[j]] = node[s[j]]
  <2>1. node' = Linked(b) /\ node \in [Blocks -> [item : Contents, next : Pointers]]
    BY Heap DEF ListPush
  <2>2. CASE m = 0
    BY <1>5, <2>1, <2>2 DEF Linked
  <2>3. CASE m # 0
    <3>1. m \in 1 .. m /\ s[m] \in Blocks /\ s[m] # b /\ s[m] # NULL
      BY <1>1, <1>3, <1>4, <2>3
    <3>2. \A j \in 1 .. m : j # m => s[j] # s[m]
      BY <3>1 DEF IsList
    <3>3. node' = [[node EXCEPT ![s[m]].next = b] EXCEPT ![b] = [item |-> i, next |-> NULL]]
      BY <1>5, <2>1, <2>3, <3>1 DEF Linked
    <3>4. node'[b] = [item |-> i, next |-> NULL]
      BY <2>1, <3>3
    <3>5. node'[s[m]] = [node[s[m]] EXCEPT !.next = b]
      BY <2>1, <3>1, <3>3
    <3>6. node[s[m]] \in [item : Contents, next : Pointers]
      BY <2>1, <3>1
    <3>7. \A j \in 1 .. m : j # m => node'[s[j]] = node[s[j]]
      BY <1>1, <1>4, <2>1, <3>2, <3>3
    <3>. QED  BY <3>4, <3>5, <3>6, <3>7
  <2>. QED  BY <2>2, <2>3
<1>8. First = list.head /\ First' = list'.head
  BY <1>5, <1>6 DEF First
<1>9. First' = z[1]
  BY <1>1, <1>2, <1>5, <1>6, <1>8 DEF IsList
<1>10. \A j \in 1 .. m + 1 : node'[z[j]].next = IF j = m + 1 THEN NULL ELSE z[j + 1]
  <2>1. ASSUME NEW j \in 1 .. m, j # m PROVE node'[z[j]].next = z[j + 1]
    BY <1>1, <1>2, <1>7, <2>1 DEF IsList
  <2>2. m # 0 => node'[z[m]].next = z[m + 1]
    BY <1>1, <1>2, <1>7
  <2>3. node'[z[m + 1]].next = NULL
    BY <1>2, <1>7
  <2>. QED  BY <1>1, <2>1, <2>2, <2>3
<1>11. \A j, k \in 1 .. m + 1 : z[j] = z[k] => j = k
  BY <1>1, <1>2, <1>4 DEF IsList
<1>12. Nodes(z) = Nodes(s) \union {b}
  <2>1. 1 .. m + 1 = (1 .. m) \union {m + 1}
    BY <1>1
  <2>. QED  BY <1>1, <1>2, <2>1 DEF Nodes
<1>13. heap' = ({vec'.data} \ {NULL}) \union Nodes(z) /\ vec'.data \notin Nodes(z)
  BY <1>1, <1>3, <1>6, <1>12 DEF IsList
<1>14. IsList(z)'
  <2>. HIDE DEF z, m
  <2>1. Nodes(z)' = Nodes(z)
    BY DEF Nodes
  <2>. QED  BY <1>1, <1>2, <1>6, <1>9, <1>10, <1>11, <1>13, <2>1 DEF IsList
<1>15. \A j \in 1 .. m : node'[s[j]].item = node[s[j]].item
  BY <1>7
<1>. QED  BY <1>2, <1>7, <1>14, <1>15

\* Freeing the first node leaves the list of the others.
LEMMA ListShrinks ==
  ASSUME TypeOK, NEW s, IsList(s), FreeNode
  PROVE  Listing'
<1>. DEFINE z == Tail(s)
            m == Len(s)
<1>1. /\ s \in Seq(Blocks) /\ m \in Nat /\ \A j \in 1 .. m : s[j] \in Blocks
      /\ Nodes(s) \subseteq heap
  BY NodesOf
<1>2. m # 0 /\ current = s[1] /\ current \in Blocks
  <2>1. First = current /\ current # NULL
    BY DEF First, FreeNode, Go
  <2>. QED  BY <1>1, <2>1 DEF IsList
<1>3. /\ z \in Seq(Blocks) /\ Len(z) = m - 1 /\ m - 1 \in Nat
      /\ \A j \in 1 .. m - 1 : z[j] = s[j + 1] /\ j + 1 \in 1 .. m
  BY <1>1, <1>2
<1>4. /\ \A j, k \in 1 .. m : s[j] = s[k] => j = k
      /\ \A j \in 1 .. m : s[j] = s[1] => j = 1
      /\ \A j \in 1 .. m : node[s[j]].next = IF j = m THEN NULL ELSE s[j + 1]
  BY <1>1, <1>2 DEF IsList
<1>. HIDE DEF z, m
<1>5. /\ pc' = "list_freeing" /\ vec' = vec /\ heap' = heap \ {s[1]}
      /\ current' = node[s[1]].next /\ node' = [node EXCEPT ![s[1]] = NoNode]
  BY <1>2 DEF FreeNode, Go
<1>6. First' = IF m - 1 = 0 THEN NULL ELSE z[1]
  <2>1. First' = node[s[1]].next
    BY <1>5 DEF First
  <2>2. node[s[1]].next = IF 1 = m THEN NULL ELSE s[1 + 1]
    BY <1>1, <1>2, <1>4
  <2>3. m # 1 => z[1] = s[1 + 1]
    BY <1>1, <1>2, <1>3
  <2>. QED  BY <1>1, <2>1, <2>2, <2>3
<1>7. \A j \in 1 .. m - 1 : node'[z[j]].next = IF j = m - 1 THEN NULL ELSE z[j + 1]
  <2>1. ASSUME NEW j \in 1 .. m - 1 PROVE node'[z[j]] = node[s[j + 1]]
    BY <1>1, <1>3, <1>4, <1>5, Heap
  <2>2. ASSUME NEW j \in 1 .. m - 1
        PROVE  node[s[j + 1]].next = IF j = m - 1 THEN NULL ELSE s[(j + 1) + 1]
    <3>. DEFINE k == j + 1
    <3>1. k \in 1 .. m /\ (k = m <=> j = m - 1)
      BY <1>1
    <3>. HIDE DEF k
    <3>2. node[s[k]].next = IF k = m THEN NULL ELSE s[k + 1]
      BY <1>4, <3>1
    <3>. QED  BY <3>1, <3>2 DEF k
  <2>3. ASSUME NEW j \in 1 .. m - 1, j # m - 1 PROVE z[j + 1] = s[(j + 1) + 1]
    BY <1>1, <1>3, <2>3
  <2>. QED  BY <1>1, <1>3, <2>1, <2>2, <2>3
<1>8. \A j, k \in 1 .. m - 1 : z[j] = z[k] => j = k
  <2>1. ASSUME NEW j \in 1 .. m - 1, NEW k \in 1 .. m - 1, z[j] = z[k] PROVE j + 1 = k + 1
    BY <1>3, <1>4, <2>1
  <2>. QED  BY <1>1, <2>1
<1>9. Nodes(z) = Nodes(s) \ {s[1]}
  <2>1. ASSUME NEW j \in 1 .. m - 1 PROVE z[j] \in Nodes(s) \ {s[1]}
    <3>1. z[j] = s[j + 1] /\ j + 1 \in 1 .. m /\ j + 1 # 1
      BY <1>1, <1>3
    <3>. QED  BY <1>4, <3>1 DEF Nodes, m
  <2>2. ASSUME NEW j \in 1 .. m, s[j] # s[1] PROVE s[j] \in Nodes(z)
    <3>1. j - 1 \in 1 .. m - 1 /\ (j - 1) + 1 = j
      BY <1>1, <2>2
    <3>2. z[j - 1] = s[j]
      BY <1>3, <3>1
    <3>. QED  BY <1>3, <3>1, <3>2 DEF Nodes
  <2>3. Nodes(s) = {s[j] : j \in 1 .. m} /\ Nodes(z) = {z[j] : j \in 1 .. m - 1}
    BY <1>3 DEF Nodes, m
  <2>. QED  BY <2>1, <2>2, <2>3
<1>10. heap' = ({vec'.data} \ {NULL}) \union Nodes(z) /\ vec'.data \notin Nodes(z)
  <2>1. s[1] \in Nodes(s)
    BY <1>1, <1>2 DEF Nodes, m
  <2>. QED  BY <1>5, <1>9, <2>1 DEF IsList
<1>11. IsList(z)'
  <2>1. Nodes(z)' = Nodes(z)
    BY DEF Nodes
  <2>. QED  BY <1>3, <1>5, <1>6, <1>7, <1>8, <1>10, <2>1 DEF IsList
<1>. QED  BY <1>11 DEF Listing

\* Every step leaves a list, and nothing else, in the pool beside the array.
LEMMA ListingStep ==
  ASSUME TypeOK, Lifetimes, VectorShape, Listing, [Next]_vars
  PROVE  Listing'
<1>1. PICK s : IsList(s)
  BY DEF Listing
<1>2. /\ s \in Seq(Blocks) /\ Len(s) \in Nat /\ \A j \in 1 .. Len(s) : s[j] \in Blocks
      /\ Nodes(s) \subseteq heap /\ NULL \notin Nodes(s)
      /\ (vec.data # NULL => vec.data \in heap)
  BY <1>1, NodesOf
<1>. USE DEF Go, config, control, memory, counts, First
<1>3. CASE VectorCreate
  BY <1>1, <1>3, ListKept, Types DEF VectorCreate, Lifetimes, NoVector
<1>4. CASE ListCreate
  <2>1. list = NoList /\ pc # "list_freeing" /\ pc' = "loop"
    BY <1>4 DEF ListCreate, Lifetimes
  <2>2. Len(s) = 0
    BY <1>1, <1>2, <2>1, Heap DEF IsList, NoList
  <2>3. list'.head = NULL /\ list'.tail = NULL /\ list'.size = 0
    BY <1>4 DEF ListCreate, NoList
  <2>4. IsList(s)'
    BY <1>1, <1>4, <2>1, <2>2, <2>3 DEF ListCreate, IsList, Nodes
  <2>. QED  BY <2>4 DEF Listing
<1>5. ASSUME Fill \/ Filled \/ Accessed \/ NextDriver \/ Finish \/ ListRefused PROVE Listing'
  BY <1>1, <1>5, ListKept DEF Fill, Filled, Accessed, NextDriver, Finish, ListRefused, ListPushed, Start
<1>6. ASSUME PushInPlace \/ PushRefused PROVE Listing'
  BY <1>1, <1>6, ListKept, Types DEF PushInPlace, PushRefused, VectorPushed
<1>7. ASSUME NEW b \in Blocks, PushRealloc(b) PROVE Listing'
  <2>1. /\ heap' = (heap \ {vec.data}) \union {b} /\ vec'.data = b
        /\ b \notin heap \/ b = vec.data
    BY <1>7, Types DEF PushRealloc, NewData
  <2>2. UNCHANGED <<node, list, current>> /\ pc # "list_freeing" /\ pc' # "list_freeing"
    BY <1>7 DEF PushRealloc, VectorPushed
  <2>3. b \notin Nodes(s) /\ b # NULL
    BY <1>1, <1>2, <2>1, Heap DEF IsList
  <2>4. heap' = ({vec'.data} \ {NULL}) \union Nodes(s) /\ vec'.data \notin Nodes(s)
    BY <1>1, <1>2, <2>1, <2>3 DEF IsList
  <2>5. IsList(s)'
    BY <1>1, <2>2, <2>4 DEF IsList, Nodes
  <2>. QED  BY <2>5 DEF Listing
<1>8. ASSUME NEW b \in Blocks, ListPush(b) PROVE Listing'
  BY <1>1, <1>8, ListGrows DEF Listing
<1>9. ASSUME NEW index \in 0 .. n - 1, VectorGet(index) \/ ListGet(index) PROVE Listing'
  BY <1>1, <1>9, ListKept DEF VectorGet, ListGet
<1>10. CASE VectorFree
  <2>1. heap' = heap \ {vec.data} /\ vec'.data = NULL
    BY <1>10 DEF VectorFree, NoVector
  <2>2. UNCHANGED <<node, list, current>> /\ pc # "list_freeing" /\ pc' # "list_freeing"
    BY <1>10 DEF VectorFree
  <2>3. heap' = ({vec'.data} \ {NULL}) \union Nodes(s) /\ vec'.data \notin Nodes(s)
    BY <1>1, <1>2, <2>1 DEF IsList
  <2>4. IsList(s)'
    BY <1>1, <2>2, <2>3 DEF IsList, Nodes
  <2>. QED  BY <2>4 DEF Listing
<1>11. CASE ListFree
  BY <1>1, <1>11, ListKept DEF ListFree
<1>12. CASE FreeNode
  BY <1>1, <1>12, ListShrinks
<1>13. CASE FreeList
  <2>1. Len(s) = 0
    BY <1>1, <1>2, <1>13, Heap DEF FreeList, IsList
  <2>2. IsList(s)'
    BY <1>1, <1>13, <2>1 DEF FreeList, IsList, Nodes, NoList
  <2>. QED  BY <2>2 DEF Listing
<1>14. CASE UNCHANGED vars
  BY <1>1, <1>14, ListKept DEF vars
<1>. QED
  BY <1>3, <1>4, <1>5, <1>6, <1>7, <1>8, <1>9, <1>10, <1>11, <1>12, <1>13, <1>14
     DEF Next, Exited

\* Following the pointers from the first node passes the nodes of the list and
\* stays at NULL after the last.
LEMMA Reach ==
  ASSUME TypeOK, NEW s, IsList(s), NEW k \in Nat
  PROVE  Chain(First, k) = [j \in 1 .. k |-> IF j <= Len(s) THEN s[j] ELSE NULL]
<1>. DEFINE at == [j \in 1 .. k |-> IF j <= Len(s) THEN s[j] ELSE NULL]
            m == Len(s)
<1>1. m \in Nat /\ NULL \notin Blocks /\ \A j \in 1 .. m : s[j] \in Blocks
  BY NodesOf, Heap
<1>2. ASSUME NEW j \in 1 .. k, j # 1 PROVE at[j] = Follow(at[j - 1])
  <2>1. j - 1 \in 1 .. k /\ j - 1 \in Nat
    BY <1>2
  <2>2. CASE j - 1 <= m
    <3>1. at[j - 1] = s[j - 1] /\ j - 1 \in 1 .. m
      BY <1>1, <2>1, <2>2
    <3>2. Follow(at[j - 1]) = node[s[j - 1]].next
      BY <1>1, <3>1 DEF Follow
    <3>3. node[s[j - 1]].next = IF j - 1 = m THEN NULL ELSE s[(j - 1) + 1]
      BY <3>1 DEF IsList
    <3>. QED  BY <1>1, <2>1, <2>2, <3>2, <3>3
  <2>3. CASE ~(j - 1 <= m)
    <3>1. at[j - 1] = NULL /\ at[j] = NULL
      BY <1>1, <2>1, <2>3
    <3>. QED  BY <1>1, <3>1 DEF Follow
  <2>. QED  BY <2>2, <2>3
<1>3. k # 0 => at[1] = First
  <2>1. First = IF m = 0 THEN NULL ELSE s[1]
    BY DEF IsList
  <2>. QED  BY <1>1, <2>1
<1>4. at = [j \in 1 .. k |-> at[j]]
  OBVIOUS
<1>. HIDE DEF at
<1>5. IsChain(at, First, k)
  BY <1>2, <1>3, <1>4 DEF IsChain
<1>6. Chain(First, k) = at
  BY <1>5, TheChain
<1>. QED  BY <1>6 DEF at

\* The nodes that can be reached are those of the list, and there are as many
\* as it is long.
LEMMA Reached ==
  ASSUME TypeOK, NEW s, IsList(s)
  PROVE  ListNodes = Nodes(s) /\ Cardinality(Nodes(s)) = Len(s)
<1>. DEFINE K == Cardinality(Blocks)
            m == Len(s)
<1>1. /\ m \in Nat /\ \A j \in 1 .. m : s[j] \in Blocks
      /\ \A j, k \in 1 .. m : s[j] = s[k] => j = k
      /\ NULL \notin Blocks
  BY NodesOf, Heap DEF IsList
<1>2. IsFiniteSet(Blocks) /\ K \in Nat
  BY VectorsAssumption, FS_CardinalityType DEF VectorsAssumption
<1>3. IsFiniteSet(1 .. m) /\ Cardinality(1 .. m) = m
  <2>. HIDE DEF m
  <2>. QED  BY <1>1, FS_Interval
<1>. DEFINE f == [j \in 1 .. m |-> s[j]]
<1>4. m <= K
  <2>1. f \in Injection(1 .. m, Blocks)
    BY <1>1 DEF Injection, IsInjective
  <2>. QED  BY <1>2, <1>3, <2>1, FS_Injection
<1>5. Cardinality(Nodes(s)) = m
  <2>1. f \in Bijection(1 .. m, Nodes(s))
    BY <1>1 DEF Bijection, Injection, Surjection, IsInjective, Nodes
  <2>2. ExistsBijection(1 .. m, Nodes(s))
    BY <2>1 DEF ExistsBijection
  <2>. QED  BY <1>3, <2>2, FS_Bijection
<1>6. ListNodes = From(First)
  BY DEF ListNodes, First
<1>. DEFINE at == [j \in 1 .. K |-> IF j <= m THEN s[j] ELSE NULL]
<1>7. Chain(First, K) = at
  BY <1>2, Reach
<1>8. From(First) = Range(at) \ {NULL}
  BY <1>7 DEF From
<1>9. Range(at) \ {NULL} = Nodes(s)
  <2>1. ASSUME NEW j \in 1 .. m PROVE s[j] \in Range(at) \ {NULL}
    <3>1. j \in 1 .. K /\ at[j] = s[j] /\ j \in DOMAIN at
      BY <1>1, <1>2, <1>4
    <3>. QED  BY <1>1, <3>1 DEF Range
  <2>2. ASSUME NEW j \in 1 .. K, at[j] # NULL PROVE at[j] \in Nodes(s)
    BY <1>1, <1>2, <2>2 DEF Nodes
  <2>3. Range(at) = {at[j] : j \in 1 .. K}
    BY DEF Range
  <2>. HIDE DEF at
  <2>. QED  BY <2>1, <2>2, <2>3 DEF Nodes
<1>. QED  BY <1>5, <1>6, <1>8, <1>9

\* What the chain of nodes says of head, tail and size, and of the pool.
LEMMA Shape ==
  ASSUME TypeOK, Listing
  PROVE  ListShape /\ NoLeak
<1>1. PICK s : IsList(s)
  BY DEF Listing
<1>2. /\ Len(s) \in Nat /\ \A j \in 1 .. Len(s) : s[j] \in Blocks
      /\ ListNodes = Nodes(s) /\ Cardinality(Nodes(s)) = Len(s) /\ NULL \notin Blocks
  BY <1>1, NodesOf, Reached, Heap
<1>3. NoLeak
  BY <1>1, <1>2 DEF NoLeak, IsList
<1>4. ASSUME pc # "list_freeing"
      PROVE  /\ list.head = NULL <=> list.size = 0
             /\ Cardinality(ListNodes) = list.size
             /\ list.tail = IF list.size = 0 THEN NULL ELSE Chain(list.head, list.size)[list.size]
             /\ list.tail # NULL => node[list.tail].next = NULL
  <2>1. /\ list.size = Len(s) /\ list.tail = (IF Len(s) = 0 THEN NULL ELSE s[Len(s)])
        /\ list.head = IF Len(s) = 0 THEN NULL ELSE s[1]
    BY <1>1, <1>4 DEF IsList, First
  <2>2. list.head = NULL <=> list.size = 0
    BY <1>2, <2>1
  <2>3. Len(s) # 0 => Chain(list.head, Len(s))[Len(s)] = s[Len(s)]
    <3>1. Chain(list.head, Len(s)) = [j \in 1 .. Len(s) |-> IF j <= Len(s) THEN s[j] ELSE NULL]
      BY <1>1, <1>2, <1>4, Reach DEF First
    <3>. QED  BY <1>2, <3>1
  <2>4. Len(s) # 0 => node[s[Len(s)]].next = NULL
    BY <1>1, <1>2 DEF IsList
  <2>. QED  BY <1>2, <2>1, <2>2, <2>3, <2>4
<1>. QED  BY <1>3, <1>4 DEF ListShape

-----------------------------------------------------------------------------
(* The types.                                                              *)

\* What the calls return.
LEMMA AnswerStep ==
  ASSUME TypeOK, Listing, [Next]_vars
  PROVE  answer' \in [vector : Answers, list : Answers]
<1>. DEFINE R == [vector : Answers, list : Answers]
<1>1. \A x \in Answers : [answer EXCEPT !.vector = x] \in R /\ [answer EXCEPT !.list = x] \in R
  BY Heap
<1>2. /\ Ok \in Answers /\ Refused \in Answers /\ Missing \in Answers
      /\ \A x \in Contents : Found(x) \in Answers
  BY DEF Answers, Contents
<1>3. ASSUME VectorCreate \/ ListCreate PROVE answer' \in R
  <2>1. answer.vector \in Answers /\ answer.list \in Answers
    BY Heap
  <2>. QED  BY <1>1, <1>2, <1>3, <2>1 DEF VectorCreate, ListCreate
<1>4. ASSUME PushInPlace \/ PushRefused \/ ListRefused PROVE answer' \in R
  BY <1>1, <1>2, <1>4 DEF PushInPlace, PushRefused, ListRefused, VectorPushed, ListPushed
<1>5. ASSUME NEW b \in Blocks, PushRealloc(b) \/ ListPush(b) PROVE answer' \in R
  BY <1>1, <1>2, <1>5 DEF PushRealloc, ListPush, VectorPushed, ListPushed
<1>6. ASSUME NEW index \in 0 .. n - 1, VectorGet(index) PROVE answer' \in R
  <2>1. At(Stored, index + 1) \in Contents
    BY Reads, Types
  <2>. QED  BY <1>1, <1>2, <1>6, <2>1 DEF VectorGet
<1>7. ASSUME NEW index \in 0 .. n - 1, ListGet(index) PROVE answer' \in R
  <2>1. PICK s : IsList(s)
    BY DEF Listing
  <2>2. index + 1 \in Nat /\ index + 1 \in 1 .. index + 1
    BY Types
  <2>3. Chain(list.head, index + 1)
          = [j \in 1 .. index + 1 |-> IF j <= Len(s) THEN s[j] ELSE NULL]
    BY <1>7, <2>1, <2>2, Reach DEF ListGet, Go, First
  <2>4. Chain(list.head, index + 1)[index + 1] \in Pointers
    <3>1. \A j \in 1 .. Len(s) : s[j] \in Blocks
      BY <2>1, NodesOf
    <3>2. Len(s) \in Nat
      BY <2>1, NodesOf
    <3>. QED  BY <2>2, <2>3, <3>1, <3>2 DEF Pointers
  <2>5. Item(Chain(list.head, index + 1)[index + 1]) \in Contents
    BY <2>4, Reads
  <2>. QED  BY <1>1, <1>2, <1>7, <2>5 DEF ListGet
<1>8. CASE UNCHANGED answer
  BY <1>8, Heap
<1>. QED
  BY <1>3, <1>4, <1>5, <1>6, <1>7, <1>8
     DEF Next, Exited, vars, Fill, Filled, Accessed, VectorFree, ListFree, FreeNode, FreeList,
         NextDriver, Finish

\* What is written to a node has the type of a node.
LEMMA LinkedType ==
  ASSUME TypeOK, NEW b \in Blocks, i \in Numbers
  PROVE  Linked(b) \in [Blocks -> [item : Contents, next : Pointers]]
<1>. DEFINE R == [item : Contents, next : Pointers]
            linked == IF list.tail = NULL THEN node ELSE [node EXCEPT ![list.tail].next = b]
            new == [item |-> i, next |-> NULL]
<1>1. linked \in [Blocks -> R]
  BY Heap
<1>2. new \in R
  BY Heap DEF Contents
<1>3. Linked(b) = [linked EXCEPT ![b] = new]
  BY DEF Linked
<1>. HIDE DEF linked, new
<1>. QED  BY <1>1, <1>2, <1>3

\* Every step keeps the types.
LEMMA TypeStep ==
  ASSUME TypeOK, Lifetimes, VectorShape, Fits, Listing, [Next]_vars
  PROVE  TypeOK'
<1>. USE VectorsAssumption DEF VectorsAssumption, Go, UsesVector, UsesList, NoVector, NoList,
     config, memory, counts, Points
<1>l. Lookups \in Nat /\ n \in Nat
  BY Types
<1>a. answer' \in [vector : Answers, list : Answers]
  BY AnswerStep
<1>1. ASSUME VectorCreate \/ ListCreate PROVE TypeOK'
  <2>1. /\ vec' \in [live : BOOLEAN, data : Pointers, size : Nat, capacity : Nat]
        /\ list' \in [live : BOOLEAN, head : Pointers, tail : Pointers, size : Nat]
    <3>1. /\ NoVector \in [live : BOOLEAN, data : Pointers, size : Nat, capacity : Nat]
          /\ NoList \in [live : BOOLEAN, head : Pointers, tail : Pointers, size : Nat]
      BY Heap
    <3>. HIDE DEF NoVector, NoList
    <3>2. CASE VectorCreate
      BY <3>1, <3>2, Types DEF VectorCreate
    <3>3. CASE ListCreate
      BY <3>1, <3>3, Types DEF ListCreate
    <3>. QED  BY <1>1, <3>2, <3>3
  <2>. QED  BY <1>1, <1>a, <2>1 DEF VectorCreate, ListCreate, TypeOK
<1>2. ASSUME Fill \/ Filled \/ Accessed PROVE TypeOK'
  BY <1>2 DEF Fill, Filled, Accessed, TypeOK
<1>3. ASSUME PushInPlace PROVE TypeOK'
  <2>1. array' \in [Blocks -> Seq(Contents)]
    BY <1>3, InPlace, Heap
  <2>2. vec' \in [live : BOOLEAN, data : Pointers, size : Nat, capacity : Nat]
    BY <1>3, InPlace, Types
  <2>3. i < n
    BY <1>3 DEF PushInPlace, VectorPushed, Lifetimes
  <2>4. i' \in 0 .. n' /\ lookups' \in 0 .. Lookups /\ pc' \in Points
    BY <1>3, <1>l, <2>3 DEF PushInPlace, VectorPushed, TypeOK
  <2>5. UNCHANGED <<program, n, driver, list, heap, node, current, calls, copied, missed>>
    BY <1>3 DEF PushInPlace, VectorPushed
  <2>. QED  BY <1>a, <2>1, <2>2, <2>4, <2>5 DEF TypeOK, Contents
<1>4. ASSUME NEW b \in Blocks, PushRealloc(b) PROVE TypeOK'
  <2>1. array' \in [Blocks -> Seq(Contents)]
    BY <1>4, Moved
  <2>2. vec' \in [live : BOOLEAN, data : Pointers, size : Nat, capacity : Nat]
    <3>. DEFINE R == [live : BOOLEAN, data : Pointers, size : Nat, capacity : Nat]
    <3>1. b \in Pointers /\ NewCapacity \in Nat /\ vec.size + 1 \in Nat /\ vec \in R
      <4>1. NewCapacity \in Nat
        BY <1>4, Moved
      <4>. QED  BY <4>1, Types, Heap
    <3>2. [vec EXCEPT !.data = b, !.size = vec.size + 1, !.capacity = NewCapacity] \in R
      BY <3>1
    <3>. QED  BY <1>4, <3>2, Moved
  <2>3. i < n
    BY <1>4 DEF PushRealloc, VectorPushed, Lifetimes
  <2>4. heap' \subseteq Blocks
    BY <1>4, Heap DEF PushRealloc
  <2>5. calls' \in Nat /\ copied' \in Nat /\ missed' \in Nat
    <3>1. calls \in Nat /\ copied \in Nat /\ missed \in Nat /\ vec.size \in Nat
      BY Types DEF TypeOK
    <3>. QED  BY <1>4, <3>1 DEF PushRealloc
  <2>6. i' \in 0 .. n' /\ lookups' \in 0 .. Lookups /\ pc' \in Points
    BY <1>4, <1>l, <2>3 DEF PushRealloc, VectorPushed, TypeOK
  <2>7. UNCHANGED <<program, n, driver, list, node, current>>
    BY <1>4 DEF PushRealloc, VectorPushed
  <2>. QED  BY <1>a, <2>1, <2>2, <2>4, <2>5, <2>6, <2>7 DEF TypeOK, Contents
<1>5. ASSUME PushRefused PROVE TypeOK'
  <2>1. i < n
    BY <1>5 DEF PushRefused, VectorPushed, Lifetimes
  <2>2. i' \in 0 .. n' /\ lookups' \in 0 .. Lookups /\ pc' \in Points
    BY <1>5, <1>l, <2>1 DEF PushRefused, VectorPushed, TypeOK
  <2>3. /\ UNCHANGED <<program, n, driver, vec, list, heap, array, node, current, calls, copied>>
        /\ missed' = missed + 1
    BY <1>5 DEF PushRefused, VectorPushed
  <2>4. missed \in Nat
    BY DEF TypeOK
  <2>. QED  BY <1>a, <2>2, <2>3, <2>4 DEF TypeOK
<1>6. ASSUME NEW b \in Blocks, ListPush(b) PROVE TypeOK'
  <2>1. i < n /\ i \in Numbers
    BY <1>6, Element DEF ListPush, ListPushed, Lifetimes
  <2>2. node' \in [Blocks -> [item : Contents, next : Pointers]]
    BY <1>6, <2>1, LinkedType, Types DEF ListPush
  <2>3. list' \in [live : BOOLEAN, head : Pointers, tail : Pointers, size : Nat]
    <3>. DEFINE R == [live : BOOLEAN, head : Pointers, tail : Pointers, size : Nat]
                h == IF list.tail = NULL THEN b ELSE list.head
    <3>1. b \in Pointers /\ h \in Pointers /\ list.size + 1 \in Nat /\ list \in R
      BY Types, Heap
    <3>2. list' = [list EXCEPT !.head = h, !.tail = b, !.size = list.size + 1]
      BY <1>6 DEF ListPush
    <3>. HIDE DEF h
    <3>. QED  BY <3>1, <3>2
  <2>. QED  BY <1>6, <1>l, <1>a, <2>1, <2>2, <2>3 DEF ListPush, ListPushed, TypeOK, Contents
<1>7. ASSUME ListRefused PROVE TypeOK'
  BY <1>7, <1>l, <1>a DEF ListRefused, ListPushed, Lifetimes, TypeOK
<1>8. ASSUME NEW index \in 0 .. n - 1, VectorGet(index) \/ ListGet(index) PROVE TypeOK'
  BY <1>8, <1>l, <1>a DEF VectorGet, ListGet, TypeOK
<1>9. ASSUME VectorFree PROVE TypeOK'
  <2>1. array' \in [Blocks -> Seq(Contents)]
    BY <1>9, Heap DEF VectorFree
  <2>. QED  BY <1>9, <2>1, Heap DEF VectorFree, TypeOK, Contents
<1>10. ASSUME ListFree PROVE TypeOK'
  BY <1>10, Types DEF ListFree, TypeOK
<1>11. ASSUME FreeNode PROVE TypeOK'
  <2>1. current \in Blocks
    BY <1>11, Heap DEF FreeNode, Pointers
  <2>2. NoNode \in [item : Contents, next : Pointers]
    BY Heap DEF NoNode
  <2>3. node' \in [Blocks -> [item : Contents, next : Pointers]] /\ current' \in Pointers
    BY <1>11, <2>1, <2>2, Heap DEF FreeNode
  <2>. QED  BY <1>11, <2>3 DEF FreeNode, TypeOK, Contents
<1>12. ASSUME FreeList PROVE TypeOK'
  BY <1>12, Heap DEF FreeList, TypeOK
<1>13. ASSUME NextDriver \/ Finish PROVE TypeOK'
  BY <1>13, <1>l, Benchmarks DEF NextDriver, Finish, TypeOK
<1>14. ASSUME UNCHANGED vars PROVE TypeOK'
  BY <1>14 DEF vars, control, TypeOK
<1>. QED
  BY <1>1, <1>2, <1>3, <1>4, <1>5, <1>6, <1>7, <1>8, <1>9, <1>10, <1>11, <1>12, <1>13, <1>14
     DEF Next, Exited

-----------------------------------------------------------------------------
(* The counters.                                                           *)

\* One more turn of the loops.
Longer(after, count) ==
  [j \in 0 .. count + 1 |-> IF j <= count THEN after[j] ELSE Turn(after[count], count)]

\* A longer count goes on where the shorter one ended.
LEMMA CountGrows ==
  ASSUME NEW count \in Nat, NEW after, IsCount(after, count)
  PROVE  /\ IsCount(Longer(after, count), count + 1)
         /\ Longer(after, count)[count + 1] = Turn(after[count], count)
<1>. DEFINE longer == Longer(after, count)
<1>1. \A j \in 0 .. count : longer[j] = after[j]
  BY DEF Longer
<1>2. longer[count + 1] = Turn(after[count], count)
  BY DEF Longer
<1>3. longer[0] = Uncounted
  BY <1>1 DEF IsCount
<1>4. ASSUME NEW j \in 0 .. count + 1, j # 0 PROVE longer[j] = Turn(longer[j - 1], j - 1)
  <2>1. CASE j = count + 1
    BY <1>1, <1>2, <2>1
  <2>2. CASE j # count + 1
    <3>1. j \in 0 .. count /\ j - 1 \in 0 .. count
      BY <1>4, <2>2
    <3>2. after[j] = Turn(after[j - 1], j - 1)
      BY <1>4, <3>1 DEF IsCount
    <3>. QED  BY <1>1, <3>1, <3>2
  <2>. QED  BY <2>1, <2>2
<1>5. longer = [j \in 0 .. count + 1 |-> longer[j]]
  BY DEF Longer
<1>. HIDE DEF longer
<1>6. IsCount(longer, count + 1)
  BY <1>3, <1>4, <1>5 DEF IsCount
<1>. QED  BY <1>2, <1>6 DEF longer

\* Nothing has been counted before the first turn.
LEMMA CountStarts == \E after : IsCount(after, 0) /\ after[0] = Uncounted
<1>. DEFINE after == [j \in 0 .. 0 |-> Uncounted]
<1>1. after = [j \in 0 .. 0 |-> IF j = 0 THEN Uncounted ELSE Turn(after[j - 1], j - 1)]
  OBVIOUS
<1>2. after[0] = Uncounted
  OBVIOUS
<1>. HIDE DEF after
<1>. QED  BY <1>1, <1>2 DEF IsCount

\* A step without a push to the vector.
LEMMA CountKept ==
  ASSUME Counting, Compared' => Compared, Pushes' = Pushes, Now' = Now,
         vec'.size = vec.size, vec'.capacity = vec.capacity, UNCHANGED counts
  PROVE  Counting'
<1>1. Agrees => Agrees'
  BY DEF Agrees, IsCount, Turn, Uncounted, counts
<1>. QED  BY <1>1 DEF Counting

\* A push is one turn of the loops.
LEMMA CountPush ==
  ASSUME TypeOK, Lifetimes, VectorShape, Counting,
         PushInPlace \/ \E b \in Blocks : PushRealloc(b)
  PROVE  Counting'
<1>2. SUFFICES ASSUME Compared' PROVE Agrees'
  BY DEF Counting
<1>3. /\ pc = "vector_push" /\ Pushes = i /\ Pushes' = i + 1 /\ Now' = Now /\ missed' = missed
      /\ vec'.size = vec.size + 1 /\ i \in Nat
  <2>1. /\ pc = "vector_push" /\ pc' = (IF UsesList THEN "list_push" ELSE "loop")
        /\ i' = (IF UsesList THEN i ELSE i + 1) /\ driver' = driver /\ missed' = missed
    BY DEF PushInPlace, PushRealloc, VectorPushed, Go, counts
  <2>2. vec'.size = vec.size + 1
    BY Types DEF PushInPlace, PushRealloc
  <2>. QED  BY <2>1, <2>2, Types DEF Pushes, Now
<1>4. Agrees
  BY <1>2, <1>3 DEF Counting, Compared, UsesVector
<1>5. PICK after :
        /\ IsCount(after, i)
        /\ Now = "naive" => calls = i /\ copied + i = after[i].naive
        /\ Now # "naive" => /\ vec.capacity = after[i].capacity
                            /\ calls = after[i].calls
                            /\ copied = after[i].copies
  BY <1>3, <1>4 DEF Agrees
<1>. DEFINE longer == Longer(after, i)
<1>6. IsCount(longer, i + 1) /\ longer[i + 1] = Turn(after[i], i)
  BY <1>3, <1>5, CountGrows
<1>7. vec.size = i
  BY <1>3, <1>4 DEF Agrees
<1>8. copied \in Nat /\ calls \in Nat
  BY DEF TypeOK
<1>. HIDE DEF longer
<1>9. CASE PushInPlace
  <2>1. /\ Now # "naive" /\ i < vec.capacity /\ calls' = calls /\ copied' = copied
        /\ vec'.capacity = vec.capacity /\ vec.capacity \in Nat
    BY <1>7, <1>9, Types DEF PushInPlace, Reallocates, Full, counts
  <2>2. /\ longer[i + 1].capacity = after[i].capacity
        /\ longer[i + 1].calls = after[i].calls /\ longer[i + 1].copies = after[i].copies
    BY <1>3, <1>5, <1>6, <2>1 DEF Turn
  <2>3. /\ vec'.capacity = longer[i + 1].capacity
        /\ calls' = longer[i + 1].calls /\ copied' = longer[i + 1].copies
    BY <1>5, <2>1, <2>2
  <2>. QED  BY <1>3, <1>6, <1>7, <2>1, <2>3 DEF Agrees, IsCount, Turn, Uncounted
<1>10. CASE \E b \in Blocks : PushRealloc(b)
  <2>1. /\ calls' = calls + 1 /\ copied' = copied + i /\ vec'.capacity = NewCapacity
        /\ Now = "naive" \/ i >= vec.capacity
    BY <1>7, <1>10, Types DEF PushRealloc, Reallocates, Full
  <2>2. CASE Now = "naive"
    <3>1. longer[i + 1].naive = after[i].naive + i + 1
      BY <1>6 DEF Turn
    <3>2. copied' + (i + 1) = longer[i + 1].naive /\ calls' = i + 1
      BY <1>3, <1>5, <1>8, <2>1, <2>2, <3>1
    <3>. QED  BY <1>3, <1>6, <1>7, <2>2, <3>2 DEF Agrees, IsCount, Turn, Uncounted
  <2>3. CASE Now # "naive"
    <3>1. /\ longer[i + 1].capacity = (IF after[i].capacity = 0 THEN 1 ELSE after[i].capacity * 2)
          /\ longer[i + 1].calls = after[i].calls + 1 /\ longer[i + 1].copies = after[i].copies + i
      BY <1>5, <1>6, <2>1, <2>3 DEF Turn
    <3>2. /\ vec'.capacity = longer[i + 1].capacity
          /\ calls' = longer[i + 1].calls /\ copied' = longer[i + 1].copies
      BY <1>5, <2>1, <2>3, <3>1 DEF NewCapacity
    <3>. QED  BY <1>3, <1>6, <1>7, <2>3, <3>2 DEF Agrees, IsCount, Turn, Uncounted
  <2>. QED  BY <2>2, <2>3
<1>. QED  BY <1>9, <1>10

\* Every step keeps the count.
LEMMA CountStep ==
  ASSUME TypeOK, Lifetimes, VectorShape, Counting, [Next]_vars
  PROVE  Counting'
<1>. USE DEF Go, config, control, memory, counts, Compared, Pushes, UsesVector, UsesList, Now
<1>1. CASE VectorCreate
  BY <1>1, CountKept, Types DEF VectorCreate, Lifetimes, NoVector
<1>2. CASE ListCreate
  BY <1>2, CountKept DEF ListCreate
<1>3. ASSUME Fill \/ Filled \/ Accessed PROVE Counting'
  <2>1. UNCHANGED <<driver, i, vec, calls, copied, missed>>
    BY <1>3 DEF Fill, Filled, Accessed
  <2>2. CASE ~UsesVector
    BY <2>1, <2>2 DEF Counting
  <2>3. CASE UsesVector
    <3>1. pc' # "list_push" /\ pc # "list_push" /\ pc \in {"loop", "vector_get", "list_get"}
      BY <1>3, <2>3 DEF Fill, Filled, Accessed
    <3>. QED  BY <2>1, <2>3, <3>1, CountKept
  <2>. QED  BY <2>2, <2>3
<1>4. ASSUME PushInPlace \/ \E b \in Blocks : PushRealloc(b) PROVE Counting'
  BY <1>4, CountPush
<1>5. ASSUME PushRefused \/ ListRefused PROVE Counting'
  <2>1. missed \in Nat /\ missed' = missed + 1
    BY <1>5 DEF PushRefused, ListRefused, TypeOK
  <2>. QED  BY <2>1 DEF Counting
<1>6. ASSUME NEW b \in Blocks, ListPush(b) PROVE Counting'
  BY <1>6, CountKept DEF ListPush, ListPushed
<1>7. ASSUME NEW index \in 0 .. n - 1, VectorGet(index) \/ ListGet(index) PROVE Counting'
  BY <1>7, CountKept DEF VectorGet, ListGet
<1>8. ASSUME VectorFree \/ ListFree \/ FreeNode \/ FreeList \/ Finish PROVE ~Compared'
  BY <1>8 DEF VectorFree, ListFree, FreeNode, FreeList, Finish, Lifetimes
<1>9. CASE NextDriver
  <2>1. /\ pc' \in {"vector_create", "list_create"} /\ i' = 0
        /\ calls' = 0 /\ copied' = 0 /\ vec' = NoVector
    BY <1>9 DEF NextDriver, Start, Lifetimes
  <2>2. Pushes' = 0 /\ vec'.size = 0 /\ vec'.capacity = 0
    BY <2>1 DEF NoVector
  <2>3. PICK after : IsCount(after, 0) /\ after[0] = Uncounted
    BY CountStarts
  <2>. HIDE DEF Pushes, Now
  <2>4. Agrees'
    BY <2>1, <2>2, <2>3 DEF Agrees, IsCount, Turn, Uncounted
  <2>. QED  BY <2>4 DEF Counting
<1>10. CASE UNCHANGED vars
  BY <1>10, CountKept DEF vars
<1>. QED
  BY <1>1, <1>2, <1>3, <1>4, <1>5, <1>6, <1>7, <1>8, <1>9, <1>10 DEF Next, Exited, Counting

\* What the loops have counted at the end of a benchmark is what was done.
LEMMA Predicted ==
  ASSUME TypeOK, Lifetimes, Counting
  PROVE  CountsPredicted
<1>. SUFFICES ASSUME pc \in {"vector_free", "vector_get"}, missed = 0
              PROVE  IF Now = "naive"
                     THEN calls = naive_reallocs(n) /\ copied + n = naive_copies(n)
                     ELSE calls = optimized_reallocs(n) /\ copied = optimized_copies(n)
  BY DEF CountsPredicted
<1>1. UsesVector /\ i = n /\ Pushes = n /\ n \in Nat
  BY Types DEF Lifetimes, Pushes
<1>2. Agrees
  BY <1>1 DEF Counting, Compared
<1>3. PICK after :
        /\ IsCount(after, n)
        /\ Now = "naive" => calls = n /\ copied + n = after[n].naive
        /\ Now # "naive" => calls = after[n].calls /\ copied = after[n].copies
  BY <1>1, <1>2 DEF Agrees
<1>4. Counted(n) = after[n]
  BY <1>1, <1>3, TheCount
<1>. QED  BY <1>3, <1>4 DEF naive_reallocs, naive_copies, optimized_reallocs, optimized_copies

-----------------------------------------------------------------------------
(* The invariant.                                                          *)

\* At the start there is nothing.
LEMMA InitInv == Init => Inv
<1>. SUFFICES ASSUME Init PROVE Inv
  OBVIOUS
<1>. USE VectorsAssumption DEF VectorsAssumption, Init
<1>0. driver = 1 /\ pc = "vector_create" /\ Now = "naive"
  BY Benchmarks DEF Now
<1>1. TypeOK
  <2>1. /\ NoVector \in [live : BOOLEAN, data : Pointers, size : Nat, capacity : Nat]
        /\ NoList \in [live : BOOLEAN, head : Pointers, tail : Pointers, size : Nat]
        /\ NoNode \in [item : Contents, next : Pointers] /\ <<>> \in Seq(Contents)
    BY DEF NoVector, NoList, NoNode, Pointers, Contents
  <2>2. n \in Nat /\ 1 \in DOMAIN Drivers
    BY Benchmarks
  <2>3. answer \in [vector : Answers, list : Answers]
    BY DEF Answers
  <2>. QED  BY <1>0, <2>1, <2>2, <2>3 DEF TypeOK, Points, Pointers, Contents
<1>2. Lifetimes
  BY <1>0 DEF Lifetimes, UsesVector, UsesList, NoVector, NoList
<1>3. VectorShape /\ Fits
  <2>1. Elem \in Nat /\ MaxAlloc \in Nat
    BY Sized
  <2>2. 0 * Elem = 0
    BY <2>1
  <2>. QED  BY <2>1, <2>2 DEF VectorShape, Fits, NoVector
<1>4. Listing
  <2>1. IsList(<<>>)
    BY <1>0 DEF IsList, First, Nodes, NoVector, NoList
  <2>. QED  BY <2>1 DEF Listing
<1>5. Counting
  <2>1. PICK after : IsCount(after, 0) /\ after[0] = Uncounted
    BY CountStarts
  <2>. QED  BY <1>0, <2>1 DEF Counting, Agrees, Pushes, NoVector, Uncounted
<1>. QED  BY <1>1, <1>2, <1>3, <1>4, <1>5 DEF Inv

\* Every step keeps the inductive invariant.
LEMMA NextInv == Inv /\ [Next]_vars => Inv'
BY TypeStep, LifetimesStep, VectorStep, ListingStep, CountStep DEF Inv

\* chapter14: the fields of both structures agree with what is in memory, no
\* block leaks or is in both, and the reallocs counted are those predicted.
THEOREM Invariance == Spec => []IInv
<1>1. Inv => IInv
  BY Shape, Predicted DEF Inv, IInv
<1>. QED  BY <1>1, InitInv, NextInv, PTL DEF Spec

-----------------------------------------------------------------------------
(* The vector is a sequence that grows at its end.                         *)

VectorItems == [j \in 1 .. vec.size |-> At(Stored, j)]

\* The elements are those the array holds.
LEMMA VectorHolds ==
  ASSUME TypeOK, VectorShape
  PROVE  /\ VectorItems \in Seq(Contents) /\ Len(VectorItems) = vec.size /\ vec.size \in Nat
         /\ \A j \in 1 .. vec.size : VectorItems[j] = At(Stored, j)
<1>1. vec.size \in Nat
  BY Types
<1>2. \A j \in 1 .. vec.size : At(Stored, j) \in Contents
  BY <1>1, Reads
<1>3. VectorItems \in [1 .. vec.size -> Contents]
  BY <1>2 DEF VectorItems
<1>4. VectorItems \in Seq(Contents) /\ Len(VectorItems) = vec.size
  BY <1>1, <1>3, FcnSeq
<1>. QED  BY <1>1, <1>4 DEF VectorItems

\* Appending to a sequence, position by position.
LEMMA Appended ==
  ASSUME NEW S, NEW s \in Seq(S), NEW x \in S, NEW k \in Nat, Len(s) = k,
         NEW f, f = [j \in 1 .. k + 1 |-> IF j = k + 1 THEN x ELSE s[j]]
  PROVE  f = Append(s, x)
<1>1. Append(s, x) \in Seq(S) /\ Len(Append(s, x)) = k + 1
  OBVIOUS
<1>2. \A j \in 1 .. k + 1 : Append(s, x)[j] = IF j = k + 1 THEN x ELSE s[j]
  OBVIOUS
<1>3. Append(s, x) = [j \in 1 .. k + 1 |-> Append(s, x)[j]]
  <2>1. \A z \in Seq(S) : z \in [1 .. Len(z) -> S]
    OBVIOUS
  <2>. QED  BY <1>1, <2>1
<1>. QED  BY <1>2, <1>3

\* A push in place appends its element.
LEMMA AppendsInPlace ==
  ASSUME TypeOK, Lifetimes, VectorShape, PushInPlace
  PROVE  VectorItems' = Append(VectorItems, i)
<1>. DEFINE a == array[vec.data]
            k == vec.size
<1>1. /\ vec.data \in Blocks /\ k + 1 \in 1 .. vec.capacity
      /\ a \in Seq(Contents) /\ Len(a) = vec.capacity
      /\ array'[vec.data] = [a EXCEPT ![k + 1] = i]
      /\ vec'.data = vec.data /\ vec'.size = k + 1 /\ i \in Numbers /\ k \in Nat
      /\ vec.capacity \in Nat
  BY InPlace, Types
<1>2. Stored = a /\ Stored' = [a EXCEPT ![k + 1] = i]
  <2>1. vec.data # NULL
    BY <1>1, Heap
  <2>. QED  BY <1>1, <2>1 DEF Stored
<1>3. VectorItems' = [j \in 1 .. k + 1 |-> At(Stored', j)]
  BY <1>1 DEF VectorItems, At
<1>. HIDE DEF a
<1>4. \A j \in 1 .. k + 1 : At(Stored', j) = IF j = k + 1 THEN i ELSE At(Stored, j)
  BY <1>1, <1>2 DEF At
<1>5. \A j \in 1 .. k : At(Stored, j) = VectorItems[j]
  BY VectorHolds
<1>6. \A j \in 1 .. k + 1 : At(Stored', j) = IF j = k + 1 THEN i ELSE VectorItems[j]
  BY <1>1, <1>4, <1>5
<1>7. VectorItems' = [j \in 1 .. k + 1 |-> IF j = k + 1 THEN i ELSE VectorItems[j]]
  BY <1>3, <1>6
<1>8. VectorItems \in Seq(Contents) /\ Len(VectorItems) = k
  BY VectorHolds
<1>9. i \in Contents
  BY <1>1 DEF Contents
<1>. HIDE DEF k
<1>. QED  BY <1>1, <1>7, <1>8, <1>9, Appended

\* A push that calls realloc appends its element.
LEMMA AppendsMoved ==
  ASSUME TypeOK, Lifetimes, VectorShape, Fits, NEW b \in Blocks, PushRealloc(b)
  PROVE  VectorItems' = Append(VectorItems, i)
<1>. DEFINE k == vec.size
            m == NewCapacity
<1>1. /\ m \in Nat \ {0} /\ k + 1 \in 1 .. m
      /\ array'[b] = [j \in 1 .. m |-> IF j = k + 1 THEN i ELSE At(Stored, j)]
      /\ i \in Numbers /\ k \in Nat
  BY Moved, Types
<1>2. vec'.data = b /\ vec'.size = k + 1
  BY Moved, Types
<1>3. Stored' = array'[b]
  BY <1>2, Heap DEF Stored
<1>4. VectorItems' = [j \in 1 .. k + 1 |-> At(Stored', j)]
  BY <1>2 DEF VectorItems, At
<1>. HIDE DEF m
<1>5. \A j \in 1 .. k + 1 : At(Stored', j) = IF j = k + 1 THEN i ELSE At(Stored, j)
  BY <1>1, <1>3 DEF At
<1>6. \A j \in 1 .. k : At(Stored, j) = VectorItems[j]
  BY VectorHolds
<1>7. \A j \in 1 .. k + 1 : At(Stored', j) = IF j = k + 1 THEN i ELSE VectorItems[j]
  BY <1>1, <1>5, <1>6
<1>8. VectorItems' = [j \in 1 .. k + 1 |-> IF j = k + 1 THEN i ELSE VectorItems[j]]
  BY <1>4, <1>7
<1>9. VectorItems \in Seq(Contents) /\ Len(VectorItems) = k
  BY VectorHolds
<1>10. i \in Contents
  BY <1>1 DEF Contents
<1>. HIDE DEF k
<1>. QED  BY <1>1, <1>8, <1>9, <1>10, Appended

\* Every step of the program is one of the sequence's or leaves it alone.
LEMMA VectorRefines ==
  ASSUME Inv, [Next]_vars
  PROVE  VectorObject!Next \/ UNCHANGED <<vec.live, VectorItems, answer.vector>>
<1>0. /\ TypeOK /\ Lifetimes /\ VectorShape /\ Fits /\ Listing
      /\ answer \in [vector : Answers, list : Answers]
  BY Heap DEF Inv
<1>. USE DEF Go, config, memory, VectorObject!Next, VectorObject!Ok, VectorObject!Refused,
     VectorObject!Missing, VectorObject!Found, Ok, Refused, Missing, Found
<1>1. CASE PushInPlace
  <2>1. vec.live /\ vec'.live = vec.live /\ answer'.vector = Ok
    BY <1>0, <1>1, Types DEF PushInPlace, VectorPushed
  <2>2. i \in Numbers
    BY <1>0, <1>1, InPlace
  <2>3. VectorObject!Push(i)
    BY <1>0, <1>1, <2>1, AppendsInPlace DEF VectorObject!Push, VectorItems
  <2>. QED  BY <2>2, <2>3
<1>2. ASSUME NEW b \in Blocks, PushRealloc(b) PROVE VectorObject!Next
  <2>1. vec.live /\ vec'.live = vec.live /\ answer'.vector = Ok
    BY <1>0, <1>2, Types DEF PushRealloc, VectorPushed
  <2>2. i \in Numbers
    BY <1>0, <1>2, Moved
  <2>3. VectorObject!Push(i)
    BY <1>0, <1>2, <2>1, AppendsMoved DEF VectorObject!Push, VectorItems
  <2>. QED  BY <2>2, <2>3
<1>3. CASE PushRefused
  <2>1. answer'.vector = Refused /\ UNCHANGED <<vec, array>>
    BY <1>0, <1>3 DEF PushRefused, VectorPushed
  <2>2. VectorObject!Refuse
    BY <2>1 DEF VectorObject!Refuse, At, Stored
  <2>. QED  BY <2>2
<1>4. CASE VectorCreate
  <2>1. vec = NoVector /\ UNCHANGED array /\ vec'.size = 0 /\ vec.size = 0
    BY <1>0, <1>4 DEF VectorCreate, Lifetimes, NoVector
  <2>2. UNCHANGED VectorItems
    BY <2>1 DEF VectorItems
  <2>3. CASE vec' = NoVector
    BY <1>0, <1>4, <2>1, <2>2, <2>3 DEF VectorCreate, NoVector
  <2>4. CASE vec' # NoVector
    <3>1. vec'.live = TRUE /\ vec.live = FALSE /\ answer'.vector = Ok
      BY <1>0, <1>4, <2>1, <2>4 DEF VectorCreate, NoVector
    <3>2. VectorObject!Create
      BY <2>2, <3>1 DEF VectorObject!Create, VectorItems
    <3>. QED  BY <3>2
  <2>. QED  BY <2>3, <2>4
<1>5. ASSUME NEW index \in 0 .. n - 1, VectorGet(index) PROVE VectorObject!Next
  <2>1. index \in Numbers /\ index \in Nat
    BY <1>0, Types, VectorsAssumption DEF Numbers, TypeOK, VectorsAssumption
  <2>2. /\ UNCHANGED <<vec, array>> /\ UNCHANGED VectorItems
        /\ answer'.vector = IF ~vec.live \/ index >= vec.size THEN Missing
                            ELSE Found(At(Stored, index + 1))
    BY <1>0, <1>5 DEF VectorGet, VectorItems, At, Stored
  <2>3. /\ Len(VectorItems) = vec.size /\ vec.size \in Nat
        /\ \A j \in 1 .. vec.size : VectorItems[j] = At(Stored, j)
    BY <1>0, VectorHolds
  <2>4. ~vec.live => vec.size = 0
    BY <1>0 DEF Lifetimes, NoVector
  <2>5. answer'.vector = IF index < Len(VectorItems) THEN Found(VectorItems[index + 1]) ELSE Missing
    <3>1. index < vec.size => index + 1 \in 1 .. vec.size
      BY <2>1, <2>3
    <3>. QED  BY <2>1, <2>2, <2>3, <2>4, <3>1
  <2>6. VectorObject!Get(index)
    BY <2>2, <2>5 DEF VectorObject!Get, VectorItems
  <2>. QED  BY <2>1, <2>6
<1>6. CASE VectorFree
  <2>1. vec'.live = FALSE /\ vec'.size = 0 /\ answer' = answer
    BY <1>6 DEF VectorFree, NoVector
  <2>2. VectorItems' = <<>>
    BY <2>1 DEF VectorItems
  <2>3. VectorObject!Release
    BY <2>1, <2>2 DEF VectorObject!Release, VectorItems
  <2>. QED  BY <2>3
<1>7. ASSUME UNCHANGED <<vec, array, answer.vector>>
      PROVE  UNCHANGED <<vec.live, VectorItems, answer.vector>>
  BY <1>7 DEF VectorItems, At, Stored
<1>8. ASSUME NEW index \in 0 .. n - 1, ListGet(index) PROVE UNCHANGED <<vec, array, answer.vector>>
  BY <1>0, <1>8 DEF ListGet
<1>9. ASSUME NEW b \in Blocks, ListPush(b) PROVE UNCHANGED <<vec, array, answer.vector>>
  BY <1>0, <1>9 DEF ListPush, ListPushed
<1>10. ASSUME ListRefused \/ ListCreate PROVE UNCHANGED <<vec, array, answer.vector>>
  BY <1>0, <1>10 DEF ListRefused, ListPushed, ListCreate
<1>11. ASSUME \/ Fill \/ Filled \/ Accessed \/ ListFree \/ FreeNode \/ FreeList
              \/ NextDriver \/ Finish \/ UNCHANGED vars
       PROVE  UNCHANGED <<vec, array, answer.vector>>
  BY <1>11 DEF Fill, Filled, Accessed, ListFree, FreeNode, FreeList, NextDriver, Finish, vars
<1>. HIDE DEF VectorObject!Next
<1>. QED
  BY <1>1, <1>2, <1>3, <1>4, <1>5, <1>6, <1>7, <1>8, <1>9, <1>10, <1>11 DEF Next, Exited

-----------------------------------------------------------------------------
(* The list is one, too.                                                   *)

ListItems ==
  IF Listed THEN [j \in 1 .. list.size |-> Item(Chain(list.head, list.size)[j])] ELSE <<>>

\* The elements are those of the nodes, in their order.
Holds ==
  \A s : IsList(s) /\ Listed =>
    /\ list.size = Len(s)
    /\ ListItems = [j \in 1 .. Len(s) |-> node[s[j]].item]
    /\ ListItems \in Seq(Contents) /\ Len(ListItems) = Len(s)

\* They are where the program looks for them.
LEMMA ListHolds == TypeOK => Holds
<1>. SUFFICES ASSUME TypeOK, NEW s, IsList(s), Listed
              PROVE  /\ list.size = Len(s)
                     /\ ListItems = [j \in 1 .. Len(s) |-> node[s[j]].item]
                     /\ ListItems \in Seq(Contents) /\ Len(ListItems) = Len(s)
  BY DEF Holds
<1>. DEFINE m == Len(s)
<1>1. m \in Nat /\ list.size = m /\ First = list.head /\ \A j \in 1 .. m : s[j] \in Blocks
  BY NodesOf DEF IsList, Listed, First
<1>2. Chain(list.head, m) = [j \in 1 .. m |-> IF j <= m THEN s[j] ELSE NULL]
  BY <1>1, Reach
<1>. HIDE DEF m
<1>3. \A j \in 1 .. m : Item(Chain(list.head, m)[j]) = node[s[j]].item
  BY <1>1, <1>2 DEF Item
<1>4. ListItems = [j \in 1 .. m |-> node[s[j]].item]
  BY <1>1, <1>3 DEF ListItems
<1>5. \A j \in 1 .. m : node[s[j]].item \in Contents
  BY <1>1, Heap
<1>6. ListItems \in [1 .. m -> Contents]
  BY <1>4, <1>5
<1>7. ListItems \in Seq(Contents) /\ Len(ListItems) = m
  BY <1>1, <1>6, FcnSeq
<1>. QED  BY <1>1, <1>4, <1>7 DEF m

\* A push appends its element.
LEMMA ListAppends ==
  ASSUME TypeOK, TypeOK', Lifetimes, Listing, NEW b \in Blocks, ListPush(b)
  PROVE  ListItems' = Append(ListItems, i)
<1>1. PICK s : IsList(s)
  BY DEF Listing
<1>. DEFINE z == Append(s, b)
            m == Len(s)
<1>2. /\ IsList(z)' /\ Len(z) = m + 1
      /\ \A j \in 1 .. m : z[j] = s[j] /\ node'[s[j]].item = node[s[j]].item
      /\ z[m + 1] = b /\ node'[b].item = i
  BY <1>1, ListGrows
<1>3. Listed /\ Listed'
  BY Types DEF Listed, ListPush, ListPushed, Go
<1>4. /\ ListItems = [j \in 1 .. m |-> node[s[j]].item] /\ m \in Nat
      /\ ListItems \in Seq(Contents) /\ Len(ListItems) = m
  BY <1>1, <1>3, ListHolds, NodesOf DEF Holds
<1>5. (TypeOK => Holds)'
  BY ListHolds, PTL
<1>. HIDE DEF z, m
<1>6. ListItems' = [j \in 1 .. Len(z) |-> node'[z[j]].item]
  BY <1>2, <1>3, <1>5 DEF Holds
<1>7. \A j \in 1 .. m + 1 : node'[z[j]].item = IF j = m + 1 THEN i ELSE ListItems[j]
  BY <1>2, <1>4
<1>8. ListItems' = [j \in 1 .. m + 1 |-> IF j = m + 1 THEN i ELSE ListItems[j]]
  BY <1>2, <1>6, <1>7
<1>9. i \in Contents
  BY Element DEF ListPush, ListPushed, Go, Lifetimes, Contents
<1>. QED  BY <1>4, <1>8, <1>9, Appended

\* The elements are the same when the nodes and the list are.
LEMMA ListSame ==
  ASSUME node' = node, list' = list, Listed' = Listed
  PROVE  ListItems' = ListItems
<1>1. \A b : Follow(b)' = Follow(b) /\ Item(b)' = Item(b)
  BY DEF Follow, Item
<1>2. Chain(list.head, list.size)' = Chain(list.head, list.size)
  BY <1>1 DEF Chain, Follow
<1>. QED  BY <1>1, <1>2 DEF ListItems

\* Every step of the program is one of the sequence's or leaves it alone.
LEMMA ListRefines ==
  ASSUME Inv, TypeOK', [Next]_vars
  PROVE  ListObject!Next \/ UNCHANGED <<Listed, ListItems, answer.list>>
<1>0. /\ TypeOK /\ Lifetimes /\ VectorShape /\ Listing
      /\ answer \in [vector : Answers, list : Answers]
      /\ list \in [live : BOOLEAN, head : Pointers, tail : Pointers, size : Nat]
  BY Heap, Types DEF Inv
<1>. USE DEF Go, config, memory, ListObject!Next, ListObject!Ok, ListObject!Refused,
     ListObject!Missing, ListObject!Found, Ok, Refused, Missing, Found
<1>1. ASSUME NEW b \in Blocks, ListPush(b) PROVE ListObject!Next
  <2>1. Listed /\ Listed' /\ answer'.list = Ok
    BY <1>0, <1>1 DEF ListPush, ListPushed, Listed
  <2>2. i \in Numbers
    BY <1>0, <1>1, Element DEF ListPush, ListPushed, Lifetimes
  <2>3. ListItems' = Append(ListItems, i)
    BY <1>0, <1>1, ListAppends
  <2>4. ListObject!Push(i)
    BY <2>1, <2>3 DEF ListObject!Push, ListItems
  <2>. QED  BY <2>2, <2>4
<1>2. CASE ListRefused
  <2>1. answer'.list = Refused /\ UNCHANGED <<list, node, Listed>>
    BY <1>0, <1>2 DEF ListRefused, ListPushed, Listed
  <2>2. UNCHANGED ListItems
    BY <2>1, ListSame
  <2>3. ListObject!Refuse
    BY <2>1, <2>2 DEF ListObject!Refuse, ListItems
  <2>. QED  BY <2>3
<1>3. CASE ListCreate
  <2>1. ~Listed /\ ListItems = <<>>
    BY <1>0, <1>3 DEF ListCreate, Lifetimes, Listed, ListItems
  <2>2. list'.size = 0 /\ pc' = "loop"
    BY <1>3 DEF ListCreate, NoList
  <2>3. ListItems' = <<>>
    BY <2>2 DEF ListItems
  <2>4. CASE list' = NoList
    BY <1>3, <2>1, <2>2, <2>3, <2>4 DEF ListCreate, Listed, NoList
  <2>5. CASE list' # NoList
    <3>1. Listed' /\ answer'.list = Ok
      BY <1>0, <1>3, <2>5 DEF ListCreate, Listed, NoList
    <3>2. ListObject!Create
      BY <2>1, <2>3, <3>1 DEF ListObject!Create, ListItems
    <3>. QED  BY <3>2
  <2>. QED  BY <2>4, <2>5
<1>4. ASSUME NEW index \in 0 .. n - 1, ListGet(index) PROVE ListObject!Next
  <2>1. index \in Numbers /\ index \in Nat
    BY <1>0, Types, VectorsAssumption DEF Numbers, TypeOK, VectorsAssumption
  <2>2. /\ UNCHANGED <<list, node, Listed>> /\ (Listed <=> list.live) /\ First = list.head
        /\ answer'.list = IF ~list.live \/ index >= list.size THEN Missing
                          ELSE Found(Item(Chain(list.head, index + 1)[index + 1]))
    BY <1>0, <1>4 DEF ListGet, Listed, First
  <2>3. UNCHANGED ListItems
    BY <2>2, ListSame
  <2>4. answer'.list = IF index < Len(ListItems) THEN Found(ListItems[index + 1]) ELSE Missing
    <3>1. CASE ~Listed
      BY <2>1, <2>2, <3>1 DEF ListItems
    <3>2. CASE Listed
      <4>1. PICK s : IsList(s)
        BY <1>0 DEF Listing
      <4>2. /\ list.size = Len(s) /\ ListItems = [j \in 1 .. Len(s) |-> node[s[j]].item]
            /\ Len(ListItems) = Len(s) /\ Len(s) \in Nat /\ \A j \in 1 .. Len(s) : s[j] \in Blocks
        BY <1>0, <3>2, <4>1, ListHolds, NodesOf DEF Holds
      <4>3. CASE index >= Len(s)
        BY <2>1, <2>2, <4>2, <4>3
      <4>4. CASE index < Len(s)
        <5>1. index + 1 \in 1 .. Len(s) /\ index + 1 \in Nat
          BY <2>1, <4>2, <4>4
        <5>2. Chain(list.head, index + 1)
                = [j \in 1 .. index + 1 |-> IF j <= Len(s) THEN s[j] ELSE NULL]
          BY <1>0, <2>2, <4>1, <5>1, Reach
        <5>3. Chain(list.head, index + 1)[index + 1] = s[index + 1]
          BY <2>1, <5>1, <5>2
        <5>4. Item(Chain(list.head, index + 1)[index + 1]) = ListItems[index + 1]
          BY <4>2, <5>1, <5>3 DEF Item
        <5>. QED  BY <2>1, <2>2, <3>2, <4>2, <4>4, <5>4
      <4>. QED  BY <2>1, <4>2, <4>3, <4>4
    <3>. QED  BY <3>1, <3>2
  <2>5. ListObject!Get(index)
    BY <2>2, <2>3, <2>4 DEF ListObject!Get, ListItems
  <2>. QED  BY <2>1, <2>5
<1>5. CASE ListFree
  <2>1. ~Listed' /\ ListItems' = <<>> /\ answer' = answer
    BY <1>5 DEF ListFree, Listed, ListItems
  <2>2. ListObject!Release
    BY <2>1 DEF ListObject!Release, ListItems, Listed
  <2>. QED  BY <2>2
<1>6. ASSUME FreeNode \/ FreeList PROVE UNCHANGED <<Listed, ListItems, answer.list>>
  BY <1>6 DEF FreeNode, FreeList, Listed, ListItems, NoList
<1>7. ASSUME UNCHANGED <<list, node, answer.list, Listed>>
      PROVE  UNCHANGED <<Listed, ListItems, answer.list>>
  BY <1>7, ListSame
<1>8. ASSUME NEW b \in Blocks, PushRealloc(b) PROVE UNCHANGED <<list, node, answer.list, Listed>>
  BY <1>0, <1>8 DEF PushRealloc, VectorPushed, Listed
<1>9. ASSUME NEW index \in 0 .. n - 1, VectorGet(index)
      PROVE  UNCHANGED <<list, node, answer.list, Listed>>
  BY <1>0, <1>9 DEF VectorGet, Listed
<1>10. ASSUME PushInPlace \/ PushRefused \/ VectorCreate
       PROVE  UNCHANGED <<list, node, answer.list, Listed>>
  BY <1>0, <1>10 DEF PushInPlace, PushRefused, VectorPushed, VectorCreate, Listed
<1>11. ASSUME \/ Fill \/ Filled \/ Accessed \/ VectorFree
              \/ NextDriver \/ Finish \/ UNCHANGED vars
       PROVE  UNCHANGED <<list, node, answer.list, Listed>>
  BY <1>11 DEF Fill, Filled, Accessed, VectorFree, NextDriver, Start, Finish, vars, control, Listed
<1>. HIDE DEF ListObject!Next
<1>. QED
  BY <1>1, <1>2, <1>3, <1>4, <1>5, <1>6, <1>7, <1>8, <1>9, <1>10, <1>11 DEF Next, Exited

\* chapter14: every call on either structure is a step of a sequence that
\* grows at its end: what was pushed is found at its index, and a push that is
\* refused changes nothing.
THEOREM Refinement == Spec => ImplementsSequences
<1>1. Init => VectorObject!Init /\ ListObject!Init
  BY DEF Init, VectorObject!Init, ListObject!Init, NoVector, NoList, Listed, Ok, VectorObject!Ok,
     ListObject!Ok
<1>2. Inv /\ Inv' /\ [Next]_vars
        => /\ VectorObject!Next \/ UNCHANGED <<vec.live, VectorItems, answer.vector>>
           /\ ListObject!Next \/ UNCHANGED <<Listed, ListItems, answer.list>>
  BY VectorRefines, ListRefines DEF Inv
<1>3. Inv /\ Inv' /\ [Next]_vars
        => /\ [VectorObject!Next]_<<vec.live, [j \in 1 .. vec.size |-> At(Stored, j)], answer.vector>>
           /\ [ListObject!Next]_<<Listed,
                  IF Listed THEN [j \in 1 .. list.size |-> Item(Chain(list.head, list.size)[j])]
                  ELSE <<>>, answer.list>>
  BY <1>2 DEF VectorItems, ListItems
<1>. QED
  BY <1>1, <1>3, InitInv, NextInv, PTL
     DEF Spec, ImplementsSequences, VectorObject!Spec, ListObject!Spec
=============================================================================
