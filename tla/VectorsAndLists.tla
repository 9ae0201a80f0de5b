---------------------------- MODULE VectorsAndLists ----------------------------
(***************************************************************************)
(* chapter14/vector_int.c and vector_struct.c: a growable array, enlarged  *)
(* by one element or doubled, and a singly linked list with a tail         *)
(* pointer; and the benchmark that fills, reads and frees them.            *)
(*                                                                         *)
(* The two programs differ in the size of an element and in what a get     *)
(* returns for it; which of them runs is chosen in the initial state, and  *)
(* so is n.  An element is the number it was made from.                    *)
(*                                                                         *)
(* Memory is a pool of blocks: malloc and realloc may hand out any free    *)
(* block, also one freed before, realloc may leave the array in place, and *)
(* both may fail.  The two small structs that hold the pointers are not in *)
(* the pool; live says whether they exist.  Every call of a function is a  *)
(* step, and so is every turn of the loop that frees the list.             *)
(***************************************************************************)
EXTENDS Integers, FiniteSets, Functions, Sequences

CONSTANTS
  Sizes,        \* test_sizes, the values of n
  Lookups,      \* accesses to each structure in time_random_access
  Blocks,       \* blocks of memory
  NULL,         \* no block
  ElemSize,     \* bytes of an element, by program
  MaxAlloc,     \* the largest block there is (PTRDIFF_MAX)
  SizeRange     \* number of values of a size_t (2^64)

Programs == {"vector_int", "vector_struct"}

ASSUME VectorsAssumption ==
  /\ Sizes \subseteq Nat \ {0} /\ Lookups \in Nat
  /\ IsFiniteSet(Blocks) /\ NULL \notin Blocks
  /\ MaxAlloc \in Nat /\ SizeRange \in Nat /\ 2 * MaxAlloc < SizeRange
  /\ ElemSize \in [Programs -> 1 .. MaxAlloc]

VARIABLES
  program, n,     \* which program runs, and the elements of this test
  driver, pc,     \* the benchmark function main is in, and where it is
  i, lookups,     \* its loop variables
  vec, list,      \* the two structures; not live stands for a NULL pointer
  heap,           \* the blocks allocated
  array, node,    \* what is in them
  current,        \* the local pointer of list_free
  answer,         \* what the last call on each structure returned
  calls, copied,  \* reallocs called, and elements there were to copy
  missed          \* pushes that were refused

config  == <<program, n>>
control == <<driver, pc, i, lookups>>
memory  == <<heap, array, node>>
counts  == <<calls, copied, missed>>
vars    == <<config, control, vec, list, memory, current, answer, counts>>

\* Elements and indices.
Numbers == UNION {0 .. size - 1 : size \in Sizes}

Garbage == -1     \* an element that was never written
NoVector == [live |-> FALSE, data |-> NULL, size |-> 0, capacity |-> 0]
NoList   == [live |-> FALSE, head |-> NULL, tail |-> NULL, size |-> 0]
NoNode   == [item |-> Garbage, next |-> NULL]

Ok       == <<"ok">>
Refused  == <<"refused">>
Missing  == <<"missing">>
Found(x) == <<"found", x>>

\* main calls the four benchmarks one after the other.
Drivers == <<"naive", "optimized", "list", "random_access">>
Now     == Drivers[driver]
UsesVector == Now # "list"
UsesList   == Now \in {"list", "random_access"}
Start(d)   == IF Drivers[d] = "list" THEN "list_create" ELSE "vector_create"

Init ==
  /\ program \in Programs /\ n \in Sizes
  /\ driver = 1 /\ pc = Start(1)
  /\ i = 0 /\ lookups = 0
  /\ vec = NoVector /\ list = NoList
  /\ heap = {}
  /\ array = [b \in Blocks |-> <<>>]
  /\ node = [b \in Blocks |-> NoNode]
  /\ current = NULL
  /\ answer = [vector |-> Ok, list |-> Ok]
  /\ calls = 0 /\ copied = 0 /\ missed = 0

Go(from, to) == pc = from /\ pc' = to

\* Reading outside an array or a node gives anything.
At(s, j)  == IF j \in DOMAIN s THEN s[j] ELSE Garbage
Item(b)   == IF b \in Blocks THEN node[b].item ELSE Garbage
Follow(b) == IF b \in Blocks THEN node[b].next ELSE NULL

\* The first nodes of a chain that starts at b.
Chain(b, length) ==
  LET at[j \in 1 .. length] == IF j = 1 THEN b ELSE Follow(at[j - 1])
  IN  at

-----------------------------------------------------------------------------
(* vector_push_naive and vector_push_optimized *)

Bytes(count) == (count * ElemSize[program]) % SizeRange

Stored == IF vec.data = NULL THEN <<>> ELSE array[vec.data]

\* The array after realloc to count elements.
Enlarged(count) == [j \in 1 .. Bytes(count) \div ElemSize[program] |-> At(Stored, j)]

\* The pointer a push keeps after realloc has returned block b.
NewData(b) == b

\* Is there no room for one more element?
Full == vec.size >= vec.capacity

\* Slip: always room for exactly one more.
NewCapacityByOne == vec.size + 1

\* The capacity a full vector grows to.
NewCapacity ==
  IF Now = "naive" THEN vec.size + 1
  ELSE IF vec.capacity = 0 THEN 1 ELSE vec.capacity * 2

\* The naive push calls realloc every time.
Reallocates == Now = "naive" \/ Full

\* Where the loop goes after the push to the vector.
VectorPushed(result) ==
  /\ Go("vector_push", IF UsesList THEN "list_push" ELSE "loop")
  /\ i' = IF UsesList THEN i ELSE i + 1
  /\ answer' = [answer EXCEPT !.vector = result]
  /\ UNCHANGED <<config, driver, lookups, list, node, current>>

PushInPlace ==
  /\ vec.live /\ ~Reallocates
  /\ VectorPushed(Ok)
  /\ array' = [array EXCEPT ![vec.data][vec.size + 1] = i]
  /\ vec' = [vec EXCEPT !.size = @ + 1]
  /\ UNCHANGED <<heap, counts>>

\* realloc leaves the array where it is or moves it to a free block.
PushRealloc(b) ==
  /\ vec.live /\ Reallocates
  /\ Bytes(NewCapacity) \in 1 .. MaxAlloc
  /\ b \notin heap \/ b = vec.data
  /\ VectorPushed(Ok)
  /\ heap' = (heap \ {vec.data}) \union {b}
  /\ array' = [x \in Blocks |->
       CASE x = b        -> [Enlarged(NewCapacity) EXCEPT ![vec.size + 1] = i]
         [] x = vec.data /\ x # b -> <<>>
         [] OTHER        -> array[x]]
  /\ vec' = [vec EXCEPT !.data = NewData(b), !.size = @ + 1, !.capacity = NewCapacity]
  /\ calls' = calls + 1 /\ copied' = copied + vec.size
  /\ UNCHANGED missed

\* Slip: v->data is overwritten before the result of realloc is looked at.
PushRefusedLosingData ==
  /\ vec.live => Reallocates
  /\ VectorPushed(Refused)
  /\ missed' = missed + 1
  /\ vec' = [vec EXCEPT !.data = NULL]
  /\ UNCHANGED <<heap, array, calls, copied>>

\* There is no vector, or no memory.  The benchmarks ignore the result.
PushRefused ==
  /\ vec.live => Reallocates
  /\ VectorPushed(Refused)
  /\ missed' = missed + 1
  /\ UNCHANGED <<vec, heap, array, calls, copied>>

-----------------------------------------------------------------------------
(* list_push *)

ListPushed(result) ==
  /\ Go("list_push", "loop")
  /\ i' = i + 1
  /\ answer' = [answer EXCEPT !.list = result]
  /\ UNCHANGED <<config, driver, lookups, vec, array, current, calls, copied>>

\* Slip: the new node becomes the successor of the first one.
LinkedToHead(b) ==
  LET linked == IF list.tail = NULL THEN node ELSE [node EXCEPT ![list.head].next = b]
  IN  [linked EXCEPT ![b] = [item |-> i, next |-> NULL]]

\* The nodes after the new one, b, has been linked behind the tail.
Linked(b) ==
  LET linked == IF list.tail = NULL THEN node ELSE [node EXCEPT ![list.tail].next = b]
  IN  [linked EXCEPT ![b] = [item |-> i, next |-> NULL]]

ListPush(b) ==
  /\ list.live
  /\ b \notin heap
  /\ ListPushed(Ok)
  /\ heap' = heap \union {b}
  /\ node' = Linked(b)
  /\ list' = [list EXCEPT !.head = IF list.tail = NULL THEN b ELSE @, !.tail = b, !.size = @ + 1]
  /\ UNCHANGED missed

ListRefused ==
  /\ ListPushed(Refused)
  /\ missed' = missed + 1
  /\ UNCHANGED <<list, heap, node>>

-----------------------------------------------------------------------------
(* vector_create, list_create; vector_get, list_get; vector_free, list_free *)

VectorCreate ==
  /\ Go("vector_create", IF UsesList THEN "list_create" ELSE "loop")
  /\ vec' \in {NoVector, [NoVector EXCEPT !.live = TRUE]}
  /\ answer' = [answer EXCEPT !.vector = IF vec'.live THEN Ok ELSE @]
  /\ UNCHANGED <<config, driver, i, lookups, list, memory, current, counts>>

ListCreate ==
  /\ Go("list_create", "loop")
  /\ list' \in {NoList, [NoList EXCEPT !.live = TRUE]}
  /\ answer' = [answer EXCEPT !.list = IF list'.live THEN Ok ELSE @]
  /\ UNCHANGED <<config, driver, i, lookups, vec, memory, current, counts>>

VectorGet(index) ==
  /\ lookups < Lookups
  /\ Go("vector_get", "vector_get")
  /\ lookups' = lookups + 1
  /\ answer' = [answer EXCEPT !.vector =
       IF ~vec.live \/ index >= vec.size THEN Missing ELSE Found(At(Stored, index + 1))]
  /\ UNCHANGED <<config, driver, i, vec, list, memory, current, counts>>

\* The loop follows index pointers from the head.
ListGet(index) ==
  /\ lookups < Lookups
  /\ Go("list_get", "list_get")
  /\ lookups' = lookups + 1
  /\ answer' = [answer EXCEPT !.list =
       IF ~list.live \/ index >= list.size THEN Missing
       ELSE Found(Item(Chain(list.head, index + 1)[index + 1]))]
  /\ UNCHANGED <<config, driver, i, vec, list, memory, current, counts>>

VectorFree ==
  /\ Go("vector_free", IF UsesList THEN "list_free" ELSE "end")
  /\ heap' = heap \ {vec.data}
  /\ array' = [b \in Blocks |-> IF b = vec.data THEN <<>> ELSE array[b]]
  /\ vec' = NoVector
  /\ UNCHANGED <<config, driver, i, lookups, list, node, current, answer, counts>>

ListFree ==
  /\ Go("list_free", IF list.live THEN "list_freeing" ELSE "end")
  /\ current' = list.head
  /\ UNCHANGED <<config, driver, i, lookups, vec, list, memory, answer, counts>>

\* next = current->next; free(current); current = next
FreeNode ==
  /\ current # NULL
  /\ Go("list_freeing", "list_freeing")
  /\ heap' = heap \ {current}
  /\ node' = [node EXCEPT ![current] = NoNode]
  /\ current' = node[current].next
  /\ UNCHANGED <<config, driver, i, lookups, vec, list, array, answer, counts>>

FreeList ==
  /\ current = NULL
  /\ Go("list_freeing", "end")
  /\ list' = NoList
  /\ UNCHANGED <<config, driver, i, lookups, vec, memory, current, answer, counts>>

-----------------------------------------------------------------------------
(* time_vector_naive, time_vector_optimized, time_linked_list,             *)
(* time_random_access, and main, which calls them                          *)

Fill ==
  /\ i < n
  /\ Go("loop", IF UsesVector THEN "vector_push" ELSE "list_push")
  /\ UNCHANGED <<config, driver, i, lookups, vec, list, memory, current, answer, counts>>

Filled ==
  /\ ~(i < n)
  /\ Go("loop", CASE Now = "random_access" -> "vector_get"
                  [] Now = "list"          -> "list_free"
                  [] OTHER                 -> "vector_free")
  /\ UNCHANGED <<config, driver, i, lookups, vec, list, memory, current, answer, counts>>

\* The loops over the random accesses end.
Accessed ==
  /\ ~(lookups < Lookups)
  /\ Go("vector_get", "list_get") \/ Go("list_get", "vector_free")
  /\ lookups' = 0
  /\ UNCHANGED <<config, driver, i, vec, list, memory, current, answer, counts>>

NextDriver ==
  /\ driver < Len(Drivers)
  /\ Go("end", Start(driver + 1))
  /\ driver' = driver + 1 /\ i' = 0
  /\ calls' = 0 /\ copied' = 0 /\ missed' = 0
  /\ UNCHANGED <<config, lookups, vec, list, memory, current, answer>>

Finish ==
  /\ ~(driver < Len(Drivers))
  /\ Go("end", "exit")
  /\ UNCHANGED <<config, driver, i, lookups, vec, list, memory, current, answer, counts>>

Exited == pc = "exit" /\ UNCHANGED vars

Next ==
  \/ VectorCreate \/ ListCreate \/ Fill \/ Filled \/ Accessed
  \/ PushInPlace \/ PushRefused \/ ListRefused
  \/ \E b \in Blocks : PushRealloc(b) \/ ListPush(b)
  \/ \E index \in 0 .. n - 1 : VectorGet(index) \/ ListGet(index)
  \/ VectorFree \/ ListFree \/ FreeNode \/ FreeList
  \/ NextDriver \/ Finish \/ Exited

Spec == Init /\ [][Next]_vars

-----------------------------------------------------------------------------
(* count_reallocs *)

\* One turn of its loops, the one for the element at position j: what they
\* know of the doubling vector, and the elements the naive one copies.  The
\* program multiplies by the size of an element.
Turn(was, j) ==
  LET full == j >= was.capacity
  IN  [capacity |-> IF ~full THEN was.capacity
                    ELSE IF was.capacity = 0 THEN 1 ELSE was.capacity * 2,
       calls    |-> IF full THEN was.calls + 1 ELSE was.calls,
       copies   |-> IF full THEN was.copies + j ELSE was.copies,
       naive    |-> was.naive + j + 1]

Uncounted == [capacity |-> 0, calls |-> 0, copies |-> 0, naive |-> 0]

\* What they have counted after so many turns.
Counted(count) ==
  LET after[j \in 0 .. count] == IF j = 0 THEN Uncounted ELSE Turn(after[j - 1], j - 1)
  IN  after[count]

naive_reallocs(count)     == count
optimized_reallocs(count) == Counted(count).calls
naive_copies(count)       == Counted(count).naive
optimized_copies(count)   == Counted(count).copies

-----------------------------------------------------------------------------
(* Properties *)

Points ==
  {"vector_create", "list_create", "loop", "vector_push", "list_push", "vector_get", "list_get"}
    \union {"vector_free", "list_free", "list_freeing", "end", "exit"}

Pointers == Blocks \union {NULL}
Answers  == {Ok, Refused, Missing} \union {Found(x) : x \in Numbers \union {Garbage}}

TypeOK ==
  /\ program \in Programs /\ n \in Sizes
  /\ driver \in DOMAIN Drivers /\ pc \in Points
  /\ i \in 0 .. n /\ lookups \in 0 .. Lookups
  /\ vec \in [live : BOOLEAN, data : Pointers, size : Nat, capacity : Nat]
  /\ list \in [live : BOOLEAN, head : Pointers, tail : Pointers, size : Nat]
  /\ heap \subseteq Blocks
  /\ array \in [Blocks -> Seq(Numbers \union {Garbage})]
  /\ node \in [Blocks -> [item : Numbers \union {Garbage}, next : Pointers]]
  /\ current \in Pointers
  /\ answer \in [vector : Answers, list : Answers]
  /\ {calls, copied, missed} \subseteq Nat

\* The nodes that can be reached from a pointer.
From(b) == Range(Chain(b, Cardinality(Blocks))) \ {NULL}
ListNodes == From(IF pc = "list_freeing" THEN current ELSE list.head)

\* The vector's fields and its block agree: the array has the room capacity
\* says, so its size in bytes never wrapped, and less than half is unused.
VectorShape ==
  /\ vec.size <= vec.capacity
  /\ vec.data = NULL <=> vec.capacity = 0
  /\ vec.data # NULL =>
       /\ Len(array[vec.data]) = vec.capacity
       /\ vec.capacity < 2 * vec.size

\* head, tail and size agree with the chain of nodes.
ListShape ==
  pc # "list_freeing" =>
    /\ list.head = NULL <=> list.size = 0
    /\ Cardinality(ListNodes) = list.size
    /\ list.tail = IF list.size = 0 THEN NULL ELSE Chain(list.head, list.size)[list.size]
    /\ list.tail # NULL => node[list.tail].next = NULL

\* The blocks allocated are those the two structures can reach, and no block
\* is in both: nothing leaks, and nothing that was freed is used.
NoLeak ==
  /\ heap = ({vec.data} \ {NULL}) \union ListNodes
  /\ vec.data \notin ListNodes

\* What count_reallocs prints is what the pushes did: the doubling vector
\* calls realloc and has elements copied exactly so often.  For the naive one
\* the count of calls is right and the copies are too many by one element for
\* every push: the sum starts at 1, with the element that is just being added.
CountsPredicted ==
  pc \in {"vector_free", "vector_get"} /\ missed = 0 =>
    IF Now = "naive"
    THEN calls = naive_reallocs(n) /\ copied + n = naive_copies(n)
    ELSE calls = optimized_reallocs(n) /\ copied = optimized_copies(n)

\* A structure exists from its creation to its release, in the benchmarks
\* that use it; a push comes before the loop's end, a get and a release after
\* it, and the counters start at nothing.
Lifetimes ==
  /\ vec.live => UsesVector /\ pc \notin {"vector_create", "list_free", "list_freeing", "end", "exit"}
  /\ list.live => UsesList /\ pc \notin {"vector_create", "list_create", "end", "exit"}
  /\ pc \in {"vector_create", "vector_push", "vector_get", "vector_free"} => UsesVector
  /\ pc \in {"list_create", "list_push", "list_get", "list_free"} => UsesList
  /\ pc \in {"vector_get", "list_get"} => Now = "random_access"
  /\ pc = "list_freeing" => list.live
  /\ pc \in {"vector_push", "list_push"} => i < n
  /\ pc \in {"vector_get", "list_get", "vector_free"} => i = n
  /\ pc \in {"vector_create", "list_create"} => i = 0 /\ calls = 0 /\ copied = 0 /\ missed = 0
  /\ ~vec.live => vec = NoVector
  /\ ~list.live => list = NoList

\* All of it together.
IInv == TypeOK /\ Lifetimes /\ VectorShape /\ ListShape /\ NoLeak /\ CountsPredicted

\* Both structures are the same kind of sequence: every push that is accepted
\* appends its element, one that is refused for want of memory changes
\* nothing, and every access finds what was pushed at its index.
VectorObject == INSTANCE AppendObject WITH
  Values <- Numbers, Indices <- Numbers,
  live <- vec.live, answer <- answer.vector,
  items <- [j \in 1 .. vec.size |-> At(Stored, j)]

Listed == list.live /\ pc # "list_freeing"
ListObject == INSTANCE AppendObject WITH
  Values <- Numbers, Indices <- Numbers,
  live <- Listed, answer <- answer.list,
  items <- IF Listed THEN [j \in 1 .. list.size |-> Item(Chain(list.head, list.size)[j])] ELSE <<>>

ImplementsSequences == VectorObject!Spec /\ ListObject!Spec
=============================================================================
