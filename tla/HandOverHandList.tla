--------------------------- MODULE HandOverHandList ---------------------------
(***************************************************************************)
(* The lock-coupled list of chapter29/chapter29-4.c and the workers of its *)
(* benchmark: a sorted linked list between two sentinels with a mutex in   *)
(* every node.  A search locks a node before it unlocks the one behind it. *)
(*                                                                         *)
(* Memory is a pool of nodes: an insertion may be given any node that is   *)
(* not allocated, one freed before included, or none.  A lock, an unlock   *)
(* and a free are steps of their own; a node is read and written in the    *)
(* step that follows its lock or precedes its unlock.                      *)
(***************************************************************************)
EXTENDS CommonThreads, FiniteSets

CONSTANTS
  Threads,      \* the workers
  Ops,          \* operations of each worker
  KeySpace,     \* keys are drawn from 1 .. KeySpace
  INT_MAX,      \* key of the tail sentinel, the largest int
  MaxNodes      \* nodes the allocator has, the two sentinels included

ASSUME ListAssumption ==
  /\ IsFiniteSet(Threads) /\ Free \notin Threads
  /\ Ops \in Nat /\ KeySpace \in Nat /\ INT_MAX \in Nat
  /\ KeySpace <= INT_MAX
  /\ MaxNodes \in Nat /\ MaxNodes >= KeySpace + 2

VARIABLES
  key, next, m,           \* the fields of each node; m is the owner of its mutex
  heap,                   \* the nodes allocated
  pc, ops,                \* where each worker is, operations it has begun
  op, k, pred, curr,      \* its call and its two pointers
  ok,                     \* the answer of the call
  main                    \* what main is doing

memory == <<key, next, m, heap>>
vars   == <<memory, pc, ops, op, k, pred, curr, ok, main>>

Nodes == 0 .. MaxNodes - 1
Keys  == 1 .. KeySpace
head  == 0
tail  == 1
NULL  == -1
INT_MIN == -1
Operations == {"lookup", "insert", "delete"}

\* list_hoh_init and fill_initial_hoh: a sorted list of any set of keys.  Which
\* nodes hold them is not observable.  An insertion of INT_MAX finds the tail.
Init ==
  /\ \E S \in SUBSET (Keys \ {INT_MAX}) :
       LET Node(x) == x + 1
           Above(x) == {y \in S : y > x}
           Succ(x) == IF Above(x) = {} THEN tail
                      ELSE Node(CHOOSE y \in Above(x) : \A z \in Above(x) : y <= z)
       IN  /\ heap = {head, tail} \union {Node(x) : x \in S}
           /\ key = [n \in Nodes |->
                CASE n = head -> INT_MIN
                  [] n = tail -> INT_MAX
                  [] OTHER    -> n - 1]
           /\ next = [n \in Nodes |->
                CASE n = head -> Succ(0)
                  [] n = tail -> NULL
                  [] OTHER    -> IF n - 1 \in S THEN Succ(n - 1) ELSE NULL]
  /\ m = [n \in Nodes |-> Free]
  /\ pc = [t \in Threads |-> "new"]
  /\ ops = [t \in Threads |-> 0]
  /\ op = [t \in Threads |-> "lookup"]
  /\ k = [t \in Threads |-> 0]
  /\ pred = [t \in Threads |-> head] /\ curr = [t \in Threads |-> head]
  /\ ok = [t \in Threads |-> FALSE]
  /\ main = "run"

Go(t, from, to) == pc[t] = from /\ pc' = [pc EXCEPT ![t] = to]

-----------------------------------------------------------------------------
(* Slips a maintainer could make; no specification of this module uses them. *)

\* The search steps onto a node without its lock.
LockCurrUnlocked(t) ==
  /\ curr[t] # NULL
  /\ Go(t, "lockcurr", "compare")
  /\ UNCHANGED <<memory, ops, op, k, pred, curr, ok, main>>

\* The predecessor stays locked after a search has moved on.
AdvanceHolding(t) ==
  /\ key[curr[t]] < k[t]
  /\ Go(t, "compare", "lockcurr")
  /\ pred' = [pred EXCEPT ![t] = curr[t]]
  /\ curr' = [curr EXCEPT ![t] = next[curr[t]]]
  /\ UNCHANGED <<memory, ops, op, k, ok, main>>

\* The node is freed as soon as it is unlinked.
UnlinkAndFree(t) ==
  /\ op[t] = "delete"
  /\ key[curr[t]] = k[t]
  /\ Go(t, "compare", "unlockcurr")
  /\ next' = [next EXCEPT ![pred[t]] = next[curr[t]]]
  /\ heap' = heap \ {curr[t]}
  /\ ok' = [ok EXCEPT ![t] = TRUE]
  /\ UNCHANGED <<key, m, ops, op, k, pred, curr, main>>

-----------------------------------------------------------------------------
(* list_hoh_find *)

\* Lock head and read head->next under its lock.
LockHead(t) ==
  /\ Go(t, "lockhead", "lockcurr")
  /\ MutexLock(m, head, t)
  /\ pred' = [pred EXCEPT ![t] = head]
  /\ curr' = [curr EXCEPT ![t] = next[head]]
  /\ UNCHANGED <<key, next, heap, ops, op, k, ok, main>>

\* Following NULL is undefined; here such a thread takes no further step.
LockCurr(t) ==
  /\ curr[t] # NULL
  /\ Go(t, "lockcurr", "compare")
  /\ MutexLock(m, curr[t], t)
  /\ UNCHANGED <<key, next, heap, ops, op, k, pred, curr, ok, main>>

\* The condition of the search loop.
Before(t) == key[curr[t]] < k[t]

Advance(t) ==
  /\ Before(t)
  /\ Go(t, "compare", "lockcurr")
  /\ MutexUnlock(m, pred[t])
  /\ pred' = [pred EXCEPT ![t] = curr[t]]
  /\ curr' = [curr EXCEPT ![t] = next[curr[t]]]
  /\ UNCHANGED <<key, next, heap, ops, op, k, ok, main>>

-----------------------------------------------------------------------------
(* list_hoh_lookup, list_hoh_insert, list_hoh_delete after the search *)

\* The call is decided and leaves the list as it is.
Decide(t, answer) ==
  /\ ~Before(t)
  /\ Go(t, "compare", "unlockcurr")
  /\ ok' = [ok EXCEPT ![t] = answer]
  /\ UNCHANGED <<memory, ops, op, k, pred, curr, main>>

Lookup(t) == op[t] = "lookup" /\ Decide(t, key[curr[t]] = k[t])

InsertDuplicate(t) == op[t] = "insert" /\ key[curr[t]] = k[t] /\ Decide(t, FALSE)

\* mk_node returns NULL.
InsertNoMemory(t) == op[t] = "insert" /\ key[curr[t]] # k[t] /\ Decide(t, FALSE)

\* mk_node, then pred->next = n.
InsertLink(t) ==
  /\ op[t] = "insert"
  /\ ~Before(t) /\ key[curr[t]] # k[t]
  /\ Go(t, "compare", "unlockcurr")
  /\ \E n \in Nodes \ heap :
       /\ heap' = heap \union {n}
       /\ key'  = [key EXCEPT ![n] = k[t]]
       /\ next' = [next EXCEPT ![n] = curr[t], ![pred[t]] = n]
       /\ m'    = [m EXCEPT ![n] = Free]
  /\ ok' = [ok EXCEPT ![t] = TRUE]
  /\ UNCHANGED <<ops, op, k, pred, curr, main>>

DeleteMissing(t) == op[t] = "delete" /\ key[curr[t]] # k[t] /\ Decide(t, FALSE)

Unlink(t) ==
  /\ op[t] = "delete"
  /\ ~Before(t) /\ key[curr[t]] = k[t]
  /\ Go(t, "compare", "unlockcurr")
  /\ next' = [next EXCEPT ![pred[t]] = next[curr[t]]]
  /\ ok' = [ok EXCEPT ![t] = TRUE]
  /\ UNCHANGED <<key, m, heap, ops, op, k, pred, curr, main>>

UnlockCurr(t) ==
  /\ Go(t, "unlockcurr", "unlockpred")
  /\ MutexUnlock(m, curr[t])
  /\ UNCHANGED <<key, next, heap, ops, op, k, pred, curr, ok, main>>

UnlockPred(t) ==
  /\ Go(t, "unlockpred", IF op[t] = "delete" /\ ok[t] THEN "free" ELSE "op")
  /\ MutexUnlock(m, pred[t])
  /\ UNCHANGED <<key, next, heap, ops, op, k, pred, curr, ok, main>>

\* pthread_mutex_destroy and free of the node that was removed.
FreeNode(t) ==
  /\ Go(t, "free", "op")
  /\ heap' = heap \ {curr[t]}
  /\ UNCHANGED <<key, next, m, ops, op, k, pred, curr, ok, main>>

-----------------------------------------------------------------------------
(* worker and main *)

\* The next operation on a random key; any mix is possible.
Begin(t) ==
  /\ ops[t] < Ops
  /\ Go(t, "op", "lockhead")
  /\ ops' = [ops EXCEPT ![t] = @ + 1]
  /\ \E o \in Operations : op' = [op EXCEPT ![t] = o]
  /\ \E x \in Keys : k' = [k EXCEPT ![t] = x]
  /\ ok' = [ok EXCEPT ![t] = FALSE]
  /\ UNCHANGED <<memory, pred, curr, main>>

Finish(t) ==
  /\ ~(ops[t] < Ops)
  /\ Go(t, "op", "done")
  /\ UNCHANGED <<memory, ops, op, k, pred, curr, ok, main>>

Create(t) ==
  /\ Go(t, "new", "barrier")
  /\ UNCHANGED <<memory, ops, op, k, pred, curr, ok, main>>

\* pthread_barrier_wait of all the workers and main.
Start ==
  /\ \A t \in Threads : pc[t] = "barrier"
  /\ pc' = [t \in Threads |-> "op"]
  /\ UNCHANGED <<memory, ops, op, k, pred, curr, ok, main>>

Join ==
  /\ main = "run"
  /\ \A t \in Threads : pc[t] = "done"
  /\ main' = "exit"
  /\ UNCHANGED <<memory, pc, ops, op, k, pred, curr, ok>>

Exited == main = "exit" /\ UNCHANGED vars

Step(t) ==
  \/ Begin(t) \/ Finish(t)
  \/ LockHead(t) \/ LockCurr(t) \/ Advance(t)
  \/ Lookup(t) \/ InsertDuplicate(t) \/ InsertNoMemory(t) \/ InsertLink(t)
  \/ DeleteMissing(t) \/ Unlink(t)
  \/ UnlockCurr(t) \/ UnlockPred(t) \/ FreeNode(t)

Next == Start \/ Join \/ Exited \/ \E t \in Threads : Create(t) \/ Step(t)

Spec == Init /\ [][Next]_vars

\* Every thread that can take a step forever takes one.
FairSpec ==
  /\ Spec
  /\ WF_vars(Start) /\ WF_vars(Join)
  /\ \A t \in Threads : WF_vars(Create(t)) /\ WF_vars(Step(t))

-----------------------------------------------------------------------------
(* Properties *)

Points ==
  {"new", "barrier", "op", "lockhead", "lockcurr", "compare"}
    \union {"unlockcurr", "unlockpred", "free", "done"}

TypeOK ==
  /\ key \in [Nodes -> Keys \union {INT_MIN, INT_MAX} \union 0 .. MaxNodes]
  /\ next \in [Nodes -> Nodes \union {NULL}]
  /\ m \in [Nodes -> Threads \union {Free}]
  /\ heap \subseteq Nodes
  /\ pc \in [Threads -> Points]
  /\ ops \in [Threads -> 0 .. Ops]
  /\ op \in [Threads -> Operations]
  /\ k \in [Threads -> Keys \union {0}]
  /\ pred \in [Threads -> Nodes] /\ curr \in [Threads -> Nodes \union {NULL}]
  /\ ok \in [Threads -> BOOLEAN]
  /\ main \in {"run", "exit"}

\* A node t has unlinked and not freed yet; the nodes of the list are the
\* allocated ones that nobody has unlinked.
Unlinking(t) ==
  op[t] = "delete" /\ ok[t] /\ pc[t] \in {"unlockcurr", "unlockpred", "free"}
Linked == heap \ {curr[t] : t \in {u \in Threads : Unlinking(u)}}

\* Locks t holds, by where it is.
HoldsPred(t) == pc[t] \in {"lockcurr", "compare", "unlockcurr", "unlockpred"}
HoldsCurr(t) == pc[t] \in {"compare", "unlockcurr"}

\* A mutex is owned by the thread that must hold it and by nobody else.
Owners ==
  \A n \in Nodes, t \in Threads :
    m[n] = t <=>
      \/ HoldsPred(t) /\ pred[t] = n
      \/ HoldsCurr(t) /\ curr[t] = n

\* "pred and curr are both locked (lock coupling guarantees adjacency)": from
\* the moment a search reads curr it stays the successor of pred, and where the
\* call is decided pred->key < k.
Coupled ==
  \A t \in Threads :
    pc[t] \in {"lockcurr", "compare"} => next[pred[t]] = curr[t] /\ key[pred[t]] < k[t]

\* "Sorted ascending with sentinel head(INT_MIN) and tail(INT_MAX)": the list
\* keeps its two sentinels whatever the workers do.
Sentinels ==
  /\ {head, tail} \subseteq Linked
  /\ key[head] = INT_MIN /\ key[tail] = INT_MAX

\* The nodes of the list are one strictly ascending chain from head to tail:
\* next leads to the node with the next larger key.
Sorted ==
  /\ \A n \in Linked \ {head, tail} : key[n] \in Keys
  /\ \A n, o \in Linked : key[n] = key[o] => n = o
  /\ \A n \in Linked \ {tail} :
       /\ next[n] \in Linked /\ key[n] < key[next[n]]
       /\ \A o \in Linked : key[o] <= key[n] \/ key[next[n]] <= key[o]

\* Every allocated node is in the chain or about to be freed.
Chained == Linked \ {head} = {next[n] : n \in Linked \ {tail}}

\* Where the pointers of a call point: into the list, but for the node that
\* the call has unlinked, which no other call has unlinked too.
Pointers ==
  \A t \in Threads :
    /\ HoldsPred(t) => pred[t] \in Linked
    /\ pc[t] \in {"lockcurr", "compare", "unlockcurr"} /\ ~Unlinking(t)
         => curr[t] \in Linked
    /\ HoldsCurr(t) => pred[t] # curr[t]
    /\ Unlinking(t) =>
         /\ curr[t] \in heap \ {head, tail}
         /\ \A u \in Threads \ {t} : Unlinking(u) => curr[u] # curr[t]
    /\ pc[t] \notin {"new", "barrier", "op", "done"} => k[t] \in Keys
    /\ pc[t] = "free" => Unlinking(t)

\* The nodes t still locks, reads, unlocks or frees.
Follows(t, n) ==
  \/ HoldsPred(t) /\ n = pred[t]
  \/ (pc[t] \in {"lockcurr", "compare", "unlockcurr"} \/ Unlinking(t)) /\ n = curr[t]

\* A pointer a thread is going to follow points to an allocated node, and a
\* node is freed when no other thread has such a pointer to it any more.
NoUseAfterFree ==
  \A t \in Threads :
    /\ \A n \in Nodes : Follows(t, n) => n \in heap
    /\ pc[t] = "free" =>
         /\ m[curr[t]] = Free
         /\ \A u \in Threads \ {t} : ~Follows(u, curr[t])

\* Everything the steps of the list rely on, together.
IInv ==
  /\ TypeOK /\ Owners /\ Coupled /\ Pointers /\ NoUseAfterFree
  /\ Sentinels /\ Sorted /\ Chained

\* The list is a set on which every call takes effect in one step: the search
\* comes to its decision with both nodes locked.
CallOf(t) ==
  CASE pc[t] \in {"lockhead", "lockcurr", "compare"}    -> <<op[t], k[t]>>
    [] pc[t] \in {"unlockcurr", "unlockpred", "free"}   -> <<op[t], k[t], ok[t]>>
    [] OTHER                                            -> <<>>
Set == INSTANCE SetObject WITH
         members <- {key[n] : n \in Linked \ {head, tail}},
         status  <- [t \in Threads |-> CallOf(t)]
ImplementsSet == Set!Spec

\* No worker waits for a lock for ever: a thread only waits for nodes further
\* down the list than those it holds.
Termination == <>(main = "exit")
=============================================================================
