----------------------------- MODULE LockedChains -----------------------------
(***************************************************************************)
(* The unsorted linked lists of chapter29 behind coarse locks:             *)
(*   list      chapter29-4.c, list_global: one list, one lock              *)
(*   hash      chapter29-5.c: a hash table of lists under one lock         *)
(*   buckets   chapter29-6.c: a hash table with a lock for every bucket    *)
(* and the workers of their benchmarks, which start together at a barrier. *)
(* Which program runs is chosen in the initial state.                      *)
(*                                                                         *)
(* A chain is the sequence of its keys.  A lock, an unlock, the search of  *)
(* a chain and the change of a chain are steps of their own: the locks are *)
(* all that keeps them together.                                           *)
(***************************************************************************)
EXTENDS CommonThreads, SequencesExt

CONSTANTS
  Threads,      \* the workers
  Ops,          \* operations of each worker
  KeySpace,     \* keys are drawn from 1 .. KeySpace
  nbk           \* number of buckets

ASSUME ChainsAssumption ==
  /\ IsFiniteSet(Threads) /\ Free \notin Threads
  /\ Ops \in Nat /\ KeySpace \in Nat /\ nbk \in Nat \ {0}

VARIABLES
  program,      \* which of the three programs runs
  lists,        \* the chains
  lock,         \* the owner of each lock
  pc, ops,      \* where each worker is, operations it has begun
  op, k,        \* its operation and key
  call,         \* the list function it is in, or goes to next
  ok,           \* what that function returns
  main          \* what main is doing

vars == <<program, lists, lock, pc, ops, op, k, call, ok, main>>

Keys    == 1 .. KeySpace
Buckets == 0 .. nbk - 1

\* list: any set of keys is prefilled; in which order is not observable.
Init ==
  /\ program \in {"list", "hash", "buckets"}
  /\ \E S \in SUBSET Keys :
       /\ program # "list" => S = {}
       /\ lists = [b \in Buckets |-> IF b = 0 THEN SetToSeq(S) ELSE <<>>]
  /\ lock = [b \in Buckets |-> Free]
  /\ pc = [t \in Threads |-> "new"]
  /\ ops = [t \in Threads |-> 0]
  /\ op = [t \in Threads |-> "lookup"]
  /\ k = [t \in Threads |-> 0]
  /\ call = [t \in Threads |-> "lookup"]
  /\ ok = [t \in Threads |-> FALSE]
  /\ main = "run"

Go(t, from, to) == pc[t] = from /\ pc' = [pc EXCEPT ![t] = to]

\* The chain a key belongs to.
bkt(x) == IF program = "list" THEN 0 ELSE x % nbk

Present(t) == Contains(lists[bkt(k[t])], k[t])

-----------------------------------------------------------------------------
(* Slips a maintainer could make; no specification of this module uses them. *)

\* The list functions are called without the lock.
LockSkipped(t) ==
  /\ Go(t, "lock", "search")
  /\ UNCHANGED <<program, lists, lock, ops, op, k, call, ok, main>>

\* The update lets the bucket go between its two halves.
HoldsOnNever == FALSE

\* One path returns without unlocking.
UnlockForgotten(t) ==
  /\ Go(t, "unlock", IF op[t] = "update" /\ call[t] = "insert" /\ ~ok[t] THEN "again" ELSE "op")
  /\ lock' = IF ok[t] THEN [lock EXCEPT ![0] = Free] ELSE lock
  /\ UNCHANGED <<program, lists, ops, op, k, call, ok, main>>

-----------------------------------------------------------------------------
(* The lock around the list functions *)

\* buckets: the lock of the key's bucket; otherwise the only lock there is.
LockOf(t) == IF program = "buckets" THEN bkt(k[t]) ELSE 0

\* Hash_Update of buckets goes from the failed insertion to the deletion
\* without unlocking; that of hash calls Hash_Insert, then Hash_Delete.
HoldsOn == program = "buckets"

Lock(t) ==
  /\ Go(t, "lock", "search")
  /\ MutexLock(lock, LockOf(t), t)
  /\ UNCHANGED <<program, lists, ops, op, k, call, ok, main>>

Unlock(t) ==
  /\ Go(t, "unlock", IF op[t] = "update" /\ call[t] = "insert" /\ ~ok[t] THEN "again" ELSE "op")
  /\ MutexUnlock(lock, LockOf(t))
  /\ UNCHANGED <<program, lists, ops, op, k, call, ok, main>>

\* hash: Hash_Insert has returned false, Hash_Delete is called.
Again(t) ==
  /\ Go(t, "again", "lock")
  /\ call' = [call EXCEPT ![t] = "delete"]
  /\ ok' = [ok EXCEPT ![t] = FALSE]
  /\ UNCHANGED <<program, lists, lock, ops, op, k, main>>

-----------------------------------------------------------------------------
(* List_Lookup, List_Insert, List_Delete *)

Lookup(t) ==
  /\ call[t] = "lookup"
  /\ Go(t, "search", "unlock")
  /\ ok' = [ok EXCEPT ![t] = Present(t)]
  /\ UNCHANGED <<program, lists, lock, ops, op, k, call, main>>

\* The key is there, or malloc returns NULL.
InsertFails(t) ==
  /\ call[t] = "insert"
  /\ IF op[t] = "update" /\ HoldsOn
       THEN Go(t, "search", "search") /\ call' = [call EXCEPT ![t] = "delete"]
       ELSE Go(t, "search", "unlock") /\ UNCHANGED call
  /\ ok' = [ok EXCEPT ![t] = FALSE]
  /\ UNCHANGED <<program, lists, lock, ops, op, k, main>>

InsertMisses(t) ==
  /\ call[t] = "insert" /\ ~Present(t)
  /\ Go(t, "search", "link")
  /\ UNCHANGED <<program, lists, lock, ops, op, k, call, ok, main>>

\* n->next = L->head; L->head = n
Link(t) ==
  /\ Go(t, "link", "unlock")
  /\ lists' = [lists EXCEPT ![bkt(k[t])] = <<k[t]>> \o @]
  /\ ok' = [ok EXCEPT ![t] = TRUE]
  /\ UNCHANGED <<program, lock, ops, op, k, call, main>>

DeleteMisses(t) ==
  /\ call[t] = "delete" /\ ~Present(t)
  /\ Go(t, "search", "unlock")
  /\ ok' = [ok EXCEPT ![t] = FALSE]
  /\ UNCHANGED <<program, lists, lock, ops, op, k, call, main>>

DeleteFinds(t) ==
  /\ call[t] = "delete" /\ Present(t)
  /\ Go(t, "search", "unlink")
  /\ UNCHANGED <<program, lists, lock, ops, op, k, call, ok, main>>

\* *pp = c->next; free(c)
Unlink(t) ==
  /\ Go(t, "unlink", "unlock")
  /\ lists' = [lists EXCEPT ![bkt(k[t])] = RemoveFirst(@, k[t])]
  /\ ok' = [ok EXCEPT ![t] = TRUE]
  /\ UNCHANGED <<program, lock, ops, op, k, call, main>>

-----------------------------------------------------------------------------
(* worker and main *)

\* list: any of the three operations; the hash tables: an update.
Begin(t) ==
  /\ ops[t] < Ops
  /\ Go(t, "op", "lock")
  /\ ops' = [ops EXCEPT ![t] = @ + 1]
  /\ \E o \in IF program = "list" THEN {"lookup", "insert", "delete"} ELSE {"update"} :
       /\ op' = [op EXCEPT ![t] = o]
       /\ call' = [call EXCEPT ![t] = IF o = "update" THEN "insert" ELSE o]
  /\ \E x \in Keys : k' = [k EXCEPT ![t] = x]
  /\ ok' = [ok EXCEPT ![t] = FALSE]
  /\ UNCHANGED <<program, lists, lock, main>>

Finish(t) ==
  /\ ~(ops[t] < Ops)
  /\ Go(t, "op", "done")
  /\ UNCHANGED <<program, lists, lock, ops, op, k, call, ok, main>>

Create(t) ==
  /\ Go(t, "new", "barrier")
  /\ UNCHANGED <<program, lists, lock, ops, op, k, call, ok, main>>

\* pthread_barrier_wait of all the workers and main.
Start ==
  /\ \A t \in Threads : pc[t] = "barrier"
  /\ pc' = [t \in Threads |-> "op"]
  /\ UNCHANGED <<program, lists, lock, ops, op, k, call, ok, main>>

Join ==
  /\ main = "run"
  /\ \A t \in Threads : pc[t] = "done"
  /\ main' = "exit"
  /\ UNCHANGED <<program, lists, lock, pc, ops, op, k, call, ok>>

Exited == main = "exit" /\ UNCHANGED vars

Step(t) ==
  \/ Begin(t) \/ Finish(t) \/ Lock(t) \/ Unlock(t) \/ Again(t)
  \/ Lookup(t) \/ InsertFails(t) \/ InsertMisses(t) \/ Link(t)
  \/ DeleteMisses(t) \/ DeleteFinds(t) \/ Unlink(t)

Next == Start \/ Join \/ Exited \/ \E t \in Threads : Create(t) \/ Step(t)

Spec == Init /\ [][Next]_vars

\* Every thread that can take a step forever takes one.
FairSpec ==
  /\ Spec
  /\ WF_vars(Start) /\ WF_vars(Join)
  /\ \A t \in Threads : WF_vars(Create(t)) /\ WF_vars(Step(t))

-----------------------------------------------------------------------------
(* Properties *)

Points == {"new", "barrier", "op", "lock", "search", "link", "unlink", "unlock", "again", "done"}

TypeOK ==
  /\ program \in {"list", "hash", "buckets"}
  /\ lists \in [Buckets -> Seq(Keys)]
  /\ lock \in [Buckets -> Threads \union {Free}]
  /\ pc \in [Threads -> Points]
  /\ ops \in [Threads -> 0 .. Ops]
  /\ op \in [Threads -> {"lookup", "insert", "delete", "update"}]
  /\ k \in [Threads -> Keys \union {0}]
  /\ call \in [Threads -> {"lookup", "insert", "delete"}]
  /\ ok \in [Threads -> BOOLEAN]
  /\ main \in {"run", "exit"}

\* A lock is owned by the thread that is between its lock and its unlock, and
\* what the search of a chain has found is still so when the chain is changed.
Owners ==
  /\ \A t \in Threads, b \in Buckets :
       lock[b] = t <=> b = LockOf(t) /\ pc[t] \in {"search", "link", "unlink", "unlock"}
  /\ \A t \in Threads : pc[t] = "link" => ~Present(t)
  /\ \A t \in Threads : pc[t] = "unlink" => Present(t)

\* No key is twice in a chain and every key is in the chain it hashes to, so
\* that a search of one chain decides whether the table has the key.
WellFormed ==
  \A b \in Buckets :
    /\ IsInjective(lists[b])
    /\ \A x \in ToSet(lists[b]) : bkt(x) = b

\* What a call has come to: which program makes which calls, and that only the
\* update of hash unlocks between its two halves.
Calls ==
  \A t \in Threads :
    /\ pc[t] \notin {"new", "barrier", "op", "done"} =>
         /\ k[t] \in Keys
         /\ IF program = "list" THEN op[t] # "update" /\ call[t] = op[t]
                              ELSE op[t] = "update" /\ call[t] # "lookup"
    /\ pc[t] \in {"link", "again"} => call[t] = "insert"
    /\ pc[t] = "unlink" => call[t] = "delete"
    /\ pc[t] = "again" => program = "hash"
    /\ pc[t] = "unlock" /\ call[t] = "insert" /\ program = "buckets" => ok[t]

IInv == TypeOK /\ Owners /\ WellFormed /\ Calls

\* Every call takes effect in one step: the operations of list; Hash_Insert
\* and Hash_Delete of hash, whose update is two such calls; and for buckets
\* the whole "toggle update under the bucket lock".
CallOf(t) ==
  LET name == IF program = "hash" THEN call[t] ELSE op[t]
  IN  CASE pc[t] \in {"lock", "search", "link", "unlink"} -> <<name, k[t]>>
        [] pc[t] = "unlock"                               -> <<name, k[t], ok[t]>>
        [] OTHER                                          -> <<>>
Set == INSTANCE SetObject WITH
         members <- UNION {ToSet(lists[b]) : b \in Buckets},
         status  <- [t \in Threads |-> CallOf(t)]
ImplementsSet == Set!Spec

\* Every worker finishes and main goes on.
Termination == <>(main = "exit")
=============================================================================
