------------------------------ MODULE SetObject ------------------------------
(***************************************************************************)
(* What the lists and hash tables of chapter29 promise: a set of keys on   *)
(* which every call takes effect in one step between its start and its     *)
(* return.  An update inserts a key that is absent and deletes one that is *)
(* present.  Where a node is needed there may be no memory; then nothing   *)
(* changes.                                                                *)
(***************************************************************************)
EXTENDS Sequences, Integers

CONSTANTS Threads, Keys

VARIABLES
  members,    \* the keys in the set
  status      \* the call each thread is in, without or with its answer

Idle == <<>>
Operations == {"lookup", "insert", "delete", "update"}

Init == members \in SUBSET Keys /\ status = [t \in Threads |-> Idle]

Call(t, op, k) ==
  /\ status[t] = Idle
  /\ status' = [status EXCEPT ![t] = <<op, k>>]
  /\ UNCHANGED members

Answer(t, op, k, ok) ==
  /\ status[t] = <<op, k>>
  /\ status' = [status EXCEPT ![t] = <<op, k, ok>>]

Lookup(t, k) == Answer(t, "lookup", k, k \in members) /\ UNCHANGED members

Insert(t, k) ==
  /\ Answer(t, "insert", k, k \notin members)
  /\ members' = members \union {k}

NoMemory(t, k) ==
  /\ k \notin members
  /\ Answer(t, "insert", k, FALSE) \/ Answer(t, "update", k, FALSE)
  /\ UNCHANGED members

Delete(t, k) ==
  /\ Answer(t, "delete", k, k \in members)
  /\ members' = members \ {k}

Update(t, k) ==
  /\ Answer(t, "update", k, TRUE)
  /\ members' = IF k \in members THEN members \ {k} ELSE members \union {k}

Return(t) ==
  /\ Len(status[t]) = 3
  /\ status' = [status EXCEPT ![t] = Idle]
  /\ UNCHANGED members

Next ==
  \E t \in Threads :
    \/ Return(t)
    \/ \E k \in Keys :
         \/ \E op \in Operations : Call(t, op, k)
         \/ Lookup(t, k) \/ Insert(t, k) \/ Delete(t, k) \/ Update(t, k) \/ NoMemory(t, k)

Spec == Init /\ [][Next]_<<members, status>>
=============================================================================
