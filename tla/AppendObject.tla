----------------------------- MODULE AppendObject -----------------------------
(***************************************************************************)
(* What the vector and the linked list of chapter14 promise: a sequence    *)
(* that grows at its end and is read by index.  A push that is refused     *)
(* leaves the sequence as it was, an index behind the end is answered with *)
(* Missing, and before its creation and after its release the object       *)
(* refuses everything.                                                     *)
(***************************************************************************)
EXTENDS Sequences, Integers

CONSTANTS Values, Indices

VARIABLES
  live,       \* the object has been created and not released
  items,      \* the values pushed
  answer      \* what the last call returned

Ok       == <<"ok">>
Refused  == <<"refused">>
Missing  == <<"missing">>
Found(x) == <<"found", x>>

Init == live = FALSE /\ items = <<>> /\ answer = Ok

Create == ~live /\ live' = TRUE /\ answer' = Ok /\ UNCHANGED items

Push(x) ==
  /\ live
  /\ items' = Append(items, x)
  /\ answer' = Ok
  /\ UNCHANGED live

Refuse == answer' = Refused /\ UNCHANGED <<live, items>>

Get(index) ==
  /\ answer' = IF index < Len(items) THEN Found(items[index + 1]) ELSE Missing
  /\ UNCHANGED <<live, items>>

Release == live' = FALSE /\ items' = <<>> /\ UNCHANGED answer

Next ==
  \/ Create \/ Refuse \/ Release
  \/ \E x \in Values : Push(x)
  \/ \E index \in Indices : Get(index)

Spec == Init /\ [][Next]_<<live, items, answer>>
=============================================================================
