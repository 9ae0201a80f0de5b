------------------------------- MODULE Barrier -------------------------------
(***************************************************************************)
(* chapter31/barrier.c: n children print "before", meet at a barrier built *)
(* from two semaphores and a count, and print "after".  The last child to  *)
(* arrive posts `barrier' once for each of the others, one post at a time, *)
(* while the children it wakes already run.                                *)
(***************************************************************************)
EXTENDS BarrierState

vars == <<mutex, barrier, count, i, pc, main>>

Init ==
  /\ mutex = 1 /\ barrier = 0 /\ count = 0
  /\ i = [t \in Children |-> 0]
  /\ pc = [t \in Children |-> "new"]
  /\ main = "run"

Go(t, from, to) == pc[t] = from /\ pc' = [pc EXCEPT ![t] = to]

-----------------------------------------------------------------------------
(* Slips a maintainer could make; no specification of this module uses them. *)

\* The barrier opens one child too early.
LastOneEarly(t) ==
  /\ count + 1 >= n - 1
  /\ Go(t, "count", "post")
  /\ count' = count + 1
  /\ i' = [i EXCEPT ![t] = 0]
  /\ UNCHANGED <<mutex, barrier, main>>

\* The loop posts for the last child too, or for one child too few.
PostsMany  == n
PostsShort == n - 2

\* An early child walks through.
PassUnposted(t) ==
  /\ Go(t, "sleep", "after")
  /\ UNCHANGED <<mutex, barrier, count, i, main>>

-----------------------------------------------------------------------------
(* child and barrier() *)

\* The bound of the loop: one post for every other child.
Posts == n - 1

PrintBefore(t) ==
  /\ Go(t, "before", "arrive")
  /\ UNCHANGED <<mutex, barrier, count, i, main>>

Arrive(t) ==
  /\ Go(t, "arrive", "count")
  /\ SemWait(mutex)
  /\ UNCHANGED <<barrier, count, i, main>>

Early(t) ==
  /\ count + 1 # n
  /\ Go(t, "count", "sleep")
  /\ count' = count + 1
  /\ SemPost(mutex)
  /\ UNCHANGED <<barrier, i, main>>

\* The last child keeps mutex while it posts.
Last(t) ==
  /\ count + 1 = n
  /\ Go(t, "count", "post")
  /\ count' = count + 1
  /\ i' = [i EXCEPT ![t] = 0]
  /\ UNCHANGED <<mutex, barrier, main>>

Post(t) ==
  /\ i[t] < Posts
  /\ Go(t, "post", "post")
  /\ SemPost(barrier)
  /\ i' = [i EXCEPT ![t] = @ + 1]
  /\ UNCHANGED <<mutex, count, main>>

Open(t) ==
  /\ ~(i[t] < Posts)
  /\ Go(t, "post", "after")
  /\ count' = 0
  /\ SemPost(mutex)
  /\ UNCHANGED <<barrier, i, main>>

Pass(t) ==
  /\ Go(t, "sleep", "after")
  /\ SemWait(barrier)
  /\ UNCHANGED <<mutex, count, i, main>>

PrintAfter(t) ==
  /\ Go(t, "after", "done")
  /\ UNCHANGED <<mutex, barrier, count, i, main>>

-----------------------------------------------------------------------------
(* main *)

Create(t) ==
  /\ Go(t, "new", "before")
  /\ UNCHANGED <<mutex, barrier, count, i, main>>

Join ==
  /\ main = "run"
  /\ \A t \in Children : pc[t] = "done"
  /\ main' = "exit"
  /\ UNCHANGED <<mutex, barrier, count, i, pc>>

Exited == main = "exit" /\ UNCHANGED vars

Step(t) ==
  \/ PrintBefore(t) \/ Arrive(t) \/ Early(t) \/ Last(t)
  \/ Post(t) \/ Open(t) \/ Pass(t) \/ PrintAfter(t)

Next == Join \/ Exited \/ \E t \in Children : Create(t) \/ Step(t)

Spec == Init /\ [][Next]_vars

\* Every thread that can take a step forever takes one.  Each semaphore is
\* waited for once by a child, so no stronger fairness is needed.
FairSpec ==
  /\ Spec
  /\ WF_vars(Join)
  /\ \A t \in Children : WF_vars(Create(t)) /\ WF_vars(Step(t))

-----------------------------------------------------------------------------
(* Liveness *)

\* Every child passes the barrier and main exits.
Termination == <>(main = "exit")
=============================================================================
