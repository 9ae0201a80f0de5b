------------------------------ MODULE RWClient ------------------------------
(***************************************************************************)
(* The part that chapter31/reader-writer.c and reader-writer-nostarve.c    *)
(* share word for word: main creates the readers, then the writers; a      *)
(* reader loops over acquire, print, release; a writer loops over acquire, *)
(* value++, print, release.  The lock itself is added by the modules that  *)
(* extend this one.                                                        *)
(*                                                                         *)
(* value++ is a load and a store, and the print a second load, because the *)
(* lock is all that keeps other threads away from it.                      *)
(***************************************************************************)
EXTENDS CommonThreads, FiniteSets

CONSTANTS
  Readers, Writers,   \* the threads
  Loops,              \* the loop counts the program may be started with
  IntRange            \* number of values of an int (2^32 in the program)

\* A loop count that is never reached, for questions about threads that keep
\* competing; the program's own counts are natural numbers.
Forever == -1

ASSUME RWClientAssumption ==
  /\ IsFiniteSet(Readers) /\ IsFiniteSet(Writers)
  /\ Readers \intersect Writers = {}
  /\ Loops \subseteq Nat \union {Forever}
  /\ IntRange \in Nat \ {0}

VARIABLES
  loops,    \* the third argument of the program
  pc,       \* where each thread is
  iter,     \* iterations each thread has begun
  value,    \* the integer the lock protects
  seen,     \* the last value each thread loaded or stored
  main,     \* what main is doing
  readers   \* the lock's number of readers counted in

clientVars == <<loops, pc, iter, value, seen, main>>

Threads == Readers \union Writers

Go(t, from, to) == pc[t] = from /\ pc' = [pc EXCEPT ![t] = to]

ClientInit ==
  /\ loops \in Loops
  /\ pc = [t \in Threads |-> "new"]
  /\ iter = [t \in Threads |-> 0]
  /\ value = 0
  /\ seen = [t \in Threads |-> 0]
  /\ main = "run"

\* Pthread_create: all the readers before the first writer.
Create(t) ==
  /\ t \in Writers => \A r \in Readers : pc[r] # "new"
  /\ Go(t, "new", "loop")
  /\ UNCHANGED <<loops, iter, value, seen, main>>

\* The test of the for loop.
Loop(t) ==
  /\ Go(t, "loop", IF loops = Forever \/ iter[t] < loops THEN "acquire" ELSE "done")
  /\ iter' = [iter EXCEPT ![t] = IF @ < loops THEN @ + 1 ELSE @]
  /\ UNCHANGED <<loops, value, seen, main>>

\* reader: printf("read %d\n", value)
Read(r) ==
  /\ Go(r, "read", "release")
  /\ seen' = [seen EXCEPT ![r] = value]
  /\ UNCHANGED <<loops, iter, value, main>>

\* writer: value++, then printf("write %d\n", value)
Load(w) ==
  /\ Go(w, "load", "store")
  /\ seen' = [seen EXCEPT ![w] = value]
  /\ UNCHANGED <<loops, iter, value, main>>

Store(w) ==
  /\ Go(w, "store", "print")
  /\ value' = (seen[w] + 1) % IntRange
  /\ seen' = [seen EXCEPT ![w] = value']
  /\ UNCHANGED <<loops, iter, main>>

Show(w) ==
  /\ Go(w, "print", "release")
  /\ seen' = [seen EXCEPT ![w] = value]
  /\ UNCHANGED <<loops, iter, value, main>>

\* All the joins have returned; main prints value.
Join ==
  /\ main = "run"
  /\ \A t \in Threads : pc[t] = "done"
  /\ main' = "exit"
  /\ UNCHANGED <<loops, pc, iter, value, seen>>

\* What a thread does outside the lock's own code.
Work(t) ==
  \/ Loop(t)
  \/ t \in Readers /\ Read(t)
  \/ t \in Writers /\ (Load(t) \/ Store(t) \/ Show(t))

-----------------------------------------------------------------------------
(* What the clients observe of the lock, and what both locks have to keep *)

\* Readers and writers inside: acquire has returned, release has not begun.
Reading == {r \in Readers : pc[r] \in {"read", "release"}}
Writing == {w \in Writers : pc[w] \in {"load", "store", "print", "release"}}

\* The locks have the same shape.  Readers counted in readers; readers that hold
\* the semaphore of the count; readers behind a semaphore the readers hold.
Counted(r) == pc[r] \in {"first", "enter", "pass", "read", "release", "leave"}
AtCount(r) == pc[r] \in {"count", "first", "enter", "leave", "unlock"}
Sharing(r) == pc[r] \in {"enter", "pass", "read", "release", "leave"}

\* Nobody writes between a thread's look at value and the end of its turn: a
\* writer stores and prints the successor of the value it loaded, and what a
\* reader printed is still the value when it releases.
StableView ==
  \A t \in Threads :
    pc[t] \in {"store", "print", "release"} => seen[t] = value

\* Increments a writer has stored: all it has begun but one it has still to
\* store.  All of them, one pair for each.
Stored(x)  == iter[x] - (IF pc[x] \in {"acquire", "wait", "load", "store"} THEN 1 ELSE 0)
Increments == {r \in Writers \X (1 .. loops) : r[2] <= Stored(r[1])}

\* A thread stops after its iterations and main after the threads; if the
\* writers can stop at all, value is the number of increments stored so far.
Tally ==
  /\ \A t \in Threads :
       /\ pc[t] = "done" => loops # Forever /\ iter[t] = loops
       /\ loops # Forever => iter[t] <= loops
       /\ pc[t] \in {"acquire", "wait", "load", "store"} /\ loops # Forever => 1 <= iter[t]
  /\ main = "exit" => \A t \in Threads : pc[t] = "done"
  /\ loops # Forever \/ Writers = {} => value = Cardinality(Increments) % IntRange

\* Who is inside, whatever the semaphores say: `readers' is the number of
\* readers counted in, one of them at a time looks at it, and while the first
\* waits for the writers nobody else is counted; there are readers inside or one
\* writer; and what a thread has seen of value stays so.
Occupancy ==
  /\ readers = Cardinality({r \in Readers : Counted(r)})
  /\ \A r, q \in Readers : AtCount(r) /\ AtCount(q) => r = q
  /\ \A r, q \in Readers : pc[r] = "first" /\ Counted(q) => r = q
  /\ \A r \in Readers : Sharing(r) => Writing = {}
  /\ \A x \in Writing : Writing = {x}
  /\ StableView /\ Tally

\* The lock is a reader-writer lock: with a reader inside from the return of
\* its acquire to the start of its release, every step is one the abstract
\* lock may take.
Lock == INSTANCE RWLock WITH reading <- Reading, writing <- Writing
ImplementsLock == Lock!Spec

\* The value main prints at the end is the number of increments: none was lost.
ExpectedValue ==
  main = "exit" => value = (Cardinality(Writers) * loops) % IntRange

\* Everybody finishes and main exits.
Termination == loops # Forever ~> main = "exit"

\* A writer that wants the lock gets it, however busy the readers are.
WriterProgress == \A w \in Writers : pc[w] = "acquire" ~> pc[w] = "load"
=============================================================================
