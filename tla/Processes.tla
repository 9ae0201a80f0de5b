------------------------------- MODULE Processes -------------------------------
(***************************************************************************)
(* Runs the programs of ProcessPrograms on the part of Unix they use:      *)
(* processes that are forked, exit and are waited for; descriptors that a  *)
(* fork copies; pipes, whose reader sees the end of the file when nobody   *)
(* has the other end open; stdout with the buffer of stdio in front of it; *)
(* threads and semaphores.                                                 *)
(*                                                                         *)
(* Which program runs is chosen in the initial state, and whether stdout   *)
(* is a terminal, where each line is written at once, or a file, where     *)
(* the lines wait in the process's buffer until it exits.  A process may   *)
(* be killed at any time, and pipe, fork, open and exec may fail.          *)
(***************************************************************************)
EXTENDS ProcessPrograms, FiniteSets, Functions

CONSTANTS
  Iters,        \* values of the argument of context_switch
  MaxKills      \* bound on the processes killed from outside

ASSUME KillsAssumption == Iters \subseteq Int /\ MaxKills \in Nat

VARIABLES
  program, iters, tty,  \* what runs, its argument, and where stdout is
  next, status, value,  \* of each actor: next call, state, its number
  fds, buffer,          \* of each process: descriptors, and lines not yet written
  pipe,                 \* bytes in each pipe
  output, text, offset, \* what stdout and test.txt got; offsets of open files
  sem,
  faults                \* the actors that were killed or had a call fail

config == <<program, iters, tty>>
local  == <<status, value>>
files  == <<output, text, offset>>
vars   == <<config, next, local, fds, buffer, pipe, files, sem, faults>>

Pipes == {"p", "q"}
Ends  == {"p[0]", "p[1]", "q[0]", "q[1]"}
Descriptors == {"stdin", "stdout", "file"} \union Ends

\* What a descriptor stands for: an end of a pipe, or a file and who opened it.
Objects  == {"closed", "terminal", "redirected"} \union Ends \union Actors
ReadEnd  == [p |-> "p[0]", q |-> "q[0]"]
WriteEnd == [p |-> "p[1]", q |-> "q[1]"]

Pid(a)  == CASE a = "parent" -> 1 [] a = "child" -> 2 [] OTHER -> 3
Garbage == -2       \* a string that ends wherever memory has a zero byte

\* The process of an actor: threads live in their parent's.
Process(a) == IF program \in Threaded THEN "parent" ELSE a
Members(p) == {a \in Actors : Process(a) = p}

Init ==
  /\ program \in Programs /\ tty \in BOOLEAN
  /\ iters \in IF program = "context_switch" THEN Iters ELSE {0}
  /\ next = [a \in Actors |-> 1]
  /\ status = [a \in Actors |-> IF a = "parent" THEN "running" ELSE "none"]
  /\ value = [a \in Actors |-> 0]
  /\ fds = [a \in Actors |-> [d \in Descriptors |->
       IF a = "parent" /\ d = "stdout" THEN (IF tty THEN "terminal" ELSE "redirected")
       ELSE "closed"]]
  /\ buffer = [a \in Actors |-> <<>>]
  /\ pipe = [p \in Pipes |-> 0]
  /\ output = <<>> /\ text = <<>> /\ offset = [a \in Actors |-> 0]
  /\ sem = [s \in {"s1", "s2"} |-> 0]
  /\ faults = {}

Call(a)  == CodeOf(program, iters)[a][next[a]]
At(a, op) == status[a] = "running" /\ Call(a).op = op

\* The actor goes on to its next call, its number being v.
Returns(a, v) ==
  /\ next' = [next EXCEPT ![a] = @ + 1]
  /\ value' = [value EXCEPT ![a] = v]
Done(a) == Returns(a, value[a])

My(a, d)  == fds[Process(a)][d]
IsOpen(object) == \E p \in Actors, d \in Descriptors : fds[p][d] = object

-----------------------------------------------------------------------------
(* The end of a process: its threads stop, its descriptors are closed.  An *)
(* exit writes the buffer to stdout first.                                 *)

LineBytes == len1 + len2

\* What becomes of lines written to an object.
Emit(object, lines) ==
  /\ output' = IF object \in {"terminal", "redirected"} THEN output \o lines ELSE output
  /\ pipe' = [p \in Pipes |->
       IF object = WriteEnd[p] THEN pipe[p] + LineBytes * Len(lines) ELSE pipe[p]]

Over(a, lines) ==
  /\ status' = [b \in Actors |->
       IF b \in Members(Process(a)) /\ status[b] = "running" THEN "zombie" ELSE status[b]]
  /\ fds' = [fds EXCEPT ![Process(a)] = [d \in Descriptors |-> "closed"]]
  /\ buffer' = [buffer EXCEPT ![Process(a)] = <<>>]
  /\ Emit(My(a, "stdout"), lines)
  /\ UNCHANGED <<config, next, value, text, offset, sem>>

\* A thread that returns ends alone, unless it is the one that runs main.
Exit(a) ==
  /\ At(a, "exit")
  /\ UNCHANGED faults
  /\ IF a = Process(a)
     THEN Over(a, IF Call(a).flush THEN buffer[a] ELSE <<>>)
     ELSE /\ status' = [status EXCEPT ![a] = "zombie"]
          /\ UNCHANGED <<config, next, value, fds, buffer, pipe, files, sem>>

\* perror and exit, or an early return from main.
Fail(a) == Over(a, buffer[Process(a)]) /\ faults' = faults \union {a}

\* A signal ends a process at any point.
Kill(a) ==
  /\ Cardinality(faults) < MaxKills
  /\ a = Process(a) /\ status[a] = "running"
  /\ Over(a, <<>>) /\ faults' = faults \union {a}

\* execve replaces the process by ls, which writes a list and ends.  A buffer
\* that was not written is lost.
ExecSucceeds(a) ==
  /\ At(a, "exec")
  /\ Over(a, <<<<"list", 0>>>>) /\ UNCHANGED faults

ExecFails(a) ==
  /\ At(a, "exec") /\ Done(a)
  /\ UNCHANGED <<config, status, fds, buffer, pipe, files, sem, faults>>

-----------------------------------------------------------------------------
(* Processes, threads and semaphores *)

Begin(a, c) == status' = [status EXCEPT ![c] = "running"]

\* The child has copies of the parent's memory and descriptors.
ForkProcess(a) ==
  /\ At(a, "fork")
  /\ LET c == Call(a).child
     IN  /\ next' = [next EXCEPT ![a] = @ + 1]
         /\ Begin(a, c)
         /\ value' = [value EXCEPT ![c] = value[a]]
         /\ fds' = [fds EXCEPT ![c] = fds[a]]
         /\ buffer' = [buffer EXCEPT ![c] = buffer[a]]
  /\ UNCHANGED <<config, pipe, files, sem, faults>>

CreateThread(a) ==
  /\ At(a, "create") /\ Done(a)
  /\ Begin(a, Call(a).child)
  /\ UNCHANGED <<config, fds, buffer, pipe, files, sem, faults>>

CallFails(a) == (At(a, "pipe") \/ At(a, "fork")) /\ Fail(a)

\* Only the parent has children.  wait returns one that has ended, blocks while
\* those it may return still run, and fails if there is none.
WaitForChild(a) ==
  /\ At(a, "wait")
  /\ LET mine  == IF a = "parent" THEN Actors \ {"parent"} ELSE {}
         asked == {c \in Call(a).children \intersect mine : status[c] \in {"running", "zombie"}}
     IN  \/ /\ asked = {}
            /\ Returns(a, -1) /\ UNCHANGED status
         \/ \E c \in asked :
              /\ status[c] = "zombie"
              /\ status' = [status EXCEPT ![c] = "reaped"]
              /\ Returns(a, Pid(c))
  /\ UNCHANGED <<config, fds, buffer, pipe, files, sem, faults>>

SemPostCall(a) ==
  /\ At(a, "post") /\ Done(a)
  /\ sem' = [sem EXCEPT ![Call(a).sem] = @ + 1]
  /\ UNCHANGED <<config, status, fds, buffer, pipe, files, faults>>

SemWaitCall(a) ==
  /\ At(a, "await") /\ Done(a)
  /\ sem[Call(a).sem] > 0
  /\ sem' = [sem EXCEPT ![Call(a).sem] = @ - 1]
  /\ UNCHANGED <<config, status, fds, buffer, pipe, files, faults>>

Compute(a) ==
  /\ At(a, "set")
  /\ Returns(a, Call(a).by + Call(a).keep * value[a])
  /\ UNCHANGED <<config, status, fds, buffer, pipe, files, sem, faults>>

-----------------------------------------------------------------------------
(* Descriptors, pipes and files *)

Opened(a, changed) ==
  /\ Done(a)
  /\ fds' = [fds EXCEPT ![Process(a)] = [d \in Descriptors |->
       IF d \in DOMAIN changed THEN changed[d] ELSE @[d]]]
  /\ UNCHANGED <<config, status, buffer, pipe, output, sem>>

CreatePipe(a) ==
  /\ At(a, "pipe")
  /\ LET p == Call(a).name
     IN  Opened(a, [d \in {ReadEnd[p], WriteEnd[p]} |-> d])
  /\ UNCHANGED <<text, offset, faults>>

\* O_TRUNC empties the file; the new descriptor has an offset of its own.
OpenFile(a) ==
  /\ At(a, "open")
  /\ \/ /\ Opened(a, [d \in {"file"} |-> a])
        /\ text' = <<>> /\ offset' = [offset EXCEPT ![a] = 0]
        /\ UNCHANGED faults
     \/ /\ Opened(a, <<>>)
        /\ faults' = faults \union {a} /\ UNCHANGED <<text, offset>>

CloseDescriptor(a) ==
  /\ At(a, "close")
  /\ Opened(a, [d \in {Call(a).fd} |-> "closed"])
  /\ UNCHANGED <<text, offset, faults>>

Duplicate(a) ==
  /\ At(a, "dup2")
  /\ Opened(a, [d \in {Call(a).to} |-> My(a, Call(a).from)])
  /\ UNCHANGED <<text, offset, faults>>

\* stdio writes a line at once to a terminal and keeps it for anything else.
\* A string without an end is printed with what follows it in memory.
PrintLine(a) ==
  /\ At(a, "print") /\ Done(a)
  /\ \E v \in IF Call(a).ended THEN {value[a]} ELSE {value[a], Garbage} :
       LET line == <<Call(a).line, v>>
       IN  IF My(a, "stdout") = "terminal"
           THEN output' = Append(output, line) /\ UNCHANGED buffer
           ELSE buffer' = [buffer EXCEPT ![Process(a)] = Append(@, line)] /\ UNCHANGED output
  /\ UNCHANGED <<config, status, fds, pipe, text, offset, sem, faults>>

\* write to the terminal, or one byte to a pipe; a closed descriptor takes nothing.
WriteBytes(a) ==
  /\ At(a, "write") /\ My(a, Call(a).fd) \notin Actors
  /\ LET object == My(a, Call(a).fd)
         ended  == \E p \in Pipes : object = WriteEnd[p] /\ ~IsOpen(ReadEnd[p])
     IN  IF ended THEN Over(a, <<>>) /\ faults' = faults \union {a}  \* SIGPIPE
         ELSE /\ Done(a)
              /\ pipe' = [p \in Pipes |-> IF object = WriteEnd[p] THEN pipe[p] + 1 ELSE pipe[p]]
              /\ output' = IF object \in {"terminal", "redirected"}
                           THEN Append(output, <<Call(a).line, 0>>) ELSE output
              /\ UNCHANGED <<config, status, fds, buffer, text, offset, sem, faults>>

\* write at the offset that all copies of the descriptor share.
WriteFile(a) ==
  /\ At(a, "write") /\ My(a, Call(a).fd) \in Actors
  /\ Done(a)
  /\ LET o == My(a, Call(a).fd)
     IN  /\ text' = IF offset[o] < Len(text)
                    THEN [text EXCEPT ![offset[o] + 1] = Call(a).line]
                    ELSE Append(text, Call(a).line)
         /\ offset' = [offset EXCEPT ![o] = @ + 1]
  /\ UNCHANGED <<config, status, fds, buffer, pipe, output, sem, faults>>

\* read blocks on an empty pipe that somebody can still write to.
ReadPipe(a) ==
  /\ At(a, "read")
  /\ \E p \in Pipes : My(a, Call(a).fd) = ReadEnd[p] /\
       LET got == IF pipe[p] < Call(a).n THEN pipe[p] ELSE Call(a).n
       IN  /\ got > 0 \/ ~IsOpen(WriteEnd[p])
           /\ IF got < Call(a).n /\ Call(a).must THEN Fail(a)
              ELSE /\ Returns(a, value[a] + got)
                   /\ pipe' = [pipe EXCEPT ![p] = @ - got]
                   /\ UNCHANGED <<config, status, fds, buffer, files, sem, faults>>

-----------------------------------------------------------------------------
Step(a) ==
  \/ Exit(a) \/ ExecSucceeds(a) \/ ExecFails(a)
  \/ ForkProcess(a) \/ CreateThread(a) \/ CallFails(a) \/ WaitForChild(a)
  \/ SemPostCall(a) \/ SemWaitCall(a) \/ Compute(a)
  \/ CreatePipe(a) \/ OpenFile(a) \/ CloseDescriptor(a) \/ Duplicate(a)
  \/ PrintLine(a) \/ WriteBytes(a) \/ WriteFile(a) \/ ReadPipe(a)

AllOver == \A a \in Actors : status[a] # "running"

Exited == AllOver /\ UNCHANGED vars

Next == Exited \/ \E a \in Actors : Step(a) \/ Kill(a)

Spec == Init /\ [][Next]_vars

\* The scheduler runs every process and thread that can run; nobody has to be
\* killed and no call has to fail.
FairSpec == Spec /\ \A a \in Actors : WF_vars(Step(a))

-----------------------------------------------------------------------------
(* Properties *)

LineNames ==
  {"before fork", "calling fork", "parent x", "child x", "parent text", "child text", "hello",
   "goodbye", "x", "list", "parent", "child", "parent waited", "child waited", "before close",
   "wrote in", "test", "cost", "begin", "end", "before 1", "before 2", "after 1", "after 2"}
Lines == Seq(LineNames \X Int)

TypeOK ==
  /\ program \in Programs /\ tty \in BOOLEAN /\ iters \in Iters \union {0}
  /\ next \in [Actors -> Nat \ {0}]
  /\ status \in [Actors -> {"none", "running", "zombie", "reaped"}]
  /\ value \in [Actors -> Int]
  /\ fds \in [Actors -> [Descriptors -> Objects]]
  /\ buffer \in [Actors -> Lines] /\ output \in Lines
  /\ pipe \in [Pipes -> Nat]
  /\ text \in Seq(LineNames) /\ offset \in [Actors -> Nat]
  /\ sem \in [{"s1", "s2"} -> Nat]
  /\ faults \subseteq Actors

\* The ping-pong is what context_switch measures: there is never more than one
\* byte under way in the two pipes, and the child has answered every byte the
\* parent has sent but the last, so each round is two switches.
Lockstep ==
  program = "context_switch" =>
    /\ pipe["p"] + pipe["q"] <= 1
    /\ status["child"] \in {"running", "zombie"} => value["child"] - value["parent"] \in {0, 1}

\* A parent that waits leaves no child behind, neither running nor a zombie,
\* also when a child was killed.
Waiting == {"q3", "q5", "q6", "q7", "q8", "context_switch", "rendezvous"}

Reaped ==
  program \in Waiting /\ status["parent"] = "zombie" /\ "parent" \notin faults =>
    \A c \in Actors \ {"parent"} : status[c] \in {"none", "reaped"}

IInv == TypeOK /\ Lockstep /\ Reaped

\* Which line comes before which.
Order ==
  CASE program = "q1" -> {"calling fork"} \X {"parent x", "child x"}
    [] program \in {"q3", "q3_without_wait"} -> {<<"hello", "goodbye">>}
    [] program = "q5" -> {"child", "child waited"} \X {"parent waited"}
    [] program = "q6" -> {<<"child", "parent waited">>}
    [] program = "q7" /\ tty -> {<<"before close", "goodbye">>}
    [] program = "rendezvous" -> ({"before 1", "before 2"} \X {"after 1", "after 2"})
                                   \union ({"after 1", "after 2"} \X {"end"})
    [] program = "fork_join" -> {<<"child", "end">>}
    [] OTHER -> {}

\* What a child prints appears before what its parent prints once it has
\* waited, by wait, by reading a pipe or by a semaphore; both threads of the
\* rendezvous arrive before either goes on.  It holds on a terminal and in a
\* file, where a process's lines appear when it exits.
InOrder ==
  faults = {} => \A o \in Order : \A j \in DOMAIN output :
    output[j][1] = o[2] => \E k \in 1 .. j - 1 : output[k][1] = o[1]

Announced(v) == {<<"before fork", v>>, <<"calling fork", v>>}

\* The lines a program prints, with the number each process had then: memory
\* is copied, so x is 150 in the child and 110 in the parent; the child's wait
\* returns -1; the second child of q8 gets the first one's 28 bytes.
Expected ==
  CASE program = "q1" -> Announced(100) \union ({"parent x", "child x"} \X {100})
                           \union {<<"parent x", 110>>, <<"child x", 150>>}
    [] program = "q2" -> Announced(0)
    [] program = "q3" -> Announced(0) \union {<<"hello", 0>>, <<"goodbye", 2>>}
    [] program = "q3_without_wait" -> {"hello", "goodbye"} \X {0}
    [] program = "q4" -> {<<"list", 0>>} \intersect Range(output)
    [] program = "q5" -> ({"parent", "child"} \X {0})
                           \union {<<"child waited", -1>>, <<"parent waited", 2>>}
    [] program = "q6" -> ({"parent", "child"} \X {0}) \union {<<"parent waited", 2>>}
    [] program = "q7" -> Announced(0) \union {<<"goodbye", 2>>}
                           \union (IF tty THEN {<<"before close", 0>>} ELSE {})
    [] program = "q8" -> {<<"test", LineBytes>>, <<"test", Garbage>>} \intersect Range(output)
    [] program = "context_switch" -> IF iters > 0 THEN {<<"cost", Warmup + iters>>} ELSE {}
    [] program = "rendezvous" -> ({"begin", "before 1", "before 2", "after 1", "after 2"} \X {0})
                                   \union {<<"end", Pid("child2")>>}
    [] program = "fork_join" -> {"begin", "child", "end"} \X {0}

\* Nothing is lost and nothing comes twice but what stands in the buffer when
\* a process forks, which a file gets from both; a child that closes stdout
\* loses its copy with its own lines (q7).  Both messages of q2 are in the
\* file, whoever writes first.
Complete ==
  AllOver /\ faults = {} =>
    /\ Range(output) = Expected
    /\ \A line \in Expected : Cardinality({j \in DOMAIN output : output[j] = line}) =
         IF line[1] \in {"before fork", "calling fork"} /\ ~tty /\ program # "q7" THEN 2 ELSE 1
    /\ program = "q8" => output # <<>>
    /\ program = "q2" => Len(text) = 2 /\ Range(text) = {"parent text", "child text"}

\* What the programs print: every line in its place, and all of them.
Printed == InOrder /\ Complete

\* Every program ends, also when one of its processes is killed or cannot be
\* created: whoever waits is woken by an exit, or by the end of a pipe all of
\* whose other ends have been closed.
Termination == <>AllOver
=============================================================================
