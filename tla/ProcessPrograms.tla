---------------------------- MODULE ProcessPrograms ----------------------------
(***************************************************************************)
(* The programs whose processes or threads only wait for each other: the   *)
(* fork, wait, exec and pipe programs of chapter5, the ping-pong of        *)
(* chapter6/context_switch.c and the two-thread exercises of chapter31.    *)
(*                                                                         *)
(* A program is what each of its processes or threads does: a sequence of  *)
(* calls.  Processes interprets them.  Every process has one number that   *)
(* its calls read and write (x, the bytes read, or what wait returned);    *)
(* what is printed is a line's name and that number.                       *)
(***************************************************************************)
EXTENDS Integers, Sequences

CONSTANT Warmup     \* rounds before the measurement, WARMUP

ASSUME WarmupAssumption == Warmup \in Nat

Programs ==
  {"q1", "q2", "q3", "q3_without_wait", "q4", "q5", "q6", "q7", "q8"}
    \union {"context_switch", "rendezvous", "fork_join"}

\* Programs with threads; the others have processes.
Threaded == {"rendezvous", "fork_join"}

Actors == {"parent", "child", "child2"}

-----------------------------------------------------------------------------
(* The calls *)

Set(v)         == <<[op |-> "set", by |-> v, keep |-> 0]>>
Add(v)         == <<[op |-> "set", by |-> v, keep |-> 1]>>
Printf(line)    == <<[op |-> "print", line |-> line, ended |-> TRUE]>>
PrintfRaw(line) == <<[op |-> "print", line |-> line, ended |-> FALSE]>>
Pipe(name)     == <<[op |-> "pipe", name |-> name]>>
Open(fd)       == <<[op |-> "open", fd |-> fd]>>
Close(fd)      == <<[op |-> "close", fd |-> fd]>>
Dup2(from, to) == <<[op |-> "dup2", from |-> from, to |-> to]>>
Write(fd, line) == <<[op |-> "write", fd |-> fd, line |-> line]>>
\* must: a short read ends the process.
Read(fd, n)     == <<[op |-> "read", fd |-> fd, n |-> n, must |-> FALSE]>>
ReadAll(fd, n)  == <<[op |-> "read", fd |-> fd, n |-> n, must |-> TRUE]>>
Fork(child)     == <<[op |-> "fork", child |-> child]>>
Wait(children)  == <<[op |-> "wait", children |-> children]>>
Exec            == <<[op |-> "exec"]>>
Return          == <<[op |-> "exit", flush |-> TRUE]>>
ExitNow         == <<[op |-> "exit", flush |-> FALSE]>>    \* _exit
Create(thread)  == <<[op |-> "create", child |-> thread]>>
Join(thread)    == <<[op |-> "wait", children |-> {thread}]>>
Post(s)         == <<[op |-> "post", sem |-> s]>>
Await(s)        == <<[op |-> "await", sem |-> s]>>

\* A loop of that many rounds.
Times(rounds, calls) ==
  [j \in 1 .. rounds * Len(calls) |-> calls[((j - 1) % Len(calls)) + 1]]

\* What the actors of a program do; <<>> for one that the program has not.
Code(parent, child, child2) ==
  [a \in Actors |-> CASE a = "parent" -> parent [] a = "child" -> child [] OTHER -> child2]

Anyone == Actors

-----------------------------------------------------------------------------
(* chapter5 *)

BeforeFork == Printf("before fork") \o Printf("calling fork")

q1 == Code(
  Set(100) \o BeforeFork \o Fork("child")
    \o Printf("parent x") \o Add(10) \o Printf("parent x") \o Return,
  Printf("child x") \o Add(50) \o Printf("child x") \o Return,
  <<>>)

\* Slip: each process opens the file for itself.
q2_open_twice == Code(
  BeforeFork \o Fork("child") \o Open("file") \o Write("file", "parent text") \o Return,
  Open("file") \o Write("file", "child text") \o Return,
  <<>>)

q2 == Code(
  Open("file") \o BeforeFork \o Fork("child") \o Write("file", "parent text") \o Return,
  Write("file", "child text") \o Return,
  <<>>)

q3 == Code(
  BeforeFork \o Fork("child") \o Wait(Anyone) \o Printf("goodbye") \o Return,
  Printf("hello") \o Return,
  <<>>)

\* Slip: the parent keeps the end it does not use.
q3_without_wait_end_kept == Code(
  Pipe("p") \o Fork("child") \o Read("p[0]", 1) \o Close("p[0]")
    \o Write("stdout", "goodbye") \o Return,
  Write("stdout", "hello") \o Close("p[0]") \o Write("p[1]", "x") \o Close("p[1]") \o ExitNow,
  <<>>)

q3_without_wait == Code(
  Pipe("p") \o Fork("child") \o Close("p[1]") \o Read("p[0]", 1) \o Close("p[0]")
    \o Write("stdout", "goodbye") \o Return,
  Write("stdout", "hello") \o Close("p[0]") \o Write("p[1]", "x") \o Close("p[1]") \o ExitNow,
  <<>>)

\* Six variants of exec; whichever works first is the last call made.
q4 == Code(Fork("child") \o Return, Times(6, Exec) \o Return, <<>>)

q5 == Code(
  Fork("child") \o Printf("parent") \o Wait(Anyone) \o Printf("parent waited") \o Return,
  Printf("child") \o Wait(Anyone) \o Printf("child waited") \o Return,
  <<>>)

q6 == Code(
  Fork("child") \o Printf("parent") \o Wait({"child"}) \o Printf("parent waited") \o Return,
  Printf("child") \o Return,
  <<>>)

q7 == Code(
  BeforeFork \o Fork("child") \o Wait(Anyone) \o Printf("goodbye") \o Return,
  Printf("before close") \o Close("stdout") \o Printf("hello") \o Return,
  <<>>)

\* The calls behind the last if of q8.c; second says whom pid2 is.
q8_end(second) == Close("p[0]") \o Close("p[1]") \o Wait({"child"}) \o Wait(second) \o Return

len1 == 15      \* "child1 process "
len2 == 13      \* "wrote in....\n"

\* The second child goes on, behind its if, with the parent's last calls; its
\* pid2 is 0, which asks waitpid for any child.
q8 == Code(
  Pipe("p") \o Fork("child") \o Fork("child2") \o q8_end({"child2"}),
  Close("p[0]") \o Dup2("p[1]", "stdout") \o Close("p[1]") \o Printf("wrote in") \o Return,
  Close("p[1]") \o Dup2("p[0]", "stdin") \o Read("stdin", len1) \o Read("p[0]", len2)
    \o PrintfRaw("test") \o q8_end(Anyone))

-----------------------------------------------------------------------------
(* chapter6/context_switch.c; p is p2c and q is c2p *)

\* Slip: the child answers before it has been asked.
context_switch_swapped(iters) ==
  LET rounds == Warmup + iters
  IN  IF iters <= 0 THEN Code(Return, <<>>, <<>>) ELSE Code(
        Pipe("p") \o Pipe("q") \o Fork("child") \o Close("p[0]") \o Close("q[1]")
          \o Times(rounds, Write("p[1]", "x") \o ReadAll("q[0]", 1))
          \o Printf("cost") \o Wait({"child"}) \o Return,
        Close("p[1]") \o Close("q[0]")
          \o Times(rounds, Write("q[1]", "x") \o ReadAll("p[0]", 1)) \o ExitNow,
        <<>>)

context_switch(iters) ==
  LET rounds == Warmup + iters
  IN  IF iters <= 0 THEN Code(Return, <<>>, <<>>) ELSE Code(
        Pipe("p") \o Pipe("q") \o Fork("child") \o Close("p[0]") \o Close("q[1]")
          \o Times(rounds, Write("p[1]", "x") \o ReadAll("q[0]", 1))
          \o Printf("cost") \o Wait({"child"}) \o Return,
        Close("p[1]") \o Close("q[0]")
          \o Times(rounds, ReadAll("p[0]", 1) \o Write("q[1]", "x")) \o ExitNow,
        <<>>)

-----------------------------------------------------------------------------
(* chapter31/rendezvous.c and chapter31/fork-join.c *)

rendezvous == Code(
  Printf("begin") \o Create("child") \o Create("child2")
    \o Join("child") \o Join("child2") \o Printf("end") \o Return,
  Printf("before 1") \o Post("s2") \o Await("s1") \o Printf("after 1") \o Return,
  Printf("before 2") \o Post("s1") \o Await("s2") \o Printf("after 2") \o Return)

fork_join == Code(
  Printf("begin") \o Create("child") \o Await("s1") \o Printf("end") \o Return,
  Printf("child") \o Post("s1") \o Return,
  <<>>)

CodeOf(program, iters) ==
  CASE program = "q1" -> q1
    [] program = "q2" -> q2
    [] program = "q3" -> q3
    [] program = "q3_without_wait" -> q3_without_wait
    [] program = "q4" -> q4
    [] program = "q5" -> q5
    [] program = "q6" -> q6
    [] program = "q7" -> q7
    [] program = "q8" -> q8
    [] program = "context_switch" -> context_switch(iters)
    [] program = "rendezvous" -> rendezvous
    [] program = "fork_join" -> fork_join
=============================================================================
