# Verification of the operating-systems exercises

The repository is a set of operating-systems exercises, one directory per chapter. Its own
logic is in the threaded programs (the locks, barrier and counters of chapter31, chapter32 and
chapter29, and the lists and hash tables built on them), in the programs of chapter5 and
chapter6 whose processes wait for each other, and in the arrays and lists of chapter14. This
directory models those programs in TLA+, checks the models with TLC on small instances, and
proves with TLAPS, for every number of threads and every size, the safety properties that TLC
checks of the locks, the barrier, the counters, the vectors, the lists and the hash tables of
chapters 29, 31 and 32, of the arrays and lists of chapter14, and, but for what they print, of the
programs of chapters 5 and 6.

## 1. The system

| component | state it keeps | operations | what is hard | what makes it correct |
|---|---|---|---|---|
| `chapter31/mutex-nostarve.c` | semaphores `state`, `gate`; `waiters`, `locked`; a shared integer | acquire, release | a release hands the lock to a sleeper that has not yet run ("passing the baton") while others arrive | mutual exclusion; nobody slips in before a queued thread; no lost wake-up; no starvation |
| `chapter31/reader-writer.c` | semaphores `lock`, `writelock`; `readers`; `value` | acquire and release, for reading and for writing | the first reader blocks while it holds `lock`; the last reader posts what another one took | readers together or one writer alone; no lost increment; everybody finishes |
| `chapter31/reader-writer-nostarve.c` | semaphores `rw`, `mutex`, `w`; `readers`; `value` | the same | a writer keeps the turnstile `w` while readers drain; three semaphores are held at once | the same, and writers get in although readers keep coming |
| `chapter31/barrier.c` | semaphores `mutex`, `barrier`; `n`, `count` | barrier | children wake and run while the last one still posts | "before" of all precedes "after" of any; nobody is left behind; the barrier is left clean |
| `chapter32` (five programs, one harness) | two vectors, or two per thread, each with a lock; `global`, `print_lock`; `retry` | vector_add, print_info | locks taken in both orders, trylock and back-out, a global lock, an atomic add without locks | no circular wait but where `-d` asks for it; every addition of whole vectors is atomic; none is lost |
| `chapter29-2.c` | `value` and its mutex | increment, get | load and store of the value | the total checked at the end |
| `chapter29-3.c` | `global`, `glock`; `local[]`, `llock[]`; `threshold` | counter_update, counter_flush | increments are in two places between the transfer and the reset | no increment is lost or counted twice; the lag of `global` is bounded; the total after the flush |
| `chapter29-4.c`, hand over hand | a linked list with a mutex in each node | lookup, insert, delete | locks are coupled along the list; nodes are freed and reused while others search | sorted chain between the sentinels; nobody follows a freed pointer; every call is atomic; nobody blocks for ever |
| `chapter29-4.c`, global lock | a list and one mutex | lookup, insert, delete | early returns that unlock | every call is atomic |
| `chapter29-5.c` | a hash table and one mutex | Hash_Insert, Hash_Delete, Hash_Update | an update is two critical sections | every insert and delete is atomic; the chains stay well formed |
| `chapter29-6.c` | a hash table and a mutex for each bucket | Hash_Update | the lock is kept across a failed insertion | the whole toggle is atomic |
| `rendezvous.c`, `fork-join.c` | semaphores `s1`, `s2` | the two threads and main | each thread posts for the other before it waits | both arrive before either goes on; main comes last |
| `chapter5/chapter5_q1.c` .. `q8.c` | processes, descriptors, pipes, the buffer of stdout, a file | fork, wait, exec, pipe, dup2, close, read, write, printf, exit | fork copies memory, buffer and descriptors; a pipe ends only when every copy of its other side is closed; calls fail, processes die | output in order and complete, on a terminal and in a file; children are reaped; everything ends |
| `chapter6/context_switch.c` | two pipes, two loops | the ping-pong | one call out of step, or a peer that dies | one byte under way at most; both ends stop |
| `chapter14/vector_int.c`, `vector_struct.c` | a growable array; a list with head, tail and size; the heap | create, push (two ways), get, free; the benchmarks; count_reallocs | realloc moves or fails; a size in bytes may wrap; the list is freed while it is followed | both are append-only sequences; nothing leaks; nothing freed is used |
| `common_threads.h` (two copies) | - | Sem_*, Pthread_* | an unspecified order of the threads that wait | - |

The threads of a program interact through shared memory only: `main` creates them, in some
programs meets them at a `pthread_barrier`, joins them, and prints or checks a result. The
processes of chapter5 and chapter6 interact through pipes, wait, and the files they share. The
data structures of one program are not used by another; what they share is `common_threads.h`,
and in chapter32 the harness `main-common.c`, which is included by each of the five programs.

Not modelled, with the reason, are:

* the memory-error demonstrations of chapter14: straight-line programs with one undefined
  operation each, and no behaviour beyond it;
* `chapter6/system_call.c`, `chapter13/memory-user.c` and `chapter19/tlb.c`: loops that end at a
  count or a time on the clock and whose only result is a duration. (`num_pages * PAGESIZE` in
  `tlb.c` is a product of ints and overflows from 524288 pages on; its script stops at 2048.)
* the paging simulator of chapter18, which comes with the textbook, and the scripts and plots of
  chapters 15, 18 and 19.

## 2. The modules

    CommonThreads          semaphores and mutexes of the wrappers
    NsMutex                mutex-nostarve.c                    NsMutexProofs
    RWLock                 abstract: what a reader-writer lock promises
    RWClient               the readers, writers and main both lock programs share
    ReaderWriter           RWClient + the lock of reader-writer.c            ReaderWriterLocksProofs
    ReaderWriterNoStarve   RWClient + the lock of reader-writer-nostarve.c   ReaderWriterLocksProofs
    BarrierState           the state of barrier.c and the predicates on it
    Barrier                BarrierState + the steps of barrier.c             BarrierAndProcessesProofs
    VectorAdd              main-common.c with the five vector_add functions  VectorAddProofs
    SetObject              abstract: a set whose calls take effect in one step
    HandOverHandList       list_hoh of chapter29-4.c           HandOverHandProofs
    LockedChains           list_global of chapter29-4.c, chapter29-5.c, chapter29-6.c
                                                               LockedChainsProofs
    Counters               chapter29-2.c and chapter29-3.c     CountersProofs
    AppendObject           abstract: a sequence that grows at its end
    VectorsAndLists        vector_int.c and vector_struct.c of chapter14     VectorsAndListsProofs
    ProcessPrograms        what the processes and threads of chapter5, context_switch.c,
                           rendezvous.c and fork-join.c do
    Processes              the processes, pipes, files and semaphores that run them
                                                               BarrierAndProcessesProofs
    MC<module>             the module as TLC runs it, with the instances of the .cfg files

Conventions, the same in all modules:

* `pc[t]` is where thread `t` is: `"new"` before it is created, `"done"` after it has returned.
  `Go(t, from, to)` moves it. `main` is `"run"` until all joins have returned and `"exit"` at the
  end. `Create` and `Join` are main's calls; `Exited` is the program that is over.
* One step is one operation on a semaphore or a mutex, with the local work that follows it, or
  one access to data that other threads may touch. What a lock protects is read and written in
  the step of the operation next to it; what the lock is there to protect for its *users* (the
  shared integer, the vectors, the counts) is always a separate load and store, so that a lock
  that does not work is seen.
* Fields and functions keep the names of the code. Each action says in a comment which
  statement it stands for when its name does not, and `PROJECT.json` gives the lines.
* "Slips" are variants of an action with a mistake a maintainer could make. No specification
  uses them; each property is shown to fail when one of them replaces the action.

Where several programs share a harness, one module models them all and a variable that never
changes, `program`, says which one runs: the runs then cover all of them, with all switches.

**NsMutex.** The control points of a worker are those of `ns_mutex_acquire` (`acquire`, `decide`,
`sleep`, `woken`, `finalize`), the critical section (`load`, `store`) and `ns_mutex_release`
(`release`, `handoff`, `unlock`). `TakeFree` is the fast path, `Queue` to `Finalize` the slow one,
`PassBaton` and `FreeLock` the two branches of the release. `locked--; locked = 1` happens under
`state` and is one assignment.

**ReaderWriter, ReaderWriterNoStarve.** `FirstReader` counts the reader and then `BlockWriters`
waits on the writers' semaphore with the other semaphores still held, as in the code. `value++`
is a load and a store, the `printf` a second load.

**BarrierState, Barrier.** The loop of posts is one step per post, with the local variable `i`.
The predicates stand in a module of their own, below the steps, so that the proofs can name them
next to those of `Processes`, whose actions have names of the same calls (`Post`, `Create`, `Join`).

**VectorAdd.** Vectors are numbered by address, so `First` compares numbers where the code
compares pointers. `LockFirst` of `try-wait` stands for the spinning trylock that in the end
succeeds. `Load` and `Store` handle one element. `fetch_and_add` is one atomic step (`Sum` reads
the destination when it stores) whose operand was loaded before.

**HandOverHandList.** The heap is a pool of nodes: `InsertLink` takes any node that is not
allocated, also one that was just freed, and `InsertNoMemory` is a failing allocation.
Following a pointer, locking, unlocking and freeing are separate steps. Prefilling is any set of
keys, as `fill_initial_hoh` produces from random numbers.

**LockedChains.** A chain is the sequence of its keys. Search and change of a chain are separate
steps, so that an update without the lock is caught. `HoldsOn` tells the toggle of
`chapter29-6.c`, which keeps its lock, from that of `chapter29-5.c`, which is two calls.

**Counters.** A slot of the approximate counter is used by one thread at a time; its lock and
unlock are steps because `main` uses the slots too. When main reads or flushes, all threads
have been joined, so there a lock, the access and the unlock are one step. The totals the
programs reach are at most 4,000,000 and do not overflow an int, which is why these counts have
no width.
Threads are assumed to be created: `chapter29-2.c` exits when one is not, and `chapter29-3.c:106`
ignores it, so that everybody then blocks at the start barrier.

**VectorsAndLists.** The benchmark is the client: `driver` is the function `main` has reached, and
each call of push, get and free is a step, and so is each turn of the loop in `list_free`. The
heap is a pool of blocks; `PushRealloc(b)` may keep the block or move to any free one,
`PushRefused` and `ListRefused` are failing allocations, whose result the benchmarks ignore. A
size in bytes is reduced modulo the width of `size_t` before it is asked for. An element is the
number it was made from; a `DataItem` has nothing else that is ever changed. `Turn` is one
turn of the loops of `count_reallocs`, `Counted` what they have counted after so many, and the
four counts are what it returns.

**ProcessPrograms, Processes.** A program is a sequence of calls for each process or thread, read
off its source line by line, with the loops of `context_switch.c` unrolled; a child starts
behind the fork. `Processes` has one action per kind of call. It is a model of the part of Unix
these programs use, and no source of the repository; the map marks it external. What matters in it: a fork copies
the descriptors, the number the program computes with and the buffer of stdout; a read blocks
while the pipe is empty and anybody, the reader included, has the other end open, and returns
nothing after that; a write to a pipe without readers is deadly; a terminal gets each line at
once, anything else at exit; `_exit`, exec and a signal lose the buffer; descriptors copied by
fork share one offset in a file. The second child of `q8.c` reads into an uninitialised array and prints it
as a string without a terminator: the number printed is then the 28 bytes or `Garbage`. It has no
exit of its own and goes on with the last calls of its parent, where closing twice and waiting
for processes that are not its children fail without harm.

## 3. What TLC checks

Deadlock is checked in every run but `vector_add`, where `vector-deadlock -d` really stops, and
`hand_over_hand_max`, where a thread that follows the tail's null pointer takes no further step.

| run | instance | shows |
|---|---|---|
| `ns_mutex` | 3 workers, 2 rounds or for ever | `IInv`, `MutualExclusion`, `ExpectedTotal`, `NoBarging`, `Termination`, `NoStarvationIfServed` |
| `ns_mutex_starvation` | 3 workers for ever, weak fairness | `NoStarvation` fails (section 6) |
| `reader_writer` | 2 readers, 2 writers, 2 rounds | `Occupancy`, `ExpectedValue`, `ImplementsLock`, `Termination` |
| `reader_writer_nostarve` | 2 readers, 2 writers, 1 round or for ever, strong fairness | `IInv`, `ImplementsLock`, `NoOvertaking`, `Termination`, `WriterProgress` |
| `barrier` | 4 children | `BarrierInv`, `BeforeAfter`, `Restored`, `Termination` |
| `vector_add` | 3 threads, 1 addition, 2 elements, 5 programs, 8 settings of the switches | `IInv`, `DeadlockOnlyOnRequest`, `Serialized`, `NothingLost`, `Termination` |
| `hand_over_hand` | 3 threads, 1 call, keys 1..2, 5 nodes, every prefilled list | `IInv` (with `NoUseAfterFree` and `Sorted`), `ImplementsSet`, `Termination` |
| `hand_over_hand_max` | 2 threads, 2 calls, INT_MAX among the keys | `Sentinels` fails (section 6) |
| `locked_chains` | 2 threads, 2 operations, keys 1..3, 2 buckets, 3 programs | `IInv`, `ImplementsSet`, `Termination` |
| `counters` | 3 threads, 3 increments, thresholds 1, 2, 4, 2 programs | `IInv`, `Conservation`, `Approximation`, `FinalTotal`, `Termination` |
| `vectors_and_lists` | 1, 3 or 5 elements, 6 blocks, one access to each structure, both programs | `IInv`, `ImplementsSequences` |
| `processes` | 12 programs, terminal or file, 1 round to warm up and 0, 1 or 3 measured, any process killed | `IInv`, `Printed`, `Termination` |

The bounds, and why they are enough for the cases that matter:

* Three workers are the fewest with which a thread can be passed over while two others hand the
  mutex back and forth; two rounds let a thread come back while it is still being handed over.
* Two readers are enough for one to join, for either to be the last, and to keep a reader inside
  at every moment; two writers compete with each other as well as with the readers.
* With four children the last one posts three times, so children it wakes overtake it and each
  other.
* Three threads of `vector_add -d` are two in one direction and one against them. Two elements
  are the fewest that can disagree, which is what an addition that is not atomic leaves behind.
* In the lock-coupled list, three threads put one on a node, one behind it, and one that unlinks
  it; five nodes leave one spare beside two keys and two sentinels, so the allocator soon hands
  out a node that was freed.
* Three keys over two buckets put two keys in one bucket and keep the other one busy.
* Three increments are a multiple of threshold 1, are not one of 2, and never reach 4, so slots
  are empty or not when main flushes them.
* Five elements make the doubling array grow four times; the largest block holds eight elements
  of one program and five of the other, so the last doubling of the other is always refused. Six
  blocks hold the five nodes of a list and the array beside it. Blocks are interchangeable, so the
  run uses symmetry.
* The programs of `processes` are finite; one warm-up and three measured rounds of the ping-pong
  repeat the only cycle there is. `MaxKills` allows every process to be killed.
* `IntRange` stands for 2^32; in `ns_mutex`, whose workers make two rounds or go on for ever, it is 4:
  the total of the bounded behaviours goes once round it and the endless ones stay finite. It is
  1 in `ns_mutex_starvation`, where only the control matters, and in the other runs larger than
  any total that is compared. `RetryBound` caps the count of retries, which nothing reads but the
  final print. `SizeRange` is the width of `size_t`, `MaxAlloc` the largest block; as in C, twice the
  second is less than the first. `Loops`, `Ops` and `Iters` are the programs' own loop bounds;
  `Forever` is a bound that is never reached.

`IInv` (`BarrierInv` of the barrier) in each module is its type invariant together with who owns which lock and what the
owner may rely on. In the modules of section 5 it is the invariant that is proved inductive, or
follows from it, so the runs also test what the proofs rest on. `reader_writer` checks `Occupancy`
instead, which says the same of the counts and of who is inside without naming the semaphores:
both locks have different semaphores and the same `Occupancy`, which stands with their client in
`RWClient`. The other properties are stated, with the behaviour they are about, above their
definitions.

`ImplementsLock` and `ImplementsSet` are refinements. For the reader-writer locks, `reading` and
`writing` are the threads between the return of acquire and the start of release, and every step
of the program is a step of `RWLock` or changes neither. For the lists and tables, `members` are
the keys of the nodes that nobody has unlinked, and `status` is the call each thread is in; the
answer is given in the step that decides the call, so every call takes effect at one moment
between its start and its end. `chapter29-5.c` implements the set with its insert and delete
calls, not with its update: between the two halves another thread may take the key. The update
of `chapter29-6.c` is itself one atomic call. `ImplementsSequences` says that the array and the list
of chapter14 are both an `AppendObject`; its items are the first `size` elements of the array's
block, and the elements of the nodes reached from `head`, up to the moment `list_free` begins.

## 4. Fairness

`FairSpec` is weak fairness of each thread's steps and of main's: the operating system runs
every thread that can run. The loops are bounded and each lock is released by a thread that can
run, so `Termination` needs no more in the programs that end. (A thread waiting for a lock can be
overtaken, but only as often as the others have rounds left.)

Strong fairness adds that a thread that waits for a semaphore which is posted again and again
gets it in the end. POSIX does not promise that; it is assumed only where the question is about
threads that compete for ever: in the specification of `reader_writer_nostarve`, and as the
hypothesis `SemaphoresServe` of `NoStarvationIfServed` in `ns_mutex`. The counterexample of
`ns_mutex_starvation` is what happens without it.

`Termination` of `vector_add` leaves out `vector-deadlock` with opposed threads. Opposed threads of
`vector-try-wait` may back out for ever; what is checked is that nothing else keeps them from the
end. In `processes` nobody has to be killed and no call has to fail, but everything ends also
when that happens.

## 5. What TLAPS proves

The proofs are for any finite sets of threads, any loop counts, thresholds, numbers of keys,
buckets and nodes, vectors and elements of any size, any pool of memory, any width of int, any
number of rounds of the ping-pong and any number of processes killed. They use the `ASSUME`s of the
modules, which TLC evaluates on the instances of the runs, and one hypothesis, stated in the
theorems about the lock-coupled list.

| theorem | statement |
|---|---|
| `NsMutexProofs!Invariance`, `Exclusion`, `Handover`, `NothingLost` | `Spec` implies `[]IInv`, `[]MutualExclusion`, `NoBarging`, `[]ExpectedTotal` |
| `ReaderWriterLocksProofs!PlainInvariance`, `PlainOccupancy`, `PlainRefinement`, `PlainNoWriteLost` | `Spec` of `ReaderWriter` implies its `[]IInv`, `[]Occupancy`, `ImplementsLock`, `[]ExpectedValue` |
| `ReaderWriterLocksProofs!Invariance`, `OneSideInside`, `Refinement`, `Turnstile`, `NoWriteLost` | `Spec` of `ReaderWriterNoStarve` implies `[]IInv`, `[]Occupancy`, `ImplementsLock`, `NoOvertaking`, `[]ExpectedValue` |
| `BarrierAndProcessesProofs!BarrierInvariance`, `BarrierOrdering`, `BarrierRestoration` | `Spec` of `Barrier` implies `[]BarrierInv`, `[]BeforeAfter`, `[]Restored` |
| `BarrierAndProcessesProofs!ProcessesInvariance` | `Spec` of `Processes` implies `[]IInv`: `TypeOK`, `Lockstep` and `Reaped` |
| `VectorAddProofs!Invariance`, `NoDeadlock`, `SumInvariance`, `NoneLost`, `WholeVectors` | `Spec` implies `[]IInv`, `[]DeadlockOnlyOnRequest`, `[]SumInv`, `[]NothingLost`, `[]Serialized` |
| `CountersProofs!Invariance`, `Conserved`, `Approximates`, `TotalIsExact` | `Spec` implies `[]IInv`, `[]Conservation`, `[]Approximation`, `[]FinalTotal` |
| `LockedChainsProofs!Invariance`, `Refinement` | `Spec` implies `[]IInv`, `ImplementsSet` |
| `VectorsAndListsProofs!Invariance`, `Refinement` | `Spec` implies `[]IInv`, `ImplementsSequences` |
| `HandOverHandProofs!Invariance`, `Refinement`, `Reclamation`, `SentinelsStay` | if `KeySpace < INT_MAX`, `Spec` implies `[]IInv`, `ImplementsSet`, `[]NoUseAfterFree`, `[]Sentinels` |

The argument in each case:

* *Baton mutex.* Mutual exclusion is not inductive: it does not say why a thread that wakes from
  `gate` is alone. `OneBaton` does: the lock is with an owner, or with a thread that has taken
  the token of `gate` but not finalised, or in the token, and in at most one of these; and it is
  free only if in none. `StateIsLock` makes the fields stable while a thread looks at them, and
  `TypeOK` says that `waiters` is the number of threads queued, which is why a release that
  leaves `locked` at 1 has somebody to hand it to. These are the inductive part (`LockInv`).
  `Tally` says that `shared` is the size of a set with one pair for each increment stored; a store
  adds one pair and, because `Fresh` says that what it stores is the value it has read plus one,
  one to `shared`. When all are done the set is `Workers \X (1 .. iters)`.
* *Reader-writer locks.* `readers` is the number of readers counted in, `lock` (or `mutex` and the
  turnstile) is held by the thread that is between its wait and its post, and `writelock` (or
  `rw`) is taken by all the readers behind the first one, or by one writer. A reader that finds
  itself second relies on the first one having got through: while the first waits it keeps the
  lock that the second would need, which is `LockIsLock`'s last part. The refinement follows:
  a step that lets somebody in starts in a state with the other side empty. The increments are
  counted as for the mutex.
* *Barrier.* Until all children are counted, the barrier has no token and those counted sleep.
  The child that makes `count` equal to `n` is the last one, because `count` is the number of
  children counted; this needs the cardinality of a subset, and so the assumption that the set
  of children is finite. From then on (`Tokens`) the tokens there are and the tokens the posting
  child has still to give are together as many as the sleepers, so that nobody is left without
  one and none is left over.
* *Vector addition.* A thread holds a lock exactly where its point says so (`Owners`). A circle of
  waiting threads is excluded by what a waiting thread can hold: the global lock excludes a second
  thread with vectors in its hands, `-p` gives every thread vectors of its own, and without `-d`
  or with the locks in the order of addresses all take vector 0 first. What is left are two
  threads of `deadlock` in opposite directions (`CrossedLocks`). For the sums, `SumInv` relates
  each element to the set of calls that have stored it, and says that a vector in the middle of an
  addition is even ahead of and behind the index of the one thread that is adding; so even a source
  that was the destination of another call is added as a whole. Where nothing is locked, both hold
  if no thread writes what another one reads.
* *Counters.* `Conservation` sums over the threads. The sums of the model are folds, which the
  provers cannot expand; `SumOver` is the same sum (`FoldIsSum`) given by a running sum over all
  subsets, whose existence is proved by smallest counterexample over the naturals, and for which
  `SumOne` (one term changes), `SumMono` (smaller terms) and `SumConst` (equal terms) are proved.
  With them, a step of a thread changes its own two terms and `global` by amounts that balance.
  `Approximation` then is that no slot holds more than its `Lag`, and `FinalTotal` that the slots
  main has passed are empty (`Flushed`).
* *Coarse locks.* A chain that somebody has begun to search does not change until that thread
  unlocks it, because the thread holds the lock of the bucket (`Owners`); so what it has found is
  still true when it links or unlinks, a key is inserted only where it is not, and the answer it
  gives is that of the abstract set at the moment of the change.
* *Hand over hand.* The inductive part is `Core`: `TypeOK`, `Owners`, `Coupled`, `Pointers`,
  `Sentinels` and `Sorted`. The chain is stated without recursion: the next of a node is the node
  with the next larger key, and every node but the head is the next of one (`Chained`, which
  `AllReached` derives, by taking the smallest key that is not reached). Two nodes
  with the same next are one node (`OnePredecessor`), so a thread that holds the predecessor is
  the only one that can reach or unlink the node behind it. That gives `NoUseAfterFree`: the node
  a thread has unlinked is in no other thread's hands, since they would have had to hold the node
  before it. A search that stops between two adjacent nodes proves that the key is in no other
  place (`Search`), which is the step of the refinement in which the answer is given.
* *Vectors and lists.* A vector's capacity only stays true to its block if the size asked for does
  not wrap; `Fits`, that the present array is a block that could be allocated, makes twice its size
  smaller than 2^64 (`Sized`, `Asked`). `Lifetimes` says where in a benchmark each structure
  exists, which keeps `ListPush` away from the free that is under way and makes the two never
  share a block. The list is stated without recursion: `Listing` says that there is a sequence of
  different nodes, each the next of the one before it, that are all of the heap but the array, and
  whose first, last and length are `head`, `tail` and `size`; while `list_free` runs, it is what is
  left from `current` on. A push adds to this sequence at its end, a turn of the free takes its
  first, and every other step leaves it as it is. `ListShape` and `NoLeak` speak of `Chain`, a
  function defined by recursion; that it is this sequence and then NULL (`TheChain`, `Reach`) is
  shown by smallest counterexample: the positions where the two differ are a set of naturals
  without a smallest member. That the chain has as many nodes as it has turns to find them is
  the only use of the assumption that the pool of blocks is finite. `Counting` says that the
  vector and its counters are where the loops of `count_reallocs` are after as many turns as
  there were pushes; `Counted` is the value of those loops for the same reason as `Chain`
  (`TheCount`). For the refinement, a step either adds the new element at the end of the items, or
  leaves them alone: realloc keeps the elements in front (`Moved`), and a get returns the item
  whose position it was asked for.
* *Processes.* All twelve programs share one set of actions, so the proof first says once what their
  codes are like (`Formed`: a code ends with its only exit, only the parent starts others and it
  never execs) and shows it of each (`AllFormed`); the codes are put together from lemmas about
  what may follow what, because they are sequences of twenty calls, and for `context_switch.c` of
  any length. With it, a process that runs is inside its code (`InCode`), which is what types its
  steps. For `Reaped`, a parent has for each child it has started, and not reaped, a wait ahead of
  it that can return for no other child (`Owed`); it holds when the child is started because the
  code has such a wait behind each fork (`Awaited`), and a wait that is passed has reaped its child.
  At its exit no wait is ahead, so no child is left; unless it fails, it ends only there
  (`EndedWell`). For `Lockstep`, the places in the two loops are numbers: the parent at call `k` has
  read `v` answers and sent `s` bytes (`Asking`), the child has read `u` and sent `t` (`Answering`),
  and what was sent is what the other has read and what is in the pipe (`Playing`). That alone
  bounds the bytes under way (`PlayBounds`) and is kept by each call, as long as the descriptors in
  use are the ends they are named for, and open (`SwitchEnds`, `SwitchOpen`). A process that ends,
  however it ends, leaves the counts as they are (`HaltsKeep`), and once the parent has waited
  nothing is sent any more (`Played`).

`KeySpace < INT_MAX` says that no worker draws the key of the tail sentinel. It is what the
comment on the list assumes ("sentinel head(INT_MIN) and tail(INT_MAX)") and holds for every
`--keys` but one; the run `hand_over_hand_max` shows that without it the list loses its tail, so
the theorems would be false (section 6). It is a hypothesis of these theorems and not an
assumption of the module, which also has to be run without it.

Only model-checked are:

* all liveness properties, in all modules: TLAPS does not reason about fairness and ENABLED;
* `Printed` of `Processes`: what the programs print is a finite question, whose only parameter is
  the number of rounds of `context_switch.c`, and that program prints one line. With `MaxKills` as
  large as the number of processes, the run covers every behaviour of the other eleven programs,
  so a proof of what they print would be the enumeration that TLC does.

## 6. Where the code differs from what is said about it

* `chapter31/mutex-nostarve.c:9-10` asks "How can you show that a thread does not starve when
  attempting to acquire this mutex you build?". Threads queue on one semaphore, and nothing says
  which sleeper a post wakes. `ns_mutex_starvation` finds a behaviour in which two workers hand
  the lock to each other for ever and a third one sleeps. What the mutex does guarantee is
  `NoBarging`, and `NoStarvation` if the semaphore itself serves every waiter.
* `chapter29/chapter29-4.c:67` says "Sorted ascending with sentinel head(INT_MIN) and
  tail(INT_MAX)". With `--keys=2147483647` a worker can draw the key INT_MAX, a search for it
  ends at the tail, and a deletion unlinks and frees the tail. `hand_over_hand_max` shows it;
  `hand_over_hand` assumes that the keys are smaller.

Said wrongly, but without consequence: `chapter14/vector_struct.c:7` and `:15` count 40 bytes for a
`DataItem`, whose size is 48 with the alignment of its doubles; and line 278, "Copy all existing
elements", adds the element that is just being pushed as well, so that the bytes printed for the
naive array are too many by one element for every push (`CountsPredicted` states the difference).

Also seen, and denied by no comment: the second child of `chapter5_q8.c` prints an array that has
no terminator; output of chapter5's programs that is printed before `fork` comes twice when stdout
is not a terminal; writers starve under `reader-writer.c`; opposed threads of
`vector-try-wait` may retry for ever, and `retry++` is a race, so the number printed can be too
small; Hash_Update of `chapter29-5.c` is not one critical section.

## 7. What is left

All the components of section 1 that have a model are modelled whole, but for the two that the
table of components calls partly: of `common_threads.h` the wrappers that the programs call, and of
chapter6 the ping-pong and not the timing. Every invariant, action property and refinement that the
runs check is proved, but for `Printed` of `Processes`; liveness is model-checked everywhere.
