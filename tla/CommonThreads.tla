---------------------------- MODULE CommonThreads ----------------------------
(***************************************************************************)
(* The synchronisation calls every threaded program of the repository is   *)
(* built from, as chapter31/common_threads.h and chapter32/common_threads.h*)
(* wrap them: POSIX semaphores and pthread mutexes.  The wrappers assert   *)
(* that the call returns 0, so a call either blocks or succeeds.           *)
(*                                                                         *)
(* A semaphore is a natural number.  A mutex is the thread that owns it,   *)
(* or Free.  Neither keeps a queue: POSIX does not say which blocked       *)
(* thread a post or an unlock releases, so any of them may go first.       *)
(***************************************************************************)
EXTENDS Integers

\* sem_wait blocks until the value is positive and decrements it in one step.
SemWait(sem) == sem > 0 /\ sem' = sem - 1

SemPost(sem) == sem' = sem + 1

\* The owner of a mutex that nobody holds; no thread has this name.
Free == -1

\* The mutexes of a program are a function from their addresses to owners.
MutexLock(locks, m, t) == locks[m] = Free /\ locks' = [locks EXCEPT ![m] = t]

MutexUnlock(locks, m) == locks' = [locks EXCEPT ![m] = Free]
=============================================================================
