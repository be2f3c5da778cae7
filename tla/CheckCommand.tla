---------------------------- MODULE CheckCommand ----------------------------
(***************************************************************************)
(* `fly check` (cmd_check of src/main.rs): one scoped thread per file, a   *)
(* counting semaphore made of a mutex and a condition variable that bounds *)
(* the fly-checkd processes, and a main thread that joins the threads in   *)
(* the order of the files and reports.  One action is one critical section *)
(* of the semaphore, or the check of a file.                               *)
(***************************************************************************)
EXTENDS Integers, FiniteSets

CONSTANTS
    N,          \* number of files, in the order walk_fly and the arguments give
    Capacity    \* permits of the semaphore: 2 * available_parallelism

ASSUME SizeAssumption == N \in Nat \ {0} /\ Capacity \in Nat \ {0}

Files == 1..N

VARIABLES
    count,      \* Semaphore.count
    tpc,        \* where the thread of each file is
    verdict,    \* the CheckOutcome of each file: its blocks are empty ("clean") or not
    spawned,    \* main: threads started so far
    joined,     \* main: threads joined so far
    status      \* exit status of the command

vars == <<count, tpc, verdict, spawned, joined, status>>

Holders == {f \in Files : tpc[f] \in {"check", "checked"}}
Waiters == {f \in Files : tpc[f] = "wait"}
Woken   == {f \in Files : tpc[f] = "woken"}

\* Shapes, and the main thread's two loops.
TypeOK ==
    /\ count \in 0..Capacity
    /\ tpc \in [Files -> {"unborn", "acquire", "wait", "woken", "check", "checked", "done"}]
    /\ verdict \in [Files -> {"none", "clean", "failed"}]
    /\ spawned \in 0..N /\ joined \in 0..N
    /\ status \in {"none", "0", "1"}

Init ==
    /\ count = Capacity
    /\ tpc = [f \in Files |-> "unborn"]
    /\ verdict = [f \in Files |-> "none"]
    /\ spawned = 0 /\ joined = 0
    /\ status = "none"

\* main: scope.spawn of the next file's thread.
Spawn ==
    /\ spawned < N
    /\ spawned' = spawned + 1
    /\ tpc' = [tpc EXCEPT ![spawned + 1] = "acquire"]
    /\ UNCHANGED <<count, verdict, joined, status>>

\* Faulty variant of Acquire: the count is tested once, by `if`, and a thread
\* that wakes up takes a permit without looking again.
AcquireIf(f) ==
    /\ tpc[f] \in {"acquire", "woken"}
    /\ \/ /\ count > 0 \/ tpc[f] = "woken"
          /\ count' = count - 1 /\ tpc' = [tpc EXCEPT ![f] = "check"]
       \/ /\ count = 0 /\ tpc[f] = "acquire"
          /\ tpc' = [tpc EXCEPT ![f] = "wait"] /\ UNCHANGED count
    /\ UNCHANGED <<verdict, spawned, joined, status>>

\* acquire(): under the mutex, take a permit, or wait on the condition while
\* the count is 0.  A thread that wakes up runs the same test again.
Acquire(f) ==
    /\ tpc[f] \in {"acquire", "woken"}
    /\ \/ count > 0 /\ count' = count - 1 /\ tpc' = [tpc EXCEPT ![f] = "check"]
       \/ count = 0 /\ tpc' = [tpc EXCEPT ![f] = "wait"] /\ UNCHANGED count
    /\ UNCHANGED <<verdict, spawned, joined, status>>

\* A condition variable may wake a waiter up without a notification.
SpuriousWakeup(f) ==
    /\ tpc[f] = "wait"
    /\ tpc' = [tpc EXCEPT ![f] = "woken"]
    /\ UNCHANGED <<count, verdict, spawned, joined, status>>

\* check_one: the file is read and given to a fly-checkd of its own.  Blocks
\* are reported for a file that cannot be read, a fly-checkd that fails and
\* for diagnostics; none for a file without error.
CheckOne(f, v) ==
    /\ tpc[f] = "check" /\ verdict[f] = "none"
    /\ verdict' = [verdict EXCEPT ![f] = v]
    /\ tpc' = [tpc EXCEPT ![f] = "checked"]
    /\ UNCHANGED <<count, spawned, joined, status>>

\* Faulty variant of Release: the permit is returned and nobody is told.
ReleaseSilent(f) ==
    /\ tpc[f] = "checked"
    /\ count' = count + 1
    /\ tpc' = [tpc EXCEPT ![f] = "done"]
    /\ UNCHANGED <<verdict, spawned, joined, status>>

\* Faulty variant of Release: the permit is returned twice.
ReleaseTwice(f) ==
    /\ tpc[f] = "checked"
    /\ count' = count + 2
    /\ tpc' = [tpc EXCEPT ![f] = "done"]
    /\ UNCHANGED <<verdict, spawned, joined, status>>

\* release(): return the permit and notify one waiter, under the mutex.
Release(f) ==
    /\ tpc[f] = "checked"
    /\ count' = count + 1
    /\ \/ /\ Waiters = {}
          /\ tpc' = [tpc EXCEPT ![f] = "done"]
       \/ \E w \in Waiters : tpc' = [tpc EXCEPT ![f] = "done", ![w] = "woken"]
    /\ UNCHANGED <<verdict, spawned, joined, status>>

\* main: after the last spawn, h.join() in the order of the files.
Join ==
    /\ spawned = N /\ joined < N
    /\ tpc[joined + 1] = "done"
    /\ joined' = joined + 1
    /\ UNCHANGED <<count, tpc, verdict, spawned, status>>

\* Faulty variant of Exit: main reports without joining the last thread.
ExitEarly ==
    /\ joined >= N - 1 /\ status = "none"
    /\ status' = IF \E f \in Files : verdict[f] = "failed" THEN "1" ELSE "0"
    /\ UNCHANGED <<count, tpc, verdict, spawned, joined>>

\* main: print the blocks, count the failed files, return the exit status.
Exit ==
    /\ joined = N /\ status = "none"
    /\ status' = IF \E f \in Files : verdict[f] = "failed" THEN "1" ELSE "0"
    /\ UNCHANGED <<count, tpc, verdict, spawned, joined>>

Terminated == status # "none" /\ UNCHANGED vars

Thread(f) == Acquire(f) \/ (\E v \in {"clean", "failed"} : CheckOne(f, v)) \/ Release(f)
Main      == Spawn \/ Join \/ Exit

Next ==
    \/ Main
    \/ \E f \in Files : Thread(f) \/ SpuriousWakeup(f)
    \/ Terminated

Spec == Init /\ [][Next]_vars

\* Every thread that can run runs; a spurious wake-up may never come.
FairSpec == Spec /\ WF_vars(Main) /\ \A f \in Files : WF_vars(Thread(f))

----------------------------------------------------------------------------
\* No permit is lost or created, whatever the order of acquire, wait, wake-up
\* and release: the free permits and the threads between acquire and release
\* always add up to the capacity.
PermitsConserved == count + Cardinality(Holders) = Capacity

\* No wake-up of release() is lost: while a thread sleeps, every free permit
\* has a thread that was woken up and is on its way to take it.
NoLostWakeup == Waiters # {} => count <= Cardinality(Woken)

\* Every run of the command ends with its exit status.
Terminates == <>(status # "none")

\* The command implements the abstract pool: every file is checked once, at
\* most Capacity at a time, and the exit status tells whether one failed.
Pool == INSTANCE BoundedPool WITH running <- {f \in Files : tpc[f] = "check"}
PoolSpec == Pool!PoolSpec
=============================================================================
