----------------------------- MODULE BoundedPool -----------------------------
(***************************************************************************)
(* What `fly check` promises of a set of files: every file is checked      *)
(* exactly once, at most Capacity of them at the same time, and the exit   *)
(* status is 1 exactly when some file failed.                              *)
(***************************************************************************)
EXTENDS Integers, FiniteSets

CONSTANTS Files, Capacity

VARIABLES
    running,   \* files whose fly-checkd process may exist now
    verdict,   \* "none", "clean" or "failed" for each file
    status     \* "none", or the exit status "0" or "1" of the command

poolVars == <<running, verdict, status>>

PoolInit ==
    /\ running = {}
    /\ verdict = [f \in Files |-> "none"]
    /\ status = "none"

\* A check starts: the file was not checked before, and there is room.
Begin(f) ==
    /\ verdict[f] = "none" /\ f \notin running
    /\ Cardinality(running) < Capacity
    /\ running' = running \cup {f}
    /\ UNCHANGED <<verdict, status>>

\* A check ends with a verdict, which is never changed afterwards.
Finish(f, v) ==
    /\ f \in running
    /\ running' = running \ {f}
    /\ verdict' = [verdict EXCEPT ![f] = v]
    /\ UNCHANGED status

\* The command ends when every file has its verdict.
Report ==
    /\ status = "none"
    /\ \A f \in Files : verdict[f] # "none"
    /\ status' = IF \E f \in Files : verdict[f] = "failed" THEN "1" ELSE "0"
    /\ UNCHANGED <<running, verdict>>

PoolNext ==
    \/ \E f \in Files : Begin(f)
    \/ \E f \in Files, v \in {"clean", "failed"} : Finish(f, v)
    \/ Report

PoolSpec == PoolInit /\ [][PoolNext]_poolVars
=============================================================================
