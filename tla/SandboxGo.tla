------------------------------ MODULE SandboxGo ------------------------------
(***************************************************************************)
(* fly-sandboxd of the releases, on Linux (cmd/fly-sandboxd/sandbox.go).   *)
(* cmdSandbox starts one process (the leader of a process group and, with  *)
(* namespaces, process 1 of its own pid namespace) that becomes bridge,    *)
(* stage 2 and the python script by exec; a goroutine waits for it, and    *)
(* main selects between the goroutine's channel and the deadline.          *)
(***************************************************************************)
EXTENDS Integers

CONSTANTS
    Statuses,    \* how a script may end: [kind : {"exit", "signal"}, n : Nat]
    MaxKids      \* bound: processes the script starts

VARIABLES
    debugNS,   \* --debug-ns: no namespaces
    pc,        \* main: "args", "select", "drain" or "returned"
    proc,      \* the leader: "unborn", a stage, "zombie" or "reaped"
    kids,      \* live processes of the group besides the leader
    status,    \* the wait status of the leader
    ws,        \* the goroutine's copy of it
    done,      \* the channel is closed
    expired,   \* the deadline channel is ready
    code       \* the result of cmdSandbox

vars == <<debugNS, pc, proc, kids, status, ws, done, expired, code>>

NoCode   == -1
NoStatus == [kind |-> "none", n |-> 0]
Killed   == [kind |-> "signal", n |-> 9]
Exited(n) == [kind |-> "exit", n |-> n]

\* The stages of the leader, and the exit code when a stage fails: the bridge
\* cannot exec; stage 2 parses its arguments, applies Landlock and seccomp,
\* execs python; the wrapper sets the limits.
NextStage == [bridge |-> "parse", parse |-> "landlock", landlock |-> "seccomp",
              seccomp |-> "exec", exec |-> "wrapper", wrapper |-> "script"]
FailCode  == [bridge |-> 1, parse |-> 2, landlock |-> 1, seccomp |-> 1, exec |-> 127, wrapper |-> 1]
Stages    == DOMAIN NextStage
Alive     == proc \in Stages \cup {"script"}

\* The shapes of the state.
TypeOK ==
    /\ debugNS \in BOOLEAN
    /\ pc \in {"args", "select", "drain", "returned"}
    /\ proc \in Stages \cup {"unborn", "script", "zombie", "reaped"}
    /\ kids \in 0..MaxKids
    /\ status \in Statuses \cup {NoStatus, Killed} /\ ws \in Statuses \cup {NoStatus, Killed}
    /\ done \in BOOLEAN /\ expired \in BOOLEAN
    /\ code \in 0..383 \cup {NoCode}

Init ==
    /\ debugNS \in BOOLEAN
    /\ pc = "args" /\ proc = "unborn" /\ kids = 0
    /\ status = NoStatus /\ ws = NoStatus
    /\ done = FALSE /\ expired = FALSE /\ code = NoCode

\* Bad arguments or another architecture (2), no such script or no process (1).
Refuse ==
    /\ pc = "args" /\ pc' = "returned"
    /\ code' \in {1, 2}
    /\ UNCHANGED <<proc, kids, status, ws, done, expired>>

\* ForkExec of the bridge, then time.After and the goroutine.
ForkExec ==
    /\ pc = "args" /\ pc' = "select"
    /\ proc' = "bridge"
    /\ UNCHANGED <<kids, status, ws, done, expired, code>>

\* The leader ends.  With a pid namespace the kernel then kills the rest.
LeaderEnds(s) ==
    /\ proc' = "zombie" /\ status' = s
    /\ kids' = IF debugNS THEN kids ELSE 0
    /\ UNCHANGED <<pc, ws, done, expired, code>>

Advance ==
    /\ proc \in Stages /\ proc' = NextStage[proc]
    /\ UNCHANGED <<pc, kids, status, ws, done, expired, code>>

StageFails == proc \in Stages /\ LeaderEnds(Exited(FailCode[proc]))

ScriptForks ==
    /\ proc = "script" \/ kids > 0
    /\ kids < MaxKids /\ kids' = kids + 1
    /\ UNCHANGED <<pc, proc, status, ws, done, expired, code>>

KidEnds ==
    /\ kids > 0 /\ kids' = kids - 1
    /\ UNCHANGED <<pc, proc, status, ws, done, expired, code>>

ScriptEnds(s) == proc = "script" /\ LeaderEnds(s)

\* The goroutine: Wait4 reaps the leader, then the channel is closed.
Wait4 ==
    /\ proc = "zombie" /\ proc' = "reaped"
    /\ ws' = status /\ done' = TRUE
    /\ UNCHANGED <<pc, kids, status, expired, code>>

Deadline ==
    /\ pc \in {"select", "drain"} /\ ~expired /\ expired' = TRUE
    /\ UNCHANGED <<pc, proc, kids, status, ws, done, code>>

\* The exit code of a finished leader.
ExitStatus(s) == IF s.kind = "exit" THEN s.n ELSE IF s.kind = "signal" THEN 128 + s.n ELSE 1

\* Faulty variant of SelectDone: a signal is reported as an exit status.
SelectDoneRaw ==
    /\ pc = "select" /\ done /\ pc' = "returned" /\ code' = ws.n
    /\ UNCHANGED <<proc, kids, status, ws, done, expired>>

\* select, first case: the leader has ended.
SelectDone ==
    /\ pc = "select" /\ done /\ pc' = "returned" /\ code' = ExitStatus(ws)
    /\ UNCHANGED <<proc, kids, status, ws, done, expired>>

\* Faulty variant of SelectDeadline: kill(pid) instead of kill(-pid).
SelectDeadlineOne ==
    /\ pc = "select" /\ expired /\ pc' = "drain"
    /\ IF Alive THEN proc' = "zombie" /\ status' = Killed ELSE UNCHANGED <<proc, status>>
    /\ kids' = IF Alive /\ ~debugNS THEN 0 ELSE kids
    /\ UNCHANGED <<ws, done, expired, code>>

\* Faulty variant of SelectDeadline: main gives up and kills nothing.
SelectDeadlineAbandon ==
    /\ pc = "select" /\ expired /\ pc' = "returned" /\ code' = 124
    /\ UNCHANGED <<proc, kids, status, ws, done, expired>>

\* Faulty variant of SelectDeadline: the group is not killed.
SelectDeadlineNoKill ==
    /\ pc = "select" /\ expired /\ pc' = "drain"
    /\ UNCHANGED <<proc, kids, status, ws, done, expired, code>>

\* select, second case: the deadline has passed.  kill(-pid) ends the leader
\* and everything else in its group; both cases may be ready at once.
SelectDeadline ==
    /\ pc = "select" /\ expired /\ pc' = "drain"
    /\ IF Alive THEN proc' = "zombie" /\ status' = Killed ELSE UNCHANGED <<proc, status>>
    /\ kids' = 0
    /\ UNCHANGED <<ws, done, expired, code>>

\* <-done after the kill.
Drain ==
    /\ pc = "drain" /\ done /\ pc' = "returned" /\ code' = 124
    /\ UNCHANGED <<proc, kids, status, ws, done, expired>>

Terminated == pc = "returned" /\ UNCHANGED vars

Main  == Refuse \/ ForkExec \/ SelectDone \/ SelectDeadline \/ Drain
Group == Advance \/ StageFails \/ ScriptForks \/ KidEnds \/ \E s \in Statuses : ScriptEnds(s)

Next == (Main \/ Group \/ Wait4 \/ Deadline \/ Terminated) /\ UNCHANGED debugNS

Spec == Init /\ [][Next]_vars


----------------------------------------------------------------------------
\* The command implements the supervisor: its code is the code of the script
\* or 124, whichever of exit, reaping and deadline came first.
Promise == INSTANCE Supervisor WITH
    phase <- IF pc = "returned" THEN "over"
             ELSE IF pc = "args" THEN "init"
             ELSE IF Alive THEN "running" ELSE "ended"
SupSpec == Promise!SupSpec

\* After a timeout no process of the script is left, with or without
\* namespaces, even if the leader had ended before the deadline was seen.
TimeoutCleans == code = 124 /\ expired /\ ~(ws = Exited(124)) => kids = 0 /\ ~Alive

\* With namespaces nothing survives the command, however it ended.
NothingSurvives == pc = "returned" /\ ~debugNS => kids = 0 /\ ~Alive

Returned == pc = "returned"
=============================================================================
