----------------------------- MODULE SandboxRust -----------------------------
(***************************************************************************)
(* fly-sandboxd of the Rust crate (fly-sandboxd/src/main.rs): the parent   *)
(* forks a child, the child sets up the namespaces and forks the           *)
(* grandchild, which confines itself and becomes the python script.  The   *)
(* child tells the parent the grandchild's pid through a pipe and waits    *)
(* for it; the parent polls for the child until the deadline.              *)
(***************************************************************************)
EXTENDS Integers

CONSTANT Statuses    \* how a script may end: [kind : {"exit", "signal"}, n : Nat]

VARIABLES
    parent,    \* "args", "read", "loop", "poll", "kill", "reap" or "returned"
    child,     \* "unborn", "ns", "fork", "report", "wait", "zombie" or "reaped"
    cstatus,   \* the wait status of the child
    grand,     \* "unborn", a stage, "script", "zombie" or "reaped"
    gstatus,   \* the wait status of the grandchild
    pipe,      \* the pid is in the pipe
    known,     \* the parent read it (gpid # 0)
    expired,   \* Instant::now() >= deadline
    code       \* the parent's exit code

vars == <<parent, child, cstatus, grand, gstatus, pipe, known, expired, code>>

NoCode    == -1
NoStatus  == [kind |-> "none", n |-> 0]
Killed    == [kind |-> "signal", n |-> 9]
Exited(n) == [kind |-> "exit", n |-> n]

\* The confinement of the grandchild, and the exit code of a failed layer.
NextStage  == [landlock |-> "rlimit", rlimit |-> "seccomp", seccomp |-> "exec", exec |-> "script"]
FailCode   == [landlock |-> 1, rlimit |-> 1, seccomp |-> 1, exec |-> 127]
Stages     == DOMAIN NextStage
GrandAlive == grand \in Stages \cup {"script"}

\* Who holds the write end: the child until its close, and the grandchild,
\* which inherits it.
WriteEndOpen == child \in {"ns", "fork", "report"} \/ GrandAlive

\* The shapes of the state.
TypeOK ==
    /\ parent \in {"args", "read", "loop", "poll", "kill", "reap", "returned"}
    /\ child \in {"unborn", "ns", "fork", "report", "wait", "zombie", "reaped"}
    /\ grand \in Stages \cup {"unborn", "script", "zombie", "reaped"}
    /\ cstatus \in {NoStatus, Exited(0), Exited(1)}
    /\ gstatus \in Statuses \cup {NoStatus, Killed}
    /\ pipe \in BOOLEAN /\ known \in BOOLEAN /\ expired \in BOOLEAN
    /\ code \in {NoCode, 0, 1, 2, 124}

Init ==
    /\ parent = "args" /\ child = "unborn" /\ grand = "unborn"
    /\ cstatus = NoStatus /\ gstatus = NoStatus
    /\ pipe = FALSE /\ known = FALSE /\ expired = FALSE /\ code = NoCode

\* Bad arguments (2); no such script, no pipe or no process (1).
Refuse ==
    /\ parent = "args" /\ parent' = "returned"
    /\ code' \in {1, 2}
    /\ UNCHANGED <<child, cstatus, grand, gstatus, pipe, known, expired>>

Fork ==
    /\ parent = "args" /\ parent' = "read"
    /\ child' = "ns"
    /\ UNCHANGED <<cstatus, grand, gstatus, pipe, known, expired, code>>

\* setup_namespaces and the second fork; each may fail, and the child exits.
Namespaces ==
    /\ child = "ns"
    /\ \/ child' = "fork" /\ UNCHANGED cstatus
       \/ child' = "zombie" /\ cstatus' = Exited(1)
    /\ UNCHANGED <<parent, grand, gstatus, pipe, known, expired, code>>

ForkGrand ==
    /\ child = "fork"
    /\ \/ child' = "report" /\ grand' = "landlock" /\ UNCHANGED cstatus
       \/ child' = "zombie" /\ cstatus' = Exited(1) /\ UNCHANGED grand
    /\ UNCHANGED <<parent, gstatus, pipe, known, expired, code>>

\* The pid goes to the pipe, and the child closes its write end.
Report ==
    /\ child = "report" /\ child' = "wait"
    /\ pipe' = TRUE
    /\ UNCHANGED <<parent, cstatus, grand, gstatus, known, expired, code>>

\* waitpid of the grandchild.  The exit code computed from the status goes to
\* the descriptor closed before, the error is ignored, and the child exits 0.
ChildWait ==
    /\ child = "wait" /\ grand = "zombie"
    /\ grand' = "reaped"
    /\ child' = "zombie" /\ cstatus' = Exited(0)
    /\ UNCHANGED <<parent, gstatus, pipe, known, expired, code>>

GrandEnds(s) ==
    /\ grand' = "zombie" /\ gstatus' = s
    /\ UNCHANGED <<parent, child, cstatus, pipe, known, expired, code>>

Advance ==
    /\ grand \in Stages /\ grand' = NextStage[grand]
    /\ UNCHANGED <<parent, child, cstatus, gstatus, pipe, known, expired, code>>

StageFails    == grand \in Stages /\ GrandEnds(Exited(FailCode[grand]))
ScriptEnds(s) == grand = "script" /\ GrandEnds(s)

\* The parent reads the pid, or the end of the pipe when nobody can write.
ReadPid ==
    /\ parent = "read" /\ parent' = "loop"
    /\ \/ pipe /\ known' = TRUE
       \/ ~pipe /\ ~WriteEndOpen /\ UNCHANGED known
    /\ UNCHANGED <<child, cstatus, grand, gstatus, pipe, expired, code>>

Deadline ==
    /\ parent \in {"read", "loop", "poll"} /\ ~expired /\ expired' = TRUE
    /\ UNCHANGED <<parent, child, cstatus, grand, gstatus, pipe, known, code>>

\* The head of the loop compares the clock with the deadline.
Loop ==
    /\ parent = "loop"
    /\ parent' = IF expired THEN "kill" ELSE "poll"
    /\ UNCHANGED <<child, cstatus, grand, gstatus, pipe, known, expired, code>>

\* The exit code of a finished child.
ExitStatus(s) == IF s.kind = "exit" THEN s.n ELSE IF s.kind = "signal" THEN 128 + s.n ELSE 1

\* waitpid(WNOHANG) of the child, then its exit code, or sleep and loop.
Poll ==
    /\ parent = "poll"
    /\ IF child = "zombie"
          THEN child' = "reaped" /\ code' = ExitStatus(cstatus) /\ parent' = "returned"
          ELSE parent' = "loop" /\ UNCHANGED <<child, code>>
    /\ UNCHANGED <<cstatus, grand, gstatus, pipe, known, expired>>

\* Faulty variant of KillGrand: the child is killed, not the grandchild.
KillChild ==
    /\ parent = "kill" /\ parent' = "reap"
    /\ child' = "zombie" /\ cstatus' = Exited(1)
    /\ UNCHANGED <<grand, gstatus, pipe, known, expired, code>>

\* After the deadline: kill the grandchild if its pid is known.
KillGrand ==
    /\ parent = "kill" /\ parent' = "reap"
    /\ IF known /\ GrandAlive THEN grand' = "zombie" /\ gstatus' = Killed ELSE UNCHANGED <<grand, gstatus>>
    /\ UNCHANGED <<child, cstatus, pipe, known, expired, code>>

\* The blocking waitpid of the child, then exit 124.
Reap ==
    /\ parent = "reap" /\ child = "zombie"
    /\ child' = "reaped" /\ parent' = "returned" /\ code' = 124
    /\ UNCHANGED <<cstatus, grand, gstatus, pipe, known, expired>>

Terminated == parent = "returned" /\ UNCHANGED vars

ParentStep == Refuse \/ Fork \/ ReadPid \/ Loop \/ Poll \/ KillGrand \/ Reap
ChildStep  == Namespaces \/ ForkGrand \/ Report \/ ChildWait
GrandStep  == Advance \/ StageFails \/ \E s \in Statuses : ScriptEnds(s)

Next == ParentStep \/ ChildStep \/ GrandStep \/ Deadline \/ Terminated

Spec == Init /\ [][Next]_vars

----------------------------------------------------------------------------
\* 124 is reported only after the deadline, with the script dead: the kill
\* may come before, while or after the child reports and waits.
TimeoutKills == code = 124 => expired /\ ~GrandAlive

\* Neither the pipe, whose write end the script inherits, nor the blocking
\* wait may keep the parent from this forever.
Returned == parent = "returned"

\* The exit code of the script reaches the caller (the comment on the pipe
\* says it carries the pid and the exit code).
ExitCodeForwarded ==
    parent = "returned" /\ grand = "reaped" /\ code # 124 => code = ExitStatus(gstatus)
=============================================================================
