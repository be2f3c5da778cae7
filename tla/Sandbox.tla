------------------------------- MODULE Sandbox -------------------------------
(***************************************************************************)
(* `fly sandbox` (cmd_sandbox of src/main.rs) starts the fly-sandboxd it   *)
(* finds: the Go one of the releases (SandboxGo) or the one of the Rust    *)
(* crate (SandboxRust).  The build is chosen once; only its processes      *)
(* exist.                                                                  *)
(***************************************************************************)
EXTENDS Integers

CONSTANTS
    Statuses,    \* how a script may end: [kind : {"exit", "signal"}, n : Nat]
    MaxKids      \* bound: processes the script starts

ASSUME StatusesAssumption ==
    /\ Statuses \subseteq [kind : {"exit", "signal"}, n : 0..255]
    /\ \A n \in {1, 2, 127} : [kind |-> "exit", n |-> n] \in Statuses

ASSUME MaxKidsAssumption == MaxKids \in Nat

VARIABLES
    build,                                                          \* "go" or "rust"
    debugNS, pc, proc, kids, status, ws, done, expired, code,       \* of SandboxGo
    parent, child, cstatus, grand, gstatus, pipe, known, rexpired, rcode  \* of SandboxRust

Go   == INSTANCE SandboxGo
Rust == INSTANCE SandboxRust WITH expired <- rexpired, code <- rcode

goVars   == <<debugNS, pc, proc, kids, status, ws, done, expired, code>>
rustVars == <<parent, child, cstatus, grand, gstatus, pipe, known, rexpired, rcode>>
vars     == <<build, goVars, rustVars>>

\* The shapes of the state of both builds.
TypeOK == build \in {"go", "rust"} /\ Go!TypeOK /\ Rust!TypeOK

\* find_sandboxd: FLY_SANDBOXD, the directory of fly, then PATH.
Init == build \in {"go", "rust"} /\ Go!Init /\ Rust!Init

IsGo   == build = "go" /\ UNCHANGED <<build, rustVars>>
IsRust == build = "rust" /\ UNCHANGED <<build, goVars>>

Next == (IsGo /\ Go!Next) \/ (IsRust /\ Rust!Next)

Spec == Init /\ [][Next]_vars

\* The supervising processes and threads are scheduled, and time passes; the
\* script need not end, nor make progress.
GoPart(a) ==
    /\ IsGo /\ UNCHANGED debugNS
    /\ \/ a = "main" /\ Go!Main
       \/ a = "wait4" /\ Go!Wait4
       \/ a = "deadline" /\ Go!Deadline
RustPart(a) ==
    /\ IsRust
    /\ \/ a = "parent" /\ Rust!ParentStep
       \/ a = "child" /\ Rust!ChildStep
       \/ a = "deadline" /\ Rust!Deadline

FairSpec ==
    /\ Spec
    /\ \A a \in {"main", "wait4", "deadline"} : WF_vars(GoPart(a))
    /\ \A a \in {"parent", "child", "deadline"} : WF_vars(RustPart(a))

----------------------------------------------------------------------------
\* Go: cmdSandbox implements the supervisor; its result is the exit code of
\* the script or 124, whichever of exit, reaping and deadline came first.
SupSpec == Go!SupSpec

\* Go: after a timeout no process of the script is left, with or without
\* namespaces, even if the leader had ended before the deadline was seen.
TimeoutCleans == Go!TimeoutCleans

\* Go: with namespaces nothing survives the command, however it ended.
NothingSurvives == Go!NothingSurvives

\* Rust: 124 is reported only after the deadline, with the script dead: the
\* kill may come before, while or after the child reports and waits.
TimeoutKills == Rust!TimeoutKills

\* The installed command always returns, although the script may run forever.
Returns == <>(Go!Returned \/ Rust!Returned)

\* Rust: the exit code of the script reaches the caller, as the comment on
\* the pipe between parent and child says.
ExitCodeForwarded == Rust!ExitCodeForwarded
=============================================================================
