---------------------------- MODULE SandboxProofs ----------------------------
(***************************************************************************)
(* Theorems about fly-sandboxd: its two builds, for every set of wait      *)
(* statuses and any number of processes of the script, and the seccomp     *)
(* programs, which decide every system call as the lists say, for all      *)
(* lists whose program is short enough for its jumps.                      *)
(***************************************************************************)
EXTENDS Sandbox, SeccompFilter, SequenceTheorems, TLAPS

\* Go: where main, the goroutine and the leader are with respect to each other.
GoStages ==
    /\ pc = "args" => proc = "unborn"
    /\ proc = "unborn" => pc \in {"args", "returned"} /\ kids = 0
    /\ done <=> proc = "reaped"
    /\ pc = "drain" => expired /\ kids = 0 /\ proc \in {"zombie", "reaped"}
    /\ pc = "returned" => proc \in {"unborn", "reaped"}

\* Go: what is known of the statuses and the result.
GoResults ==
    /\ proc \in {"zombie", "reaped"} => status \in Statuses \cup {Go!Killed}
    /\ done => ws = status
    /\ code # Go!NoCode => pc = "returned"

\* Go: without its leader a pid namespace is empty.
GoNamespace == ~debugNS /\ ~Go!Alive => kids = 0

GoInv == Go!TypeOK /\ GoStages /\ GoResults /\ GoNamespace /\ Go!TimeoutCleans

\* Rust: the grandchild is born after its parent and reaped before it ends.
RustStages ==
    /\ parent = "args" => child = "unborn"
    /\ child \in {"unborn", "ns", "fork"} => grand = "unborn"
    /\ child \in {"zombie", "reaped"} => grand \in {"unborn", "reaped"}
    /\ child \in {"zombie", "reaped"} => cstatus \in {Rust!Exited(0), Rust!Exited(1)}

\* Rust: the parent kills and reports a timeout only after the deadline.
RustResults ==
    /\ parent \in {"kill", "reap"} => rexpired
    /\ rcode # Rust!NoCode => parent = "returned"
    /\ rcode = 124 => rexpired /\ child = "reaped"

RustInv == Rust!TypeOK /\ RustStages /\ RustResults

SandboxInv == build \in {"go", "rust"} /\ GoInv /\ RustInv

----------------------------------------------------------------------------
\* The stages of the Go leader lead to one another or to the script, and the
\* exit code of one that fails is one a leader may have.
LEMMA GoTables ==
    /\ Go!Stages = {"bridge", "parse", "landlock", "seccomp", "exec", "wrapper"}
    /\ \A s \in Go!Stages : /\ Go!NextStage[s] \in Go!Stages \cup {"script"}
                            /\ Go!Exited(Go!FailCode[s]) \in Statuses
<1>1. Go!Stages = {"bridge", "parse", "landlock", "seccomp", "exec", "wrapper"}
  BY DEF Go!Stages, Go!NextStage
<1>2. \A s \in Go!Stages : Go!NextStage[s] \in Go!Stages \cup {"script"}
  BY <1>1 DEF Go!NextStage
<1>3. \A s \in Go!Stages : Go!FailCode[s] \in {1, 2, 127}
  BY <1>1 DEF Go!FailCode
<1>4. \A n \in {1, 2, 127} : Go!Exited(n) \in Statuses
  BY StatusesAssumption DEF Go!Exited
<1> QED BY <1>1, <1>2, <1>3, <1>4

\* A wait status is an exit code or a signal; 124 is never the code of a signal.
LEMMA ExitCodes ==
    ASSUME NEW s \in Statuses \cup {Go!Killed}
    PROVE  /\ Go!ExitStatus(s) \in 0..383
           /\ Go!ExitStatus(s) = 124 => s = Go!Exited(124)
           /\ Go!ExitStatus(s) = Go!Promise!ExitCode(s)
<1>1. s \in [kind : {"exit", "signal"}, n : 0..255]
  BY StatusesAssumption DEF Go!Killed
<1>2. s = [kind |-> s.kind, n |-> s.n] /\ s.kind \in {"exit", "signal"} /\ s.n \in 0..255
  BY <1>1
<1> QED BY <1>2 DEF Go!ExitStatus, Go!Exited, Go!Promise!ExitCode

\* Every step of the Go build keeps its invariant.
LEMMA GoStep ==
    ASSUME GoInv, Go!Next
    PROVE  GoInv'
<1> USE MaxKidsAssumption
<1>u. debugNS' = debugNS
  BY DEF Go!Next
<1>s. Go!Alive <=> proc \in {"bridge", "parse", "landlock", "seccomp", "exec", "wrapper", "script"}
  BY GoTables DEF Go!Alive
<1>p. Go!Alive' <=> proc' \in {"bridge", "parse", "landlock", "seccomp", "exec", "wrapper", "script"}
  BY GoTables DEF Go!Alive
<1> USE DEF GoInv
<1>1. CASE Go!Refuse
  BY <1>1, <1>u, <1>s, <1>p DEF Go!Refuse, Go!TypeOK, GoStages, GoResults, GoNamespace, Go!TimeoutCleans, Go!NoCode
<1>2. CASE Go!ForkExec
  BY <1>2, <1>u, <1>s, <1>p, GoTables DEF Go!ForkExec, Go!TypeOK, GoStages, GoResults, GoNamespace, Go!TimeoutCleans, Go!NoCode
<1>3. CASE Go!Advance
  BY <1>3, <1>u, <1>s, <1>p, GoTables DEF Go!Advance, Go!TypeOK, GoStages, GoResults, GoNamespace, Go!TimeoutCleans, Go!NoCode
<1>4. ASSUME NEW s \in Statuses, Go!LeaderEnds(s), Go!Alive PROVE GoInv'
  BY <1>4, <1>u, <1>s, <1>p DEF Go!LeaderEnds, Go!TypeOK, GoStages, GoResults, GoNamespace, Go!TimeoutCleans, Go!NoCode
<1>5. CASE Go!StageFails
  BY <1>5, <1>4, GoTables DEF Go!StageFails, Go!Alive
<1>6. ASSUME NEW s \in Statuses, Go!ScriptEnds(s) PROVE GoInv'
  BY <1>6, <1>4 DEF Go!ScriptEnds, Go!Alive
<1>7. CASE Go!ScriptForks
  BY <1>7, <1>u, <1>s, <1>p DEF Go!ScriptForks, Go!TypeOK, GoStages, GoResults, GoNamespace, Go!TimeoutCleans, Go!NoCode
<1>8. CASE Go!KidEnds
  BY <1>8, <1>u, <1>s, <1>p DEF Go!KidEnds, Go!TypeOK, GoStages, GoResults, GoNamespace, Go!TimeoutCleans, Go!NoCode
<1>9. CASE Go!Wait4
  BY <1>9, <1>u, <1>s, <1>p DEF Go!Wait4, Go!TypeOK, GoStages, GoResults, GoNamespace, Go!TimeoutCleans, Go!NoCode
<1>10. CASE Go!Deadline
  BY <1>10, <1>u, <1>s, <1>p DEF Go!Deadline, Go!TypeOK, GoStages, GoResults, GoNamespace, Go!TimeoutCleans, Go!NoCode
<1>11. CASE Go!SelectDone
  <2>1. ws \in Statuses \cup {Go!Killed}
    BY <1>11 DEF Go!SelectDone, GoStages, GoResults
  <2>2. code' \in 0..383 /\ (code' = 124 => ws = Go!Exited(124))
    BY <1>11, <2>1, ExitCodes DEF Go!SelectDone
  <2>3. Go!TimeoutCleans'
    BY <1>11, <2>2 DEF Go!SelectDone, Go!TimeoutCleans, Go!Exited
  <2> QED BY <1>11, <1>u, <1>s, <1>p, <2>2, <2>3 DEF Go!SelectDone, Go!TypeOK, GoStages, GoResults, GoNamespace
<1>12. CASE Go!SelectDeadline
  <2>1. CASE Go!Alive
    <3>1. proc' = "zombie" /\ status' = Go!Killed
      BY <1>12, <2>1 DEF Go!SelectDeadline
    <3> QED BY <1>12, <2>1, <3>1, <1>u, <1>s, <1>p
            DEF Go!SelectDeadline, Go!TypeOK, GoStages, GoResults, GoNamespace, Go!TimeoutCleans, Go!NoCode
  <2>2. CASE ~Go!Alive
    <3>1. proc' = proc /\ status' = status
      BY <1>12, <2>2 DEF Go!SelectDeadline
    <3>2. proc \in {"zombie", "reaped"}
      BY <1>12, <1>s, <2>2, GoTables DEF Go!SelectDeadline, Go!TypeOK, GoStages
    <3> QED BY <1>12, <2>2, <3>1, <3>2, <1>u, <1>s, <1>p
            DEF Go!SelectDeadline, Go!TypeOK, GoStages, GoResults, GoNamespace, Go!TimeoutCleans, Go!NoCode
  <2> QED BY <2>1, <2>2
<1>13. CASE Go!Drain
  BY <1>13, <1>u, <1>s, <1>p DEF Go!Drain, Go!TypeOK, GoStages, GoResults, GoNamespace, Go!TimeoutCleans, Go!NoCode
<1>14. CASE Go!Terminated
  BY <1>14, <1>u, <1>s, <1>p DEF Go!Terminated, Go!vars, Go!TypeOK, GoStages, GoResults, GoNamespace, Go!TimeoutCleans
<1> QED BY <1>1, <1>2, <1>3, <1>5, <1>6, <1>7, <1>8, <1>9, <1>10, <1>11, <1>12, <1>13, <1>14
        DEF Go!Next, Go!Main, Go!Group

\* The stages of the Rust grandchild.
LEMMA RustTables ==
    /\ Rust!Stages = {"landlock", "rlimit", "seccomp", "exec"}
    /\ \A s \in Rust!Stages : /\ Rust!NextStage[s] \in Rust!Stages \cup {"script"}
                              /\ Rust!Exited(Rust!FailCode[s]) \in Statuses
<1>1. Rust!Stages = {"landlock", "rlimit", "seccomp", "exec"}
  BY DEF Rust!Stages, Rust!NextStage
<1>2. \A s \in Rust!Stages : Rust!NextStage[s] \in Rust!Stages \cup {"script"}
  BY <1>1 DEF Rust!NextStage
<1>3. \A s \in Rust!Stages : Rust!FailCode[s] \in {1, 127}
  BY <1>1 DEF Rust!FailCode
<1>4. \A n \in {1, 127} : Rust!Exited(n) \in Statuses
  BY StatusesAssumption DEF Rust!Exited
<1> QED BY <1>1, <1>2, <1>3, <1>4

\* Every step of the Rust build keeps its invariant.
LEMMA RustStep ==
    ASSUME RustInv, Rust!Next
    PROVE  RustInv'
<1>s. Rust!GrandAlive <=> grand \in {"landlock", "rlimit", "seccomp", "exec", "script"}
  BY RustTables DEF Rust!GrandAlive
<1> USE DEF RustInv
<1>1. CASE Rust!Refuse \/ Rust!Fork
  BY <1>1 DEF Rust!Refuse, Rust!Fork, Rust!TypeOK, RustStages, RustResults, Rust!NoCode
<1>2. CASE Rust!ReadPid \/ Rust!Loop
  <2>1. UNCHANGED <<child, cstatus, grand, gstatus, pipe, rexpired, rcode>>
    BY <1>2 DEF Rust!ReadPid, Rust!Loop
  <2>2. known' \in BOOLEAN
    BY <1>2 DEF Rust!ReadPid, Rust!Loop, Rust!TypeOK
  <2>3. /\ parent # "returned" /\ parent' \in {"loop", "kill", "poll"}
        /\ parent' = "kill" => rexpired
    BY <1>2 DEF Rust!ReadPid, Rust!Loop
  <2> QED BY <2>1, <2>2, <2>3 DEF Rust!TypeOK, RustStages, RustResults, Rust!NoCode
<1>3. CASE Rust!Poll
  <2>1. CASE child = "zombie"
    <3>1. cstatus \in {Rust!Exited(0), Rust!Exited(1)}
      BY <2>1 DEF RustStages
    <3>2. rcode' \in {0, 1}
      BY <1>3, <2>1, <3>1 DEF Rust!Poll, Rust!ExitStatus, Rust!Exited
    <3> QED BY <1>3, <2>1, <3>2 DEF Rust!Poll, Rust!TypeOK, RustStages, RustResults, Rust!NoCode
  <2>2. CASE child # "zombie"
    BY <1>3, <2>2 DEF Rust!Poll, Rust!TypeOK, RustStages, RustResults, Rust!NoCode
  <2> QED BY <2>1, <2>2
<1>4. CASE Rust!KillGrand
  BY <1>4, <1>s DEF Rust!KillGrand, Rust!TypeOK, RustStages, RustResults, Rust!NoCode
<1>5. CASE Rust!Reap
  BY <1>5 DEF Rust!Reap, Rust!TypeOK, RustStages, RustResults, Rust!NoCode
<1>6. CASE Rust!Namespaces
  BY <1>6 DEF Rust!Namespaces, Rust!TypeOK, RustStages, RustResults, Rust!NoCode
<1>7. CASE Rust!ForkGrand
  BY <1>7, RustTables DEF Rust!ForkGrand, Rust!TypeOK, RustStages, RustResults, Rust!NoCode
<1>8. CASE Rust!Report
  BY <1>8 DEF Rust!Report, Rust!TypeOK, RustStages, RustResults, Rust!NoCode
<1>9. CASE Rust!ChildWait
  BY <1>9 DEF Rust!ChildWait, Rust!TypeOK, RustStages, RustResults, Rust!NoCode
<1>10. CASE Rust!Advance
  BY <1>10, RustTables DEF Rust!Advance, Rust!TypeOK, RustStages, RustResults, Rust!NoCode
<1>11. ASSUME NEW s \in Statuses, Rust!GrandEnds(s), Rust!GrandAlive PROVE RustInv'
  BY <1>11, <1>s DEF Rust!GrandEnds, Rust!TypeOK, RustStages, RustResults, Rust!NoCode
<1>12. CASE Rust!StageFails
  BY <1>12, <1>11, RustTables DEF Rust!StageFails, Rust!GrandAlive
<1>13. ASSUME NEW s \in Statuses, Rust!ScriptEnds(s) PROVE RustInv'
  BY <1>13, <1>11 DEF Rust!ScriptEnds, Rust!GrandAlive
<1>14. CASE Rust!Deadline
  BY <1>14 DEF Rust!Deadline, Rust!TypeOK, RustStages, RustResults, Rust!NoCode
<1>15. CASE Rust!Terminated
  BY <1>15 DEF Rust!Terminated, Rust!vars, Rust!TypeOK, RustStages, RustResults, Rust!NoCode
<1> QED BY <1>1, <1>2, <1>3, <1>4, <1>5, <1>6, <1>7, <1>8, <1>9, <1>10, <1>12, <1>13, <1>14, <1>15
        DEF Rust!Next, Rust!ParentStep, Rust!ChildStep, Rust!GrandStep

\* A build that does not run stays as it is.
LEMMA GoRests == GoInv /\ UNCHANGED goVars => GoInv'
BY DEF goVars, GoInv, Go!TypeOK, GoStages, GoResults, GoNamespace, Go!TimeoutCleans, Go!Alive

\* The same of the Rust build.
LEMMA RustRests == RustInv /\ UNCHANGED rustVars => RustInv'
BY DEF rustVars, RustInv, Rust!TypeOK, RustStages, RustResults, Rust!NoCode

\* Before the command is run.
LEMMA InitInv == Init => SandboxInv
<1> SUFFICES ASSUME Init PROVE SandboxInv
    OBVIOUS
<1>1. GoInv
  <2>1. Go!TypeOK
    <3>1. kids \in 0..MaxKids
      BY MaxKidsAssumption DEF Init, Go!Init
    <3> QED BY <3>1 DEF Init, Go!Init, Go!TypeOK
  <2>2. ~done /\ ~expired /\ pc = "args" /\ proc = "unborn" /\ kids = 0 /\ code = Go!NoCode
    BY DEF Init, Go!Init
  <2>3. GoStages /\ GoResults /\ GoNamespace /\ Go!TimeoutCleans
    BY <2>2 DEF GoStages, GoResults, GoNamespace, Go!TimeoutCleans
  <2> QED BY <2>1, <2>3 DEF GoInv
<1>2. RustInv
  <2>1. Rust!TypeOK
    BY DEF Init, Rust!Init, Rust!TypeOK
  <2>2. parent = "args" /\ child = "unborn" /\ grand = "unborn" /\ rcode = Rust!NoCode
    BY DEF Init, Rust!Init
  <2>3. RustStages /\ RustResults
    BY <2>2 DEF RustStages, RustResults, Rust!NoCode
  <2> QED BY <2>1, <2>3 DEF RustInv
<1> QED BY <1>1, <1>2 DEF Init, SandboxInv

\* The step of one build leaves the other alone.
LEMMA NextInv == SandboxInv /\ [Next]_vars => SandboxInv'
<1> SUFFICES ASSUME SandboxInv, [Next]_vars PROVE SandboxInv'
    OBVIOUS
<1>1. CASE IsGo /\ Go!Next
  BY <1>1, GoStep, RustRests DEF SandboxInv, IsGo
<1>2. CASE IsRust /\ Rust!Next
  BY <1>2, RustStep, GoRests DEF SandboxInv, IsRust
<1>3. CASE UNCHANGED vars
  BY <1>3, GoRests, RustRests DEF SandboxInv, vars
<1> QED BY <1>1, <1>2, <1>3 DEF Next

\* The invariant holds throughout.
LEMMA Invariance == Spec => []SandboxInv
BY InitInv, NextInv, PTL DEF Spec

\* The processes and results of both builds always have the shapes of TypeOK.
THEOREM TypeCorrect == Spec => []TypeOK
<1>1. SandboxInv => TypeOK
  BY DEF SandboxInv, GoInv, RustInv, TypeOK
<1> QED BY <1>1, Invariance, PTL

\* cmdSandbox with namespaces: when it returns, whether the script ended, was
\* killed or never started, no process of it is left, however many it started.
THEOREM NothingLeft == Spec => []NothingSurvives
<1>1. SandboxInv => NothingSurvives
  <2> SUFFICES ASSUME GoInv, pc = "returned", ~debugNS PROVE kids = 0 /\ ~Go!Alive
    BY DEF SandboxInv, NothingSurvives, Go!NothingSurvives
  <2>1. ~Go!Alive
    BY GoTables DEF GoInv, GoStages, Go!Alive
  <2> QED BY <2>1 DEF GoInv, GoNamespace
<1> QED BY <1>1, Invariance, PTL

\* cmdSandbox with or without namespaces: a timeout leaves no process of the
\* script, also when the goroutine had reaped the leader before the kill.
THEOREM TimeoutLeavesNothing == Spec => []TimeoutCleans
<1>1. SandboxInv => TimeoutCleans
  BY DEF SandboxInv, GoInv, TimeoutCleans
<1> QED BY <1>1, Invariance, PTL

\* The parent of the Rust build exits with 124 only after the deadline and
\* with the script dead, whether or not it had learnt the pid to kill.
THEOREM TimeoutMeansDead == Spec => []TimeoutKills
<1>1. SandboxInv => TimeoutKills
  BY RustTables DEF SandboxInv, RustInv, RustStages, RustResults, TimeoutKills, Rust!TimeoutKills,
     Rust!GrandAlive
<1> QED BY <1>1, Invariance, PTL

----------------------------------------------------------------------------
\* Every step of the Go build is a step of the supervisor or none.
LEMMA GoImplements ==
    ASSUME GoInv, Go!Next
    PROVE  [Go!Promise!SupNext]_(Go!Promise!supVars)
<1>u. debugNS' = debugNS
  BY DEF Go!Next
<1>s. Go!Alive <=> proc \in {"bridge", "parse", "landlock", "seccomp", "exec", "wrapper", "script"}
  BY GoTables DEF Go!Alive
<1>p. Go!Alive' <=> proc' \in {"bridge", "parse", "landlock", "seccomp", "exec", "wrapper", "script"}
  BY GoTables DEF Go!Alive
<1>r. pc = "args" => ~Go!Alive
  BY <1>s DEF GoInv, GoStages
<1>e. pc = "returned" => ~Go!Alive
  BY <1>s DEF GoInv, GoStages
<1>1. CASE Go!Refuse
  <2>1. Go!Promise!Refuse
    BY <1>1 DEF Go!Refuse, Go!Promise!Refuse
  <2> QED BY <2>1 DEF Go!Promise!SupNext
<1>2. CASE Go!ForkExec
  <2>1. Go!Promise!Begin
    BY <1>2, <1>p DEF Go!ForkExec, Go!Promise!Begin
  <2> QED BY <2>1 DEF Go!Promise!SupNext
<1>3. CASE Go!Advance
  <2>1. Go!Alive /\ Go!Alive' /\ pc' = pc /\ UNCHANGED <<status, expired, code>>
    BY <1>3, <1>p, GoTables DEF Go!Advance, Go!Alive
  <2> QED BY <2>1 DEF Go!Promise!supVars
<1>4. ASSUME NEW s \in Statuses, Go!LeaderEnds(s), Go!Alive PROVE Go!Promise!End
  BY <1>4, <1>p, <1>r, <1>e DEF Go!LeaderEnds, Go!Promise!End
<1>5. CASE Go!StageFails
  BY <1>5, <1>4, GoTables DEF Go!StageFails, Go!Alive, Go!Promise!SupNext
<1>6. ASSUME NEW s \in Statuses, Go!ScriptEnds(s) PROVE Go!Promise!End
  BY <1>6, <1>4 DEF Go!ScriptEnds, Go!Alive
<1>7. CASE Go!ScriptForks \/ Go!KidEnds
  <2>1. UNCHANGED <<pc, proc, status, expired, code>>
    BY <1>7 DEF Go!ScriptForks, Go!KidEnds
  <2> QED BY <2>1, <1>s, <1>p DEF Go!Promise!supVars
<1>8. CASE Go!Wait4
  <2>1. ~Go!Alive /\ ~Go!Alive' /\ UNCHANGED <<pc, status, expired, code>>
    BY <1>8, <1>s, <1>p DEF Go!Wait4
  <2> QED BY <2>1 DEF Go!Promise!supVars
<1>9. CASE Go!Deadline
  <2>1. Go!Promise!Expire
    BY <1>9, <1>s, <1>p DEF Go!Deadline, Go!Promise!Expire
  <2> QED BY <2>1 DEF Go!Promise!SupNext
<1>10. CASE Go!SelectDone
  <2>1. ws = status /\ ws \in Statuses \cup {Go!Killed} /\ ~Go!Alive
    BY <1>10, <1>s DEF Go!SelectDone, GoInv, GoStages, GoResults
  <2>2. code' = Go!Promise!ExitCode(status)
    BY <1>10, <2>1, ExitCodes DEF Go!SelectDone
  <2>3. Go!Promise!Answer
    BY <1>10, <2>1, <2>2 DEF Go!SelectDone, Go!Promise!Answer
  <2> QED BY <2>3 DEF Go!Promise!SupNext
<1>11. CASE Go!SelectDeadline
  <2>1. CASE Go!Alive
    <3>1. /\ pc = "select" /\ pc' = "drain" /\ expired /\ UNCHANGED <<expired, code>>
          /\ status' = Go!Killed /\ ~Go!Alive'
      BY <1>11, <2>1, <1>p DEF Go!SelectDeadline
    <3>2. Go!Promise!End
      BY <2>1, <3>1 DEF Go!Promise!End, Go!Promise!Killed, Go!Killed
    <3> QED BY <3>2 DEF Go!Promise!SupNext
  <2>2. CASE ~Go!Alive
    <3>1. /\ pc = "select" /\ pc' = "drain" /\ UNCHANGED <<status, expired, code, proc>>
      BY <1>11, <2>2 DEF Go!SelectDeadline
    <3> QED BY <2>2, <3>1, <1>s, <1>p DEF Go!Promise!supVars
  <2> QED BY <2>1, <2>2
<1>12. CASE Go!Drain
  <2>1. expired /\ ~Go!Alive
    BY <1>12, <1>s DEF Go!Drain, GoInv, GoStages
  <2>2. Go!Promise!Answer
    BY <1>12, <2>1 DEF Go!Drain, Go!Promise!Answer
  <2> QED BY <2>2 DEF Go!Promise!SupNext
<1>13. CASE Go!Terminated
  BY <1>13 DEF Go!Terminated, Go!vars, Go!Promise!supVars, Go!Alive
<1> QED BY <1>1, <1>2, <1>3, <1>5, <1>6, <1>7, <1>8, <1>9, <1>10, <1>11, <1>12, <1>13
        DEF Go!Next, Go!Main, Go!Group, Go!Promise!SupNext

\* cmdSandbox implements the supervisor, for every set of wait statuses: its
\* result is the exit code of the script, or 124 once the limit has passed and
\* the script is gone.
THEOREM GoRefinesSupervisor == Spec => SupSpec
<1>1. Init => Go!Promise!SupInit
  BY DEF Init, Go!Init, Go!Promise!SupInit, Go!Promise!NoStatus, Go!NoStatus, Go!Promise!NoCode, Go!NoCode
<1>2. SandboxInv /\ [Next]_vars => [Go!Promise!SupNext]_(Go!Promise!supVars)
  <2> SUFFICES ASSUME SandboxInv, [Next]_vars PROVE [Go!Promise!SupNext]_(Go!Promise!supVars)
      OBVIOUS
  <2>1. CASE IsGo /\ Go!Next
    BY <2>1, GoImplements DEF SandboxInv
  <2>2. CASE UNCHANGED goVars
    BY <2>2 DEF goVars, Go!Promise!supVars, Go!Alive
  <2> QED BY <2>1, <2>2 DEF Next, IsRust, vars
<1> QED BY <1>1, <1>2, Invariance, PTL DEF Spec, SupSpec, Go!SupSpec, Go!Promise!SupSpec

----------------------------------------------------------------------------
(* The seccomp programs.                                                    *)

List      == Whitelists[prog]
Listed(n) == \E i \in 1..Len(List) : List[i] = n

\* A clone that the list does not name: the low word of its first argument decides.
ByFlags == /\ call.arch /\ ~Listed(call.nr)
           /\ call.nr = SysClone \/ (prog = "go" /\ call.nr = SysClone3)

\* What is known of the system call when the instruction after the list is
\* reached that has offset t from its end.
TailKnows(t) ==
    /\ t \in 0..2 => call.arch /\ ~Listed(call.nr) /\ acc = call.nr
    /\ t = 1 => IF prog = "rust" THEN call.nr = SysClone ELSE call.nr # SysClone
    /\ t = 2 => call.nr # SysClone /\ ~(prog = "go" /\ call.nr = SysClone3)
    /\ t \in 3..7 => ByFlags
    /\ t \in 4..5 => acc = Bit(call.arg0)
    /\ t = 6 => ~call.arg0
    /\ t = 7 => call.arg0
    /\ t = 8 => ~call.arch

\* Where the machine is, and what it knows by then.
Where ==
    \/ at = 0
    \/ at = 1 /\ acc = Bit(call.arch)
    \/ at = 2 /\ call.arch
    \/ \E j \in 1..Len(List) : /\ at = 2 * j + 1 /\ call.arch /\ acc = call.nr
                               /\ \A i \in 1..Len(List) : i < j => List[i] # call.nr
    \/ \E j \in 1..Len(List) : at = 2 * j + 2 /\ call.arch /\ List[j] = call.nr
    \/ \E t \in 0..8 : at = Base(prog) + t /\ TailKnows(t)

FilterInv ==
    /\ Fits
    /\ prog \in {"rust", "go"} /\ call \in Calls
    /\ verdict = "none" => Where
    /\ VerdictCorrect

----------------------------------------------------------------------------
\* The instructions are records of one shape.
Insns == [op : {"ld", "and", "jeq", "ja", "ret"}, k : Nat, field : {"none", "arch", "nr", "arg0"},
          jt : Nat, jf : Nat, ret : {"none", "allow", "eperm", "kill"}]

\* Every instruction the builders write is one.
LEMMA InsnShapes ==
    /\ \A v, x, y \in Nat : Jeq(v, x, y) \in Insns
    /\ \A f \in {"arch", "nr", "arg0"} : Ld(f) \in Insns
    /\ \A n \in Nat : Ja(n) \in Insns
    /\ \A r \in {"allow", "eperm", "kill"} : Ret(r) \in Insns
    /\ And \in Insns
<1>1. ASSUME NEW v \in Nat, NEW x \in Nat, NEW y \in Nat PROVE Jeq(v, x, y) \in Insns
  <2>1. x % 256 \in Nat /\ y % 256 \in Nat
    OBVIOUS
  <2> QED BY <2>1 DEF Jeq, Insns
<1>2. ASSUME NEW f \in {"arch", "nr", "arg0"} PROVE Ld(f) \in Insns
  BY DEF Ld, Insns
<1>3. ASSUME NEW n \in Nat PROVE Ja(n) \in Insns
  BY DEF Ja, Insns
<1>4. ASSUME NEW r \in {"allow", "eperm", "kill"} PROVE Ret(r) \in Insns
  BY DEF Ret, Insns
<1>5. And \in Insns
  BY DEF And, Insns
<1> QED BY <1>1, <1>2, <1>3, <1>4, <1>5

\* The elements of two sequences put together.
LEMMA ConcatAt ==
    ASSUME NEW S, NEW s \in Seq(S), NEW t \in Seq(S)
    PROVE  /\ s \o t \in Seq(S) /\ Len(s \o t) = Len(s) + Len(t)
           /\ \A i \in 1..Len(s) : (s \o t)[i] = s[i]
           /\ \A i \in 1..Len(t) : (s \o t)[Len(s) + i] = t[i]
<1>1. /\ s \o t \in Seq(S) /\ Len(s \o t) = Len(s) + Len(t)
      /\ \A i \in 1..Len(s) + Len(t) : (s \o t)[i] = IF i <= Len(s) THEN s[i] ELSE t[i - Len(s)]
  BY ConcatProperties
<1>2. ASSUME NEW i \in 1..Len(s) PROVE (s \o t)[i] = s[i]
  <2>1. i \in 1..Len(s) + Len(t) /\ i <= Len(s)
    OBVIOUS
  <2> QED BY <1>1, <2>1
<1>3. ASSUME NEW i \in 1..Len(t) PROVE (s \o t)[Len(s) + i] = t[i]
  <2>1. Len(s) + i \in 1..Len(s) + Len(t) /\ ~(Len(s) + i <= Len(s)) /\ (Len(s) + i) - Len(s) = i
    OBVIOUS
  <2> QED BY <1>1, <2>1
<1> QED BY <1>1, <1>2, <1>3

\* A function on 1..n is a sequence.
LEMMA FunIsSeq ==
    ASSUME NEW S, NEW n \in Nat, NEW f \in [1..n -> S]
    PROVE  f \in Seq(S) /\ Len(f) = n
OBVIOUS

\* The last part of both programs.
LEMMA TailShape ==
    ASSUME NEW b \in {"rust", "go"}
    PROVE  LastPart(b) \in Seq(Insns) /\ Len(LastPart(b)) = 9
<1>1. /\ Jeq(56, 0, 1) \in Insns /\ Jeq(0, 0, 1) \in Insns /\ Jeq(56, 2, 0) \in Insns /\ Jeq(435, 1, 0) \in Insns
      /\ Ja(1) \in Insns /\ Ld("arg0") \in Insns /\ And \in Insns
      /\ Ret("allow") \in Insns /\ Ret("eperm") \in Insns /\ Ret("kill") \in Insns
  BY InsnShapes
<1>4. RustTail \in Seq(Insns) /\ Len(RustTail) = 9
  BY <1>1 DEF RustTail, SysClone
<1>5. GoTail \in Seq(Insns) /\ Len(GoTail) = 9
  BY <1>1 DEF GoTail, SysClone, SysClone3
<1> QED BY <1>4, <1>5 DEF LastPart

\* The instruction at every position of a program.
LEMMA ProgramAt ==
    ASSUME Fits, NEW b \in {"rust", "go"}
    PROVE  /\ Program(b)[1] = Ld("arch") /\ Program(b)[3] = Ld("nr")
           /\ Program(b)[2] = Jeq(1, 0, Base(b) + 6) /\ Base(b) \in Nat /\ Base(b) + 6 < 256
           /\ \A j \in 1..Len(Whitelists[b]) : /\ Program(b)[2 * j + 2] = Jeq(Whitelists[b][j], 0, 1)
                                               /\ Program(b)[2 * j + 3] = Ret("allow")
           /\ \A t \in 1..9 : Program(b)[Base(b) + t] = LastPart(b)[t]
<1> DEFINE W == Whitelists[b]
           H == <<Ld("arch"), Jeq(1, 0, KillOffset(b)), Ld("nr")>>
<1>1. W \in Seq(Nat) /\ Len(W) \in Nat /\ \A j \in 1..Len(W) : W[j] \in Nat
  BY DEF Fits
<1>2. Base(b) = 3 + 2 * Len(W) /\ Base(b) \in Nat /\ KillOffset(b) = Base(b) + 6 /\ KillOffset(b) < 256
  <2>1. Base(b) = 3 + 2 * Len(W) /\ Base(b) \in Nat
    BY <1>1 DEF Base
  <2>2. KillOffset(b) < 256 /\ KillOffset(b) = Base(b) + 6
    <3>1. KillOffset(b) < 256
      BY DEF Fits
    <3>2. Len(LastPart(b)) = 9
      BY TailShape
    <3>3. Base(b) + 8 - 2 = Base(b) + 6 /\ Base(b) + 9 - 3 = Base(b) + 6
      BY <2>1
    <3>4. KillOffset(b) = Base(b) + 6
      BY <3>2, <3>3 DEF KillOffset
    <3> QED BY <3>1, <3>4
  <2> QED BY <2>1, <2>2
<1>3. H \in Seq(Insns) /\ Len(H) = 3 /\ H[1] = Ld("arch") /\ H[2] = Jeq(1, 0, Base(b) + 6) /\ H[3] = Ld("nr")
  <2>1. Ld("arch") \in Insns /\ Ld("nr") \in Insns /\ Jeq(1, 0, KillOffset(b)) \in Insns
    BY <1>2, InsnShapes
  <2> QED BY <2>1, <1>2
<1>4. /\ Allows(b) \in Seq(Insns) /\ Len(Allows(b)) = 2 * Len(W)
      /\ \A j \in 1..Len(W) : Allows(b)[2 * j - 1] = Jeq(W[j], 0, 1) /\ Allows(b)[2 * j] = Ret("allow")
  <2>1. \A i \in 1..2 * Len(W) : i % 2 = 1 => (i + 1) \div 2 \in 1..Len(W)
    BY <1>1
  <2>2. \A v \in Nat : Jeq(v, 0, 1) \in Insns
    BY InsnShapes
  <2>3. Ret("allow") \in Insns
    BY InsnShapes
  <2>4. Allows(b) \in [1..2 * Len(W) -> Insns]
    BY <1>1, <2>1, <2>2, <2>3 DEF Allows
  <2>5. Allows(b) \in Seq(Insns) /\ Len(Allows(b)) = 2 * Len(W)
    <3>1. 2 * Len(W) \in Nat
      BY <1>1
    <3> HIDE DEF W
    <3> QED BY <2>4, <3>1, FunIsSeq
  <2>6. ASSUME NEW j \in 1..Len(W)
        PROVE  Allows(b)[2 * j - 1] = Jeq(W[j], 0, 1) /\ Allows(b)[2 * j] = Ret("allow")
    <3>1. 2 * j - 1 \in 1..2 * Len(W) /\ 2 * j \in 1..2 * Len(W)
      BY <1>1
    <3>2. (2 * j - 1) % 2 = 1 /\ ((2 * j - 1) + 1) \div 2 = j /\ (2 * j) % 2 # 1
      BY <1>1
    <3> QED BY <3>1, <3>2 DEF Allows
  <2> QED BY <2>5, <2>6
<1>5. LastPart(b) \in Seq(Insns) /\ Len(LastPart(b)) = 9
  BY TailShape
<1>6. Program(b) = H \o Allows(b) \o LastPart(b)
  BY DEF Program
<1> HIDE DEF H
<1>7. /\ H \o Allows(b) \in Seq(Insns) /\ Len(H \o Allows(b)) = Base(b)
      /\ \A i \in 1..3 : (H \o Allows(b))[i] = H[i]
      /\ \A i \in 1..(2 * Len(W)) : (H \o Allows(b))[3 + i] = Allows(b)[i]
  <2>1. H \in Seq(Insns) /\ Allows(b) \in Seq(Insns)
    BY <1>3, <1>4
  <2>2. /\ H \o Allows(b) \in Seq(Insns) /\ Len(H \o Allows(b)) = Len(H) + Len(Allows(b))
        /\ \A i \in 1..Len(H) : (H \o Allows(b))[i] = H[i]
        /\ \A i \in 1..Len(Allows(b)) : (H \o Allows(b))[Len(H) + i] = Allows(b)[i]
    BY <2>1, ConcatAt
  <2>3. Len(H) = 3 /\ Len(Allows(b)) = 2 * Len(W) /\ Base(b) = 3 + 2 * Len(W)
    BY <1>2, <1>3, <1>4
  <2> QED BY <2>2, <2>3, Zenon
<1>8. /\ \A i \in 1..Base(b) : Program(b)[i] = (H \o Allows(b))[i]
      /\ \A t \in 1..9 : Program(b)[Base(b) + t] = LastPart(b)[t]
  <2> DEFINE P == H \o Allows(b)
  <2>1. P \in Seq(Insns) /\ Len(P) = Base(b) /\ Program(b) = P \o LastPart(b)
    BY <1>6, <1>7
  <2> HIDE DEF P
  <2>2. /\ \A i \in 1..Len(P) : (P \o LastPart(b))[i] = P[i]
        /\ \A t \in 1..Len(LastPart(b)) : (P \o LastPart(b))[Len(P) + t] = LastPart(b)[t]
    <3>1. P \in Seq(Insns) /\ LastPart(b) \in Seq(Insns)
      BY <1>5, <2>1
    <3> DEFINE T == LastPart(b)
    <3> HIDE DEF T
    <3>2. P \in Seq(Insns) /\ T \in Seq(Insns)
      BY <3>1 DEF T
    <3>3. /\ \A i \in 1..Len(P) : (P \o T)[i] = P[i]
          /\ \A t \in 1..Len(T) : (P \o T)[Len(P) + t] = T[t]
      BY <3>2, ConcatAt
    <3> QED BY <3>3 DEF T
  <2>3. /\ \A i \in 1..Base(b) : Program(b)[i] = P[i]
        /\ \A t \in 1..9 : Program(b)[Base(b) + t] = LastPart(b)[t]
    BY <1>5, <2>1, <2>2, Zenon
  <2> QED BY <2>3 DEF P
<1>9. Program(b)[1] = H[1] /\ Program(b)[2] = H[2] /\ Program(b)[3] = H[3]
  <2>2. 1 \in 1..3 /\ 2 \in 1..3 /\ 3 \in 1..3
    OBVIOUS
  <2>3. \A i \in 1..3 : i \in 1..Base(b)
    BY <1>1, <1>2
  <2>4. \A i \in 1..3 : Program(b)[i] = H[i]
    BY <1>7, <1>8, <2>3, Zenon
  <2> QED BY <2>2, <2>4, Zenon
<1>10. ASSUME NEW j \in 1..Len(W)
       PROVE  Program(b)[2 * j + 2] = Jeq(W[j], 0, 1) /\ Program(b)[2 * j + 3] = Ret("allow")
  <2>1. 2 * j - 1 \in 1..2 * Len(W) /\ 2 * j \in 1..2 * Len(W) /\ 2 * j + 2 \in 1..Base(b) /\ 2 * j + 3 \in 1..Base(b)
    BY <1>1, <1>2
  <2>2. /\ (H \o Allows(b))[3 + (2 * j - 1)] = Allows(b)[2 * j - 1]
        /\ (H \o Allows(b))[3 + 2 * j] = Allows(b)[2 * j]
    BY <1>7, <2>1
  <2>3. 3 + (2 * j - 1) = 2 * j + 2 /\ 3 + 2 * j = 2 * j + 3
    BY <1>1
  <2> QED BY <1>4, <1>8, <2>1, <2>2, <2>3
<1> QED BY <1>2, <1>3, <1>8, <1>9, <1>10

----------------------------------------------------------------------------
\* What the machine does with an instruction.
Runs(i) ==
    /\ UNCHANGED <<prog, call>>
    /\ Load(i) \/ Mask(i) \/ Jump(i) \/ Return(i)

\* A load fills the accumulator.
LEMMA RunLd ==
    ASSUME NEW f, Runs(Ld(f))
    PROVE  UNCHANGED <<prog, call, verdict>> /\ at' = at + 1 /\ acc' = Field(f)
BY DEF Runs, Ld, Load, Mask, Jump, Return

\* The mask of the CLONE_NEW* bits leaves the abstract word as it is.
LEMMA RunAnd ==
    ASSUME Runs(And)
    PROVE  UNCHANGED <<prog, call, verdict, acc>> /\ at' = at + 1
BY DEF Runs, And, Load, Mask, Jump, Return

\* A conditional jump whose offsets fit into 8 bits goes where it says.
LEMMA RunJeq ==
    ASSUME NEW v, NEW x \in 0..255, NEW y \in 0..255, Runs(Jeq(v, x, y))
    PROVE  /\ UNCHANGED <<prog, call, verdict, acc>>
           /\ acc = v => at' = at + 1 + x
           /\ acc # v => at' = at + 1 + y
<1>1. x % 256 = x /\ y % 256 = y
  OBVIOUS
<1> QED BY <1>1 DEF Runs, Jeq, Load, Mask, Jump, Return

\* A jump skips n instructions.
LEMMA RunJa ==
    ASSUME NEW n, Runs(Ja(n))
    PROVE  UNCHANGED <<prog, call, verdict, acc>> /\ at' = at + 1 + n
BY DEF Runs, Ja, Load, Mask, Jump, Return

\* A return decides.
LEMMA RunRet ==
    ASSUME NEW r, Runs(Ret(r))
    PROVE  UNCHANGED <<prog, call, at, acc>> /\ verdict' = r
BY DEF Runs, Ret, Load, Mask, Jump, Return

\* The words of a system call.
LEMMA Fields ==
    /\ Field("arch") = Bit(call.arch) /\ Field("nr") = call.nr /\ Field("arg0") = Bit(call.arg0)
BY DEF Field

\* The expected verdict, case by case.
LEMMA ExpectedIs ==
    ASSUME FilterInv
    PROVE  /\ ~call.arch => Expected = "kill"
           /\ call.arch /\ Listed(call.nr) => Expected = "allow"
           /\ ByFlags /\ call.arg0 => Expected = "eperm"
           /\ ByFlags /\ ~call.arg0 => Expected = "allow"
           /\ (/\ call.arch /\ ~Listed(call.nr) /\ call.nr # SysClone
               /\ ~(prog = "go" /\ call.nr = SysClone3)) => Expected = "eperm"
<1>1. List \in Seq(Nat)
  BY DEF FilterInv, Fits, List
<1>2. InList <=> Listed(call.nr)
  BY <1>1 DEF InList, Listed, List
<1>3. call.nr = SysClone => (call.arg0 <=> call.newns)
  BY DEF FilterInv, Fits
<1>4. SysClone # SysClone3
  BY DEF SysClone, SysClone3
<1> QED BY <1>2, <1>3, <1>4 DEF Expected, ByFlags

\* An instruction that decides nothing leads to a known position.
LEMMA Moves ==
    ASSUME FilterInv, verdict = "none", UNCHANGED <<prog, call, verdict>>, Where'
    PROVE  FilterInv'
BY DEF FilterInv, VerdictCorrect

\* An instruction that decides must decide as promised.
LEMMA Decides ==
    ASSUME FilterInv, UNCHANGED <<prog, call>>, verdict' = Expected
    PROVE  FilterInv'
<1>1. Expected' = Expected
  BY DEF Expected, InList
<1>2. Expected # "none"
  BY DEF Expected
<1> QED BY <1>1, <1>2 DEF FilterInv, VerdictCorrect

\* What is known at a position of the last part is kept, and written down for
\* the next state, as long as the accumulator is.
LEMMA TailWhere ==
    ASSUME UNCHANGED <<prog, call>>, NEW t \in 0..8, at' = Base(prog) + t, TailKnows(t)'
    PROVE  Where'
BY DEF Where

\* The tests before the list, and the list.
LEMMA HeadStep ==
    ASSUME FilterInv, verdict = "none", Runs(Insn),
           \/ at \in 0..2 /\ (at = 1 => acc = Bit(call.arch)) /\ (at = 2 => call.arch)
           \/ \E j \in 1..Len(List) : /\ at = 2 * j + 1 /\ call.arch /\ acc = call.nr
                                      /\ \A i \in 1..Len(List) : i < j => List[i] # call.nr
           \/ \E j \in 1..Len(List) : at = 2 * j + 2 /\ call.arch /\ List[j] = call.nr
    PROVE  FilterInv'
<1>f. Fits /\ prog \in {"rust", "go"}
  BY DEF FilterInv
<1>l. List \in Seq(Nat) /\ Len(List) \in Nat /\ Base(prog) = 3 + 2 * Len(List)
  BY <1>f DEF Fits, List, Base
<1>p. /\ Program(prog)[1] = Ld("arch") /\ Program(prog)[3] = Ld("nr")
      /\ Program(prog)[2] = Jeq(1, 0, Base(prog) + 6) /\ Base(prog) \in Nat /\ Base(prog) + 6 < 256
      /\ \A j \in 1..Len(List) : /\ Program(prog)[2 * j + 2] = Jeq(List[j], 0, 1)
                                 /\ Program(prog)[2 * j + 3] = Ret("allow")
  BY <1>f, ProgramAt DEF List
<1>c. call.arch \in BOOLEAN /\ call.nr \in Nat /\ call.arg0 \in BOOLEAN
  BY DEF FilterInv, Fits
<1>1. CASE at = 0
  <2>1. Insn = Ld("arch")
    BY <1>1, <1>p DEF Insn
  <2>2. UNCHANGED <<prog, call, verdict>> /\ at' = 1 /\ acc' = Bit(call.arch)
    BY <1>1, <2>1, RunLd, Fields
  <2>3. Where'
    BY <2>2 DEF Where, Bit
  <2> QED BY <2>2, <2>3, Moves
<1>2. CASE at = 1 /\ acc = Bit(call.arch)
  <2>1. Insn = Jeq(1, 0, Base(prog) + 6)
    <3>1. at + 1 = 2
      BY <1>2
    <3> QED BY <3>1, <1>p DEF Insn
  <2>2. /\ UNCHANGED <<prog, call, verdict, acc>>
        /\ acc = 1 => at' = at + 1 + 0
        /\ acc # 1 => at' = at + 1 + (Base(prog) + 6)
    <3>1. 0 \in 0..255 /\ Base(prog) + 6 \in 0..255
      <4>1. Base(prog) \in Nat /\ Base(prog) + 6 < 256
        BY <1>p, Zenon
      <4>2. 0 \in 0..255 /\ \A n \in Nat : n + 6 < 256 => n + 6 \in 0..255
        OBVIOUS
      <4> QED BY <4>1, <4>2, Zenon
    <3>2. Runs(Jeq(1, 0, Base(prog) + 6))
      BY <2>1, Zenon
    <3> QED BY <3>1, <3>2, RunJeq, Zenon
  <2>3. Where'
    <3>1. CASE call.arch
      <4>1. at' = 2
        BY <1>2, <2>2, <3>1 DEF Bit
      <4> QED BY <2>2, <3>1, <4>1 DEF Where
    <3>2. CASE ~call.arch
      <4>1. at' = Base(prog) + 8
        BY <1>2, <1>p, <2>2, <3>2 DEF Bit
      <4>2. TailKnows(8)'
        BY <2>2, <3>2 DEF TailKnows
      <4> QED BY <2>2, <4>1, <4>2, TailWhere
    <3> QED BY <3>1, <3>2
  <2> QED BY <2>2, <2>3, Moves
<1>a. ASSUME NEW j \in Nat, j <= Len(List), at' = 2 * j + 3, UNCHANGED <<prog, call>>, call.arch,
             acc' = call.nr, \A i \in 1..Len(List) : i <= j => List[i] # call.nr
      PROVE  Where'
  <2>1. CASE j < Len(List)
    <3>1. j + 1 \in 1..Len(List) /\ at' = 2 * (j + 1) + 1
      BY <1>a, <1>l, <2>1
    <3>2. \A i \in 1..Len(List) : i < j + 1 => List[i] # call.nr
      BY <1>a, <1>l
    <3>3. List' = List
      BY <1>a DEF List
    <3> QED BY <1>a, <3>1, <3>2, <3>3 DEF Where
  <2>2. CASE j = Len(List)
    <3>1. at' = Base(prog) + 0
      BY <1>a, <1>l, <2>2
    <3>2. ~Listed(call.nr)
      BY <1>a, <1>l, <2>2 DEF Listed
    <3>3. TailKnows(0)'
      BY <1>a, <3>2 DEF TailKnows, Listed, List
    <3> QED BY <1>a, <3>1, <3>3, TailWhere
  <2> QED BY <1>a, <1>l, <2>1, <2>2
<1>3. CASE at = 2 /\ call.arch
  <2>1. Insn = Ld("nr")
    BY <1>3, <1>p DEF Insn
  <2>2. UNCHANGED <<prog, call, verdict>> /\ at' = 2 * 0 + 3 /\ acc' = call.nr
    BY <1>3, <2>1, RunLd, Fields
  <2>3. Where'
    BY <1>3, <1>a, <1>l, <2>2
  <2> QED BY <2>2, <2>3, Moves
<1>4. ASSUME NEW j \in 1..Len(List), at = 2 * j + 1, call.arch, acc = call.nr,
             \A i \in 1..Len(List) : i < j => List[i] # call.nr
      PROVE  FilterInv'
  <2>1. Insn = Jeq(List[j], 0, 1)
    <3>1. at + 1 = 2 * j + 2
      BY <1>4, <1>l
    <3> QED BY <3>1, <1>p DEF Insn
  <2>2. /\ UNCHANGED <<prog, call, verdict, acc>>
        /\ acc = List[j] => at' = at + 1 + 0
        /\ acc # List[j] => at' = at + 1 + 1
    <3>1. 0 \in 0..255 /\ 1 \in 0..255
      OBVIOUS
    <3>2. Runs(Jeq(List[j], 0, 1))
      BY <2>1, Zenon
    <3> QED BY <3>1, <3>2, RunJeq, Zenon
  <2>3. Where'
    <3>1. CASE call.nr = List[j]
      <4>1. at' = 2 * j + 2
        BY <1>4, <1>l, <2>2, <3>1
      <4>2. List' = List
        BY <2>2 DEF List
      <4> QED BY <1>4, <2>2, <3>1, <4>1, <4>2 DEF Where
    <3>2. CASE call.nr # List[j]
      <4>1. at' = 2 * j + 3 /\ j \in Nat /\ j <= Len(List)
        BY <1>4, <1>l, <2>2, <3>2
      <4>2. \A i \in 1..Len(List) : i <= j => List[i] # call.nr
        <5>1. \A i \in 1..Len(List) : i <= j => i < j \/ i = j
          BY <1>l
        <5> QED BY <1>4, <3>2, <5>1, Zenon
      <4> QED BY <1>4, <1>a, <2>2, <4>1, <4>2
    <3> QED BY <3>1, <3>2
  <2> QED BY <2>2, <2>3, Moves
<1>5. ASSUME NEW j \in 1..Len(List), at = 2 * j + 2, call.arch, List[j] = call.nr
      PROVE  FilterInv'
  <2>1. Insn = Ret("allow")
    <3>1. at + 1 = 2 * j + 3
      BY <1>5, <1>l
    <3> QED BY <3>1, <1>p DEF Insn
  <2>2. UNCHANGED <<prog, call>> /\ verdict' = "allow"
    BY <2>1, RunRet
  <2>3. Expected = "allow"
    BY <1>5, ExpectedIs DEF Listed
  <2> QED BY <2>2, <2>3, Decides
<1> QED BY <1>1, <1>2, <1>3, <1>4, <1>5

\* What a step of the last part needs to know of the program and the call.
LEMMA TailInsn ==
    ASSUME FilterInv, NEW t \in 0..8, at = Base(prog) + t
    PROVE  /\ Insn = LastPart(prog)[t + 1] /\ Base(prog) \in Nat
           /\ call.arch \in BOOLEAN /\ call.arg0 \in BOOLEAN /\ prog \in {"rust", "go"}
<1>1. Fits /\ prog \in {"rust", "go"}
  BY DEF FilterInv
<1>2. Base(prog) \in Nat /\ \A u \in 1..9 : Program(prog)[Base(prog) + u] = LastPart(prog)[u]
  BY <1>1, ProgramAt
<1>3. t + 1 \in 1..9 /\ at + 1 = Base(prog) + (t + 1)
  BY <1>2
<1>4. call.arch \in BOOLEAN /\ call.arg0 \in BOOLEAN
  BY DEF FilterInv, Fits
<1> QED BY <1>1, <1>2, <1>3, <1>4 DEF Insn

\* The instructions of the last part, by their offset from its start.
LEMMA TailIs ==
    /\ LastPart("rust")[1] = Jeq(SysClone, 0, 1) /\ LastPart("rust")[2] = Ja(1)
    /\ LastPart("go")[1] = Jeq(SysClone, 2, 0) /\ LastPart("go")[2] = Jeq(SysClone3, 1, 0)
    /\ \A b \in {"rust", "go"} :
        /\ LastPart(b)[3] = Ret("eperm") /\ LastPart(b)[4] = Ld("arg0") /\ LastPart(b)[5] = And
        /\ LastPart(b)[6] = Jeq(0, 0, 1) /\ LastPart(b)[7] = Ret("allow")
        /\ LastPart(b)[8] = Ret("eperm") /\ LastPart(b)[9] = Ret("kill")
BY DEF LastPart, RustTail, GoTail

\* A conditional jump of the last part goes on in the last part.
LEMMA TailJeq ==
    ASSUME FilterInv, verdict = "none", NEW t \in 0..8, at = Base(prog) + t,
           NEW k, NEW x \in 0..2, NEW y \in 0..2, Runs(Jeq(k, x, y)), t + 1 + x \in 0..8, t + 1 + y \in 0..8,
           acc = k => TailKnows(t + 1 + x), acc # k => TailKnows(t + 1 + y)
    PROVE  FilterInv'
<1>1. Base(prog) \in Nat
  BY TailInsn
<1>2. x \in 0..255 /\ y \in 0..255
  OBVIOUS
<1>3. /\ UNCHANGED <<prog, call, verdict, acc>>
      /\ acc = k => at' = at + 1 + x
      /\ acc # k => at' = at + 1 + y
  BY <1>2, RunJeq, Zenon
<1>4. \A u \in 0..8 : TailKnows(u) => TailKnows(u)'
  BY <1>3 DEF TailKnows, ByFlags, Listed, List
<1>5. CASE acc = k
  <2>1. at' = Base(prog) + (t + 1 + x)
    BY <1>1, <1>3, <1>5
  <2>2. TailKnows(t + 1 + x)'
    BY <1>4, <1>5
  <2>3. Where'
    BY <1>3, <2>1, <2>2, TailWhere
  <2> QED BY <1>3, <2>3, Moves
<1>6. CASE acc # k
  <2>1. at' = Base(prog) + (t + 1 + y)
    BY <1>1, <1>3, <1>6
  <2>2. TailKnows(t + 1 + y)'
    BY <1>4, <1>6
  <2>3. Where'
    BY <1>3, <2>1, <2>2, TailWhere
  <2> QED BY <1>3, <2>3, Moves
<1> QED BY <1>5, <1>6

\* The tests for clone and what follows them.
LEMMA TailStep ==
    ASSUME FilterInv, verdict = "none", Runs(Insn), NEW t \in 0..8, at = Base(prog) + t, TailKnows(t)
    PROVE  FilterInv'
<1>i. /\ Insn = LastPart(prog)[t + 1] /\ Base(prog) \in Nat
      /\ call.arch \in BOOLEAN /\ call.arg0 \in BOOLEAN /\ prog \in {"rust", "go"}
  BY TailInsn
<1>0. CASE t = 0
  <2>1. call.arch /\ ~Listed(call.nr) /\ acc = call.nr
    BY <1>0 DEF TailKnows
  <2>2. CASE prog = "rust"
    <3>1. Runs(Jeq(SysClone, 0, 1))
      BY <1>0, <1>i, <2>2, TailIs
    <3>2. acc = SysClone => TailKnows(1)
      BY <2>1, <2>2 DEF TailKnows
    <3>3. acc # SysClone => TailKnows(2)
      BY <2>1, <2>2 DEF TailKnows
    <3>4. t + 1 + 0 = 1 /\ t + 1 + 1 = 2
      BY <1>0
    <3>5. 0 \in 0..2 /\ 1 \in 0..2 /\ 1 \in 0..8 /\ 2 \in 0..8
      OBVIOUS
    <3> QED BY <3>1, <3>2, <3>3, <3>4, <3>5, TailJeq, Zenon
  <2>3. CASE prog = "go"
    <3>1. Runs(Jeq(SysClone, 2, 0))
      BY <1>0, <1>i, <2>3, TailIs
    <3>2. acc = SysClone => TailKnows(3)
      BY <2>1, <2>3 DEF TailKnows, ByFlags
    <3>3. acc # SysClone => TailKnows(1)
      BY <2>1, <2>3 DEF TailKnows
    <3>4. t + 1 + 2 = 3 /\ t + 1 + 0 = 1
      BY <1>0
    <3>5. 0 \in 0..2 /\ 2 \in 0..2 /\ 1 \in 0..8 /\ 3 \in 0..8
      OBVIOUS
    <3> QED BY <3>1, <3>2, <3>3, <3>4, <3>5, TailJeq, Zenon
  <2> QED BY <1>i, <2>2, <2>3
<1>1. CASE t = 1
  <2>1. /\ call.arch /\ ~Listed(call.nr) /\ acc = call.nr
        /\ IF prog = "rust" THEN call.nr = SysClone ELSE call.nr # SysClone
    BY <1>1 DEF TailKnows
  <2>2. CASE prog = "rust"
    <3>1. Runs(Ja(1))
      BY <1>1, <1>i, <2>2, TailIs
    <3>2. UNCHANGED <<prog, call, verdict, acc>> /\ at' = at + 1 + 1
      BY <3>1, RunJa
    <3>3. at' = Base(prog) + 3
      BY <1>1, <1>i, <3>2
    <3>4. TailKnows(3)'
      BY <2>1, <2>2, <3>2 DEF TailKnows, ByFlags, Listed, List
    <3>5. Where'
      BY <3>2, <3>3, <3>4, TailWhere
    <3> QED BY <3>2, <3>5, Moves
  <2>3. CASE prog = "go"
    <3>1. Runs(Jeq(SysClone3, 1, 0))
      BY <1>1, <1>i, <2>3, TailIs
    <3>2. acc = SysClone3 => TailKnows(3)
      BY <2>1, <2>3 DEF TailKnows, ByFlags
    <3>3. acc # SysClone3 => TailKnows(2)
      BY <2>1, <2>3 DEF TailKnows
    <3>4. t + 1 + 1 = 3 /\ t + 1 + 0 = 2
      BY <1>1
    <3>5. 0 \in 0..2 /\ 1 \in 0..2 /\ 2 \in 0..8 /\ 3 \in 0..8
      OBVIOUS
    <3> QED BY <3>1, <3>2, <3>3, <3>4, <3>5, TailJeq, Zenon
  <2> QED BY <1>i, <2>2, <2>3
<1>2. CASE t = 2
  <2>1. UNCHANGED <<prog, call>> /\ verdict' = "eperm"
    <3>1. Runs(Ret("eperm"))
      BY <1>2, <1>i, TailIs
    <3> QED BY <3>1, RunRet
  <2>2. Expected = "eperm"
    BY <1>2, ExpectedIs DEF TailKnows
  <2> QED BY <2>1, <2>2, Decides
<1>3. CASE t = 3
  <2>1. UNCHANGED <<prog, call, verdict>> /\ at' = at + 1 /\ acc' = Bit(call.arg0)
    <3>1. Runs(Ld("arg0"))
      BY <1>3, <1>i, TailIs
    <3> QED BY <3>1, RunLd, Fields
  <2>2. at' = Base(prog) + 4
    BY <1>3, <1>i, <2>1
  <2>3. TailKnows(4)'
    BY <1>3, <2>1 DEF TailKnows, ByFlags, Listed, List, Bit
  <2>4. Where'
    BY <2>1, <2>2, <2>3, TailWhere
  <2> QED BY <2>1, <2>4, Moves
<1>4. CASE t = 4
  <2>1. UNCHANGED <<prog, call, verdict, acc>> /\ at' = at + 1
    <3>1. Runs(And)
      BY <1>4, <1>i, TailIs
    <3> QED BY <3>1, RunAnd
  <2>2. at' = Base(prog) + 5
    BY <1>4, <1>i, <2>1
  <2>3. TailKnows(5)'
    BY <1>4, <2>1 DEF TailKnows, ByFlags, Listed, List, Bit
  <2>4. Where'
    BY <2>1, <2>2, <2>3, TailWhere
  <2> QED BY <2>1, <2>4, Moves
<1>5. CASE t = 5
  <2>1. Runs(Jeq(0, 0, 1))
    BY <1>5, <1>i, TailIs
  <2>2. ByFlags /\ acc = Bit(call.arg0)
    BY <1>5 DEF TailKnows
  <2>3. acc = 0 => TailKnows(6)
    BY <1>i, <2>2 DEF TailKnows, Bit
  <2>4. acc # 0 => TailKnows(7)
    BY <1>i, <2>2 DEF TailKnows, Bit
  <2>5. t + 1 + 0 = 6 /\ t + 1 + 1 = 7
    BY <1>5
  <2>6. 0 \in 0..2 /\ 1 \in 0..2 /\ 6 \in 0..8 /\ 7 \in 0..8
    OBVIOUS
  <2> QED BY <2>1, <2>3, <2>4, <2>5, <2>6, TailJeq, Zenon
<1>6. CASE t = 6
  <2>1. UNCHANGED <<prog, call>> /\ verdict' = "allow"
    <3>1. Runs(Ret("allow"))
      BY <1>6, <1>i, TailIs
    <3> QED BY <3>1, RunRet
  <2>2. Expected = "allow"
    BY <1>6, ExpectedIs DEF TailKnows
  <2> QED BY <2>1, <2>2, Decides
<1>7. CASE t = 7
  <2>1. UNCHANGED <<prog, call>> /\ verdict' = "eperm"
    <3>1. Runs(Ret("eperm"))
      BY <1>7, <1>i, TailIs
    <3> QED BY <3>1, RunRet
  <2>2. Expected = "eperm"
    BY <1>7, ExpectedIs DEF TailKnows
  <2> QED BY <2>1, <2>2, Decides
<1>8. CASE t = 8
  <2>1. UNCHANGED <<prog, call>> /\ verdict' = "kill"
    <3>1. Runs(Ret("kill"))
      BY <1>8, <1>i, TailIs
    <3> QED BY <3>1, RunRet
  <2>2. Expected = "kill"
    BY <1>8, ExpectedIs DEF TailKnows
  <2> QED BY <2>1, <2>2, Decides
<1>9. t \in {0, 1, 2, 3, 4, 5, 6, 7, 8}
  OBVIOUS
<1> QED BY <1>0, <1>1, <1>2, <1>3, <1>4, <1>5, <1>6, <1>7, <1>8, <1>9, Zenon

----------------------------------------------------------------------------
\* The program starts at its first instruction, knowing nothing.
LEMMA FilterInitInv ==
    ASSUME Fits, FilterInit
    PROVE  FilterInv
BY DEF FilterInit, FilterInv, Where, VerdictCorrect

\* Every instruction keeps what is known.
LEMMA FilterNextInv ==
    ASSUME FilterInv, [FilterNext]_filter
    PROVE  FilterInv'
<1>1. CASE UNCHANGED filter
  <2>1. Where => Where'
    BY <1>1 DEF filter, Where, TailKnows, ByFlags, Listed, List
  <2>2. VerdictCorrect'
    BY <1>1 DEF filter, VerdictCorrect, Expected, InList, FilterInv
  <2> QED BY <1>1, <2>1, <2>2 DEF filter, FilterInv
<1>2. CASE verdict = "none" /\ Runs(Insn)
  <2>1. Where
    BY <1>2 DEF FilterInv
  <2>2. CASE \E t \in 0..8 : at = Base(prog) + t /\ TailKnows(t)
    BY <1>2, <2>2, TailStep, Zenon
  <2>3. CASE \/ at \in 0..2 /\ (at = 1 => acc = Bit(call.arch)) /\ (at = 2 => call.arch)
             \/ \E j \in 1..Len(List) : /\ at = 2 * j + 1 /\ call.arch /\ acc = call.nr
                                        /\ \A i \in 1..Len(List) : i < j => List[i] # call.nr
             \/ \E j \in 1..Len(List) : at = 2 * j + 2 /\ call.arch /\ List[j] = call.nr
    BY <1>2, <2>3, HeadStep, Zenon
  <2>4. 0 \in 0..2 /\ 1 \in 0..2 /\ 2 \in 0..2 /\ 0 # 1 /\ 0 # 2 /\ 1 # 2
    OBVIOUS
  <2> QED BY <2>1, <2>2, <2>3, <2>4, Zenon DEF Where
<1> QED BY <1>1, <1>2 DEF FilterNext, Runs

\* The invariant holds in every reachable state.
LEMMA FilterInvariance == Fits /\ FilterSpec => []FilterInv
<1>1. Fits /\ FilterInit => FilterInv
  BY FilterInitInv
<1>2. FilterInv /\ [FilterNext]_filter => FilterInv'
  BY FilterNextInv
<1> QED BY <1>1, <1>2, PTL DEF FilterSpec

\* Whatever the lists hold, as long as the jump over them fits into its 8 bits:
\* a program of build_bpf or buildSandboxBpf that returns has decided the
\* system call as the list, the architecture and the tail of the program stand
\* for: a clone by its flags, a clone3 of the Go build by the low word of its
\* first argument, which is not where its flags are (FlagsDecide).
THEOREM VerdictsRight == Fits /\ FilterSpec => []VerdictCorrect
<1>1. FilterInv => VerdictCorrect
  BY DEF FilterInv
<1> QED BY <1>1, FilterInvariance, PTL
=============================================================================
