----------------------------- MODULE Supervisor -----------------------------
(***************************************************************************)
(* What a fly-sandboxd promises of a script under a wall-clock limit: its  *)
(* exit code is the script's, or 124 when the limit passed and the script  *)
(* is gone.                                                                *)
(***************************************************************************)
EXTENDS Integers

CONSTANT Statuses   \* wait statuses: [kind : {"exit", "signal"}, n : Nat]

VARIABLES
    phase,     \* "init", "running", "ended" or "over"
    status,    \* the wait status of the script
    expired,   \* the limit has passed
    code       \* the exit code of fly-sandboxd, or NoCode

supVars == <<phase, status, expired, code>>

NoCode   == -1
NoStatus == [kind |-> "none", n |-> 0]
Killed   == [kind |-> "signal", n |-> 9]

\* The usual exit code of a wait status.
ExitCode(s) == IF s.kind = "signal" THEN 128 + s.n ELSE s.n

SupInit == phase = "init" /\ status = NoStatus /\ expired = FALSE /\ code = NoCode

\* Bad arguments, no such script, no process: nothing is run.
Refuse ==
    /\ phase = "init" /\ phase' = "over"
    /\ code' \in {1, 2}
    /\ UNCHANGED <<status, expired>>

Begin == phase = "init" /\ phase' = "running" /\ UNCHANGED <<status, expired, code>>

\* The script ends by itself, or is killed once the limit has passed.
End ==
    /\ phase = "running" /\ phase' = "ended"
    /\ status' \in Statuses \cup (IF expired THEN {Killed} ELSE {})
    /\ UNCHANGED <<expired, code>>

Expire == phase \in {"running", "ended"} /\ ~expired /\ expired' = TRUE /\ UNCHANGED <<phase, status, code>>

Answer ==
    /\ phase = "ended" /\ phase' = "over"
    /\ code' = ExitCode(status) \/ (expired /\ code' = 124)
    /\ UNCHANGED <<status, expired>>

SupNext == Refuse \/ Begin \/ End \/ Expire \/ Answer

SupSpec == SupInit /\ [][SupNext]_supVars
=============================================================================
