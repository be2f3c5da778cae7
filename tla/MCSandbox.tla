----------------------------- MODULE MCSandbox -----------------------------
(* Three instances for TLC, in behaviours of their own: part "sandbox" is    *)
(* both builds of fly-sandboxd; part "filter" runs the seccomp programs of   *)
(* both, with their whole lists, for every number around them; part "cage"   *)
(* is what a Fly program does to confine its own functions, Cage.            *)
EXTENDS Sandbox, SeccompFilter, Cage

VARIABLE part

\* The exit codes of the stages, an exit code 124 of the script's own, and
\* the signals of RLIMIT_CPU (24), of a crash (11) and of a kill (9).
MCStatuses ==
    {[kind |-> "exit", n |-> n] : n \in {0, 1, 2, 3, 124, 127}} \cup
    {[kind |-> "signal", n |-> n] : n \in {9, 11, 24}}

RustWhitelist == <<
    0, 1, 3, 5, 8, 9, 10, 11, 12, 13, 14, 15, 16, 17, 18, 19, 20, 21, 22, 25,
    28, 32, 33, 35, 39, 41, 57, 59, 60, 61, 62, 63, 72, 73, 74, 77, 78, 79,
    80, 81, 83, 84, 86, 87, 89, 90, 91, 92, 93, 94, 95, 96, 98, 99, 102, 104,
    107, 108, 110, 115, 116, 124, 131, 137, 138, 141, 158, 186, 202, 204, 217,
    218, 219, 228, 229, 230, 231, 232, 233, 234, 257, 258, 260, 261, 262, 263,
    264, 265, 266, 267, 268, 269, 280, 288, 290, 291, 292, 293, 295, 296, 297,
    302, 318, 332, 334, 437 >>

GoWhitelist == <<
    0, 1, 3, 5, 8, 9, 10, 11, 12, 13, 14, 15, 16, 17, 18, 19, 20, 21, 22, 25,
    28, 32, 33, 35, 38, 39, 41, 57, 59, 60, 61, 62, 63, 72, 73, 74, 77, 78,
    79, 80, 81, 83, 84, 86, 87, 89, 90, 91, 92, 93, 94, 95, 96, 98, 99, 102,
    104, 107, 108, 110, 115, 116, 124, 131, 137, 138, 141, 158, 186, 202, 204,
    217, 218, 219, 228, 229, 230, 231, 232, 233, 234, 257, 258, 260, 261, 262,
    263, 264, 265, 266, 267, 268, 269, 280, 288, 290, 291, 292, 293, 295, 296,
    297, 302, 318, 332, 334, 437 >>

MCWhitelists == [rust |-> RustWhitelist, go |-> GoWhitelist]

\* Every number, and the first, clone, clone3 and the last of the lists with
\* another architecture and with CLONE_NEW* bits, in the first argument and in
\* the flags, which for clone are the same.
MCCalls ==
    [arch : {TRUE}, nr : 0..450, arg0 : {FALSE}, newns : {FALSE}] \cup
    [arch : BOOLEAN, nr : {0, 435, 437}, arg0 : BOOLEAN, newns : BOOLEAN] \cup
    UNION {[arch : BOOLEAN, nr : {56}, arg0 : {b}, newns : {b}] : b \in BOOLEAN}

\* The lists of the sources are short enough.
ASSUME ListsFit == Fits

allvars == <<part, vars, filter, cage>>
InSandbox(A) == part = "sandbox" /\ A /\ UNCHANGED <<part, filter, cage>>
InFilter(A)  == part = "filter" /\ A /\ UNCHANGED <<part, vars, cage>>
InCage(A)    == part = "cage" /\ A /\ UNCHANGED <<part, vars, filter>>

\* The program has made its calls, and ends.
CageEnded == stack = <<>> /\ calls = MaxCalls /\ raising = "no" /\ UNCHANGED cage

MCInit ==
    /\ part \in {"sandbox", "filter", "cage"} /\ Init /\ FilterInit /\ CageInit
    /\ part # "filter" => prog = "go" /\ call = [arch |-> TRUE, nr |-> 0, arg0 |-> FALSE, newns |-> FALSE]
    /\ part # "sandbox" => build = "go" /\ ~debugNS
MCNext == InSandbox(Next) \/ InFilter(FilterNext) \/ InCage(CageNext) \/ InCage(CageEnded)
MCSpec ==
    /\ MCInit /\ [][MCNext]_allvars
    /\ \A a \in {"main", "wait4", "deadline"} : WF_allvars(InSandbox(GoPart(a)))
    /\ \A a \in {"parent", "child", "deadline"} : WF_allvars(InSandbox(RustPart(a)))
    /\ WF_allvars(InCage(Wrapper)) /\ WF_allvars(InCage(Alarm))

\* Every run of fly-sandboxd returns.
SandboxReturns == part = "sandbox" => Returns
=============================================================================
