---------------------------- MODULE SeccompFilter ----------------------------
(***************************************************************************)
(* The seccomp programs of the two sandboxes: build_bpf of                 *)
(* fly-sandboxd/src/main.rs and buildSandboxBpf of                         *)
(* cmd/fly-sandboxd/sandbox.go, run by the kernel's BPF machine on a       *)
(* system call.  Conditional jumps have offsets of 8 bits, the kernel      *)
(* refuses programs that jump out of themselves, and a jump skips the      *)
(* instructions after the next one.                                        *)
(***************************************************************************)
EXTENDS Integers, Sequences

CONSTANTS
    Whitelists,  \* SYS (of "rust") and sandboxSysWhitelist (of "go"), in order
    Calls        \* the system calls to try: [arch, arg0, newns : BOOLEAN, nr : Nat];
                 \* arg0: the low word of the first argument has a CLONE_NEW* bit;
                 \* newns: the flags of the call, wherever it has them, ask for one

VARIABLES
    prog,     \* which of the two programs is installed
    call,     \* the system call
    at,       \* the next instruction, from 0
    acc,      \* the accumulator
    verdict   \* "none", or what the program returned

filter == <<prog, call, at, acc, verdict>>

SysClone  == 56
SysClone3 == 435

\* Instructions: load a word of the system call, AND with the CLONE_NEW* bits
\* (of the first argument only these matter: 1 if its low word has any), jump
\* if equal, jump, return a verdict.
Ld(f)           == [op |-> "ld",  k |-> 0, field |-> f, jt |-> 0, jf |-> 0, ret |-> "none"]
And             == [op |-> "and", k |-> 0, field |-> "none", jt |-> 0, jf |-> 0, ret |-> "none"]
Jeq(v, jt, jf)  == [op |-> "jeq", k |-> v, field |-> "none", jt |-> jt % 256, jf |-> jf % 256, ret |-> "none"]
Ja(n)           == [op |-> "ja",  k |-> n, field |-> "none", jt |-> 0, jf |-> 0, ret |-> "none"]
Ret(r)          == [op |-> "ret", k |-> 0, field |-> "none", jt |-> 0, jf |-> 0, ret |-> r]

\* One jeq and one ret for every allowed system call.
Allows(b) == [i \in 1..2 * Len(Whitelists[b]) |->
                IF i % 2 = 1 THEN Jeq(Whitelists[b][(i + 1) \div 2], 0, 1) ELSE Ret("allow")]

\* clone only without CLONE_NEW* bits; anything else is refused.
RustTail ==
    <<Jeq(SysClone, 0, 1), Ja(1), Ret("eperm"), Ld("arg0"), And, Jeq(0, 0, 1),
      Ret("allow"), Ret("eperm"), Ret("kill")>>

\* Faulty variant of GoTail: clone jumps to the refusal.
GoTailNear ==
    <<Jeq(SysClone, 1, 0), Jeq(SysClone3, 1, 0), Ret("eperm"), Ld("arg0"), And,
      Jeq(0, 0, 1), Ret("allow"), Ret("eperm"), Ret("kill")>>

\* clone and clone3, in the same way: the word that is tested is the first
\* argument, of clone its flags and of clone3 the address of a structure with
\* its flags.
GoTail ==
    <<Jeq(SysClone, 2, 0), Jeq(SysClone3, 1, 0), Ret("eperm"), Ld("arg0"), And,
      Jeq(0, 0, 1), Ret("allow"), Ret("eperm"), Ret("kill")>>

LastPart(b) == IF b = "rust" THEN RustTail ELSE GoTail
Base(b) == 3 + 2 * Len(Whitelists[b])

\* The jump of the architecture test to the last instruction, filled in when
\* the length of the program is known.
KillOffset(b) == IF b = "rust" THEN Base(b) + 8 - 2 ELSE Base(b) + Len(LastPart(b)) - 3

Program(b) == <<Ld("arch"), Jeq(1, 0, KillOffset(b)), Ld("nr")>> \o Allows(b) \o LastPart(b)

\* What the builders rely on: the lists hold system call numbers, and are short
\* enough for the jump over them to fit into 8 bits; and what the kernel says of
\* clone, that its first argument is its flags.
Fits ==
    /\ Whitelists \in [{"rust", "go"} -> Seq(Nat)]
    /\ \A b \in {"rust", "go"} : KillOffset(b) < 256
    /\ Calls \subseteq [arch : BOOLEAN, nr : Nat, arg0 : BOOLEAN, newns : BOOLEAN]
    /\ \A c \in Calls : c.nr = SysClone => (c.arg0 <=> c.newns)

FilterInit == prog \in {"rust", "go"} /\ call \in Calls /\ at = 0 /\ acc = 0 /\ verdict = "none"

Bit(b)   == IF b THEN 1 ELSE 0
Field(f) == [arch |-> Bit(call.arch), nr |-> call.nr, arg0 |-> Bit(call.arg0)][f]

Insn == Program(prog)[at + 1]

\* The BPF machine of the kernel.
Load(i) == i.op = "ld" /\ acc' = Field(i.field) /\ at' = at + 1 /\ UNCHANGED verdict
Mask(i) == i.op = "and" /\ at' = at + 1 /\ UNCHANGED <<acc, verdict>>
Jump(i) ==
    /\ \/ i.op = "jeq" /\ at' = at + 1 + (IF acc = i.k THEN i.jt ELSE i.jf)
       \/ i.op = "ja" /\ at' = at + 1 + i.k
    /\ UNCHANGED <<acc, verdict>>
Return(i) == i.op = "ret" /\ verdict' = i.ret /\ UNCHANGED <<at, acc>>

FilterNext ==
    \/ /\ verdict = "none" /\ UNCHANGED <<prog, call>>
       /\ \E i \in {Insn} : Load(i) \/ Mask(i) \/ Jump(i) \/ Return(i)
    \/ verdict # "none" /\ UNCHANGED filter

FilterSpec == FilterInit /\ [][FilterNext]_filter

----------------------------------------------------------------------------
InList == call.nr \in {Whitelists[prog][i] : i \in DOMAIN Whitelists[prog]}

\* What the list, the architecture and the tail of each program stand for.  A
\* clone is decided by its flags; a clone3 of the Go build by the low word of
\* its first argument, which is an address: see FlagsDecide.
Expected ==
    IF ~call.arch THEN "kill"
    ELSE IF InList THEN "allow"
    ELSE IF call.nr = SysClone THEN IF call.newns THEN "eperm" ELSE "allow"
    ELSE IF prog = "go" /\ call.nr = SysClone3 THEN IF call.arg0 THEN "eperm" ELSE "allow"
    ELSE "eperm"

\* Every system call gets the verdict of the whitelist and of the words the
\* tail tests, whatever path it takes through the jumps.
VerdictCorrect == verdict # "none" => verdict = Expected

\* What the comments on the Go list and on its tail say: the flags of clone and
\* of clone3 are in the first argument, and a call of either is refused exactly
\* when they have CLONE_NEW* bits.  Violated: the flags of clone3 are in a
\* structure, and the program tests its address.
FlagsDecide ==
    verdict # "none" /\ prog = "go" /\ call.arch /\ ~InList /\ call.nr \in {SysClone, SysClone3}
        => verdict = IF call.newns THEN "eperm" ELSE "allow"
=============================================================================
