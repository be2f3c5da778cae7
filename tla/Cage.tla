-------------------------------- MODULE Cage --------------------------------
(***************************************************************************)
(* The cage decorator of the runtime library (_fly_cage of                 *)
(* internal/runtime/fly_runtime.py, injected into generated programs):     *)
(* calls of caged functions, nested in one thread, that set up and undo a  *)
(* handler of SIGALRM, the only real-time timer of the process and the     *)
(* soft limit RLIMIT_AS.  The handler runs between two bytecodes wherever  *)
(* the thread is, cleaning up included, and raises TimeoutError there.     *)
(* The time itself is abstracted: an armed timer may fire at any moment.   *)
(***************************************************************************)
EXTENDS Integers, Sequences

CONSTANTS
    Memories,    \* the values of max_memory
    Unlimited,   \* RLIM_INFINITY
    BodiesCatch, \* some caged bodies catch exceptions and go on
    MaxDepth,    \* bound: nested calls
    MaxCalls     \* bound: calls

ASSUME CageAssumption ==
    /\ Memories \subseteq Nat /\ Unlimited \in Nat /\ MaxDepth \in Nat /\ MaxCalls \in Nat
    /\ BodiesCatch \in BOOLEAN
    /\ \A m \in Memories : m < Unlimited

NoLimit == -1    \* max_memory=None, and prev_rlimit before it is read

VARIABLES
    stack,     \* the calls of `wrapped`, the innermost last
    raising,   \* the exception on its way out, or "no"
    handler,   \* the disposition of SIGALRM
    timer,     \* depth of the call that armed ITIMER_REAL; 0 when it is off
    soft,      \* the soft limit of RLIMIT_AS
    calls

cage == <<stack, raising, handler, timer, soft, calls>>

\* A call of wrapped: its limits, whether the body catches exceptions, the
\* next statement to run, and the values its local variables saved ("none"
\* and NoLimit stand for Python's None).
Frame == [catches : BOOLEAN, time : BOOLEAN, mem : Memories \cup {NoLimit},
          at : {"getsignal", "signal", "setitimer", "getrlimit", "setrlimit", "body",
                "disarm", "unsignal", "unlimit"},
          prevAlarm : {"none", "default", "fly"}, prevLimit : Nat \cup {NoLimit}]

Depth == Len(stack)
Top   == stack[Depth]

\* The shapes of the state.
CageTypeOK ==
    /\ stack \in Seq(Frame) /\ Depth <= MaxDepth
    /\ raising \in {"no", "own", "timeout", "memory", "type"}
    /\ handler \in {"default", "fly"}
    /\ timer \in 0..MaxDepth
    /\ soft \in Memories \cup {Unlimited}
    /\ calls \in 0..MaxCalls

CageInit ==
    /\ stack = <<>> /\ raising = "no"
    /\ handler = "default" /\ timer = 0 /\ soft = Unlimited /\ calls = 0

\* The top frame goes on at l, with one of its variables saved.
At(l)              == stack' = [stack EXCEPT ![Depth].at = l]
SaveAlarm(l, h)    == stack' = [stack EXCEPT ![Depth].at = l, ![Depth].prevAlarm = h]
SaveLimit(l, s)    == stack' = [stack EXCEPT ![Depth].at = l, ![Depth].prevLimit = s]
Running(l)         == stack # <<>> /\ raising = "no" /\ Top.at = l
AfterTime          == IF Top.mem # NoLimit THEN "getrlimit" ELSE "body"
Cleanup(f)         == IF f.time THEN "disarm" ELSE "unlimit"

\* A caged function is called, by the program or by a caged body.
Call(t, m, c) ==
    /\ t \/ m # NoLimit
    /\ c => BodiesCatch
    /\ raising = "no" /\ (IF stack = <<>> THEN TRUE ELSE Top.at = "body")
    /\ Depth < MaxDepth /\ calls < MaxCalls /\ calls' = calls + 1
    /\ stack' = Append(stack, [catches |-> c, time |-> t, mem |-> m,
                               at |-> IF t THEN "getsignal" ELSE "getrlimit",
                               prevAlarm |-> "none", prevLimit |-> NoLimit])
    /\ UNCHANGED <<raising, handler, timer, soft>>

GetSignal ==
    /\ Running("getsignal") /\ SaveAlarm("signal", handler)
    /\ UNCHANGED <<raising, handler, timer, soft, calls>>

SetSignal ==
    /\ Running("signal") /\ At("setitimer") /\ handler' = "fly"
    /\ UNCHANGED <<raising, timer, soft, calls>>

\* Faulty variant of SetTimer: the first cage of a program is never timed.
SetTimerNot ==
    /\ Running("setitimer") /\ At(AfterTime)
    /\ timer' = IF Top.prevAlarm = "default" THEN timer ELSE Depth
    /\ UNCHANGED <<raising, handler, soft, calls>>

\* setitimer replaces whatever the process's one timer was set to.
SetTimer ==
    /\ Running("setitimer") /\ At(AfterTime) /\ timer' = Depth
    /\ UNCHANGED <<raising, handler, soft, calls>>

GetLimit ==
    /\ Running("getrlimit") /\ SaveLimit("setrlimit", soft)
    /\ UNCHANGED <<raising, handler, timer, soft, calls>>

\* The soft limit is only ever lowered.
SetLimit ==
    /\ Running("setrlimit") /\ At("body")
    /\ soft' = IF Top.prevLimit = Unlimited \/ Top.mem < Top.prevLimit THEN Top.mem ELSE Top.prevLimit
    /\ UNCHANGED <<raising, handler, timer, calls>>

\* The body returns; or it raises: under a limit a MemoryError, which becomes
\* ResourceExhaustedError (with no max_memory, formatting the message raises
\* TypeError), at any time an exception of its own.
BodyReturns ==
    /\ Running("body") /\ At(Cleanup(Top))
    /\ UNCHANGED <<raising, handler, timer, soft, calls>>

BodyRaises ==
    /\ Running("body") /\ At(Cleanup(Top))
    /\ \/ soft # Unlimited /\ raising' = IF Top.mem = NoLimit THEN "type" ELSE "memory"
       \/ raising' = "own"
    /\ UNCHANGED <<handler, timer, soft, calls>>

\* Faulty variant of Disarm: the timer is left running.
DisarmNot ==
    /\ stack # <<>> /\ Top.at = "disarm" /\ At("unsignal")
    /\ UNCHANGED <<raising, handler, timer, soft, calls>>

\* finally: setitimer(ITIMER_REAL, 0).
Disarm ==
    /\ stack # <<>> /\ Top.at = "disarm" /\ At("unsignal") /\ timer' = 0
    /\ UNCHANGED <<raising, handler, soft, calls>>

\* The frame is left, with or without an exception.
Leave == stack' = SubSeq(stack, 1, Depth - 1)

\* signal(SIGALRM, prev_alarm): a TypeError if it was never read.
Unsignal ==
    /\ stack # <<>> /\ Top.at = "unsignal"
    /\ IF Top.prevAlarm = "none"
          THEN raising' = "type" /\ Leave /\ UNCHANGED handler
          ELSE /\ handler' = Top.prevAlarm /\ UNCHANGED raising
               /\ IF Top.mem # NoLimit THEN At("unlimit") ELSE Leave
    /\ UNCHANGED <<timer, soft, calls>>

\* Faulty variant of Unlimit: the limit is lifted, not restored.
UnlimitAll ==
    /\ stack # <<>> /\ Top.at = "unlimit"
    /\ soft' = Unlimited /\ UNCHANGED raising
    /\ Leave
    /\ UNCHANGED <<handler, timer, calls>>

\* setrlimit(RLIMIT_AS, prev_rlimit): a TypeError if it was never read.
Unlimit ==
    /\ stack # <<>> /\ Top.at = "unlimit"
    /\ IF Top.prevLimit = NoLimit
          THEN raising' = "type" /\ UNCHANGED soft
          ELSE soft' = Top.prevLimit /\ UNCHANGED raising
    /\ Leave
    /\ UNCHANGED <<handler, timer, calls>>

\* An exception of a callee reaches a caged body, which is left by it, or
\* catches it (as the program outside every cage may).
Propagate ==
    /\ raising # "no" /\ stack # <<>> /\ Top.at = "body"
    /\ At(Cleanup(Top))
    /\ UNCHANGED <<raising, handler, timer, soft, calls>>

Catch ==
    /\ raising # "no" /\ raising' = "no"
    /\ IF stack = <<>> THEN TRUE ELSE Top.catches /\ Top.at = "body"
    /\ UNCHANGED <<stack, handler, timer, soft, calls>>

\* SIGALRM: the timer is off from now on; _fly_timeout_handler raises in the
\* top frame.  In the body that is an exception like any other; elsewhere
\* before finally it leads to finally; in finally it skips the rest of it.
Alarm ==
    /\ timer # 0 /\ timer' = 0
    /\ handler = "fly" /\ stack # <<>>
    /\ raising' = "timeout"
    /\ CASE Top.at = "body" -> UNCHANGED stack
         [] Top.at \in {"disarm", "unsignal", "unlimit"} -> Leave
         [] OTHER -> At(Cleanup(Top))
    /\ UNCHANGED <<handler, soft, calls>>

Wrapper ==
    \/ GetSignal \/ SetSignal \/ SetTimer \/ GetLimit \/ SetLimit
    \/ Disarm \/ Unsignal \/ Unlimit \/ Propagate

CageNext ==
    \/ \E t \in BOOLEAN, m \in Memories \cup {NoLimit}, c \in BOOLEAN : Call(t, m, c)
    \/ BodyReturns \/ BodyRaises \/ Catch
    \/ Wrapper
    \/ Alarm

CageSpec == CageInit /\ [][CageNext]_cage

\* The interpreter runs the wrapper's statements, and time passes: a timer
\* that stays armed fires.  Bodies need not end.
FairCage == CageSpec /\ WF_cage(Wrapper) /\ WF_cage(Alarm)

----------------------------------------------------------------------------
\* While a memory cage runs, the soft limit is at most its max_memory,
\* whatever the cages inside it set, restored or failed to restore.
SoftWithinLimits ==
    \A i \in 1..Depth :
        stack[i].mem # NoLimit /\ stack[i].at = "body" => soft <= stack[i].mem

\* An armed timer belongs to a call that is still running, with the handler
\* in place: SIGALRM never strikes the program outside of its cages (nor
\* kills it), although an alarm may cut a cleanup short.
NoStrayAlarm ==
    timer # 0 => /\ timer <= Depth /\ stack[timer].time
                 /\ handler = "fly"

\* A time cage that is entered is left, unless its body calls another cage or
\* catches the TimeoutError, although the body may loop forever.
TimeBounded ==
    (Depth = 1 /\ stack[1].at = "getsignal" /\ ~stack[1].catches) ~> (Depth # 1)

\* The promise of max_time itself (README: cage against endless loops): a
\* time cage is left when no body catches the TimeoutError.
NestedTimeBounded == (Depth = 1 /\ stack[1].time) ~> (Depth = 0)
=============================================================================
