----------------------------- MODULE CageProofs -----------------------------
(***************************************************************************)
(* Theorems about the cage decorator, for every set of memory limits, any  *)
(* nesting and any number of calls.                                        *)
(***************************************************************************)
EXTENDS Cage, SequenceTheorems, TLAPS

\* A frame on its own: what it has saved and decided when it is at a
\* statement of the wrapper.
FrameOK(f) ==
    /\ f.prevLimit \in Memories \cup {Unlimited, NoLimit}
    /\ f.at = "setrlimit" => f.prevLimit # NoLimit
    /\ f.at \in {"getrlimit", "setrlimit"} => f.mem # NoLimit
    /\ f.at \in {"getsignal", "signal", "setitimer", "disarm", "unsignal"} => f.time

\* Only the innermost call is outside its body.
Frames ==
    \A i \in 1..Depth : FrameOK(stack[i]) /\ (i < Depth => stack[i].at = "body")

\* The limit a call has saved, and will restore, respects every cage around it.
SavedLimits ==
    \A i, j \in 1..Depth :
        i < j /\ stack[j].prevLimit # NoLimit /\ stack[i].mem # NoLimit
            => stack[j].prevLimit <= stack[i].mem

\* The handler is in place before the timer is armed, and the timer is off
\* from the time the handler is about to be removed.
Alarms ==
    stack # <<>> =>
        /\ Top.at = "setitimer" => handler = "fly"
        /\ Top.at = "unsignal" => timer = 0
        /\ Top.at = "unlimit" /\ Top.time => timer = 0

CageInv == CageTypeOK /\ Frames /\ SavedLimits /\ SoftWithinLimits /\ Alarms /\ NoStrayAlarm

----------------------------------------------------------------------------
\* What is known of the numbers of a well-typed state.
LEMMA Numbers ==
    ASSUME CageTypeOK
    PROVE  /\ Depth \in Nat /\ stack \in Seq(Frame) /\ (stack # <<>> <=> Depth > 0)
           /\ \A i \in 1..Depth : stack[i] \in Frame
           /\ \A m \in Memories : m \in Nat /\ m < Unlimited /\ m # NoLimit
           /\ Unlimited \in Nat /\ soft \in Nat /\ timer \in Nat
BY CageAssumption DEF CageTypeOK, Depth, NoLimit

\* A statement of the wrapper replaces the top frame, and no other, by one
\* with the same limits.
LEMMA TopReplaced ==
    ASSUME CageInv, stack # <<>>, NEW f \in Frame,
           stack' = [stack EXCEPT ![Depth] = f],
           f.mem = Top.mem, f.time = Top.time, FrameOK(f),
           f.prevLimit = Top.prevLimit \/ f.prevLimit = soft
    PROVE  /\ stack' \in Seq(Frame) /\ Depth' = Depth /\ Top' = f /\ stack' # <<>>
           /\ \A i \in 1..Depth : i # Depth => stack'[i] = stack[i]
           /\ stack'[Depth] = f
           /\ Frames' /\ SavedLimits'
<1> USE DEF CageInv
<1>1. /\ stack' \in Seq(Frame) /\ Len(stack') = Len(stack)
      /\ \A i \in 1..Depth : stack'[i] = IF i = Depth THEN f ELSE stack[i]
  BY Numbers DEF Depth
<1>2. Depth' = Depth /\ Depth \in Nat /\ Depth > 0 /\ Depth \in 1..Depth /\ Top' = f /\ stack' # <<>>
  BY <1>1, Numbers DEF Depth, Top
<1>3. Frames'
  BY <1>1, <1>2 DEF Frames, FrameOK
<1>4. SavedLimits'
  <2> SUFFICES ASSUME NEW i \in 1..Depth, NEW j \in 1..Depth, i < j,
                      stack'[j].prevLimit # NoLimit, stack'[i].mem # NoLimit
               PROVE  stack'[j].prevLimit <= stack'[i].mem
    BY <1>2 DEF SavedLimits
  <2>1. i # Depth /\ stack'[i] = stack[i] /\ stack[i].at = "body"
    BY <1>1, <1>2 DEF Frames
  <2>2. CASE j # Depth
    BY <1>1, <2>1, <2>2 DEF SavedLimits
  <2>3. CASE j = Depth
    <3>1. stack'[j] = f
      BY <1>1, <2>3
    <3>2. CASE f.prevLimit = Top.prevLimit
      BY <3>1, <3>2, <2>1, <2>3 DEF SavedLimits, Top
    <3>3. CASE f.prevLimit = soft
      BY <3>1, <3>3, <2>1, <2>3 DEF SoftWithinLimits
    <3> QED BY <3>2, <3>3
  <2> QED BY <2>2, <2>3
<1> QED BY <1>1, <1>2, <1>3, <1>4

\* A statement of the wrapper that keeps the calls around the top one as they
\* are keeps the invariant, if the timer it leaves on is that of a time cage
\* with the handler in place and the limit it leaves respects the other cages.
LEMMA TopStep ==
    ASSUME CageInv, stack # <<>>, NEW f \in Frame,
           stack' = [stack EXCEPT ![Depth] = f],
           f.mem = Top.mem, f.time = Top.time, FrameOK(f),
           f.prevLimit = Top.prevLimit \/ f.prevLimit = soft,
           raising' \in {"no", "own", "timeout", "memory", "type"}, calls' = calls,
           handler' \in {"default", "fly"},
           timer' = 0 \/ timer' = timer \/ (timer' = Depth /\ f.time),
           timer' # 0 => handler' = "fly",
           f.at = "setitimer" => handler' = "fly",
           f.at = "unsignal" => timer' = 0,
           f.at = "unlimit" /\ f.time => timer' = 0,
           soft' \in Memories \cup {Unlimited},
           \A i \in 1..Depth : i < Depth /\ stack[i].mem # NoLimit => soft' <= stack[i].mem,
           f.at = "body" /\ f.mem # NoLimit => soft' <= f.mem
    PROVE  CageInv'
<1>1. /\ stack' \in Seq(Frame) /\ Depth' = Depth /\ Top' = f /\ stack' # <<>>
      /\ \A i \in 1..Depth : i # Depth => stack'[i] = stack[i]
      /\ stack'[Depth] = f /\ Frames' /\ SavedLimits'
  BY TopReplaced
<1>2. CageTypeOK'
  BY <1>1, Numbers, CageAssumption DEF CageInv, CageTypeOK
<1>3. Alarms'
  BY <1>1 DEF Alarms
<1>4. NoStrayAlarm'
  BY <1>1, Numbers DEF CageInv, NoStrayAlarm, Top
<1>5. SoftWithinLimits'
  BY <1>1, Numbers DEF SoftWithinLimits, CageInv
<1> QED BY <1>1, <1>2, <1>3, <1>4, <1>5 DEF CageInv

\* The limit in force respects every call around the top one.
LEMMA SoftBelow ==
    ASSUME CageInv
    PROVE  \A i \in 1..Depth : i < Depth /\ stack[i].mem # NoLimit => soft <= stack[i].mem
BY DEF CageInv, Frames, SoftWithinLimits

\* Leaving the top frame leaves the caller in its body.
LEMMA TopLeft ==
    ASSUME CageInv, stack # <<>>, Leave
    PROVE  /\ stack' \in Seq(Frame) /\ Depth' = Depth - 1
           /\ \A i \in 1..Depth' : stack'[i] = stack[i] /\ stack[i].at = "body"
           /\ Frames' /\ SavedLimits' /\ Alarms'
<1> USE DEF CageInv
<1>1. /\ stack' \in Seq(Frame) /\ Depth' = Depth - 1
      /\ \A i \in 1..Depth' : stack'[i] = stack[i]
  <2>1. Depth - 1 \in Nat /\ \A i \in 1..(Depth - 1) : stack[i] \in Frame
    BY Numbers
  <2>2. /\ stack' \in Seq(Frame) /\ Len(stack') = Depth - 1
        /\ \A i \in 1..(Depth - 1) : stack'[i] = stack[i]
    BY <2>1, SubSeqProperties DEF Leave
  <2> QED BY <2>2 DEF Depth
<1>2. \A i \in 1..Depth' : i \in 1..Depth /\ i < Depth /\ stack[i].at = "body"
  BY <1>1, Numbers DEF Frames
<1>3. Frames' /\ SavedLimits'
  BY <1>1, <1>2 DEF Frames, SavedLimits, FrameOK
<1>4. stack' # <<>> => Top'.at = "body"
  BY <1>1, <1>2, Numbers DEF Top, Depth
<1> QED BY <1>1, <1>2, <1>3, <1>4 DEF Alarms

\* Leaving the top frame keeps the invariant, if the timer left on is not its
\* own and the limit left respects the calls around it.
LEMMA LeaveStep ==
    ASSUME CageInv, stack # <<>>, Leave,
           raising' \in {"no", "own", "timeout", "memory", "type"}, calls' = calls,
           handler' \in {"default", "fly"},
           timer' = 0 \/ (timer' = timer /\ handler' = handler /\ ~Top.time),
           soft' \in Memories \cup {Unlimited},
           \A i \in 1..Depth : i < Depth /\ stack[i].mem # NoLimit => soft' <= stack[i].mem
    PROVE  CageInv'
<1>1. /\ stack' \in Seq(Frame) /\ Depth' = Depth - 1
      /\ \A i \in 1..Depth' : stack'[i] = stack[i] /\ stack[i].at = "body"
      /\ Frames' /\ SavedLimits' /\ Alarms'
  BY TopLeft
<1>2. CageTypeOK'
  BY <1>1, Numbers, CageAssumption DEF CageInv, CageTypeOK
<1>3. NoStrayAlarm'
  BY <1>1, Numbers DEF CageInv, NoStrayAlarm, Top
<1>4. SoftWithinLimits'
  BY <1>1, Numbers DEF CageInv, SoftWithinLimits
<1> QED BY <1>1, <1>2, <1>3, <1>4 DEF CageInv

\* Before any call nothing is limited.
LEMMA InitInv == CageInit => CageInv
BY CageAssumption DEF CageInit, CageInv, CageTypeOK, Frames, SavedLimits, SoftWithinLimits, Alarms,
                      NoStrayAlarm, Depth

\* Every statement of the wrapper and every alarm keeps the invariant.
LEMMA NextInv == CageInv /\ [CageNext]_cage => CageInv'
<1> SUFFICES ASSUME CageInv, [CageNext]_cage PROVE CageInv'
    OBVIOUS
<1>t. /\ raising \in {"no", "own", "timeout", "memory", "type"} /\ handler \in {"default", "fly"}
      /\ soft \in Memories \cup {Unlimited}
  BY DEF CageInv, CageTypeOK
<1>s. \A i \in 1..Depth : i < Depth /\ stack[i].mem # NoLimit => soft <= stack[i].mem
  BY SoftBelow
<1>f. stack # <<>> => Top \in Frame /\ FrameOK(Top) /\ Depth \in 1..Depth
  BY Numbers DEF CageInv, Frames, Top
<1>a. timer # 0 => handler = "fly"
  BY DEF CageInv, NoStrayAlarm
<1>1. ASSUME NEW t \in BOOLEAN, NEW m \in Memories \cup {NoLimit}, NEW c \in BOOLEAN, Call(t, m, c)
      PROVE  CageInv'
  <2> DEFINE f == [catches |-> c, time |-> t, mem |-> m,
                   at |-> IF t THEN "getsignal" ELSE "getrlimit",
                   prevAlarm |-> "none", prevLimit |-> NoLimit]
  <2>1. f \in Frame /\ FrameOK(f)
    BY <1>1 DEF Frame, FrameOK, Call
  <2>2. f.prevLimit = NoLimit /\ f.at \in {"getsignal", "getrlimit"}
    OBVIOUS
  <2>3. stack' = Append(stack, f) /\ UNCHANGED <<raising, handler, timer, soft>> /\ calls' = calls + 1
        /\ Depth < MaxDepth /\ calls < MaxCalls /\ (stack # <<>> => Top.at = "body")
    BY <1>1 DEF Call
  <2> HIDE DEF f
  <2>4. /\ stack' \in Seq(Frame) /\ Depth' = Depth + 1 /\ stack' # <<>>
        /\ \A i \in 1..Depth : stack'[i] = stack[i]
        /\ stack'[Depth + 1] = f /\ Top' = f
    BY <2>1, <2>3, Numbers DEF CageInv, Depth, Top
  <2>5. CageTypeOK'
    <3>1. Depth' <= MaxDepth /\ calls' \in 0..MaxCalls
      BY <2>3, <2>4, Numbers, CageAssumption DEF CageInv, CageTypeOK
    <3> QED BY <2>3, <2>4, <3>1 DEF CageInv, CageTypeOK
  <2>6. Frames'
    <3> SUFFICES ASSUME NEW i \in 1..(Depth + 1)
                 PROVE  FrameOK(stack'[i]) /\ (i < Depth + 1 => stack'[i].at = "body")
      BY <2>4 DEF Frames, FrameOK
    <3>1. CASE i = Depth + 1
      BY <3>1, <2>1, <2>4
    <3>2. CASE i # Depth + 1
      <4>1. i \in 1..Depth /\ stack'[i] = stack[i]
        BY <3>2, <2>4, Numbers DEF CageInv
      <4>2. i = Depth => stack[i].at = "body"
        BY <4>1, <2>3, Numbers DEF CageInv, Top
      <4> QED BY <4>1, <4>2, Numbers DEF CageInv, Frames
    <3> QED BY <3>1, <3>2
  <2>7. /\ Depth \in Nat /\ timer \in Nat
        /\ \A i \in 1..Depth' : (i \in 1..Depth /\ stack'[i] = stack[i]) \/ (i = Depth' /\ stack'[i] = f)
    BY <2>4, Numbers DEF CageInv
  <2>8. SoftWithinLimits' /\ SavedLimits'
    <3>1. SoftWithinLimits'
      BY <2>2, <2>3, <2>7 DEF CageInv, SoftWithinLimits
    <3>2. SavedLimits'
      <4> SUFFICES ASSUME NEW i \in 1..Depth', NEW j \in 1..Depth', i < j,
                          stack'[j].prevLimit # NoLimit, stack'[i].mem # NoLimit
                   PROVE  stack'[j].prevLimit <= stack'[i].mem
        BY DEF SavedLimits
      <4>1. j \in 1..Depth /\ stack'[j] = stack[j]
        BY <2>2, <2>7
      <4>2. i \in 1..Depth /\ stack'[i] = stack[i]
        BY <4>1, <2>4, <2>7
      <4> QED BY <4>1, <4>2 DEF CageInv, SavedLimits
    <3> QED BY <3>1, <3>2
  <2>9. Alarms'
    BY <2>2, <2>4 DEF Alarms
  <2>10. NoStrayAlarm'
    <3> SUFFICES ASSUME timer # 0
                 PROVE  timer <= Depth + 1 /\ stack'[timer].time /\ handler = "fly"
      BY <2>3, <2>4 DEF NoStrayAlarm
    <3>1. timer \in 1..Depth /\ stack[timer].time /\ handler = "fly"
      BY <2>7 DEF CageInv, NoStrayAlarm
    <3> QED BY <3>1, <2>4, <2>7
  <2> QED BY <2>5, <2>6, <2>8, <2>9, <2>10 DEF CageInv
<1>2. CASE GetSignal
  <2> DEFINE f == [Top EXCEPT !.at = "signal", !.prevAlarm = handler]
  <2>1. stack # <<>> /\ Top.at = "getsignal" /\ UNCHANGED <<raising, handler, timer, soft, calls>>
    BY <1>2 DEF GetSignal, Running
  <2>2. stack' = [stack EXCEPT ![Depth] = f]
    BY <1>2 DEF GetSignal, SaveAlarm, Top
  <2>3. /\ f \in Frame /\ FrameOK(f) /\ f.mem = Top.mem /\ f.time = Top.time
        /\ f.prevLimit = Top.prevLimit /\ f.at = "signal"
    BY <1>f, <1>t, <2>1 DEF Frame, FrameOK
  <2> HIDE DEF f
  <2> QED BY <2>1, <2>2, <2>3, <1>t, <1>s, <1>a, TopStep
<1>3. CASE SetSignal
  <2> DEFINE f == [Top EXCEPT !.at = "setitimer"]
  <2>1. stack # <<>> /\ Top.at = "signal" /\ handler' = "fly" /\ UNCHANGED <<raising, timer, soft, calls>>
    BY <1>3 DEF SetSignal, Running
  <2>2. stack' = [stack EXCEPT ![Depth] = f]
    BY <1>3 DEF SetSignal, At, Top
  <2>3. /\ f \in Frame /\ FrameOK(f) /\ f.mem = Top.mem /\ f.time = Top.time
        /\ f.prevLimit = Top.prevLimit /\ f.at = "setitimer"
    BY <1>f, <2>1 DEF Frame, FrameOK
  <2> HIDE DEF f
  <2> QED BY <2>1, <2>2, <2>3, <1>t, <1>s, <1>a, TopStep
<1>4. CASE SetTimer
  <2> DEFINE f == [Top EXCEPT !.at = AfterTime]
  <2>1. stack # <<>> /\ Top.at = "setitimer" /\ timer' = Depth /\ UNCHANGED <<raising, handler, soft, calls>>
    BY <1>4 DEF SetTimer, Running
  <2>2. stack' = [stack EXCEPT ![Depth] = f]
    BY <1>4 DEF SetTimer, At, Top
  <2>3. /\ f \in Frame /\ FrameOK(f) /\ f.mem = Top.mem /\ f.time = Top.time /\ f.time
        /\ f.prevLimit = Top.prevLimit /\ f.at = AfterTime
    BY <1>f, <2>1 DEF Frame, FrameOK, AfterTime
  <2>4. f.at \in {"body", "getrlimit"} /\ (f.at = "body" => f.mem = NoLimit)
    BY <2>3 DEF AfterTime
  <2>5. handler = "fly"
    BY <2>1 DEF CageInv, Alarms
  <2> HIDE DEF f
  <2> QED BY <2>1, <2>2, <2>3, <2>4, <2>5, <1>t, <1>s, TopStep
<1>5. CASE GetLimit
  <2> DEFINE f == [Top EXCEPT !.at = "setrlimit", !.prevLimit = soft]
  <2>1. stack # <<>> /\ Top.at = "getrlimit" /\ UNCHANGED <<raising, handler, timer, soft, calls>>
    BY <1>5 DEF GetLimit, Running
  <2>2. stack' = [stack EXCEPT ![Depth] = f]
    BY <1>5 DEF GetLimit, SaveLimit, Top
  <2>3. /\ f \in Frame /\ f.mem = Top.mem /\ f.time = Top.time
        /\ f.prevLimit = soft /\ f.at = "setrlimit"
    BY <1>f, <2>1, Numbers DEF Frame, CageInv
  <2>4. FrameOK(f)
    BY <1>f, <1>t, <2>1, <2>3, Numbers DEF FrameOK, CageInv, NoLimit
  <2> HIDE DEF f
  <2> QED BY <2>1, <2>2, <2>3, <2>4, <1>t, <1>s, <1>a, TopStep
<1>6. CASE SetLimit
  <2> DEFINE f == [Top EXCEPT !.at = "body"]
  <2>1. /\ stack # <<>> /\ Top.at = "setrlimit" /\ UNCHANGED <<raising, handler, timer, calls>>
        /\ soft' = IF Top.prevLimit = Unlimited \/ Top.mem < Top.prevLimit THEN Top.mem ELSE Top.prevLimit
    BY <1>6 DEF SetLimit, Running
  <2>2. stack' = [stack EXCEPT ![Depth] = f]
    BY <1>6 DEF SetLimit, At, Top
  <2>3. /\ f \in Frame /\ FrameOK(f) /\ f.mem = Top.mem /\ f.time = Top.time
        /\ f.prevLimit = Top.prevLimit /\ f.at = "body"
    BY <1>f, <2>1 DEF Frame, FrameOK
  <2>4. Top.mem \in Memories /\ Top.prevLimit \in Memories \cup {Unlimited} /\ Top.prevLimit # NoLimit
    BY <1>f, <2>1 DEF Frame, FrameOK
  <2>5. soft' \in Memories \cup {Unlimited} /\ soft' <= Top.prevLimit /\ soft' <= Top.mem
    BY <2>1, <2>4, Numbers DEF CageInv
  <2>6. \A i \in 1..Depth : i < Depth /\ stack[i].mem # NoLimit => soft' <= stack[i].mem
    <3> SUFFICES ASSUME NEW i \in 1..Depth, i < Depth, stack[i].mem # NoLimit PROVE soft' <= stack[i].mem
        OBVIOUS
    <3>1. Top.prevLimit <= stack[i].mem
      BY <2>1, <2>4, <1>f DEF CageInv, SavedLimits, Top
    <3>2. stack[i].mem \in Nat /\ Top.prevLimit \in Nat /\ soft' \in Nat
      BY <2>4, <2>5, Numbers DEF CageInv, Frame
    <3> QED BY <3>1, <3>2, <2>5
  <2> HIDE DEF f
  <2> QED BY <2>1, <2>2, <2>3, <2>5, <2>6, <1>t, <1>a, TopStep
<1>7. CASE BodyReturns \/ BodyRaises \/ Propagate
  <2> DEFINE f == [Top EXCEPT !.at = Cleanup(Top)]
  <2>1. stack # <<>> /\ Top.at = "body" /\ UNCHANGED <<handler, timer, soft, calls>>
    BY <1>7 DEF BodyReturns, BodyRaises, Propagate, Running
  <2>2. stack' = [stack EXCEPT ![Depth] = f]
    BY <1>7 DEF BodyReturns, BodyRaises, Propagate, At, Top
  <2>3. raising' \in {"no", "own", "timeout", "memory", "type"}
    BY <1>7, <1>t DEF BodyReturns, BodyRaises, Propagate
  <2>4. /\ f \in Frame /\ FrameOK(f) /\ f.mem = Top.mem /\ f.time = Top.time
        /\ f.prevLimit = Top.prevLimit /\ f.at = Cleanup(Top)
    BY <1>f, <2>1 DEF Frame, FrameOK, Cleanup
  <2>5. f.at \in {"disarm", "unlimit"} /\ (f.at = "unlimit" => ~f.time)
    BY <2>4 DEF Cleanup
  <2> HIDE DEF f
  <2> QED BY <2>1, <2>2, <2>3, <2>4, <2>5, <1>t, <1>s, <1>a, TopStep
<1>8. CASE Disarm
  <2> DEFINE f == [Top EXCEPT !.at = "unsignal"]
  <2>1. stack # <<>> /\ Top.at = "disarm" /\ timer' = 0 /\ UNCHANGED <<raising, handler, soft, calls>>
    BY <1>8 DEF Disarm
  <2>2. stack' = [stack EXCEPT ![Depth] = f]
    BY <1>8 DEF Disarm, At, Top
  <2>3. /\ f \in Frame /\ FrameOK(f) /\ f.mem = Top.mem /\ f.time = Top.time
        /\ f.prevLimit = Top.prevLimit /\ f.at = "unsignal"
    BY <1>f, <2>1 DEF Frame, FrameOK
  <2> HIDE DEF f
  <2> QED BY <2>1, <2>2, <2>3, <1>t, <1>s, TopStep
<1>9. CASE Unsignal
  <2>1. stack # <<>> /\ Top.at = "unsignal" /\ UNCHANGED <<timer, soft, calls>>
    BY <1>9 DEF Unsignal
  <2>2. timer = 0
    BY <2>1 DEF CageInv, Alarms
  <2>3. raising' \in {"no", "own", "timeout", "memory", "type"} /\ handler' \in {"default", "fly"}
    BY <1>9, <1>t, <1>f DEF Unsignal, Frame
  <2>4. CASE Leave
    BY <2>1, <2>2, <2>3, <2>4, <1>t, <1>s, LeaveStep
  <2>5. CASE At("unlimit")
    <3> DEFINE f == [Top EXCEPT !.at = "unlimit"]
    <3>1. stack' = [stack EXCEPT ![Depth] = f]
      BY <2>5 DEF At, Top
    <3>2. /\ f \in Frame /\ FrameOK(f) /\ f.mem = Top.mem /\ f.time = Top.time
          /\ f.prevLimit = Top.prevLimit /\ f.at = "unlimit"
      BY <1>f, <2>1 DEF Frame, FrameOK
    <3> HIDE DEF f
    <3> QED BY <3>1, <3>2, <2>1, <2>2, <2>3, <1>t, <1>s, TopStep
  <2> QED BY <1>9, <2>4, <2>5 DEF Unsignal
<1>10. CASE Unlimit
  <2>1. stack # <<>> /\ Top.at = "unlimit" /\ Leave /\ UNCHANGED <<handler, timer, calls>>
    BY <1>10 DEF Unlimit
  <2>2. raising' \in {"no", "own", "timeout", "memory", "type"}
    BY <1>10, <1>t DEF Unlimit
  <2>3. timer' = 0 \/ (timer' = timer /\ handler' = handler /\ ~Top.time)
    BY <2>1, <1>f DEF CageInv, Alarms, Frame
  <2>4. soft' \in Memories \cup {Unlimited}
    BY <1>10, <1>t, <1>f DEF Unlimit, FrameOK
  <2>5. \A i \in 1..Depth : i < Depth /\ stack[i].mem # NoLimit => soft' <= stack[i].mem
    BY <1>10, <2>1, <1>f, <1>s DEF Unlimit, CageInv, SavedLimits, Top
  <2> QED BY <2>1, <2>2, <2>3, <2>4, <2>5, <1>t, LeaveStep
<1>11. CASE Catch
  BY <1>11 DEF Catch, CageInv, CageTypeOK, Frames, SavedLimits, SoftWithinLimits, Alarms, NoStrayAlarm, Depth, Top
<1>12. CASE Alarm
  <2>1. stack # <<>> /\ timer' = 0 /\ raising' = "timeout" /\ UNCHANGED <<handler, soft, calls>>
    BY <1>12 DEF Alarm
  <2>2. CASE Top.at = "body"
    <3>1. stack' = stack
      BY <1>12, <2>2 DEF Alarm
    <3> QED BY <2>1, <3>1, <2>2, CageAssumption DEF CageInv, CageTypeOK, Frames, SavedLimits,
                SoftWithinLimits, Alarms, NoStrayAlarm, Depth, Top
  <2>3. CASE Top.at \in {"disarm", "unsignal", "unlimit"}
    <3>1. Leave
      BY <1>12, <2>3 DEF Alarm
    <3> QED BY <2>1, <3>1, <1>t, <1>s, LeaveStep
  <2>4. CASE ~(Top.at = "body") /\ ~(Top.at \in {"disarm", "unsignal", "unlimit"})
    <3> DEFINE f == [Top EXCEPT !.at = Cleanup(Top)]
    <3>1. stack' = [stack EXCEPT ![Depth] = f]
      BY <1>12, <2>4 DEF Alarm, At, Top
    <3>2. /\ f \in Frame /\ FrameOK(f) /\ f.mem = Top.mem /\ f.time = Top.time
          /\ f.prevLimit = Top.prevLimit /\ f.at = Cleanup(Top)
      BY <1>f, <2>1 DEF Frame, FrameOK, Cleanup
    <3>3. f.at \in {"disarm", "unlimit"}
      BY <3>2 DEF Cleanup
    <3> HIDE DEF f
    <3> QED BY <2>1, <3>1, <3>2, <3>3, <1>t, <1>s, TopStep
  <2> QED BY <2>2, <2>3, <2>4
<1>13. CASE UNCHANGED cage
  BY <1>13 DEF cage, CageInv, CageTypeOK, Frames, SavedLimits, SoftWithinLimits, Alarms, NoStrayAlarm, Depth, Top
<1> QED BY <1>1, <1>2, <1>3, <1>4, <1>5, <1>6, <1>7, <1>8, <1>9, <1>10, <1>11, <1>12, <1>13
        DEF CageNext, Wrapper

\* The invariant holds throughout.
LEMMA Invariance == CageSpec => []CageInv
BY InitInv, NextInv, PTL DEF CageSpec

\* The stack of calls, the timer and the limit always have the shapes of CageTypeOK.
THEOREM TypeCorrect == CageSpec => []CageTypeOK
<1>1. CageInv => CageTypeOK
  BY DEF CageInv
<1> QED BY <1>1, Invariance, PTL

\* However cages are nested, whichever of them fail, and wherever alarms cut
\* their cleanups short, RLIMIT_AS never exceeds the max_memory of a cage whose
\* body runs.
THEOREM LimitsHold == CageSpec => []SoftWithinLimits
<1>1. CageInv => SoftWithinLimits
  BY DEF CageInv
<1> QED BY <1>1, Invariance, PTL

\* SIGALRM never strikes when the call that armed the timer has ended, nor with
\* the default action in place: _fly_cage disarms the timer before it restores
\* the handler, whatever exception is on its way.
THEOREM AlarmsStayInside == CageSpec => []NoStrayAlarm
<1>1. CageInv => NoStrayAlarm
  BY DEF CageInv
<1> QED BY <1>1, Invariance, PTL
=============================================================================
