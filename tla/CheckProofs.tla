----------------------------- MODULE CheckProofs -----------------------------
(***************************************************************************)
(* Theorems about `fly check`: its threads, for every number of files and  *)
(* of permits, and the frames between it and fly-checkd, which arrive      *)
(* where they belong for all sources and diagnostics whose lengths fit,    *)
(* every size of the pipes and every moment of a kill.                     *)
(***************************************************************************)
EXTENDS CheckCommand, CheckdProtocol, FiniteSetTheorems, DataLemmas

\* A file has its verdict from the end of its check on; threads are started
\* and joined in order; the status comes last.
Phases ==
    /\ \A f \in Files : verdict[f] = "none" <=> tpc[f] \in {"unborn", "acquire", "wait", "woken", "check"}
    /\ \A f \in Files : f > spawned => tpc[f] = "unborn"
    /\ \A f \in Files : f <= joined => tpc[f] = "done"
    /\ status # "none" => joined = N

IInv == TypeOK /\ Phases /\ PermitsConserved /\ NoLostWakeup

\* The sets of threads the semaphore's invariants count are finite.
LEMMA FiniteThreads ==
    /\ IsFiniteSet(Holders) /\ IsFiniteSet(Woken) /\ IsFiniteSet(Waiters)
    /\ Cardinality(Holders) \in Nat /\ Cardinality(Woken) \in Nat
<1>1. IsFiniteSet(Files)
  BY SizeAssumption, FS_Interval DEF Files
<1>2. Holders \in SUBSET Files /\ Woken \in SUBSET Files /\ Waiters \in SUBSET Files
  BY DEF Holders, Woken, Waiters
<1>3. IsFiniteSet(Holders) /\ IsFiniteSet(Woken) /\ IsFiniteSet(Waiters)
  BY <1>1, <1>2, FS_Subset
<1> QED BY <1>3, FS_CardinalityType

\* At the start every permit is free and no thread exists.
LEMMA InitInv == Init => IInv
<1> SUFFICES ASSUME Init PROVE IInv
    OBVIOUS
<1>1. TypeOK /\ Phases
  BY SizeAssumption DEF Init, TypeOK, Phases, Files
<1>2. Holders = {} /\ Waiters = {}
  BY DEF Init, Holders, Waiters
<1>3. PermitsConserved /\ NoLostWakeup
  BY <1>2, FS_EmptySet, SizeAssumption DEF Init, PermitsConserved, NoLostWakeup
<1> QED BY <1>1, <1>3 DEF IInv

\* Every step of main and of the threads keeps the invariant.
LEMMA NextInv == IInv /\ [Next]_vars => IInv'
<1> SUFFICES ASSUME IInv, [Next]_vars PROVE IInv'
    OBVIOUS
<1> USE SizeAssumption, FiniteThreads
<1>t. /\ TypeOK /\ Phases /\ PermitsConserved /\ NoLostWakeup
      /\ tpc \in [Files -> {"unborn", "acquire", "wait", "woken", "check", "checked", "done"}]
      /\ count \in Nat /\ Capacity \in Nat
  BY DEF IInv, TypeOK
<1>1. CASE Spawn
  <2>1. TypeOK' /\ Phases'
    BY <1>t, <1>1 DEF Spawn, TypeOK, Phases, Files
  <2>2. Holders' = Holders /\ Woken' = Woken /\ Waiters' = Waiters /\ count' = count
    BY <1>t, <1>1 DEF Spawn, Holders, Woken, Waiters, Phases, TypeOK, Files
  <2> QED BY <1>t, <2>1, <2>2 DEF IInv, PermitsConserved, NoLostWakeup
<1>2. ASSUME NEW f \in Files, Acquire(f) PROVE IInv'
  <2>1. CASE count > 0 /\ count' = count - 1 /\ tpc' = [tpc EXCEPT ![f] = "check"]
    <3>1. TypeOK' /\ Phases'
      BY <1>t, <1>2, <2>1 DEF Acquire, TypeOK, Phases, Files
    <3>2. Holders' = Holders \cup {f} /\ f \notin Holders
      BY <1>t, <1>2, <2>1 DEF Acquire, Holders
    <3>3. Woken' = Woken \ {f} /\ Waiters' = Waiters
      BY <1>t, <1>2, <2>1 DEF Acquire, Woken, Waiters
    <3>4. Cardinality(Holders') = Cardinality(Holders) + 1
      BY <3>2, FS_AddElement
    <3>w. /\ IsFiniteSet(Woken \ {f})
          /\ Cardinality(Woken \ {f}) = IF f \in Woken THEN Cardinality(Woken) - 1 ELSE Cardinality(Woken)
      BY FS_RemoveElement
    <3>5. Cardinality(Woken') >= Cardinality(Woken) - 1 /\ Cardinality(Woken') \in Nat
      BY <3>3, <3>w, FS_CardinalityType
    <3> QED BY <1>t, <2>1, <3>1, <3>3, <3>4, <3>5 DEF IInv, PermitsConserved, NoLostWakeup
  <2>2. CASE count = 0 /\ count' = count /\ tpc' = [tpc EXCEPT ![f] = "wait"]
    <3>1. TypeOK' /\ Phases'
      BY <1>t, <1>2, <2>2 DEF Acquire, TypeOK, Phases, Files
    <3>2. Holders' = Holders /\ Woken' = Woken \ {f}
      BY <1>t, <1>2, <2>2 DEF Acquire, Holders, Woken
    <3>3. Cardinality(Woken') \in Nat
      BY <3>2, FS_RemoveElement, FS_CardinalityType
    <3> QED BY <1>t, <2>2, <3>1, <3>2, <3>3 DEF IInv, PermitsConserved, NoLostWakeup
  <2> QED BY <1>2, <2>1, <2>2 DEF Acquire
<1>3. ASSUME NEW f \in Files, SpuriousWakeup(f) PROVE IInv'
  <2>1. TypeOK' /\ Phases'
    BY <1>t, <1>3 DEF SpuriousWakeup, TypeOK, Phases, Files
  <2>2. Holders' = Holders /\ Woken' = Woken \cup {f} /\ f \notin Woken /\ Waiters # {} /\ count' = count
    BY <1>t, <1>3 DEF SpuriousWakeup, Holders, Woken, Waiters
  <2>3. Cardinality(Woken') = Cardinality(Woken) + 1
    BY <2>2, FS_AddElement
  <2> QED BY <1>t, <2>1, <2>2, <2>3 DEF IInv, PermitsConserved, NoLostWakeup
<1>4. ASSUME NEW f \in Files, NEW v \in {"clean", "failed"}, CheckOne(f, v) PROVE IInv'
  <2>1. TypeOK' /\ Phases'
    BY <1>t, <1>4 DEF CheckOne, TypeOK, Phases, Files
  <2>2. Holders' = Holders /\ Woken' = Woken /\ Waiters' = Waiters /\ count' = count
    BY <1>t, <1>4 DEF CheckOne, Holders, Woken, Waiters
  <2> QED BY <1>t, <2>1, <2>2 DEF IInv, PermitsConserved, NoLostWakeup
<1>5. ASSUME NEW f \in Files, Release(f) PROVE IInv'
  <2>1. count' = count + 1 /\ Holders' = Holders \ {f} /\ f \in Holders
    BY <1>t, <1>5 DEF Release, Holders, Waiters
  <2>2. Cardinality(Holders') = Cardinality(Holders) - 1 /\ Cardinality(Holders') \in Nat
    BY <2>1, FS_RemoveElement, FS_CardinalityType
  <2>3. count' \in 0..Capacity /\ PermitsConserved'
    BY <1>t, <2>1, <2>2 DEF PermitsConserved
  <2>4. CASE Waiters = {} /\ tpc' = [tpc EXCEPT ![f] = "done"]
    <3>1. TypeOK' /\ Phases'
      BY <1>t, <1>5, <2>3, <2>4 DEF Release, TypeOK, Phases, Files
    <3>2. Waiters' = {}
      BY <1>t, <2>4 DEF Waiters
    <3> QED BY <2>3, <3>1, <3>2 DEF IInv, NoLostWakeup
  <2>5. ASSUME NEW w \in Waiters, tpc' = [tpc EXCEPT ![f] = "done", ![w] = "woken"] PROVE IInv'
    <3>0. w \in Files /\ w # f /\ tpc[w] = "wait"
      BY <1>5, <2>5 DEF Release, Waiters
    <3>1. TypeOK' /\ Phases'
      BY <1>t, <1>5, <2>3, <2>5, <3>0 DEF Release, TypeOK, Phases, Files
    <3>2. Woken' = Woken \cup {w} /\ w \notin Woken
      BY <1>t, <1>5, <2>5, <3>0 DEF Release, Woken
    <3>3. Cardinality(Woken') = Cardinality(Woken) + 1
      BY <3>2, FS_AddElement
    <3>4. count <= Cardinality(Woken)
      BY <1>t DEF NoLostWakeup
    <3> QED BY <1>t, <2>1, <2>3, <3>1, <3>3, <3>4 DEF IInv, NoLostWakeup
  <2> QED BY <1>5, <2>4, <2>5 DEF Release
<1>6. CASE Join \/ Exit
  <2>1. TypeOK' /\ Phases'
    BY <1>t, <1>6 DEF Join, Exit, TypeOK, Phases, Files
  <2>2. Holders' = Holders /\ Woken' = Woken /\ Waiters' = Waiters /\ count' = count
    BY <1>6 DEF Join, Exit, Holders, Woken, Waiters
  <2> QED BY <1>t, <2>1, <2>2 DEF IInv, PermitsConserved, NoLostWakeup
<1>7. CASE UNCHANGED vars
  <2>1. Holders' = Holders /\ Woken' = Woken /\ Waiters' = Waiters
    BY <1>7 DEF vars, Holders, Woken, Waiters
  <2> QED BY <1>t, <1>7, <2>1 DEF IInv, vars, TypeOK, Phases, PermitsConserved, NoLostWakeup
<1> QED BY <1>1, <1>2, <1>3, <1>4, <1>5, <1>6, <1>7 DEF Next, Main, Thread, Terminated

\* The invariant holds in every reachable state.
LEMMA Invariance == Spec => []IInv
BY InitInv, NextInv, PTL DEF Spec

\* The count of the semaphore stays between 0 and the capacity (a usize that
\* is never decremented at 0), and the threads keep their phases.
THEOREM TypeCorrect == Spec => []TypeOK
<1>1. IInv => TypeOK
  BY DEF IInv
<1> QED BY <1>1, Invariance, PTL

\* acquire and release neither lose nor create a permit.
THEOREM PermitsCorrect == Spec => []PermitsConserved
<1>1. IInv => PermitsConserved
  BY DEF IInv
<1> QED BY <1>1, Invariance, PTL

\* No wake-up is lost: notify_one under the mutex is enough, although a
\* newcomer may take the permit the woken thread was told about.
THEOREM WakeupsCorrect == Spec => []NoLostWakeup
<1>1. IInv => NoLostWakeup
  BY DEF IInv
<1> QED BY <1>1, Invariance, PTL

\* cmd_check implements the abstract pool: every file is checked exactly
\* once, at most Capacity at a time, and the status is 1 iff one failed.
THEOREM PoolImplemented == Spec => PoolSpec
<1> DEFINE R == {f \in Files : tpc[f] = "check"}
<1>1. Init => Pool!PoolInit
  BY DEF Init, Pool!PoolInit
<1>2. IInv /\ [Next]_vars => [Pool!PoolNext]_(Pool!poolVars)
  <2> SUFFICES ASSUME IInv, [Next]_vars PROVE [Pool!PoolNext]_(Pool!poolVars)
      OBVIOUS
  <2>t. /\ Phases /\ tpc \in [Files -> {"unborn", "acquire", "wait", "woken", "check", "checked", "done"}]
        /\ verdict \in [Files -> {"none", "clean", "failed"}]
        /\ count \in Nat /\ Capacity \in Nat
    BY SizeAssumption DEF IInv, TypeOK
  <2>1. ASSUME NEW f \in Files, Acquire(f), count > 0, tpc' = [tpc EXCEPT ![f] = "check"] PROVE Pool!Begin(f)
    <3>1. Cardinality(Holders) < Capacity
      BY <2>1, <2>t, FiniteThreads DEF IInv, PermitsConserved
    <3>2. R \in SUBSET Holders
      BY DEF Holders
    <3>3. IsFiniteSet(R) /\ Cardinality(R) <= Cardinality(Holders) /\ Cardinality(R) \in Nat
      BY <3>2, FiniteThreads, FS_Subset, FS_CardinalityType
    <3>4. Cardinality(R) < Capacity
      BY <3>1, <3>3, <2>t, FiniteThreads
    <3>5. f \notin R /\ R' = R \cup {f} /\ verdict[f] = "none"
      BY <2>1, <2>t DEF Acquire, Phases
    <3>6. UNCHANGED <<verdict, status>>
      BY <2>1 DEF Acquire
    <3>c. Pool!Cardinality(R) = Cardinality(R)
      BY DEF Pool!Cardinality, Cardinality
    <3> HIDE DEF R
    <3>7. /\ verdict[f] = "none" /\ f \notin R
          /\ Pool!Cardinality(R) < Capacity
          /\ R' = R \cup {f}
          /\ UNCHANGED <<verdict, status>>
      BY <3>4, <3>5, <3>6, <3>c
    <3> QED BY <3>7 DEF R, Pool!Begin
  <2>2. ASSUME NEW f \in Files, Acquire(f), tpc' = [tpc EXCEPT ![f] = "wait"] PROVE UNCHANGED Pool!poolVars
    BY <2>2, <2>t DEF Acquire, Pool!poolVars
  <2>3. ASSUME NEW f \in Files, NEW v \in {"clean", "failed"}, CheckOne(f, v) PROVE Pool!Finish(f, v)
    BY <2>3, <2>t DEF CheckOne, Pool!Finish
  <2>4. ASSUME NEW f \in Files, Release(f) PROVE UNCHANGED Pool!poolVars
    BY <2>4, <2>t DEF Release, Waiters, Pool!poolVars
  <2>5. ASSUME NEW f \in Files, SpuriousWakeup(f) PROVE UNCHANGED Pool!poolVars
    BY <2>5, <2>t DEF SpuriousWakeup, Pool!poolVars
  <2>6. CASE Spawn
    BY <2>6, <2>t DEF Spawn, Phases, IInv, TypeOK, Files, Pool!poolVars
  <2>7. CASE Join \/ UNCHANGED vars
    BY <2>7 DEF Join, vars, Pool!poolVars
  <2>8. CASE Exit
    <3>1. \A f \in Files : verdict[f] # "none"
      BY <2>8, <2>t DEF Exit, Phases, Files
    <3> QED BY <2>8, <3>1 DEF Exit, Pool!Report, Pool!PoolNext
  <2> QED BY <2>1, <2>2, <2>3, <2>4, <2>5, <2>6, <2>7, <2>8
          DEF Next, Main, Thread, Acquire, Terminated, Pool!PoolNext
<1> QED BY <1>1, <1>2, Invariance, PTL DEF Spec, PoolSpec, Pool!PoolSpec

----------------------------------------------------------------------------
(* The frames.                                                              *)

Response(s) == Framed(encodeDiagnostics(CheckSource[s]))

Types ==
    /\ mode \in {"once", "session"} /\ open \in BOOLEAN
    /\ cpc \in {"idle", "write", "read", "wait", "returned"}
    /\ spc \in {"header", "body", "write", "exited"}
    /\ requests \in Nat /\ wrote \in Nat /\ want \in Nat /\ exited \in {0, 1, 9}
    /\ got \in Seq(Byte) /\ toServer \in Seq(Byte) /\ toClient \in Seq(Byte)
    /\ buf \in Seq(Byte) /\ resp \in Seq(Byte)
    /\ cpc # "idle" => cur \in DOMAIN CheckSource /\ requests > 0

\* The server runs and has not read the whole request yet.
Asked ==
    /\ cpc \in {"write", "read"} /\ got = <<>> /\ toClient = <<>>
    /\ \/ /\ spc = "write" /\ resp = <<>>
          /\ Part(toServer, Request, 0) /\ wrote = Len(toServer)
       \/ /\ spc = "header" /\ want = Width /\ Len(buf) <= want
          /\ Part(buf, Request, 0) /\ Part(toServer, Request, Len(buf))
          /\ wrote = Len(buf) + Len(toServer)
       \/ /\ spc = "body" /\ want = Len(Payload(cur)) /\ Len(buf) <= want
          /\ Part(buf, Request, Width) /\ Part(toServer, Request, Width + Len(buf))
          /\ wrote = Width + Len(buf) + Len(toServer)

\* What the client and its pipe hold of the response.
Arrived == Part(got, Response(cur), 0) /\ Part(toClient, Response(cur), Len(got))

\* The server runs and has read the request, and only it.
Answered ==
    /\ cpc \in {"write", "read"} /\ wrote = Len(Request) /\ toServer = <<>> /\ Arrived
    /\ \/ /\ spc = "write" /\ Part(resp, Response(cur), Len(got) + Len(toClient))
          /\ Len(got) + Len(toClient) + Len(resp) = Len(Response(cur))
       \/ /\ spc = "header" /\ buf = <<>> /\ want = Width
          /\ Len(got) + Len(toClient) = Len(Response(cur))

\* Between two calls nothing is under way.
Rest ==
    /\ cpc \in {"idle", "returned"} /\ toServer = <<>> /\ toClient = <<>>
    /\ mode = "once" => cpc = "idle"
    /\ (spc = "header" /\ buf = <<>> /\ want = Width) \/ (spc = "write" /\ resp = <<>>)

\* The server is gone: what it wrote is a beginning of the response, and all
\* of it if it ended of its own accord.
Gone ==
    /\ spc = "exited"
    /\ cpc \in {"write", "read", "wait"} => Arrived
    /\ cpc \in {"idle", "wait", "returned"} => toClient = <<>>
    /\ cpc = "write" /\ wrote < Len(Request) => toClient = <<>>
    /\ exited = 0 => /\ mode = "once" /\ cpc \in {"read", "wait", "returned"}
                     /\ cpc # "returned" => Len(got) + Len(toClient) = Len(Response(cur))
    /\ exited = 1 => cpc # "idle" /\ (mode = "session" \/ Len(Payload(cur)) > Limit)

\* Only check_src closes the server's input, after its one request; only a
\* server that is gone is waited for.
Ends ==
    /\ ~open => mode = "once" /\ cpc \in {"read", "wait", "returned"} /\ wrote = Len(Request)
    /\ Alive => exited = 0
    /\ cpc = "wait" => mode = "once" /\ ~Alive

\* A call has the diagnostics of its source, or the server has failed.
Results ==
    cpc = "returned" => \/ result = <<"ok", CheckSource[cur]>>
                        \/ result = <<"err">> /\ ~Alive /\ exited # 0

CheckdInv == Types /\ Ends /\ Results /\ (Asked \/ Answered \/ Rest \/ Gone)


----------------------------------------------------------------------------
(* The coding of numbers, strings, diagnostics and requests.                *)

\* The powers of the base.
LEMMA PowersShape ==
    /\ Powers[0] = 1
    /\ \A k \in 1..Width : Powers[k] = Base * Powers[k - 1]
    /\ \A k \in 0..Width : Powers[k] \in Nat /\ Powers[k] > 0
<1> DEFINE E(g) == [k \in 0..Width |-> IF k = 0 THEN 1 ELSE Base * g[k - 1]]
           F == [k \in 1..Width |-> [x \in Nat |-> Base * x]]
<1>1. Base \in Nat /\ Base > 1 /\ Width \in Nat
  BY CodingAssumption
<1>2. PICK f \in [0..Width -> Nat] : Recursion(f, 1, Width, F)
  <2>1. F \in [1..Width -> [Nat -> Nat]]
    BY <1>1
  <2> HIDE DEF F
  <2> QED BY <1>1, <2>1, RecursionExists
<1>3. f = E(f)
  <2>1. ASSUME NEW k \in 0..Width PROVE f[k] = IF k = 0 THEN 1 ELSE Base * f[k - 1]
    <3>1. CASE k = 0
      BY <1>2, <3>1 DEF Recursion
    <3>2. CASE k # 0
      <4>1. k \in 1..Width /\ k - 1 \in 0..Width /\ f[k - 1] \in Nat
        BY <1>1, <3>2
      <4>2. f[k] = F[k][f[k - 1]]
        BY <1>2, <4>1 DEF Recursion
      <4> QED BY <3>2, <4>1, <4>2
    <3> QED BY <3>1, <3>2
  <2> QED BY <2>1
<1>4. Powers = E(Powers)
  <2>1. Powers = CHOOSE g : g = E(g)
    BY DEF Powers
  <2> QED BY <1>3, <2>1
<1>5. Powers[0] = 1 /\ \A k \in 1..Width : Powers[k] = Base * Powers[k - 1]
  <2>1. \A k \in 0..Width : Powers[k] = IF k = 0 THEN 1 ELSE Base * Powers[k - 1]
    BY <1>4
  <2> QED BY <1>1, <2>1
<1> DEFINE T == {k \in 0..Width : Powers[k] \in Nat /\ Powers[k] > 0}
<1>6. 0 \in T
  BY <1>1, <1>5
<1>7. ASSUME NEW k \in 0..(Width - 1), k \in T PROVE k + 1 \in T
  <2>1. k + 1 \in 1..Width /\ k + 1 \in 0..Width /\ (k + 1) - 1 = k
    BY <1>1
  <2>2. Powers[k + 1] = Base * Powers[k]
    BY <1>5, <2>1
  <2>3. Powers[k] \in Nat /\ Powers[k] > 0
    BY <1>7
  <2> QED BY <1>1, <2>1, <2>2, <2>3
<1>8. \A k \in 0..Width : k \in T
  <2> HIDE DEF T
  <2> QED BY <1>1, <1>6, <1>7, BoundedInduction
<1> QED BY <1>5, <1>8

\* A number takes Width bytes.
LEMMA PushShape ==
    ASSUME NEW n \in Nat
    PROVE  /\ push_be32(n) \in Seq(Byte) /\ Len(push_be32(n)) = Width
           /\ \A k \in 1..Width : push_be32(n)[k] = (n \div Powers[Width - k]) % Base
<1>1. Width \in Nat /\ Base \in Nat /\ Base > 1
  BY CodingAssumption
<1> DEFINE d(k) == (n \div Powers[Width - k]) % Base
           f == [k \in 1..Width |-> d(k)]
<1>2. ASSUME NEW k \in 1..Width PROVE d(k) \in Byte
  <2>1. Powers[Width - k] \in Nat /\ Powers[Width - k] > 0
    BY <1>1, PowersShape
  <2>2. n \div Powers[Width - k] \in Nat
    BY <2>1, DivMod
  <2> QED BY <1>1, <2>2, DivMod DEF Byte
<1>3. push_be32(n) = f
  BY DEF push_be32
<1>4. f \in [1..Width -> Byte] /\ \A k \in 1..Width : f[k] = d(k)
  <2> HIDE DEF d
  <2> QED BY <1>2
<1> HIDE DEF f, d
<1>5. f \in Seq(Byte) /\ Len(f) = Width
  BY <1>1, <1>4
<1> QED BY <1>3, <1>4, <1>5 DEF d

\* be32 reads what push_be32 wrote.
LEMMA Be32Push ==
    ASSUME NEW n \in Number
    PROVE  be32(push_be32(n)) = n
<1> DEFINE b == push_be32(n)
           E(g) == [k \in 0..Len(b) |-> IF k = 0 THEN 0 ELSE Base * g[k - 1] + b[k]]
           c == CHOOSE g : g = E(g)
           f == [k \in 0..Width |-> n \div Powers[Width - k]]
<1>1. Width \in Nat /\ Base \in Nat /\ Base > 1
  BY CodingAssumption
<1>2. n \in Nat /\ n < Powers[Width]
  BY <1>1, PowersShape DEF Number
<1>3. Len(b) = Width /\ \A k \in 1..Width : b[k] = (n \div Powers[Width - k]) % Base
  BY <1>2, PushShape
<1>4. be32(b) = c[Width]
  BY <1>3 DEF be32
<1> HIDE DEF b
<1>5. f[0] = 0 /\ f[Width] = n
  <2>1. n \div Powers[Width] = 0
    BY <1>1, <1>2, PowersShape, DivMod
  <2>2. Powers[0] = 1 /\ n \div 1 = n
    BY <1>2, PowersShape, DivMod
  <2>3. Width - 0 = Width /\ Width - Width = 0 /\ 0 \in 0..Width /\ Width \in 0..Width
    BY <1>1
  <2> QED BY <2>1, <2>2, <2>3
<1>6. ASSUME NEW k \in 1..Width PROVE f[k] = Base * f[k - 1] + b[k]
  <2> DEFINE p == Powers[Width - k]
  <2>1. p \in Nat /\ p > 0 /\ Powers[Width - (k - 1)] = Base * p
    <3>1. Width - k \in 0..Width /\ Width - (k - 1) \in 1..Width /\ (Width - (k - 1)) - 1 = Width - k
      BY <1>1
    <3> QED BY <3>1, PowersShape
  <2>2. f[k] = n \div p /\ f[k - 1] = n \div (Base * p)
    <3>1. k \in 0..Width /\ k - 1 \in 0..Width
      BY <1>1
    <3> HIDE DEF p
    <3>2. f[k - 1] = n \div Powers[Width - (k - 1)]
      BY <3>1
    <3> QED BY <2>1, <3>1, <3>2 DEF p
  <2> HIDE DEF p, f
  <2>3. n \div p = Base * (n \div (Base * p)) + ((n \div p) % Base)
    <3>1. Base > 0
      BY <1>1
    <3> QED BY <1>1, <1>2, <2>1, <3>1, Digit
  <2>4. b[k] = (n \div p) % Base
    BY <1>3 DEF p
  <2> QED BY <2>2, <2>3, <2>4
<1>7. f = E(f)
  <2>1. \A k \in 0..Width : f[k] = IF k = 0 THEN 0 ELSE Base * f[k - 1] + b[k]
    <3> HIDE DEF f
    <3> QED BY <1>1, <1>5, <1>6
  <2>2. f = [k \in 0..Width |-> f[k]]
    OBVIOUS
  <2> HIDE DEF f
  <2> QED BY <1>3, <2>1, <2>2
<1>8. c = E(c)
  <2> HIDE DEF f
  <2> QED BY <1>7
<1> HIDE DEF c
<1> DEFINE T == {k \in 0..Width : c[k] = f[k]}
<1>9. \A k \in 0..Width : c[k] = IF k = 0 THEN 0 ELSE Base * c[k - 1] + b[k]
  BY <1>3, <1>8
<1>10. 0 \in T
  BY <1>1, <1>5, <1>9
<1>11. ASSUME NEW k \in 0..(Width - 1), k \in T PROVE k + 1 \in T
  <2>1. k + 1 \in 1..Width /\ k + 1 \in 0..Width /\ (k + 1) - 1 = k /\ k + 1 # 0
    BY <1>1
  <2> HIDE DEF f
  <2>2. c[k + 1] = Base * c[k] + b[k + 1] /\ f[k + 1] = Base * f[k] + b[k + 1]
    BY <1>6, <1>9, <2>1
  <2> QED BY <1>11, <2>1, <2>2
<1>12. \A k \in 0..Width : k \in T
  <2> HIDE DEF T
  <2> QED BY <1>1, <1>10, <1>11, BoundedInduction
<1>13. c[Width] = f[Width]
  <2> HIDE DEF f
  <2> QED BY <1>1, <1>12
<1> HIDE DEF f
<1> QED BY <1>4, <1>5, <1>13 DEF b

\* le32 reads what PutUint32 wrote.
LEMMA Le32Put ==
    ASSUME NEW n \in Number
    PROVE  put_le32(n) \in Seq(Byte) /\ Len(put_le32(n)) = Width /\ le32(put_le32(n)) = n
<1> DEFINE b == push_be32(n)
<1>1. n \in Nat /\ Width \in Nat
  BY CodingAssumption, PowersShape DEF Number
<1>2. b \in Seq(Byte) /\ Len(b) = Width /\ be32(b) = n
  BY <1>1, PushShape, Be32Push
<1> HIDE DEF b
<1> DEFINE r == Reverse(b)
<1>3. r \in Seq(Byte) /\ Len(r) = Width /\ \A i \in 1..Width : r[i] = b[(Width - i) + 1]
  <2>1. r = [i \in 1..Width |-> b[(Width - i) + 1]]
    BY <1>2 DEF Reverse
  <2>2. \A i \in 1..Width : b[(Width - i) + 1] \in Byte
    BY <1>1, <1>2
  <2>3. r \in [1..Width -> Byte] /\ \A i \in 1..Width : r[i] = b[(Width - i) + 1]
    BY <2>1, <2>2
  <2> HIDE DEF r
  <2> QED BY <1>1, <2>3
<1> HIDE DEF r
<1>4. Reverse(r) = b
  <2>1. Reverse(r) = [i \in 1..Width |-> r[(Width - i) + 1]]
    BY <1>3 DEF Reverse
  <2>2. ASSUME NEW i \in 1..Width PROVE r[(Width - i) + 1] = b[i]
    <3>1. (Width - i) + 1 \in 1..Width /\ (Width - ((Width - i) + 1)) + 1 = i
      BY <1>1
    <3> QED BY <1>3, <3>1
  <2>3. b = [i \in 1..Width |-> b[i]]
    BY <1>1, <1>2
  <2> QED BY <2>1, <2>2, <2>3
<1> QED BY <1>2, <1>3, <1>4 DEF put_le32, le32, b, r
\* A frame or field is the length of its contents and the contents.
LEMMA FramedShape ==
    ASSUME NEW s \in Seq(Byte)
    PROVE  /\ Framed(s) \in Seq(Byte) /\ Len(Framed(s)) = Width + Len(s)
           /\ Part(push_be32(Len(s)), Framed(s), 0) /\ Part(s, Framed(s), Width)
<1> DEFINE h == push_be32(Len(s))
<1>1. h \in Seq(Byte) /\ Len(h) = Width
  BY PushShape
<1>2. Framed(s) = h \o s
  BY DEF Framed
<1> HIDE DEF h
<1>3. /\ h \o s \in Seq(Byte) /\ Len(h \o s) = Len(h) + Len(s)
      /\ Part(h, h \o s, 0) /\ Part(s, h \o s, Len(h))
  BY <1>1, PartsOfConcat
<1> QED BY <1>1, <1>2, <1>3 DEF h

\* What is read at the place of Width bytes.
LEMMA AtPart ==
    ASSUME NEW R \in Seq(Byte), NEW s \in Seq(Byte), NEW o \in Nat, Part(s, R, o), Len(s) = Width
    PROVE  At(R, o) = s /\ o + Width <= Len(R)
<1>1. SubSeq(R, o + 1, o + Len(s)) = s
  BY Slice
<1> QED BY <1>1 DEF At, Part

\* read_str finds a field at its place.
LEMMA ReadField ==
    ASSUME NEW R \in Seq(Byte), NEW s \in Seq(Byte), Len(s) \in Number, NEW o \in Nat, Part(Field(s), R, o)
    PROVE  read_str(R, o) = <<"str", s>>
<1> DEFINE h == push_be32(Len(s))
           F == Framed(s)
<1>1. Width \in Nat /\ Len(s) \in Nat /\ Len(R) \in Nat
  BY CodingAssumption
<1>2. h \in Seq(Byte) /\ Len(h) = Width /\ be32(h) = Len(s)
  BY <1>1, PushShape, Be32Push
<1>3. F \in Seq(Byte) /\ Len(F) = Width + Len(s) /\ Part(h, F, 0) /\ Part(s, F, Width) /\ Part(F, R, o)
  BY FramedShape DEF Field
<1> HIDE DEF h, F
<1>4. Part(h, R, o + 0) /\ Part(s, R, o + Width)
  <2>1. 0 \in Nat
    OBVIOUS
  <2> QED BY <1>1, <1>2, <1>3, <2>1, PartOfPart
<1>5. At(R, o) = h
  <2>1. o + 0 = o
    OBVIOUS
  <2> QED BY <1>2, <1>4, <2>1, AtPart
<1>6. o + Width + Len(s) <= Len(R) /\ ~(o + Width > Len(R)) /\ ~(o + Width + Len(s) > Len(R))
  <2>1. (o + Width) + Len(s) <= Len(R)
    BY <1>4 DEF Part
  <2> QED BY <1>1, <2>1
<1>7. SubSeq(R, o + Width + 1, o + Width + Len(s)) = s
  <2>1. o + Width \in Nat
    BY <1>1
  <2> QED BY <1>4, <2>1, Slice
<1> QED BY <1>2, <1>5, <1>6, <1>7 DEF read_str

\* The four parts of a diagnostic.
LEMMA DiagnosticShape ==
    ASSUME NEW d \in Diagnostic
    PROVE  LET e == encodeDiagnostic(d)
               c == Width + Len(d[1]) IN
           /\ d[1] \in Seq(Byte) /\ d[2] \in Number /\ d[3] \in Number /\ d[4] \in Seq(Byte)
           /\ d = <<d[1], d[2], d[3], d[4]>>
           /\ e \in Seq(Byte) /\ Len(e) = c + 3 * Width + Len(d[4])
           /\ Part(Field(d[1]), e, 0) /\ Part(put_le32(d[2]), e, c)
           /\ Part(put_le32(d[3]), e, c + Width) /\ Part(Field(d[4]), e, c + 2 * Width)
<1> DEFINE f1 == Field(d[1])
           f2 == put_le32(d[2])
           f3 == put_le32(d[3])
           f4 == Field(d[4])
           L1 == Len(d[1])
           L4 == Len(d[4])
           x  == f1 \o f2
           y  == x \o f3
           e  == encodeDiagnostic(d)
<1>1. /\ d[1] \in Seq(Byte) /\ d[2] \in Number /\ d[3] \in Number /\ d[4] \in Seq(Byte)
      /\ d = <<d[1], d[2], d[3], d[4]>>
  BY DEF Diagnostic
<1>2. Width \in Nat /\ L1 \in Nat /\ L4 \in Nat
  BY <1>1, CodingAssumption
<1>3. /\ f1 \in Seq(Byte) /\ Len(f1) = Width + L1 /\ f4 \in Seq(Byte) /\ Len(f4) = Width + L4
      /\ f2 \in Seq(Byte) /\ Len(f2) = Width /\ f3 \in Seq(Byte) /\ Len(f3) = Width
  BY <1>1, FramedShape, Le32Put DEF Field
<1>4. e = y \o f4
  BY DEF encodeDiagnostic
<1> HIDE DEF f1, f2, f3, f4, L1, L4, e
<1>5. x \in Seq(Byte) /\ Len(x) = 2 * Width + L1 /\ Part(f1, x, 0) /\ Part(f2, x, Width + L1)
  <2>1. x \in Seq(Byte) /\ Len(x) = Len(f1) + Len(f2) /\ Part(f1, x, 0) /\ Part(f2, x, Len(f1))
    BY <1>3, PartsOfConcat
  <2> HIDE DEF x
  <2> QED BY <1>2, <1>3, <2>1
<1> HIDE DEF x
<1>6. y \in Seq(Byte) /\ Len(y) = 3 * Width + L1 /\ Part(x, y, 0) /\ Part(f3, y, 2 * Width + L1)
  <2>1. y \in Seq(Byte) /\ Len(y) = Len(x) + Len(f3) /\ Part(x, y, 0) /\ Part(f3, y, Len(x))
    BY <1>3, <1>5, PartsOfConcat
  <2> HIDE DEF y
  <2> QED BY <1>2, <1>3, <1>5, <2>1
<1> HIDE DEF y
<1>7. e \in Seq(Byte) /\ Len(e) = 4 * Width + L1 + L4 /\ Part(y, e, 0) /\ Part(f4, e, 3 * Width + L1)
  <2>1. e \in Seq(Byte) /\ Len(e) = Len(y) + Len(f4) /\ Part(y, e, 0) /\ Part(f4, e, Len(y))
    BY <1>3, <1>4, <1>6, PartsOfConcat
  <2> QED BY <1>2, <1>3, <1>6, <2>1
<1>8. ASSUME NEW s \in Seq(Byte), NEW t \in Seq(Byte), NEW R \in Seq(Byte), NEW o \in Nat, Part(s, t, o), Part(t, R, 0)
      PROVE  Part(s, R, o)
  <2>1. 0 \in Nat /\ 0 + o = o
    OBVIOUS
  <2>2. Part(s, R, 0 + o)
    BY <1>8, <2>1, PartOfPart
  <2> QED BY <2>1, <2>2
<1>9. 0 \in Nat /\ Width + L1 \in Nat /\ 2 * Width + L1 \in Nat
  BY <1>2
<1>10. Part(f1, y, 0) /\ Part(f2, y, Width + L1)
  BY <1>3, <1>5, <1>6, <1>8, <1>9, Zenon
<1>11. Part(f1, e, 0) /\ Part(f2, e, Width + L1) /\ Part(f3, e, 2 * Width + L1)
  <2>1. y \in Seq(Byte) /\ e \in Seq(Byte) /\ Part(y, e, 0)
    BY <1>6, <1>7
  <2>2. Part(f1, e, 0)
    <3>1. f1 \in Seq(Byte) /\ Part(f1, y, 0) /\ 0 \in Nat
      BY <1>3, <1>9, <1>10
    <3> QED BY <1>8, <2>1, <3>1
  <2>3. Part(f2, e, Width + L1)
    <3>1. f2 \in Seq(Byte) /\ Part(f2, y, Width + L1)
      BY <1>3, <1>10
    <3> QED BY <1>8, <1>9, <2>1, <3>1
  <2>4. Part(f3, e, 2 * Width + L1)
    <3>1. f3 \in Seq(Byte) /\ Part(f3, y, 2 * Width + L1)
      BY <1>3, <1>6
    <3> QED BY <1>8, <1>9, <2>1, <3>1
  <2> QED BY <2>2, <2>3, <2>4
<1>12. /\ 2 * Width + L1 = (Width + L1) + Width /\ 3 * Width + L1 = (Width + L1) + 2 * Width
       /\ 4 * Width + L1 + L4 = (Width + L1) + 3 * Width + L4
  BY <1>2
<1>13. /\ Len(e) = (Width + L1) + 3 * Width + L4 /\ Part(f3, e, (Width + L1) + Width)
       /\ Part(f4, e, (Width + L1) + 2 * Width)
  BY <1>7, <1>11, <1>12
<1> QED BY <1>1, <1>7, <1>11, <1>13 DEF f1, f2, f3, f4, L1, L4, e

\* A turn of the loop of parse_response at a diagnostic takes that one.
LEMMA TakeDiagnostic ==
    ASSUME NEW R \in Seq(Byte), NEW d \in Diagnostic, NEW o \in Nat, Part(encodeDiagnostic(d), R, o),
           Len(R) \in Number, NEW ds \in Seq(Diagnostic)
    PROVE  ParseDiag(R, [ok |-> TRUE, off |-> o, diags |-> ds]) =
               [ok |-> TRUE, off |-> o + Len(encodeDiagnostic(d)), diags |-> Append(ds, d)]
<1> DEFINE e  == encodeDiagnostic(d)
           L1 == Len(d[1])
           c  == Width + L1
           f1 == Field(d[1])
           f2 == put_le32(d[2])
           f3 == put_le32(d[3])
           f4 == Field(d[4])
           p  == [ok |-> TRUE, off |-> o, diags |-> ds]
           L4 == Len(d[4])
<1>1. /\ d[1] \in Seq(Byte) /\ d[2] \in Number /\ d[3] \in Number /\ d[4] \in Seq(Byte)
      /\ d = <<d[1], d[2], d[3], d[4]>>
      /\ e \in Seq(Byte) /\ Len(e) = c + 3 * Width + L4
      /\ Part(f1, e, 0) /\ Part(f2, e, c) /\ Part(f3, e, c + Width) /\ Part(f4, e, c + 2 * Width)
  BY DiagnosticShape, Zenon
<1>2. Width \in Nat /\ L1 \in Nat /\ L4 \in Nat /\ c \in Nat /\ Len(R) \in Nat
  <2>1. Width \in Nat
    BY CodingAssumption
  <2>2. L1 \in Nat /\ L4 \in Nat /\ Len(R) \in Nat
    BY <1>1, Zenon, LenProperties
  <2> QED BY <2>1, <2>2
<1>3. /\ f1 \in Seq(Byte) /\ f4 \in Seq(Byte) /\ f2 \in Seq(Byte) /\ Len(f2) = Width
      /\ f3 \in Seq(Byte) /\ Len(f3) = Width /\ le32(f2) = d[2] /\ le32(f3) = d[3]
  BY <1>1, FramedShape, Le32Put DEF Field
<1>e. Part(e, R, o) /\ o + Len(e) <= Len(R)
  BY DEF Part
<1>4. L1 \in Number /\ L4 \in Number
  <2>1. L1 <= Len(R) /\ L4 <= Len(R)
    <3> HIDE DEF e, L1, L4
    <3>1. Len(e) = c + 3 * Width + L4 /\ o + Len(e) <= Len(R)
      BY <1>1, <1>e, Zenon
    <3> QED BY <1>2, <3>1
  <2>2. Powers[Width] \in Nat
    BY <1>2, PowersShape
  <2> QED BY <1>2, <2>1, <2>2 DEF Number
<1> HIDE DEF e, c, f1, f2, f3, f4, L1, L4
<1>5. /\ 0 \in Nat /\ c + Width \in Nat /\ c + 2 * Width \in Nat
      /\ o + c \in Nat /\ o + (c + Width) = (o + c) + Width /\ o + (c + 2 * Width) = (o + c) + 2 * Width
      /\ (o + c) + Width \in Nat /\ (o + c) + 2 * Width \in Nat /\ o + 0 = o
  BY <1>2
<1>6. Part(f1, R, o + 0) /\ Part(f2, R, o + c) /\ Part(f3, R, o + (c + Width)) /\ Part(f4, R, o + (c + 2 * Width))
  BY <1>1, <1>2, <1>3, <1>5, <1>e, PartOfPart, Zenon
<1>7. Part(f1, R, o) /\ Part(f2, R, o + c) /\ Part(f3, R, (o + c) + Width) /\ Part(f4, R, (o + c) + 2 * Width)
  BY <1>5, <1>6
<1>8. read_str(R, o) = <<"str", d[1]>> /\ read_str(R, (o + c) + 2 * Width) = <<"str", d[4]>>
  BY <1>1, <1>4, <1>5, <1>7, ReadField, Zenon DEF f1, f4, L1, L4
<1>9. At(R, o + c) = f2 /\ At(R, (o + c) + Width) = f3 /\ ((o + c) + Width) + Width <= Len(R)
  BY <1>3, <1>5, <1>7, AtPart
<1>10. ~((o + c) + 2 * Width > Len(R)) /\ (o + c) + 3 * Width + L4 = o + Len(e)
  <2>1. Len(e) = c + 3 * Width + L4
    BY <1>1, Zenon
  <2> QED BY <1>2, <1>9, <2>1
<1> DEFINE code == read_str(R, p.off)
           off  == p.off + Width + Len(code[2])
           msg  == read_str(R, off + 2 * Width)
<1>11. p.off = o /\ p.ok = TRUE /\ p.diags = ds
  OBVIOUS
<1>12. code[1] = "str" /\ code[2] = d[1]
  BY <1>8, <1>11
<1>13. off = o + c
  <2>1. off = o + Width + L1
    <3> HIDE DEF p, code
    <3> QED BY <1>11, <1>12 DEF L1
  <2> HIDE DEF off
  <2> QED BY <1>2, <2>1 DEF c
<1>14. msg[1] = "str" /\ msg[2] = d[4]
  <2> HIDE DEF p, off
  <2> QED BY <1>8, <1>13
<1>15. ParseDiag(R, p) =
         IF ~p.ok \/ code[1] = "cut" \/ off + 2 * Width > Len(R) \/ msg[1] = "cut"
         THEN [p EXCEPT !.ok = FALSE]
         ELSE [ok |-> TRUE, off |-> off + 3 * Width + Len(msg[2]),
               diags |-> Append(p.diags, <<code[2], le32(At(R, off)), le32(At(R, off + Width)), msg[2]>>)]
  BY DEF ParseDiag
<1> HIDE DEF p, code, off, msg
<1>16. ParseDiag(R, p) = [ok |-> TRUE, off |-> off + 3 * Width + Len(msg[2]),
               diags |-> Append(p.diags, <<code[2], le32(At(R, off)), le32(At(R, off + Width)), msg[2]>>)]
  <2>1. code[1] # "cut" /\ msg[1] # "cut"
    BY <1>12, <1>14
  <2>2. ~(off + 2 * Width > Len(R))
    BY <1>10, <1>13
  <2> QED BY <1>11, <1>15, <2>1, <2>2, Zenon
<1>17. off + 3 * Width + Len(msg[2]) = o + Len(e)
  BY <1>10, <1>13, <1>14 DEF L4
<1>18. <<code[2], le32(At(R, off)), le32(At(R, off + Width)), msg[2]>> = d
  <2>1. le32(At(R, off)) = d[2] /\ le32(At(R, off + Width)) = d[3]
    BY <1>3, <1>9, <1>13
  <2> QED BY <1>1, <1>12, <1>14, <2>1
<1>19. ParseDiag(R, p) = [ok |-> TRUE, off |-> o + Len(e), diags |-> Append(ds, d)]
  BY <1>11, <1>16, <1>17, <1>18
<1> QED BY <1>19 DEF p, e

\* The diagnostics in a response: the count, then one after the other.  pos[i]
\* is the offset after i of them.
LEMMA DiagnosticsShape ==
    ASSUME NEW ds \in Seq(Diagnostic)
    PROVE  LET R == encodeDiagnostics(ds)
               m == Len(ds) IN
           /\ R \in Seq(Byte) /\ R # <<>> /\ R[1] = 0 /\ Part(push_be32(m), R, 1)
           /\ \E pos \in [0..m -> Nat] :
                 /\ pos[0] = 1 + Width
                 /\ \A i \in 1..m : /\ pos[i] = pos[i - 1] + Len(encodeDiagnostic(ds[i]))
                                    /\ Part(encodeDiagnostic(ds[i]), R, pos[i - 1])
<1> DEFINE R  == encodeDiagnostics(ds)
           m  == Len(ds)
           ss == [i \in 1..m |-> encodeDiagnostic(ds[i])]
           z  == <<0>>
           h  == push_be32(m)
           x  == z \o h
           fl == FlattenSeq(ss)
<1>1. m \in Nat /\ DOMAIN ds = 1..m /\ (\A i \in 1..m : ds[i] \in Diagnostic) /\ Width \in Nat
  <2>1. Width \in Nat
    BY CodingAssumption
  <2> QED BY <2>1
<1>2. \A i \in 1..m : encodeDiagnostic(ds[i]) \in Seq(Byte)
  <2>1. \A d \in Diagnostic : encodeDiagnostic(d) \in Seq(Byte)
    BY DiagnosticShape, Zenon
  <2> QED BY <1>1, <2>1, Zenon
<1>3. ss \in Seq(Seq(Byte)) /\ Len(ss) = m /\ \A i \in 1..m : ss[i] = encodeDiagnostic(ds[i])
  <2>1. ss \in [1..m -> Seq(Byte)] /\ \A i \in 1..m : ss[i] = encodeDiagnostic(ds[i])
    <3> HIDE DEF m
    <3> QED BY <1>2, Zenon
  <2> HIDE DEF ss, m
  <2> QED BY <1>1, <2>1
<1>4. R = x \o fl
  BY <1>1 DEF encodeDiagnostics
<1>5. z \in Seq(Byte) /\ Len(z) = 1 /\ z[1] = 0
  <2>1. 0 \in Byte
    BY CodingAssumption DEF Byte
  <2> QED BY <2>1
<1>6. h \in Seq(Byte) /\ Len(h) = Width
  BY <1>1, PushShape
<1> HIDE DEF R, m, ss, z, h, fl
<1>7. PICK f \in [0..m -> Seq(Byte)] : Concats(ss, f) /\ fl = f[m]
  BY <1>3, FlattenConcats DEF fl
<1>8. /\ \A i \in 0..m : Part(f[i], f[m], 0)
      /\ \A i \in 1..m : Len(f[i]) = Len(f[i - 1]) + Len(ss[i]) /\ Part(ss[i], f[m], Len(f[i - 1]))
  <2>1. ss \in Seq(Seq(Byte)) /\ f \in [0..Len(ss) -> Seq(Byte)] /\ Concats(ss, f)
    BY <1>3, <1>7
  <2>2. /\ \A i \in 0..Len(ss) : Part(f[i], f[Len(ss)], 0)
        /\ \A i \in 1..Len(ss) : /\ Len(f[i]) = Len(f[i - 1]) + Len(ss[i])
                                 /\ Part(ss[i], f[Len(ss)], Len(f[i - 1]))
    BY <2>1, ConcatsParts, Zenon
  <2> QED BY <1>3, <2>2
<1>9. fl \in Seq(Byte) /\ \A i \in 0..m : f[i] \in Seq(Byte) /\ Len(f[i]) \in Nat
  <2>1. \A i \in 0..m : f[i] \in Seq(Byte)
    OBVIOUS
  <2>2. m \in 0..m
    BY <1>1
  <2> QED BY <1>7, <2>1, <2>2, LenProperties
<1>10. x \in Seq(Byte) /\ Len(x) = 1 + Width /\ Part(z, x, 0) /\ Part(h, x, 1)
  <2>1. x \in Seq(Byte) /\ Len(x) = Len(z) + Len(h) /\ Part(z, x, 0) /\ Part(h, x, Len(z))
    BY <1>5, <1>6, PartsOfConcat
  <2> HIDE DEF x
  <2> QED BY <1>5, <1>6, <2>1
<1> HIDE DEF x
<1>11. /\ R \in Seq(Byte) /\ Len(R) = (1 + Width) + Len(fl)
       /\ Part(x, R, 0) /\ Part(fl, R, 1 + Width)
  <2>1. R \in Seq(Byte) /\ Len(R) = Len(x) + Len(fl) /\ Part(x, R, 0) /\ Part(fl, R, Len(x))
    BY <1>4, <1>9, <1>10, PartsOfConcat
  <2> QED BY <1>10, <2>1
<1>12. R # <<>> /\ R[1] = 0
  <2>1. Len(x) \in Nat /\ Len(x) >= 1 /\ Len(x) <= Len(R)
    BY <1>1, <1>10, <1>11 DEF Part
  <2>2. x[1] = R[0 + 1]
    BY <1>11, <2>1 DEF Part
  <2>3. z[1] = x[0 + 1]
    BY <1>5, <1>10 DEF Part
  <2>4. Len(R) # 0
    BY <1>11, <2>1
  <2> QED BY <1>5, <2>2, <2>3, <2>4
<1>13. Part(h, R, 1)
  <2>1. 0 \in Nat /\ 1 \in Nat /\ 0 + 1 = 1
    OBVIOUS
  <2>2. Part(h, R, 0 + 1)
    BY <1>6, <1>10, <1>11, <2>1, PartOfPart
  <2> QED BY <2>1, <2>2
<1> DEFINE pos == [i \in 0..m |-> (1 + Width) + Len(f[i])]
<1>14. pos \in [0..m -> Nat]
  <2>1. \A i \in 0..m : (1 + Width) + Len(f[i]) \in Nat
    BY <1>1, <1>9
  <2> QED BY <2>1
<1>15. pos[0] = 1 + Width
  <2>1. 0 \in 0..m /\ Len(f[0]) = 0
    BY <1>1, <1>7 DEF Concats
  <2>2. pos[0] = (1 + Width) + Len(f[0])
    BY <2>1
  <2> HIDE DEF pos
  <2> QED BY <1>1, <2>1, <2>2
<1>16. ASSUME NEW i \in 1..m
       PROVE  pos[i] = pos[i - 1] + Len(ss[i]) /\ Part(ss[i], R, pos[i - 1])
  <2>1. i \in 0..m /\ i - 1 \in 0..m
    BY <1>1
  <2>2. pos[i] = (1 + Width) + Len(f[i]) /\ pos[i - 1] = (1 + Width) + Len(f[i - 1])
    BY <2>1
  <2> HIDE DEF pos
  <2>3. Len(f[i]) = Len(f[i - 1]) + Len(ss[i]) /\ Part(ss[i], fl, Len(f[i - 1]))
    BY <1>7, <1>8
  <2>4. ss[i] \in Seq(Byte) /\ Len(ss[i]) \in Nat /\ Len(f[i - 1]) \in Nat /\ 1 + Width \in Nat
    <3>1. ss[i] \in Seq(Byte)
      BY <1>3
    <3>2. 1 + Width \in Nat
      BY <1>1
    <3> QED BY <1>9, <2>1, <3>1, <3>2, LenProperties
  <2>5. Part(ss[i], R, (1 + Width) + Len(f[i - 1]))
    BY <1>9, <1>11, <2>3, <2>4, PartOfPart
  <2>6. pos[i] = pos[i - 1] + Len(ss[i])
    <3>1. \A a, l \in Nat : (1 + Width) + (a + l) = ((1 + Width) + a) + l
      BY <1>1
    <3>2. (1 + Width) + (Len(f[i - 1]) + Len(ss[i])) = ((1 + Width) + Len(f[i - 1])) + Len(ss[i])
      BY <2>4, <3>1, Zenon
    <3> QED BY <2>2, <2>3, <3>2, Zenon
  <2> QED BY <2>2, <2>5, <2>6
<1> HIDE DEF pos
<1>17. \A i \in 1..m : /\ pos[i] = pos[i - 1] + Len(encodeDiagnostic(ds[i]))
                       /\ Part(encodeDiagnostic(ds[i]), R, pos[i - 1])
  BY <1>3, <1>16
<1> QED BY <1>11, <1>12, <1>13, <1>14, <1>15, <1>17 DEF R, m, h

\* The client's parse_response gives back every list of diagnostics that the
\* service's encodeDiagnostics wrote and whose length fits into a frame: it
\* neither stops early nor runs into the unchecked slice.
THEOREM ParseEncoded ==
    ASSUME NEW ds \in Seq(Diagnostic), Len(encodeDiagnostics(ds)) \in Number
    PROVE  parse_response(encodeDiagnostics(ds)) = <<"ok", ds>>
<1> DEFINE R == encodeDiagnostics(ds)
           m == Len(ds)
           h == push_be32(m)
           len(i) == Len(encodeDiagnostic(ds[i]))
<1>1. R \in Seq(Byte) /\ R # <<>> /\ R[1] = 0 /\ Part(h, R, 1)
  BY DiagnosticsShape, Zenon
<1>2. PICK pos \in [0..m -> Nat] :
          /\ pos[0] = 1 + Width
          /\ \A i \in 1..m : pos[i] = pos[i - 1] + len(i) /\ Part(encodeDiagnostic(ds[i]), R, pos[i - 1])
  BY DiagnosticsShape, Zenon
<1>3. Width \in Nat /\ Width > 0 /\ m \in Nat /\ Len(R) \in Nat /\ Len(R) \in Number
  <2>1. Width \in Nat /\ Width > 0
    BY CodingAssumption
  <2> QED BY <1>1, <2>1
<1>4. h \in Seq(Byte) /\ Len(h) = Width
  BY <1>3, PushShape
<1>5. \A i \in 1..m : ds[i] \in Diagnostic
  OBVIOUS
<1> HIDE DEF R, m, h
<1>6. ASSUME NEW i \in 1..m PROVE len(i) \in Nat /\ len(i) > 0 /\ pos[i - 1] + len(i) <= Len(R)
  <2> DEFINE d == ds[i]
             e == encodeDiagnostic(d)
             L1 == Len(d[1])
             L4 == Len(d[4])
  <2>1. d \in Diagnostic /\ Part(e, R, pos[i - 1])
    BY <1>2, <1>5
  <2> HIDE DEF d
  <2>2. d[1] \in Seq(Byte) /\ d[4] \in Seq(Byte) /\ Len(e) = (Width + L1) + 3 * Width + L4
    BY <2>1, DiagnosticShape, Zenon
  <2>3. L1 \in Nat /\ L4 \in Nat
    BY <2>2, LenProperties, Zenon
  <2> HIDE DEF e, L1, L4
  <2>4. Len(e) \in Nat /\ Len(e) > 0
    BY <1>3, <2>2, <2>3
  <2>5. pos[i - 1] + Len(e) <= Len(R)
    BY <2>1 DEF Part
  <2> QED BY <2>4, <2>5 DEF e, d
<1>7. m \in Number
  <2> DEFINE T == {i \in 0..m : pos[i] >= i}
  <2>1. 0 \in T
    BY <1>2, <1>3
  <2>2. ASSUME NEW i \in 0..(m - 1), i \in T PROVE i + 1 \in T
    <3> DEFINE l == len(i + 1)
    <3>1. i + 1 \in 1..m /\ i + 1 \in 0..m /\ (i + 1) - 1 = i /\ i \in 0..m
      BY <1>3
    <3>2. pos[i + 1] = pos[i] + l /\ l \in Nat /\ l > 0 /\ pos[i] \in Nat
      BY <1>2, <1>6, <3>1
    <3>3. pos[i] >= i
      BY <2>2
    <3> HIDE DEF l
    <3> QED BY <3>1, <3>2, <3>3
  <2>3. \A i \in 0..m : i \in T
    <3> HIDE DEF T
    <3> QED BY <1>3, <2>1, <2>2, BoundedInduction
  <2>4. m <= Len(R)
    <3>1. CASE m = 0
      BY <1>3, <3>1
    <3>2. CASE m # 0
      <4> DEFINE l == len(m)
      <4>1. m \in 1..m /\ m \in 0..m /\ m - 1 \in 0..m
        BY <1>3, <3>2
      <4>2. pos[m] = pos[m - 1] + l /\ pos[m - 1] + l <= Len(R) /\ pos[m] >= m /\ pos[m] \in Nat
        BY <1>2, <1>6, <2>3, <4>1
      <4> HIDE DEF l
      <4>3. pos[m] <= Len(R)
        BY <4>2
      <4> QED BY <1>3, <4>2, <4>3
    <3> QED BY <3>1, <3>2
  <2>5. Powers[Width] \in Nat
    BY <1>3, PowersShape
  <2> QED BY <1>3, <2>4, <2>5 DEF Number
<1>8. be32(At(R, 1)) = m /\ ~(Len(R) < 1 + Width)
  <2>1. At(R, 1) = h /\ 1 + Width <= Len(R)
    BY <1>1, <1>4, AtPart
  <2>2. be32(h) = m
    BY <1>7, Be32Push DEF h
  <2> QED BY <1>3, <2>1, <2>2
<1> DEFINE first == [ok |-> TRUE, off |-> 1 + Width, diags |-> <<>>]
           E(g) == [k \in 0..m |-> IF k = 0 THEN first ELSE ParseDiag(R, g[k - 1])]
           c == CHOOSE g : g = E(g)
           st(k) == [ok |-> TRUE, off |-> pos[k], diags |-> SubSeq(ds, 1, k)]
           f == [k \in 0..m |-> st(k)]
<1>9. SubSeq(ds, 1, 0) = <<>> /\ SubSeq(ds, 1, m) = ds
  <2>1. SubSeq(ds, 1, 0) = <<>>
    BY SubSeqEmpty
  <2>2. SubSeq(ds, 1, Len(ds)) = ds
    OBVIOUS
  <2> QED BY <2>1, <2>2 DEF m
<1>10. st(0) = first
  BY <1>2, <1>9
<1>11. ASSUME NEW k \in 1..m PROVE st(k) = ParseDiag(R, st(k - 1))
  <2> DEFINE t == SubSeq(ds, 1, k - 1)
  <2>1. t \in Seq(Diagnostic) /\ SubSeq(ds, 1, k) = Append(t, ds[k])
    <3>1. k \in 1..Len(ds)
      BY DEF m
    <3> QED BY <3>1
  <2>2. ds[k] \in Diagnostic /\ pos[k - 1] \in Nat /\ pos[k] = pos[k - 1] + len(k)
    BY <1>2, <1>3, <1>5
  <2>3. Part(encodeDiagnostic(ds[k]), R, pos[k - 1])
    BY <1>2
  <2> DEFINE d == ds[k]
             o == pos[k - 1]
  <2> HIDE DEF t, d, o
  <2>4. ParseDiag(R, [ok |-> TRUE, off |-> o, diags |-> t]) =
            [ok |-> TRUE, off |-> o + Len(encodeDiagnostic(d)), diags |-> Append(t, d)]
    <3>1. d \in Diagnostic /\ o \in Nat /\ Part(encodeDiagnostic(d), R, o) /\ t \in Seq(Diagnostic)
      BY <2>1, <2>2, <2>3 DEF d, o
    <3> QED BY <1>1, <1>3, <3>1, TakeDiagnostic, Zenon
  <2> QED BY <2>1, <2>2, <2>4 DEF t, d, o
<1> HIDE DEF st, first
<1>12. f = E(f)
  <2>1. \A k \in 0..m : f[k] = IF k = 0 THEN first ELSE ParseDiag(R, f[k - 1])
    <3>1. \A k \in 0..m : f[k] = st(k)
      OBVIOUS
    <3>2. \A k \in 1..m : k - 1 \in 0..m
      BY <1>3
    <3>3. \A k \in 0..m : k # 0 => k \in 1..m
      BY <1>3
    <3> HIDE DEF f
    <3> QED BY <1>10, <1>11, <3>1, <3>2, <3>3
  <2>2. f = [k \in 0..m |-> f[k]]
    OBVIOUS
  <2> HIDE DEF f
  <2> QED BY <2>1, <2>2
<1>13. c = E(c)
  <2> HIDE DEF f
  <2> QED BY <1>12
<1>14. ParseDiags(R, m) = IF c[m].ok THEN <<"ok", c[m].diags>> ELSE <<"err">>
  BY DEF ParseDiags, first
<1> HIDE DEF c
<1> DEFINE T == {k \in 0..m : c[k] = f[k]}
<1>15. \A k \in 0..m : c[k] = (IF k = 0 THEN first ELSE ParseDiag(R, c[k - 1])) /\ f[k] = st(k)
  BY <1>13
<1>16. 0 \in T
  BY <1>3, <1>10, <1>15
<1>17. ASSUME NEW k \in 0..(m - 1), k \in T PROVE k + 1 \in T
  <2>1. k + 1 \in 1..m /\ k + 1 \in 0..m /\ k \in 0..m /\ (k + 1) - 1 = k /\ k + 1 # 0
    BY <1>3
  <2>2. c[k] = st(k)
    BY <1>15, <1>17, <2>1
  <2> HIDE DEF f
  <2>3. c[k + 1] = ParseDiag(R, c[k]) /\ st(k + 1) = ParseDiag(R, st(k)) /\ f[k + 1] = st(k + 1)
    BY <1>11, <1>15, <2>1
  <2> QED BY <2>1, <2>2, <2>3
<1>18. \A k \in 0..m : k \in T
  <2> HIDE DEF T
  <2> QED BY <1>3, <1>16, <1>17, BoundedInduction
<1>19. c[m] = st(m)
  <2>1. m \in 0..m
    BY <1>3
  <2> HIDE DEF f
  <2> QED BY <1>15, <1>18, <2>1
<1>20. ParseDiags(R, m) = <<"ok", ds>>
  <2>1. st(m).ok = TRUE /\ st(m).diags = ds
    BY <1>9 DEF st
  <2> QED BY <1>14, <1>19, <2>1
<1>21. parse_response(R) = ParseDiags(R, be32(At(R, 1)))
  BY <1>1, <1>8 DEF parse_response
<1> QED BY <1>8, <1>20, <1>21 DEF R

\* What the two sides rely on: lengths are read as they were written, and the
\* diagnostics of a source survive the coding.
WellCoded ==
    \A s \in DOMAIN CheckSource :
        LET answer == encodeDiagnostics(CheckSource[s]) IN
        /\ answer \in Seq(Byte) /\ parse_response(answer) = <<"ok", CheckSource[s]>>
        /\ \A n \in {Len(Path), Len(s), Len(Payload(s)), Len(answer)} : be32(push_be32(n)) = n

\* They may rely on it.
LEMMA CodingSound == WellCoded
<1> SUFFICES ASSUME NEW s \in DOMAIN CheckSource
             PROVE  LET answer == encodeDiagnostics(CheckSource[s]) IN
                    /\ answer \in Seq(Byte) /\ parse_response(answer) = <<"ok", CheckSource[s]>>
                    /\ \A n \in {Len(Path), Len(s), Len(Payload(s)), Len(answer)} : be32(push_be32(n)) = n
    BY DEF WellCoded
<1> DEFINE answer == encodeDiagnostics(CheckSource[s])
           P == Payload(s)
           c == <<color>>
           FP == Field(Path)
           FS == Field(s)
<1>1. /\ CheckSource[s] \in Seq(Diagnostic) /\ Len(P) \in Number /\ Len(answer) \in Number
      /\ Path \in Seq(Byte) /\ s \in Seq(Byte)
  BY CodingAssumption
<1>2. Width \in Nat
  BY CodingAssumption
<1>3. answer \in Seq(Byte) /\ parse_response(answer) = <<"ok", CheckSource[s]>>
  <2> DEFINE ds == CheckSource[s]
  <2>1. ds \in Seq(Diagnostic) /\ Len(encodeDiagnostics(ds)) \in Number
    BY <1>1
  <2> HIDE DEF ds
  <2>2. encodeDiagnostics(ds) \in Seq(Byte)
    BY <2>1, DiagnosticsShape, Zenon
  <2>3. parse_response(encodeDiagnostics(ds)) = <<"ok", ds>>
    BY <2>1, ParseEncoded
  <2> QED BY <2>2, <2>3 DEF ds
<1>4. Len(Path) \in Number /\ Len(s) \in Number
  <2>1. c \in Seq(Byte) /\ Len(c) = 1
    <3>1. 0 \in Byte
      BY CodingAssumption DEF Byte
    <3> QED BY <3>1 DEF color
  <2>2. /\ FP \in Seq(Byte) /\ Len(FP) = Width + Len(Path)
        /\ FS \in Seq(Byte) /\ Len(FS) = Width + Len(s)
    BY <1>1, FramedShape DEF Field
  <2>3. P = (c \o FP) \o FS
    BY DEF Payload
  <2> HIDE DEF c, FP, FS, P
  <2>4. c \o FP \in Seq(Byte) /\ Len(c \o FP) = Len(c) + Len(FP)
    BY <2>1, <2>2, PartsOfConcat
  <2>5. Len(P) = (Len(c) + Len(FP)) + Len(FS)
    <3> DEFINE x == c \o FP
    <3>1. x \in Seq(Byte) /\ FS \in Seq(Byte) /\ Len(x) = Len(c) + Len(FP) /\ P = x \o FS
      BY <2>2, <2>3, <2>4
    <3> HIDE DEF x
    <3>2. Len(x \o FS) = Len(x) + Len(FS)
      BY <3>1, PartsOfConcat
    <3> QED BY <3>1, <3>2
  <2>6. Len(Path) \in Nat /\ Len(s) \in Nat /\ Powers[Width] \in Nat
    BY <1>1, <1>2, PowersShape
  <2> QED BY <1>1, <1>2, <2>1, <2>2, <2>5, <2>6 DEF Number
<1>5. \A n \in {Len(Path), Len(s), Len(P), Len(answer)} : be32(push_be32(n)) = n
  BY <1>1, <1>4, Be32Push
<1> QED BY <1>3, <1>5

\* handle finds the source of a request in its payload and answers with the
\* diagnostics of it.
LEMMA HandleIs ==
    ASSUME NEW s \in DOMAIN CheckSource
    PROVE  Payload(s) \in Seq(Byte) /\ handle(Payload(s)) = encodeDiagnostics(CheckSource[s])
<1> DEFINE FP == Field(Path)
           FS == Field(s)
           A  == <<color>> \o FP
           P  == Payload(s)
           LP == Len(Path)
           LS == Len(s)
           HP == push_be32(LP)
           HS == push_be32(LS)
<1>w. Width \in Nat /\ Width > 0
  BY CodingAssumption
<1>t. Path \in Seq(Byte) /\ s \in Seq(Byte) /\ LP \in Nat /\ LS \in Nat
  BY CodingAssumption
<1>r. be32(HP) = LP /\ be32(HS) = LS
  BY CodingSound DEF WellCoded
<1>h. HP \in Seq(Byte) /\ Len(HP) = Width /\ HS \in Seq(Byte) /\ Len(HS) = Width
  BY <1>t, PushShape
<1>1. /\ FP \in Seq(Byte) /\ Len(FP) = Width + LP /\ Part(HP, FP, 0) /\ Part(Path, FP, Width)
      /\ FS \in Seq(Byte) /\ Len(FS) = Width + LS /\ Part(HS, FS, 0) /\ Part(s, FS, Width)
  BY <1>t, FramedShape DEF Field
<1>2. A \in Seq(Byte) /\ Len(A) = 1 + (Width + LP) /\ Part(FP, A, 1)
  <2>1. <<color>> \in Seq(Byte) /\ Len(<<color>>) = 1
    <3>1. 0 \in Byte
      BY CodingAssumption DEF Byte
    <3> QED BY <3>1 DEF color
  <2> HIDE DEF FP, LP
  <2> DEFINE c == <<color>>
  <2> HIDE DEF c
  <2>2. c \in Seq(Byte) /\ Len(c) = 1
    BY <2>1 DEF c
  <2>3. c \o FP \in Seq(Byte) /\ Len(c \o FP) = Len(c) + Len(FP) /\ Part(FP, c \o FP, Len(c))
    BY <1>1, <2>2, PartsOfConcat
  <2> QED BY <1>1, <2>2, <2>3 DEF c
<1>3. P = A \o FS
  BY DEF Payload
<1> HIDE DEF A, FS, FP, P, LP, LS, HP, HS
<1>4. /\ P \in Seq(Byte) /\ Len(P) = 1 + Width + LP + Width + LS
      /\ Part(A, P, 0) /\ Part(FS, P, 1 + Width + LP)
  <2>1. /\ A \o FS \in Seq(Byte) /\ Len(A \o FS) = Len(A) + Len(FS)
        /\ Part(A, A \o FS, 0) /\ Part(FS, A \o FS, Len(A))
    BY <1>1, <1>2, PartsOfConcat
  <2>2. Len(A) = 1 + Width + LP /\ Len(A) + Len(FS) = 1 + Width + LP + Width + LS
    BY <1>1, <1>2, <1>w, <1>t
  <2> QED BY <1>3, <2>1, <2>2
<1>5. Part(FP, P, 1)
  <2>1. Part(FP, P, 0 + 1)
    BY <1>1, <1>2, <1>4, PartOfPart
  <2> QED BY <2>1
<1>6. Part(HP, P, 1)
  <2>1. Part(HP, P, 1 + 0)
    BY <1>1, <1>4, <1>5, <1>h, PartOfPart
  <2> QED BY <2>1
<1>n. 1 + Width + LP \in Nat /\ 1 + Width \in Nat
  BY <1>w, <1>t
<1>7. Part(HS, P, (1 + Width + LP) + 0) /\ Part(s, P, (1 + Width + LP) + Width)
  BY <1>1, <1>4, <1>h, <1>n, <1>t, <1>w, PartOfPart
<1>8. At(P, 1) = HP
  <2>1. SubSeq(P, 1 + 1, 1 + Len(HP)) = HP
    BY <1>4, <1>6, <1>h, Slice
  <2> QED BY <2>1, <1>h DEF At
<1> DEFINE rest == SubSeq(P, 2 + Width, Len(P))
           tail == SubSeq(rest, LP + 1, Len(rest))
           body == SubSeq(tail, Width + 1, Len(tail))
<1>9. rest \in Seq(Byte) /\ Len(rest) = LP + Width + LS /\ Part(HS, rest, LP + 0) /\ Part(s, rest, LP + Width)
  <2> DEFINE q == 1 + Width
             T == SubSeq(P, q + 1, Len(P))
  <2>1. q \in Nat /\ q <= Len(P) /\ LP + 0 \in Nat /\ LP + Width \in Nat
    BY <1>4, <1>n, <1>t, <1>w
  <2>2. (1 + Width + LP) + 0 = q + (LP + 0) /\ (1 + Width + LP) + Width = q + (LP + Width)
    BY <1>t, <1>w
  <2> HIDE DEF q
  <2>3. Part(HS, P, q + (LP + 0)) /\ Part(s, P, q + (LP + Width))
    BY <1>7, <2>2
  <2>4. T \in Seq(Byte) /\ Len(T) = Len(P) - q /\ Part(HS, T, LP + 0) /\ Part(s, T, LP + Width)
    <3>1. T \in Seq(Byte) /\ Len(T) = Len(P) - q /\ Part(HS, T, LP + 0)
      BY <1>4, <1>h, <2>1, <2>3, PartOfRest, Zenon
    <3>2. Part(s, T, LP + Width)
      BY <1>4, <1>t, <2>1, <2>3, PartOfRest, Zenon
    <3> QED BY <3>1, <3>2, Zenon
  <2>5. q + 1 = 2 + Width /\ Len(P) - q = LP + Width + LS
    BY <1>4, <1>t, <1>w DEF q
  <2> QED BY <2>4, <2>5
<1> HIDE DEF rest
<1>10. tail \in Seq(Byte) /\ Len(tail) = Width + LS /\ Part(HS, tail, 0) /\ Part(s, tail, Width + 0)
  <2>1. LP <= Len(rest) /\ Len(rest) - LP = Width + LS /\ Width + 0 = Width
    BY <1>9, <1>t, <1>w
  <2>2. /\ tail \in Seq(Byte) /\ Len(tail) = Len(rest) - LP /\ Part(HS, tail, 0) /\ Part(s, tail, Width)
    <3>2. 0 \in Nat /\ Part(HS, rest, LP + 0) /\ Part(s, rest, LP + Width)
      BY <1>9
    <3>3. tail \in Seq(Byte) /\ Len(tail) = Len(rest) - LP /\ Part(HS, tail, 0)
      BY <1>9, <1>h, <1>t, <2>1, <3>2, PartOfRest, Zenon
    <3>4. Part(s, tail, Width)
      BY <1>9, <1>t, <1>w, <2>1, <3>2, PartOfRest, Zenon
    <3> QED BY <3>3, <3>4, Zenon
  <2> QED BY <2>1, <2>2, Zenon
<1> HIDE DEF tail
<1>11. SubSeq(tail, 1, Width) = HS
  <2>1. SubSeq(tail, 0 + 1, 0 + Len(HS)) = HS
    BY <1>10, <1>h, Slice
  <2>2. 0 + 1 = 1 /\ 0 + Len(HS) = Width
    BY <1>h, <1>w
  <2> QED BY <2>1, <2>2
<1>12. body \in Seq(Byte) /\ Len(body) = LS /\ Part(s, body, 0)
  <2>1. Width <= Len(tail) /\ Len(tail) - Width = LS
    BY <1>10, <1>t, <1>w
  <2>2. body \in Seq(Byte) /\ Len(body) = Len(tail) - Width /\ Part(s, body, 0)
    BY <1>10, <1>t, <1>w, <2>1, PartOfRest
  <2> QED BY <2>1, <2>2
<1> HIDE DEF body
<1>13. SubSeq(body, 1, LS) = s
  <2>1. SubSeq(body, 0 + 1, 0 + Len(s)) = s
    BY <1>12, <1>t, Slice
  <2>2. 0 + 1 = 1 /\ 0 + Len(s) = LS
    BY <1>t DEF LS
  <2> QED BY <2>1, <2>2
<1>14. ~(Len(P) < 1 + 2 * Width) /\ ~(Len(rest) < LP + Width) /\ ~(Len(body) < LS)
  BY <1>4, <1>9, <1>12, <1>t, <1>w
<1>15. handle(P) = encodeDiagnostics(CheckSource[s])
  <2> USE DEF rest, tail, body
  <2> QED BY <1>8, <1>11, <1>13, <1>14, <1>r, Zenon DEF handle
<1> QED BY <1>4, <1>15 DEF P

\* A request on the wire: its header announces its payload, and its payload
\* is answered with the response.
LEMMA RequestFrame ==
    ASSUME NEW s \in DOMAIN CheckSource
    PROVE  /\ Framed(Payload(s)) \in Seq(Byte) /\ Len(Payload(s)) \in Nat
           /\ Len(Framed(Payload(s))) = Width + Len(Payload(s))
           /\ \A h \in Seq(Byte) : Part(h, Framed(Payload(s)), 0) /\ Len(h) = Width => be32(h) = Len(Payload(s))
           /\ \A x \in Seq(Byte) : Part(x, Framed(Payload(s)), Width) /\ Len(x) = Len(Payload(s))
                                      => Framed(handle(x)) = Response(s)
<1> DEFINE P == Payload(s)
           H == push_be32(Len(P))
<1>1. P \in Seq(Byte) /\ handle(P) = encodeDiagnostics(CheckSource[s])
  BY HandleIs
<1>2. Len(P) \in Nat /\ Width \in Nat
  BY <1>1, CodingAssumption
<1>3. be32(H) = Len(P)
  BY CodingSound DEF WellCoded
<1>4. H \in Seq(Byte) /\ Len(H) = Width
  BY <1>2, PushShape
<1>5. /\ Framed(P) \in Seq(Byte) /\ Len(Framed(P)) = Width + Len(P)
      /\ Part(H, Framed(P), 0) /\ Part(P, Framed(P), Width)
  BY <1>1, FramedShape
<1> HIDE DEF P, H
<1>6. ASSUME NEW h \in Seq(Byte), Part(h, Framed(P), 0), Len(h) = Width PROVE be32(h) = Len(P)
  <2>1. h = H
    BY <1>4, <1>5, <1>6, PartUnique
  <2> QED BY <1>3, <2>1
<1>7. ASSUME NEW x \in Seq(Byte), Part(x, Framed(P), Width), Len(x) = Len(P) PROVE Framed(handle(x)) = Response(s)
  <2>1. x = P
    BY <1>1, <1>2, <1>5, <1>7, PartUnique
  <2> QED BY <1>1, <2>1 DEF Response
<1>8. /\ Framed(P) \in Seq(Byte) /\ Len(P) \in Nat /\ Len(Framed(P)) = Width + Len(P)
      /\ \A h \in Seq(Byte) : Part(h, Framed(P), 0) /\ Len(h) = Width => be32(h) = Len(P)
      /\ \A x \in Seq(Byte) : Part(x, Framed(P), Width) /\ Len(x) = Len(P) => Framed(handle(x)) = Response(s)
  BY <1>2, <1>5, <1>6, <1>7
<1> QED BY <1>8 DEF P

\* A response on the wire: its header announces its body, and its body gives
\* the diagnostics.
LEMMA ResponseFrame ==
    ASSUME NEW s \in DOMAIN CheckSource
    PROVE  /\ Response(s) \in Seq(Byte) /\ Len(Response(s)) \in Nat /\ Len(Response(s)) >= Width
           /\ \A g \in Seq(Byte) : Part(g, Response(s), 0) /\ Len(g) >= Width
                                      => Width + be32(At(g, 0)) = Len(Response(s))
           /\ \A g \in Seq(Byte) : Part(g, Response(s), 0) /\ Len(g) = Len(Response(s))
                  => parse_response(SubSeq(g, Width + 1, Len(g))) = <<"ok", CheckSource[s]>>
<1> DEFINE B == encodeDiagnostics(CheckSource[s])
           H == push_be32(Len(B))
           R == Response(s)
<1>1. B \in Seq(Byte) /\ parse_response(B) = <<"ok", CheckSource[s]>> /\ be32(H) = Len(B)
  BY CodingSound DEF WellCoded
<1>2. Len(B) \in Nat /\ Width \in Nat
  BY <1>1, CodingAssumption
<1>3. R = Framed(B)
  BY DEF Response
<1>4. H \in Seq(Byte) /\ Len(H) = Width
  BY <1>2, PushShape
<1>5. R \in Seq(Byte) /\ Len(R) = Width + Len(B) /\ Part(H, R, 0) /\ Part(B, R, Width)
  BY <1>1, <1>3, FramedShape
<1> HIDE DEF B, H, R
<1>6. ASSUME NEW g \in Seq(Byte), Part(g, R, 0), Len(g) >= Width PROVE Width + be32(At(g, 0)) = Len(R)
  <2>1. Part(H, g, 0)
    <3>1. /\ Len(g) \in Nat /\ \A i \in 1..Len(g) : g[i] = R[0 + i]
          /\ \A i \in 1..Len(H) : H[i] = R[0 + i]
      BY <1>5, <1>6 DEF Part
    <3>2. \A i \in 1..Len(H) : H[i] = g[0 + i]
      BY <1>2, <1>4, <1>6, <3>1
    <3>3. 0 + Len(H) <= Len(g)
      BY <1>2, <1>4, <1>6, <3>1
    <3> QED BY <3>2, <3>3 DEF Part
  <2>2. SubSeq(g, 0 + 1, 0 + Len(H)) = H
    BY <1>4, <2>1, Slice
  <2>3. At(g, 0) = H
    BY <1>4, <2>2 DEF At
  <2> QED BY <1>1, <1>5, <2>3
<1>7. ASSUME NEW g \in Seq(Byte), Part(g, R, 0), Len(g) = Len(R)
      PROVE  parse_response(SubSeq(g, Width + 1, Len(g))) = <<"ok", CheckSource[s]>>
  <2>1. g = R
    BY <1>5, <1>7, PartWhole
  <2>2. SubSeq(R, Width + 1, Width + Len(B)) = B
    BY <1>1, <1>2, <1>5, Slice
  <2> QED BY <1>1, <1>5, <2>1, <2>2
<1>8. /\ R \in Seq(Byte) /\ Len(R) \in Nat /\ Len(R) >= Width
      /\ \A g \in Seq(Byte) : Part(g, R, 0) /\ Len(g) >= Width => Width + be32(At(g, 0)) = Len(R)
      /\ \A g \in Seq(Byte) : Part(g, R, 0) /\ Len(g) = Len(R)
             => parse_response(SubSeq(g, Width + 1, Len(g))) = <<"ok", CheckSource[s]>>
  BY <1>2, <1>5, <1>6, <1>7
<1> QED BY <1>8 DEF R

----------------------------------------------------------------------------
(* The server.                                                              *)

\* What is known of the sizes in a state with a call.
LEMMA Known ==
    ASSUME CheckdInv
    PROVE  /\ Width \in Nat /\ Width > 0 /\ Limit \in Nat /\ MaxRequests \in Nat
           /\ cpc # "idle" =>
               /\ cur \in DOMAIN CheckSource /\ Request \in Seq(Byte) /\ Len(Payload(cur)) \in Nat
               /\ Len(Request) \in Nat /\ Len(Request) = Width + Len(Payload(cur))
               /\ Response(cur) \in Seq(Byte) /\ Len(Response(cur)) \in Nat /\ Len(Response(cur)) >= Width
<1>1. cpc # "idle" => cur \in DOMAIN CheckSource
  BY DEF CheckdInv, Types
<1>2. Width \in Nat /\ Width > 0 /\ Limit \in Nat /\ MaxRequests \in Nat
  BY <1>1, CodingAssumption
<1>3. ASSUME cpc # "idle"
      PROVE  /\ Request \in Seq(Byte) /\ Len(Payload(cur)) \in Nat
             /\ Len(Request) \in Nat /\ Len(Request) = Width + Len(Payload(cur))
             /\ Response(cur) \in Seq(Byte) /\ Len(Response(cur)) \in Nat /\ Len(Response(cur)) >= Width
  <2>1. Framed(Payload(cur)) \in Seq(Byte) /\ Len(Payload(cur)) \in Nat /\ Len(Framed(Payload(cur))) = Width + Len(Payload(cur))
    BY <1>1, <1>3, RequestFrame
  <2>2. Response(cur) \in Seq(Byte) /\ Len(Response(cur)) \in Nat /\ Len(Response(cur)) >= Width
    BY <1>1, <1>3, ResponseFrame
  <2>3. Width + Len(Payload(cur)) \in Nat
    BY <1>2, <2>1
  <2> QED BY <2>1, <2>2, <2>3 DEF Request
<1> QED BY <1>1, <1>2, <1>3

\* A step of the server changes nothing of the client.
LEMMA ServerStep ==
    ASSUME CheckdInv, Alive, UNCHANGED client, Types', Alive' => exited' = 0,
           Asked' \/ Answered' \/ Rest' \/ Gone'
    PROVE  CheckdInv'
<1>1. UNCHANGED <<mode, cpc, cur, wrote, got, result, open, Request>>
  BY DEF client, Request
<1>2. Ends'
  BY <1>1 DEF CheckdInv, Ends
<1>3. Results'
  BY <1>1 DEF CheckdInv, Results
<1> QED BY <1>2, <1>3 DEF CheckdInv

\* The server stops at any moment: what it has written stays in the pipe.
LEMMA ServerGone ==
    ASSUME CheckdInv, Alive, UNCHANGED <<client, toServer, toClient, buf, want, resp>>,
           spc' = "exited", exited' \in {0, 1, 9},
           exited' = 0 => /\ mode = "once" /\ cpc \in {"read", "wait", "returned"}
                          /\ cpc # "returned" => Len(got) + Len(toClient) = Len(Response(cur)),
           exited' = 1 => cpc # "idle" /\ (mode = "session" \/ Len(Payload(cur)) > Limit)
    PROVE  CheckdInv'
<1>1. UNCHANGED <<mode, requests, cpc, cur, wrote, got, result, open, Request, Arrived>>
  BY DEF client, Request, Arrived
<1>2. Types'
  BY <1>1 DEF CheckdInv, Types
<1>3. Asked \/ Answered \/ Rest
  BY DEF CheckdInv, Gone, Alive
<1>4. cpc # "wait"
  BY DEF CheckdInv, Ends
<1>5. cpc \in {"write", "read"} => Arrived
  <2>1. CASE Asked
    <3>1. cpc # "idle" /\ got = <<>> /\ toClient = <<>> /\ Len(got) = 0
      BY <2>1 DEF Asked
    <3>2. 0 \in 0..Len(Response(cur)) /\ Response(cur) \in Seq(Byte)
      BY <3>1, Known
    <3> QED BY <3>1, <3>2, PartEmpty DEF Arrived
  <2>2. CASE Answered
    BY <2>2 DEF Answered
  <2>3. CASE Rest
    BY <2>3 DEF Rest
  <2> QED BY <1>3, <2>1, <2>2, <2>3
<1>6. cpc \in {"idle", "returned"} => toClient = <<>>
  BY <1>3 DEF Asked, Answered, Rest
<1>7. cpc = "write" /\ wrote < Len(Request) => toClient = <<>>
  <2>1. CASE Answered
    BY <2>1, Known DEF Answered
  <2> QED BY <1>3, <2>1 DEF Asked, Rest
<1>8. Gone'
  BY <1>1, <1>4, <1>5, <1>6, <1>7 DEF Gone
<1>9. Alive' => exited' = 0
  BY DEF Alive
<1> QED BY <1>1, <1>2, <1>8, <1>9, ServerStep

\* readFrame takes the next byte of the request.
LEMMA ReadByteInv ==
    ASSUME CheckdInv, ReadByte
    PROVE  CheckdInv'
<1>1. UNCHANGED <<client, mode, requests, cpc, cur, wrote, got, result, open, toClient, spc, want, resp, exited, Request>>
  BY DEF ReadByte, client, Request
<1>2. /\ spc \in {"header", "body"} /\ Len(buf) < want /\ toServer # <<>>
      /\ buf' = Append(buf, Head(toServer)) /\ toServer' = Tail(toServer)
  BY DEF ReadByte
<1>3. Asked
  BY <1>2 DEF CheckdInv, Answered, Rest, Gone
<1>4. /\ Width \in Nat /\ Request \in Seq(Byte) /\ Len(buf) \in Nat /\ Len(toServer) \in Nat /\ wrote \in Nat /\ want \in Nat
      /\ buf \in Seq(Byte) /\ toServer \in Seq(Byte)
  BY <1>3, Known DEF CheckdInv, Types, Asked
<1>5. ASSUME spc = "header" PROVE Asked' /\ buf' \in Seq(Byte) /\ toServer' \in Seq(Byte)
  <2>1. Part(buf, Request, 0) /\ Part(toServer, Request, 0 + Len(buf)) /\ wrote = Len(buf) + Len(toServer) /\ want = Width
    BY <1>3, <1>4, <1>5 DEF Asked
  <2>2. /\ buf' \in Seq(Byte) /\ toServer' \in Seq(Byte) /\ Len(buf') = Len(buf) + 1 /\ Len(toServer') = Len(toServer) - 1
        /\ Part(buf', Request, 0) /\ Part(toServer', Request, 0 + Len(buf'))
    BY <1>2, <1>4, <2>1, PartMove
  <2>3. Len(buf') <= want /\ wrote = Len(buf') + Len(toServer') /\ 0 + Len(buf') = Len(buf')
    BY <1>2, <1>4, <2>1, <2>2
  <2>4. Asked'
    BY <1>1, <1>3, <1>5, <2>1, <2>2, <2>3 DEF Asked, Part
  <2> QED BY <2>2, <2>4
<1>6. ASSUME spc = "body" PROVE Asked' /\ buf' \in Seq(Byte) /\ toServer' \in Seq(Byte)
  <2>1. /\ Part(buf, Request, Width) /\ Part(toServer, Request, Width + Len(buf)) /\ wrote = Width + Len(buf) + Len(toServer)
        /\ want = Len(Payload(cur))
    BY <1>3, <1>6 DEF Asked
  <2>2. /\ buf' \in Seq(Byte) /\ toServer' \in Seq(Byte) /\ Len(buf') = Len(buf) + 1 /\ Len(toServer') = Len(toServer) - 1
        /\ Part(buf', Request, Width) /\ Part(toServer', Request, Width + Len(buf'))
    BY <1>2, <1>4, <2>1, PartMove
  <2>3. Len(buf') <= want /\ wrote = Width + Len(buf') + Len(toServer')
    BY <1>2, <1>4, <2>1, <2>2
  <2>4. Asked'
    BY <1>1, <1>3, <1>6, <2>1, <2>2, <2>3 DEF Asked, Part
  <2> QED BY <2>2, <2>4
<1>7. Asked' /\ buf' \in Seq(Byte) /\ toServer' \in Seq(Byte)
  BY <1>2, <1>5, <1>6
<1>8. Types'
  BY <1>1, <1>7 DEF CheckdInv, Types
<1>9. Alive /\ (Alive' => exited' = 0)
  BY <1>1, <1>2 DEF CheckdInv, Ends, Alive
<1> QED BY <1>1, <1>7, <1>8, <1>9, ServerStep

\* The end of the input is met only after the response was written.
LEMMA ReadEofInv ==
    ASSUME CheckdInv, ReadEof
    PROVE  CheckdInv'
<1>1. /\ spc \in {"header", "body"} /\ Len(buf) < want /\ toServer = <<>> /\ ~open
      /\ spc' = "exited" /\ exited' = (IF buf = <<>> THEN 0 ELSE 1)
      /\ UNCHANGED <<client, toServer, toClient, buf, want, resp>>
  BY DEF ReadEof, ServerExit
<1>2. mode = "once" /\ cpc \in {"read", "wait", "returned"} /\ wrote = Len(Request)
  BY <1>1 DEF CheckdInv, Ends
<1>3. /\ Width \in Nat /\ Len(Request) = Width + Len(Payload(cur)) /\ Len(Payload(cur)) \in Nat
      /\ Len(buf) \in Nat /\ Len(toServer) = 0 /\ want \in Nat
  BY <1>1, <1>2, Known DEF CheckdInv, Types
<1>4. ~Asked
  <2>1. SUFFICES ASSUME Asked PROVE FALSE
    OBVIOUS
  <2>2. CASE spc = "header"
    <3>1. want = Width /\ wrote = Len(buf) + Len(toServer)
      BY <2>1, <2>2 DEF Asked
    <3> QED BY <1>1, <1>2, <1>3, <3>1
  <2>3. CASE spc = "body"
    <3>1. want = Len(Payload(cur)) /\ wrote = Width + Len(buf) + Len(toServer)
      BY <2>1, <2>3 DEF Asked
    <3> QED BY <1>1, <1>2, <1>3, <3>1
  <2> QED BY <1>1, <2>2, <2>3
<1>5. ~Rest /\ ~Gone
  BY <1>1, <1>2 DEF Rest, Gone
<1>6. Answered
  BY <1>4, <1>5 DEF CheckdInv
<1>7. buf = <<>> /\ Len(got) + Len(toClient) = Len(Response(cur))
  BY <1>1, <1>6 DEF Answered
<1>8. Alive
  BY <1>1 DEF Alive
<1> QED BY <1>1, <1>2, <1>7, <1>8, ServerGone

\* The header is there: the payload is too large, or it is read next.
LEMMA HeaderDoneInv ==
    ASSUME CheckdInv, HeaderDone
    PROVE  CheckdInv'
<1>1. /\ spc = "header" /\ Len(buf) = want /\ UNCHANGED <<client, toServer, toClient>>
      /\ \/ be32(buf) > Limit /\ spc' = "exited" /\ exited' = 1 /\ UNCHANGED <<buf, want, resp>>
         \/ ~(be32(buf) > Limit) /\ spc' = "body" /\ want' = be32(buf) /\ buf' = <<>> /\ UNCHANGED <<resp, exited>>
  BY DEF HeaderDone, ServerExit
<1>2. Asked
  <2>1. buf # <<>> \/ want # Width
    BY <1>1, Known DEF CheckdInv, Types
  <2> QED BY <1>1, <2>1 DEF CheckdInv, Answered, Rest, Gone
<1>3. want = Width /\ Part(buf, Request, 0) /\ Part(toServer, Request, Len(buf)) /\ wrote = Len(buf) + Len(toServer)
  BY <1>1, <1>2 DEF Asked
<1>4. /\ cpc # "idle" /\ cur \in DOMAIN CheckSource /\ Request \in Seq(Byte) /\ Len(Request) = Width + Len(Payload(cur))
      /\ Width \in Nat /\ Len(Payload(cur)) \in Nat /\ buf \in Seq(Byte) /\ toServer \in Seq(Byte)
  BY <1>2, Known DEF CheckdInv, Types, Asked
<1>5. be32(buf) = Len(Payload(cur))
  BY <1>1, <1>3, <1>4, RequestFrame DEF CheckdInv, Request
<1>6. Alive
  BY <1>1 DEF Alive
<1>7. CASE be32(buf) > Limit
  <2>1. spc' = "exited" /\ exited' = 1 /\ UNCHANGED <<client, toServer, toClient, buf, want, resp>>
    BY <1>1, <1>7
  <2> QED BY <1>4, <1>5, <1>6, <1>7, <2>1, ServerGone
<1>8. CASE ~(be32(buf) > Limit)
  <2>1. /\ spc' = "body" /\ want' = Len(Payload(cur)) /\ buf' = <<>>
        /\ UNCHANGED <<client, mode, requests, cpc, cur, wrote, got, result, open, toServer, toClient, resp, exited, Request>>
    BY <1>1, <1>5, <1>8 DEF client, Request
  <2>2. Len(buf') = 0 /\ Width \in 0..Len(Request)
    BY <1>4, <2>1
  <2>3. Part(buf', Request, Width)
    BY <1>4, <2>1, <2>2, PartEmpty
  <2>4. Width + Len(buf') = Len(buf) /\ wrote = Width + Len(buf') + Len(toServer) /\ Len(buf') <= want'
    BY <1>1, <1>3, <1>4, <2>1, <2>2
  <2>5. Asked'
    BY <1>2, <1>3, <2>1, <2>3, <2>4 DEF Asked, Part
  <2>6. Types'
    BY <1>4, <2>1 DEF CheckdInv, Types
  <2>7. exited' = 0
    BY <1>6, <2>1 DEF CheckdInv, Ends
  <2> QED BY <1>6, <2>1, <2>5, <2>6, <2>7, ServerStep
<1> QED BY <1>7, <1>8

\* The payload is there, and nothing after it.
LEMMA HandleInv ==
    ASSUME CheckdInv, Handle
    PROVE  CheckdInv'
<1>1. /\ spc = "body" /\ Len(buf) = want /\ spc' = "write" /\ resp' = Framed(handle(buf))
      /\ UNCHANGED <<client, mode, requests, cpc, cur, wrote, got, result, open, toServer, toClient, buf, want, exited, Request>>
  BY DEF Handle, client, Request
<1>2. Asked
  BY <1>1 DEF CheckdInv, Answered, Rest, Gone
<1>3. /\ want = Len(Payload(cur)) /\ Part(buf, Request, Width) /\ Part(toServer, Request, Width + Len(buf))
      /\ wrote = Width + Len(buf) + Len(toServer) /\ got = <<>> /\ toClient = <<>> /\ cpc \in {"write", "read"}
  BY <1>1, <1>2 DEF Asked
<1>4. /\ cur \in DOMAIN CheckSource /\ Request \in Seq(Byte) /\ Len(Request) = Width + Len(Payload(cur))
      /\ Width \in Nat /\ Len(Payload(cur)) \in Nat /\ buf \in Seq(Byte) /\ toServer \in Seq(Byte)
      /\ Response(cur) \in Seq(Byte) /\ Len(Response(cur)) \in Nat
  BY <1>3, Known DEF CheckdInv, Types
<1>5. resp' = Response(cur)
  BY <1>1, <1>3, <1>4, RequestFrame DEF CheckdInv, Request
<1>6. Len(toServer) = 0
  <2>1. Width + Len(buf) + Len(toServer) <= Len(Request)
    BY <1>3 DEF Part
  <2> QED BY <1>1, <1>3, <1>4, <2>1
<1>7. toServer = <<>> /\ wrote = Len(Request)
  <2>1. toServer = <<>>
    BY <1>4, <1>6, EmptySeq
  <2> QED BY <1>1, <1>3, <1>4, <1>6, <2>1
<1>8. Len(got) = 0 /\ Len(toClient) = 0 /\ Part(got, Response(cur), 0) /\ Part(toClient, Response(cur), 0)
  BY <1>3, <1>4, PartEmpty
<1>9. Part(Response(cur), Response(cur), 0)
  BY <1>4 DEF Part
<1>10. Answered'
  <2>1. Arrived'
    BY <1>1, <1>8 DEF Arrived, Part, Response
  <2>2. Response(cur)' = Response(cur)
    BY <1>1 DEF Response
  <2>3. Len(got) + Len(toClient) = 0 /\ 0 + Len(Response(cur)) = Len(Response(cur))
    BY <1>4, <1>8
  <2> QED BY <1>1, <1>3, <1>5, <1>7, <1>9, <2>1, <2>2, <2>3 DEF Answered
<1>11. Types'
  BY <1>1, <1>4, <1>5 DEF CheckdInv, Types
<1>12. Alive /\ exited' = 0
  BY <1>1 DEF CheckdInv, Ends, Alive
<1> QED BY <1>1, <1>10, <1>11, <1>12, ServerStep

\* A byte of the response enters the pipe.
LEMMA WriteByteInv ==
    ASSUME CheckdInv, WriteByte
    PROVE  CheckdInv'
<1>1. /\ spc = "write" /\ resp # <<>> /\ toClient' = Append(toClient, Head(resp)) /\ resp' = Tail(resp)
      /\ UNCHANGED <<client, mode, requests, cpc, cur, wrote, got, result, open, toServer, spc, buf, want, exited, Request>>
  BY DEF WriteByte, client, Request
<1>2. Answered
  BY <1>1 DEF CheckdInv, Asked, Rest, Gone
<1>3. /\ cpc \in {"write", "read"} /\ wrote = Len(Request) /\ toServer = <<>>
      /\ Part(got, Response(cur), 0) /\ Part(toClient, Response(cur), Len(got))
      /\ Part(resp, Response(cur), Len(got) + Len(toClient))
      /\ Len(got) + Len(toClient) + Len(resp) = Len(Response(cur))
  BY <1>1, <1>2 DEF Answered, Arrived
<1>4. /\ got \in Seq(Byte) /\ toClient \in Seq(Byte) /\ resp \in Seq(Byte)
      /\ Len(got) \in Nat /\ Len(toClient) \in Nat /\ Len(resp) \in Nat
      /\ Response(cur) \in Seq(Byte) /\ Len(Response(cur)) \in Nat
  BY <1>3, Known DEF CheckdInv, Types
<1>5. /\ toClient' \in Seq(Byte) /\ resp' \in Seq(Byte) /\ Len(toClient') = Len(toClient) + 1 /\ Len(resp') = Len(resp) - 1
      /\ Part(toClient', Response(cur), Len(got)) /\ Part(resp', Response(cur), Len(got) + Len(toClient'))
  BY <1>1, <1>3, <1>4, PartMove
<1>6. Len(got) + Len(toClient') + Len(resp') = Len(Response(cur))
  <2>1. ASSUME NEW a \in Nat, NEW b \in Nat, NEW c \in Nat PROVE a + (b + 1) + (c - 1) = a + b + c
    OBVIOUS
  <2>2. Len(got) + (Len(toClient) + 1) + (Len(resp) - 1) = Len(got) + Len(toClient) + Len(resp)
    BY <1>4, <2>1, Zenon
  <2> QED BY <1>3, <1>5, <2>2
<1>7. Response(cur)' = Response(cur)
  BY <1>1 DEF Response
<1>8. Part(got, Response(cur), 0)'
  BY <1>1, <1>3, <1>7 DEF Part
<1>9. Part(toClient, Response(cur), Len(got))' /\ Part(resp, Response(cur), Len(got) + Len(toClient))'
  BY <1>1, <1>5, <1>7 DEF Part
<1>10. Answered'
  BY <1>1, <1>3, <1>6, <1>7, <1>8, <1>9 DEF Answered, Arrived
<1>11. Types'
  BY <1>1, <1>5 DEF CheckdInv, Types
<1>12. Alive /\ exited' = 0
  BY <1>1 DEF CheckdInv, Ends, Alive
<1> QED BY <1>1, <1>10, <1>11, <1>12, ServerStep

\* The response is written and the next frame is read.
LEMMA NextFrameInv ==
    ASSUME CheckdInv, NextFrame
    PROVE  CheckdInv'
<1>1. /\ spc = "write" /\ resp = <<>> /\ spc' = "header" /\ want' = Width /\ buf' = <<>>
      /\ UNCHANGED <<client, mode, requests, cpc, cur, wrote, got, result, open, toServer, toClient, resp, exited, Request>>
  BY DEF NextFrame, client, Request
<1>2. Asked \/ Answered \/ Rest
  BY <1>1 DEF CheckdInv, Gone
<1>3. Width \in Nat /\ Len(buf') = 0 /\ Len(resp) = 0
  BY <1>1, Known
<1>4. ASSUME Asked PROVE Asked'
  <2>1. cpc \in {"write", "read"} /\ Part(toServer, Request, 0) /\ wrote = Len(toServer)
    BY <1>1, <1>4 DEF Asked
  <2>2. Request \in Seq(Byte) /\ Len(Request) \in Nat /\ Len(toServer) \in Nat
    BY <2>1, Known DEF CheckdInv, Types
  <2>3. Part(buf', Request, 0)
    BY <1>1, <2>2, PartEmpty
  <2>4. wrote = Len(buf') + Len(toServer) /\ Len(buf') <= Width
    BY <1>3, <2>1, <2>2
  <2> QED BY <1>1, <1>3, <1>4, <2>1, <2>3, <2>4 DEF Asked, Part
<1>5. ASSUME Answered PROVE Answered'
  <2>1. Len(got) + Len(toClient) + Len(resp) = Len(Response(cur)) /\ Len(got) \in Nat /\ Len(toClient) \in Nat
    BY <1>1, <1>5 DEF Answered, CheckdInv, Types
  <2>2. Len(got) + Len(toClient) = Len(Response(cur))
    BY <1>3, <2>1
  <2>3. Arrived' /\ Response(cur)' = Response(cur)
    BY <1>1, <1>5 DEF Answered, Arrived, Part, Response
  <2> QED BY <1>1, <1>5, <2>2, <2>3 DEF Answered
<1>6. ASSUME Rest PROVE Rest'
  BY <1>1, <1>6 DEF Rest
<1>7. Types'
  BY <1>1, <1>3 DEF CheckdInv, Types
<1>8. Alive /\ exited' = 0
  BY <1>1 DEF CheckdInv, Ends, Alive
<1>9. Asked' \/ Answered' \/ Rest'
  BY <1>2, <1>4, <1>5, <1>6
<1> QED BY <1>1, <1>7, <1>8, <1>9, ServerStep

\* A kill between any two bytes.
LEMMA KilledInv ==
    ASSUME CheckdInv, Killed
    PROVE  CheckdInv'
<1>1. Alive /\ spc' = "exited" /\ exited' = 9 /\ UNCHANGED <<client, toServer, toClient, buf, want, resp>>
  BY DEF Killed, ServerExit
<1> QED BY <1>1, ServerGone

----------------------------------------------------------------------------
(* The client.                                                              *)

\* A call begins when nothing of an earlier one is left in the pipes.
LEMMA CallInv ==
    ASSUME CheckdInv, Call
    PROVE  CheckdInv'
<1>1. /\ cpc \in {"idle", "returned"} /\ requests < (IF mode = "once" THEN 1 ELSE MaxRequests)
      /\ requests' = requests + 1 /\ cur' \in DOMAIN CheckSource
      /\ cpc' = "write" /\ wrote' = 0 /\ got' = <<>>
      /\ UNCHANGED <<mode, open, toServer, toClient, spc, buf, want, resp, exited>>
  BY DEF Call, server
<1>2. Width \in Nat /\ Width > 0 /\ requests \in Nat
  BY Known DEF CheckdInv, Types
<1>3. mode = "once" => cpc = "idle"
  BY <1>1, <1>2 DEF CheckdInv, Types
<1>4. /\ Request' \in Seq(Byte) /\ Len(Request') = Width + Len(Payload(cur')) /\ Len(Payload(cur')) \in Nat
      /\ Response(cur)' \in Seq(Byte) /\ Len(Response(cur)') \in Nat
  <2>1. ASSUME NEW s \in DOMAIN CheckSource
        PROVE  /\ Framed(Payload(s)) \in Seq(Byte) /\ Len(Framed(Payload(s))) = Width + Len(Payload(s))
               /\ Len(Payload(s)) \in Nat /\ Response(s) \in Seq(Byte) /\ Len(Response(s)) \in Nat
    BY <1>2, RequestFrame, ResponseFrame
  <2>2. Request' = Framed(Payload(cur')) /\ Response(cur)' = Response(cur')
    BY DEF Request, Response
  <2> QED BY <1>1, <2>1, <2>2
<1>5. /\ Part(<<>>, Request', 0) /\ Part(<<>>, Response(cur)', 0) /\ Len(<<>>) = 0 /\ 0 < Len(Request')
  BY <1>2, <1>4, PartEmpty
<1>6. Rest \/ Gone
  BY <1>1 DEF CheckdInv, Asked, Answered
<1>7. toClient = <<>>
  BY <1>1, <1>6 DEF Rest, Gone
<1>8. Types'
  <2>1. got' \in Seq(Byte) /\ requests' \in Nat /\ requests' > 0
    BY <1>1, <1>2
  <2> QED BY <1>1, <2>1 DEF CheckdInv, Types
<1>9. Ends'
  BY <1>1, <1>3 DEF CheckdInv, Ends, Alive
<1>10. Results'
  BY <1>1 DEF Results
<1>11. CASE Rest
  <2>1. /\ toServer = <<>>
        /\ (spc = "header" /\ buf = <<>> /\ want = Width) \/ (spc = "write" /\ resp = <<>>)
    BY <1>11 DEF Rest
  <2>2. Asked'
    BY <1>1, <1>2, <1>5, <1>7, <2>1 DEF Asked, Part
  <2> QED BY <1>2, <1>8, <1>9, <1>10, <2>2 DEF CheckdInv
<1>12. CASE Gone
  <2>1. Arrived'
    BY <1>1, <1>5, <1>7 DEF Arrived, Part
  <2>2. exited # 0 /\ (exited = 1 => mode = "session")
    BY <1>1, <1>3, <1>12 DEF Gone, CheckdInv, Types
  <2>3. Gone'
    BY <1>1, <1>7, <1>12, <2>1, <2>2 DEF Gone
  <2> QED BY <1>2, <1>8, <1>9, <1>10, <2>3 DEF CheckdInv
<1> QED BY <1>6, <1>11, <1>12

\* A byte of the request enters the pipe, or the server is gone.
LEMMA WriteInv ==
    ASSUME CheckdInv, Write
    PROVE  CheckdInv'
<1>1. /\ cpc = "write" /\ wrote < Len(Request)
      /\ UNCHANGED <<mode, requests, cur, got, open, toClient, spc, buf, want, resp, exited, Request, Alive>>
  BY DEF Write, server, Request, Alive
<1>2. /\ Width \in Nat /\ Request \in Seq(Byte) /\ Len(Request) \in Nat /\ toServer \in Seq(Byte) /\ Len(toServer) \in Nat
      /\ buf \in Seq(Byte) /\ Len(buf) \in Nat /\ wrote \in Nat
  BY <1>1, Known DEF CheckdInv, Types
<1>3. CASE Alive
  <2>1. toServer' = Append(toServer, Request[wrote + 1]) /\ wrote' = wrote + 1 /\ UNCHANGED <<cpc, result>>
    BY <1>3 DEF Write
  <2>2. Asked
    BY <1>1, <1>2, <1>3 DEF CheckdInv, Answered, Rest, Gone, Alive
  <2>3. PICK o \in Nat : /\ Part(toServer, Request, o) /\ wrote = o + Len(toServer)
                         /\ \/ o = 0 /\ spc = "write" /\ resp = <<>>
                            \/ o = Len(buf) /\ spc = "header" /\ want = Width /\ Len(buf) <= want /\ Part(buf, Request, 0)
                            \/ o = Width + Len(buf) /\ spc = "body" /\ want = Len(Payload(cur)) /\ Len(buf) <= want /\ Part(buf, Request, Width)
    <3>1. CASE spc = "write"
      <4>1. Part(toServer, Request, 0) /\ wrote = 0 + Len(toServer) /\ resp = <<>>
        BY <1>2, <2>2, <3>1 DEF Asked
      <4> QED BY <3>1, <4>1
    <3>2. CASE spc = "header"
      <4>1. /\ want = Width /\ Len(buf) <= want /\ Part(buf, Request, 0)
            /\ Part(toServer, Request, Len(buf)) /\ wrote = Len(buf) + Len(toServer)
        BY <2>2, <3>2 DEF Asked
      <4> QED BY <1>2, <3>2, <4>1
    <3>3. CASE spc = "body"
      <4>1. /\ want = Len(Payload(cur)) /\ Len(buf) <= want /\ Part(buf, Request, Width)
            /\ Part(toServer, Request, Width + Len(buf)) /\ wrote = Width + Len(buf) + Len(toServer)
        BY <2>2, <3>3 DEF Asked
      <4>2. Width + Len(buf) \in Nat
        BY <1>2
      <4> QED BY <3>3, <4>1, <4>2
    <3> QED BY <2>2, <3>1, <3>2, <3>3 DEF Asked
  <2>4. /\ toServer' \in Seq(Byte) /\ Len(toServer') = Len(toServer) + 1 /\ Part(toServer', Request, o)
    BY <1>1, <1>2, <2>1, <2>3, PartGrow
  <2>5. wrote' = o + Len(toServer')
    BY <1>2, <2>1, <2>3, <2>4
  <2>6. Asked'
    <3>1. cpc' \in {"write", "read"} /\ got' = <<>> /\ toClient' = <<>>
      BY <1>1, <2>1, <2>2 DEF Asked
    <3>2. UNCHANGED <<cur, spc, buf, want, resp, Request>> /\ Len(toServer') \in Nat
      BY <1>1, <2>4
    <3>3. Part(toServer, Request, o)' /\ (Part(buf, Request, 0) => Part(buf, Request, 0)')
          /\ (Part(buf, Request, Width) => Part(buf, Request, Width)')
      BY <2>4, <3>2 DEF Part
    <3>4. CASE o = 0 /\ spc = "write" /\ resp = <<>>
      BY <2>5, <3>1, <3>2, <3>3, <3>4 DEF Asked
    <3>5. CASE o = Len(buf) /\ spc = "header" /\ want = Width /\ Len(buf) <= want /\ Part(buf, Request, 0)
      BY <2>5, <3>1, <3>2, <3>3, <3>5 DEF Asked
    <3>6. CASE o = Width + Len(buf) /\ spc = "body" /\ want = Len(Payload(cur)) /\ Len(buf) <= want /\ Part(buf, Request, Width)
      BY <2>5, <3>1, <3>2, <3>3, <3>6 DEF Asked
    <3> QED BY <2>3, <3>4, <3>5, <3>6
  <2>7. Types' /\ Ends' /\ Results'
    <3>1. wrote' \in Nat
      BY <1>2, <2>1
    <3> QED BY <1>1, <2>1, <2>4, <3>1 DEF CheckdInv, Types, Ends, Results
  <2> QED BY <2>6, <2>7 DEF CheckdInv
<1>4. CASE ~Alive
  <2>1. cpc' = "returned" /\ result' = <<"err">> /\ UNCHANGED <<toServer, wrote>>
    BY <1>4 DEF Write, Return
  <2>2. Gone /\ spc = "exited"
    BY <1>4 DEF CheckdInv, Asked, Answered, Rest, Alive
  <2>3. exited # 0 /\ toClient = <<>>
    BY <1>1, <2>2 DEF Gone
  <2>4. Types' /\ Ends' /\ Results'
    BY <1>1, <1>4, <2>1, <2>3 DEF CheckdInv, Types, Ends, Results
  <2>5. Gone'
    BY <1>1, <2>1, <2>2, <2>3 DEF Gone
  <2> QED BY <2>4, <2>5 DEF CheckdInv
<1> QED BY <1>3, <1>4

\* The request is out.
LEMMA WrittenInv ==
    ASSUME CheckdInv, Written
    PROVE  CheckdInv'
<1>1. /\ cpc = "write" /\ wrote = Len(Request) /\ cpc' = "read" /\ open' = (mode = "session")
      /\ UNCHANGED <<mode, requests, cur, wrote, got, result, toServer, toClient, spc, buf, want, resp, exited>>
      /\ UNCHANGED <<Request, Alive, Arrived>>
  BY DEF Written, server, Request, Alive, Arrived
<1>2. Types' /\ Ends' /\ Results'
  BY <1>1 DEF CheckdInv, Types, Ends, Results
<1>3. ASSUME Asked PROVE Asked'
  BY <1>1, <1>3 DEF Asked, Part
<1>4. ASSUME Answered PROVE Answered'
  BY <1>1, <1>4 DEF Answered, Part, Response
<1>5. ASSUME Gone PROVE Gone'
  BY <1>1, <1>5 DEF Gone, Response
<1>6. ~Rest
  BY <1>1 DEF Rest
<1> QED BY <1>2, <1>3, <1>4, <1>5, <1>6 DEF CheckdInv

\* The client takes the next byte of its response.
LEMMA ReadInv ==
    ASSUME CheckdInv, Read
    PROVE  CheckdInv'
<1>1. /\ cpc = "read" /\ toClient # <<>> /\ got' = Append(got, Head(toClient)) /\ toClient' = Tail(toClient)
      /\ UNCHANGED <<mode, requests, cpc, cur, wrote, result, open, toServer, spc, buf, want, resp, exited, Request, Alive>>
  BY DEF Read, server, Request, Alive
<1>2. Answered \/ Gone
  BY <1>1 DEF CheckdInv, Asked, Rest
<1>3. Arrived
  BY <1>1, <1>2 DEF Answered, Gone
<1>4. /\ got \in Seq(Byte) /\ toClient \in Seq(Byte) /\ Len(got) \in Nat /\ Len(toClient) \in Nat
      /\ Response(cur) \in Seq(Byte) /\ Response(cur)' = Response(cur)
  BY <1>1, Known DEF CheckdInv, Types, Response
<1>5. /\ got' \in Seq(Byte) /\ toClient' \in Seq(Byte) /\ Len(got') = Len(got) + 1 /\ Len(toClient') = Len(toClient) - 1
      /\ Part(got', Response(cur), 0) /\ Part(toClient', Response(cur), Len(got'))
  <2>1. Part(got, Response(cur), 0) /\ Part(toClient, Response(cur), 0 + Len(got)) /\ 0 + Len(got) = Len(got)
    BY <1>3, <1>4 DEF Arrived
  <2>2. /\ got' \in Seq(Byte) /\ toClient' \in Seq(Byte) /\ Len(got') = Len(got) + 1 /\ Len(toClient') = Len(toClient) - 1
        /\ Part(got', Response(cur), 0) /\ Part(toClient', Response(cur), 0 + Len(got'))
    BY <1>1, <1>4, <2>1, PartMove
  <2>3. 0 + Len(got') = Len(got')
    BY <1>4, <2>2
  <2> QED BY <2>2, <2>3
<1>6. Len(got') + Len(toClient') = Len(got) + Len(toClient)
  BY <1>4, <1>5
<1>7. Arrived'
  BY <1>1, <1>4, <1>5 DEF Arrived, Part
<1>8. Types' /\ Ends' /\ Results'
  BY <1>1, <1>5 DEF CheckdInv, Types, Ends, Results
<1>9. ASSUME Answered PROVE Answered'
  BY <1>1, <1>4, <1>6, <1>7, <1>9 DEF Answered, Part
<1>10. ASSUME Gone PROVE Gone'
  BY <1>1, <1>4, <1>6, <1>7, <1>10 DEF Gone
<1> QED BY <1>2, <1>8, <1>9, <1>10 DEF CheckdInv

\* A response that is complete is whole.
LEMMA AnswerInv ==
    ASSUME CheckdInv, Answer
    PROVE  CheckdInv'
<1>1. /\ cpc = "read" /\ mode = "session" /\ Len(got) >= Width /\ Len(got) = Width + be32(At(got, 0))
      /\ cpc' = "returned" /\ result' = parse_response(SubSeq(got, Width + 1, Len(got)))
      /\ UNCHANGED <<mode, requests, cur, wrote, got, open, toServer, toClient, spc, buf, want, resp, exited, Request, Alive>>
  BY DEF Answer, Complete, Return, server, Request, Alive
<1>2. /\ cur \in DOMAIN CheckSource /\ Width \in Nat /\ Width > 0
      /\ got \in Seq(Byte) /\ toClient \in Seq(Byte) /\ resp \in Seq(Byte)
      /\ Len(got) \in Nat /\ Len(toClient) \in Nat /\ Len(resp) \in Nat
      /\ Len(Response(cur)) \in Nat
  BY <1>1, Known DEF CheckdInv, Types
<1>3. Answered \/ Gone
  <2>1. Len(<<>>) = 0
    OBVIOUS
  <2>2. got # <<>>
    BY <1>1, <1>2, <2>1
  <2> QED BY <1>1, <2>2 DEF CheckdInv, Asked, Rest
<1>4. Part(got, Response(cur), 0) /\ Part(toClient, Response(cur), Len(got))
  BY <1>1, <1>3 DEF Answered, Gone, Arrived
<1>5. Len(got) = Len(Response(cur))
  BY <1>1, <1>2, <1>4, ResponseFrame
<1>6. result' = <<"ok", CheckSource[cur]>>
  BY <1>1, <1>2, <1>4, <1>5, ResponseFrame
<1>7. toClient = <<>>
  <2>1. Len(got) + Len(toClient) <= Len(Response(cur))
    BY <1>4 DEF Part
  <2>2. Len(toClient) = 0
    BY <1>2, <1>5, <2>1
  <2> QED BY <1>2, <2>2, EmptySeq
<1>8. Types' /\ Ends' /\ Results'
  BY <1>1, <1>6 DEF CheckdInv, Types, Ends, Results
<1>9. ASSUME Answered PROVE Rest'
  <2>1. CASE spc = "write"
    <3>1. Len(got) + Len(toClient) + Len(resp) = Len(Response(cur)) /\ toServer = <<>>
      BY <1>9, <2>1 DEF Answered
    <3>2. Len(resp) = 0
      BY <1>2, <1>5, <3>1
    <3>3. resp = <<>>
      BY <1>2, <3>2, EmptySeq
    <3> QED BY <1>1, <1>7, <2>1, <3>1, <3>3 DEF Rest
  <2>2. CASE spc = "header"
    BY <1>1, <1>7, <1>9, <2>2 DEF Answered, Rest
  <2> QED BY <1>9, <2>1, <2>2 DEF Answered
<1>10. ASSUME Gone PROVE Gone'
  BY <1>1, <1>7, <1>10 DEF Gone
<1> QED BY <1>2, <1>3, <1>8, <1>9, <1>10 DEF CheckdInv

\* The response ends: too early for a session, at its end or at the server's
\* for check_src.
LEMMA EofInv ==
    ASSUME CheckdInv, Eof
    PROVE  CheckdInv'
<1>1. /\ cpc = "read" /\ toClient = <<>> /\ ~Alive
      /\ IF mode = "session" THEN cpc' = "returned" /\ result' = <<"err">> ELSE cpc' = "wait" /\ UNCHANGED result
      /\ UNCHANGED <<mode, requests, cur, wrote, got, open, toServer, toClient, spc, buf, want, resp, exited, Request, Alive, Arrived>>
  BY DEF Eof, Return, server, Request, Alive, Arrived
<1>2. Gone /\ mode \in {"once", "session"}
  BY <1>1 DEF CheckdInv, Asked, Answered, Rest, Alive, Types
<1>3. Types' /\ Ends' /\ Results'
  BY <1>1, <1>2 DEF CheckdInv, Types, Ends, Results, Gone
<1>4. Gone'
  BY <1>1, <1>2 DEF Gone, Response
<1> QED BY <1>3, <1>4 DEF CheckdInv

\* check_src trusts the response of a server that ended well, and that one is
\* whole.
LEMMA ReapInv ==
    ASSUME CheckdInv, Reap
    PROVE  CheckdInv'
<1> DEFINE n == be32(At(got, 0))
<1>1. /\ cpc = "wait" /\ cpc' = "returned"
      /\ result' = (CASE exited # 0 -> <<"err">>
                      [] exited = 0 /\ Len(got) < Width -> <<"err">>
                      [] exited = 0 /\ Len(got) >= Width /\ Len(got) < Width + n -> <<"err">>
                      [] OTHER -> parse_response(SubSeq(got, Width + 1, Width + n)))
      /\ UNCHANGED <<mode, requests, cur, wrote, got, open, toServer, toClient, spc, buf, want, resp, exited, Request, Alive, Arrived>>
  BY DEF Reap, Return, server, Request, Alive, Arrived
<1> HIDE DEF n
<1>2. Gone /\ mode = "once" /\ ~Alive /\ toClient = <<>>
  BY <1>1 DEF CheckdInv, Ends, Asked, Answered, Rest, Gone
<1>3. result' = IF exited = 0 THEN <<"ok", CheckSource[cur]>> ELSE <<"err">>
  <2>1. CASE exited # 0
    BY <1>1, <2>1
  <2>2. CASE exited = 0
    <3>1. /\ cur \in DOMAIN CheckSource /\ Width \in Nat /\ got \in Seq(Byte) /\ Len(got) \in Nat
          /\ Len(Response(cur)) \in Nat /\ Len(Response(cur)) >= Width
      BY <1>1, Known DEF CheckdInv, Types
    <3>2. Part(got, Response(cur), 0) /\ Len(got) + Len(toClient) = Len(Response(cur)) /\ Len(toClient) = 0
      BY <1>1, <1>2, <2>2 DEF Gone, Arrived
    <3>3. Len(got) = Len(Response(cur))
      BY <3>1, <3>2
    <3>4. Width + n = Len(got) /\ parse_response(SubSeq(got, Width + 1, Len(got))) = <<"ok", CheckSource[cur]>>
      BY <3>1, <3>2, <3>3, ResponseFrame DEF n
    <3>5. ~(Len(got) < Width) /\ ~(Len(got) < Width + n)
      BY <3>1, <3>3, <3>4
    <3> QED BY <1>1, <2>2, <3>4, <3>5
  <2> QED BY <2>1, <2>2
<1>4. Types' /\ Ends' /\ Results'
  BY <1>1, <1>2, <1>3 DEF CheckdInv, Types, Ends, Results
<1>5. Gone'
  BY <1>1, <1>2 DEF Gone
<1> QED BY <1>4, <1>5 DEF CheckdInv

----------------------------------------------------------------------------
(* The specification.                                                       *)

\* Nothing is under way at the start.
LEMMA FramesInitInv ==
    ASSUME FramesInit
    PROVE  CheckdInv
<1>1. <<>> \in Seq(Byte) /\ Width \in Nat
  BY CodingAssumption
<1>2. Types
  BY <1>1 DEF FramesInit, Types
<1>3. Ends /\ Results /\ Rest
  BY DEF FramesInit, Ends, Results, Rest, Alive
<1> QED BY <1>2, <1>3 DEF CheckdInv

\* Every step of the client, of the server and of whoever kills it keeps the
\* inductive invariant.
LEMMA FramesNextInv ==
    ASSUME CheckdInv, [FramesNext]_frames
    PROVE  CheckdInv'
<1>1. CASE Call
  BY <1>1, CallInv
<1>2. CASE Client
  BY <1>2, WriteInv, WrittenInv, ReadInv, AnswerInv, EofInv, ReapInv DEF Client
<1>3. CASE Server
  BY <1>3, ReadByteInv, ReadEofInv, HeaderDoneInv, HandleInv, WriteByteInv, NextFrameInv DEF Server
<1>4. CASE Killed
  BY <1>4, KilledInv
<1>5. CASE UNCHANGED frames
  <2>1. /\ UNCHANGED <<mode, requests, cpc, cur, wrote, got, result, open, toServer, toClient, spc, buf, want, resp, exited>>
        /\ UNCHANGED <<Request, Arrived>>
    BY <1>5 DEF frames, client, server, Request, Arrived
  <2>2. Types' /\ Ends' /\ Results'
    BY <2>1 DEF CheckdInv, Types, Ends, Results, Alive
  <2>3. (Asked => Asked') /\ (Answered => Answered') /\ (Rest => Rest') /\ (Gone => Gone')
    <3>1. Asked => Asked'
      BY <2>1 DEF Asked, Part
    <3>2. Answered => Answered'
      BY <2>1 DEF Answered, Part, Response
    <3>3. Rest => Rest'
      BY <2>1 DEF Rest
    <3>4. Gone => Gone'
      BY <2>1 DEF Gone, Response
    <3> QED BY <3>1, <3>2, <3>3, <3>4
  <2> QED BY <2>2, <2>3 DEF CheckdInv
<1> QED BY <1>1, <1>2, <1>3, <1>4, <1>5 DEF FramesNext, Finished

\* The inductive invariant holds in every reachable state: in each phase of a
\* call the two pipes and the buffers of both sides hold consecutive parts of
\* the current request or of its response, and nothing of another one.
THEOREM PartsInOrder == FramesSpec => []CheckdInv
<1>1. FramesInit => CheckdInv
  BY FramesInitInv
<1>2. CheckdInv /\ [FramesNext]_frames => CheckdInv'
  BY FramesNextInv
<1> QED BY <1>1, <1>2, PTL DEF FramesSpec

\* check_src and CheckdSession return the diagnostics of the source they were
\* given, or an error: a fly-checkd that dies after any byte never makes them
\* take a truncated or an earlier response for an answer.
THEOREM AnswersExact == FramesSpec => []AnswerExact
<1>1. CheckdInv => AnswerExact
  BY DEF CheckdInv, Results, AnswerExact
<1> QED BY <1>1, PartsInOrder, PTL

\* A call of check_src or CheckdSession fails only when fly-checkd was killed
\* or had refused a request larger than readFrame's limit.
THEOREM ErrorsHaveCause == FramesSpec => []ErrorHasCause
<1>1. ASSUME CheckdInv PROVE ErrorHasCause
  <2>1. SUFFICES ASSUME cpc = "returned", result[1] # "ok"
                 PROVE  exited = 9 \/ Len(Request) - Width > Limit \/ (mode = "session" /\ exited = 1)
    BY DEF ErrorHasCause
  <2>2. ~Alive /\ exited # 0 /\ exited \in {0, 1, 9}
    BY <1>1, <2>1 DEF CheckdInv, Results, Types
  <2>3. Gone
    BY <1>1, <2>1, <2>2 DEF CheckdInv, Asked, Answered, Rest, Alive
  <2>4. exited = 1 => mode = "session" \/ Len(Payload(cur)) > Limit
    BY <2>3 DEF Gone
  <2>5. Len(Request) - Width = Len(Payload(cur))
    BY <1>1, <2>1, Known
  <2> QED BY <2>2, <2>4, <2>5
<1>2. CheckdInv => ErrorHasCause
  BY <1>1
<1> QED BY <1>2, PartsInOrder, PTL
=============================================================================
