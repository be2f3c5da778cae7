--------------------------- MODULE LspServerProofs ---------------------------
(***************************************************************************)
(* Theorems about the language server, for every set of documents and of   *)
(* texts, every checker, every client and every number of failures.        *)
(***************************************************************************)
EXTENDS LspServer, FiniteSetTheorems, FunctionTheorems, TLAPS

\* The default values of the local variables are a document and a text.
LEMMA Defaults == AnyUri \in Uris /\ AnyText \in Texts /\ NoDiags \in DiagLists
BY NonEmptyAssumption, CheckSourceAssumption DEF AnyUri, AnyText

\* A message that is sent joins the channel or is dropped: the channel stays
\* a sequence of messages.
LEMMA SendType ==
    ASSUME TypeOK, NEW m \in Message, Send(m)
    PROVE  out' \in Seq(Message)
BY DEF TypeOK, Send

\* A handler that returns leaves well-typed local variables.
LEMMA ReturnType ==
    ASSUME TypeOK, NEW p \in Threads, pc[p] # "off", Return(p)
    PROVE  /\ pc' \in [Threads -> MainPcs \cup WorkerPcs]
           /\ pc'["main"] \in MainPcs /\ pc'["worker"] \in WorkerPcs
           /\ pc'["worker"] = "off" <=> pc["worker"] = "off"
           /\ uri' \in [Threads -> Uris] /\ text' \in [Threads -> Texts]
           /\ result' \in [Threads -> DiagLists]
BY Defaults DEF TypeOK, Return, Goto, Threads, MainPcs, WorkerPcs

\* The initial state of Server::new has the right shapes.
LEMMA InitType == Init => TypeOK
<1> SUFFICES ASSUME Init PROVE TypeOK
    OBVIOUS
<1>1. docs \in [Uris -> [text : Texts \cup {NoText}, version : Nat \cup {Absent}]]
  BY DEF Init, NoDoc
<1>2. \A u \in Uris : ~Open(u)
  BY DEF Init, NoDoc, Open
<1>3. /\ req \in Seq(Texts) /\ resp \in Seq(DiagLists) /\ out \in Seq(Message)
      /\ pending \in [Uris -> Nat \cup {Absent}] /\ view \in [Uris -> DiagLists]
  BY Defaults DEF Init
<1>4. pc \in [Threads -> MainPcs \cup WorkerPcs] /\ pc["main"] \in MainPcs /\ pc["worker"] \in WorkerPcs
  BY DEF Init, Threads, MainPcs, WorkerPcs
<1>5. uri \in [Threads -> Uris] /\ text \in [Threads -> Texts] /\ result \in [Threads -> DiagLists]
  BY Defaults DEF Init
<1>6. sent \in 0..MaxMsgs /\ faults \in 0..MaxFaults /\ asked \in Nat /\ answered \in Nat
  BY BoundsAssumption DEF Init
<1>7. workerOn \in BOOLEAN /\ shutOk \in BOOLEAN /\ jobs \in SUBSET [uri : Uris, version : Nat]
  BY DEF Init
<1>8. workerOn <=> pc["worker"] # "off"
  BY DEF Init, Threads
<1> QED BY <1>1, <1>2, <1>3, <1>4, <1>5, <1>6, <1>7, <1>8 DEF Init, TypeOK, Free

\* Every step of a thread, of the client and of fly-checkd keeps the shapes.
LEMMA NextType == TypeOK /\ [Next]_vars => TypeOK'
<1> SUFFICES ASSUME TypeOK, [Next]_vars PROVE TypeOK'
    OBVIOUS
<1> USE Defaults, BoundsAssumption, CheckSourceAssumption
<1>1. CASE ReceiveNext
  <2>1. ASSUME NEW u \in Uris, NEW t \in Texts, DidOpen(u, t) PROVE TypeOK'
    BY <2>1 DEF TypeOK, DidOpen, Receive, Goto, Open, Absent, Threads, MainPcs, WorkerPcs,
                sessVars, outVars
  <2>2. ASSUME NEW u \in Uris, NEW t \in Texts, DidChange(u, t) PROVE TypeOK'
    BY <2>2 DEF TypeOK, DidChange, Receive, Goto, Open, Absent, Threads, MainPcs, WorkerPcs,
                sessVars, outVars
  <2>3. ASSUME NEW u \in Uris, DidSave(u) PROVE TypeOK'
    BY <2>3 DEF TypeOK, DidSave, Receive, Goto, Open, Threads, MainPcs, WorkerPcs,
                docVars, sessVars, outVars
  <2>4. ASSUME NEW u \in Uris, DidClose(u) PROVE TypeOK'
    BY <2>4 DEF TypeOK, DidClose, Receive, Goto, Open, NoDoc, Absent, Threads, MainPcs, WorkerPcs,
                sessVars, outVars
  <2>5. CASE Request
    <3>1. out' \in Seq(Message)
      BY <2>5, SendType DEF Request, Message
    <3> QED BY <2>5, <3>1 DEF TypeOK, Request, Receive, Open, docVars, sessVars
  <2>6. CASE Shutdown
    <3>1. out' \in Seq(Message)
      BY <2>6, SendType DEF Shutdown, Message
    <3> QED BY <2>6, <3>1 DEF TypeOK, Shutdown, Receive, Open, docVars, sessVars
  <2>7. ASSUME NEW kind \in {"exit", "eof"}, ExitMsg(kind) PROVE TypeOK'
    <3>1. out' \in Seq(Message)
      BY <2>7, SendType DEF ExitMsg, Message
    <3> QED BY <2>7, <3>1 DEF TypeOK, ExitMsg, Goto, Open, Threads, MainPcs, WorkerPcs,
                              docVars, sessVars
  <2> QED BY <1>1, <2>1, <2>2, <2>3, <2>4, <2>5, <2>6, <2>7 DEF ReceiveNext
<1>2. CASE MainStep \/ WorkerStep
  <2>1. CASE Enqueue
    BY <2>1 DEF TypeOK, Enqueue, Goto, Open, Absent, Threads, MainPcs, WorkerPcs, sessVars, outVars
  <2>2. CASE EnsureWorker
    BY <2>2 DEF TypeOK, EnsureWorker, Open, Threads, MainPcs, WorkerPcs, sessVars, outVars
  <2>3. CASE Join
    BY <2>3 DEF TypeOK, Join, Open, docVars, sessVars, outVars
  <2>4. CASE Drain
    BY <2>4 DEF TypeOK, Drain, Goto, Open, Absent, Threads, MainPcs, WorkerPcs, sessVars, outVars
  <2>5. ASSUME NEW j \in jobs, NextJob(j) PROVE TypeOK'
    BY <2>5 DEF TypeOK, NextJob, Goto, Open, Threads, MainPcs, WorkerPcs, sessVars, outVars
  <2>6. CASE Sleep
    BY <2>6 DEF TypeOK, Sleep, Goto, Open, Threads, MainPcs, WorkerPcs, docVars, sessVars, outVars
  <2>7. ASSUME NEW p \in Threads, CheckUri(p) PROVE TypeOK'
    <3>1. CASE CopyText(p)
      <4>1. CASE ~Open(uri[p]) /\ Return(p)
        BY <3>1, <4>1, ReturnType DEF TypeOK, CopyText, Open, docVars, sessVars, outVars
      <4> QED BY <3>1, <4>1 DEF TypeOK, CopyText, Goto, Open, Threads, MainPcs, WorkerPcs,
                                docVars, sessVars, outVars
    <3>2. CASE Session(p)
      BY <3>2 DEF TypeOK, Session, Goto, Open, Threads, MainPcs, WorkerPcs, docVars, outVars
    <3>3. CASE Write(p)
      <4>1. req' \in Seq(Texts) /\ resp' \in Seq(DiagLists)
        <5>1. req \in Seq(Texts) /\ resp \in Seq(DiagLists) /\ text[p] \in Texts
          BY DEF TypeOK
        <5>2. resp' = resp /\ (req' = req \/ req' = Append(req, text[p]))
          BY <3>3 DEF Write, CheckFails
        <5> QED BY <5>1, <5>2
      <4>2. pc[p] # "off" /\ (pc' = [pc EXCEPT ![p] = "read"] \/ pc' = [pc EXCEPT ![p] = "publish"])
        BY <3>3 DEF Write, CheckFails, Goto
      <4>3. result' \in [Threads -> DiagLists] /\ lock' \in Threads \cup {Free}
        BY <3>3 DEF TypeOK, Write, CheckFails
      <4>4. UNCHANGED <<docVars, uri, text, session, outVars, exit, sent, faults>>
        BY <3>3 DEF Write, CheckFails
      <4> QED BY <4>1, <4>2, <4>3, <4>4 DEF TypeOK, Open, Threads, MainPcs, WorkerPcs,
                                            docVars, outVars
    <3>4. CASE Read(p)
      <4>1. req' \in Seq(Texts) /\ resp' \in Seq(DiagLists)
        <5>1. req \in Seq(Texts) /\ resp \in Seq(DiagLists)
          BY DEF TypeOK
        <5>2. req' = req /\ (resp' = resp \/ (resp # <<>> /\ resp' = Tail(resp)))
          BY <3>4 DEF Read, CheckFails
        <5> QED BY <5>1, <5>2
      <4>2. pc[p] # "off" /\ pc' = [pc EXCEPT ![p] = "publish"]
        BY <3>4 DEF Read, CheckFails, Goto
      <4>3. resp # <<>> => Head(resp) \in DiagLists
        BY DEF TypeOK
      <4>4. result' \in [Threads -> DiagLists] /\ lock' \in Threads \cup {Free}
        BY <3>4, <4>3 DEF TypeOK, Read, CheckFails
      <4>5. UNCHANGED <<docVars, uri, text, session, outVars, exit, sent, faults>>
        BY <3>4 DEF Read, CheckFails
      <4> QED BY <4>1, <4>2, <4>4, <4>5 DEF TypeOK, Open, Threads, MainPcs, WorkerPcs,
                                            docVars, outVars
    <3>5. CASE Publish(p)
      <4>1. Pub(uri[p], result[p]) \in Message
        BY DEF TypeOK, Message
      <4>2. out' \in Seq(Message)
        BY <3>5, <4>1, SendType DEF Publish
      <4> QED BY <3>5, <4>2, ReturnType DEF TypeOK, Publish, Open, docVars, sessVars
    <3> QED BY <2>7, <3>1, <3>2, <3>3, <3>4, <3>5 DEF CheckUri
  <2> QED BY <1>2, <2>1, <2>2, <2>3, <2>4, <2>5, <2>6, <2>7 DEF MainStep, WorkerStep, Threads
<1>3. CASE Deliver
  <2>1. Head(out) \in Message /\ Tail(out) \in Seq(Message)
    BY <1>3 DEF Deliver, TypeOK
  <2>2. view' \in [Uris -> DiagLists]
    BY <1>3, <2>1 DEF Deliver, TypeOK, Message, Pub, Reply, Stop
  <2> QED BY <1>3, <2>1, <2>2 DEF Deliver, TypeOK, Open, docVars, sessVars
<1>4. CASE Serve
  <2>1. Head(req) \in Texts /\ Tail(req) \in Seq(Texts)
    BY <1>4 DEF Serve, TypeOK
  <2>2. resp' \in Seq(DiagLists)
    BY <1>4, <2>1 DEF Serve, TypeOK
  <2> QED BY <1>4, <2>1, <2>2 DEF Serve, TypeOK, Open, docVars, outVars
<1>5. CASE Fault
  <2>1. CASE CheckdDies
    BY <2>1 DEF CheckdDies, TypeOK, Open, docVars, outVars
  <2>2. CASE WriteFails
    BY <2>2 DEF WriteFails, TypeOK, Open, docVars, sessVars
  <2>3. ASSUME NEW p \in Threads, SpawnFails(p) PROVE TypeOK'
    BY <2>3 DEF SpawnFails, TypeOK, Goto, Open, Threads, MainPcs, WorkerPcs, docVars, sessVars, outVars
  <2> QED BY <1>5, <2>1, <2>2, <2>3 DEF Fault
<1>6. CASE UNCHANGED vars
  BY <1>6 DEF TypeOK, Open, vars, docVars, sessVars, outVars
<1> QED BY <1>1, <1>2, <1>3, <1>4, <1>5, <1>6 DEF Next, Terminated

\* The server's state and its threads' local variables keep their types in
\* every interleaving of main, worker, writer and fly-checkd.
THEOREM TypeCorrect == Spec => []TypeOK
<1>1. Init => TypeOK
  BY InitType
<1>2. TypeOK /\ [Next]_vars => TypeOK'
  BY NextType
<1> QED BY <1>1, <1>2, PTL DEF Spec

----------------------------------------------------------------------------
(* Two threads share one pipe to fly-checkd: each gets its own answers.     *)

SessionIInv == TypeOK /\ SessionInv /\ AnswerIsMine

\* The steps of the threads that are not in session()..check() do not disturb
\* the session.
LEMMA OutsideSession ==
    ASSUME SessionIInv, TypeOK', UNCHANGED sessVars,
           \A p \in Threads :
              \/ pc'[p] = pc[p] /\ text'[p] = text[p] /\ result'[p] = result[p]
              \/ /\ pc[p] \notin {"write", "read"} /\ pc'[p] \notin {"write", "read"}
                 /\ pc'[p] = "publish" => result'[p] = NoDiags
    PROVE  SessionIInv'
<1>1. SessionInv'
  BY DEF SessionIInv, SessionInv, sessVars
<1>2. AnswerIsMine'
  BY DEF SessionIInv, AnswerIsMine
<1> QED BY <1>1, <1>2 DEF SessionIInv

\* SessionIInv is inductive: session(), check() and fly-checkd's serve() hand
\* the pipes over with nothing left in them.
LEMMA NextSession == SessionIInv /\ [Next]_vars => SessionIInv'
<1> SUFFICES ASSUME SessionIInv, [Next]_vars PROVE SessionIInv'
    OBVIOUS
<1>t. TypeOK /\ TypeOK'
  BY NextType DEF SessionIInv
<1>p. /\ pc \in [Threads -> MainPcs \cup WorkerPcs] /\ text \in [Threads -> Texts]
      /\ result \in [Threads -> DiagLists] /\ req \in Seq(Texts) /\ resp \in Seq(DiagLists)
  BY <1>t DEF TypeOK
<1> USE <1>t, <1>p
<1>1. CASE ReceiveNext
  <2>1. ASSUME NEW u \in Uris, NEW t \in Texts, DidOpen(u, t) \/ DidChange(u, t) PROVE SessionIInv'
    BY <2>1, OutsideSession DEF DidOpen, DidChange, Receive, Goto, Threads
  <2>2. ASSUME NEW u \in Uris, DidSave(u) \/ DidClose(u) PROVE SessionIInv'
    BY <2>2, OutsideSession DEF DidSave, DidClose, Receive, Goto, Threads
  <2>3. CASE Request \/ Shutdown
    BY <2>3, OutsideSession DEF Request, Shutdown
  <2>4. ASSUME NEW kind \in {"exit", "eof"}, ExitMsg(kind) PROVE SessionIInv'
    BY <2>4, OutsideSession DEF ExitMsg, Goto, Threads
  <2> QED BY <1>1, <2>1, <2>2, <2>3, <2>4 DEF ReceiveNext
<1>2. CASE MainStep \/ WorkerStep
  <2>1. CASE Enqueue \/ EnsureWorker \/ Join
    <3>1. ~workerOn => pc["worker"] = "off"
      BY DEF TypeOK
    <3> QED BY <2>1, <3>1, OutsideSession DEF Enqueue, EnsureWorker, Join, Goto, Threads
  <2>2. CASE Drain \/ Sleep
    <3>1. /\ pc["worker"] \in {"sleep", "next"}
          /\ pc'["worker"] \in {"sleep", "next"} /\ pc'["main"] = pc["main"]
          /\ UNCHANGED <<text, result, sessVars>>
      BY <2>2 DEF Drain, Sleep, Goto, Threads
    <3> QED BY <3>1, OutsideSession DEF Threads
  <2>3. ASSUME NEW j \in jobs, NextJob(j) PROVE SessionIInv'
    BY <2>3, OutsideSession DEF NextJob, Goto, Threads
  <2>4. ASSUME NEW p \in Threads, CheckUri(p) PROVE SessionIInv'
    <3>1. CASE CopyText(p)
      BY <3>1, OutsideSession DEF CopyText, Return, Goto, Threads
    <3>2. CASE Session(p)
      BY <3>2 DEF Session, Goto, SessionIInv, SessionInv, AnswerIsMine, Threads, Free
    <3>3. CASE Write(p)
      <4>1. lock = p /\ req = <<>> /\ resp = <<>>
        BY <3>3 DEF Write, SessionIInv, SessionInv
      <4>2. \A q \in Threads : q # p => pc'[q] = pc[q] /\ pc[q] \notin {"write", "read"}
                                      /\ text'[q] = text[q] /\ result'[q] = result[q]
        BY <3>3, <4>1 DEF Write, CheckFails, Goto, SessionIInv, SessionInv
      <4>3. CASE /\ req' = Append(req, text[p]) /\ pc' = [pc EXCEPT ![p] = "read"]
                 /\ session' = "live" /\ UNCHANGED <<text, result, lock, resp>>
        <5>1. req' = <<text'[p]>> /\ resp' = <<>> /\ lock' = p /\ pc'[p] = "read" /\ session' = "live"
          BY <4>1, <4>3
        <5> QED BY <4>2, <5>1 DEF SessionIInv, SessionInv, AnswerIsMine, Threads, Free
      <4>4. CASE CheckFails(p)
        <5>1. req' = <<>> /\ resp' = <<>> /\ lock' = Free /\ pc'[p] = "publish" /\ result'[p] = NoDiags
          BY <4>1, <4>4 DEF CheckFails, Goto
        <5> QED BY <4>2, <5>1 DEF SessionIInv, SessionInv, AnswerIsMine, Threads, Free
      <4> QED BY <3>3, <4>3, <4>4 DEF Write, Goto
    <3>4. CASE Read(p)
      <4>1. lock = p
        BY <3>4 DEF Read, SessionIInv, SessionInv
      <4>2. \A q \in Threads : q # p => pc'[q] = pc[q] /\ pc[q] \notin {"write", "read"}
                                      /\ text'[q] = text[q] /\ result'[q] = result[q]
        BY <3>4, <4>1 DEF Read, CheckFails, Goto, SessionIInv, SessionInv
      <4>3. CASE /\ resp # <<>> /\ result' = [result EXCEPT ![p] = Head(resp)]
                 /\ resp' = Tail(resp) /\ lock' = Free /\ pc' = [pc EXCEPT ![p] = "publish"]
                 /\ UNCHANGED <<text, req>>
        <5>1. req = <<>> /\ resp = <<CheckSource[text[p]]>>
          BY <3>4, <4>3 DEF Read, SessionIInv, SessionInv
        <5>2. /\ req' = <<>> /\ resp' = <<>> /\ lock' = Free /\ pc'[p] = "publish"
              /\ result'[p] = CheckSource[text'[p]]
          BY <4>3, <5>1
        <5> QED BY <4>2, <5>2 DEF SessionIInv, SessionInv, AnswerIsMine, Threads, Free
      <4>4. CASE session = "dead" /\ resp = <<>> /\ CheckFails(p)
        <5>0. session = "dead" => req = <<>>
          BY <3>4 DEF Read, SessionIInv, SessionInv
        <5>1. req' = <<>> /\ resp' = <<>> /\ lock' = Free /\ pc'[p] = "publish" /\ result'[p] = NoDiags
          BY <4>4, <5>0 DEF CheckFails, Goto
        <5> QED BY <4>2, <5>1 DEF SessionIInv, SessionInv, AnswerIsMine, Threads, Free
      <4> QED BY <3>4, <4>3, <4>4 DEF Read, Goto
    <3>5. CASE Publish(p)
      BY <3>5, OutsideSession DEF Publish, Return, Goto, Threads
    <3> QED BY <2>4, <3>1, <3>2, <3>3, <3>4, <3>5 DEF CheckUri
  <2> QED BY <1>2, <2>1, <2>2, <2>3, <2>4 DEF MainStep, WorkerStep, Threads
<1>3. CASE Deliver
  BY <1>3, OutsideSession DEF Deliver
<1>4. CASE Serve
  <2>1. PICK p \in Threads : lock = p /\ pc[p] = "read" /\ req = <<text[p]>> /\ resp = <<>>
    BY <1>4 DEF Serve, SessionIInv, SessionInv, TypeOK
  <2>2. req' = <<>> /\ resp' = <<CheckSource[text[p]]>>
    BY <1>4, <2>1 DEF Serve
  <2>3. UNCHANGED <<pc, text, result, lock, session>>
    BY <1>4 DEF Serve
  <2> QED BY <2>1, <2>2, <2>3 DEF SessionIInv, SessionInv, AnswerIsMine, Threads, Free
<1>5. CASE Fault
  <2>1. CASE CheckdDies
    BY <2>1 DEF CheckdDies, SessionIInv, SessionInv, AnswerIsMine, Threads, Free
  <2>2. CASE WriteFails
    BY <2>2, OutsideSession DEF WriteFails
  <2>3. ASSUME NEW p \in Threads, SpawnFails(p) PROVE SessionIInv'
    BY <2>3, OutsideSession DEF SpawnFails, Goto, Threads
  <2> QED BY <1>5, <2>1, <2>2, <2>3 DEF Fault
<1>6. CASE UNCHANGED vars
  BY <1>6, OutsideSession DEF vars
<1> QED BY <1>1, <1>2, <1>3, <1>4, <1>5, <1>6 DEF Next, Terminated

\* Every check publishes the answer to its own request, or the empty list of
\* a failure, in every interleaving of the two threads and of fly-checkd's
\* death: the mutex taken by session() is held until check() has read.
THEOREM AnswerCorrect == Spec => []AnswerIsMine
<1>1. Init => SessionIInv
  <2>1. Init => SessionInv /\ AnswerIsMine
    BY DEF Init, SessionInv, AnswerIsMine, Threads, Free
  <2> QED BY <2>1, InitType DEF SessionIInv
<1>2. SessionIInv /\ [Next]_vars => SessionIInv'
  BY NextSession
<1>3. SessionIInv => AnswerIsMine
  BY DEF SessionIInv
<1> QED BY <1>1, <1>2, <1>3, PTL DEF Spec

----------------------------------------------------------------------------
(* The diagnostics at rest are those of the current text, for every         *)
(* document that was never closed.                                          *)

Busy         == {"session", "write", "read", "publish"}
Checks(p, u) == pc[p] \in Busy /\ uri[p] = u

\* The current version of u waits in the pending map, or is about to.
Owed(u) ==
    \/ pc["main"] = "enqueue" /\ uri["main"] = u
    \/ Open(u) /\ pending[u] = docs[u].version

\* The current text of u will still be published.
Coming(u) ==
    \/ Owed(u)
    \/ \E j \in jobs : j.uri = u /\ j.version = docs[u].version
    \/ pc["worker"] = "copy" /\ uri["worker"] = u
    \/ Checks("worker", u) /\ text["worker"] = docs[u].text
    \/ pc["main"] = "copy" /\ uri["main"] = u
    \/ Checks("main", u)

\* Once the channel is drained the client shows d for u.
About(m, u) == m.type = "publish" /\ m.uri = u
Shows(u, d) ==
    \/ view[u] = d /\ \A i \in 1..Len(out) : ~About(out[i], u)
    \/ \E i \in 1..Len(out) :
          /\ About(out[i], u) /\ out[i].diags = d
          /\ \A k \in 1..Len(out) : k > i => ~About(out[k], u)

\* The documents that were never closed: only of them the list shown at rest
\* is known.
Kept == Uris \ closed

FreshClosed ==
    \A u \in Kept : ~Open(u) =>
        /\ pending[u] = Absent
        /\ \A j \in jobs : j.uri # u
        /\ pc["worker"] \in Busy \cup {"copy"} => uri["worker"] # u
        /\ pc["main"] \in Busy \cup {"enqueue"} => uri["main"] # u
        /\ writer = "running" => Shows(u, NoDiags)
FreshOpen ==
    \A u \in Kept : Open(u) /\ writer = "running" =>
        Coming(u) \/ \E d \in Right(docs[u].text) : Shows(u, d)
FreshChecks ==
    /\ \A u \in Kept : Checks("worker", u) => text["worker"] = docs[u].text \/ Owed(u)
    /\ \A u \in Kept : Checks("main", u) => text["main"] = docs[u].text
    /\ \A p \in Threads : pc[p] = "publish" /\ uri[p] \in Kept => result[p] \in Right(text[p])
    /\ session = "dead" => faults > 0
    /\ pc["worker"] \in {"off", "sleep"} => jobs = {}
FreshInv == FreshClosed /\ FreshOpen /\ FreshChecks

\* What the client will show depends on the channel and on what it shows now.
LEMMA ShowsUnchanged ==
    ASSUME UNCHANGED <<view, out>>, NEW u, NEW d, Shows(u, d)
    PROVE  Shows(u, d)'
BY DEF Shows

\* A message about something else does not change what will be shown of u.
LEMMA ShowsSendOther ==
    ASSUME out \in Seq(Message), NEW m \in Message, Send(m), UNCHANGED view,
           NEW u, NEW d, ~About(m, u), Shows(u, d)
    PROVE  Shows(u, d)'
<1>1. CASE writer # "running"
  BY <1>1, ShowsUnchanged DEF Send
<1>2. CASE writer = "running"
  <2>1. out' = Append(out, m)
    BY <1>2 DEF Send
  <2>2. /\ Len(out) \in Nat /\ Len(out') = Len(out) + 1 /\ out'[Len(out) + 1] = m
        /\ \A i \in 1..Len(out) : out'[i] = out[i]
    BY <2>1
  <2>3. \A i \in 1..Len(out') : i \in 1..Len(out) \/ i = Len(out) + 1
    BY <2>2
  <2>4. CASE view[u] = d /\ \A i \in 1..Len(out) : ~About(out[i], u)
    <3>1. \A i \in 1..Len(out') : ~About(out'[i], u)
      BY <2>2, <2>3, <2>4
    <3> QED BY <2>4, <3>1 DEF Shows
  <2>5. ASSUME NEW i \in 1..Len(out), About(out[i], u), out[i].diags = d,
               \A k \in 1..Len(out) : k > i => ~About(out[k], u)
        PROVE  Shows(u, d)'
    <3>1. i \in 1..Len(out') /\ About(out'[i], u) /\ out'[i].diags = d
      BY <2>2, <2>5
    <3>2. \A k \in 1..Len(out') : k > i => ~About(out'[k], u)
      BY <2>2, <2>3, <2>5
    <3> QED BY <3>1, <3>2 DEF Shows
  <2> QED BY <2>4, <2>5 DEF Shows
<1> QED BY <1>1, <1>2

\* The last publication about u is the one that will be shown.
LEMMA ShowsSendPub ==
    ASSUME out \in Seq(Message), NEW u \in Uris, NEW d \in DiagLists, writer = "running",
           Send(Pub(u, d))
    PROVE  Shows(u, d)'
<1>1. out' = Append(out, Pub(u, d)) /\ Pub(u, d) \in Message
  BY DEF Send, Message
<1>2. Len(out) \in Nat /\ Len(out') = Len(out) + 1 /\ out'[Len(out) + 1] = Pub(u, d)
  BY <1>1
<1>3. Len(out) + 1 \in 1..Len(out')
  BY <1>2
<1>4. About(out'[Len(out) + 1], u) /\ out'[Len(out) + 1].diags = d
  BY <1>2 DEF About, Pub
<1>5. \A k \in 1..Len(out') : ~(k > Len(out) + 1)
  BY <1>2
<1> QED BY <1>3, <1>4, <1>5 DEF Shows

\* Taking a message from the channel does not change what will be shown.
LEMMA ShowsDeliver ==
    ASSUME TypeOK, Deliver, writer' = "running", NEW u \in Uris, NEW d, Shows(u, d)
    PROVE  Shows(u, d)'
<1>1. out \in Seq(Message) /\ out # <<>> /\ out' = Tail(out)
  BY DEF Deliver, TypeOK
<1>2. /\ Len(out) \in Nat /\ Len(out) > 0 /\ Len(out') = Len(out) - 1 /\ Head(out) = out[1]
      /\ \A i \in 1..Len(out') : out'[i] = out[i + 1] /\ i + 1 \in 1..Len(out)
  BY <1>1
<1>3. view' = IF out[1].type = "publish" THEN [view EXCEPT ![out[1].uri] = out[1].diags] ELSE view
  BY <1>2 DEF Deliver
<1>4. view \in [Uris -> DiagLists]
  BY DEF TypeOK
<1>5. CASE view[u] = d /\ \A i \in 1..Len(out) : ~About(out[i], u)
  <2>1. ~About(out[1], u)
    BY <1>2, <1>5
  <2>2. view'[u] = d
    BY <1>3, <1>4, <1>5, <2>1 DEF About
  <2>3. \A i \in 1..Len(out') : ~About(out'[i], u)
    BY <1>2, <1>5
  <2> QED BY <2>2, <2>3 DEF Shows
<1>6. ASSUME NEW i \in 1..Len(out), About(out[i], u), out[i].diags = d,
             \A k \in 1..Len(out) : k > i => ~About(out[k], u)
      PROVE  Shows(u, d)'
  <2>1. CASE i = 1
    <3>1. view'[u] = d
      BY <1>3, <1>4, <1>6, <2>1 DEF About
    <3>2. \A k \in 1..Len(out') : ~About(out'[k], u)
      BY <1>2, <1>6, <2>1
    <3> QED BY <3>1, <3>2 DEF Shows
  <2>2. CASE i > 1
    <3>1. i - 1 \in 1..Len(out') /\ out'[i - 1] = out[i]
      BY <1>2, <2>2
    <3>2. \A k \in 1..Len(out') : k > i - 1 => ~About(out'[k], u)
      BY <1>2, <1>6, <2>2
    <3> QED BY <1>6, <3>1, <3>2 DEF Shows
  <2> QED BY <2>1, <2>2
<1> QED BY <1>5, <1>6 DEF Shows
FreshIInv == SessionIInv /\ FreshInv

\* A step keeps what will be shown of every document.
KeepsShown == \A u \in Uris : \A d : writer' = "running" /\ Shows(u, d) => writer = "running" /\ Shows(u, d)'

\* What is right for a text stays right: failures only add to it.
LEMMA RightGrows ==
    ASSUME faults \in Nat, faults' \in Nat, faults' >= faults
    PROVE  \A t : Right(t) \subseteq Right(t)'
BY DEF Right

\* A step that leaves the documents, the jobs and the threads alone.
LEMMA FreshFrame ==
    ASSUME FreshInv, UNCHANGED <<docs, closed, pending, jobs, pc, uri, text, result>>, KeepsShown,
           writer' = "running" => writer = "running",
           faults \in Nat, faults' \in Nat, faults' >= faults, session' = "dead" => session = "dead" \/ faults' > 0
    PROVE  FreshInv'
<1>1. \A t : Right(t) \subseteq Right(t)'
  BY RightGrows
<1>2. FreshClosed'
  BY DEF FreshInv, FreshClosed, KeepsShown, Open, Kept
<1>3. FreshOpen'
  BY <1>1 DEF FreshInv, FreshOpen, KeepsShown, Kept, Coming, Owed, Checks, Open
<1>4. FreshChecks'
  BY <1>1 DEF FreshInv, FreshChecks, Checks, Owed, Open, Kept
<1> QED BY <1>2, <1>3, <1>4 DEF FreshInv

\* FreshIInv is inductive: a check that reads an outdated text is always
\* followed by a queued one of the current text.
LEMMA NextFresh == FreshIInv /\ [Next]_vars => FreshIInv'
<1> SUFFICES ASSUME FreshIInv, [Next]_vars PROVE FreshIInv'
    OBVIOUS
<1>s. SessionIInv /\ SessionIInv' /\ TypeOK /\ TypeOK'
  BY NextSession DEF FreshIInv, SessionIInv
<1>t. /\ docs \in [Uris -> [text : Texts \cup {NoText}, version : Nat \cup {Absent}]]
      /\ \A u \in Uris : Open(u) => docs[u].text \in Texts
      /\ pending \in [Uris -> Nat \cup {Absent}]
      /\ jobs \in SUBSET [uri : Uris, version : Nat]
      /\ pc \in [Threads -> MainPcs \cup WorkerPcs]
      /\ uri \in [Threads -> Uris] /\ text \in [Threads -> Texts] /\ result \in [Threads -> DiagLists]
      /\ out \in Seq(Message) /\ faults \in Nat /\ faults' \in Nat
  BY <1>s DEF TypeOK
<1>f. FreshInv
  BY DEF FreshIInv
<1> SUFFICES FreshInv'
  BY <1>s DEF FreshIInv
<1> USE <1>t, <1>f DEF Kept
<1>1. CASE ReceiveNext
  <2>1. ASSUME NEW u \in Uris, NEW t \in Texts, DidOpen(u, t) PROVE FreshInv'
    <3>1. KeepsShown /\ UNCHANGED writer
      BY <2>1, ShowsUnchanged DEF DidOpen, KeepsShown, outVars
    <3>2. FreshClosed'
      BY <2>1, <3>1 DEF DidOpen, Receive, Goto, FreshInv, FreshClosed, KeepsShown, Open, Busy, Threads, Absent
    <3>3. FreshOpen'
      BY <2>1, <3>1 DEF DidOpen, Receive, Goto, FreshInv, FreshOpen, FreshClosed, KeepsShown, Coming, Owed, Checks, Open, Busy, Threads, Absent, Right
    <3>4. FreshChecks'
      BY <2>1 DEF DidOpen, Receive, Goto, FreshInv, FreshChecks, FreshClosed, Checks, Owed, Open, Busy, Threads, Absent, Right, sessVars
    <3> QED BY <3>2, <3>3, <3>4 DEF FreshInv
  <2>2. ASSUME NEW u \in Uris, NEW t \in Texts, DidChange(u, t) PROVE FreshInv'
    <3>1. KeepsShown /\ UNCHANGED writer
      BY <2>2, ShowsUnchanged DEF DidChange, KeepsShown, outVars
    <3>2. FreshClosed'
      BY <2>2, <3>1 DEF DidChange, Receive, Goto, FreshInv, FreshClosed, KeepsShown, Open, Busy, Threads, Absent
    <3>3. FreshOpen'
      BY <2>2, <3>1 DEF DidChange, Receive, Goto, FreshInv, FreshOpen, KeepsShown, Coming, Owed, Checks, Open, Busy, Threads, Absent, Right
    <3>4. FreshChecks'
      BY <2>2 DEF DidChange, Receive, Goto, FreshInv, FreshChecks, Checks, Owed, Open, Busy, Threads, Absent, Right, sessVars
    <3> QED BY <3>2, <3>3, <3>4 DEF FreshInv
  <2>3. ASSUME NEW u \in Uris, DidSave(u) PROVE FreshInv'
    <3>1. KeepsShown /\ UNCHANGED writer
      BY <2>3, ShowsUnchanged DEF DidSave, KeepsShown, outVars
    <3>2. FreshClosed'
      BY <2>3, <3>1 DEF DidSave, Receive, Goto, FreshInv, FreshClosed, KeepsShown, Open, Busy, Threads, docVars
    <3>3. FreshOpen'
      BY <2>3, <3>1 DEF DidSave, Receive, Goto, FreshInv, FreshOpen, KeepsShown, Coming, Owed, Checks, Open, Busy, Threads, Right, docVars
    <3>4. FreshChecks'
      BY <2>3 DEF DidSave, Receive, Goto, FreshInv, FreshChecks, Checks, Owed, Open, Busy, Threads, Right, sessVars, docVars
    <3> QED BY <3>2, <3>3, <3>4 DEF FreshInv
  <2>4. ASSUME NEW u \in Uris, DidClose(u) PROVE FreshInv'
    <3>1. KeepsShown /\ UNCHANGED writer
      BY <2>4, ShowsUnchanged DEF DidClose, KeepsShown, outVars
    <3>2. FreshClosed'
      BY <2>4, <3>1 DEF DidClose, Receive, Goto, FreshInv, FreshClosed, KeepsShown, Open, Busy, Threads
    <3>3. FreshOpen'
      BY <2>4, <3>1 DEF DidClose, Receive, Goto, FreshInv, FreshOpen, KeepsShown, Coming, Owed, Checks, Open, Busy, Threads, Right
    <3>4. FreshChecks'
      BY <2>4 DEF DidClose, Receive, Goto, FreshInv, FreshChecks, Checks, Owed, Open, Busy, Threads, Right, sessVars
    <3> QED BY <3>2, <3>3, <3>4 DEF FreshInv
  <2>5. CASE Request \/ Shutdown
    <3>1. Reply \in Message /\ \A u : ~About(Reply, u)
      BY DEF Message, Reply, About
    <3>2. KeepsShown /\ UNCHANGED writer
      BY <2>5, <3>1, ShowsSendOther DEF Request, Shutdown, KeepsShown
    <3> QED BY <2>5, <3>2, FreshFrame DEF Request, Shutdown, Receive, docVars, sessVars
  <2>6. ASSUME NEW kind \in {"exit", "eof"}, ExitMsg(kind) PROVE FreshInv'
    <3>0. Stop \in Message /\ \A u : ~About(Stop, u)
      BY DEF Message, Stop, About
    <3>1. KeepsShown /\ UNCHANGED writer
      BY <2>6, <3>0, ShowsSendOther DEF ExitMsg, KeepsShown
    <3>2. FreshClosed'
      BY <2>6, <3>1 DEF ExitMsg, Goto, FreshInv, FreshClosed, KeepsShown, Open, Busy, Threads, docVars
    <3>3. FreshOpen'
      BY <2>6, <3>1 DEF ExitMsg, Goto, FreshInv, FreshOpen, KeepsShown, Coming, Owed, Checks, Open, Busy, Threads, Right, docVars
    <3>4. FreshChecks'
      BY <2>6 DEF ExitMsg, Goto, FreshInv, FreshChecks, Checks, Owed, Open, Busy, Threads, Right, sessVars, docVars
    <3> QED BY <3>2, <3>3, <3>4 DEF FreshInv
  <2> QED BY <1>1, <2>1, <2>2, <2>3, <2>4, <2>5, <2>6 DEF ReceiveNext
<1>2. CASE MainStep \/ WorkerStep
  <2>1. CASE Enqueue
    <3>1. KeepsShown /\ UNCHANGED writer
      BY <2>1, ShowsUnchanged DEF Enqueue, Goto, Absent, KeepsShown, outVars
    <3>2. FreshClosed'
      BY <2>1, <3>1 DEF Enqueue, Goto, Absent, FreshInv, FreshClosed, KeepsShown, Open, Busy, Threads, docVars
    <3>3. FreshOpen'
      BY <2>1, <3>1 DEF Enqueue, Goto, Absent, FreshInv, FreshOpen, KeepsShown, Coming, Owed, Checks, Open, Busy, Threads, Right, docVars
    <3>4. FreshChecks'
      BY <2>1 DEF Enqueue, Goto, Absent, FreshInv, FreshClosed, FreshChecks, Checks, Owed, Open, Busy, Threads, Right, sessVars, docVars
    <3> QED BY <3>2, <3>3, <3>4 DEF FreshInv
  <2>2. CASE EnsureWorker
    <3>0. ~workerOn => pc["worker"] = "off"
      BY <1>s DEF TypeOK
    <3>1. KeepsShown /\ UNCHANGED writer
      BY <2>2, <3>0, ShowsUnchanged DEF EnsureWorker, KeepsShown, outVars
    <3>2. FreshClosed'
      BY <2>2, <3>0, <3>1 DEF EnsureWorker, FreshInv, FreshClosed, KeepsShown, Open, Busy, Threads, docVars
    <3>3. FreshOpen'
      BY <2>2, <3>0, <3>1 DEF EnsureWorker, FreshInv, FreshOpen, KeepsShown, Coming, Owed, Checks, Open, Busy, Threads, Right, docVars
    <3>4. FreshChecks'
      BY <2>2, <3>0 DEF EnsureWorker, FreshInv, FreshChecks, Checks, Owed, Open, Busy, Threads, Right, sessVars, docVars
    <3> QED BY <3>2, <3>3, <3>4 DEF FreshInv
  <2>3. CASE Join
    <3>1. KeepsShown
      BY <2>3, ShowsUnchanged DEF Join, KeepsShown, outVars
    <3> QED BY <2>3, <3>1, FreshFrame DEF Join, docVars, sessVars, outVars
  <2>4. CASE Drain
    <3>1. KeepsShown /\ UNCHANGED writer
      BY <2>4, ShowsUnchanged DEF Drain, Goto, Absent, KeepsShown, outVars
    <3>2. FreshClosed'
      BY <2>4, <3>1 DEF Drain, Goto, Absent, FreshInv, FreshClosed, KeepsShown, Open, Busy, Threads, docVars
    <3>3. FreshOpen'
      <4>1. SUFFICES ASSUME NEW u \in Kept, Open(u), writer = "running"
                     PROVE  Coming(u)' \/ \E d \in Right(docs[u].text) : Shows(u, d)'
        BY <2>4, <3>1 DEF Drain, FreshOpen, Open, Right
      <4>2. CASE Open(u) /\ pending[u] = docs[u].version
        <5>1. [uri |-> u, version |-> pending[u]] \in jobs' /\ docs' = docs
          BY <2>4, <4>1, <4>2 DEF Drain, Open
        <5> QED BY <4>2, <5>1 DEF Coming
      <4>3. CASE pc["main"] = "enqueue" /\ uri["main"] = u
        BY <2>4, <4>3 DEF Drain, Goto, Coming, Owed, Threads
      <4>4. CASE ~Owed(u)
        <5>1. jobs = {}
          BY <2>4 DEF Drain, FreshInv, FreshChecks
        <5> QED BY <2>4, <3>1, <4>1, <4>4, <5>1
                DEF Drain, Goto, FreshInv, FreshOpen, KeepsShown, Coming, Checks, Open, Busy, Threads, outVars
      <4> QED BY <4>2, <4>3, <4>4 DEF Owed
    <3>4. FreshChecks'
      BY <2>4 DEF Drain, Goto, Absent, FreshInv, FreshChecks, Checks, Owed, Open, Busy, Threads, Right, sessVars, docVars
    <3> QED BY <3>2, <3>3, <3>4 DEF FreshInv
  <2>5. ASSUME NEW j \in jobs, NextJob(j) PROVE FreshInv'
    <3>1. KeepsShown /\ UNCHANGED writer
      BY <2>5, ShowsUnchanged DEF NextJob, Goto, Absent, KeepsShown, outVars
    <3>2. FreshClosed'
      BY <2>5, <3>1 DEF NextJob, Goto, Absent, FreshInv, FreshClosed, KeepsShown, Open, Busy, Threads, docVars
    <3>3. FreshOpen'
      BY <2>5, <3>1 DEF NextJob, Goto, Absent, FreshInv, FreshOpen, KeepsShown, Coming, Owed, Checks, Open, Busy, Threads, Right, docVars
    <3>4. FreshChecks'
      BY <2>5 DEF NextJob, Goto, Absent, FreshInv, FreshChecks, Checks, Owed, Open, Busy, Threads, Right, sessVars, docVars
    <3> QED BY <3>2, <3>3, <3>4 DEF FreshInv
  <2>6. CASE Sleep
    <3>1. KeepsShown /\ UNCHANGED writer
      BY <2>6, ShowsUnchanged DEF Sleep, Goto, KeepsShown, outVars
    <3>2. FreshClosed'
      BY <2>6, <3>1 DEF Sleep, Goto, FreshInv, FreshClosed, KeepsShown, Open, Busy, Threads, docVars
    <3>3. FreshOpen'
      BY <2>6, <3>1 DEF Sleep, Goto, FreshInv, FreshOpen, KeepsShown, Coming, Owed, Checks, Open, Busy, Threads, Right, docVars
    <3>4. FreshChecks'
      BY <2>6 DEF Sleep, Goto, FreshInv, FreshChecks, Checks, Owed, Open, Busy, Threads, Right, sessVars, docVars
    <3> QED BY <3>2, <3>3, <3>4 DEF FreshInv
  <2>7. ASSUME NEW p \in Threads, CheckUri(p) PROVE FreshInv'
    <3>1. CASE CopyText(p)
      <4>1. KeepsShown /\ UNCHANGED writer
        BY <3>1, ShowsUnchanged DEF CopyText, Return, Goto, KeepsShown, outVars
      <4>2. FreshClosed'
        BY <3>1, <4>1 DEF CopyText, Return, Goto, FreshInv, FreshClosed, KeepsShown, Open, Busy, Threads, docVars
      <4>3. FreshOpen'
        <5>1. CASE ~Open(uri[p]) /\ Return(p)
          BY <3>1, <4>1, <5>1 DEF CopyText, Return, Goto, FreshInv, FreshOpen, KeepsShown, Coming, Owed, Checks,
                                  Open, Busy, Threads, Right, docVars
        <5>2. CASE text' = [text EXCEPT ![p] = docs[uri[p]].text] /\ Goto(p, "session") /\ UNCHANGED uri
          BY <3>1, <4>1, <5>2 DEF CopyText, Goto, FreshInv, FreshOpen, KeepsShown, Coming, Owed, Checks,
                                  Open, Busy, Threads, Right, docVars
        <5> QED BY <3>1, <5>1, <5>2 DEF CopyText
      <4>4. FreshChecks'
        BY <3>1 DEF CopyText, Return, Goto, FreshInv, FreshChecks, Checks, Owed, Open, Busy, Threads, Right, sessVars, docVars
      <4> QED BY <4>2, <4>3, <4>4 DEF FreshInv
    <3>2. CASE Session(p)
      <4>1. KeepsShown /\ UNCHANGED writer
        BY <3>2, ShowsUnchanged DEF Session, Goto, KeepsShown, outVars
      <4>2. FreshClosed'
        BY <3>2, <4>1 DEF Session, Goto, FreshInv, FreshClosed, KeepsShown, Open, Busy, Threads, docVars
      <4>3. FreshOpen'
        BY <3>2, <4>1 DEF Session, Goto, FreshInv, FreshOpen, KeepsShown, Coming, Owed, Checks, Open, Busy, Threads, Right, docVars
      <4>4. FreshChecks'
        BY <3>2 DEF Session, Goto, FreshInv, FreshChecks, Checks, Owed, Open, Busy, Threads, Right, sessVars, docVars
      <4> QED BY <4>2, <4>3, <4>4 DEF FreshInv
    <3>3. CASE Write(p)
      <4>1. KeepsShown /\ UNCHANGED writer
        BY <3>3, ShowsUnchanged DEF Write, CheckFails, Goto, KeepsShown, outVars
      <4>2. FreshClosed'
        BY <3>3, <4>1 DEF Write, CheckFails, Goto, FreshInv, FreshClosed, KeepsShown, Open, Busy, Threads, docVars
      <4>3. FreshOpen'
        BY <3>3, <4>1 DEF Write, CheckFails, Goto, FreshInv, FreshOpen, KeepsShown, Coming, Owed, Checks, Open, Busy, Threads, Right, docVars
      <4>4. FreshChecks'
        BY <3>3 DEF Write, CheckFails, Goto, FreshInv, FreshChecks, Checks, Owed, Open, Busy, Threads, Right, sessVars, docVars
      <4> QED BY <4>2, <4>3, <4>4 DEF FreshInv
    <3>4. CASE Read(p)
      <4>0. /\ resp # <<>> => Head(resp) = CheckSource[text[p]]
            /\ resp = <<>> /\ session = "dead" => faults > 0
        BY <1>s, <3>4 DEF Read, SessionIInv, SessionInv, FreshInv, FreshChecks
      <4>1. KeepsShown /\ UNCHANGED writer
        BY <3>4, <4>0, ShowsUnchanged DEF Read, CheckFails, Goto, KeepsShown, outVars
      <4>2. FreshClosed'
        BY <3>4, <4>0, <4>1 DEF Read, CheckFails, Goto, FreshInv, FreshClosed, KeepsShown, Open, Busy, Threads, docVars
      <4>3. FreshOpen'
        BY <3>4, <4>0, <4>1 DEF Read, CheckFails, Goto, FreshInv, FreshOpen, KeepsShown, Coming, Owed, Checks, Open, Busy, Threads, Right, docVars
      <4>4. FreshChecks'
        BY <3>4, <4>0 DEF Read, CheckFails, Goto, FreshInv, FreshChecks, Checks, Owed, Open, Busy, Threads, Right, sessVars, docVars
      <4> QED BY <4>2, <4>3, <4>4 DEF FreshInv
    <3>5. CASE Publish(p)
      <4>0. /\ uri[p] \in Uris /\ result[p] \in DiagLists /\ Pub(uri[p], result[p]) \in Message
            /\ \A u \in Uris : u # uri[p] => ~About(Pub(uri[p], result[p]), u)
        BY DEF Message, About, Pub
      <4>1. \A u \in Uris : \A d : u # uri[p] /\ Shows(u, d) => Shows(u, d)'
        BY <3>5, <4>0, ShowsSendOther DEF Publish
      <4>v. PICK v \in Uris, r \in DiagLists : v = uri[p] /\ r = result[p]
        BY <4>0
      <4>2. writer = "running" => Shows(v, r)'
        BY <3>5, <4>v, ShowsSendPub DEF Publish
      <4>3. uri[p] \in Kept => Open(uri[p]) /\ result[p] \in Right(text[p])
        BY <3>5 DEF Publish, FreshInv, FreshClosed, FreshChecks, Busy, Threads
      <4>4. UNCHANGED <<docs, closed, pending, jobs, writer, faults, session>>
        BY <3>5 DEF Publish, docVars, sessVars
      <4>5. FreshClosed'
        BY <3>5, <4>1, <4>3, <4>4 DEF Publish, Return, Goto, FreshInv, FreshClosed, Open, Busy, Threads
      <4>6. FreshOpen'
        <5>1. SUFFICES ASSUME NEW u \in Kept, Open(u), writer = "running"
                       PROVE  Coming(u)' \/ \E d \in Right(docs[u].text) : Shows(u, d)'
          BY <4>4 DEF FreshOpen, Open, Right
        <5>2. CASE u # uri[p]
          BY <3>5, <4>1, <4>4, <5>1, <5>2
             DEF Publish, Return, Goto, FreshInv, FreshOpen, Coming, Owed, Checks, Open, Busy, Threads
        <5>3. CASE u = uri[p] /\ text[p] = docs[u].text
          BY <4>v, <4>2, <4>3, <5>1, <5>3
        <5>4. CASE u = uri[p] /\ text[p] # docs[u].text
          BY <3>5, <4>4, <5>1, <5>4
             DEF Publish, Return, Goto, FreshInv, FreshChecks, Coming, Owed, Checks, Open, Busy, Threads
        <5> QED BY <5>2, <5>3, <5>4
      <4>7. FreshChecks'
        BY <3>5, <4>4 DEF Publish, Return, Goto, FreshInv, FreshChecks, Checks, Owed, Open, Busy, Threads, Right
      <4> QED BY <4>5, <4>6, <4>7 DEF FreshInv
    <3> QED BY <2>7, <3>1, <3>2, <3>3, <3>4, <3>5 DEF CheckUri
  <2> QED BY <1>2, <2>1, <2>2, <2>3, <2>4, <2>5, <2>6, <2>7 DEF MainStep, WorkerStep, Threads
<1>3. CASE Deliver
  <2>1. KeepsShown
    BY <1>3, <1>s, ShowsDeliver DEF Deliver, KeepsShown
  <2> QED BY <1>3, <2>1, FreshFrame DEF Deliver, docVars, sessVars
<1>4. CASE Serve
  <2>1. KeepsShown
    BY <1>4, ShowsUnchanged DEF Serve, KeepsShown, outVars
  <2> QED BY <1>4, <2>1, FreshFrame DEF Serve, docVars, outVars
<1>5. CASE Fault
  <2>1. CASE CheckdDies
    <3>1. KeepsShown
      BY <2>1, ShowsUnchanged DEF CheckdDies, KeepsShown, outVars
    <3> QED BY <2>1, <3>1, FreshFrame DEF CheckdDies, docVars, outVars
  <2>2. CASE WriteFails
    <3>1. KeepsShown
      BY <2>2 DEF WriteFails, KeepsShown
    <3> QED BY <2>2, <3>1, FreshFrame DEF WriteFails, docVars, sessVars
  <2>3. ASSUME NEW p \in Threads, SpawnFails(p) PROVE FreshInv'
    <3>0. faults' > 0 /\ faults' >= faults
      BY <2>3 DEF SpawnFails
    <3>1. KeepsShown /\ UNCHANGED writer
      BY <2>3, <3>0, ShowsUnchanged DEF SpawnFails, Goto, KeepsShown, outVars
    <3>2. FreshClosed'
      BY <2>3, <3>0, <3>1 DEF SpawnFails, Goto, FreshInv, FreshClosed, KeepsShown, Open, Busy, Threads, docVars
    <3>3. FreshOpen'
      BY <2>3, <3>0, <3>1 DEF SpawnFails, Goto, FreshInv, FreshOpen, KeepsShown, Coming, Owed, Checks, Open, Busy, Threads, Right, docVars
    <3>4. FreshChecks'
      BY <2>3, <3>0 DEF SpawnFails, Goto, FreshInv, FreshChecks, Checks, Owed, Open, Busy, Threads, Right, sessVars, docVars
    <3> QED BY <3>2, <3>3, <3>4 DEF FreshInv
  <2> QED BY <1>5, <2>1, <2>2, <2>3 DEF Fault
<1>6. CASE UNCHANGED vars
  <2>1. KeepsShown
    BY <1>6, ShowsUnchanged DEF vars, KeepsShown, outVars
  <2> QED BY <1>6, <2>1, FreshFrame DEF vars, docVars, sessVars, outVars
<1> QED BY <1>1, <1>2, <1>3, <1>4, <1>5, <1>6 DEF Next, Terminated

\* At the start no document is open and nothing is shown.
LEMMA InitFresh == Init => FreshIInv
<1> SUFFICES ASSUME Init PROVE FreshIInv
    OBVIOUS
<1>1. SessionIInv
  BY InitType DEF Init, SessionIInv, SessionInv, AnswerIsMine, Threads, Free
<1>2. \A u \in Uris : ~Open(u) /\ Shows(u, NoDiags) /\ pending[u] = Absent
  <2> SUFFICES ASSUME NEW u \in Uris PROVE ~Open(u) /\ Shows(u, NoDiags) /\ pending[u] = Absent
      OBVIOUS
  <2>1. ~Open(u) /\ pending[u] = Absent
    BY DEF Init, Open, NoDoc
  <2>2. view[u] = NoDiags /\ Len(out) = 0
    BY DEF Init
  <2>3. Shows(u, NoDiags)
    BY <2>2 DEF Shows
  <2> QED BY <2>1, <2>3
<1>3. pc["main"] = "idle" /\ pc["worker"] = "off" /\ jobs = {} /\ session = "none"
  BY DEF Init, Threads
<1>4. FreshClosed /\ FreshOpen /\ FreshChecks
  BY <1>2, <1>3 DEF FreshClosed, FreshOpen, FreshChecks, Checks, Busy, Threads, Kept
<1> QED BY <1>1, <1>4 DEF FreshIInv, FreshInv

\* At rest nothing is coming any more, so what is right is what is shown.
LEMMA AtRest ==
    ASSUME FreshIInv, Quiescent, NEW u \in Kept
    PROVE  view[u] \in IF Open(u) THEN Right(docs[u].text) ELSE {NoDiags}
<1>1. \A d : Shows(u, d) => view[u] = d
  BY DEF Quiescent, Shows
<1>2. ~Coming(u)
  BY DEF FreshIInv, FreshInv, FreshChecks, Quiescent, Coming, Owed, Open, Checks, Busy, Kept
<1> QED BY <1>1, <1>2 DEF FreshIInv, FreshInv, FreshOpen, FreshClosed, Quiescent

\* Every pause of the server finds the client with a right list for every
\* document that was never closed: the debounce, the version comparison, the
\* late publications of check_uri and failures of fly-checkd never leave an
\* outdated list behind.
THEOREM FreshAtRest == Spec => []QuiescentFresh
<1>1. Init => FreshIInv
  BY InitFresh
<1>2. FreshIInv /\ [Next]_vars => FreshIInv'
  BY NextFresh
<1>3. FreshIInv => QuiescentFresh
  BY AtRest DEF QuiescentFresh, Kept
<1> QED BY <1>1, <1>2, <1>3, PTL DEF Spec

----------------------------------------------------------------------------
(* Every reply is written before run returns.                               *)

Replies(s) == {i \in 1..Len(s) : s[i] = Reply}
Leaving    == pc["main"] \in {"join", "joinErr"}

\* As long as the writer runs, the replies it owes are those in the channel,
\* and none of them is behind the empty message.
FlushInv ==
    /\ faults = 0 /\ writer = "running" => asked = answered + Cardinality(Replies(out))
    /\ faults = 0 /\ writer = "done" => asked = answered /\ Leaving
    /\ \A i \in 1..Len(out) : out[i] = Stop =>
           Leaving /\ \A j \in 1..Len(out) : out[j] = Reply => j < i
    /\ exit # "running" => writer = "done"
FlushIInv == TypeOK /\ FlushInv

\* The replies of a channel are finitely many.
LEMMA RepliesFinite ==
    ASSUME NEW s \in Seq(Message)
    PROVE  IsFiniteSet(Replies(s)) /\ Cardinality(Replies(s)) \in Nat
<1>1. IsFiniteSet(1..Len(s)) /\ Replies(s) \subseteq 1..Len(s)
  BY FS_Interval DEF Replies
<1>2. IsFiniteSet(Replies(s))
  BY <1>1, FS_Subset
<1> QED BY <1>2, FS_CardinalityType

\* Appending to a channel adds a reply or none.
LEMMA RepliesAppend ==
    ASSUME NEW s \in Seq(Message), NEW m \in Message
    PROVE  Cardinality(Replies(Append(s, m))) = Cardinality(Replies(s)) + (IF m = Reply THEN 1 ELSE 0)
<1>1. /\ Len(s) \in Nat /\ Len(Append(s, m)) = Len(s) + 1 /\ Append(s, m)[Len(s) + 1] = m
      /\ \A i \in 1..Len(s) : Append(s, m)[i] = s[i]
  OBVIOUS
<1>2. CASE m = Reply
  <2>1. Replies(Append(s, m)) = Replies(s) \cup {Len(s) + 1} /\ Len(s) + 1 \notin Replies(s)
    BY <1>1, <1>2 DEF Replies
  <2>2. Cardinality(Replies(s) \cup {Len(s) + 1}) = Cardinality(Replies(s)) + 1
    BY <2>1, RepliesFinite, FS_AddElement
  <2> QED BY <1>2, <2>1, <2>2
<1>3. CASE m # Reply
  <2>1. Replies(Append(s, m)) = Replies(s)
    BY <1>1, <1>3 DEF Replies
  <2> QED BY <1>3, <2>1, RepliesFinite
<1> QED BY <1>2, <1>3

\* Taking the first message of a channel removes a reply or none.
LEMMA RepliesTail ==
    ASSUME NEW s \in Seq(Message), s # <<>>
    PROVE  Cardinality(Replies(s)) = Cardinality(Replies(Tail(s))) + (IF Head(s) = Reply THEN 1 ELSE 0)
<1> DEFINE R == {i \in 2..Len(s) : s[i] = Reply}
           f == [i \in Replies(Tail(s)) |-> i + 1]
<1>1. /\ Len(s) \in Nat /\ Len(s) > 0 /\ Tail(s) \in Seq(Message) /\ Len(Tail(s)) = Len(s) - 1 /\ Head(s) = s[1]
      /\ \A i \in 1..Len(Tail(s)) : Tail(s)[i] = s[i + 1]
  OBVIOUS
<1>2. ExistsBijection(Replies(Tail(s)), R)
  <2>1. f \in [Replies(Tail(s)) -> R]
    BY <1>1 DEF Replies
  <2>2. \A i, j \in Replies(Tail(s)) : f[i] = f[j] => i = j
    BY <1>1 DEF Replies
  <2>3. ASSUME NEW k \in R PROVE \E i \in Replies(Tail(s)) : f[i] = k
    <3>1. k - 1 \in 1..Len(Tail(s)) /\ (k - 1) + 1 = k /\ s[k] = Reply
      BY <1>1
    <3>2. k - 1 \in Replies(Tail(s))
      BY <1>1, <3>1 DEF Replies
    <3> QED BY <3>1, <3>2
  <2> HIDE DEF f, R
  <2>4. f \in Bijection(Replies(Tail(s)), R)
    BY <2>1, <2>2, <2>3, Fun_IsBij, Zenon
  <2> QED BY <2>4 DEF ExistsBijection
<1>3. IsFiniteSet(R) /\ Cardinality(R) = Cardinality(Replies(Tail(s)))
  <2> HIDE DEF R
  <2> QED BY <1>1, <1>2, RepliesFinite, FS_Bijection
<1>4. CASE Head(s) = Reply
  <2>1. Replies(s) = R \cup {1} /\ 1 \notin R
    BY <1>1, <1>4 DEF Replies
  <2>2. Cardinality(R \cup {1}) = Cardinality(R) + 1
    <3> HIDE DEF R
    <3> QED BY <1>3, <2>1, FS_AddElement
  <2> HIDE DEF R
  <2> QED BY <1>3, <1>4, <2>1, <2>2
<1>5. CASE Head(s) # Reply
  <2>1. Replies(s) = R
    BY <1>1, <1>5 DEF Replies
  <2> HIDE DEF R
  <2>2. Cardinality(Replies(Tail(s))) \in Nat
    BY <1>1, RepliesFinite
  <2> QED BY <1>3, <1>5, <2>1, <2>2
<1> QED BY <1>4, <1>5

\* A step that leaves the channel and main's exit alone.
LEMMA FlushFrame ==
    ASSUME FlushInv, UNCHANGED <<out, writer, asked, answered>>, exit' # "running" => writer = "done",
           faults' = 0 => faults = 0, Leaving => Leaving'
    PROVE  FlushInv'
BY DEF FlushInv, Replies

\* A message of a thread that is not leaving, or no reply.
LEMMA FlushSend ==
    ASSUME FlushIInv, NEW m \in Message, Send(m), UNCHANGED <<writer, answered, exit, faults>>,
           m = Reply => ~Leaving /\ asked' = asked + 1, m # Reply => asked' = asked,
           Leaving => Leaving', m = Stop => Leaving'
    PROVE  FlushInv'
<1>1. out \in Seq(Message) /\ asked \in Nat /\ answered \in Nat /\ writer \in {"running", "done"}
  BY DEF FlushIInv, TypeOK
<1>r. Reply # Stop
  BY DEF Reply, Stop
<1>2. CASE writer = "running"
  <2>1. out' = Append(out, m)
    BY <1>2 DEF Send
  <2>2. /\ Len(out) \in Nat /\ Len(out') = Len(out) + 1 /\ out'[Len(out) + 1] = m
        /\ \A i \in 1..Len(out) : out'[i] = out[i]
    BY <1>1, <2>1
  <2>3. faults = 0 => asked' = answered' + Cardinality(Replies(out'))
    <3>1. Cardinality(Replies(out')) = Cardinality(Replies(out)) + (IF m = Reply THEN 1 ELSE 0)
      BY <1>1, <2>1, RepliesAppend
    <3>2. Cardinality(Replies(out)) \in Nat
      BY <1>1, RepliesFinite
    <3>3. faults = 0 => asked = answered + Cardinality(Replies(out))
      BY <1>2 DEF FlushIInv, FlushInv
    <3> QED BY <1>1, <3>1, <3>2, <3>3
  <2>4. ASSUME NEW i \in 1..Len(out'), out'[i] = Stop
        PROVE  Leaving' /\ \A j \in 1..Len(out') : out'[j] = Reply => j < i
    <3>1. CASE i = Len(out) + 1
      BY <1>r, <2>2, <2>4, <3>1
    <3>2. CASE i \in 1..Len(out)
      <4>1. out[i] = Stop
        BY <2>2, <2>4, <3>2
      <4>2. Leaving /\ \A j \in 1..Len(out) : out[j] = Reply => j < i
        BY <3>2, <4>1 DEF FlushIInv, FlushInv
      <4>3. m # Reply
        BY <4>2
      <4> QED BY <2>2, <4>2, <4>3
    <3> QED BY <2>2, <3>1, <3>2
  <2> QED BY <1>2, <2>3, <2>4 DEF FlushIInv, FlushInv
<1>3. CASE writer = "done"
  <2>1. out' = out
    BY <1>3 DEF Send
  <2>2. faults = 0 => Leaving /\ asked = answered
    BY <1>3 DEF FlushIInv, FlushInv
  <2>3. \A i \in 1..Len(out) : out[i] = Stop => Leaving /\ \A j \in 1..Len(out) : out[j] = Reply => j < i
    BY DEF FlushIInv, FlushInv
  <2> QED BY <1>3, <2>1, <2>2, <2>3 DEF FlushInv
<1> QED BY <1>1, <1>2, <1>3

\* The writer takes the replies in order and stops behind the last of them.
LEMMA FlushDeliver ==
    ASSUME FlushIInv, Deliver
    PROVE  FlushInv'
<1>1. /\ out \in Seq(Message) /\ out # <<>> /\ asked \in Nat /\ answered \in Nat
      /\ exit = "running" /\ writer = "running" /\ UNCHANGED <<pc, asked, exit, faults>>
  BY DEF FlushIInv, TypeOK, Deliver
<1>2. /\ Len(out) \in Nat /\ Len(out) > 0 /\ Head(out) = out[1] /\ Len(Tail(out)) = Len(out) - 1
      /\ Tail(out) \in Seq(Message) /\ \A i \in 1..Len(Tail(out)) : Tail(out)[i] = out[i + 1]
  BY <1>1
<1>r. Reply # Stop
  BY DEF Reply, Stop
<1>3. CASE Head(out) = Stop
  <2>1. writer' = "done" /\ out' = <<>> /\ answered' = answered
    BY <1>3, <1>r DEF Deliver
  <2>2. Leaving /\ \A j \in 1..Len(out) : out[j] # Reply
    <3>1. 1 \in 1..Len(out) /\ out[1] = Stop
      BY <1>2, <1>3
    <3>2. Leaving /\ \A j \in 1..Len(out) : out[j] = Reply => j < 1
      BY <3>1 DEF FlushIInv, FlushInv
    <3> QED BY <1>2, <3>2
  <2>3. Replies(out) = {}
    BY <2>2 DEF Replies
  <2>4. faults = 0 => asked = answered
    <3>1. faults = 0 => asked = answered + Cardinality(Replies(out))
      BY <1>1 DEF FlushIInv, FlushInv
    <3>2. Cardinality(Replies(out)) = 0
      BY <2>3, FS_EmptySet
    <3> QED BY <1>1, <3>1, <3>2
  <2>5. Leaving' /\ Len(out') = 0
    BY <1>1, <2>1, <2>2 DEF Leaving
  <2> QED BY <1>1, <2>1, <2>4, <2>5 DEF FlushInv
<1>4. CASE Head(out) # Stop
  <2>1. writer' = "running" /\ out' = Tail(out) /\ answered' = IF Head(out) = Reply THEN answered + 1 ELSE answered
    BY <1>4 DEF Deliver
  <2>2. faults = 0 => asked = answered' + Cardinality(Replies(out'))
    <3>1. Cardinality(Replies(out)) = Cardinality(Replies(Tail(out))) + (IF Head(out) = Reply THEN 1 ELSE 0)
      BY <1>1, RepliesTail
    <3>2. Cardinality(Replies(Tail(out))) \in Nat
      BY <1>2, RepliesFinite
    <3>3. faults = 0 => asked = answered + Cardinality(Replies(out))
      BY <1>1 DEF FlushIInv, FlushInv
    <3> QED BY <1>1, <2>1, <3>1, <3>2, <3>3
  <2>3. ASSUME NEW i \in 1..Len(out'), out'[i] = Stop
        PROVE  Leaving' /\ \A j \in 1..Len(out') : out'[j] = Reply => j < i
    <3>1. i + 1 \in 1..Len(out) /\ out[i + 1] = Stop
      BY <1>2, <2>1, <2>3
    <3>2. Leaving /\ \A j \in 1..Len(out) : out[j] = Reply => j < i + 1
      BY <3>1 DEF FlushIInv, FlushInv
    <3>3. \A j \in 1..Len(out') : j + 1 \in 1..Len(out) /\ out'[j] = out[j + 1]
      BY <1>2, <2>1
    <3>4. \A j \in 1..Len(out') : out'[j] = Reply => j < i
      BY <1>2, <2>1, <3>2, <3>3
    <3> QED BY <1>1, <3>2, <3>4 DEF Leaving
  <2> QED BY <1>1, <2>1, <2>2, <2>3 DEF FlushInv
<1> QED BY <1>3, <1>4

\* Every step keeps FlushIInv.
LEMMA NextFlush == FlushIInv /\ [Next]_vars => FlushIInv'
<1> SUFFICES ASSUME FlushIInv, [Next]_vars PROVE FlushInv'
  BY NextType DEF FlushIInv
<1>t. /\ pc \in [Threads -> MainPcs \cup WorkerPcs] /\ faults \in 0..MaxFaults /\ FlushInv
      /\ uri \in [Threads -> Uris] /\ result \in [Threads -> DiagLists]
  BY DEF FlushIInv, TypeOK
<1>b. MaxFaults \in Nat
  BY BoundsAssumption
<1>m. Reply \in Message /\ Stop \in Message /\ Reply # Stop
  BY DEF Message, Reply, Stop
<1>e. exit # "running" => writer = "done"
  BY <1>t DEF FlushInv
<1>1. CASE ReceiveNext
  <2>1. ASSUME NEW u \in Uris, NEW t \in Texts, DidOpen(u, t) \/ DidChange(u, t) PROVE FlushInv'
    BY <1>t, <1>e, <2>1, FlushFrame DEF DidOpen, DidChange, Receive, Goto, Leaving, outVars
  <2>2. ASSUME NEW u \in Uris, DidSave(u) \/ DidClose(u) PROVE FlushInv'
    BY <1>t, <1>e, <2>2, FlushFrame DEF DidSave, DidClose, Receive, Goto, Leaving, outVars
  <2>3. CASE Request \/ Shutdown
    <3>1. /\ ~Leaving /\ Send(Reply) /\ asked' = asked + 1
          /\ UNCHANGED <<pc, writer, answered, exit, faults>>
      BY <2>3 DEF Request, Shutdown, Receive, Leaving
    <3> QED BY <1>m, <3>1, FlushSend
  <2>4. ASSUME NEW kind \in {"exit", "eof"}, ExitMsg(kind) PROVE FlushInv'
    <3>1. /\ Send(Stop) /\ Leaving' /\ UNCHANGED <<writer, asked, answered, exit, faults>>
      BY <1>t, <2>4 DEF ExitMsg, Goto, Leaving, Threads
    <3> QED BY <1>m, <3>1, FlushSend
  <2> QED BY <1>1, <2>1, <2>2, <2>3, <2>4 DEF ReceiveNext
<1>2. CASE MainStep \/ WorkerStep
  <2>1. CASE Enqueue \/ EnsureWorker \/ Join
    BY <1>t, <1>e, <2>1, FlushFrame DEF Enqueue, EnsureWorker, Join, Goto, Leaving, outVars, Threads
  <2>2. CASE Drain \/ Sleep
    <3>1. UNCHANGED <<out, writer, asked, answered, exit, faults>> /\ pc'["main"] = pc["main"]
      BY <1>t, <2>2 DEF Drain, Sleep, Goto, Threads, outVars
    <3> QED BY <1>t, <1>e, <3>1, FlushFrame DEF Leaving
  <2>3. ASSUME NEW j \in jobs, NextJob(j) PROVE FlushInv'
    <3>1. UNCHANGED <<out, writer, asked, answered, exit, faults>> /\ pc'["main"] = pc["main"]
      BY <1>t, <2>3 DEF NextJob, Goto, Threads, outVars
    <3> QED BY <1>t, <1>e, <3>1, FlushFrame DEF Leaving
  <2>4. ASSUME NEW p \in Threads, CopyText(p) \/ Session(p) \/ Write(p) \/ Read(p) PROVE FlushInv'
    <3>1. UNCHANGED <<out, writer, asked, answered, exit, faults>>
      BY <2>4 DEF CopyText, Session, Write, Read, outVars
    <3>2. Leaving => Leaving'
      BY <1>t, <2>4 DEF CopyText, Session, Write, Read, CheckFails, Return, Goto, Threads, Leaving
    <3> QED BY <1>t, <1>e, <3>1, <3>2, FlushFrame
  <2>5. ASSUME NEW p \in Threads, Publish(p) PROVE FlushInv'
    <3>1. Pub(uri[p], result[p]) \in Message /\ Pub(uri[p], result[p]) # Reply /\ Pub(uri[p], result[p]) # Stop
      BY <1>t DEF Message, Pub, Reply, Stop
    <3>2. Send(Pub(uri[p], result[p])) /\ UNCHANGED <<writer, asked, answered, exit, faults>>
      BY <2>5 DEF Publish
    <3>3. Leaving => Leaving'
      BY <1>t, <2>5 DEF Publish, Return, Goto, Threads, Leaving
    <3> QED BY <3>1, <3>2, <3>3, FlushSend
  <2> QED BY <1>2, <2>1, <2>2, <2>3, <2>4, <2>5 DEF MainStep, WorkerStep, CheckUri, Threads
<1>3. CASE Deliver
  BY <1>3, FlushDeliver
<1>4. CASE Serve
  BY <1>t, <1>e, <1>4, FlushFrame DEF Serve, Leaving, outVars
<1>5. CASE Fault
  <2>1. faults' # 0
    BY <1>b, <1>t, <1>5 DEF Fault, CheckdDies, WriteFails, SpawnFails
  <2>2. CASE WriteFails
    BY <1>e, <2>1, <2>2 DEF WriteFails, FlushInv
  <2>3. CASE CheckdDies
    BY <1>t, <1>e, <2>1, <2>3, FlushFrame DEF CheckdDies, Leaving, outVars
  <2>4. ASSUME NEW p \in Threads, SpawnFails(p) PROVE FlushInv'
    <3>1. Leaving => Leaving'
      BY <1>t, <2>4 DEF SpawnFails, Goto, Threads, Leaving
    <3> QED BY <1>t, <1>e, <2>1, <2>4, <3>1, FlushFrame DEF SpawnFails, outVars
  <2> QED BY <1>5, <2>2, <2>3, <2>4 DEF Fault
<1>6. CASE UNCHANGED vars
  BY <1>t, <1>e, <1>6, FlushFrame DEF vars, outVars, Leaving
<1> QED BY <1>1, <1>2, <1>3, <1>4, <1>5, <1>6 DEF Next, Terminated

\* At the start the channel is empty and nothing was asked.
LEMMA InitFlush == Init => FlushIInv
<1> SUFFICES ASSUME Init PROVE FlushInv
  BY InitType DEF FlushIInv
<1>1. Len(out) = 0 /\ asked = 0 /\ answered = 0 /\ writer = "running" /\ exit = "running"
  BY DEF Init
<1>2. Replies(out) = {}
  BY <1>1 DEF Replies
<1>3. Cardinality(Replies(out)) = 0
  BY <1>2, FS_EmptySet
<1> QED BY <1>1, <1>3 DEF FlushInv

\* run returns only after the writer thread wrote every reply that was put
\* into the channel before the empty message, unless something failed.
THEOREM AllRepliesFlushed == Spec => []RepliesFlushed
<1>1. Init => FlushIInv
  BY InitFlush
<1>2. FlushIInv /\ [Next]_vars => FlushIInv'
  BY NextFlush
<1>3. FlushIInv => RepliesFlushed
  BY DEF FlushIInv, FlushInv, RepliesFlushed
<1> QED BY <1>1, <1>2, <1>3, PTL DEF Spec
=============================================================================
