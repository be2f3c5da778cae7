------------------------------ MODULE LspServer ------------------------------
(***************************************************************************)
(* `fly lsp` (src/lsp.rs): the language server.  Three threads share the   *)
(* Server structure:                                                       *)
(*   - "main" reads one JSON-RPC message after another and runs its        *)
(*     handler to completion;                                              *)
(*   - "worker" is the single debounce thread: every 120 ms it drains the  *)
(*     pending map and checks the documents whose version is unchanged;    *)
(*   - the writer takes messages from the mpsc channel to stdout.          *)
(* Diagnostics come from one long-lived fly-checkd process (CheckdSession  *)
(* of src/checkd.rs, served by cmd/fly-checkd/main.go) behind a mutex.     *)
(* One action is one critical section or one system call of the code, so   *)
(* the interleavings of the model are those of the threads.                *)
(***************************************************************************)
EXTENDS Integers, Sequences

CONSTANTS
    Uris,         \* the documents of the client
    Texts,        \* the texts a document may have
    NoText,       \* the text of a document that is not open
    DiagLists,    \* lists of diagnostics
    NoDiags,      \* the empty list
    CheckSource,  \* compile.CheckSource: what the checker says of a text
    Kinds,        \* the kinds of messages the client uses
    MaxMsgs,      \* bound: messages of the client, "exit" and "eof" excepted
    MaxFaults     \* bound: failures of fly-checkd and of stdout

ASSUME CheckSourceAssumption ==
    /\ CheckSource \in [Texts -> DiagLists]
    /\ NoDiags \in DiagLists

ASSUME NonEmptyAssumption == Uris # {} /\ Texts # {}

ASSUME BoundsAssumption == MaxMsgs \in Nat /\ MaxFaults \in Nat

VARIABLES
    docs,      \* Server.docs: text and version of each open document
    closed,    \* history: the documents that were closed at least once
    pending,   \* Server.pending: the version waiting for a check, or Absent
    workerOn,  \* Server.worker_on
    jobs,      \* the worker's local list of drained jobs
    pc,        \* where each thread is in its handler
    uri,       \* local variable of check_uri and of the handlers
    text,      \* check_uri's copy of the text
    result,    \* check_uri's diagnostics
    lock,      \* the thread that holds the mutex Server.checkd, or Free
    session,   \* the Option<CheckdSession>: "none", "live" or "dead"
    req,       \* the pipe to fly-checkd: requests not served yet
    resp,      \* the pipe from fly-checkd: responses not read yet
    out,       \* the mpsc channel to the writer thread
    writer,    \* "running" or "done"
    view,      \* what the client shows: the last diagnostics it received
    asked,     \* replies handed to the channel
    answered,  \* replies the client received
    shutOk,    \* Server.shut_ok
    exit,      \* "running", or the result of run: "ok" or "err"
    sent,      \* messages of the client so far
    faults     \* failures so far

docVars  == <<docs, closed, pending, workerOn, jobs>>
sessVars == <<lock, session, req, resp>>
outVars  == <<out, writer, view, asked, answered, shutOk>>
vars     == <<docVars, pc, uri, text, result, sessVars, outVars, exit, sent, faults>>

Threads == {"main", "worker"}
Free    == "free"
Absent  == -1                \* no entry in the map `docs` or `pending`

AnyUri    == CHOOSE u \in Uris : TRUE     \* the value of a local variable that
AnyText   == CHOOSE t \in Texts : TRUE    \* is out of scope
NoDoc     == [text |-> NoText, version |-> Absent]
Open(u)   == docs[u].version # Absent
Reply     == [type |-> "reply"]
Stop      == [type |-> "stop"]           \* the empty message that ends the writer
Pub(u, d) == [type |-> "publish", uri |-> u, diags |-> d]
Message   == {Pub(u, d) : u \in Uris, d \in DiagLists} \cup {Reply, Stop}
MainPcs   == {"idle", "enqueue", "ensure", "copy", "session", "write", "read",
              "publish", "join", "joinErr"}
WorkerPcs == {"off", "sleep", "next", "copy", "session", "write", "read", "publish"}

\* The shapes of the server's state and of the threads' local variables.
TypeOK ==
    /\ docs \in [Uris -> [text : Texts \cup {NoText}, version : Nat \cup {Absent}]]
    /\ \A u \in Uris : Open(u) => docs[u].text \in Texts
    /\ closed \subseteq Uris
    /\ pending \in [Uris -> Nat \cup {Absent}]
    /\ workerOn \in BOOLEAN
    /\ jobs \in SUBSET [uri : Uris, version : Nat]
    /\ pc \in [Threads -> MainPcs \cup WorkerPcs]
    /\ pc["main"] \in MainPcs /\ pc["worker"] \in WorkerPcs
    /\ workerOn <=> pc["worker"] # "off"
    /\ uri \in [Threads -> Uris]
    /\ text \in [Threads -> Texts]
    /\ result \in [Threads -> DiagLists]
    /\ lock \in Threads \cup {Free}
    /\ session \in {"none", "live", "dead"}
    /\ req \in Seq(Texts) /\ resp \in Seq(DiagLists)
    /\ out \in Seq(Message)
    /\ writer \in {"running", "done"}
    /\ view \in [Uris -> DiagLists]
    /\ asked \in Nat /\ answered \in Nat
    /\ shutOk \in BOOLEAN
    /\ exit \in {"running", "ok", "err"}
    /\ sent \in 0..MaxMsgs /\ faults \in 0..MaxFaults

\* Server::new and the start of run: no document, no session, no worker.
Init ==
    /\ docs = [u \in Uris |-> NoDoc]
    /\ closed = {}
    /\ pending = [u \in Uris |-> Absent]
    /\ workerOn = FALSE
    /\ jobs = {}
    /\ pc = [p \in Threads |-> IF p = "main" THEN "idle" ELSE "off"]
    /\ uri = [p \in Threads |-> AnyUri]
    /\ text = [p \in Threads |-> AnyText]
    /\ result = [p \in Threads |-> NoDiags]
    /\ lock = Free /\ session = "none" /\ req = <<>> /\ resp = <<>>
    /\ out = <<>> /\ writer = "running"
    /\ view = [u \in Uris |-> NoDiags]
    /\ asked = 0 /\ answered = 0 /\ shutOk = FALSE
    /\ exit = "running" /\ sent = 0 /\ faults = 0

----------------------------------------------------------------------------
(* The main thread: one action per message, up to the first lock it takes.  *)

Goto(p, l) == pc' = [pc EXCEPT ![p] = l]

\* A handler ends: main reads the next message, the worker takes its next job.
Return(p) ==
    /\ Goto(p, IF p = "main" THEN "idle" ELSE "next")
    /\ uri' = [uri EXCEPT ![p] = AnyUri]
    /\ text' = [text EXCEPT ![p] = AnyText]
    /\ result' = [result EXCEPT ![p] = NoDiags]

\* Sending on the channel: an error (the writer is gone) is ignored.
Send(m) == out' = IF writer = "running" THEN Append(out, m) ELSE out

Receive(kind) ==
    /\ exit = "running" /\ pc["main"] = "idle"
    /\ kind \in Kinds
    /\ sent < MaxMsgs /\ sent' = sent + 1
    /\ UNCHANGED <<exit, faults>>

\* did_open inserts the document at version 0 and calls check_uri.
\* (A client opens a document that it has not opened.)
DidOpen(u, t) ==
    /\ Receive("open") /\ ~Open(u)
    /\ docs' = [docs EXCEPT ![u] = [text |-> t, version |-> 0]]
    /\ uri' = [uri EXCEPT !["main"] = u]
    /\ Goto("main", "copy")
    /\ UNCHANGED <<closed, pending, workerOn, jobs, text, result, sessVars, outVars>>

\* did_change, first critical section: or_insert_with(version 0), the new
\* text, version += 1.
DidChange(u, t) ==
    /\ Receive("change")
    /\ docs' = [docs EXCEPT ![u] = [text |-> t,
                                    version |-> IF Open(u) THEN docs[u].version + 1 ELSE 1]]
    /\ uri' = [uri EXCEPT !["main"] = u]
    /\ Goto("main", "enqueue")
    /\ UNCHANGED <<closed, pending, workerOn, jobs, text, result, sessVars, outVars>>

\* Faulty variant of Enqueue: an entry that is already pending is kept.
EnqueueOnce ==
    /\ exit = "running" /\ pc["main"] = "enqueue"
    /\ pending' = [pending EXCEPT ![uri["main"]] = IF @ = Absent THEN docs[uri["main"]].version ELSE @]
    /\ Goto("main", "ensure")
    /\ UNCHANGED <<docs, closed, workerOn, jobs, uri, text, result, sessVars, outVars, exit, sent, faults>>

\* did_change, second critical section: pending.insert(uri, version).  Only
\* main writes docs, so the version it copied is still the document's.
Enqueue ==
    /\ exit = "running" /\ pc["main"] = "enqueue"
    /\ pending' = [pending EXCEPT ![uri["main"]] = docs[uri["main"]].version]
    /\ Goto("main", "ensure")
    /\ UNCHANGED <<docs, closed, workerOn, jobs, uri, text, result, sessVars, outVars, exit, sent, faults>>

\* ensure_worker: the first change starts the only worker thread.
EnsureWorker ==
    /\ exit = "running" /\ pc["main"] = "ensure"
    /\ workerOn' = TRUE
    /\ pc' = [pc EXCEPT !["main"] = "idle",
                        !["worker"] = IF workerOn THEN @ ELSE "sleep"]
    /\ uri' = [uri EXCEPT !["main"] = AnyUri]
    /\ UNCHANGED <<docs, closed, pending, jobs, text, result, sessVars, outVars, exit, sent, faults>>

\* did_save and fly/forceCheck call check_uri.
DidSave(u) ==
    /\ Receive("save")
    /\ uri' = [uri EXCEPT !["main"] = u]
    /\ Goto("main", "copy")
    /\ UNCHANGED <<docVars, text, result, sessVars, outVars>>

\* did_close removes the document, then publishes the empty list.  The
\* pending map and the worker's jobs keep their entries.
DidClose(u) ==
    /\ Receive("close") /\ Open(u)
    /\ docs' = [docs EXCEPT ![u] = NoDoc]
    /\ closed' = closed \cup {u}
    /\ uri' = [uri EXCEPT !["main"] = u]
    /\ result' = [result EXCEPT !["main"] = NoDiags]
    /\ Goto("main", "publish")
    /\ UNCHANGED <<pending, workerOn, jobs, text, sessVars, outVars>>

\* initialize, hover, an unknown method: a reply and no change of state.
\* hover slices a line at byte offsets; texts are those it can slice, where
\* every offset asked for is the start of a character.
Request ==
    /\ Receive("request")
    /\ Send(Reply) /\ asked' = asked + 1
    /\ UNCHANGED <<docVars, pc, uri, text, result, sessVars, writer, view, answered, shutOk>>

Shutdown ==
    /\ Receive("shutdown")
    /\ shutOk' = TRUE
    /\ Send(Reply) /\ asked' = asked + 1
    /\ UNCHANGED <<docVars, pc, uri, text, result, sessVars, writer, view, answered>>

\* "exit", or the end of stdin (and any ill-formed frame): the empty message
\* ends the writer, main joins it, and run returns.
ExitMsg(kind) ==
    /\ exit = "running" /\ pc["main"] = "idle" /\ kind \in Kinds
    /\ Send(Stop)
    /\ Goto("main", IF kind = "exit" THEN "join" ELSE "joinErr")
    /\ UNCHANGED <<docVars, uri, text, result, sessVars, writer, view, asked, answered,
                   shutOk, exit, sent, faults>>

\* Faulty variant of Join: run returns without waiting for the writer.
JoinEarly ==
    /\ exit = "running" /\ pc["main"] \in {"join", "joinErr"}
    /\ exit' = IF pc["main"] = "join" /\ shutOk THEN "ok" ELSE "err"
    /\ UNCHANGED <<docVars, pc, uri, text, result, sessVars, outVars, sent, faults>>

\* Faulty variant of Join: run also joins the worker, which never ends.
JoinWorker ==
    /\ exit = "running" /\ pc["main"] \in {"join", "joinErr"}
    /\ writer = "done" /\ pc["worker"] = "off"
    /\ exit' = IF pc["main"] = "join" /\ shutOk THEN "ok" ELSE "err"
    /\ UNCHANGED <<docVars, pc, uri, text, result, sessVars, outVars, sent, faults>>

\* writer.join(), then Ok(()) only after "exit" that follows "shutdown".
Join ==
    /\ exit = "running" /\ pc["main"] \in {"join", "joinErr"}
    /\ writer = "done"
    /\ exit' = IF pc["main"] = "join" /\ shutOk THEN "ok" ELSE "err"
    /\ UNCHANGED <<docVars, pc, uri, text, result, sessVars, outVars, sent, faults>>

----------------------------------------------------------------------------
(* check_uri, run by main and by the worker.                                *)

\* Faulty variant of CopyText: a missing document is checked all the same.
CopyTextAlways(p) ==
    /\ exit = "running" /\ pc[p] = "copy"
    /\ text' = [text EXCEPT ![p] = docs[uri[p]].text]
    /\ Goto(p, "session")
    /\ UNCHANGED <<docVars, uri, result, sessVars, outVars, exit, sent, faults>>

\* The text is copied under the mutex of docs; no document, no check.
CopyText(p) ==
    /\ exit = "running" /\ pc[p] = "copy"
    /\ \/ /\ Open(uri[p])
          /\ text' = [text EXCEPT ![p] = docs[uri[p]].text]
          /\ Goto(p, "session")
          /\ UNCHANGED <<uri, result>>
       \/ ~Open(uri[p]) /\ Return(p)
    /\ UNCHANGED <<docVars, sessVars, outVars, exit, sent, faults>>

\* session(): take the mutex; the first use spawns fly-checkd.
Session(p) ==
    /\ exit = "running" /\ pc[p] = "session"
    /\ lock = Free /\ lock' = p
    /\ session' = IF session = "none" THEN "live" ELSE session
    /\ Goto(p, "write")
    /\ UNCHANGED <<docVars, uri, text, result, req, resp, outVars, exit, sent, faults>>

\* session() when the process cannot be started: the mutex is released with
\* the Option still None, and check_uri goes on with an empty list.
SpawnFails(p) ==
    /\ exit = "running" /\ pc[p] = "session"
    /\ lock = Free /\ session = "none"
    /\ faults < MaxFaults /\ faults' = faults + 1
    /\ result' = [result EXCEPT ![p] = NoDiags]
    /\ Goto(p, "publish")
    /\ UNCHANGED <<docVars, uri, text, sessVars, outVars, exit, sent>>

\* check() fails: check_uri logs the error, and its list stays empty.  The
\* guard is dropped; the Option keeps the broken session.
CheckFails(p) ==
    /\ lock' = Free
    /\ result' = [result EXCEPT ![p] = NoDiags]
    /\ Goto(p, "publish")
    /\ UNCHANGED <<uri, text, req, resp>>

\* Faulty variant of Write: the mutex is held for the write only.
WriteUnlocks(p) ==
    /\ exit = "running" /\ pc[p] = "write" /\ session = "live"
    /\ req' = Append(req, text[p])
    /\ lock' = Free
    /\ Goto(p, "read")
    /\ UNCHANGED <<docVars, uri, text, result, session, resp, outVars, exit, sent, faults>>

\* check(), first half: write the request frame.
Write(p) ==
    /\ exit = "running" /\ pc[p] = "write"
    /\ \/ /\ session = "live"
          /\ req' = Append(req, text[p])
          /\ Goto(p, "read")
          /\ UNCHANGED <<uri, text, result, lock, resp>>
       \/ session = "dead" /\ CheckFails(p)
    /\ UNCHANGED <<docVars, session, outVars, exit, sent, faults>>

\* check(), second half: read one response frame; the mutex is released.
Read(p) ==
    /\ exit = "running" /\ pc[p] = "read"
    /\ \/ /\ resp # <<>>
          /\ result' = [result EXCEPT ![p] = Head(resp)]
          /\ resp' = Tail(resp)
          /\ lock' = Free
          /\ Goto(p, "publish")
          /\ UNCHANGED <<uri, text, req>>
       \/ session = "dead" /\ resp = <<>> /\ CheckFails(p)
    /\ UNCHANGED <<docVars, session, outVars, exit, sent, faults>>

\* publish(): the notification goes to the channel; the version of the
\* document is not looked at again.
Publish(p) ==
    /\ exit = "running" /\ pc[p] = "publish"
    /\ Send(Pub(uri[p], result[p]))
    /\ Return(p)
    /\ UNCHANGED <<docVars, sessVars, writer, view, asked, answered, shutOk, exit, sent, faults>>

----------------------------------------------------------------------------
(* The worker, the writer and fly-checkd.                                   *)

\* After its sleep the worker drains the pending map.
Drain ==
    /\ exit = "running" /\ pc["worker"] = "sleep"
    /\ jobs' = {[uri |-> u, version |-> pending[u]] : u \in {v \in Uris : pending[v] # Absent}}
    /\ pending' = [u \in Uris |-> Absent]
    /\ Goto("worker", "next")
    /\ UNCHANGED <<docs, closed, workerOn, uri, text, result, sessVars, outVars, exit, sent, faults>>

\* The next job, in the map's arbitrary order: check the document if its
\* version is still the one of the job, else drop the job.
NextJob(j) ==
    /\ exit = "running" /\ pc["worker"] = "next" /\ j \in jobs
    /\ jobs' = jobs \ {j}
    /\ IF docs[j.uri].version = j.version
          THEN Goto("worker", "copy") /\ uri' = [uri EXCEPT !["worker"] = j.uri]
          ELSE UNCHANGED <<pc, uri>>
    /\ UNCHANGED <<docs, closed, pending, workerOn, text, result, sessVars, outVars, exit, sent, faults>>

\* Faulty variant of Sleep: the worker ends after one round.
SleepOnce ==
    /\ exit = "running" /\ pc["worker"] = "next" /\ jobs = {}
    /\ Goto("worker", "off")
    /\ UNCHANGED <<docVars, uri, text, result, sessVars, outVars, exit, sent, faults>>

\* No job left: sleep again.
Sleep ==
    /\ exit = "running" /\ pc["worker"] = "next" /\ jobs = {}
    /\ Goto("worker", "sleep")
    /\ UNCHANGED <<docVars, uri, text, result, sessVars, outVars, exit, sent, faults>>

\* The writer thread writes one message to stdout, or ends at the empty one.
Deliver ==
    /\ exit = "running" /\ writer = "running" /\ out # <<>>
    /\ LET m == Head(out) IN
       /\ writer' = IF m = Stop THEN "done" ELSE "running"
       /\ out' = IF m = Stop THEN <<>> ELSE Tail(out)
       /\ answered' = IF m = Reply THEN answered + 1 ELSE answered
       /\ view' = IF m.type = "publish" THEN [view EXCEPT ![m.uri] = m.diags] ELSE view
    /\ UNCHANGED <<docVars, pc, uri, text, result, sessVars, asked, shutOk, exit, sent, faults>>

\* A failed write ends the writer thread; the receiver is dropped.
WriteFails ==
    /\ exit = "running" /\ writer = "running" /\ out # <<>> /\ Head(out) # Stop
    /\ faults < MaxFaults /\ faults' = faults + 1
    /\ writer' = "done" /\ out' = <<>>
    /\ UNCHANGED <<docVars, pc, uri, text, result, sessVars, view, asked, answered, shutOk, exit, sent>>

\* serve() of fly-checkd: read a frame, check it, write the response frame.
Serve ==
    /\ exit = "running" /\ session = "live" /\ req # <<>>
    /\ resp' = Append(resp, CheckSource[Head(req)])
    /\ req' = Tail(req)
    /\ UNCHANGED <<docVars, pc, uri, text, result, lock, session, outVars, exit, sent, faults>>

\* fly-checkd dies (killed, out of memory, a panic in the checker).  What it
\* wrote before can still be read.
CheckdDies ==
    /\ exit = "running" /\ session = "live"
    /\ faults < MaxFaults /\ faults' = faults + 1
    /\ session' = "dead" /\ req' = <<>>
    /\ UNCHANGED <<docVars, pc, uri, text, result, lock, resp, outVars, exit, sent>>

\* run has returned and the process is gone.
Terminated == exit # "running" /\ UNCHANGED vars

----------------------------------------------------------------------------
ReceiveNext ==
    \/ \E u \in Uris, t \in Texts : DidOpen(u, t) \/ DidChange(u, t)
    \/ \E u \in Uris : DidSave(u) \/ DidClose(u)
    \/ Request
    \/ Shutdown
    \/ \E kind \in {"exit", "eof"} : ExitMsg(kind)

\* A check of uri[p], a well-formed URI: where a percent sign stands before a
\* character that is not ASCII, the slice of uri_to_path would panic.
CheckUri(p) == CopyText(p) \/ Session(p) \/ Write(p) \/ Read(p) \/ Publish(p)

MainStep   == Enqueue \/ EnsureWorker \/ Join \/ CheckUri("main")
WorkerStep == Drain \/ (\E j \in jobs : NextJob(j)) \/ Sleep \/ CheckUri("worker")
Fault      == CheckdDies \/ WriteFails \/ \E p \in Threads : SpawnFails(p)

Next == ReceiveNext \/ MainStep \/ WorkerStep \/ Deliver \/ Serve \/ Fault \/ Terminated

Spec == Init /\ [][Next]_vars

\* The operating system runs every thread that can run, and fly-checkd; the
\* client need not send anything, and nothing has to fail.
Fairness == WF_vars(MainStep) /\ WF_vars(WorkerStep) /\ WF_vars(Deliver) /\ WF_vars(Serve)

FairSpec == Spec /\ Fairness

----------------------------------------------------------------------------
(* Properties.                                                              *)

\* Every check publishes the answer to its own request or the empty list of
\* a failure: two threads that share the pipe of CheckdSession::check never
\* get each other's response (the mutex covers the write and the read).
AnswerIsMine ==
    \A p \in Threads :
        pc[p] = "publish" => result[p] \in {CheckSource[text[p]], NoDiags}

\* What makes AnswerIsMine inductive: the holder of the mutex is the thread
\* between session() and the end of check(), and the two pipes hold exactly
\* its own request or the response to it.
SessionInv ==
    /\ \A p \in Threads : pc[p] \in {"write", "read"} <=> lock = p
    /\ lock = Free => req = <<>> /\ resp = <<>>
    /\ \A p \in Threads : pc[p] = "write" => req = <<>> /\ resp = <<>>
    /\ \A p \in Threads : pc[p] = "read" =>
           \/ req = <<text[p]>> /\ resp = <<>> /\ session = "live"
           \/ req = <<>> /\ resp = <<CheckSource[text[p]]>>
           \/ req = <<>> /\ resp = <<>> /\ session = "dead"

\* Nothing is left to do: main waits for a message, the worker sleeps or was
\* never started, and both the pending map and the channel are empty.
Quiescent ==
    /\ exit = "running" /\ writer = "running"
    /\ pc["main"] = "idle" /\ pc["worker"] \in {"off", "sleep"}
    /\ pending = [u \in Uris |-> Absent]
    /\ out = <<>>

\* The lists that are right for a text: its diagnostics; after a failure of
\* fly-checkd also the empty list check_uri publishes then.
Right(t) == {CheckSource[t]} \cup {d \in {NoDiags} : faults > 0}

\* When the server has nothing left to do, the client shows a right list of
\* the current text for every open document, and none for the others, as
\* long as they were never closed (did_change's debounce, check_uri's
\* publication without a second look at the version, and any failure).
QuiescentFresh ==
    Quiescent =>
        \A u \in Uris \ closed :
            view[u] \in IF Open(u) THEN Right(docs[u].text) ELSE {NoDiags}

\* When the server has nothing left to do, no diagnostics are shown of a
\* document that is not open: did_close publishes the empty list, and the
\* comparison of versions is there to keep outdated lists back.
ClosedBlank == Quiescent => \A u \in Uris : ~Open(u) => view[u] = NoDiags

\* When run returns after its writer took the empty message, every reply it
\* owed was written first (run joins the writer before it returns).
RepliesFlushed == exit # "running" /\ faults = 0 => answered = asked

\* Closing and reopening included (which restart the version at 0, and leave
\* jobs of the earlier document behind): a change waiting for the worker at
\* the document's version ends up shown, unless the text is replaced first.
ChangeShown ==
    \A u \in Uris : \A t \in Texts :
        (pending[u] # Absent /\ pending[u] = docs[u].version /\ docs[u].text = t)
            ~> \/ view[u] = CheckSource[t] \/ docs[u].text # t
               \/ faults > 0 \/ pc["main"] \in {"join", "joinErr"}

\* run always returns once it was told to: main's join of the writer and the
\* worker's use of the session never wait for each other.
ExitReturns == pc["main"] \in {"join", "joinErr"} ~> exit # "running"
=============================================================================
