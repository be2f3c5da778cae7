--------------------------- MODULE CheckdProtocol ---------------------------
(***************************************************************************)
(* The frame protocol between the fly command and fly-checkd, byte by byte *)
(* over two bounded pipes (src/src/checkd.rs and src/cmd/fly-checkd/main.go).*)
(* A client of mode "once" is check_src: one process for one request, its  *)
(* stdin closed after the request.  One of mode "session" is CheckdSession:*)
(* the process is kept and gets the next request on the same pipes.  The   *)
(* process may be killed between any two bytes.                            *)
(*                                                                         *)
(* A byte is a number below Base and a length takes Width bytes.  CheckSource*)
(* stands for the compiler pipeline: the diagnostics of each source.       *)
(***************************************************************************)
EXTENDS Integers, Sequences, SequencesExt

CONSTANTS
    Base, Width,   \* 256 and 4 in the code
    Limit,         \* the largest payload readFrame accepts, 64 MiB in the code
    PipeCap,       \* capacity of a pipe
    Path,          \* the path of every request
    CheckSource,   \* the diagnostics <<code, line, col, msg>> of each source
    MaxRequests    \* requests of one session

VARIABLES
    mode,     \* "once" or "session"
    requests, \* requests so far
    cpc,      \* client: idle, write, read, wait, returned
    cur,      \* the source of the current request
    wrote,    \* bytes of the request that are in the pipe or beyond
    got,      \* bytes of the response the client has
    result,   \* what the last call returned
    open,     \* the client's end of stdin is open
    toServer, toClient,  \* the pipes
    spc,      \* server: header, body, handle, write, exited
    buf,      \* bytes of the part readFrame is reading
    want,     \* length of that part
    resp,     \* bytes of the response still to be written
    exited    \* exit status: 0, 1, or 9 when killed

client == <<mode, requests, cpc, cur, wrote, got, result, open>>
server == <<spc, buf, want, resp, exited>>
frames == <<client, toServer, toClient, server>>

\* The powers of the base, 1 to 2^32 in the code.
Powers[k \in 0..Width] == IF k = 0 THEN 1 ELSE Base * Powers[k - 1]
\* push_be32 and uint32Bytes; be32; PutUint32 little-endian; le32.
push_be32(n) == [k \in 1..Width |-> (n \div Powers[Width - k]) % Base]
be32(b) == LET value[k \in 0..Len(b)] == IF k = 0 THEN 0 ELSE Base * value[k - 1] + b[k] IN value[Len(b)]
put_le32(n)  == Reverse(push_be32(n))
le32(b)      == be32(Reverse(b))
Framed(b)    == push_be32(Len(b)) \o b
Field(s)     == Framed(s)                \* a string: its length and its bytes
At(b, off)   == SubSeq(b, off + 1, off + Width)

color      == 0
Payload(s) == <<color>> \o Field(Path) \o Field(s)
Request    == Framed(Payload(cur))

-----------------------------------------------------------------------------
(* fly-checkd.                                                             *)

encodeDiagnostic(d)   == Field(d[1]) \o put_le32(d[2]) \o put_le32(d[3]) \o Field(d[4])
encodeDiagnostics(ds) ==
    <<0>> \o push_be32(Len(ds)) \o FlattenSeq([i \in DOMAIN ds |-> encodeDiagnostic(ds[i])])
encodeError           == <<1>> \o Field(<<1>>)

\* A diagnostic has strings of bytes, and a line and a column that fit.
Byte       == 0..(Base - 1)
Number     == 0..(Powers[Width] - 1)
Diagnostic == Seq(Byte) \X Number \X Number \X Seq(Byte)

\* Sources are bytes, and no payload is longer than its length can say: below
\* 4 GiB in the code.
ASSUME CodingAssumption ==
    /\ Base \in Nat /\ Base > 1 /\ Width \in Nat \ {0}
    /\ Limit \in Nat /\ PipeCap \in Nat \ {0} /\ MaxRequests \in Nat
    /\ Path \in Seq(Byte) /\ DOMAIN CheckSource \subseteq Seq(Byte)
    /\ \A s \in DOMAIN CheckSource :
          /\ CheckSource[s] \in Seq(Diagnostic)
          /\ Len(Payload(s)) \in Number /\ Len(encodeDiagnostics(CheckSource[s])) \in Number

\* Diagnostics of the source, or an error when a length does not fit.
handle(payload) ==
    LET pathLen == be32(At(payload, 1))
        rest    == SubSeq(payload, 2 + Width, Len(payload))
        tail    == SubSeq(rest, pathLen + 1, Len(rest))
        srcLen  == be32(SubSeq(tail, 1, Width))
        body    == SubSeq(tail, Width + 1, Len(tail))
    IN  IF Len(payload) < 1 + 2 * Width THEN encodeError
        ELSE IF Len(rest) < pathLen + Width THEN encodeError
        ELSE IF Len(body) < srcLen THEN encodeError
        ELSE encodeDiagnostics(CheckSource[SubSeq(body, 1, srcLen)])

Alive == spc # "exited"

\* serve returns: with an error (1) or without (0).
ServerExit(code) == spc' = "exited" /\ exited' = code /\ UNCHANGED <<buf, want, resp>>

ReadByte ==
    /\ spc \in {"header", "body"} /\ Len(buf) < want /\ toServer # <<>>
    /\ buf' = Append(buf, Head(toServer))
    /\ toServer' = Tail(toServer)
    /\ UNCHANGED <<client, toClient, spc, want, resp, exited>>

\* io.ReadFull at the end of the input: io.EOF when not a byte was read,
\* which ends serve without an error, ErrUnexpectedEOF otherwise.
ReadEof ==
    /\ spc \in {"header", "body"} /\ Len(buf) < want /\ toServer = <<>> /\ ~open
    /\ ServerExit(IF buf = <<>> THEN 0 ELSE 1)
    /\ UNCHANGED <<client, toServer, toClient>>

\* Faulty variant of HeaderDone: a payload of the largest size is refused.
HeaderDoneEarly ==
    /\ spc = "header" /\ Len(buf) = want
    /\ IF be32(buf) >= Limit THEN ServerExit(1)
       ELSE /\ spc' = "body" /\ want' = be32(buf) /\ buf' = <<>>
            /\ UNCHANGED <<resp, exited>>
    /\ UNCHANGED <<client, toServer, toClient>>

HeaderDone ==
    /\ spc = "header" /\ Len(buf) = want
    /\ IF be32(buf) > Limit THEN ServerExit(1)
       ELSE /\ spc' = "body" /\ want' = be32(buf) /\ buf' = <<>>
            /\ UNCHANGED <<resp, exited>>
    /\ UNCHANGED <<client, toServer, toClient>>

Handle ==
    /\ spc = "body" /\ Len(buf) = want
    /\ spc' = "write"
    /\ resp' = Framed(handle(buf))
    /\ UNCHANGED <<client, toServer, toClient, buf, want, exited>>

WriteByte ==
    /\ spc = "write" /\ resp # <<>> /\ Len(toClient) < PipeCap
    /\ toClient' = Append(toClient, Head(resp))
    /\ resp' = Tail(resp)
    /\ UNCHANGED <<client, toServer, spc, buf, want, exited>>

NextFrame ==
    /\ spc = "write" /\ resp = <<>>
    /\ spc' = "header" /\ want' = Width /\ buf' = <<>>
    /\ UNCHANGED <<client, toServer, toClient, resp, exited>>

Killed ==
    /\ Alive
    /\ ServerExit(9)
    /\ UNCHANGED <<client, toServer, toClient>>

Server == ReadByte \/ ReadEof \/ HeaderDone \/ Handle \/ WriteByte \/ NextFrame

-----------------------------------------------------------------------------
(* The client.                                                             *)

\* A string at off, or <<"cut">>.  Strings are taken to be
\* UTF-8: the error of String::from_utf8, which would make an error of an
\* answer, is left out.
read_str(body, off) ==
    LET l == be32(At(body, off)) IN
    IF off + Width > Len(body) THEN <<"cut">>
    ELSE IF off + Width + l > Len(body) THEN <<"cut">>
    ELSE <<"str", SubSeq(body, off + Width + 1, off + Width + l)>>

\* The loop over the diagnostics: after one more of them, the offset and what
\* was read, or the end of it.
ParseDiag(body, p) ==
    LET code == read_str(body, p.off)
        off  == p.off + Width + Len(code[2])
        msg  == read_str(body, off + 2 * Width)
    IN  IF ~p.ok \/ code[1] = "cut" \/ off + 2 * Width > Len(body) \/ msg[1] = "cut"
        THEN [p EXCEPT !.ok = FALSE]
        ELSE [ok |-> TRUE, off |-> off + 3 * Width + Len(msg[2]),
              diags |-> Append(p.diags, <<code[2], le32(At(body, off)), le32(At(body, off + Width)), msg[2]>>)]
ParseDiags(body, count) ==
    LET after[k \in 0..count] == IF k = 0 THEN [ok |-> TRUE, off |-> 1 + Width, diags |-> <<>>]
                                 ELSE ParseDiag(body, after[k - 1])
    IN  IF after[count].ok THEN <<"ok", after[count].diags>> ELSE <<"err">>

\* The slice with the count is taken without a look at the length.
parse_response(body) ==
    CASE body = <<>> -> <<"err">>
      [] body # <<>> /\ body[1] = 1 -> <<"server error">>
      [] body # <<>> /\ body[1] \notin {0, 1} -> <<"err">>
      [] OTHER -> IF Len(body) < 1 + Width THEN <<"panic">>
                  ELSE ParseDiags(body, be32(At(body, 1)))

Return(r) == cpc' = "returned" /\ result' = r

Call ==
    /\ cpc \in {"idle", "returned"}
    /\ requests < (IF mode = "once" THEN 1 ELSE MaxRequests)
    /\ requests' = requests + 1
    /\ \E s \in DOMAIN CheckSource : cur' = s
    /\ cpc' = "write" /\ wrote' = 0 /\ got' = <<>> /\ result' = <<"none">>
    /\ UNCHANGED <<mode, open, toServer, toClient, server>>

\* write_all: EPIPE once the process is gone, otherwise it waits for room.
Write ==
    /\ cpc = "write" /\ wrote < Len(Request)
    /\ IF Alive
       THEN /\ Len(toServer) < PipeCap
            /\ toServer' = Append(toServer, Request[wrote + 1])
            /\ wrote' = wrote + 1
            /\ UNCHANGED <<cpc, result>>
       ELSE Return(<<"err">>) /\ UNCHANGED <<toServer, wrote>>
    /\ UNCHANGED <<mode, requests, cur, got, open, toClient, server>>

\* Faulty variant of Written: check_src keeps its end of stdin.
WrittenKept ==
    /\ cpc = "write" /\ wrote = Len(Request)
    /\ cpc' = "read"
    /\ UNCHANGED <<mode, requests, cur, wrote, got, result, open, toServer, toClient, server>>

\* check_src drops stdin, a session keeps it.
Written ==
    /\ cpc = "write" /\ wrote = Len(Request)
    /\ cpc' = "read"
    /\ open' = (mode = "session")
    /\ UNCHANGED <<mode, requests, cur, wrote, got, result, toServer, toClient, server>>

\* read_to_end, or read_exact of the header and then of the body.
Complete == mode = "session" /\ Len(got) >= Width /\ Len(got) = Width + be32(At(got, 0))
Read ==
    /\ cpc = "read" /\ toClient # <<>> /\ ~Complete
    /\ got' = Append(got, Head(toClient))
    /\ toClient' = Tail(toClient)
    /\ UNCHANGED <<mode, requests, cpc, cur, wrote, result, open, toServer, server>>

Answer ==
    /\ cpc = "read" /\ Complete
    /\ Return(parse_response(SubSeq(got, Width + 1, Len(got))))
    /\ UNCHANGED <<mode, requests, cur, wrote, got, open, toServer, toClient, server>>

\* The end of the response: an error for read_exact, the end of read_to_end.
Eof ==
    /\ cpc = "read" /\ ~Complete /\ toClient = <<>> /\ ~Alive
    /\ IF mode = "session" THEN Return(<<"err">>) ELSE cpc' = "wait" /\ UNCHANGED result
    /\ UNCHANGED <<mode, requests, cur, wrote, got, open, toServer, toClient, server>>

\* Faulty variant of Reap: the announced length is not compared with the
\* number of bytes that came.
ReapUnchecked ==
    /\ cpc = "wait"
    /\ Return(IF Len(got) < Width THEN <<"err">>
              ELSE parse_response(SubSeq(got, Width + 1, Len(got))))
    /\ UNCHANGED <<mode, requests, cur, wrote, got, open, toServer, toClient, server>>

Reap ==
    /\ cpc = "wait"
    /\ LET n == be32(At(got, 0)) IN
       Return(CASE exited # 0 -> <<"err">>
                [] exited = 0 /\ Len(got) < Width -> <<"err">>
                [] exited = 0 /\ Len(got) >= Width /\ Len(got) < Width + n -> <<"err">>
                [] OTHER -> parse_response(SubSeq(got, Width + 1, Width + n)))
    /\ UNCHANGED <<mode, requests, cur, wrote, got, open, toServer, toClient, server>>

Client == Write \/ Written \/ Read \/ Answer \/ Eof \/ Reap

-----------------------------------------------------------------------------
FramesInit ==
    /\ mode \in {"once", "session"}
    /\ requests = 0 /\ cpc = "idle" /\ cur = <<>> /\ wrote = 0 /\ got = <<>>
    /\ result = <<"none">> /\ open = TRUE
    /\ toServer = <<>> /\ toClient = <<>>
    /\ spc = "header" /\ buf = <<>> /\ want = Width /\ resp = <<>> /\ exited = 0

\* Nothing is called any more and nothing runs.
Finished ==
    /\ cpc = "returned" /\ requests = (IF mode = "once" THEN 1 ELSE MaxRequests)
    /\ UNCHANGED frames

FramesNext == Call \/ Client \/ Server \/ Killed \/ Finished
\* Both processes run; nobody need ever call, and nothing need be killed.
Fairness == WF_frames(Client) /\ WF_frames(Server)
FramesSpec == FramesInit /\ [][FramesNext]_frames /\ Fairness

\* A call returns the diagnostics of its own source or it reports an error:
\* fly-checkd may die after any byte of a request or of a response, and no
\* truncated, stale or half-decoded answer is taken for one, and
\* parse_response does not index outside the body.
AnswerExact ==
    cpc = "returned" => result \in {<<"ok", CheckSource[cur]>>, <<"err">>, <<"server error">>}

\* A call fails only when it must: the process was killed, or the request is
\* larger than readFrame accepts.
ErrorHasCause ==
    (cpc = "returned" /\ result[1] # "ok") =>
        exited = 9 \/ Len(Request) - Width > Limit \/ (mode = "session" /\ exited = 1)

\* No call waits for ever: neither for room in a pipe that the other side
\* does not read, nor for the end of a response that does not come.
CallReturns == cpc = "write" ~> cpc = "returned"
=============================================================================
