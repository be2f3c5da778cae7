----------------------------- MODULE HttpClient -----------------------------
(***************************************************************************)
(* HttpClient::get of src/http.rs: a request over TLS, straight, through   *)
(* a SOCKS5 proxy or through an HTTP CONNECT tunnel, a response read to    *)
(* the end of the stream and parsed, redirects followed.  Every peer may   *)
(* refuse, answer nonsense, or stop after any unit it sends.  A byte of    *)
(* the SOCKS5 exchange is a number; a response is its head, then units of  *)
(* data, chunk sizes and line ends.                                        *)
(***************************************************************************)
EXTENDS Integers, Sequences, SequencesExt

CONSTANTS
    Site,      \* what the servers hold: a function from URLs to pages
    Starts     \* the URLs that are asked for

\* A URL is a host and the segments of its path; all are https, the ones
\* asked for too (parse_url panics on any other).  A page: its status, its
\* data in chunks, how its length is told ("length", "chunked" or "eof"), its
\* Location (form and, for "https", a URL, else segments) and, for a redirect,
\* the URL its server means.
Url(h, p)    == [host |-> h, path |-> p]
Body(page)   == FlattenSeq(page.chunks)
Redirects(page) == page.status \in 300..399
Follows(page)   == Redirects(page) /\ page.loc.form \notin {"none", "http"}

\* A server writes a Location that means the URL it redirects to: a URL, a
\* path of its host, or what replaces the last segment of the path asked for.
Means(u, loc, to) ==
    \/ loc.form = "https" /\ to = loc.url
    \/ /\ loc.form = "path"
       /\ to = Url(u.host, to.path) /\ to.path = loc.segments
    \/ /\ loc.form = "rel"
       /\ to = Url(u.host, to.path) /\ Len(to.path) = Len(u.path) - 1 + Len(loc.segments)
       /\ \A i \in DOMAIN to.path :
             to.path[i] = IF i < Len(u.path) THEN u.path[i] ELSE loc.segments[i - (Len(u.path) - 1)]

\* What is served: pages of any length, and redirects to pages.  A chunk of
\* no data would be the end of its body.
ASSUME SiteAssumption ==
    /\ Starts \subseteq DOMAIN Site
    /\ \A u \in DOMAIN Site :
          /\ u.path \in Seq(STRING) /\ u.path # <<>>
          /\ Site[u].framing \in {"length", "chunked", "eof"}
          /\ Site[u].chunks \in Seq(Seq(Nat)) /\ <<>> \notin {Site[u].chunks[i] : i \in DOMAIN Site[u].chunks}
          /\ Site[u].loc.segments \in Seq(STRING)
          /\ Follows(Site[u]) => /\ Site[u].to \in DOMAIN Site
                                 /\ Means(u, Site[u].loc, Site[u].to)

VARIABLES
    proxy,     \* "none", "socks", "socksuser", "noport" (of SOCKS5) or "connect"
    first,     \* the URL asked for
    hpc,       \* where get is
    cur,       \* the URL of this hop
    hops,      \* hops begun
    inbuf,     \* what the proxy has sent and is not taken yet
    out,       \* "none", "ok", "err" or "panic"
    body,      \* of the response, when out is "ok"
    cause      \* history: "none", "peer" (a peer or the network failed) or
               \* "domain" (a SOCKS5 proxy named its end of the connection)

http == <<proxy, first, hpc, cur, hops, inbuf, out, body, cause>>

Proxies == {"none", "socks", "socksuser", "noport", "connect"}

HttpInit ==
    /\ proxy \in Proxies /\ first \in Starts /\ cur = first
    /\ hpc = "hop" /\ hops = 0 /\ inbuf = <<>>
    /\ out = "none" /\ body = <<>> /\ cause = "none"

At(l)     == hpc' = l
Return(o) == hpc' = "done" /\ out' = o
Err       == Return("err")
Blame(ok) == cause' = IF ok \/ cause # "none" THEN cause ELSE "peer"

\* The loop of get: at most ten hops.
Hop ==
    /\ hpc = "hop"
    /\ \/ hops = 10 /\ Err /\ UNCHANGED <<hops, inbuf>>
       \/ hops < 10 /\ hops' = hops + 1 /\ inbuf' = <<>> /\ At("connect") /\ UNCHANGED out
    /\ UNCHANGED <<proxy, first, cur, body, cause>>

\* tcp_connect: the connection to the server or to the proxy.
tcp_connect ==
    /\ hpc = "connect"
    /\ \/ proxy = "noport" /\ Err /\ UNCHANGED cause
       \/ proxy # "noport" /\ Err /\ Blame(FALSE)
       \/ /\ proxy # "noport"
          /\ At(CASE proxy = "none" -> "tls" [] proxy = "connect" -> "tunnel" [] OTHER -> "greet")
          /\ UNCHANGED <<out, cause>>
    /\ UNCHANGED <<proxy, first, cur, hops, inbuf, body>>

\* What a read from a CONNECT proxy may return: nothing (it closed), its
\* status line, the rest of its head with the empty line, or all of it.
EndOfHead == 0
Parts == {<<>>} \cup {<<s>> : s \in {200, 407}} \cup {<<s, EndOfHead>> : s \in {200, 407}}
NextParts == IF inbuf = <<>> THEN Parts ELSE {<<>>, <<EndOfHead>>}

\* CONNECT: read until the empty line; only status 200 opens the tunnel.
ConnectRead(part) ==
    /\ hpc = "tunnel"
    /\ LET resp  == inbuf \o part
           whole == part # <<>> /\ Last(part) = EndOfHead IN
       /\ inbuf' = IF whole THEN <<>> ELSE resp
       /\ Blame(part # <<>> /\ resp[1] = 200)
       /\ IF part = <<>> THEN Err
          ELSE IF ~whole THEN At("tunnel") /\ UNCHANGED out
          ELSE IF resp[1] # 200 THEN Err
          ELSE At("tls") /\ UNCHANGED out
    /\ UNCHANGED <<proxy, first, cur, hops, body>>

\* socks5_connect, the methods: the password method is taken even if it was
\* not offered.
SocksGreet(r) ==
    /\ hpc = "greet"
    /\ Blame(r = <<5, 0>> \/ (proxy = "socksuser" /\ r = <<5, 2>>))
    /\ IF Len(r) < 2 \/ r[1] # 5 \/ r[2] \notin {0, 2} THEN Err
       ELSE At(IF r[2] = 2 THEN "auth" ELSE "request") /\ UNCHANGED out
    /\ UNCHANGED <<proxy, first, cur, hops, inbuf, body>>

\* The answer to the name and password; its version is not looked at.
SocksAuth(r) ==
    /\ hpc = "auth"
    /\ Blame(r = <<1, 0>>)
    /\ IF Len(r) < 2 \/ r[2] # 0 THEN Err ELSE At("request") /\ UNCHANGED out
    /\ UNCHANGED <<proxy, first, cur, hops, inbuf, body>>

\* Faulty variant of Skip: the port after an IPv6 address is forgotten.
SkipNoPort(atyp) == IF atyp = 1 THEN 4 + 2 ELSE IF atyp = 4 THEN 16 ELSE 1 + 2

\* The address and port after the head of the reply.
Skip(atyp) == IF atyp = 1 THEN 4 + 2 ELSE IF atyp = 4 THEN 16 + 2 ELSE 1 + 2

\* Replies of a SOCKS5 proxy: IPv4, IPv6, and a name of two bytes.
Bytes(n) == [i \in 1..n |-> 7]
Address  == [t \in {1, 3, 4} |-> IF t = 1 THEN Bytes(4) ELSE IF t = 4 THEN Bytes(16) ELSE <<2>> \o Bytes(2)]
SocksReply(v, rep, t) == <<v, rep, 0, t>> \o Address[t] \o Bytes(2)

\* The reply to the request for a connection, after n of its bytes the end.
SocksRequest(v, rep, t, n) ==
    /\ hpc = "request"
    /\ LET r == SubSeq(SocksReply(v, rep, t), 1, n) IN
       /\ cause' = IF cause # "none" THEN cause
                   ELSE IF v # 5 \/ rep # 0 \/ n < Len(SocksReply(v, rep, t)) THEN "peer"
                   ELSE IF t = 3 THEN "domain" ELSE "none"
       /\ IF n < 4 \/ v # 5 \/ rep # 0 \/ n < 4 + Skip(t) THEN Err /\ UNCHANGED inbuf
          ELSE inbuf' = SubSeq(r, 5 + Skip(t), n) /\ At("tls") /\ UNCHANGED out
    /\ UNCHANGED <<proxy, first, cur, hops, body>>

\* tls_stream and the first write: bytes of the proxy that are still in the
\* stream are taken for the server's handshake.
tls_stream ==
    /\ hpc = "tls"
    /\ \/ inbuf # <<>> /\ Err /\ UNCHANGED cause
       \/ inbuf = <<>> /\ Err /\ Blame(FALSE)
       \/ inbuf = <<>> /\ At("recv") /\ UNCHANGED <<out, cause>>
    /\ UNCHANGED <<proxy, first, cur, hops, inbuf, body>>

\* A response as it is sent.
Unit(kind, v) == <<kind, v>>
Units(c)      == [i \in DOMAIN c |-> Unit("data", c[i])]
Chunk(c)      == <<Unit("size", Len(c))>> \o Units(c) \o <<Unit("crlf", 0)>>
Chunked(cs)   == FlattenSeq([i \in DOMAIN cs |-> Chunk(cs[i])]) \o Chunk(<<>>)
Wire(page)    ==
    <<Unit("head", page)>> \o (IF page.framing = "chunked" THEN Chunked(page.chunks) ELSE Units(Body(page)))

Parsed(o, s) == [out |-> o, body |-> s]
Values(s)    == [i \in DOMAIN s |-> s[i][2]]

\* A turn of the loop over the chunks; their size lines are written without
\* extensions, which the parser cannot read.  A cut size line or data is an error;
\* the slice after the data of a chunk whose line end is missing is out of
\* range.
UnchunkStep(s) ==
    IF s.out # "more" THEN s
    ELSE IF s.rest = <<>> THEN [s EXCEPT !.out = "err"]
    ELSE LET size == s.rest[1][2] IN
         IF size = 0 THEN [s EXCEPT !.out = "ok"]
         ELSE IF Len(s.rest) < 1 + size THEN [s EXCEPT !.out = "err"]
         ELSE IF Len(s.rest) < 2 + size THEN [s EXCEPT !.out = "panic"]
         ELSE [s EXCEPT !.rest = SubSeq(s.rest, 3 + size, Len(s.rest)),
                        !.body = s.body \o SubSeq(s.rest, 2, 1 + size)]

\* The loop: every turn but the last takes a unit or more.
Unchunk(raw) ==
    LET after[i \in 0..(Len(raw) + 1)] ==
            IF i = 0 THEN [rest |-> raw, body |-> <<>>, out |-> "more"] ELSE UnchunkStep(after[i - 1])
    IN  Parsed(after[Len(raw) + 1].out, after[Len(raw) + 1].body)

\* Faulty variant of parse_http_response: a short body is taken as it is.
ParseShort(raw) ==
    IF raw = <<>> THEN Parsed("err", <<>>)
    ELSE IF raw[1][2].framing = "chunked" THEN Unchunk(Tail(raw))
    ELSE Parsed("ok", Tail(raw))

\* Content-Length, else chunks, else everything up to the end.
parse_http_response(raw) ==
    IF raw = <<>> THEN Parsed("err", <<>>)
    ELSE LET page == raw[1][2]
             rest == Tail(raw) IN
         IF page.framing = "length"
            THEN IF Len(rest) < Len(Body(page)) THEN Parsed("err", <<>>)
                 ELSE Parsed("ok", SubSeq(rest, 1, Len(Body(page))))
         ELSE IF page.framing = "chunked" THEN Unchunk(rest)
         ELSE Parsed("ok", rest)

\* Location: a URL, a path of this host, or a path beside this one.
resolve_redirect(u, loc) ==
    IF loc.form = "https" THEN loc.url
    ELSE IF loc.form = "path" THEN Url(u.host, loc.segments)
    ELSE Url(u.host, Front(u.path) \o loc.segments)

\* The response, cut after n units: the end of the stream, or an error of a
\* read (the connection is reset, or nothing comes for 300 seconds).
Receive(n, closed) ==
    /\ hpc = "recv"
    /\ LET page == Site[cur]
           resp == parse_http_response(SubSeq(Wire(page), 1, n)) IN
       /\ Blame(n = Len(Wire(page)) /\ closed)
       /\ IF ~closed THEN Err /\ UNCHANGED <<cur, body>>
          ELSE IF resp.out # "ok" THEN Return(resp.out) /\ UNCHANGED <<cur, body>>
          ELSE IF ~Redirects(page) THEN Return("ok") /\ body' = Values(resp.body) /\ UNCHANGED cur
          ELSE IF ~Follows(page) THEN Err /\ UNCHANGED <<cur, body>>
          ELSE At("hop") /\ cur' = resolve_redirect(cur, page.loc) /\ UNCHANGED <<out, body>>
    /\ UNCHANGED <<proxy, first, hops, inbuf>>

Replies     == {<<5, 0>>, <<5, 2>>, <<5, 255>>, <<5, 9>>, <<4, 0>>, <<5>>}
AuthReplies == {<<1, 0>>, <<1, 1>>, <<1>>}

HttpNext ==
    \/ Hop \/ tcp_connect \/ tls_stream
    \/ \E part \in NextParts : ConnectRead(part)
    \/ \E r \in Replies : SocksGreet(r)
    \/ \E r \in AuthReplies : SocksAuth(r)
    \/ \E v \in {4, 5} : \E rep \in {0, 1} : \E t \in {1, 3, 4} :
          \E n \in 0..Len(SocksReply(v, rep, t)) : SocksRequest(v, rep, t, n)
    \/ hpc = "recv" /\ \E n \in 0..Len(Wire(Site[cur])) : \E closed \in BOOLEAN : Receive(n, closed)

HttpSpec == HttpInit /\ [][HttpNext]_http

----------------------------------------------------------------------------
(* Properties.                                                              *)

\* The redirects from u as their servers mean them: Trail(u)[i] is where i of
\* them lead, and where there is none to follow it stays.
Trail(u) ==
    LET at[i \in 0..9] ==
            IF i = 0 THEN u ELSE IF Follows(Site[at[i - 1]]) THEN Site[at[i - 1]].to ELSE at[i - 1]
    IN  at

\* The page at the end of at most nine redirects, if there is one.
Reach(u) == {page \in {Site[Trail(u)[9]]} : ~Redirects(page)}

\* get answers with the page the servers redirect to, and with all of it when
\* the length is told; of a body that ends with the stream, with what came.
ResponseExact ==
    out = "ok" => \E page \in Reach(first) :
                     IF page.framing = "eof" THEN IsPrefix(body, Body(page)) ELSE body = Body(page)

\* get fails or panics only if a peer or the network failed, the proxy has no
\* port or named its end (the name is not skipped), or there is no such page.
FailureHasCause ==
    out \in {"err", "panic"} => cause # "none" \/ proxy = "noport" \/ Reach(first) = {}
=============================================================================
