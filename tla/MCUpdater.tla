------------------------------ MODULE MCUpdater ------------------------------
(* Two instances for TLC, in behaviours of their own: part "update" is       *)
(* Updater, part "http" is the HttpClient it downloads with, on a small site *)
(* with every framing, every form of Location, nine redirects in a row (the  *)
(* last page is the tenth request), ten, and a cycle.                        *)
EXTENDS Updater, HttpClient

CONSTANTS p1, p2
VARIABLE part

\* The order of the tar command of .github/workflows/release.yml.
MCArchive == <<"fly", "fly-checkd", "fly-sandboxd">>

NoLoc == [form |-> "none", url |-> <<>>, segments |-> <<>>]
Page(s, f, c) == [status |-> s, framing |-> f, chunks |-> c, loc |-> NoLoc, to |-> <<>>]
Moved(form, url, segs, to) ==
    [status |-> 302, framing |-> "length", chunks |-> <<>>,
     loc |-> [form |-> form, url |-> url, segments |-> segs], to |-> to]

U(h, p)  == [host |-> h, path |-> p]
Names    == <<"0", "1", "2", "3", "4", "5", "6", "7", "8", "9", "10">>
Row(i)   == U("c", <<"r", Names[i + 1]>>)
Fixed ==
    { <<U("a", <<"v1", "api">>), Moved("rel", <<>>, <<"next">>, U("a", <<"v1", "next">>))>>,
      <<U("a", <<"v1", "next">>), Moved("path", <<>>, <<"root">>, U("a", <<"root">>))>>,
      <<U("a", <<"root">>), Moved("https", U("b", <<"x">>), <<>>, U("b", <<"x">>))>>,
      <<U("b", <<"x">>), Page(200, "chunked", << <<1, 2>>, <<3>> >>)>>,
      <<U("b", <<"len">>), Page(404, "length", << <<4, 5>> >>)>>,
      <<U("b", <<"eof">>), Page(200, "eof", << <<6, 7>> >>)>>,
      <<U("b", <<"plain">>), Moved("http", <<>>, <<>>, <<>>)>>,
      <<U("b", <<"304">>), Page(304, "eof", <<>>)>>,
      <<U("b", <<"loop">>), Moved("rel", <<>>, <<"loop">>, U("b", <<"loop">>))>>,
      <<Row(0), Page(200, "length", << <<8>> >>)>> }
Rows == {<<Row(i), Moved("rel", <<>>, <<Names[i]>>, Row(i - 1))>> : i \in 1..10}
Pages  == Fixed \cup Rows
MCSite == [u \in {e[1] : e \in Pages} |-> (CHOOSE e \in Pages : e[1] = u)[2]]
MCStarts == {U("a", <<"v1", "api">>), U("b", <<"len">>), U("b", <<"eof">>), U("b", <<"plain">>),
             U("b", <<"304">>), U("b", <<"loop">>), Row(9), Row(10)}

InUpdate(A) == part = "update" /\ A /\ UNCHANGED <<part, http>>
InHttp(A)   == part = "http" /\ A /\ UNCHANGED <<part, vars>>

MCInit == /\ part \in {"update", "http"} /\ Init /\ HttpInit
          /\ part = "update" => proxy = "none" /\ first = Row(9)
MCNext == InUpdate(Next) \/ InHttp(HttpNext)
MCSpec == MCInit /\ [][MCNext]_<<part, vars, http>>
=============================================================================
