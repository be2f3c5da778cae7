---------------------------- MODULE MCLspServer ----------------------------
(* Instances of LspServer for TLC: two texts with different errors, or one  *)
(* with an error and one without.                                           *)
EXTENDS LspServer

CONSTANTS u1, bad1, bad2, good

MCDiagLists   == {"E1", "E2", "[]"}
MCCheckSource == [t \in Texts |-> IF t = bad1 THEN "E1" ELSE IF t = bad2 THEN "E2" ELSE "[]"]
AllKinds      == {"open", "change", "save", "close", "request", "shutdown", "exit", "eof"}
CloseKinds    == {"open", "change", "close"}
=============================================================================
