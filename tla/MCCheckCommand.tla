--------------------------- MODULE MCCheckCommand ---------------------------
(* Three instances for TLC, in behaviours of their own: part "command" is   *)
(* CheckCommand with more files than permits, so that threads wait, are     *)
(* woken up and are overtaken; part "frames" is what check_one does with    *)
(* its fly-checkd, CheckdProtocol with pipes smaller than a frame and       *)
(* requests below, at and above the largest payload; part "tokens" is how   *)
(* fly-checkd reads the source it gets, Lexer with lines that open a block, *)
(* close up to five or fall between two, and brackets nested three deep.    *)
EXTENDS CheckCommand, CheckdProtocol, Lexer, TLC

VARIABLE part

MCPath == <<1>>
MCCheckSource ==
    <<>> :> <<>> @@ <<1, 2>> :> << << <<1>>, 6, 1, <<3>> >> >> @@ <<2, 2, 2, 2>> :> <<>>

allvars == <<part, vars, frames, lexing>>
InCommand(A) == part = "command" /\ A /\ UNCHANGED <<part, frames, lexing>>
InFrames(A)  == part = "frames" /\ A /\ UNCHANGED <<part, vars, lexing>>
InTokens(A)  == part = "tokens" /\ A /\ UNCHANGED <<part, vars, frames>>

MCInit == /\ part \in {"command", "frames", "tokens"} /\ Init /\ FramesInit /\ New
          /\ part # "frames" => mode = "once"
          /\ part # "tokens" => c = "nl"
MCNext == InCommand(Next) \/ InFrames(FramesNext) \/ InTokens(LexNext)
MCSpec ==
    /\ MCInit /\ [][MCNext]_allvars
    /\ WF_allvars(InCommand(Main)) /\ \A f \in Files : WF_allvars(InCommand(Thread(f)))
    /\ WF_allvars(InFrames(Client)) /\ WF_allvars(InFrames(Server))
    /\ WF_allvars(InTokens(LexNext))

\* Every run of fly check ends with its exit status.
CommandTerminates == part = "command" => Terminates
=============================================================================
