----------------------------- MODULE TokenStream -----------------------------
(***************************************************************************)
(* What the lexers promise the parser: a stream of tokens in which         *)
(* indentation is a bracket structure.  Layout tokens (INDENT, DEDENT) lie *)
(* between logical lines, NEWLINE ends a non-empty line, a DEDENT closes a *)
(* block an INDENT opened, and EOF comes when every block is closed.  Only *)
(* a lexical error ends the stream earlier.                                *)
(***************************************************************************)
EXTENDS Integers

VARIABLES
    tok,     \* the kind of the last token; "none" before the first
    open,    \* blocks open: INDENTs minus DEDENTs returned so far
    failed   \* a lexical error was recorded

streamVars == <<tok, open, failed>>

StreamInit == tok = "none" /\ open = 0 /\ failed = FALSE

BetweenLines == tok \in {"none", "NEWLINE", "INDENT", "DEDENT"}

\* A name, literal, operator or bracket; an unmatched bracket is an error.
Content ==
    /\ ~failed /\ tok # "EOF"
    /\ tok' = "TOKEN" /\ failed' \in BOOLEAN /\ UNCHANGED open

EndOfLine ==
    /\ ~failed /\ tok = "TOKEN"
    /\ tok' = "NEWLINE" /\ UNCHANGED <<open, failed>>

OpenBlock ==
    /\ ~failed /\ BetweenLines
    /\ tok' = "INDENT" /\ open' = open + 1 /\ UNCHANGED failed

CloseBlock ==
    /\ ~failed /\ BetweenLines /\ open > 0
    /\ tok' = "DEDENT" /\ open' = open - 1 /\ failed' \in BOOLEAN

Illegal ==
    /\ ~failed /\ tok # "EOF"
    /\ tok' = "ILLEGAL" /\ failed' = TRUE /\ UNCHANGED open

Eof ==
    /\ ~failed /\ ((BetweenLines /\ open = 0) \/ tok = "EOF")
    /\ tok' = "EOF" /\ failed' \in BOOLEAN /\ UNCHANGED open

\* After an error the stream is at its end, whatever is still open.
Cut == failed /\ tok' = "EOF" /\ UNCHANGED <<open, failed>>

StreamNext ==
    \/ Content \/ EndOfLine \/ OpenBlock \/ CloseBlock \/ Illegal \/ Eof \/ Cut

StreamSpec == StreamInit /\ [][StreamNext]_streamVars
=============================================================================
