-------------------------------- MODULE Lexer --------------------------------
(***************************************************************************)
(* The indentation lexer of Fly, which exists twice with the same control: *)
(* internal/lexer/lexer.go (fly-checkd, the compiler) and                  *)
(* src/lexer/lexer.rs (fly fmt, fly analyze).                              *)
(*                                                                         *)
(* The source text is revealed one character class at a time: c is the     *)
(* class of src[off], "end" when off is past the last byte.  A step is one *)
(* iteration of the loop of Next or of lineStart; tok is the token the     *)
(* last finished call of Next returned.  Sources have any length.          *)
(***************************************************************************)
EXTENDS Integers, Sequences

CONSTANTS
    MaxCol,     \* bound: the widest indentation of a line
    MaxDepth    \* bound: the deepest nesting of brackets

ASSUME BoundsAssumption == MaxCol \in Nat \ {0} /\ MaxDepth \in Nat \ {0}

\* What the two loops tell apart: "cont" is a backslash before a newline,
\* "quote" the start of a string with its prefix, "word" the start of a name,
\* "op" of an operator, "bad" a byte no token starts with.
Chars == {"sp", "tab", "cr", "nl", "hash", "cont", "open", "close",
          "quote", "digit", "word", "op", "bad"}

Layout == {"none", "NEWLINE", "INDENT", "DEDENT"}

VARIABLES
    c,            \* class of the current character
    n,            \* spaces counted on the line being started
    depth,        \* brackets open
    indents,      \* stack of the widths of the open blocks
    atLineStart,
    lineTok,      \* the current line has a token
    pending,      \* DEDENTs queued (an INDENT never waits in the queue)
    err,          \* errorf recorded a diagnostic
    tok,          \* the token returned last
    opened        \* history: INDENTs returned minus DEDENTs returned

lexing == <<c, n, depth, indents, atLineStart, lineTok, pending, err, tok, opened>>

New ==
    /\ c \in Chars \cup {"end"}
    /\ n = 0 /\ depth = 0 /\ indents = <<0>>
    /\ atLineStart = TRUE /\ lineTok = FALSE
    /\ pending = 0 /\ err = FALSE
    /\ tok = "none" /\ opened = 0

\* The next character is any that keeps the two bounds.
advance ==
    /\ c' \in Chars \cup {"end"}
    /\ c' = "sp" /\ atLineStart' => n' < MaxCol
    /\ c' = "open" => depth' < MaxDepth

\* skipLine stops in front of the newline.
skipLine == c' \in {"nl", "end"}

Returns(t) ==
    /\ tok' = t
    /\ opened' = opened + (IF t = "INDENT" THEN 1 ELSE IF t = "DEDENT" THEN -1 ELSE 0)

Silent == UNCHANGED <<tok, opened>>

-----------------------------------------------------------------------------
\* The entry of Next: nothing but EOF after an error, queued tokens first.

AfterError ==
    /\ err
    /\ Returns("EOF")
    /\ UNCHANGED <<c, n, depth, indents, atLineStart, lineTok, pending, err>>

\* Faulty variant of TakePending: the queue is not looked at.
TakePendingBlind ==
    /\ ~err
    /\ pending' = pending - 1
    /\ Returns("DEDENT")
    /\ UNCHANGED <<c, n, depth, indents, atLineStart, lineTok, err>>

TakePending ==
    /\ ~err /\ pending > 0
    /\ pending' = pending - 1
    /\ Returns("DEDENT")
    /\ UNCHANGED <<c, n, depth, indents, atLineStart, lineTok, err>>

\* Faulty variant of CloseAll: the DEDENT returned stays in the queue.
CloseAllTwice ==
    /\ indents' = SubSeq(indents, 1, 1)
    /\ IF Len(indents) > 1
         THEN pending' = Len(indents) - 1 /\ Returns("DEDENT")
         ELSE pending' = 0 /\ Returns("EOF")

\* Both ends of file: every block is closed by a DEDENT, the first of which
\* is returned at once; EOF when none is open.
CloseAll ==
    /\ indents' = SubSeq(indents, 1, 1)
    /\ IF Len(indents) > 1
         THEN pending' = Len(indents) - 2 /\ Returns("DEDENT")
         ELSE pending' = 0 /\ Returns("EOF")

-----------------------------------------------------------------------------
\* lineStart: measure the indentation, skipping lines without content.

Starting == ~err /\ pending = 0 /\ atLineStart

CountSpace ==
    /\ Starting /\ c = "sp"
    /\ n' = n + 1
    /\ UNCHANGED <<depth, indents, atLineStart, lineTok, pending, err>>
    /\ Silent
    /\ advance

TabIndent ==
    /\ Starting /\ c = "tab"
    /\ err' = TRUE /\ atLineStart' = FALSE
    /\ Returns("ILLEGAL")
    /\ UNCHANGED <<c, n, depth, indents, lineTok, pending>>

LineAtEnd ==
    /\ Starting /\ c = "end"
    /\ atLineStart' = FALSE /\ n' = 0
    /\ CloseAll
    /\ UNCHANGED <<c, depth, lineTok, err>>

\* An empty line, a comment line, a lone continuation: measure afresh.
SkipEmptyLine ==
    /\ Starting /\ c \in {"nl", "hash", "cont"}
    /\ n' = 0
    /\ UNCHANGED <<depth, indents, atLineStart, lineTok, pending, err>>
    /\ Silent
    /\ IF c = "hash" THEN skipLine ELSE advance

\* Blocks that stay open when a line of width n starts: the loop pops from
\* the top of the stack while the top is wider than n.
Kept ==
    CHOOSE k \in 1..Len(indents) :
        /\ indents[k] <= n
        /\ \A j \in (k + 1)..Len(indents) : indents[j] > n

\* Faulty variant of Resolve: a line as wide as its block opens another.
ResolvePushes ==
    /\ Starting /\ c \notin {"sp", "tab", "nl", "hash", "cont", "end"}
    /\ n >= indents[Len(indents)]
    /\ atLineStart' = FALSE /\ n' = 0
    /\ indents' = Append(indents, n)
    /\ Returns("INDENT")
    /\ UNCHANGED <<c, depth, lineTok, pending, err>>

Resolve ==
    LET top == indents[Len(indents)] IN
    /\ Starting /\ c \notin {"sp", "tab", "nl", "hash", "cont", "end"}
    /\ atLineStart' = FALSE /\ n' = 0
    /\ \/ /\ n = top
          /\ UNCHANGED <<indents, pending, err>> /\ Silent
       \/ /\ n > top
          /\ indents' = Append(indents, n)
          /\ Returns("INDENT")
          /\ UNCHANGED <<pending, err>>
       \/ /\ n < top
          /\ indents' = SubSeq(indents, 1, Kept)
          /\ IF indents[Kept] = n
               THEN /\ pending' = Len(indents) - Kept - 1
                    /\ Returns("DEDENT") /\ UNCHANGED err
               ELSE /\ pending' = Len(indents) - Kept
                    /\ err' = TRUE /\ Returns("ILLEGAL")
    /\ UNCHANGED <<c, depth, lineTok>>

-----------------------------------------------------------------------------
\* The loop of Next, inside a line.

InLine == ~err /\ pending = 0 /\ ~atLineStart

SkipSpace ==
    /\ InLine /\ c \in {"sp", "cr", "tab", "cont", "hash"}
    /\ UNCHANGED <<n, depth, indents, atLineStart, lineTok, pending, err>>
    /\ Silent
    /\ IF c = "hash" THEN skipLine ELSE advance

\* Faulty variant of NewLine: brackets do not join lines.
NewLineFlat ==
    /\ InLine /\ c = "nl"
    /\ UNCHANGED <<n, depth, indents, pending, err>>
    /\ atLineStart' = TRUE /\ lineTok' = FALSE
    /\ IF lineTok THEN Returns("NEWLINE") ELSE Silent
    /\ advance

\* Faulty variant of NewLine: a line without a token has a NEWLINE too.
NewLineAlways ==
    /\ InLine /\ c = "nl"
    /\ UNCHANGED <<n, depth, indents, pending, err>>
    /\ IF depth > 0
         THEN UNCHANGED <<atLineStart, lineTok>> /\ Silent
         ELSE /\ atLineStart' = TRUE /\ lineTok' = FALSE
              /\ Returns("NEWLINE")
    /\ advance

NewLine ==
    /\ InLine /\ c = "nl"
    /\ UNCHANGED <<n, depth, indents, pending, err>>
    /\ IF depth > 0
         THEN UNCHANGED <<atLineStart, lineTok>> /\ Silent
         ELSE /\ atLineStart' = TRUE /\ lineTok' = FALSE
              /\ IF lineTok THEN Returns("NEWLINE") ELSE Silent
    /\ advance

\* Faulty variant of AtEnd: an unclosed bracket goes unnoticed.
AtEndLenient ==
    /\ InLine /\ c = "end"
    /\ IF lineTok
         THEN /\ lineTok' = FALSE /\ Returns("NEWLINE")
              /\ UNCHANGED <<indents, pending>>
         ELSE CloseAll /\ UNCHANGED lineTok
    /\ UNCHANGED <<c, n, depth, atLineStart, err>>

\* Faulty variant of AtEnd: lineTok is not reset.
AtEndRepeats ==
    /\ InLine /\ c = "end"
    /\ IF lineTok
         THEN Returns("NEWLINE") /\ UNCHANGED <<indents, pending, err>>
         ELSE err' = (depth > 0) /\ CloseAll
    /\ UNCHANGED <<c, n, depth, atLineStart, lineTok>>

AtEnd ==
    /\ InLine /\ c = "end"
    /\ IF lineTok
         THEN /\ lineTok' = FALSE /\ Returns("NEWLINE")
              /\ UNCHANGED <<indents, pending, err>>
         ELSE /\ err' = (depth > 0) /\ CloseAll /\ UNCHANGED lineTok
    /\ UNCHANGED <<c, n, depth, atLineStart>>

\* lexToken of a name or a keyword; it ends at the first other character.
ScanWord ==
    /\ InLine /\ c = "word"
    /\ lineTok' = TRUE /\ Returns("TOKEN")
    /\ UNCHANGED <<n, depth, indents, atLineStart, pending, err>>
    /\ advance /\ c' \notin {"word", "digit"}

\* An operator of one to three characters; an exclamation mark alone is an
\* error and is not consumed.
ScanOp ==
    /\ InLine /\ c = "op"
    /\ UNCHANGED <<n, depth, indents, atLineStart, pending>>
    /\ \/ lineTok' = TRUE /\ Returns("TOKEN") /\ UNCHANGED err /\ advance
       \/ UNCHANGED <<c, lineTok>> /\ Returns("ILLEGAL") /\ err' = TRUE

\* A string, which may span lines when it is triple-quoted: closed, or cut by
\* a newline or by the end of the source.
ScanString ==
    /\ InLine /\ c = "quote"
    /\ UNCHANGED <<n, depth, indents, atLineStart, pending>>
    /\ \/ lineTok' = TRUE /\ Returns("TOKEN") /\ UNCHANGED err /\ advance
       \/ UNCHANGED lineTok /\ Returns("ILLEGAL") /\ err' = TRUE /\ skipLine

\* A number: well formed, or without exponent digits or run into a name.
ScanNumber ==
    /\ InLine /\ c = "digit"
    /\ UNCHANGED <<n, depth, indents, atLineStart, pending>>
    /\ advance
    /\ \/ lineTok' = TRUE /\ Returns("TOKEN") /\ UNCHANGED err
       \/ UNCHANGED lineTok /\ Returns("ILLEGAL") /\ err' = TRUE

\* Brackets keep the nesting; one too many is an error that still returns
\* its token.
ScanBracket ==
    /\ InLine /\ c \in {"open", "close"}
    /\ depth' = IF c = "open" THEN depth + 1 ELSE depth - 1
    /\ err' = (depth' < 0)
    /\ lineTok' = TRUE /\ Returns("TOKEN")
    /\ UNCHANGED <<n, indents, atLineStart, pending>>
    /\ advance

\* scanOp's last case does not consume the byte.
ScanBad ==
    /\ InLine /\ c = "bad"
    /\ err' = TRUE /\ Returns("ILLEGAL")
    /\ UNCHANGED <<c, n, depth, indents, atLineStart, lineTok, pending>>

LexNext ==
    \/ AfterError \/ TakePending
    \/ CountSpace \/ TabIndent \/ LineAtEnd \/ SkipEmptyLine \/ Resolve
    \/ SkipSpace \/ NewLine \/ AtEnd
    \/ ScanWord \/ ScanOp \/ ScanString \/ ScanNumber \/ ScanBracket \/ ScanBad

LexSpec == New /\ [][LexNext]_lexing

\* lex_all and the parser call Next until it returns EOF, so the lexer never
\* stops in the middle.
FairLexer == LexSpec /\ WF_lexing(LexNext)

-----------------------------------------------------------------------------
LexTypeOK ==
    /\ c \in Chars \cup {"end"}
    /\ n \in Nat /\ depth \in Int /\ indents \in Seq(Nat)
    /\ atLineStart \in BOOLEAN /\ lineTok \in BOOLEAN
    /\ pending \in Nat /\ err \in BOOLEAN
    /\ tok \in Layout \cup {"TOKEN", "EOF", "ILLEGAL"}
    /\ opened \in Int

\* The indentation stack keeps its sentinel 0 and rises strictly whatever
\* lines come, errors included.  lineStart reads the top of the stack after
\* popping it (indents[len-1], last().unwrap()): an emptied stack would be a
\* panic, and a repeated width a block that no DEDENT tells apart.
StackSound ==
    /\ Len(indents) >= 1 /\ indents[1] = 0
    /\ \A i, j \in 1..Len(indents) : i < j => indents[i] < indents[j]

\* Until an error, the blocks the parser has seen opened and not closed,
\* less the DEDENTs still queued, are those on the lexer's stack.
Balanced == ~err => opened - pending = Len(indents) - 1

\* Inside brackets the parser sees no NEWLINE, INDENT or DEDENT, however many
\* lines, comments and blank lines the bracket spans; only a source that ends
\* inside a bracket yields a NEWLINE there.
BracketsJoinLines == depth > 0 /\ ~err => tok = "TOKEN" \/ c = "end"

\* EOF without an error means that the whole structure is closed: no bracket,
\* no block, no queued DEDENT, no line without its NEWLINE.
EofIsClosed ==
    tok = "EOF" /\ ~err =>
        c = "end" /\ depth = 0 /\ opened = 0 /\ pending = 0 /\ ~lineTok

\* Every finite source has a finite token stream: once the text is used up,
\* the calls of Next come to EOF and stay there.  The loops of lex_all and
\* ParseModule end on EOF only.
EofReached == c = "end" ~> [](tok = "EOF")

\* The lexer hands the parser a stream of TokenStream.
Stream == INSTANCE TokenStream WITH open <- opened, failed <- err
StreamSpec == Stream!StreamSpec
=============================================================================
