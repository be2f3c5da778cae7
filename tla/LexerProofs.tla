----------------------------- MODULE LexerProofs -----------------------------
(***************************************************************************)
(* Theorems about the lexers, for sources of any length, indentation and   *)
(* nesting.                                                                *)
(***************************************************************************)
EXTENDS Lexer, WellFoundedInduction, TLAPS

\* What ties the fields of the lexer together while no error is recorded: a
\* line starts outside brackets and without a token, DEDENTs are queued only
\* between lines, and after EOF nothing is left to return.
Lines ==
    ~err =>
        /\ depth >= 0 /\ tok # "ILLEGAL"
        /\ lineTok <=> tok = "TOKEN"
        /\ atLineStart => depth = 0 /\ ~lineTok /\ pending = 0
        /\ pending > 0 => tok = "DEDENT" /\ depth = 0
        /\ tok = "EOF" => c = "end" /\ ~atLineStart /\ Len(indents) = 1
                          /\ depth = 0 /\ pending = 0

LexInv == LexTypeOK /\ StackSound /\ Balanced /\ BracketsJoinLines /\ Lines

\* The sentinel stops the popping loop: some block is always kept.
LEMMA KeptExists ==
    ASSUME LexTypeOK, StackSound
    PROVE  /\ Kept \in 1..Len(indents) /\ indents[Kept] <= n
           /\ \A j \in (Kept + 1)..Len(indents) : indents[j] > n
<1> DEFINE T == {d \in Nat : Len(indents) - d \in 1..Len(indents) /\ indents[Len(indents) - d] <= n}
           R == OpToRel(<, Nat)
<1>1. Len(indents) \in Nat /\ n \in Nat /\ \A i \in 1..Len(indents) : indents[i] \in Nat
  BY DEF LexTypeOK
<1>2. Len(indents) - 1 \in T
  BY <1>1 DEF StackSound
<1>3. T \subseteq Nat /\ T # {}
  BY <1>2
<1>4. PICK d \in T : \A e \in T : ~(<<e, d>> \in R)
  <2> HIDE DEF T, R
  <2>1. IsWellFoundedOn(R, Nat)
    BY NatLessThanWellFounded DEF R
  <2> QED BY <1>3, <2>1, WFMin
<1>5. \A e \in T : ~(e < d)
  BY <1>3, <1>4 DEF OpToRel
<1> DEFINE k == Len(indents) - d
<1>6. k \in 1..Len(indents) /\ indents[k] <= n
  OBVIOUS
<1>7. \A j \in (k + 1)..Len(indents) : indents[j] > n
  <2> SUFFICES ASSUME NEW j \in (k + 1)..Len(indents), ~(indents[j] > n) PROVE FALSE
      OBVIOUS
  <2>1. d \in Nat /\ j \in 1..Len(indents) /\ indents[j] <= n
    BY <1>1, <1>6
  <2>2. Len(indents) - j \in Nat /\ Len(indents) - (Len(indents) - j) = j
    BY <1>1, <2>1
  <2>3. Len(indents) - j \in T
    BY <2>1, <2>2
  <2>4. Len(indents) - j < d
    BY <1>1, <1>6, <2>1
  <2> QED BY <1>5, <2>3, <2>4
<1>8. \E i \in 1..Len(indents) : indents[i] <= n /\ \A j \in (i + 1)..Len(indents) : indents[j] > n
  BY <1>6, <1>7
<1> QED BY <1>8 DEF Kept

\* A new lexer has an empty structure.
LEMMA InitInv == New => LexInv
<1> SUFFICES ASSUME New PROVE LexInv
    OBVIOUS
<1>1. /\ c \in Chars \cup {"end"} /\ n = 0 /\ depth = 0 /\ indents = <<0>>
      /\ atLineStart = TRUE /\ lineTok = FALSE
      /\ pending = 0 /\ err = FALSE /\ tok = "none" /\ opened = 0
  BY DEF New
<1>2. indents \in Seq(Nat) /\ Len(indents) = 1 /\ indents[1] = 0
  BY <1>1
<1>3. LexTypeOK
  <2>1. atLineStart \in BOOLEAN /\ lineTok \in BOOLEAN /\ err \in BOOLEAN
    BY <1>1, Zenon
  <2>2. tok \in Layout \cup {"TOKEN", "EOF", "ILLEGAL"}
    BY <1>1 DEF Layout
  <2>3. n \in Nat /\ depth \in Int /\ pending \in Nat /\ opened \in Int
    BY <1>1
  <2> QED BY <1>1, <1>2, <2>1, <2>2, <2>3 DEF LexTypeOK
<1>4. StackSound
  BY <1>2 DEF StackSound
<1>5. Balanced /\ BracketsJoinLines /\ Lines
  BY <1>1, <1>2 DEF Balanced, BracketsJoinLines, Lines
<1> QED BY <1>3, <1>4, <1>5 DEF LexInv

\* The indentation stack after each action: unchanged, cut to a prefix, or
\* extended by a wider block.
Prefix(k) == k \in 1..Len(indents) /\ indents' = SubSeq(indents, 1, k)
Wider(w) == w > indents[Len(indents)] /\ indents' = Append(indents, w)

LEMMA StackStep ==
    ASSUME LexInv, [LexNext]_lexing
    PROVE  indents' = indents \/ (\E k \in Nat : Prefix(k)) \/ (\E w \in Nat : Wider(w))
<1>t. LexTypeOK /\ StackSound /\ n \in Nat /\ Len(indents) \in Nat /\ Len(indents) >= 1
  BY DEF LexInv, LexTypeOK, StackSound
<1>1. CASE CloseAll
  BY <1>t, <1>1 DEF CloseAll, Prefix
<1>2. CASE Resolve
  <2>1. Kept \in 1..Len(indents) /\ Kept \in Nat
    BY <1>t, KeptExists
  <2> QED BY <1>t, <1>2, <2>1 DEF Resolve, Prefix, Wider
<1>3. CASE AfterError \/ TakePending \/ CountSpace \/ TabIndent \/ SkipEmptyLine \/ SkipSpace \/ NewLine
           \/ ScanWord \/ ScanOp \/ ScanString \/ ScanNumber \/ ScanBracket \/ ScanBad
  BY <1>3 DEF AfterError, TakePending, CountSpace, TabIndent, SkipEmptyLine, SkipSpace, NewLine,
              ScanWord, ScanOp, ScanString, ScanNumber, ScanBracket, ScanBad
<1>4. CASE LineAtEnd
  BY <1>1, <1>4 DEF LineAtEnd
<1>5. CASE AtEnd
  BY <1>1, <1>5 DEF AtEnd
<1>6. CASE UNCHANGED lexing
  BY <1>6 DEF lexing
<1> QED BY <1>2, <1>3, <1>4, <1>5, <1>6 DEF LexNext

LEMMA NextStack == LexInv /\ [LexNext]_lexing => StackSound' /\ indents' \in Seq(Nat)
<1> SUFFICES ASSUME LexInv, [LexNext]_lexing PROVE StackSound' /\ indents' \in Seq(Nat)
    OBVIOUS
<1>t. StackSound /\ indents \in Seq(Nat) /\ Len(indents) \in Nat
  BY DEF LexInv, LexTypeOK
<1>1. CASE indents' = indents
  BY <1>t, <1>1 DEF StackSound
<1>2. ASSUME NEW k \in Nat, Prefix(k) PROVE StackSound' /\ indents' \in Seq(Nat)
  <2>1. indents' \in Seq(Nat) /\ Len(indents') = k /\ \A i \in 1..k : indents'[i] = indents[i]
    BY <1>t, <1>2 DEF Prefix
  <2> QED BY <1>t, <1>2, <2>1 DEF StackSound, Prefix
<1>3. ASSUME NEW w \in Nat, Wider(w) PROVE StackSound' /\ indents' \in Seq(Nat)
  <2>1. /\ indents' \in Seq(Nat) /\ Len(indents') = Len(indents) + 1
        /\ \A i \in 1..Len(indents) : indents'[i] = indents[i] /\ indents[i] \in Nat
        /\ indents'[Len(indents) + 1] = w
    BY <1>t, <1>3 DEF Wider
  <2>2. \A i \in 1..Len(indents) : indents[i] <= indents[Len(indents)] /\ indents[Len(indents)] < w
    BY <1>t, <1>3, <2>1 DEF StackSound, Wider
  <2>3. \A i, j \in 1..Len(indents') : i < j => indents'[i] < indents'[j]
    <3> SUFFICES ASSUME NEW i \in 1..Len(indents'), NEW j \in 1..Len(indents'), i < j
                 PROVE  indents'[i] < indents'[j]
        OBVIOUS
    <3>0. i \in Nat /\ j \in Nat /\ 1 <= i /\ i < j /\ j <= Len(indents) + 1
      BY <1>t, <2>1
    <3>1. CASE j = Len(indents) + 1
      <4>1. i \in 1..Len(indents)
        BY <1>t, <3>0, <3>1
      <4>2. indents[i] \in Nat /\ indents[Len(indents)] \in Nat /\ indents[i] < w
        BY <1>t, <2>1, <2>2, <4>1
      <4> QED BY <2>1, <3>1, <4>1, <4>2
    <3>2. CASE j # Len(indents) + 1
      <4>1. i \in 1..Len(indents) /\ j \in 1..Len(indents)
        BY <1>t, <3>0, <3>2
      <4> QED BY <1>t, <2>1, <3>0, <4>1 DEF StackSound
    <3> QED BY <3>1, <3>2
  <2> QED BY <1>t, <2>1, <2>3 DEF StackSound
<1> QED BY <1>1, <1>2, <1>3, StackStep

\* Every field keeps its type.
LEMMA NextType == LexInv /\ [LexNext]_lexing => LexTypeOK'
<1> SUFFICES ASSUME LexInv, [LexNext]_lexing PROVE LexTypeOK'
    OBVIOUS
<1>t. LexTypeOK /\ StackSound /\ indents' \in Seq(Nat) /\ Len(indents) \in Nat /\ Len(indents) >= 1
  BY NextStack DEF LexInv, LexTypeOK, StackSound
<1>k. Kept \in 1..Len(indents)
  BY <1>t, KeptExists
<1>1. c' \in Chars \cup {"end"}
  BY <1>t DEF LexTypeOK, LexNext, lexing, AfterError, TakePending, CountSpace, TabIndent, LineAtEnd, SkipEmptyLine,
              Resolve, SkipSpace, NewLine, AtEnd, ScanWord, ScanOp, ScanString, ScanNumber, ScanBracket, ScanBad,
              advance, skipLine, Chars
<1>2. n' \in Nat /\ depth' \in Int
  BY <1>t DEF LexTypeOK, LexNext, lexing, AfterError, TakePending, CountSpace, TabIndent, LineAtEnd, SkipEmptyLine,
              Resolve, SkipSpace, NewLine, AtEnd, ScanWord, ScanOp, ScanString, ScanNumber, ScanBracket, ScanBad
<1>3. pending' \in Nat
  <2>1. CASE Resolve
    <3>1. indents[Len(indents)] \in Nat /\ n \in Nat /\ indents[Kept] \in Nat /\ indents[Kept] <= n
      BY <1>t, <1>k, KeptExists DEF LexTypeOK
    <3>2. n < indents[Len(indents)] => Len(indents) - Kept >= 1
      BY <1>t, <1>k, <3>1
    <3> QED BY <1>t, <1>k, <2>1, <3>2 DEF LexTypeOK, Resolve
  <2>2. CASE ~Resolve
    BY <1>t, <2>2 DEF LexTypeOK, LexNext, lexing, AfterError, TakePending, CountSpace, TabIndent, LineAtEnd, SkipEmptyLine,
              SkipSpace, NewLine, AtEnd, ScanWord, ScanOp, ScanString, ScanNumber, ScanBracket, ScanBad, CloseAll
  <2> QED BY <2>1, <2>2
<1>4. atLineStart' \in BOOLEAN /\ lineTok' \in BOOLEAN /\ err' \in BOOLEAN
  <2>1. err' = err \/ err' = TRUE \/ err' = (depth > 0) \/ err' = (depth' < 0)
    BY Zenon DEF LexNext, lexing, AfterError, TakePending, CountSpace, TabIndent, LineAtEnd, SkipEmptyLine,
              Resolve, SkipSpace, NewLine, AtEnd, ScanWord, ScanOp, ScanString, ScanNumber, ScanBracket, ScanBad
  <2>2. (depth > 0) \in BOOLEAN /\ (depth' < 0) \in BOOLEAN
    OBVIOUS
  <2>3. err' \in BOOLEAN
    BY <1>t, <2>1, <2>2, Zenon DEF LexTypeOK
  <2>4. atLineStart' = atLineStart \/ atLineStart' = TRUE \/ atLineStart' = FALSE
    BY Zenon DEF LexNext, lexing, AfterError, TakePending, CountSpace, TabIndent, LineAtEnd, SkipEmptyLine,
              Resolve, SkipSpace, NewLine, AtEnd, ScanWord, ScanOp, ScanString, ScanNumber, ScanBracket, ScanBad
  <2>5. lineTok' = lineTok \/ lineTok' = TRUE \/ lineTok' = FALSE
    BY Zenon DEF LexNext, lexing, AfterError, TakePending, CountSpace, TabIndent, LineAtEnd, SkipEmptyLine,
              Resolve, SkipSpace, NewLine, AtEnd, ScanWord, ScanOp, ScanString, ScanNumber, ScanBracket, ScanBad
  <2> QED BY <1>t, <2>3, <2>4, <2>5, Zenon DEF LexTypeOK
<1>5. tok' \in Layout \cup {"TOKEN", "EOF", "ILLEGAL"} /\ opened' \in Int
  BY <1>t DEF LexTypeOK, LexNext, lexing, AfterError, TakePending, CountSpace, TabIndent, LineAtEnd, SkipEmptyLine,
              Resolve, SkipSpace, NewLine, AtEnd, ScanWord, ScanOp, ScanString, ScanNumber, ScanBracket, ScanBad,
              CloseAll, Returns, Silent, Layout
<1> QED BY <1>t, <1>1, <1>2, <1>3, <1>4, <1>5 DEF LexTypeOK

\* Closing every block leaves the sentinel alone on the stack and all but
\* the first DEDENT in the queue.
LEMMA ClosesAll ==
    ASSUME LexTypeOK, StackSound, Balanced, ~err, pending = 0, CloseAll
    PROVE  /\ Len(indents') = 1 /\ opened' - pending' = 0
           /\ \/ tok' = "DEDENT" /\ opened > 0
              \/ tok' = "EOF" /\ opened = 0 /\ pending' = 0 /\ opened' = opened
<1>1. Len(indents) \in Nat /\ Len(indents) >= 1 /\ opened \in Int /\ indents \in Seq(Nat)
  BY DEF LexTypeOK, StackSound
<1>2. Len(indents') = 1
  BY <1>1 DEF CloseAll
<1>3. opened = Len(indents) - 1
  BY <1>1 DEF Balanced
<1> QED BY <1>1, <1>2, <1>3 DEF CloseAll, Returns

\* Every step keeps the stream balanced and the fields in agreement.
LEMMA NextLines ==
    ASSUME LexInv, [LexNext]_lexing
    PROVE  Balanced' /\ BracketsJoinLines' /\ Lines'
<1>t. /\ LexTypeOK /\ StackSound /\ Balanced /\ BracketsJoinLines /\ Lines
      /\ Len(indents) \in Nat /\ Len(indents) >= 1 /\ indents \in Seq(Nat)
      /\ n \in Nat /\ depth \in Int /\ pending \in Nat /\ opened \in Int
      /\ \A i \in 1..Len(indents) : indents[i] \in Nat
  BY DEF LexInv, LexTypeOK, StackSound
<1>1. CASE AfterError
  BY <1>1 DEF AfterError, Balanced, BracketsJoinLines, Lines
<1>2. CASE TakePending
  BY <1>t, <1>2 DEF TakePending, Returns, Balanced, BracketsJoinLines, Lines
<1>3. CASE TabIndent \/ ScanBad
  BY <1>3 DEF TabIndent, ScanBad, Balanced, BracketsJoinLines, Lines
<1>4. CASE CountSpace \/ SkipEmptyLine
  BY <1>t, <1>4 DEF CountSpace, SkipEmptyLine, Starting, Silent, Balanced, BracketsJoinLines, Lines
<1>5. CASE LineAtEnd
  <2>1. CloseAll /\ ~err /\ pending = 0 /\ atLineStart /\ c' = c /\ c = "end" /\ err' = err
        /\ depth' = depth /\ lineTok' = lineTok /\ ~atLineStart'
    BY <1>5 DEF LineAtEnd, Starting
  <2>2. depth = 0 /\ ~lineTok
    BY <1>t, <2>1 DEF Lines
  <2>3. /\ Len(indents') = 1 /\ opened' - pending' = 0
        /\ tok' = "DEDENT" \/ (tok' = "EOF" /\ pending' = 0)
    BY <1>t, <2>1, ClosesAll
  <2>4. Balanced'
    BY <2>3 DEF Balanced
  <2>5. BracketsJoinLines' /\ ~err'
    BY <2>1, <2>2 DEF BracketsJoinLines
  <2>6. Lines'
    BY <2>1, <2>2, <2>3, <2>5 DEF Lines
  <2> QED BY <2>4, <2>5, <2>6
<1>6. CASE Resolve
  <2>1. /\ ~err /\ pending = 0 /\ depth = 0 /\ ~lineTok /\ tok # "TOKEN" /\ tok # "ILLEGAL" /\ tok # "EOF"
        /\ depth' = depth /\ lineTok' = lineTok /\ ~atLineStart' /\ opened = Len(indents) - 1
    BY <1>t, <1>6 DEF Resolve, Starting, Lines, Balanced
  <2>2. CASE n = indents[Len(indents)]
    BY <1>t, <1>6, <2>1, <2>2 DEF Resolve, Silent, Balanced, BracketsJoinLines, Lines
  <2>3. CASE n > indents[Len(indents)]
    <3>1. indents' = Append(indents, n) /\ tok' = "INDENT" /\ opened' = opened + 1 /\ err' = err /\ pending' = pending
      BY <1>t, <1>6, <2>3 DEF Resolve, Returns
    <3>2. Len(indents') = Len(indents) + 1
      BY <1>t, <3>1
    <3> QED BY <1>t, <2>1, <3>1, <3>2 DEF Balanced, BracketsJoinLines, Lines
  <2>4. CASE n < indents[Len(indents)]
    <3>1. Kept \in 1..Len(indents) /\ indents[Kept] \in Nat
      BY <1>t, KeptExists
    <3>2. indents' = SubSeq(indents, 1, Kept) /\ Len(indents') = Kept
      BY <1>t, <1>6, <2>4, <3>1 DEF Resolve
    <3>3. CASE indents[Kept] = n
      <4>1. pending' = Len(indents) - Kept - 1 /\ tok' = "DEDENT" /\ opened' = opened - 1 /\ err' = err
        BY <1>t, <1>6, <2>4, <3>1, <3>3 DEF Resolve, Returns
      <4> QED BY <1>t, <2>1, <3>1, <3>2, <4>1 DEF Balanced, BracketsJoinLines, Lines
    <3>4. CASE indents[Kept] # n
      <4>1. err'
        BY <1>t, <1>6, <2>4, <3>1, <3>4 DEF Resolve
      <4> QED BY <4>1 DEF Balanced, BracketsJoinLines, Lines
    <3> QED BY <3>3, <3>4
  <2> QED BY <1>t, <2>2, <2>3, <2>4
<1>7. CASE SkipSpace
  BY <1>t, <1>7 DEF SkipSpace, InLine, Silent, Balanced, BracketsJoinLines, Lines
<1>8. CASE NewLine
  BY <1>t, <1>8 DEF NewLine, InLine, Silent, Returns, Balanced, BracketsJoinLines, Lines
<1>9. CASE AtEnd
  <2>1. ~err /\ pending = 0 /\ ~atLineStart /\ c = "end" /\ c' = c /\ depth' = depth /\ atLineStart' = atLineStart
    BY <1>9 DEF AtEnd, InLine
  <2>2. CASE lineTok
    BY <1>t, <1>9, <2>1, <2>2 DEF AtEnd, Returns, Balanced, BracketsJoinLines, Lines
  <2>3. CASE ~lineTok
    <3>1. CloseAll /\ (err' <=> depth > 0) /\ lineTok' = lineTok
      BY <1>9, <2>3 DEF AtEnd
    <3>2. /\ Len(indents') = 1 /\ opened' - pending' = 0
          /\ tok' = "DEDENT" \/ (tok' = "EOF" /\ pending' = 0)
      BY <1>t, <2>1, <3>1, ClosesAll
    <3>3. Balanced' /\ BracketsJoinLines'
      BY <2>1, <3>2 DEF Balanced, BracketsJoinLines
    <3>4. ~err' => depth' = 0
      BY <1>t, <2>1, <3>1 DEF Lines
    <3>5. Lines'
      BY <2>1, <2>3, <3>1, <3>2, <3>4 DEF Lines
    <3> QED BY <3>3, <3>5
  <2> QED BY <2>2, <2>3
<1>10. CASE ScanWord \/ ScanOp
  <2>1. CASE ScanWord
    BY <1>t, <2>1 DEF ScanWord, InLine, Returns, Balanced, BracketsJoinLines, Lines
  <2>2. CASE ScanOp
    BY <1>t, <2>2 DEF ScanOp, InLine, Returns, Balanced, BracketsJoinLines, Lines
  <2> QED BY <1>10, <2>1, <2>2
<1>11. CASE ScanString
  BY <1>t, <1>11 DEF ScanString, InLine, Returns, Balanced, BracketsJoinLines, Lines
<1>12. CASE ScanNumber
  BY <1>t, <1>12 DEF ScanNumber, InLine, Returns, Balanced, BracketsJoinLines, Lines
<1>13. CASE ScanBracket
  <2>0. (err' <=> depth' < 0) /\ lineTok'
    BY <1>13, Zenon DEF ScanBracket
  <2>1. /\ ~err /\ pending' = pending /\ pending = 0 /\ tok' = "TOKEN"
        /\ opened' = opened /\ indents' = indents /\ ~atLineStart'
    BY <1>t, <1>13 DEF ScanBracket, InLine, Returns
  <2>2. depth' \in Int
    BY <1>t, <1>13 DEF ScanBracket
  <2> QED BY <1>t, <2>0, <2>1, <2>2 DEF Balanced, BracketsJoinLines, Lines
<1>14. CASE UNCHANGED lexing
  BY <1>t, <1>14 DEF lexing, Balanced, BracketsJoinLines, Lines
<1> QED BY <1>1, <1>2, <1>3, <1>4, <1>5, <1>6, <1>7, <1>8, <1>9, <1>10, <1>11, <1>12, <1>13, <1>14 DEF LexNext

\* LexInv is inductive.
LEMMA NextInv == LexInv /\ [LexNext]_lexing => LexInv'
BY NextType, NextStack, NextLines DEF LexInv

\* The invariant holds of every reachable state.
LEMMA LexInvariant == LexSpec => []LexInv
BY InitInv, NextInv, PTL DEF LexSpec

\* The lexer's fields and its token keep their types on every source.
THEOREM TypeCorrect == LexSpec => []LexTypeOK
<1>1. LexInv => LexTypeOK
  BY DEF LexInv
<1> QED BY <1>1, LexInvariant, PTL

\* lineStart never empties the indentation stack and keeps it rising, so
\* reading its top cannot fail, on any source and after any error.
THEOREM StackCorrect == LexSpec => []StackSound
<1>1. LexInv => StackSound
  BY DEF LexInv
<1> QED BY <1>1, LexInvariant, PTL

\* INDENT and DEDENT always account for the blocks on the stack.
THEOREM BalanceCorrect == LexSpec => []Balanced
<1>1. LexInv => Balanced
  BY DEF LexInv
<1> QED BY <1>1, LexInvariant, PTL

\* No layout token is returned inside brackets before the source ends.
THEOREM BracketsCorrect == LexSpec => []BracketsJoinLines
<1>1. LexInv => BracketsJoinLines
  BY DEF LexInv
<1> QED BY <1>1, LexInvariant, PTL

\* EOF without a diagnostic means that everything opened was closed.
THEOREM EofCorrect == LexSpec => []EofIsClosed
<1>1. LexInv => EofIsClosed
  <2> SUFFICES ASSUME LexInv, tok = "EOF", ~err
               PROVE  c = "end" /\ depth = 0 /\ opened = 0 /\ pending = 0 /\ ~lineTok
      BY DEF EofIsClosed
  <2>1. c = "end" /\ depth = 0 /\ pending = 0 /\ ~lineTok /\ Len(indents) = 1
    BY DEF LexInv, Lines
  <2>2. opened \in Int /\ opened - pending = Len(indents) - 1
    BY DEF LexInv, LexTypeOK, Balanced
  <2> QED BY <2>1, <2>2
<1> QED BY <1>1, LexInvariant, PTL

-----------------------------------------------------------------------------
\* A step of a lexer is a step of TokenStream, or silent.
LEMMA StreamStep ==
    ASSUME LexInv, [LexNext]_lexing
    PROVE  [Stream!StreamNext]_Stream!streamVars
<1> USE DEF Stream!StreamNext, Stream!streamVars
<1>t. /\ LexTypeOK /\ StackSound /\ Balanced /\ BracketsJoinLines /\ Lines
      /\ Len(indents) \in Nat /\ Len(indents) >= 1 /\ indents \in Seq(Nat)
      /\ n \in Nat /\ depth \in Int /\ pending \in Nat /\ opened \in Int
      /\ \A i \in 1..Len(indents) : indents[i] \in Nat
      /\ err \in BOOLEAN /\ err' \in BOOLEAN
      /\ tok \in Layout \cup {"TOKEN", "EOF", "ILLEGAL"}
  BY NextType DEF LexInv, LexTypeOK, StackSound
<1>b. ~err /\ ~lineTok /\ tok # "EOF" => Stream!BetweenLines
  BY <1>t DEF Lines, Layout, Stream!BetweenLines
<1>1. CASE AfterError
  <2>1. err /\ err' = err /\ tok' = "EOF"
    BY <1>1 DEF AfterError, Returns
  <2>2. opened' = opened
    BY <1>t, <1>1 DEF AfterError, Returns
  <2> QED BY <2>1, <2>2 DEF Stream!Cut
<1>2. CASE TakePending
  <2>1. ~err /\ err' = err /\ tok' = "DEDENT" /\ opened' = opened - 1 /\ opened > 0
    BY <1>t, <1>2 DEF TakePending, Returns, Balanced
  <2>2. Stream!BetweenLines
    BY <1>t, <1>2 DEF TakePending, Lines, Stream!BetweenLines
  <2> QED BY <1>t, <2>1, <2>2 DEF Stream!CloseBlock
<1>3. CASE TabIndent \/ ScanBad
  <2>1. ~err /\ c # "end" /\ err' = TRUE /\ tok' = "ILLEGAL" /\ opened' = opened
    BY <1>t, <1>3 DEF TabIndent, ScanBad, Starting, InLine, Returns
  <2> QED BY <1>t, <2>1 DEF Lines, Stream!Illegal
<1>4. CASE CountSpace \/ SkipEmptyLine \/ SkipSpace
  BY <1>4 DEF CountSpace, SkipEmptyLine, SkipSpace, Silent
<1>5. CASE LineAtEnd
  <2>1. CloseAll /\ ~err /\ pending = 0 /\ atLineStart /\ err' = err
    BY <1>5 DEF LineAtEnd, Starting
  <2>2. Stream!BetweenLines
    BY <1>t, <1>b, <2>1 DEF Lines
  <2>3. tok' = "DEDENT" => opened' = opened - 1
    BY <2>1 DEF CloseAll, Returns
  <2> QED BY <1>t, <2>1, <2>2, <2>3, ClosesAll DEF Stream!CloseBlock, Stream!Eof
<1>6. CASE Resolve
  <2>1. ~err /\ pending = 0 /\ tok # "EOF" /\ Stream!BetweenLines /\ opened = Len(indents) - 1
    BY <1>t, <1>b, <1>6 DEF Resolve, Starting, Lines, Balanced
  <2>2. CASE n = indents[Len(indents)]
    BY <1>t, <1>6, <2>2 DEF Resolve, Silent
  <2>3. CASE n > indents[Len(indents)]
    <3>1. tok' = "INDENT" /\ opened' = opened + 1 /\ err' = err
      BY <1>t, <1>6, <2>3 DEF Resolve, Returns
    <3> QED BY <2>1, <3>1 DEF Stream!OpenBlock
  <2>4. CASE n < indents[Len(indents)]
    <3>1. opened > 0
      BY <1>t, <2>1, <2>4 DEF StackSound
    <3>2. CASE indents[Kept] = n
      <4>1. tok' = "DEDENT" /\ opened' = opened - 1 /\ err' = err
        BY <1>t, <1>6, <2>4, <3>2 DEF Resolve, Returns
      <4> QED BY <1>t, <2>1, <3>1, <4>1 DEF Stream!CloseBlock
    <3>3. CASE indents[Kept] # n
      <4>1. tok' = "ILLEGAL" /\ opened' = opened /\ err' = TRUE
        BY <1>t, <1>6, <2>4, <3>3 DEF Resolve, Returns
      <4> QED BY <2>1, <4>1 DEF Stream!Illegal
    <3> QED BY <3>2, <3>3
  <2> QED BY <1>t, <2>2, <2>3, <2>4
<1>7. CASE NewLine
  BY <1>t, <1>7 DEF NewLine, InLine, Silent, Returns, Lines, Stream!EndOfLine
<1>8. CASE AtEnd
  <2>1. ~err /\ pending = 0
    BY <1>8 DEF AtEnd, InLine
  <2>2. CASE lineTok
    BY <1>t, <1>8, <2>1, <2>2 DEF AtEnd, Returns, Lines, Stream!EndOfLine
  <2>3. CASE ~lineTok
    <3>1. CloseAll
      BY <1>8, <2>3 DEF AtEnd
    <3>2. tok' = "DEDENT" => opened' = opened - 1
      BY <3>1 DEF CloseAll, Returns
    <3>3. CASE tok = "EOF"
      <4>1. Len(indents) = 1
        BY <2>1, <3>3, <1>t DEF Lines
      <4>2. opened - pending = Len(indents) - 1
        BY <2>1, <1>t DEF Balanced
      <4>3. opened = 0
        BY <1>t, <2>1, <4>1, <4>2
      <4> QED BY <1>t, <2>1, <3>1, <3>3, <4>3, ClosesAll DEF Stream!Eof
    <3>4. CASE tok # "EOF"
      BY <1>t, <1>b, <2>1, <2>3, <3>1, <3>2, <3>4, ClosesAll DEF Stream!CloseBlock, Stream!Eof
    <3> QED BY <3>3, <3>4
  <2> QED BY <2>2, <2>3
<1>9. CASE ScanWord \/ ScanOp \/ ScanString \/ ScanNumber \/ ScanBracket
  <2>1. ~err /\ c # "end" /\ opened' = opened /\ (tok' = "TOKEN" \/ (tok' = "ILLEGAL" /\ err' = TRUE))
    BY <1>t, <1>9 DEF ScanWord, ScanOp, ScanString, ScanNumber, ScanBracket, InLine, Returns
  <2> QED BY <1>t, <2>1 DEF Lines, Stream!Content, Stream!Illegal
<1>10. CASE UNCHANGED lexing
  BY <1>10 DEF lexing
<1> QED BY <1>1, <1>2, <1>3, <1>4, <1>5, <1>6, <1>7, <1>8, <1>9, <1>10 DEF LexNext

\* Both lexers hand the parser a balanced stream, for every source: layout
\* tokens between lines only, a DEDENT for an INDENT, EOF when all are closed.
THEOREM StreamImplemented == LexSpec => StreamSpec
<1>1. New => Stream!StreamInit
  BY DEF New, Stream!StreamInit
<1>2. LexInv /\ [LexNext]_lexing => [Stream!StreamNext]_Stream!streamVars
  BY StreamStep
<1> QED BY <1>1, <1>2, LexInvariant, PTL DEF LexSpec, StreamSpec, Stream!StreamSpec

=============================================================================
