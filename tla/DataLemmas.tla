----------------------------- MODULE DataLemmas ------------------------------
(***************************************************************************)
(* Induction over the natural numbers and what it gives about the data of  *)
(* the models: functions defined by recursion, iterated steps, and the     *)
(* concatenation of a sequence of sequences.  The induction is over sets:  *)
(* a set that is not all of Nat would have a least number outside it.      *)
(***************************************************************************)
EXTENDS Integers, Sequences, SequencesExt, SequenceTheorems, WellFoundedInduction, TLAPS

\* Induction: a set with 0 and, with a number, its successor has them all.
LEMMA SetInduction ==
    ASSUME NEW T, 0 \in T, \A n \in Nat : n \in T => n + 1 \in T
    PROVE  \A n \in Nat : n \in T
<1> SUFFICES ASSUME NEW w \in Nat, w \notin T PROVE FALSE
    OBVIOUS
<1> DEFINE C == {i \in Nat : i \notin T}
           R == OpToRel(<, Nat)
<1>1. C \subseteq Nat /\ C # {}
  OBVIOUS
<1>2. PICK d \in C : \A e \in C : ~(<<e, d>> \in R)
  <2> HIDE DEF C, R
  <2>1. IsWellFoundedOn(R, Nat)
    BY NatLessThanWellFounded DEF R
  <2> QED BY <1>1, <2>1, WFMin
<1>3. \A e \in C : ~(e < d)
  BY <1>1, <1>2 DEF OpToRel
<1>4. d \in Nat /\ d # 0 /\ d - 1 \in Nat
  OBVIOUS
<1>5. d - 1 \in T
  BY <1>3, <1>4
<1>6. (d - 1) + 1 \in T
  BY <1>4, <1>5
<1> QED BY <1>4, <1>6

\* Induction up to a bound.
LEMMA BoundedInduction ==
    ASSUME NEW N \in Nat, NEW T, 0 \in T, \A n \in 0..(N - 1) : n \in T => n + 1 \in T
    PROVE  \A n \in 0..N : n \in T
<1> DEFINE U == {n \in Nat : n <= N => n \in T}
<1>1. 0 \in U
  OBVIOUS
<1>2. \A n \in Nat : n \in U => n + 1 \in U
  OBVIOUS
<1>3. \A n \in Nat : n \in U
  <2> HIDE DEF U
  <2> QED BY <1>1, <1>2, SetInduction
<1> QED BY <1>3

\* f starts with x, and F[i] leads from its value at i - 1 to that at i.
Recursion(f, x, N, F) == f[0] = x /\ \A i \in 1..N : f[i] = F[i][f[i - 1]]

\* A function defined by recursion from a value and a step for each index
\* exists.
LEMMA RecursionExists ==
    ASSUME NEW S, NEW x \in S, NEW N \in Nat, NEW F \in [1..N -> [S -> S]]
    PROVE  \E f \in [0..N -> S] : Recursion(f, x, N, F)
<1> DEFINE Good(n) == \E f \in [0..n -> S] : f[0] = x /\ \A i \in 1..n : f[i] = F[i][f[i - 1]]
           T == {n \in 0..N : Good(n)}
<1>1. 0 \in T
  <2> DEFINE f == [i \in 0..0 |-> x]
  <2>1. f \in [0..0 -> S] /\ f[0] = x /\ \A i \in 1..0 : f[i] = F[i][f[i - 1]]
    OBVIOUS
  <2>2. Good(0)
    <3> HIDE DEF f
    <3> QED BY <2>1
  <2> QED BY <2>2
<1>2. ASSUME NEW n \in 0..(N - 1), n \in T PROVE n + 1 \in T
  <2>1. PICK g \in [0..n -> S] : g[0] = x /\ \A i \in 1..n : g[i] = F[i][g[i - 1]]
    BY <1>2
  <2> DEFINE f == [i \in 0..(n + 1) |-> IF i <= n THEN g[i] ELSE F[n + 1][g[n]]]
  <2>2. n + 1 \in 1..N /\ n \in 0..n /\ g[n] \in S
    OBVIOUS
  <2>3. F[n + 1][g[n]] \in S
    BY <2>2
  <2>4. f \in [0..(n + 1) -> S]
    BY <2>3
  <2>5. f[0] = x
    BY <2>1
  <2>6. ASSUME NEW i \in 1..(n + 1) PROVE f[i] = F[i][f[i - 1]]
    <3>1. CASE i <= n
      <4>1. i \in 1..n /\ i - 1 \in 0..n /\ i \in 0..n
        BY <3>1
      <4>2. f[i] = g[i] /\ f[i - 1] = g[i - 1]
        BY <4>1
      <4> QED BY <4>1, <4>2, <2>1
    <3>2. CASE i = n + 1
      <4>1. f[i] = F[n + 1][g[n]] /\ f[i - 1] = g[n]
        BY <3>2
      <4> QED BY <4>1, <3>2
    <3> QED BY <3>1, <3>2
  <2>7. Good(n + 1)
    <3> HIDE DEF f
    <3> QED BY <2>4, <2>5, <2>6
  <2> QED BY <2>2, <2>7
<1>3. \A n \in 0..N : n \in T
  <2> HIDE DEF T
  <2> QED BY <1>1, <1>2, BoundedInduction
<1> QED BY <1>3 DEF Recursion

----------------------------------------------------------------------------
(* Parts of sequences.                                                      *)

\* s is what R holds after its first off members.
Part(s, R, off) == off + Len(s) <= Len(R) /\ \A i \in 1..Len(s) : s[i] = R[off + i]

\* A part is the slice at its place.
LEMMA Slice ==
    ASSUME NEW S, NEW R \in Seq(S), NEW s \in Seq(S), NEW o \in Nat, Part(s, R, o)
    PROVE  SubSeq(R, o + 1, o + Len(s)) = s
<1>1. Len(s) \in Nat /\ Len(R) \in Nat /\ o + Len(s) <= Len(R) /\ \A i \in 1..Len(s) : s[i] = R[o + i]
  BY DEF Part
<1>2. \A i \in (o + 1)..(o + Len(s)) : R[i] \in S
  BY <1>1
<1>3. /\ SubSeq(R, o + 1, o + Len(s)) \in Seq(S)
      /\ Len(SubSeq(R, o + 1, o + Len(s))) = IF o + 1 <= o + Len(s) THEN (o + Len(s)) - (o + 1) + 1 ELSE 0
      /\ \A i \in 1..((o + Len(s)) - (o + 1) + 1) : SubSeq(R, o + 1, o + Len(s))[i] = R[(o + 1) + i - 1]
  BY <1>1, <1>2, SubSeqProperties
<1>4. Len(SubSeq(R, o + 1, o + Len(s))) = Len(s)
  BY <1>1, <1>3
<1>5. \A i \in 1..Len(s) : SubSeq(R, o + 1, o + Len(s))[i] = s[i]
  <2>1. (o + Len(s)) - (o + 1) + 1 = Len(s) /\ \A i \in 1..Len(s) : (o + 1) + i - 1 = o + i
    BY <1>1
  <2> QED BY <1>1, <1>3, <2>1
<1> DEFINE t == SubSeq(R, o + 1, o + Len(s))
<1> HIDE DEF t
<1>6. t \in Seq(S) /\ Len(t) = Len(s) /\ \A i \in 1..Len(t) : t[i] = s[i]
  BY <1>3, <1>4, <1>5 DEF t
<1>7. t = s
  BY <1>6, SeqEqual
<1> QED BY <1>7 DEF t

\* A part of full length is the whole.
LEMMA PartWhole ==
    ASSUME NEW S, NEW R \in Seq(S), NEW s \in Seq(S), Part(s, R, 0), Len(s) = Len(R)
    PROVE  s = R
<1>1. \A i \in 1..Len(s) : s[i] = R[i]
  BY DEF Part
<1> QED BY <1>1, SeqEqual

\* The two operands of a concatenation.
LEMMA PartsOfConcat ==
    ASSUME NEW S, NEW s \in Seq(S), NEW t \in Seq(S)
    PROVE  /\ s \o t \in Seq(S) /\ Len(s \o t) = Len(s) + Len(t)
           /\ Part(s, s \o t, 0) /\ Part(t, s \o t, Len(s))
<1>1. /\ s \o t \in Seq(S) /\ Len(s \o t) = Len(s) + Len(t)
      /\ \A i \in 1..Len(s) + Len(t) : (s \o t)[i] = IF i <= Len(s) THEN s[i] ELSE t[i - Len(s)]
  BY ConcatProperties
<1>2. Len(s) \in Nat /\ Len(t) \in Nat
  OBVIOUS
<1>3. ASSUME NEW i \in 1..Len(s) PROVE s[i] = (s \o t)[0 + i]
  <2>1. i \in 1..Len(s) + Len(t) /\ i <= Len(s) /\ 0 + i = i
    BY <1>2
  <2> QED BY <1>1, <2>1
<1>4. ASSUME NEW i \in 1..Len(t) PROVE t[i] = (s \o t)[Len(s) + i]
  <2>1. Len(s) + i \in 1..Len(s) + Len(t) /\ ~(Len(s) + i <= Len(s)) /\ (Len(s) + i) - Len(s) = i
    BY <1>2
  <2> QED BY <1>1, <2>1
<1>5. 0 + Len(s) <= Len(s \o t) /\ Len(s) + Len(t) <= Len(s \o t)
  BY <1>1, <1>2
<1> QED BY <1>1, <1>3, <1>4, <1>5 DEF Part

\* A part of a part.
LEMMA PartOfPart ==
    ASSUME NEW S, NEW R \in Seq(S), NEW s \in Seq(S), NEW t \in Seq(S), NEW o \in Nat, NEW q \in Nat,
           Part(s, t, o), Part(t, R, q)
    PROVE  Part(s, R, q + o)
<1>1. /\ Len(s) \in Nat /\ Len(t) \in Nat /\ Len(R) \in Nat
      /\ o + Len(s) <= Len(t) /\ q + Len(t) <= Len(R)
  BY DEF Part
<1>2. ASSUME NEW i \in 1..Len(s) PROVE s[i] = R[(q + o) + i]
  <2>1. o + i \in 1..Len(t) /\ q + (o + i) = (q + o) + i
    BY <1>1
  <2>2. s[i] = t[o + i] /\ t[o + i] = R[q + (o + i)]
    BY <2>1 DEF Part
  <2> QED BY <2>1, <2>2
<1>3. (q + o) + Len(s) <= Len(R)
  BY <1>1
<1> QED BY <1>2, <1>3 DEF Part

\* A part of what is left after the first q bytes.
LEMMA PartOfRest ==
    ASSUME NEW S, NEW R \in Seq(S), NEW s \in Seq(S), NEW o \in Nat, NEW q \in Nat, q <= Len(R),
           Part(s, R, q + o), NEW T, T = SubSeq(R, q + 1, Len(R))
    PROVE  T \in Seq(S) /\ Len(T) = Len(R) - q /\ Part(s, T, o)
<1>1. Len(s) \in Nat /\ Len(R) \in Nat /\ (q + o) + Len(s) <= Len(R)
  BY DEF Part
<1>2. \A i \in (q + 1)..Len(R) : R[i] \in S
  BY <1>1
<1>3. /\ T \in Seq(S) /\ Len(T) = IF q + 1 <= Len(R) THEN Len(R) - (q + 1) + 1 ELSE 0
      /\ \A i \in 1..(Len(R) - (q + 1) + 1) : T[i] = R[(q + 1) + i - 1]
  BY <1>1, <1>2, SubSeqProperties
<1>4. Len(T) = Len(R) - q
  BY <1>1, <1>3
<1>5. ASSUME NEW i \in 1..Len(s) PROVE s[i] = T[o + i]
  <2>1. o + i \in 1..(Len(R) - (q + 1) + 1) /\ (q + 1) + (o + i) - 1 = (q + o) + i
    BY <1>1
  <2>2. s[i] = R[(q + o) + i]
    BY DEF Part
  <2> QED BY <1>3, <2>1, <2>2
<1>6. o + Len(s) <= Len(T)
  BY <1>1, <1>4
<1> QED BY <1>3, <1>4, <1>5, <1>6 DEF Part

\* The empty sequence is a part everywhere.
LEMMA PartEmpty ==
    ASSUME NEW S, NEW R \in Seq(S), NEW o \in 0..Len(R)
    PROVE  Part(<<>>, R, o)
<1>1. Len(<<>>) = 0 /\ o + 0 <= Len(R)
  OBVIOUS
<1> QED BY <1>1 DEF Part

\* A byte moves from the head of one part to the end of the part before it.
LEMMA PartMove ==
    ASSUME NEW S, NEW R \in Seq(S), NEW s \in Seq(S), NEW t \in Seq(S), NEW o \in Nat,
           Part(s, R, o), Part(t, R, o + Len(s)), t # <<>>
    PROVE  /\ Append(s, Head(t)) \in Seq(S) /\ Tail(t) \in Seq(S)
           /\ Len(Append(s, Head(t))) = Len(s) + 1 /\ Len(Tail(t)) = Len(t) - 1
           /\ Part(Append(s, Head(t)), R, o) /\ Part(Tail(t), R, o + Len(Append(s, Head(t))))
<1>1. /\ Len(s) \in Nat /\ Len(t) \in Nat /\ Len(t) > 0 /\ Len(R) \in Nat /\ Head(t) = t[1]
      /\ Head(t) \in S /\ Tail(t) \in Seq(S) /\ Len(Tail(t)) = Len(t) - 1
      /\ \A i \in 1..Len(Tail(t)) : Tail(t)[i] = t[i + 1]
  BY HeadTailProperties
<1>2. /\ Append(s, Head(t)) \in Seq(S) /\ Len(Append(s, Head(t))) = Len(s) + 1
      /\ \A i \in 1..Len(s) : Append(s, Head(t))[i] = s[i]
      /\ Append(s, Head(t))[Len(s) + 1] = Head(t)
  BY <1>1, AppendProperties
<1>3. /\ o + Len(s) + Len(t) <= Len(R) /\ \A i \in 1..Len(s) : s[i] = R[o + i]
      /\ \A i \in 1..Len(t) : t[i] = R[(o + Len(s)) + i]
  BY DEF Part
<1>4. Part(Append(s, Head(t)), R, o)
  <2>1. t[1] = R[(o + Len(s)) + 1]
    BY <1>1, <1>3
  <2>2. (o + Len(s)) + 1 = o + (Len(s) + 1)
    BY <1>1
  <2>3. \A i \in 1..(Len(s) + 1) : Append(s, Head(t))[i] = R[o + i]
    BY <1>1, <1>2, <1>3, <2>1, <2>2
  <2>4. o + (Len(s) + 1) <= Len(R)
    BY <1>1, <1>3
  <2> QED BY <1>2, <2>3, <2>4 DEF Part
<1>5. Part(Tail(t), R, o + Len(Append(s, Head(t))))
  <2>1. ASSUME NEW i \in 1..Len(Tail(t)) PROVE Tail(t)[i] = R[(o + (Len(s) + 1)) + i]
    <3>1. i + 1 \in 1..Len(t) /\ (o + Len(s)) + (i + 1) = (o + (Len(s) + 1)) + i
      BY <1>1
    <3> QED BY <1>1, <1>3, <3>1
  <2>2. (o + (Len(s) + 1)) + Len(Tail(t)) <= Len(R)
    BY <1>1, <1>3
  <2> QED BY <1>2, <2>1, <2>2 DEF Part
<1> QED BY <1>1, <1>2, <1>4, <1>5

\* The next byte joins a part.
LEMMA PartGrow ==
    ASSUME NEW S, NEW R \in Seq(S), NEW s \in Seq(S), NEW o \in Nat, Part(s, R, o), o + Len(s) < Len(R)
    PROVE  /\ Append(s, R[o + Len(s) + 1]) \in Seq(S) /\ Len(Append(s, R[o + Len(s) + 1])) = Len(s) + 1
           /\ Part(Append(s, R[o + Len(s) + 1]), R, o)
<1> DEFINE e == R[o + Len(s) + 1]
<1>1. Len(s) \in Nat /\ Len(R) \in Nat /\ o + Len(s) + 1 \in 1..Len(R) /\ o + Len(s) + 1 = o + (Len(s) + 1)
  OBVIOUS
<1>2. e \in S
  BY <1>1
<1>3. /\ Append(s, e) \in Seq(S) /\ Len(Append(s, e)) = Len(s) + 1
      /\ \A i \in 1..Len(s) : Append(s, e)[i] = s[i]
      /\ Append(s, e)[Len(s) + 1] = e
  BY <1>2, AppendProperties
<1>4. \A i \in 1..Len(s) : s[i] = R[o + i]
  BY DEF Part
<1>5. e = R[o + (Len(s) + 1)]
  BY <1>1
<1> HIDE DEF e
<1>6. \A i \in 1..(Len(s) + 1) : Append(s, e)[i] = R[o + i]
  BY <1>1, <1>3, <1>4, <1>5
<1>7. o + (Len(s) + 1) <= Len(R)
  BY <1>1
<1>8. Append(s, e) \in Seq(S) /\ Len(Append(s, e)) = Len(s) + 1 /\ Part(Append(s, e), R, o)
  BY <1>3, <1>6, <1>7 DEF Part
<1> QED BY <1>8 DEF e

\* Two parts of the same place and length.
LEMMA PartUnique ==
    ASSUME NEW S, NEW R \in Seq(S), NEW s \in Seq(S), NEW t \in Seq(S), NEW o \in Nat,
           Part(s, R, o), Part(t, R, o), Len(s) = Len(t)
    PROVE  s = t
<1>1. \A i \in 1..Len(s) : s[i] = t[i]
  BY DEF Part
<1> QED BY <1>1, SeqEqual

\* A slice of a sequence.
LEMMA CutShape ==
    ASSUME NEW S, NEW w \in Seq(S), NEW i \in Nat, i > 0, NEW j \in Nat, j <= Len(w)
    PROVE  /\ SubSeq(w, i, j) \in Seq(S)
           /\ Len(SubSeq(w, i, j)) = IF i <= j THEN (j - i) + 1 ELSE 0
           /\ \A q \in 1..Len(SubSeq(w, i, j)) : SubSeq(w, i, j)[q] = w[i + q - 1]
<1>1. \A q \in i..j : w[q] \in S
  OBVIOUS
<1>2. /\ SubSeq(w, i, j) \in Seq(S)
      /\ Len(SubSeq(w, i, j)) = IF i <= j THEN j - i + 1 ELSE 0
      /\ \A q \in 1..(j - i + 1) : SubSeq(w, i, j)[q] = w[i + q - 1]
  BY <1>1, SubSeqProperties
<1> DEFINE s == SubSeq(w, i, j)
<1> HIDE DEF s
<1>3. /\ s \in Seq(S) /\ Len(s) = IF i <= j THEN j - i + 1 ELSE 0
      /\ \A q \in 1..(j - i + 1) : s[q] = w[i + q - 1]
  BY <1>2 DEF s
<1>4. \A q \in 1..Len(s) : q \in 1..(j - i + 1)
  BY <1>3
<1>5. s \in Seq(S) /\ (Len(s) = IF i <= j THEN (j - i) + 1 ELSE 0) /\ \A q \in 1..Len(s) : s[q] = w[i + q - 1]
  BY <1>3, <1>4
<1> QED BY <1>5 DEF s

\* A slice of a slice.
LEMMA CutOfCut ==
    ASSUME NEW S, NEW w \in Seq(S), NEW i \in Nat, i > 0, NEW j \in Nat, j <= Len(w),
           NEW s, s = SubSeq(w, i, j), NEW a \in Nat, a > 0, NEW b \in Nat, b > 0, b <= Len(s)
    PROVE  SubSeq(s, a, b) = SubSeq(w, i + a - 1, i + b - 1)
<1> DEFINE x == SubSeq(s, a, b)
           y == SubSeq(w, i + a - 1, i + b - 1)
<1>1. s \in Seq(S) /\ (Len(s) = IF i <= j THEN (j - i) + 1 ELSE 0) /\ \A q \in 1..Len(s) : s[q] = w[i + q - 1]
  BY CutShape
<1>2. b <= Len(s)
  OBVIOUS
<1>3. x \in Seq(S) /\ (Len(x) = IF a <= b THEN (b - a) + 1 ELSE 0) /\ \A q \in 1..Len(x) : x[q] = s[a + q - 1]
  BY <1>1, <1>2, CutShape
<1>4. i + a - 1 \in Nat /\ i + a - 1 > 0 /\ i + b - 1 \in Nat /\ i + b - 1 <= Len(w)
  BY <1>1, <1>2
<1>5. /\ y \in Seq(S)
      /\ Len(y) = IF i + a - 1 <= i + b - 1 THEN ((i + b - 1) - (i + a - 1)) + 1 ELSE 0
      /\ \A q \in 1..Len(y) : y[q] = w[(i + a - 1) + q - 1]
  BY <1>4, CutShape
<1> HIDE DEF x, y
<1>6. Len(x) = Len(y)
  BY <1>3, <1>5
<1>7. ASSUME NEW q \in 1..Len(x) PROVE x[q] = y[q]
  <2>1. Len(x) \in Nat /\ a + q - 1 \in 1..Len(s)
    BY <1>1, <1>2, <1>3
  <2>2. s[a + q - 1] = w[i + (a + q - 1) - 1] /\ i + (a + q - 1) - 1 = (i + a - 1) + q - 1
    BY <1>1, <2>1
  <2> QED BY <1>3, <1>5, <1>6, <2>2
<1>8. x = y
  BY <1>3, <1>5, <1>6, <1>7, SeqEqual
<1> QED BY <1>8 DEF x, y

----------------------------------------------------------------------------
(* The concatenation of a sequence of sequences.                            *)

\* f[i] is the concatenation of the first i members of ss.
Concats(ss, f) == f[0] = <<>> /\ \A i \in 1..Len(ss) : f[i] = f[i - 1] \o ss[i]

\* FlattenSeq is the last of the concatenations of the first members.
LEMMA FlattenConcats ==
    ASSUME NEW S, NEW ss \in Seq(Seq(S))
    PROVE  \E f \in [0..Len(ss) -> Seq(S)] : Concats(ss, f) /\ FlattenSeq(ss) = f[Len(ss)]
<1> DEFINE m == Len(ss)
           F == [i \in 1..m |-> [s \in Seq(S) |-> s \o ss[i]]]
<1>1. m \in Nat /\ \A i \in 1..m : ss[i] \in Seq(S)
  OBVIOUS
<1>2. F \in [1..m -> [Seq(S) -> Seq(S)]] /\ <<>> \in Seq(S)
  BY <1>1
<1>3. PICK f \in [0..m -> Seq(S)] : Recursion(f, <<>>, m, F)
  <2> HIDE DEF F, m
  <2> QED BY <1>1, <1>2, RecursionExists
<1>4. Concats(ss, f)
  <2>1. ASSUME NEW i \in 1..m PROVE f[i] = f[i - 1] \o ss[i]
    <3>1. f[i - 1] \in Seq(S)
      OBVIOUS
    <3> QED BY <3>1, <1>3 DEF Recursion
  <2> QED BY <2>1, <1>3 DEF Concats, Recursion
<1>5. FlattenSeq(ss) = f[m]
  <2>1. CASE m = 0
    BY <2>1, <1>3 DEF FlattenSeq, Recursion
  <2>2. CASE m # 0
    <3> DEFINE E(g) == [i \in 1..m |-> IF i = 1 THEN ss[i] ELSE g[i - 1] \o ss[i]]
               h == [i \in 1..m |-> f[i]]
               c == CHOOSE g : g = E(g)
    <3>1. h = E(h)
      <4>1. ASSUME NEW i \in 1..m PROVE h[i] = IF i = 1 THEN ss[i] ELSE h[i - 1] \o ss[i]
        <5>1. f[i] = f[i - 1] \o ss[i] /\ f[0] = <<>> /\ ss[i] \in Seq(S)
          BY <1>1, <1>4 DEF Concats
        <5>2. <<>> \o ss[i] = ss[i]
          BY <5>1
        <5>3. i = 1 => f[i - 1] = <<>>
          BY <5>1
        <5>4. i # 1 => h[i - 1] = f[i - 1]
          OBVIOUS
        <5> QED BY <5>1, <5>2, <5>3, <5>4
      <4> QED BY <4>1
    <3>2. c = E(c)
      BY <3>1
    <3>3. \A i \in 1..m : c[i] = f[i]
      <4> DEFINE T == {j \in 0..m : j > 0 => c[j] = f[j]}
      <4>1. 0 \in T
        OBVIOUS
      <4>2. ASSUME NEW j \in 0..(m - 1), j \in T PROVE j + 1 \in T
        <5>1. j + 1 \in 1..m /\ (j + 1) - 1 = j
          BY <1>1
        <5>2. c[j + 1] = IF j + 1 = 1 THEN ss[j + 1] ELSE c[(j + 1) - 1] \o ss[j + 1]
          <6> HIDE DEF c
          <6> QED BY <3>2, <5>1
        <5>3. h[j + 1] = IF j + 1 = 1 THEN ss[j + 1] ELSE h[(j + 1) - 1] \o ss[j + 1]
          <6> HIDE DEF h
          <6> QED BY <3>1, <5>1
        <5>4. h[j + 1] = f[j + 1] /\ (j > 0 => h[j] = f[j])
          BY <5>1
        <5>5. j > 0 => c[j] = f[j]
          BY <4>2
        <5>6. c[j + 1] = f[j + 1]
          <6> HIDE DEF c, h
          <6> QED BY <5>1, <5>2, <5>3, <5>4, <5>5
        <5> QED BY <5>1, <5>6
      <4>3. \A j \in 0..m : j \in T
        <5> HIDE DEF T
        <5> QED BY <1>1, <4>1, <4>2, BoundedInduction
      <4> HIDE DEF c
      <4> QED BY <4>3
    <3>4. FlattenSeq(ss) = c[m]
      BY <2>2 DEF FlattenSeq
    <3> HIDE DEF c
    <3> QED BY <2>2, <1>1, <3>3, <3>4
  <2> QED BY <2>1, <2>2
<1> QED BY <1>4, <1>5

\* Each member is in the concatenation after those before it.
LEMMA ConcatsParts ==
    ASSUME NEW S, NEW ss \in Seq(Seq(S)), NEW f \in [0..Len(ss) -> Seq(S)], Concats(ss, f)
    PROVE  /\ \A i \in 0..Len(ss) : Part(f[i], f[Len(ss)], 0)
           /\ \A i \in 1..Len(ss) : /\ Len(f[i]) = Len(f[i - 1]) + Len(ss[i])
                                    /\ Part(ss[i], f[Len(ss)], Len(f[i - 1]))
<1> DEFINE m == Len(ss)
<1>1. m \in Nat /\ f[m] \in Seq(S)
  OBVIOUS
<1>2. ASSUME NEW i \in 1..m
      PROVE  /\ f[i] \in Seq(S) /\ f[i - 1] \in Seq(S) /\ ss[i] \in Seq(S) /\ Len(f[i - 1]) \in Nat
             /\ Len(f[i]) = Len(f[i - 1]) + Len(ss[i])
             /\ Part(f[i - 1], f[i], 0) /\ Part(ss[i], f[i], Len(f[i - 1]))
  <2>0. i \in 0..m /\ i - 1 \in 0..m
    BY <1>1
  <2>1. f[i] \in Seq(S) /\ f[i - 1] \in Seq(S) /\ ss[i] \in Seq(S) /\ Len(f[i - 1]) \in Nat
    <3>1. f[i] \in Seq(S) /\ f[i - 1] \in Seq(S)
      BY <2>0
    <3>2. ss[i] \in Seq(S)
      OBVIOUS
    <3>3. Len(f[i - 1]) \in Nat
      BY <3>1
    <3> QED BY <3>1, <3>2, <3>3
  <2>2. f[i] = f[i - 1] \o ss[i]
    BY DEF Concats
  <2> QED BY <2>1, <2>2, PartsOfConcat
<1> DEFINE T == {d \in 0..m : Part(f[m - d], f[m], 0)}
<1>3. 0 \in T
  <2>1. Part(f[m], f[m], 0)
    BY <1>1 DEF Part
  <2> QED BY <1>1, <2>1
<1>4. ASSUME NEW d \in 0..(m - 1), d \in T PROVE d + 1 \in T
  <2> DEFINE i == m - d
  <2>1. i \in 1..m /\ i - 1 = m - (d + 1) /\ d + 1 \in 0..m
    BY <1>1
  <2>2. Part(f[i], f[m], 0)
    BY <1>4
  <2> HIDE DEF i, m
  <2>3. Part(f[i - 1], f[i], 0) /\ f[i] \in Seq(S) /\ f[i - 1] \in Seq(S)
    BY <1>2, <2>1
  <2>4. 0 \in Nat /\ 0 + 0 = 0
    OBVIOUS
  <2>5. Part(f[i - 1], f[m], 0 + 0)
    BY <1>1, <2>2, <2>3, <2>4, PartOfPart
  <2>6. Part(f[m - (d + 1)], f[m], 0)
    BY <2>1, <2>4, <2>5
  <2> QED BY <2>1, <2>6
<1>5. \A d \in 0..m : d \in T
  <2> HIDE DEF T, m
  <2> QED BY <1>1, <1>3, <1>4, BoundedInduction
<1>6. ASSUME NEW i \in 0..m PROVE Part(f[i], f[m], 0)
  <2>1. m - i \in 0..m /\ m - (m - i) = i
    BY <1>1
  <2>2. m - i \in T
    BY <2>1, <1>5
  <2> QED BY <2>1, <2>2
<1>7. ASSUME NEW i \in 1..m PROVE Part(ss[i], f[m], Len(f[i - 1]))
  <2>1. Part(f[i], f[m], 0)
    BY <1>6
  <2>2. 0 \in Nat /\ 0 + Len(f[i - 1]) = Len(f[i - 1])
    BY <1>2
  <2> HIDE DEF m
  <2>3. Part(ss[i], f[m], 0 + Len(f[i - 1]))
    BY <1>1, <1>2, <2>1, <2>2, PartOfPart
  <2> QED BY <2>2, <2>3
<1> QED BY <1>2, <1>6, <1>7

----------------------------------------------------------------------------
(* Numbers.                                                                 *)

\* A division with its remainder.
LEMMA DivMod ==
    ASSUME NEW n \in Nat, NEW d \in Nat, d > 0
    PROVE  /\ n \div d \in Nat /\ n % d \in 0..(d - 1)
           /\ n = d * (n \div d) + (n % d)
           /\ n < d => n \div d = 0
           /\ n \div 1 = n
  OBVIOUS

\* The digit of n between two powers of b.
LEMMA Digit ==
    ASSUME NEW n \in Nat, NEW p \in Nat, p > 0, NEW b \in Nat, b > 0
    PROVE  n \div p = b * (n \div (b * p)) + ((n \div p) % b)
<1> DEFINE m == n \div p
           q == m \div b
           r == m % b
<1>1. m \in Nat /\ p * m <= n /\ n < p * m + p
  BY DivMod
<1>2. q \in Nat /\ r \in 0..(b - 1) /\ m = b * q + r
  BY <1>1, DivMod
<1> HIDE DEF m, q, r
<1>3. p * (b * q) <= p * m /\ p * (m + 1) <= p * (b * q + b)
  <2>1. b * q \in Int /\ b * q <= m /\ m + 1 <= b * q + b
    BY <1>1, <1>2
  <2>2. \A x \in Int : \A y \in Int : x <= y => p * x <= p * y
    OBVIOUS
  <2> QED BY <1>1, <2>1, <2>2
<1>4. b * p \in Nat /\ b * p > 0
  OBVIOUS
<1>5. (b * p) * q <= n /\ n < (b * p) * q + b * p
  BY <1>1, <1>2, <1>3
<1>6. n \div (b * p) = q
  BY <1>2, <1>4, <1>5
<1> QED BY <1>2, <1>6 DEF m, q, r
=============================================================================
