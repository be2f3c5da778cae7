----------------------------- MODULE HttpProofs ------------------------------
(***************************************************************************)
(* The answers of HttpClient::get are those of the servers, and its        *)
(* failures have a cause outside it, for every site, every way a stream    *)
(* may end and every proxy.                                                *)
(***************************************************************************)
EXTENDS HttpClient, DataLemmas

\* The units of a body, and the states of the loop over its chunks.
BodyUnits == {"size", "data", "crlf"} \X Nat
Loop      == [rest : Seq(BodyUnits), body : Seq(BodyUnits), out : {"more", "ok", "err", "panic"}]

\* What is left after p units of a stream that ended after n.
Left(w, p, n) == SubSeq(w, p + 1, n)

----------------------------------------------------------------------------
(* The chunks.                                                              *)

\* The units of a sequence of data.
LEMMA UnitsShape ==
    ASSUME NEW c \in Seq(Nat)
    PROVE  /\ Units(c) \in Seq(BodyUnits) /\ Len(Units(c)) = Len(c)
           /\ \A i \in 1..Len(c) : Units(c)[i] = <<"data", c[i]>>
           /\ Values(Units(c)) = c
<1>1. DOMAIN c = 1..Len(c) /\ Len(c) \in Nat /\ \A i \in 1..Len(c) : c[i] \in Nat
  OBVIOUS
<1> DEFINE u == [i \in 1..Len(c) |-> <<"data", c[i]>>]
<1>2. Units(c) = u
  BY <1>1 DEF Units, Unit
<1>3. u \in [1..Len(c) -> BodyUnits]
  <2>1. \A i \in 1..Len(c) : <<"data", c[i]>> \in BodyUnits
    BY <1>1 DEF BodyUnits
  <2> HIDE DEF u
  <2> QED BY <2>1 DEF u
<1>4. u \in Seq(BodyUnits) /\ Len(u) = Len(c) /\ \A i \in 1..Len(c) : u[i] = <<"data", c[i]>>
  BY <1>1, <1>3
<1>5. Values(u) = c
  <2>1. DOMAIN u = 1..Len(c)
    OBVIOUS
  <2>2. Values(u) = [i \in 1..Len(c) |-> u[i][2]]
    BY <2>1 DEF Values
  <2>3. \A i \in 1..Len(c) : u[i][2] = c[i]
    OBVIOUS
  <2>4. Values(u) = [i \in 1..Len(c) |-> c[i]]
    BY <2>2, <2>3
  <2> QED BY <1>1, <2>4
<1> QED BY <1>2, <1>4, <1>5

\* A chunk: its size, its data and a line end.
LEMMA ChunkShape ==
    ASSUME NEW c \in Seq(Nat)
    PROVE  /\ Chunk(c) \in Seq(BodyUnits) /\ Len(Chunk(c)) = Len(c) + 2
           /\ Chunk(c)[1] = <<"size", Len(c)>>
           /\ \A i \in 1..Len(c) : Chunk(c)[1 + i] = <<"data", c[i]>>
<1> DEFINE a == <<Unit("size", Len(c))>>
           u == Units(c)
           z == <<Unit("crlf", 0)>>
<1>1. /\ u \in Seq(BodyUnits) /\ Len(u) = Len(c) /\ Len(c) \in Nat
      /\ \A i \in 1..Len(c) : u[i] = <<"data", c[i]>>
  BY UnitsShape
<1>0. <<"size", Len(c)>> \in BodyUnits /\ <<"crlf", 0>> \in BodyUnits
  BY <1>1 DEF BodyUnits
<1>2. a \in Seq(BodyUnits) /\ Len(a) = 1 /\ a[1] = <<"size", Len(c)>>
  BY <1>0 DEF Unit
<1>3. z \in Seq(BodyUnits) /\ Len(z) = 1
  BY <1>0 DEF Unit
<1>4. Chunk(c) = (a \o u) \o z
  BY DEF Chunk
<1> HIDE DEF a, u, z
<1>5. /\ a \o u \in Seq(BodyUnits) /\ Len(a \o u) = 1 + Len(c)
      /\ \A i \in 1..(1 + Len(c)) : (a \o u)[i] = IF i <= 1 THEN a[i] ELSE u[i - 1]
  <2>1. /\ a \o u \in Seq(BodyUnits) /\ Len(a \o u) = Len(a) + Len(u)
        /\ \A i \in 1..(Len(a) + Len(u)) : (a \o u)[i] = IF i <= Len(a) THEN a[i] ELSE u[i - Len(a)]
    <3>1. a \in Seq(BodyUnits) /\ u \in Seq(BodyUnits)
      BY <1>1, <1>2
    <3> QED BY <3>1, ConcatProperties
  <2> QED BY <1>1, <1>2, <2>1
<1> DEFINE b == a \o u
<1> HIDE DEF b
<1>6. /\ b \o z \in Seq(BodyUnits) /\ Len(b \o z) = Len(b) + Len(z)
      /\ \A i \in 1..(Len(b) + Len(z)) : (b \o z)[i] = IF i <= Len(b) THEN b[i] ELSE z[i - Len(b)]
  <2>1. b \in Seq(BodyUnits) /\ z \in Seq(BodyUnits)
    BY <1>3, <1>5 DEF b
  <2> QED BY <2>1, ConcatProperties
<1>7. /\ b \in Seq(BodyUnits) /\ Len(b) = 1 + Len(c)
      /\ \A i \in 1..(1 + Len(c)) : b[i] = IF i <= 1 THEN a[i] ELSE u[i - 1]
  BY <1>5 DEF b
<1>8. Chunk(c) = b \o z
  BY <1>4 DEF b
<1>9. /\ Chunk(c) \in Seq(BodyUnits) /\ Len(Chunk(c)) = Len(c) + 2
      /\ \A i \in 1..(1 + Len(c)) : Chunk(c)[i] = b[i]
  BY <1>1, <1>3, <1>6, <1>7, <1>8
<1>10. Chunk(c)[1] = <<"size", Len(c)>>
  BY <1>1, <1>2, <1>7, <1>9
<1>11. ASSUME NEW i \in 1..Len(c) PROVE Chunk(c)[1 + i] = <<"data", c[i]>>
  <2>1. 1 + i \in 1..(1 + Len(c)) /\ ~(1 + i <= 1) /\ (1 + i) - 1 = i
    BY <1>1
  <2>2. b[1 + i] = u[i]
    BY <1>7, <2>1
  <2> QED BY <1>1, <1>9, <2>1, <2>2
<1> QED BY <1>9, <1>10, <1>11

\* A turn of the loop keeps its types, and takes something if it goes on.
LEMMA StepShape ==
    ASSUME NEW s \in Loop
    PROVE  /\ UnchunkStep(s) \in Loop
           /\ UnchunkStep(s).out = "more" => s.out = "more" /\ Len(UnchunkStep(s).rest) < Len(s.rest)
<1>1. /\ s.rest \in Seq(BodyUnits) /\ s.body \in Seq(BodyUnits) /\ Len(s.rest) \in Nat
      /\ s.out \in {"more", "ok", "err", "panic"}
      /\ s = [rest |-> s.rest, body |-> s.body, out |-> s.out]
  BY DEF Loop
<1>2. CASE s.out # "more"
  BY <1>2 DEF UnchunkStep
<1>3. CASE s.out = "more" /\ s.rest = <<>>
  <2>1. UnchunkStep(s) = [s EXCEPT !.out = "err"]
    BY <1>3 DEF UnchunkStep
  <2>2. [s EXCEPT !.out = "err"] \in Loop /\ [s EXCEPT !.out = "err"].out = "err"
    BY <1>1 DEF Loop
  <2> QED BY <2>1, <2>2
<1>4. CASE s.out = "more" /\ s.rest # <<>>
  <2> DEFINE size == s.rest[1][2]
             r    == SubSeq(s.rest, 3 + size, Len(s.rest))
             d    == SubSeq(s.rest, 2, 1 + size)
             goes == [s EXCEPT !.rest = r, !.body = s.body \o d]
             ends(o) == [s EXCEPT !.out = o]
  <2>1. size \in Nat /\ Len(s.rest) > 0
    BY <1>1, <1>4 DEF BodyUnits
  <2>2. UnchunkStep(s) = IF size = 0 THEN ends("ok")
                         ELSE IF Len(s.rest) < 1 + size THEN ends("err")
                         ELSE IF Len(s.rest) < 2 + size THEN ends("panic")
                         ELSE goes
    BY <1>4 DEF UnchunkStep
  <2>3. \A o \in {"ok", "err", "panic"} : ends(o) \in Loop /\ ends(o).out = o
    BY <1>1 DEF Loop
  <2>4. ASSUME Len(s.rest) >= 2 + size
        PROVE  goes \in Loop /\ goes.rest = r /\ Len(r) < Len(s.rest)
    <3>1. /\ r \in Seq(BodyUnits)
          /\ Len(r) = IF 3 + size <= Len(s.rest) THEN (Len(s.rest) - (3 + size)) + 1 ELSE 0
      <4>1. 3 + size \in Nat /\ 3 + size > 0 /\ Len(s.rest) <= Len(s.rest)
        BY <1>1, <2>1
      <4> HIDE DEF size
      <4> QED BY <1>1, <4>1, CutShape
    <3>2. d \in Seq(BodyUnits)
      <4>1. 1 + size \in Nat /\ 2 \in Nat /\ 2 > 0 /\ 1 + size <= Len(s.rest)
        BY <1>1, <2>1, <2>4
      <4> HIDE DEF size
      <4> QED BY <1>1, <4>1, CutShape
    <3> HIDE DEF size, r, d
    <3>3. s.body \o d \in Seq(BodyUnits)
      BY <1>1, <3>2
    <3>4. goes \in Loop /\ goes.rest = r
      BY <1>1, <3>1, <3>3 DEF Loop
    <3> QED BY <1>1, <2>1, <3>1, <3>4
  <2> HIDE DEF size, goes, ends, r, d
  <2>5. CASE UnchunkStep(s) = goes /\ Len(s.rest) >= 2 + size
    BY <2>4, <2>5, <1>4
  <2>6. CASE \E o \in {"ok", "err", "panic"} : UnchunkStep(s) = ends(o)
    BY <2>3, <2>6
  <2> QED BY <1>1, <2>1, <2>2, <2>5, <2>6
<1> QED BY <1>2, <1>3, <1>4

\* The loop runs from the body, turn by turn.
LEMMA LoopRuns ==
    ASSUME NEW raw \in Seq(BodyUnits)
    PROVE  \E a \in [0..(Len(raw) + 1) -> Loop] :
              /\ a[0] = [rest |-> raw, body |-> <<>>, out |-> "more"]
              /\ \A i \in 1..(Len(raw) + 1) : a[i] = UnchunkStep(a[i - 1])
              /\ Unchunk(raw) = Parsed(a[Len(raw) + 1].out, a[Len(raw) + 1].body)
<1> DEFINE N == Len(raw) + 1
           x == [rest |-> raw, body |-> <<>>, out |-> "more"]
           F == [i \in 1..N |-> [s \in Loop |-> UnchunkStep(s)]]
           E(g) == [i \in 0..N |-> IF i = 0 THEN x ELSE UnchunkStep(g[i - 1])]
           c == CHOOSE g : g = E(g)
<1>1. N \in Nat /\ N > 0
  OBVIOUS
<1>2. x \in Loop
  BY DEF Loop
<1>3. F \in [1..N -> [Loop -> Loop]]
  <2>1. \A s \in Loop : UnchunkStep(s) \in Loop
    BY StepShape
  <2> HIDE DEF N
  <2> QED BY <2>1
<1>4. PICK f \in [0..N -> Loop] : Recursion(f, x, N, F)
  <2> HIDE DEF N, x, F
  <2> QED BY <1>1, <1>2, <1>3, RecursionExists
<1>5. f = E(f)
  <2>1. ASSUME NEW i \in 0..N PROVE f[i] = IF i = 0 THEN x ELSE UnchunkStep(f[i - 1])
    <3>1. CASE i = 0
      BY <1>4, <3>1 DEF Recursion
    <3>2. CASE i # 0
      <4>1. i \in 1..N /\ i - 1 \in 0..N /\ f[i - 1] \in Loop
        BY <1>1, <3>2
      <4>2. f[i] = F[i][f[i - 1]]
        BY <1>4, <4>1 DEF Recursion
      <4> HIDE DEF N, x
      <4> QED BY <3>2, <4>1, <4>2
    <3> QED BY <3>1, <3>2
  <2> HIDE DEF x, N
  <2> QED BY <2>1
<1>6. c = E(c)
  <2> HIDE DEF x, N
  <2> QED BY <1>5
<1>7. Unchunk(raw) = Parsed(c[N].out, c[N].body)
  BY DEF Unchunk
<1>8. /\ DOMAIN c = 0..N /\ c[0] = x /\ \A i \in 1..N : c[i] = UnchunkStep(c[i - 1])
      /\ c = [i \in 0..N |-> c[i]]
  <2> HIDE DEF c, x, N
  <2>1. \A i \in 0..N : c[i] = IF i = 0 THEN x ELSE UnchunkStep(c[i - 1])
    BY <1>6
  <2>2. c[0] = x /\ \A i \in 1..N : c[i] = UnchunkStep(c[i - 1])
    BY <1>1, <2>1
  <2>3. DOMAIN c = 0..N
    BY <1>6
  <2>4. c = [i \in 0..N |-> c[i]]
    BY <1>6, <2>3
  <2> QED BY <2>2, <2>3, <2>4
<1>9. \A i \in 0..N : c[i] \in Loop
  <2> DEFINE T == {i \in 0..N : c[i] \in Loop}
  <2> HIDE DEF c, x, N
  <2>1. 0 \in T
    BY <1>1, <1>2, <1>8
  <2>2. ASSUME NEW i \in 0..(N - 1), i \in T PROVE i + 1 \in T
    <3>1. i + 1 \in 1..N /\ i + 1 \in 0..N /\ (i + 1) - 1 = i
      BY <1>1
    <3>2. c[i + 1] = UnchunkStep(c[i])
      BY <1>8, <3>1
    <3>3. c[i + 1] \in Loop
      BY <2>2, <3>2, StepShape
    <3> QED BY <3>1, <3>3
  <2>3. \A i \in 0..N : i \in T
    <3> HIDE DEF T
    <3> QED BY <1>1, <2>1, <2>2, BoundedInduction
  <2> QED BY <2>3
<1>10. c \in [0..N -> Loop]
  <2> HIDE DEF c, x, N
  <2> QED BY <1>8, <1>9
<1> HIDE DEF c
<1> QED BY <1>7, <1>8, <1>10

\* A turn of the loop at a chunk of k units of data.
LEMMA StepAtSize ==
    ASSUME NEW s \in Loop, s.out = "more", s.rest # <<>>, NEW k \in Nat, k > 0, s.rest[1][2] = k
    PROVE  /\ Len(s.rest) < 2 + k => UnchunkStep(s).out \in {"err", "panic"}
           /\ Len(s.rest) >= 2 + k => /\ UnchunkStep(s).out = "more"
                                      /\ UnchunkStep(s).rest = SubSeq(s.rest, 3 + k, Len(s.rest))
                                      /\ UnchunkStep(s).body = s.body \o SubSeq(s.rest, 2, 1 + k)
<1> DEFINE r == SubSeq(s.rest, 3 + k, Len(s.rest))
           d == s.body \o SubSeq(s.rest, 2, 1 + k)
<1>1. /\ Len(s.rest) \in Nat /\ s = [rest |-> s.rest, body |-> s.body, out |-> s.out]
  BY DEF Loop
<1>2. UnchunkStep(s) = IF Len(s.rest) < 1 + k THEN [s EXCEPT !.out = "err"]
                       ELSE IF Len(s.rest) < 2 + k THEN [s EXCEPT !.out = "panic"]
                       ELSE [s EXCEPT !.rest = r, !.body = d]
  BY DEF UnchunkStep
<1> HIDE DEF r, d
<1>3. /\ [s EXCEPT !.out = "err"].out = "err" /\ [s EXCEPT !.out = "panic"].out = "panic"
      /\ [s EXCEPT !.rest = r, !.body = d].out = s.out
      /\ [s EXCEPT !.rest = r, !.body = d].rest = r
      /\ [s EXCEPT !.rest = r, !.body = d].body = d
  BY <1>1
<1>4. CASE Len(s.rest) < 1 + k
  BY <1>1, <1>2, <1>3, <1>4
<1>5. CASE ~(Len(s.rest) < 1 + k) /\ Len(s.rest) < 2 + k
  BY <1>1, <1>2, <1>3, <1>5
<1>6. CASE Len(s.rest) >= 2 + k
  <2>1. ~(Len(s.rest) < 1 + k) /\ ~(Len(s.rest) < 2 + k)
    BY <1>1, <1>6
  <2>2. UnchunkStep(s) = [s EXCEPT !.rest = r, !.body = d]
    BY <1>2, <2>1, Zenon
  <2> QED BY <2>1, <2>2, <1>3 DEF r, d
<1> QED BY <1>1, <1>4, <1>5, <1>6

\* What is left of a stream that was cut, at the beginning of a chunk.
LEMMA AtChunk ==
    ASSUME NEW w \in Seq(BodyUnits), NEW n \in 0..Len(w), NEW p \in Nat,
           NEW t, t = Left(w, p, n), NEW c \in Seq(Nat), c # <<>>, Part(Chunk(c), w, p)
    PROVE  /\ t \in Seq(BodyUnits)
           /\ t = <<>> \/ Len(t) < 2 + Len(c) => n < Len(w)
           /\ t # <<>> => t[1][2] = Len(c)
           /\ Len(t) >= 2 + Len(c) => /\ SubSeq(t, 3 + Len(c), Len(t)) = Left(w, p + Len(Chunk(c)), n)
                                      /\ SubSeq(t, 2, 1 + Len(c)) = Units(c)
<1>2. /\ n \in Nat /\ p + 1 \in Nat /\ p + 1 > 0 /\ n <= Len(w) /\ Len(w) \in Nat /\ Len(c) \in Nat /\ Len(c) > 0
  OBVIOUS
<1>3. /\ t \in Seq(BodyUnits) /\ Len(t) \in Nat
      /\ Len(t) = IF p + 1 <= n THEN (n - (p + 1)) + 1 ELSE 0
      /\ \A q \in 1..Len(t) : t[q] = w[(p + 1) + q - 1]
  BY <1>2, CutShape DEF Left
<1>4. /\ Chunk(c) \in Seq(BodyUnits) /\ Len(Chunk(c)) = Len(c) + 2 /\ Chunk(c)[1] = <<"size", Len(c)>>
      /\ \A i \in 1..Len(c) : Chunk(c)[1 + i] = <<"data", c[i]>>
  BY ChunkShape
<1>5. p + (Len(c) + 2) <= Len(w) /\ \A i \in 1..(Len(c) + 2) : Chunk(c)[i] = w[p + i]
  BY <1>4 DEF Part
<1>6. t = <<>> \/ Len(t) < 2 + Len(c) => n < Len(w)
  <2>1. t = <<>> => Len(t) = 0
    OBVIOUS
  <2>2. \A l \in Nat : l = (IF p + 1 <= n THEN (n - (p + 1)) + 1 ELSE 0) /\ l < 2 + Len(c) => n < Len(w)
    BY <1>2, <1>5
  <2>3. 0 < 2 + Len(c)
    BY <1>2
  <2> QED BY <1>3, <2>1, <2>2, <2>3, Zenon
<1>7. ASSUME t # <<>> PROVE t[1][2] = Len(c)
  <2>1. Len(t) > 0 /\ 1 \in 1..Len(t) /\ (p + 1) + 1 - 1 = p + 1 /\ 1 \in 1..(Len(c) + 2)
    BY <1>2, <1>3, <1>7
  <2>2. t[1] = w[p + 1] /\ Chunk(c)[1] = w[p + 1]
    BY <1>3, <1>5, <2>1
  <2>3. t[1] = <<"size", Len(c)>>
    BY <1>4, <2>2
  <2>4. <<"size", Len(c)>>[2] = Len(c)
    OBVIOUS
  <2> QED BY <2>3, <2>4
<1>8. ASSUME Len(t) >= 2 + Len(c)
      PROVE  /\ SubSeq(t, 3 + Len(c), Len(t)) = Left(w, p + Len(Chunk(c)), n)
             /\ SubSeq(t, 2, 1 + Len(c)) = Units(c)
  <2> DEFINE d == SubSeq(t, 2, 1 + Len(c))
  <2>1. Len(t) = n - p /\ Len(t) > 0
    BY <1>2, <1>3, <1>8
  <2>2. SubSeq(t, 3 + Len(c), Len(t)) = Left(w, p + Len(Chunk(c)), n)
    <3>1. 3 + Len(c) \in Nat /\ 3 + Len(c) > 0 /\ Len(t) <= Len(t)
      BY <1>2, <1>3
    <3>2. \A a, b \in Nat : a > 0 /\ b > 0 /\ b <= Len(t) => SubSeq(t, a, b) = SubSeq(w, (p + 1) + a - 1, (p + 1) + b - 1)
      BY <1>2, CutOfCut DEF Left
    <3>3. SubSeq(t, 3 + Len(c), Len(t)) = SubSeq(w, (p + 1) + (3 + Len(c)) - 1, (p + 1) + Len(t) - 1)
      BY <1>3, <2>1, <3>1, <3>2, Zenon
    <3>4. (p + 1) + (3 + Len(c)) - 1 = p + Len(Chunk(c)) + 1 /\ (p + 1) + Len(t) - 1 = n
      BY <1>2, <1>4, <2>1
    <3> QED BY <3>3, <3>4, Zenon DEF Left
  <2>3. d = Units(c)
    <3>1. 1 + Len(c) \in Nat /\ 2 \in Nat /\ 2 > 0 /\ 1 + Len(c) <= Len(t)
      BY <1>2, <1>3, <1>8
    <3>2. /\ d \in Seq(BodyUnits) /\ Len(d) = IF 2 <= 1 + Len(c) THEN ((1 + Len(c)) - 2) + 1 ELSE 0
          /\ \A q \in 1..Len(d) : d[q] = t[2 + q - 1]
      <4>1. \A i, j \in Nat : i > 0 /\ j <= Len(t) =>
               /\ SubSeq(t, i, j) \in Seq(BodyUnits)
               /\ Len(SubSeq(t, i, j)) = IF i <= j THEN (j - i) + 1 ELSE 0
               /\ \A q \in 1..Len(SubSeq(t, i, j)) : SubSeq(t, i, j)[q] = t[i + q - 1]
        BY <1>3, CutShape
      <4> QED BY <3>1, <4>1, Zenon
    <3> HIDE DEF d
    <3>3. Len(d) = Len(c)
      BY <1>2, <3>2
    <3>4. Units(c) \in Seq(BodyUnits) /\ Len(Units(c)) = Len(c) /\ \A i \in 1..Len(c) : Units(c)[i] = <<"data", c[i]>>
      BY UnitsShape
    <3>5. ASSUME NEW q \in 1..Len(d) PROVE d[q] = Units(c)[q]
      <4>1. q \in 1..Len(c) /\ 1 + q \in 1..Len(t) /\ 1 + q \in 1..(Len(c) + 2)
        BY <1>2, <1>3, <1>8, <3>3
      <4>2. 2 + q - 1 = 1 + q /\ (p + 1) + (1 + q) - 1 = p + (1 + q)
        BY <4>1
      <4>3. d[q] = t[1 + q]
        BY <3>2, <4>2
      <4>4. t[1 + q] = w[p + (1 + q)]
        BY <1>3, <4>1, <4>2
      <4>5. Chunk(c)[1 + q] = w[p + (1 + q)]
        BY <1>5, <4>1
      <4>6. Chunk(c)[1 + q] = <<"data", c[q]>> /\ Units(c)[q] = <<"data", c[q]>>
        BY <1>4, <3>4, <4>1
      <4> QED BY <4>3, <4>4, <4>5, <4>6
    <3> QED BY <3>2, <3>3, <3>4, <3>5, SeqEqual
  <2> QED BY <2>2, <2>3
<1> QED BY <1>3, <1>6, <1>7, <1>8

\* A turn at a chunk of data: it is taken whole, or the stream ended in it.
LEMMA TakeChunk ==
    ASSUME NEW s \in Loop, s.out = "more", NEW w \in Seq(BodyUnits), NEW n \in 0..Len(w), NEW p \in Nat,
           s.rest = Left(w, p, n), NEW c \in Seq(Nat), c # <<>>, Part(Chunk(c), w, p)
    PROVE  \/ UnchunkStep(s).out \in {"err", "panic"} /\ n < Len(w)
           \/ /\ UnchunkStep(s).out = "more"
              /\ UnchunkStep(s).rest = Left(w, p + Len(Chunk(c)), n)
              /\ UnchunkStep(s).body = s.body \o Units(c)
<1>1. /\ s.rest \in Seq(BodyUnits)
      /\ s.rest = <<>> \/ Len(s.rest) < 2 + Len(c) => n < Len(w)
      /\ s.rest # <<>> => s.rest[1][2] = Len(c)
      /\ Len(s.rest) >= 2 + Len(c) => /\ SubSeq(s.rest, 3 + Len(c), Len(s.rest)) = Left(w, p + Len(Chunk(c)), n)
                                      /\ SubSeq(s.rest, 2, 1 + Len(c)) = Units(c)
  <2>1. ASSUME NEW t, t = Left(w, p, n)
        PROVE  /\ t \in Seq(BodyUnits)
               /\ t = <<>> \/ Len(t) < 2 + Len(c) => n < Len(w)
               /\ t # <<>> => t[1][2] = Len(c)
               /\ Len(t) >= 2 + Len(c) => /\ SubSeq(t, 3 + Len(c), Len(t)) = Left(w, p + Len(Chunk(c)), n)
                                          /\ SubSeq(t, 2, 1 + Len(c)) = Units(c)
    BY <2>1, AtChunk
  <2> QED BY <2>1, Zenon
<1>2. Len(c) \in Nat /\ Len(c) > 0 /\ Len(s.rest) \in Nat
  BY <1>1
<1>3. CASE s.rest = <<>>
  <2>1. UnchunkStep(s) = [s EXCEPT !.out = "err"] /\ [s EXCEPT !.out = "err"].out = "err"
    BY <1>3 DEF UnchunkStep, Loop
  <2> QED BY <1>1, <1>3, <2>1
<1>4. CASE s.rest # <<>>
  <2>1. /\ Len(s.rest) < 2 + Len(c) => UnchunkStep(s).out \in {"err", "panic"}
        /\ Len(s.rest) >= 2 + Len(c) =>
              /\ UnchunkStep(s).out = "more"
              /\ UnchunkStep(s).rest = SubSeq(s.rest, 3 + Len(c), Len(s.rest))
              /\ UnchunkStep(s).body = s.body \o SubSeq(s.rest, 2, 1 + Len(c))
    BY <1>1, <1>2, <1>4, StepAtSize
  <2>2. Len(s.rest) < 2 + Len(c) \/ Len(s.rest) >= 2 + Len(c)
    BY <1>2
  <2> QED BY <1>1, <2>1, <2>2, Zenon
<1> QED BY <1>3, <1>4

\* A turn at the last chunk, which has no data: the loop ends.
LEMMA TakeLast ==
    ASSUME NEW s \in Loop, s.out = "more", NEW w \in Seq(BodyUnits), NEW n \in 0..Len(w), NEW p \in Nat,
           s.rest = Left(w, p, n), Part(Chunk(<<>>), w, p)
    PROVE  \/ UnchunkStep(s).out = "err" /\ n < Len(w)
           \/ UnchunkStep(s).out = "ok" /\ UnchunkStep(s).body = s.body
<1>1. /\ s.rest \in Seq(BodyUnits) /\ Len(s.rest) \in Nat
      /\ s = [rest |-> s.rest, body |-> s.body, out |-> s.out]
  BY DEF Loop
<1>2. /\ n \in Nat /\ p + 1 \in Nat /\ p + 1 > 0 /\ n <= Len(w) /\ Len(w) \in Nat
  OBVIOUS
<1>3. /\ Len(s.rest) = IF p + 1 <= n THEN (n - (p + 1)) + 1 ELSE 0
      /\ \A q \in 1..Len(s.rest) : s.rest[q] = w[(p + 1) + q - 1]
  BY <1>2, CutShape DEF Left
<1>4. <<>> \in Seq(Nat) /\ Len(<<>>) = 0
  OBVIOUS
<1>5. Len(Chunk(<<>>)) = 2 /\ Chunk(<<>>)[1] = <<"size", 0>>
  <2>1. \A e \in Seq(Nat) : Len(Chunk(e)) = Len(e) + 2 /\ Chunk(e)[1] = <<"size", Len(e)>>
    BY ChunkShape
  <2>2. Len(Chunk(<<>>)) = Len(<<>>) + 2 /\ Chunk(<<>>)[1] = <<"size", Len(<<>>)>>
    BY <1>4, <2>1, Zenon
  <2>3. 0 + 2 = 2
    BY SMT
  <2> QED BY <1>4, <2>2, <2>3, Zenon
<1>6. p + 2 <= Len(w) /\ \A i \in 1..2 : Chunk(<<>>)[i] = w[p + i]
  BY <1>5 DEF Part
<1>7. CASE s.rest = <<>>
  <2>1. UnchunkStep(s).out = "err"
    BY <1>1, <1>7 DEF UnchunkStep
  <2>2. n < Len(w)
    BY <1>2, <1>3, <1>6, <1>7
  <2> QED BY <2>1, <2>2
<1>8. CASE s.rest # <<>>
  <2>1. 1 \in 1..Len(s.rest) /\ (p + 1) + 1 - 1 = p + 1 /\ 1 \in 1..2
    BY <1>1, <1>2, <1>8
  <2>2. s.rest[1] = w[p + 1] /\ Chunk(<<>>)[1] = w[p + 1]
    BY <1>3, <1>6, <2>1
  <2>3. s.rest[1][2] = 0
    <3>1. <<"size", 0>>[2] = 0
      OBVIOUS
    <3> QED BY <1>5, <2>2, <3>1
  <2>4. UnchunkStep(s) = [s EXCEPT !.out = "ok"]
    BY <1>8, <2>3 DEF UnchunkStep
  <2> QED BY <1>1, <2>4
<1> QED BY <1>7, <1>8

\* The units of a concatenation.
LEMMA UnitsConcat ==
    ASSUME NEW b \in Seq(Nat), NEW c \in Seq(Nat)
    PROVE  Units(b) \o Units(c) = Units(b \o c)
<1> DEFINE x == Units(b)
           y == Units(c)
           z == Units(b \o c)
<1>1. /\ b \o c \in Seq(Nat) /\ Len(b \o c) = Len(b) + Len(c)
      /\ \A i \in 1..(Len(b) + Len(c)) : (b \o c)[i] = IF i <= Len(b) THEN b[i] ELSE c[i - Len(b)]
  BY ConcatProperties
<1>2. /\ x \in Seq(BodyUnits) /\ Len(x) = Len(b) /\ \A i \in 1..Len(b) : x[i] = <<"data", b[i]>>
      /\ y \in Seq(BodyUnits) /\ Len(y) = Len(c) /\ \A i \in 1..Len(c) : y[i] = <<"data", c[i]>>
      /\ z \in Seq(BodyUnits) /\ Len(z) = Len(b \o c) /\ \A i \in 1..Len(b \o c) : z[i] = <<"data", (b \o c)[i]>>
  <2>1. ASSUME NEW v \in Seq(Nat)
        PROVE  Units(v) \in Seq(BodyUnits) /\ Len(Units(v)) = Len(v) /\ \A i \in 1..Len(v) : Units(v)[i] = <<"data", v[i]>>
    BY UnitsShape
  <2> QED BY <1>1, <2>1, Zenon
<1> HIDE DEF x, y, z
<1>3. /\ x \o y \in Seq(BodyUnits) /\ Len(x \o y) = Len(x) + Len(y)
      /\ \A i \in 1..(Len(x) + Len(y)) : (x \o y)[i] = IF i <= Len(x) THEN x[i] ELSE y[i - Len(x)]
  <2>1. x \in Seq(BodyUnits) /\ y \in Seq(BodyUnits)
    BY <1>2
  <2> QED BY <2>1, ConcatProperties
<1>4. Len(b) \in Nat /\ Len(c) \in Nat
  OBVIOUS
<1>5. ASSUME NEW i \in 1..Len(x \o y) PROVE (x \o y)[i] = z[i]
  <2>1. i \in 1..(Len(b) + Len(c)) /\ i \in 1..Len(b \o c) /\ i \in 1..(Len(x) + Len(y))
    BY <1>1, <1>2, <1>3
  <2>2. CASE i <= Len(b)
    <3>1. i \in 1..Len(b)
      BY <1>4, <2>1, <2>2
    <3>2. (x \o y)[i] = x[i] /\ (b \o c)[i] = b[i]
      BY <1>1, <1>2, <1>3, <2>1, <2>2
    <3> QED BY <1>2, <2>1, <3>1, <3>2
  <2>3. CASE ~(i <= Len(b))
    <3>1. i - Len(b) \in 1..Len(c)
      BY <1>4, <2>1, <2>3
    <3>2. (x \o y)[i] = y[i - Len(b)] /\ (b \o c)[i] = c[i - Len(b)]
      BY <1>1, <1>2, <1>3, <2>1, <2>3
    <3> QED BY <1>2, <2>1, <3>1, <3>2
  <2> QED BY <2>2, <2>3
<1>6. Len(x \o y) = Len(z)
  BY <1>1, <1>2, <1>3
<1>7. x \o y = z
  BY <1>2, <1>3, <1>5, <1>6, SeqEqual
<1> QED BY <1>7 DEF x, y, z

\* The body in chunks: where each of them begins.
LEMMA ChunkedShape ==
    ASSUME NEW cs \in Seq(Seq(Nat))
    PROVE  /\ Chunked(cs) \in Seq(BodyUnits)
           /\ \E o \in [0..Len(cs) -> Nat] :
                 /\ o[0] = 0
                 /\ \A i \in 1..Len(cs) : /\ o[i] = o[i - 1] + Len(Chunk(cs[i]))
                                          /\ Part(Chunk(cs[i]), Chunked(cs), o[i - 1])
                 /\ Part(Chunk(<<>>), Chunked(cs), o[Len(cs)])
<1> DEFINE m  == Len(cs)
           ws == [i \in DOMAIN cs |-> Chunk(cs[i])]
           fl == FlattenSeq(ws)
           e  == Chunk(<<>>)
           w  == fl \o e
<1>1. m \in Nat /\ DOMAIN cs = 1..m /\ \A i \in 1..m : cs[i] \in Seq(Nat)
  OBVIOUS
<1>2. \A c \in Seq(Nat) : Chunk(c) \in Seq(BodyUnits)
  BY ChunkShape
<1>3. ws \in [1..m -> Seq(BodyUnits)]
  <2> HIDE DEF m
  <2> QED BY <1>1, <1>2
<1>4. ws \in Seq(Seq(BodyUnits)) /\ Len(ws) = m /\ \A i \in 1..m : ws[i] = Chunk(cs[i])
  <2>1. \A i \in 1..m : ws[i] = Chunk(cs[i])
    BY <1>1
  <2> HIDE DEF m, ws
  <2> QED BY <1>1, <1>3, <2>1
<1>5. e \in Seq(BodyUnits)
  <2>1. <<>> \in Seq(Nat)
    OBVIOUS
  <2> QED BY <1>2, <2>1
<1>6. Chunked(cs) = w
  BY DEF Chunked
<1> HIDE DEF ws, e, m
<1>7. PICK f \in [0..Len(ws) -> Seq(BodyUnits)] : Concats(ws, f) /\ FlattenSeq(ws) = f[Len(ws)]
  BY <1>4, FlattenConcats
<1>8. /\ f \in [0..m -> Seq(BodyUnits)] /\ fl = f[m] /\ fl \in Seq(BodyUnits) /\ f[0] = <<>>
      /\ \A i \in 1..m : Len(f[i]) = Len(f[i - 1]) + Len(ws[i]) /\ Part(ws[i], fl, Len(f[i - 1]))
  <2>1. \A i \in 1..Len(ws) : Len(f[i]) = Len(f[i - 1]) + Len(ws[i]) /\ Part(ws[i], f[Len(ws)], Len(f[i - 1]))
    BY <1>4, <1>7, ConcatsParts
  <2> QED BY <1>1, <1>4, <1>7, <2>1 DEF Concats
<1> HIDE DEF fl
<1>9. w \in Seq(BodyUnits) /\ Part(fl, w, 0) /\ Part(e, w, Len(fl))
  BY <1>5, <1>8, PartsOfConcat
<1> HIDE DEF w
<1> DEFINE o == [i \in 0..m |-> Len(f[i])]
<1>10. o \in [0..m -> Nat] /\ o[0] = 0 /\ o[m] = Len(fl)
  BY <1>1, <1>8
<1>11. ASSUME NEW i \in 1..m PROVE o[i] = o[i - 1] + Len(Chunk(cs[i])) /\ Part(Chunk(cs[i]), w, o[i - 1])
  <2>1. i \in 0..m /\ i - 1 \in 0..m
    BY <1>1
  <2>2. f[i - 1] \in Seq(BodyUnits) /\ Len(f[i - 1]) \in Nat /\ ws[i] \in Seq(BodyUnits) /\ ws[i] = Chunk(cs[i])
    <3>1. f[i - 1] \in Seq(BodyUnits)
      BY <1>8, <2>1, Zenon
    <3>2. Len(f[i - 1]) \in Nat
      BY <3>1
    <3> QED BY <1>3, <1>4, <3>1, <3>2, Zenon
  <2>3. o[i] = Len(f[i]) /\ o[i - 1] = Len(f[i - 1])
    BY <2>1
  <2>4. \A q \in Nat : Part(ws[i], fl, q) => Part(ws[i], w, 0 + q)
    <3>1. 0 \in Nat
      OBVIOUS
    <3> QED BY <1>8, <1>9, <2>2, <3>1, PartOfPart, Zenon
  <2>5. 0 + Len(f[i - 1]) = Len(f[i - 1])
    BY <2>2
  <2>6. Part(ws[i], fl, Len(f[i - 1])) /\ Len(f[i]) = Len(f[i - 1]) + Len(ws[i])
    BY <1>8
  <2>7. Part(ws[i], w, 0 + Len(f[i - 1]))
    BY <2>2, <2>4, <2>6, Zenon
  <2> QED BY <2>2, <2>3, <2>5, <2>6, <2>7, Zenon
<1> HIDE DEF o
<1>12. Part(e, w, o[m])
  BY <1>9, <1>10
<1> QED BY <1>6, <1>9, <1>10, <1>11, <1>12 DEF m, e

\* A body in chunks, cut anywhere: the loop ends, well when nothing is missing,
\* and whenever it ends well it has all of the data.
LEMMA UnchunkCut ==
    ASSUME NEW cs \in Seq(Seq(Nat)), \A i \in 1..Len(cs) : cs[i] # <<>>, NEW n \in 0..Len(Chunked(cs))
    PROVE  /\ Unchunk(SubSeq(Chunked(cs), 1, n)).out \in {"ok", "err", "panic"}
           /\ Unchunk(SubSeq(Chunked(cs), 1, n)).out = "ok" =>
                 Values(Unchunk(SubSeq(Chunked(cs), 1, n)).body) = FlattenSeq(cs)
           /\ n = Len(Chunked(cs)) => Unchunk(SubSeq(Chunked(cs), 1, n)).out = "ok"
<1> DEFINE m == Len(cs)
           w == Chunked(cs)
           raw == SubSeq(w, 1, n)
           N == Len(raw) + 1
<1>1. m \in Nat /\ \A i \in 1..m : cs[i] \in Seq(Nat) /\ cs[i] # <<>>
  OBVIOUS
<1>2. w \in Seq(BodyUnits)
  BY ChunkedShape
<1>3. PICK o \in [0..m -> Nat] :
         /\ o[0] = 0
         /\ \A i \in 1..m : o[i] = o[i - 1] + Len(Chunk(cs[i])) /\ Part(Chunk(cs[i]), w, o[i - 1])
         /\ Part(Chunk(<<>>), w, o[m])
  BY ChunkedShape
<1>4. PICK g \in [0..m -> Seq(Nat)] : Concats(cs, g) /\ FlattenSeq(cs) = g[m]
  BY FlattenConcats
<1>5. n \in 0..Len(w) /\ n \in Nat /\ n <= Len(w)
  BY <1>2
<1> HIDE DEF w
<1>6. raw \in Seq(BodyUnits)
  <2>1. \A i, j \in Nat : i > 0 /\ j <= Len(w) => SubSeq(w, i, j) \in Seq(BodyUnits)
    BY <1>2, CutShape
  <2>2. 1 \in Nat /\ 1 > 0
    OBVIOUS
  <2> QED BY <1>5, <2>1, <2>2, Zenon
<1>7. raw = Left(w, 0, n)
  BY DEF Left
<1> HIDE DEF raw
<1>8. N \in Nat /\ N = Len(raw) + 1 /\ Len(raw) \in Nat
  BY <1>6
<1>9. PICK a \in [0..N -> Loop] :
         /\ a[0] = [rest |-> raw, body |-> <<>>, out |-> "more"]
         /\ \A i \in 1..N : a[i] = UnchunkStep(a[i - 1])
         /\ Unchunk(raw) = Parsed(a[N].out, a[N].body)
  BY <1>6, LoopRuns
<1> HIDE DEF m, N
<1> DEFINE More(i) == /\ a[i].out = "more" /\ i <= m /\ a[i].rest = Left(w, o[i], n) /\ a[i].body = Units(g[i])
                      /\ Len(a[i].rest) <= Len(raw) - i
           Done(i) == a[i].out = "ok" /\ a[i].body = Units(g[m])
           Cut(i)  == a[i].out \in {"err", "panic"} /\ n < Len(w)
           T == {i \in 0..N : More(i) \/ Done(i) \/ Cut(i)}
<1>10. 0 \in T
  <2>1. a[0].out = "more" /\ a[0].rest = raw /\ a[0].body = <<>>
    BY <1>9
  <2>2. g[0] = <<>> /\ o[0] = 0
    BY <1>3, <1>4 DEF Concats
  <2>3. Units(<<>>) = <<>>
    BY DEF Units
  <2>4. 0 <= m /\ Len(raw) <= Len(raw) - 0 /\ 0 \in 0..N
    BY <1>1, <1>8
  <2>5. a[0].rest = Left(w, o[0], n) /\ a[0].body = Units(g[0]) /\ Len(a[0].rest) <= Len(raw) - 0
    BY <1>7, <2>1, <2>2, <2>3, <2>4, Zenon
  <2> QED BY <2>1, <2>4, <2>5
<1>11. ASSUME NEW i \in 0..(N - 1), i \in T PROVE i + 1 \in T
  <2> DEFINE j == i + 1
  <2>1. j \in 1..N /\ j \in 0..N /\ j - 1 = i /\ i \in 0..N /\ i \in Nat
    BY <1>8
  <2> HIDE DEF j
  <2>2. a[j] = UnchunkStep(a[i]) /\ a[i] \in Loop /\ a[j] \in Loop
    BY <1>9, <2>1
  <2>3. ASSUME a[i].out # "more" PROVE a[j] = a[i]
    BY <2>2, <2>3 DEF UnchunkStep
  <2>4. CASE Done(i)
    <3>1. a[j] = a[i]
      BY <2>3, <2>4
    <3> QED BY <2>1, <2>4, <3>1 DEF j
  <2>5. CASE Cut(i)
    <3>1. a[j] = a[i]
      BY <2>3, <2>5
    <3> QED BY <2>1, <2>5, <3>1 DEF j
  <2>6. CASE More(i) /\ i < m
    <3>1. j \in 1..m /\ j \in 0..m /\ i \in 0..m /\ o[i] \in Nat /\ g[i] \in Seq(Nat) /\ cs[j] \in Seq(Nat) /\ cs[j] # <<>>
      <4>1. j \in 1..m /\ j \in 0..m /\ i \in 0..m
        BY <1>1, <2>1, <2>6 DEF j
      <4>2. o[i] \in Nat /\ g[i] \in Seq(Nat)
        BY <4>1, Zenon
      <4> QED BY <1>1, <4>1, <4>2
    <3>2. o[j] = o[i] + Len(Chunk(cs[j])) /\ Part(Chunk(cs[j]), w, o[i])
      BY <1>3, <2>1, <3>1
    <3>3. g[j] = g[i] \o cs[j]
      BY <1>4, <2>1, <3>1 DEF Concats, m
    <3>4. \/ UnchunkStep(a[i]).out \in {"err", "panic"} /\ n < Len(w)
          \/ /\ UnchunkStep(a[i]).out = "more"
             /\ UnchunkStep(a[i]).rest = Left(w, o[i] + Len(Chunk(cs[j])), n)
             /\ UnchunkStep(a[i]).body = a[i].body \o Units(cs[j])
      <4>1. a[i] \in Loop /\ a[i].out = "more" /\ a[i].rest = Left(w, o[i], n)
        BY <2>2, <2>6, Zenon
      <4>2. ASSUME NEW s \in Loop, s.out = "more", NEW p \in Nat, s.rest = Left(w, p, n),
                   NEW c \in Seq(Nat), c # <<>>, Part(Chunk(c), w, p)
            PROVE  \/ UnchunkStep(s).out \in {"err", "panic"} /\ n < Len(w)
                   \/ /\ UnchunkStep(s).out = "more"
                      /\ UnchunkStep(s).rest = Left(w, p + Len(Chunk(c)), n)
                      /\ UnchunkStep(s).body = s.body \o Units(c)
        BY <1>2, <1>5, <4>2, TakeChunk
      <4> QED BY <3>1, <3>2, <4>1, <4>2, Zenon
    <3>5. CASE a[j].out \in {"err", "panic"} /\ n < Len(w)
      BY <2>1, <3>5 DEF j
    <3>6. CASE /\ a[j].out = "more" /\ a[j].rest = Left(w, o[j], n)
               /\ a[j].body = a[i].body \o Units(cs[j])
      <4>1. a[j].body = Units(g[j])
        BY <2>6, <3>1, <3>3, <3>6, UnitsConcat
      <4>2. Len(a[j].rest) < Len(a[i].rest)
        BY <2>2, <3>6, StepShape
      <4>3. Len(a[j].rest) \in Nat /\ Len(a[i].rest) \in Nat
        BY <2>2 DEF Loop
      <4>4. Len(a[j].rest) <= Len(raw) - j /\ j <= m
        BY <1>8, <2>1, <2>6, <3>1, <4>2, <4>3 DEF j
      <4>5. More(j)
        BY <3>6, <4>1, <4>4
      <4> QED BY <2>1, <4>5 DEF j
    <3> QED BY <2>2, <3>2, <3>4, <3>5, <3>6
  <2>7. CASE More(i) /\ i = m
    <3>1. o[m] \in Nat /\ m \in 0..m
      BY <1>1
    <3>2. \/ UnchunkStep(a[i]).out = "err" /\ n < Len(w)
          \/ UnchunkStep(a[i]).out = "ok" /\ UnchunkStep(a[i]).body = a[i].body
      BY <1>2, <1>3, <1>5, <2>2, <2>7, <3>1, TakeLast
    <3>3. Done(j) \/ Cut(j)
      BY <2>2, <2>7, <3>2
    <3> QED BY <2>1, <3>3 DEF j
  <2>8. More(i) => i < m \/ i = m
    BY <1>1, <2>1
  <2> QED BY <1>11, <2>4, <2>5, <2>6, <2>7, <2>8
<1>12. \A i \in 0..N : i \in T
  <2> HIDE DEF T
  <2> QED BY <1>8, <1>10, <1>11, BoundedInduction
<1>13. Done(N) \/ Cut(N)
  <2>1. N \in T /\ a[N] \in Loop
    <3>1. N \in 0..N
      BY <1>8
    <3>2. N \in T
      BY <1>12, <3>1, Zenon
    <3>3. a[N] \in Loop
      BY <3>1, Zenon
    <3> QED BY <3>2, <3>3
  <2>2. ~More(N)
    <3>1. Len(a[N].rest) \in Nat
      BY <2>1 DEF Loop
    <3> QED BY <1>8, <3>1
  <2> QED BY <2>1, <2>2
<1>14. Unchunk(raw).out = a[N].out /\ Unchunk(raw).body = a[N].body
  BY <1>9 DEF Parsed
<1>15. Values(Units(g[m])) = g[m]
  <2>1. g[m] \in Seq(Nat)
    <3>1. m \in 0..m
      BY <1>1
    <3> QED BY <3>1, Zenon
  <2> QED BY <2>1, UnitsShape
<1>16. /\ Unchunk(raw).out \in {"ok", "err", "panic"}
       /\ Unchunk(raw).out = "ok" => Values(Unchunk(raw).body) = FlattenSeq(cs)
       /\ n = Len(w) => Unchunk(raw).out = "ok"
  BY <1>4, <1>5, <1>13, <1>14, <1>15 DEF m
<1> QED BY <1>16 DEF raw, w

----------------------------------------------------------------------------
(* Responses.                                                               *)

\* The units of a beginning.
LEMMA UnitsCut ==
    ASSUME NEW b \in Seq(Nat), NEW k \in 0..Len(b)
    PROVE  /\ SubSeq(b, 1, k) \in Seq(Nat) /\ Len(SubSeq(b, 1, k)) = k
           /\ SubSeq(Units(b), 1, k) = Units(SubSeq(b, 1, k))
           /\ k = Len(b) => SubSeq(b, 1, k) = b
<1> DEFINE c == SubSeq(b, 1, k)
           u == Units(b)
           x == SubSeq(u, 1, k)
<1>1. k \in Nat /\ k <= Len(b) /\ 1 \in Nat /\ 1 > 0 /\ Len(b) \in Nat
  OBVIOUS
<1>2. u \in Seq(BodyUnits) /\ Len(u) = Len(b) /\ \A i \in 1..Len(b) : u[i] = <<"data", b[i]>>
  BY UnitsShape
<1> HIDE DEF u
<1>3. c \in Seq(Nat) /\ Len(c) = k /\ \A q \in 1..k : c[q] = b[q]
  <2>1. \A i, j \in Nat : i > 0 /\ j <= Len(b) =>
           /\ SubSeq(b, i, j) \in Seq(Nat)
           /\ Len(SubSeq(b, i, j)) = IF i <= j THEN (j - i) + 1 ELSE 0
           /\ \A q \in 1..Len(SubSeq(b, i, j)) : SubSeq(b, i, j)[q] = b[i + q - 1]
    BY CutShape
  <2>2. /\ c \in Seq(Nat) /\ Len(c) = IF 1 <= k THEN (k - 1) + 1 ELSE 0
        /\ \A q \in 1..Len(c) : c[q] = b[1 + q - 1]
    BY <1>1, <2>1, Zenon
  <2> HIDE DEF c
  <2>3. \A q \in 1..k : 1 + q - 1 = q
    BY <1>1
  <2> QED BY <1>1, <2>2, <2>3
<1>4. x \in Seq(BodyUnits) /\ Len(x) = k /\ \A q \in 1..k : x[q] = u[q]
  <2>1. \A i, j \in Nat : i > 0 /\ j <= Len(u) =>
           /\ SubSeq(u, i, j) \in Seq(BodyUnits)
           /\ Len(SubSeq(u, i, j)) = IF i <= j THEN (j - i) + 1 ELSE 0
           /\ \A q \in 1..Len(SubSeq(u, i, j)) : SubSeq(u, i, j)[q] = u[i + q - 1]
    BY <1>2, CutShape
  <2>2. k <= Len(u)
    BY <1>1, <1>2
  <2>3. /\ x \in Seq(BodyUnits) /\ Len(x) = IF 1 <= k THEN (k - 1) + 1 ELSE 0
        /\ \A q \in 1..Len(x) : x[q] = u[1 + q - 1]
    BY <1>1, <2>1, <2>2, Zenon
  <2> HIDE DEF x
  <2>4. \A q \in 1..k : 1 + q - 1 = q
    BY <1>1
  <2> QED BY <1>1, <2>3, <2>4
<1> HIDE DEF c, x
<1>5. Units(c) \in Seq(BodyUnits) /\ Len(Units(c)) = k /\ \A i \in 1..k : Units(c)[i] = <<"data", c[i]>>
  BY <1>3, UnitsShape
<1>6. ASSUME NEW i \in 1..k PROVE x[i] = Units(c)[i]
  <2>1. i \in 1..Len(b)
    BY <1>1
  <2>2. x[i] = <<"data", b[i]>> /\ c[i] = b[i]
    BY <1>2, <1>3, <1>4, <2>1, Zenon
  <2> QED BY <1>5, <2>2, Zenon
<1>7. x = Units(c)
  BY <1>4, <1>5, <1>6, SeqEqual
<1>8. k = Len(b) => c = b
  BY <1>3, SeqEqual
<1> QED BY <1>3, <1>7, <1>8 DEF c, x, u

\* A stream that was cut, without its first unit.
LEMMA CutTail ==
    ASSUME NEW S, NEW h, NEW w \in Seq(S), NEW n \in 1..(1 + Len(w))
    PROVE  /\ Len(<<h>> \o w) = 1 + Len(w)
           /\ SubSeq(<<h>> \o w, 1, n) # <<>> /\ SubSeq(<<h>> \o w, 1, n)[1] = h
           /\ Tail(SubSeq(<<h>> \o w, 1, n)) = SubSeq(w, 1, n - 1)
<1> DEFINE A == S \cup {h}
           v == <<h>> \o w
           s == SubSeq(v, 1, n)
           t == SubSeq(w, 1, n - 1)
<1>1. <<h>> \in Seq(A) /\ w \in Seq(A) /\ Len(w) \in Nat /\ Len(<<h>>) = 1 /\ <<h>>[1] = h
  OBVIOUS
<1> HIDE DEF A
<1>2. /\ v \in Seq(A) /\ Len(v) = 1 + Len(w)
      /\ \A i \in 1..(1 + Len(w)) : v[i] = IF i <= 1 THEN <<h>>[i] ELSE w[i - 1]
  <2>1. /\ v \in Seq(A) /\ Len(v) = Len(<<h>>) + Len(w)
        /\ \A i \in 1..(Len(<<h>>) + Len(w)) : v[i] = IF i <= Len(<<h>>) THEN <<h>>[i] ELSE w[i - Len(<<h>>)]
    BY <1>1, ConcatProperties
  <2> QED BY <1>1, <2>1
<1>3. v[1] = h /\ \A i \in 1..Len(w) : v[1 + i] = w[i]
  <2>1. v[1] = h
    BY <1>1, <1>2
  <2>2. ASSUME NEW i \in 1..Len(w) PROVE v[1 + i] = w[i]
    <3>1. 1 + i \in 1..(1 + Len(w)) /\ ~(1 + i <= 1) /\ (1 + i) - 1 = i
      BY <1>1
    <3> QED BY <1>2, <3>1
  <2> QED BY <2>1, <2>2
<1> HIDE DEF v
<1>4. n \in Nat /\ n > 0 /\ n <= Len(v) /\ 1 \in Nat /\ 1 > 0 /\ n - 1 \in Nat /\ n - 1 <= Len(w)
  BY <1>1, <1>2
<1>5. s \in Seq(A) /\ Len(s) = n /\ \A q \in 1..n : s[q] = v[q]
  <2>1. \A i, j \in Nat : i > 0 /\ j <= Len(v) =>
           /\ SubSeq(v, i, j) \in Seq(A)
           /\ Len(SubSeq(v, i, j)) = IF i <= j THEN (j - i) + 1 ELSE 0
           /\ \A q \in 1..Len(SubSeq(v, i, j)) : SubSeq(v, i, j)[q] = v[i + q - 1]
    BY <1>2, CutShape
  <2>2. /\ s \in Seq(A) /\ Len(s) = IF 1 <= n THEN (n - 1) + 1 ELSE 0
        /\ \A q \in 1..Len(s) : s[q] = v[1 + q - 1]
    BY <1>4, <2>1, Zenon
  <2> HIDE DEF s
  <2>3. \A q \in 1..n : 1 + q - 1 = q
    BY <1>4
  <2> QED BY <1>4, <2>2, <2>3
<1>6. t \in Seq(A) /\ Len(t) = n - 1 /\ \A q \in 1..(n - 1) : t[q] = w[q]
  <2>1. \A i, j \in Nat : i > 0 /\ j <= Len(w) =>
           /\ SubSeq(w, i, j) \in Seq(A)
           /\ Len(SubSeq(w, i, j)) = IF i <= j THEN (j - i) + 1 ELSE 0
           /\ \A q \in 1..Len(SubSeq(w, i, j)) : SubSeq(w, i, j)[q] = w[i + q - 1]
    BY <1>1, CutShape
  <2>2. /\ t \in Seq(A) /\ Len(t) = IF 1 <= n - 1 THEN ((n - 1) - 1) + 1 ELSE 0
        /\ \A q \in 1..Len(t) : t[q] = w[1 + q - 1]
    BY <1>4, <2>1, Zenon
  <2> HIDE DEF t
  <2>3. \A q \in 1..(n - 1) : 1 + q - 1 = q
    BY <1>4
  <2> QED BY <1>4, <2>2, <2>3
<1> HIDE DEF s, t
<1>7. s # <<>> /\ s[1] = h
  BY <1>3, <1>4, <1>5
<1>8. /\ Tail(s) \in Seq(A) /\ Len(Tail(s)) = Len(s) - 1
      /\ \A i \in 1..(Len(s) - 1) : Tail(s)[i] = s[i + 1]
  BY <1>5, <1>7, HeadTailProperties
<1> DEFINE z == Tail(s)
<1> HIDE DEF z
<1>9. z \in Seq(A) /\ Len(z) = n - 1 /\ \A i \in 1..(n - 1) : z[i] = s[i + 1]
  BY <1>5, <1>8 DEF z
<1>10. ASSUME NEW i \in 1..(n - 1) PROVE z[i] = t[i]
  <2>1. i + 1 \in 1..n /\ i + 1 = 1 + i /\ i \in 1..Len(w)
    BY <1>4, <1>1
  <2> QED BY <1>3, <1>5, <1>6, <1>9, <2>1
<1>11. z = t
  BY <1>6, <1>9, <1>10, SeqEqual
<1> QED BY <1>2, <1>7, <1>11 DEF z, s, t, v

\* What SiteAssumption says of a page.
Served(page) ==
    /\ page.framing \in {"length", "chunked", "eof"}
    /\ page.chunks \in Seq(Seq(Nat)) /\ \A i \in 1..Len(page.chunks) : page.chunks[i] # <<>>

\* A body is a sequence of data.
LEMMA BodyShape ==
    ASSUME NEW page, Served(page)
    PROVE  Body(page) \in Seq(Nat)
<1> DEFINE cs == page.chunks
<1>1. cs \in Seq(Seq(Nat)) /\ Len(cs) \in Nat
  BY DEF Served
<1> HIDE DEF cs
<1>2. PICK g \in [0..Len(cs) -> Seq(Nat)] : Concats(cs, g) /\ FlattenSeq(cs) = g[Len(cs)]
  BY <1>1, FlattenConcats
<1>3. Len(cs) \in 0..Len(cs)
  BY <1>1
<1>4. g[Len(cs)] \in Seq(Nat)
  BY <1>3, Zenon
<1> QED BY <1>2, <1>4 DEF cs, Body

\* A response that was cut anywhere is parsed to what its length tells, or to
\* what came of it; if nothing is missing it is parsed.
LEMMA ParseCut ==
    ASSUME NEW page, Served(page), NEW n \in 0..Len(Wire(page)), NEW r, r = parse_http_response(SubSeq(Wire(page), 1, n))
    PROVE  /\ r.out \in {"ok", "err", "panic"}
           /\ n = Len(Wire(page)) => r.out = "ok"
           /\ r.out = "ok" => IF page.framing = "eof" THEN IsPrefix(Values(r.body), Body(page))
                              ELSE Values(r.body) = Body(page)
<1> DEFINE b == Body(page)
           h == Unit("head", page)
           w == IF page.framing = "chunked" THEN Chunked(page.chunks) ELSE Units(b)
           raw == SubSeq(Wire(page), 1, n)
           k == n - 1
           rest == SubSeq(w, 1, k)
<1>1. b \in Seq(Nat) /\ page.chunks \in Seq(Seq(Nat)) /\ \A i \in 1..Len(page.chunks) : page.chunks[i] # <<>>
  BY BodyShape DEF Served
<1>2. Wire(page) = <<h>> \o w
  BY DEF Wire
<1> HIDE DEF b, h
<1>3. w \in Seq(BodyUnits)
  <2>1. Chunked(page.chunks) \in Seq(BodyUnits)
    BY <1>1, ChunkedShape
  <2>2. Units(b) \in Seq(BodyUnits)
    BY <1>1, UnitsShape
  <2> QED BY <2>1, <2>2
<1>4. h[2] = page
  BY DEF h, Unit
<1> HIDE DEF w
<1>5. Len(w) \in Nat /\ Len(<<h>> \o w) = 1 + Len(w)
  <2>1. Len(w) \in Nat /\ 1 \in 1..(1 + Len(w))
    BY <1>3
  <2> QED BY <1>3, <2>1, CutTail
<1>6. CASE n = 0
  <2>1. raw = <<>>
    <3>1. SubSeq(Wire(page), 1, 0) = <<>>
      BY SubSeqEmpty
    <3> QED BY <1>6, <3>1
  <2>2. r = Parsed("err", <<>>)
    BY <2>1 DEF parse_http_response
  <2>3. r.out = "err"
    BY <2>2 DEF Parsed
  <2> QED BY <1>2, <1>5, <1>6, <2>3
<1>7. CASE n # 0
  <2>1. n \in 1..(1 + Len(w)) /\ k \in 0..Len(w) /\ k \in Nat /\ (n = Len(Wire(page)) <=> k = Len(w))
    BY <1>2, <1>5, <1>7
  <2>2. raw # <<>> /\ raw[1] = h /\ Tail(raw) = rest
    <3>1. \A j \in 1..(1 + Len(w)) :
             /\ SubSeq(<<h>> \o w, 1, j) # <<>> /\ SubSeq(<<h>> \o w, 1, j)[1] = h
             /\ Tail(SubSeq(<<h>> \o w, 1, j)) = SubSeq(w, 1, j - 1)
      BY <1>3, CutTail
    <3> QED BY <1>2, <2>1, <3>1, Zenon
  <2> HIDE DEF raw, rest, k
  <2>3. r = IF page.framing = "length"
            THEN IF Len(rest) < Len(b) THEN Parsed("err", <<>>) ELSE Parsed("ok", SubSeq(rest, 1, Len(b)))
            ELSE IF page.framing = "chunked" THEN Unchunk(rest)
            ELSE Parsed("ok", rest)
    <3>1. raw[1][2] = page
      BY <1>4, <2>2
    <3>2. r = parse_http_response(raw)
      BY DEF raw
    <3> QED BY <2>2, <3>1, <3>2, Zenon DEF parse_http_response, b
  <2>4. CASE page.framing = "chunked"
    <3>1. w = Chunked(page.chunks) /\ r = Unchunk(rest)
      BY <2>3, <2>4 DEF w
    <3> DEFINE cs == page.chunks
    <3>2. cs \in Seq(Seq(Nat)) /\ (\A i \in 1..Len(cs) : cs[i] # <<>>) /\ w = Chunked(cs) /\ b = FlattenSeq(cs)
      BY <1>1, <3>1 DEF b, Body
    <3> HIDE DEF cs
    <3>3. \A j \in 0..Len(Chunked(cs)) :
             /\ Unchunk(SubSeq(Chunked(cs), 1, j)).out \in {"ok", "err", "panic"}
             /\ Unchunk(SubSeq(Chunked(cs), 1, j)).out = "ok" =>
                   Values(Unchunk(SubSeq(Chunked(cs), 1, j)).body) = FlattenSeq(cs)
             /\ j = Len(Chunked(cs)) => Unchunk(SubSeq(Chunked(cs), 1, j)).out = "ok"
      BY <3>2, UnchunkCut
    <3>4. /\ Unchunk(rest).out \in {"ok", "err", "panic"}
          /\ Unchunk(rest).out = "ok" => Values(Unchunk(rest).body) = b
          /\ k = Len(w) => Unchunk(rest).out = "ok"
      BY <2>1, <3>2, <3>3, Zenon DEF rest
    <3>5. page.framing # "eof"
      BY <2>4
    <3> QED BY <2>1, <3>1, <3>4, <3>5 DEF b
  <2>5. CASE page.framing # "chunked"
    <3> DEFINE c == SubSeq(b, 1, k)
    <3>1. w = Units(b) /\ Len(w) = Len(b)
      BY <1>1, <2>5, UnitsShape DEF w
    <3>2. k \in 0..Len(b) /\ Len(b) \in Nat
      BY <1>1, <2>1, <3>1
    <3>3. c \in Seq(Nat) /\ Len(c) = k /\ rest = Units(c) /\ (k = Len(b) => c = b)
      BY <1>1, <3>1, <3>2, UnitsCut DEF rest
    <3> HIDE DEF c
    <3>4. Len(rest) = k /\ Values(rest) = c
      BY <3>3, UnitsShape
    <3>5. CASE page.framing = "length"
      <4>1. CASE k < Len(b)
        <5>1. r = Parsed("err", <<>>)
          BY <2>3, <3>4, <3>5, <4>1
        <5>2. r.out = "err" /\ n # Len(Wire(page))
          BY <2>1, <3>1, <3>2, <4>1, <5>1 DEF Parsed
        <5> QED BY <5>2
      <4>2. CASE ~(k < Len(b))
        <5>1. k = Len(b) /\ rest = Units(b)
          BY <3>2, <3>3, <4>2
        <5>2. r = Parsed("ok", SubSeq(rest, 1, Len(b)))
          BY <2>3, <3>4, <3>5, <4>2
        <5>3. SubSeq(rest, 1, Len(b)) = Units(b)
          <6>1. \A j \in 0..Len(b) : /\ SubSeq(Units(b), 1, j) = Units(SubSeq(b, 1, j))
                                     /\ j = Len(b) => SubSeq(b, 1, j) = b
            BY <1>1, UnitsCut
          <6>2. Len(b) \in 0..Len(b)
            BY <3>2
          <6> QED BY <5>1, <6>1, <6>2, Zenon
        <5>4. r.out = "ok" /\ r.body = Units(b)
          BY <5>2, <5>3 DEF Parsed
        <5>5. Values(Units(b)) = b
          BY <1>1, UnitsShape
        <5> QED BY <3>5, <5>4, <5>5 DEF b
      <4> QED BY <4>1, <4>2
    <3>6. CASE page.framing = "eof"
      <4>1. r = Parsed("ok", rest)
        BY <2>3, <3>6
      <4>2. r.out = "ok" /\ r.body = rest
        BY <4>1 DEF Parsed
      <4>3. IsPrefix(c, b)
        <5>1. SubSeq(c, 1, k) = c
          <6>1. k \in 0..Len(c)
            BY <3>2, <3>3
          <6> QED BY <3>3, <6>1, UnitsCut
        <5>2. SubSeq(c, 1, Len(c)) = SubSeq(b, 1, Len(c))
          BY <3>3, <5>1 DEF c
        <5>3. Len(c) <= Len(b)
          BY <3>2, <3>3
        <5> QED BY <5>2, <5>3 DEF IsPrefix
      <4> QED BY <3>4, <3>6, <4>2, <4>3 DEF b
    <3> QED BY <2>5, <3>5, <3>6 DEF Served
  <2> QED BY <2>4, <2>5
<1> QED BY <1>6, <1>7

----------------------------------------------------------------------------
(* Redirects.                                                               *)

\* What SiteAssumption says of the page at u.
LEMMA SiteShape ==
    ASSUME NEW u \in DOMAIN Site
    PROVE  /\ Served(Site[u])
           /\ Follows(Site[u]) => Site[u].to \in DOMAIN Site /\ resolve_redirect(u, Site[u].loc) = Site[u].to
<1> DEFINE page == Site[u]
           to   == page.to
           segs == page.loc.segments
           p    == u.path
<1>1. /\ p \in Seq(STRING) /\ p # <<>> /\ page.framing \in {"length", "chunked", "eof"}
      /\ page.chunks \in Seq(Seq(Nat)) /\ <<>> \notin {page.chunks[i] : i \in DOMAIN page.chunks}
      /\ segs \in Seq(STRING)
      /\ Follows(page) => to \in DOMAIN Site /\ Means(u, page.loc, to)
  BY SiteAssumption
<1>2. \A v \in DOMAIN Site : v.path \in Seq(STRING)
  BY SiteAssumption
<1>3. Served(page)
  <2> DEFINE cs == page.chunks
  <2>1. cs \in Seq(Seq(Nat)) /\ <<>> \notin {cs[i] : i \in DOMAIN cs}
    BY <1>1
  <2> HIDE DEF cs
  <2>2. DOMAIN cs = 1..Len(cs)
    BY <2>1
  <2>3. \A i \in 1..Len(cs) : cs[i] # <<>>
    BY <2>1, <2>2
  <2> QED BY <1>1, <2>1, <2>3 DEF Served, cs
<1>4. ASSUME Follows(page) PROVE to \in DOMAIN Site /\ resolve_redirect(u, page.loc) = to
  <2>1. to \in DOMAIN Site /\ Means(u, page.loc, to) /\ to.path \in Seq(STRING)
    BY <1>1, <1>2, <1>4
  <2>2. CASE page.loc.form = "https" /\ to = page.loc.url
    BY <2>1, <2>2 DEF resolve_redirect
  <2>3. CASE page.loc.form = "path" /\ to = Url(u.host, to.path) /\ to.path = page.loc.segments
    <3>1. resolve_redirect(u, page.loc) = Url(u.host, page.loc.segments)
      BY <2>3 DEF resolve_redirect
    <3> QED BY <2>1, <2>3, <3>1
  <2>4. CASE /\ page.loc.form = "rel" /\ to = Url(u.host, to.path) /\ Len(to.path) = Len(p) - 1 + Len(segs)
             /\ \A i \in DOMAIN to.path : to.path[i] = IF i < Len(p) THEN p[i] ELSE segs[i - (Len(p) - 1)]
    <3> DEFINE f == Front(p)
               t == to.path
    <3>1. resolve_redirect(u, page.loc) = Url(u.host, f \o segs)
      BY <2>4 DEF resolve_redirect
    <3>2. t \in Seq(STRING) /\ Len(t) = Len(p) - 1 + Len(segs) /\ DOMAIN t = 1..Len(t)
      <4>1. t \in Seq(STRING)
        BY <2>1, Zenon
      <4>2. Len(t) = Len(p) - 1 + Len(segs)
        BY <2>4, Zenon
      <4> HIDE DEF t
      <4>3. DOMAIN t = 1..Len(t)
        BY <4>1
      <4> QED BY <4>1, <4>2, <4>3, Zenon
    <3>3. \A i \in 1..Len(t) : t[i] = IF i < Len(p) THEN p[i] ELSE segs[i - (Len(p) - 1)]
      BY <2>4, <3>2, Zenon
    <3> HIDE DEF p, t, segs
    <3>4. Len(p) \in Nat /\ Len(p) > 0 /\ Len(segs) \in Nat
      BY <1>1
    <3>5. f \in Seq(STRING) /\ Len(f) = Len(p) - 1 /\ \A i \in 1..(Len(p) - 1) : f[i] = p[i]
      <4>1. \A i, j \in Nat : i > 0 /\ j <= Len(p) =>
               /\ SubSeq(p, i, j) \in Seq(STRING)
               /\ Len(SubSeq(p, i, j)) = IF i <= j THEN (j - i) + 1 ELSE 0
               /\ \A q \in 1..Len(SubSeq(p, i, j)) : SubSeq(p, i, j)[q] = p[i + q - 1]
        BY <1>1, CutShape
      <4>2. 1 \in Nat /\ 1 > 0 /\ Len(p) - 1 \in Nat /\ Len(p) - 1 <= Len(p)
        BY <3>4
      <4>3. /\ f \in Seq(STRING) /\ Len(f) = IF 1 <= Len(p) - 1 THEN ((Len(p) - 1) - 1) + 1 ELSE 0
            /\ \A q \in 1..Len(f) : f[q] = p[1 + q - 1]
        BY <4>1, <4>2, Zenon DEF Front
      <4> HIDE DEF f
      <4>4. Len(f) = Len(p) - 1
        <5>1. \A l \in Nat : l > 0 => (IF 1 <= l - 1 THEN ((l - 1) - 1) + 1 ELSE 0) = l - 1
          OBVIOUS
        <5> QED BY <3>4, <4>3, <5>1, Zenon
      <4>5. ASSUME NEW q \in 1..(Len(p) - 1) PROVE f[q] = p[q]
        <5>1. 1 + q - 1 = q /\ q \in 1..Len(f)
          BY <3>4, <4>4
        <5> QED BY <4>3, <5>1
      <4> QED BY <4>3, <4>4, <4>5
    <3> HIDE DEF f
    <3>6. /\ f \o segs \in Seq(STRING) /\ Len(f \o segs) = Len(f) + Len(segs)
          /\ \A i \in 1..(Len(f) + Len(segs)) : (f \o segs)[i] = IF i <= Len(f) THEN f[i] ELSE segs[i - Len(f)]
      <4>1. f \in Seq(STRING) /\ segs \in Seq(STRING)
        BY <1>1, <3>5
      <4> QED BY <4>1, ConcatProperties
    <3>7. ASSUME NEW i \in 1..Len(t) PROVE t[i] = (f \o segs)[i]
      <4>1. i \in 1..(Len(f) + Len(segs))
        BY <3>2, <3>4, <3>5
      <4>2. CASE i < Len(p)
        <5>1. i <= Len(f) /\ i \in 1..(Len(p) - 1)
          BY <3>4, <3>5, <4>2
        <5> QED BY <3>3, <3>5, <3>6, <4>1, <4>2, <5>1
      <4>3. CASE ~(i < Len(p))
        <5>1. ~(i <= Len(f)) /\ i - Len(f) = i - (Len(p) - 1)
          BY <3>4, <3>5, <4>3
        <5> QED BY <3>3, <3>6, <4>1, <4>3, <5>1
      <4> QED BY <4>2, <4>3
    <3>8. t = f \o segs
      <4>1. Len(t) = Len(f \o segs)
        BY <3>2, <3>4, <3>5, <3>6
      <4> QED BY <3>2, <3>6, <3>7, <4>1, SeqEqual
    <3> QED BY <2>1, <2>4, <3>1, <3>8 DEF t
  <2> QED BY <2>1, <2>2, <2>3, <2>4 DEF Means
<1> QED BY <1>3, <1>4

\* The trail of redirects, step by step.
LEMMA TrailShape ==
    ASSUME NEW u \in DOMAIN Site
    PROVE  /\ Trail(u)[0] = u
           /\ \A i \in 0..9 : Trail(u)[i] \in DOMAIN Site
           /\ \A i \in 1..9 : Trail(u)[i] = IF Follows(Site[Trail(u)[i - 1]]) THEN Site[Trail(u)[i - 1]].to
                                            ELSE Trail(u)[i - 1]
<1> DEFINE D == DOMAIN Site
           Step(v) == IF Follows(Site[v]) THEN Site[v].to ELSE v
           F == [i \in 1..9 |-> [v \in D |-> Step(v)]]
           E(g) == [i \in 0..9 |-> IF i = 0 THEN u ELSE Step(g[i - 1])]
           c == CHOOSE g : g = E(g)
<1>1. \A v \in D : Step(v) \in D
  BY SiteShape
<1>2. F \in [1..9 -> [D -> D]]
  <2> HIDE DEF Step, D
  <2> QED BY <1>1
<1>3. PICK f \in [0..9 -> D] : Recursion(f, u, 9, F)
  <2> HIDE DEF F
  <2>1. 9 \in Nat
    OBVIOUS
  <2> QED BY <1>2, <2>1, RecursionExists
<1>4. f = E(f)
  <2>1. ASSUME NEW i \in 0..9 PROVE f[i] = IF i = 0 THEN u ELSE Step(f[i - 1])
    <3>1. CASE i = 0
      <4> HIDE DEF F
      <4> QED BY <1>3, <3>1 DEF Recursion
    <3>2. CASE i # 0
      <4>1. i \in 1..9 /\ i - 1 \in 0..9
        BY <3>2
      <4> HIDE DEF Step, D
      <4>2. f[i] = F[i][f[i - 1]] /\ f[i - 1] \in D
        BY <1>3, <4>1 DEF Recursion
      <4> QED BY <3>2, <4>1, <4>2
    <3> QED BY <3>1, <3>2
  <2> HIDE DEF Step
  <2> QED BY <2>1
<1>5. c = E(c)
  <2> HIDE DEF Step
  <2> QED BY <1>4
<1>6. Trail(u) = c
  BY DEF Trail
<1>7. c[0] = u /\ \A i \in 1..9 : c[i] = Step(c[i - 1])
  <2> HIDE DEF c, Step
  <2>1. \A i \in 0..9 : c[i] = IF i = 0 THEN u ELSE Step(c[i - 1])
    BY <1>5
  <2>2. ASSUME NEW i \in 1..9 PROVE c[i] = Step(c[i - 1])
    <3>1. i \in 0..9 /\ i # 0
      OBVIOUS
    <3> QED BY <2>1, <3>1
  <2>3. c[0] = u
    BY <2>1
  <2> QED BY <2>2, <2>3
<1>8. \A i \in 0..9 : c[i] \in D
  <2> DEFINE T == {i \in 0..9 : c[i] \in D}
  <2> HIDE DEF c, Step, D
  <2>1. 0 \in T
    BY <1>7 DEF D
  <2>2. ASSUME NEW i \in 0..(9 - 1), i \in T PROVE i + 1 \in T
    <3>1. i + 1 \in 1..9 /\ i + 1 \in 0..9 /\ (i + 1) - 1 = i
      OBVIOUS
    <3>2. c[i + 1] = Step(c[i])
      BY <1>7, <3>1
    <3>3. c[i + 1] \in D
      BY <1>1, <2>2, <3>2
    <3> QED BY <3>1, <3>3
  <2>3. \A i \in 0..9 : i \in T
    <3> HIDE DEF T
    <3>1. 9 \in Nat
      OBVIOUS
    <3> QED BY <2>1, <2>2, <3>1, BoundedInduction
  <2> QED BY <2>3
<1> HIDE DEF c
<1> QED BY <1>6, <1>7, <1>8

\* Where there is nothing to follow the trail ends.
LEMMA TrailStays ==
    ASSUME NEW u \in DOMAIN Site, NEW i \in 0..9, ~Follows(Site[Trail(u)[i]])
    PROVE  Trail(u)[9] = Trail(u)[i]
<1> DEFINE t == Trail(u)
           T == {j \in 0..9 : i <= j => t[j] = t[i]}
<1>1. \A j \in 1..9 : t[j] = IF Follows(Site[t[j - 1]]) THEN Site[t[j - 1]].to ELSE t[j - 1]
  BY TrailShape
<1> HIDE DEF t
<1>2. 0 \in T
  OBVIOUS
<1>3. ASSUME NEW j \in 0..(9 - 1), j \in T PROVE j + 1 \in T
  <2>1. j + 1 \in 1..9 /\ j + 1 \in 0..9 /\ (j + 1) - 1 = j
    OBVIOUS
  <2>2. CASE i <= j
    <3>1. t[j] = t[i]
      BY <1>3, <2>2
    <3>2. t[j + 1] = t[j]
      BY <1>1, <2>1, <3>1 DEF t
    <3> QED BY <2>1, <3>1, <3>2
  <2>3. CASE ~(i <= j)
    <3>1. i <= j + 1 => i = j + 1
      BY <2>3
    <3> QED BY <2>1, <3>1
  <2> QED BY <2>2, <2>3
<1>4. \A j \in 0..9 : j \in T
  <2> HIDE DEF T
  <2>1. 9 \in Nat
    OBVIOUS
  <2> QED BY <1>2, <1>3, <2>1, BoundedInduction
<1>5. 9 \in T
  BY <1>4
<1> QED BY <1>5 DEF t

----------------------------------------------------------------------------
(* The invariant.                                                           *)

HttpTypes ==
    /\ proxy \in Proxies /\ first \in Starts /\ hops \in 0..10
    /\ hpc \in {"hop", "connect", "tunnel", "greet", "auth", "request", "tls", "recv", "done"}
    /\ out \in {"none", "ok", "err", "panic"}
    /\ cause \in {"none", "peer", "domain"}

\* A hop begins where the redirects so far lead; after ten there would be one
\* more.
OnTrail ==
    /\ hpc = "hop" => IF hops < 10 THEN cur = Trail(first)[hops] ELSE Redirects(Site[Trail(first)[9]])
    /\ hpc \notin {"hop", "done"} => hops > 0 /\ cur = Trail(first)[hops - 1]

\* Bytes of a proxy are in the way of TLS only if there was a reason.
StreamClean ==
    /\ hpc = "connect" => inbuf = <<>>
    /\ hpc = "tls" => inbuf = <<>> \/ cause # "none"

\* Only a call that has returned has an outcome.
Outcomes == (hpc = "done" <=> out # "none") /\ ResponseExact /\ FailureHasCause

HttpInv == HttpTypes /\ OnTrail /\ StreamClean /\ Outcomes

\* A call begins with the URL it was given.
LEMMA HttpStart == HttpInit => HttpInv
<1> SUFFICES ASSUME HttpInit PROVE HttpInv
    OBVIOUS
<1>1. /\ proxy \in Proxies /\ first \in Starts /\ cur = first /\ hpc = "hop" /\ hops = 0 /\ inbuf = <<>>
      /\ out = "none" /\ cause = "none"
  BY DEF HttpInit
<1>2. HttpTypes
  BY <1>1 DEF HttpTypes
<1>3. OnTrail
  <2>1. first \in DOMAIN Site
    BY <1>1, SiteAssumption
  <2>2. Trail(first)[0] = first
    BY <2>1, TrailShape
  <2> QED BY <1>1, <2>2 DEF OnTrail
<1>4. StreamClean
  BY <1>1 DEF StreamClean
<1>5. Outcomes
  BY <1>1 DEF Outcomes, ResponseExact, FailureHasCause
<1> QED BY <1>2, <1>3, <1>4, <1>5 DEF HttpInv

\* A call that fails for a cause.
LEMMA FailInv ==
    ASSUME HttpInv, UNCHANGED <<proxy, first, hops>>, hpc' = "done", out' \in {"err", "panic"},
           cause' \in {"none", "peer", "domain"}, cause' # "none" \/ proxy = "noport" \/ Reach(first) = {}
    PROVE  HttpInv'
<1>1. HttpTypes'
  BY DEF HttpInv, HttpTypes
<1>2. OnTrail' /\ StreamClean'
  BY DEF OnTrail, StreamClean
<1>3. FailureHasCause'
  BY DEF FailureHasCause
<1>4. ResponseExact'
  BY DEF ResponseExact
<1>5. Outcomes'
  BY <1>3, <1>4 DEF Outcomes
<1> QED BY <1>1, <1>2, <1>5 DEF HttpInv

\* A call that goes on with the same hop.
LEMMA OnInv ==
    ASSUME HttpInv, UNCHANGED <<proxy, first, cur, hops, out>>, hpc \notin {"hop", "done"},
           hpc' \in {"tunnel", "greet", "auth", "request", "tls", "recv"},
           cause' \in {"none", "peer", "domain"}, hpc' = "tls" => inbuf' = <<>> \/ cause' # "none"
    PROVE  HttpInv'
<1>1. HttpTypes'
  BY DEF HttpInv, HttpTypes
<1>2. OnTrail'
  BY DEF HttpInv, OnTrail
<1>3. StreamClean'
  BY DEF StreamClean
<1>4. out = "none"
  BY DEF HttpInv, Outcomes
<1>5. Outcomes'
  BY <1>4 DEF Outcomes, ResponseExact, FailureHasCause
<1> QED BY <1>1, <1>2, <1>3, <1>5 DEF HttpInv

\* The causes stay causes.
LEMMA BlameIs ==
    ASSUME HttpInv, NEW ok \in BOOLEAN, Blame(ok)
    PROVE  cause' \in {"none", "peer", "domain"} /\ (~ok => cause' # "none")
<1>1. cause \in {"none", "peer", "domain"}
  BY DEF HttpInv, HttpTypes
<1> QED BY <1>1 DEF Blame

\* Hop.
LEMMA HopInv ==
    ASSUME HttpInv, Hop
    PROVE  HttpInv'
<1>1. hpc = "hop" /\ UNCHANGED <<proxy, first, cur, body, cause>>
  BY DEF Hop
<1>2. /\ hops \in 0..10 /\ cause \in {"none", "peer", "domain"} /\ first \in Starts
      /\ IF hops < 10 THEN cur = Trail(first)[hops] ELSE Redirects(Site[Trail(first)[9]])
  BY <1>1 DEF HttpInv, HttpTypes, OnTrail
<1>3. CASE hops = 10 /\ Err /\ UNCHANGED <<hops, inbuf>>
  <2>1. Reach(first) = {}
    BY <1>2, <1>3 DEF Reach
  <2>2. hpc' = "done" /\ out' = "err"
    BY <1>3 DEF Err, Return
  <2> QED BY <1>1, <1>2, <1>3, <2>1, <2>2, FailInv
<1>4. CASE hops < 10 /\ hops' = hops + 1 /\ inbuf' = <<>> /\ At("connect") /\ UNCHANGED out
  <2>1. hpc' = "connect"
    BY <1>4 DEF At
  <2>2. HttpTypes'
    BY <1>1, <1>2, <1>4, <2>1 DEF HttpInv, HttpTypes
  <2>3. OnTrail'
    <3>1. hops' > 0 /\ hops' - 1 = hops /\ cur = Trail(first)[hops]
      BY <1>2, <1>4
    <3> QED BY <1>1, <2>1, <3>1 DEF OnTrail
  <2>4. StreamClean'
    BY <1>4, <2>1 DEF StreamClean
  <2>5. out = "none"
    BY <1>1 DEF HttpInv, Outcomes
  <2>6. Outcomes'
    BY <1>4, <2>1, <2>5 DEF Outcomes, ResponseExact, FailureHasCause
  <2> QED BY <2>2, <2>3, <2>4, <2>6 DEF HttpInv
<1> QED BY <1>3, <1>4 DEF Hop

\* tcp_connect.
LEMMA ConnectInv ==
    ASSUME HttpInv, tcp_connect
    PROVE  HttpInv'
<1>1. hpc = "connect" /\ UNCHANGED <<proxy, first, cur, hops, inbuf, body>>
  BY DEF tcp_connect
<1>2. inbuf = <<>> /\ cause \in {"none", "peer", "domain"}
  BY <1>1 DEF HttpInv, HttpTypes, StreamClean
<1>3. CASE proxy = "noport" /\ Err /\ UNCHANGED cause
  BY <1>1, <1>2, <1>3, FailInv DEF Err, Return
<1>4. CASE proxy # "noport" /\ Err /\ Blame(FALSE)
  <2>1. cause' \in {"none", "peer", "domain"} /\ cause' # "none"
    BY <1>4, BlameIs
  <2> QED BY <1>1, <1>4, <2>1, FailInv DEF Err, Return
<1>5. CASE /\ At(CASE proxy = "none" -> "tls" [] proxy = "connect" -> "tunnel" [] OTHER -> "greet")
           /\ UNCHANGED <<out, cause>>
  <2>1. hpc' \in {"tls", "tunnel", "greet"}
    BY <1>5 DEF At
  <2> QED BY <1>1, <1>2, <1>5, <2>1, OnInv
<1> QED BY <1>3, <1>4, <1>5 DEF tcp_connect

\* tls_stream.
LEMMA TlsInv ==
    ASSUME HttpInv, tls_stream
    PROVE  HttpInv'
<1>1. hpc = "tls" /\ UNCHANGED <<proxy, first, cur, hops, inbuf, body>>
  BY DEF tls_stream
<1>2. (inbuf = <<>> \/ cause # "none") /\ cause \in {"none", "peer", "domain"}
  BY <1>1 DEF HttpInv, HttpTypes, StreamClean
<1>3. CASE inbuf # <<>> /\ Err /\ UNCHANGED cause
  BY <1>1, <1>2, <1>3, FailInv DEF Err, Return
<1>4. CASE inbuf = <<>> /\ Err /\ Blame(FALSE)
  <2>1. cause' \in {"none", "peer", "domain"} /\ cause' # "none"
    BY <1>4, BlameIs
  <2> QED BY <1>1, <1>4, <2>1, FailInv DEF Err, Return
<1>5. CASE inbuf = <<>> /\ At("recv") /\ UNCHANGED <<out, cause>>
  BY <1>1, <1>2, <1>5, OnInv DEF At
<1> QED BY <1>3, <1>4, <1>5 DEF tls_stream

\* A read of the answer to CONNECT.
LEMMA TunnelInv ==
    ASSUME HttpInv, NEW part, ConnectRead(part)
    PROVE  HttpInv'
<1> DEFINE resp  == inbuf \o part
           whole == part # <<>> /\ Last(part) = EndOfHead
           ok    == part # <<>> /\ resp[1] = 200
<1>1. /\ hpc = "tunnel" /\ UNCHANGED <<proxy, first, cur, hops, body>>
      /\ inbuf' = (IF whole THEN <<>> ELSE resp) /\ Blame(ok)
      /\ IF part = <<>> THEN Err
         ELSE IF ~whole THEN At("tunnel") /\ UNCHANGED out
         ELSE IF resp[1] # 200 THEN Err
         ELSE At("tls") /\ UNCHANGED out
  BY DEF ConnectRead
<1>2. ok \in BOOLEAN
  OBVIOUS
<1> HIDE DEF resp, whole
<1>3. cause' \in {"none", "peer", "domain"} /\ (~ok => cause' # "none")
  BY <1>1, <1>2, BlameIs
<1>4. CASE Err /\ ~ok
  BY <1>1, <1>3, <1>4, FailInv DEF Err, Return
<1>5. CASE At("tunnel") /\ UNCHANGED out
  BY <1>1, <1>3, <1>5, OnInv DEF At
<1>6. CASE whole /\ At("tls") /\ UNCHANGED out
  BY <1>1, <1>3, <1>6, OnInv DEF At
<1> QED BY <1>1, <1>4, <1>5, <1>6

\* The SOCKS5 methods.
LEMMA GreetInv ==
    ASSUME HttpInv, NEW r \in Replies, SocksGreet(r)
    PROVE  HttpInv'
<1> DEFINE ok == r = <<5, 0>> \/ (proxy = "socksuser" /\ r = <<5, 2>>)
<1>1. /\ hpc = "greet" /\ UNCHANGED <<proxy, first, cur, hops, inbuf, body>> /\ Blame(ok)
      /\ IF Len(r) < 2 \/ r[1] # 5 \/ r[2] \notin {0, 2} THEN Err
         ELSE At(IF r[2] = 2 THEN "auth" ELSE "request") /\ UNCHANGED out
  BY DEF SocksGreet
<1>2. ok \in BOOLEAN
  OBVIOUS
<1>3. Len(r) < 2 \/ r[1] # 5 \/ r[2] \notin {0, 2} => ~ok
  <2>1. ASSUME ok PROVE Len(r) = 2 /\ r[1] = 5 /\ r[2] \in {0, 2}
    BY <2>1
  <2> QED BY <2>1
<1> HIDE DEF ok
<1>4. cause' \in {"none", "peer", "domain"} /\ (~ok => cause' # "none")
  BY <1>1, <1>2, BlameIs
<1>5. CASE Err /\ ~ok
  BY <1>1, <1>4, <1>5, FailInv DEF Err, Return
<1>6. CASE At(IF r[2] = 2 THEN "auth" ELSE "request") /\ UNCHANGED out
  <2>1. hpc' \in {"auth", "request"}
    BY <1>6 DEF At
  <2> QED BY <1>1, <1>4, <1>6, <2>1, OnInv
<1> QED BY <1>1, <1>3, <1>5, <1>6

\* The answer to the name and password.
LEMMA AuthInv ==
    ASSUME HttpInv, NEW r \in AuthReplies, SocksAuth(r)
    PROVE  HttpInv'
<1> DEFINE ok == r = <<1, 0>>
<1>1. /\ hpc = "auth" /\ UNCHANGED <<proxy, first, cur, hops, inbuf, body>> /\ Blame(ok)
      /\ IF Len(r) < 2 \/ r[2] # 0 THEN Err ELSE At("request") /\ UNCHANGED out
  BY DEF SocksAuth
<1>2. ok \in BOOLEAN
  OBVIOUS
<1>3. Len(r) < 2 \/ r[2] # 0 => ~ok
  <2>1. ASSUME ok PROVE Len(r) = 2 /\ r[2] = 0
    BY <2>1
  <2> QED BY <2>1
<1> HIDE DEF ok
<1>4. cause' \in {"none", "peer", "domain"} /\ (~ok => cause' # "none")
  BY <1>1, <1>2, BlameIs
<1>5. CASE Err /\ ~ok
  BY <1>1, <1>4, <1>5, FailInv DEF Err, Return
<1>6. CASE At("request") /\ UNCHANGED out
  BY <1>1, <1>4, <1>6, OnInv DEF At
<1> QED BY <1>1, <1>3, <1>5, <1>6

\* The length of a reply, and what of it is skipped.
LEMMA ReplyLength ==
    ASSUME NEW v \in Nat, NEW rep \in Nat, NEW t \in {1, 3, 4}
    PROVE  /\ SocksReply(v, rep, t) \in Seq(Nat)
           /\ Len(SocksReply(v, rep, t)) \in Nat
           /\ t # 3 => Len(SocksReply(v, rep, t)) = 4 + Skip(t)
           /\ t = 3 => Len(SocksReply(v, rep, t)) > 4 + Skip(t)
           /\ Skip(t) \in Nat
<1>1. /\ Bytes(2) \in Seq(Nat) /\ Len(Bytes(2)) = 2 /\ Bytes(4) \in Seq(Nat) /\ Len(Bytes(4)) = 4
      /\ Bytes(16) \in Seq(Nat) /\ Len(Bytes(16)) = 16
  BY DEF Bytes
<1>2. Address[t] = IF t = 1 THEN Bytes(4) ELSE IF t = 4 THEN Bytes(16) ELSE <<2>> \o Bytes(2)
  BY DEF Address
<1> DEFINE b == Bytes(2)
<1>3. b \in Seq(Nat) /\ Len(b) = 2 /\ <<2>> \in Seq(Nat) /\ Len(<<2>>) = 1
  BY <1>1
<1> HIDE DEF b
<1>4. <<2>> \o b \in Seq(Nat) /\ Len(<<2>> \o b) = 3
  <2>1. <<2>> \o b \in Seq(Nat) /\ Len(<<2>> \o b) = Len(<<2>>) + Len(b)
    BY <1>3, ConcatProperties, Zenon
  <2> QED BY <1>3, <2>1
<1> DEFINE a == Address[t]
           h == <<v, rep, 0, t>>
<1>5. a \in Seq(Nat) /\ Len(a) = IF t = 1 THEN 4 ELSE IF t = 4 THEN 16 ELSE 3
  BY <1>1, <1>2, <1>4 DEF b
<1>6. h \in Seq(Nat) /\ Len(h) = 4
  OBVIOUS
<1> HIDE DEF a, h
<1>7. h \o a \in Seq(Nat) /\ Len(h \o a) = 4 + Len(a) /\ Len(a) \in Nat
  <2>1. h \o a \in Seq(Nat) /\ Len(h \o a) = Len(h) + Len(a)
    BY <1>5, <1>6, ConcatProperties, Zenon
  <2> QED BY <1>5, <1>6, <2>1
<1>8. (h \o a) \o b \in Seq(Nat) /\ Len((h \o a) \o b) = (4 + Len(a)) + 2
  <2> DEFINE x == h \o a
  <2>1. x \in Seq(Nat) /\ Len(x) = 4 + Len(a)
    BY <1>7
  <2> HIDE DEF x
  <2>2. x \o b \in Seq(Nat) /\ Len(x \o b) = Len(x) + Len(b)
    BY <1>3, <2>1, ConcatProperties, Zenon
  <2> QED BY <1>3, <2>1, <2>2 DEF x
<1>9. SocksReply(v, rep, t) = (h \o a) \o b
  BY DEF SocksReply, h, a, b
<1>10. Skip(t) = IF t = 1 THEN 6 ELSE IF t = 4 THEN 18 ELSE 3
  BY DEF Skip
<1> QED BY <1>5, <1>7, <1>8, <1>9, <1>10

\* The reply to the request for a connection.
LEMMA RequestInv ==
    ASSUME HttpInv, NEW v \in {4, 5}, NEW rep \in {0, 1}, NEW t \in {1, 3, 4},
           NEW n \in 0..Len(SocksReply(v, rep, t)), SocksRequest(v, rep, t, n)
    PROVE  HttpInv'
<1> DEFINE all  == SocksReply(v, rep, t)
           r    == SubSeq(all, 1, n)
           fail == n < 4 \/ v # 5 \/ rep # 0 \/ n < 4 + Skip(t)
<1>1. /\ hpc = "request" /\ UNCHANGED <<proxy, first, cur, hops, body>>
      /\ cause' = IF cause # "none" THEN cause
                  ELSE IF v # 5 \/ rep # 0 \/ n < Len(all) THEN "peer"
                  ELSE IF t = 3 THEN "domain" ELSE "none"
      /\ IF fail THEN Err /\ UNCHANGED inbuf
         ELSE inbuf' = SubSeq(r, 5 + Skip(t), n) /\ At("tls") /\ UNCHANGED out
  BY DEF SocksRequest
<1>2. /\ all \in Seq(Nat) /\ Len(all) \in Nat /\ Skip(t) \in Nat
      /\ t # 3 => Len(all) = 4 + Skip(t)
      /\ t = 3 => Len(all) > 4 + Skip(t)
  <2>1. v \in Nat /\ rep \in Nat
    OBVIOUS
  <2> QED BY <2>1, ReplyLength
<1>3. n \in Nat /\ n <= Len(all)
  BY <1>2
<1> HIDE DEF all, r
<1>4. cause \in {"none", "peer", "domain"}
  BY DEF HttpInv, HttpTypes
<1>5. cause' \in {"none", "peer", "domain"}
  BY <1>1, <1>4
<1>6. CASE fail
  <2>1. v # 5 \/ rep # 0 \/ n < Len(all)
    BY <1>2, <1>3, <1>6
  <2>2. cause' # "none"
    BY <1>1, <2>1
  <2>3. hpc' = "done" /\ out' = "err"
    BY <1>1, <1>6 DEF Err, Return
  <2> QED BY <1>1, <1>5, <2>2, <2>3, FailInv
<1>7. CASE ~fail
  <2>1. inbuf' = SubSeq(r, 5 + Skip(t), n) /\ hpc' = "tls" /\ UNCHANGED out
    BY <1>1, <1>7 DEF At
  <2>2. inbuf' = <<>> \/ cause' # "none"
    <3>1. CASE t = 3
      BY <1>1, <3>1
    <3>2. CASE t # 3
      <4>1. 5 + Skip(t) \in Int /\ n \in Int /\ n < 5 + Skip(t)
        BY <1>2, <1>3, <3>2
      <4>2. SubSeq(r, 5 + Skip(t), n) = <<>>
        BY <4>1, SubSeqEmpty
      <4> QED BY <2>1, <4>2
    <3> QED BY <3>1, <3>2
  <2> QED BY <1>1, <1>5, <2>1, <2>2, OnInv
<1> QED BY <1>6, <1>7

\* The response of a server.
LEMMA ReceiveInv ==
    ASSUME HttpInv, hpc = "recv", NEW n \in 0..Len(Wire(Site[cur])), NEW closed \in BOOLEAN, Receive(n, closed)
    PROVE  HttpInv'
<1> DEFINE page == Site[cur]
           t    == Trail(first)
           r    == parse_http_response(SubSeq(Wire(page), 1, n))
           all  == n = Len(Wire(page)) /\ closed
<1>1. /\ UNCHANGED <<proxy, first, hops, inbuf>> /\ Blame(all)
      /\ IF ~closed THEN Err /\ UNCHANGED <<cur, body>>
         ELSE IF r.out # "ok" THEN Return(r.out) /\ UNCHANGED <<cur, body>>
         ELSE IF ~Redirects(page) THEN Return("ok") /\ body' = Values(r.body) /\ UNCHANGED cur
         ELSE IF ~Follows(page) THEN Err /\ UNCHANGED <<cur, body>>
         ELSE At("hop") /\ cur' = resolve_redirect(cur, page.loc) /\ UNCHANGED <<out, body>>
  BY DEF Receive
<1>2. /\ hops \in 1..10 /\ hops - 1 \in 0..9 /\ cur = t[hops - 1] /\ first \in Starts /\ first \in DOMAIN Site
      /\ out = "none"
  BY SiteAssumption DEF HttpInv, HttpTypes, OnTrail, Outcomes
<1>3. cur \in DOMAIN Site
  BY <1>2, TrailShape
<1>4. /\ Served(page)
      /\ Follows(page) => page.to \in DOMAIN Site /\ resolve_redirect(cur, page.loc) = page.to
  BY <1>3, SiteShape
<1>5. /\ r.out \in {"ok", "err", "panic"}
      /\ n = Len(Wire(page)) => r.out = "ok"
      /\ r.out = "ok" => IF page.framing = "eof" THEN IsPrefix(Values(r.body), Body(page))
                         ELSE Values(r.body) = Body(page)
  <2> HIDE DEF page
  <2>1. n \in 0..Len(Wire(page))
    BY DEF page
  <2> QED BY <1>4, <2>1, ParseCut
<1>6. all \in BOOLEAN
  OBVIOUS
<1>7. cause' \in {"none", "peer", "domain"} /\ (~all => cause' # "none")
  BY <1>1, <1>6, BlameIs
<1>8. ~Follows(page) => t[9] = cur
  BY <1>2, TrailStays
<1>9. CASE ~closed
  BY <1>1, <1>7, <1>9, FailInv DEF Err, Return
<1>10. CASE closed /\ r.out # "ok"
  <2>1. ~all
    BY <1>5, <1>10
  <2>2. hpc' = "done" /\ out' \in {"err", "panic"}
    BY <1>1, <1>5, <1>10 DEF Return
  <2> QED BY <1>1, <1>7, <2>1, <2>2, FailInv
<1>11. CASE closed /\ r.out = "ok" /\ ~Redirects(page)
  <2>1. hpc' = "done" /\ out' = "ok" /\ body' = Values(r.body) /\ UNCHANGED cur
    BY <1>1, <1>11 DEF Return
  <2>2. page \in Reach(first)
    BY <1>8, <1>11 DEF Reach, Follows
  <2>3. ResponseExact'
    BY <1>1, <1>5, <1>11, <2>1, <2>2 DEF ResponseExact
  <2>4. FailureHasCause'
    BY <2>1 DEF FailureHasCause
  <2>5. Outcomes'
    BY <2>1, <2>3, <2>4 DEF Outcomes
  <2>6. HttpTypes'
    BY <1>1, <1>7, <2>1 DEF HttpInv, HttpTypes
  <2>7. OnTrail' /\ StreamClean'
    BY <2>1 DEF OnTrail, StreamClean
  <2> QED BY <2>5, <2>6, <2>7 DEF HttpInv
<1>12. CASE closed /\ r.out = "ok" /\ Redirects(page) /\ ~Follows(page)
  <2>1. Reach(first) = {}
    BY <1>8, <1>12 DEF Reach
  <2>2. hpc' = "done" /\ out' = "err"
    BY <1>1, <1>12 DEF Err, Return
  <2> QED BY <1>1, <1>7, <2>1, <2>2, FailInv
<1>13. CASE closed /\ r.out = "ok" /\ Follows(page)
  <2>1. hpc' = "hop" /\ cur' = page.to /\ UNCHANGED <<out, body>>
    BY <1>1, <1>4, <1>13 DEF At, Follows
  <2>2. ASSUME hops < 10 PROVE cur' = t[hops]
    <3>1. hops \in 1..9
      BY <1>2, <2>2
    <3>2. t[hops] = IF Follows(Site[t[hops - 1]]) THEN Site[t[hops - 1]].to ELSE t[hops - 1]
      BY <1>2, <3>1, TrailShape
    <3> QED BY <1>2, <1>13, <2>1, <3>2
  <2>3. ASSUME ~(hops < 10) PROVE Redirects(Site[t[9]])
    <3>1. hops = 10 /\ hops - 1 = 9
      BY <1>2, <2>3
    <3> QED BY <1>2, <1>13, <3>1 DEF Follows
  <2>4. OnTrail'
    BY <1>1, <2>1, <2>2, <2>3 DEF OnTrail
  <2>5. HttpTypes'
    BY <1>1, <1>7, <2>1 DEF HttpInv, HttpTypes
  <2>6. StreamClean'
    BY <2>1 DEF StreamClean
  <2>7. Outcomes'
    BY <1>2, <2>1 DEF Outcomes, ResponseExact, FailureHasCause
  <2> QED BY <2>4, <2>5, <2>6, <2>7 DEF HttpInv
<1> QED BY <1>9, <1>10, <1>11, <1>12, <1>13

\* Every step keeps the invariant.
LEMMA HttpStep == HttpInv /\ [HttpNext]_http => HttpInv'
<1> SUFFICES ASSUME HttpInv, [HttpNext]_http PROVE HttpInv'
    OBVIOUS
<1>1. CASE UNCHANGED http
  BY <1>1 DEF http, HttpInv, HttpTypes, OnTrail, StreamClean, Outcomes, ResponseExact, FailureHasCause
<1>2. CASE Hop
  BY <1>2, HopInv
<1>3. CASE tcp_connect
  BY <1>3, ConnectInv
<1>4. CASE tls_stream
  BY <1>4, TlsInv
<1>5. CASE \E part \in NextParts : ConnectRead(part)
  BY <1>5, TunnelInv
<1>6. CASE \E r \in Replies : SocksGreet(r)
  BY <1>6, GreetInv
<1>7. CASE \E r \in AuthReplies : SocksAuth(r)
  BY <1>7, AuthInv
<1>8. CASE \E v \in {4, 5} : \E rep \in {0, 1} : \E t \in {1, 3, 4} :
              \E n \in 0..Len(SocksReply(v, rep, t)) : SocksRequest(v, rep, t, n)
  BY <1>8, RequestInv
<1>9. CASE hpc = "recv" /\ \E n \in 0..Len(Wire(Site[cur])) : \E closed \in BOOLEAN : Receive(n, closed)
  BY <1>9, ReceiveInv
<1> QED BY <1>1, <1>2, <1>3, <1>4, <1>5, <1>6, <1>7, <1>8, <1>9 DEF HttpNext

\* get answers with the page the servers redirect to, whole when its length is
\* told: for every site, framing, cut of the stream and chain of redirects.
THEOREM ResponsesExact == HttpSpec => []ResponseExact
<1>1. HttpInv => ResponseExact
  BY DEF HttpInv, Outcomes
<1> QED BY <1>1, HttpStart, HttpStep, PTL DEF HttpSpec

\* get fails or panics only for a cause outside it, or because there is no
\* page at the end of nine redirects.
THEOREM FailuresHaveCause == HttpSpec => []FailureHasCause
<1>1. HttpInv => FailureHasCause
  BY DEF HttpInv, Outcomes
<1> QED BY <1>1, HttpStart, HttpStep, PTL DEF HttpSpec
=============================================================================
