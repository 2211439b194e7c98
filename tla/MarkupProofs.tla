---------------------------- MODULE MarkupProofs ----------------------------
(***************************************************************************)
(* Proofs about Markup: what trimming leaves of a list is its beginning,   *)
(* and an event that does not say otherwise has everything.                *)
(***************************************************************************)
EXTENDS Markup, FiniteSetTheorems, WellFoundedInduction, TLAPS

(* A set with zero, and with the successor of everything in it, has all    *)
(* natural numbers: otherwise one of them would be the least without.      *)
LEMMA SetInduction ==
  ASSUME NEW P, 0 \in P, \A n \in Nat : n \in P => n + 1 \in P
  PROVE  Nat \subseteq P
<1> DEFINE S == Nat \ P
           R == OpToRel(<, Nat)
<1> SUFFICES ASSUME S # {}
             PROVE  FALSE
  OBVIOUS
<1>1. IsWellFoundedOn(R, Nat)
  BY NatLessThanWellFounded
<1>2. \E x \in S : \A y \in S : ~(<<y, x>> \in R)
  <2>1. S \subseteq Nat
    OBVIOUS
  <2> HIDE DEF R, S
  <2> QED
    BY <1>1, <2>1, WFMin
<1>3. PICK x \in S : \A y \in S : ~(<<y, x>> \in R)
  BY <1>2
<1>4. \A y \in Nat : y < x => <<y, x>> \in R
  BY <1>3 DEF OpToRel
<1> HIDE DEF R
<1>5. x # 0 /\ x - 1 \in Nat /\ x - 1 < x
  BY <1>3
<1>6. x - 1 \notin S
  BY <1>3, <1>4, <1>5
<1> QED
  BY <1>3, <1>5, <1>6

-----------------------------------------------------------------------------
(* Sequences. Tokens may be anything that has a number.                    *)

LEMMA Sequence ==
  ASSUME NEW n \in Nat, NEW s, s = [i \in 1 .. n |-> s[i]]
  PROVE  IsSeq(s) /\ Len(s) = n
<1> DEFINE U == {s[i] : i \in 1 .. n}
<1>1. s \in [1 .. n -> U]
  OBVIOUS
<1> HIDE DEF U
<1>2. s \in Seq(U) /\ Len(s) = n
  BY <1>1
<1> QED
  BY <1>2 DEF IsSeq

LEMMA SequenceOf ==
  ASSUME NEW U, NEW s \in Seq(U)
  PROVE  IsSeq(s)
<1> DEFINE n == Len(s)
<1>1. n \in Nat /\ s \in [1 .. n -> U]
  OBVIOUS
<1> HIDE DEF n
<1>2. s = [i \in 1 .. n |-> s[i]]
  BY <1>1
<1> QED
  BY <1>1, <1>2 DEF IsSeq, n

LEMMA SequenceIn ==
  ASSUME NEW s, IsSeq(s)
  PROVE  \E U : s \in Seq(U)
<1> DEFINE U == {s[i] : i \in 1 .. Len(s)}
           n == Len(s)
<1>1. n \in Nat /\ s \in [1 .. n -> U]
  BY DEF IsSeq
<1> HIDE DEF U, n
<1>2. s \in Seq(U)
  BY <1>1
<1> QED
  BY <1>2

LEMMA NothingSeq == IsSeq(<<>>) /\ Len(<<>>) = 0
<1>1. <<>> \in Seq({}) /\ Len(<<>>) = 0
  OBVIOUS
<1> QED
  BY <1>1, SequenceOf

LEMMA Singleton ==
  ASSUME NEW e
  PROVE  IsSeq(<<e>>) /\ Len(<<e>>) = 1 /\ <<e>>[1] = e
<1>1. <<e>> \in Seq({e}) /\ Len(<<e>>) = 1 /\ <<e>>[1] = e
  OBVIOUS
<1> QED
  BY <1>1, SequenceOf

(* Sequences one after another.                                            *)
LEMMA Joined ==
  ASSUME NEW s, NEW t, IsSeq(s), IsSeq(t)
  PROVE  /\ IsSeq(s \o t) /\ Len(s \o t) = Len(s) + Len(t)
         /\ \A i \in 1 .. Len(s) : (s \o t)[i] = s[i]
         /\ \A i \in 1 .. Len(t) : (s \o t)[Len(s) + i] = t[i]
<1>1. PICK A : s \in Seq(A)
  BY SequenceIn
<1>2. PICK B : t \in Seq(B)
  BY SequenceIn
<1> DEFINE U == A \union B
<1>3. s \in Seq(U) /\ t \in Seq(U)
  BY <1>1, <1>2
<1> HIDE DEF U
<1>4. s \o t \in Seq(U) /\ Len(s \o t) = Len(s) + Len(t)
  BY <1>3
<1>5. IsSeq(s \o t)
  BY <1>4, SequenceOf
<1>6. /\ \A i \in 1 .. Len(s) : (s \o t)[i] = s[i]
      /\ \A i \in 1 .. Len(t) : (s \o t)[Len(s) + i] = t[i]
  BY <1>3
<1> QED
  BY <1>4, <1>5, <1>6

LEMMA NonEmpty ==
  ASSUME NEW s, IsSeq(s), Len(s) > 0
  PROVE  s # <<>>
BY NothingSeq

-----------------------------------------------------------------------------
(* Text without numbers, which is all that is put together, and with them. *)

PlainText(s) == IsSeq(s) /\ \A i \in 1 .. Len(s) : s[i].id = 0

LEMMA PlainEmpty == PlainText(<<>>)
<1>1. IsSeq(<<>>) /\ Len(<<>>) = 0
  BY NothingSeq
<1> QED
  BY <1>1 DEF PlainText

LEMMA PlainOne ==
  ASSUME NEW e, e.id = 0
  PROVE  PlainText(<<e>>) /\ Len(<<e>>) = 1
BY Singleton DEF PlainText

(* Plain text stays plain when it is put together.                         *)
LEMMA PlainJoined ==
  ASSUME NEW s, NEW t, PlainText(s), PlainText(t)
  PROVE  PlainText(s \o t) /\ Len(s \o t) = Len(s) + Len(t)
<1>1. /\ IsSeq(s \o t) /\ Len(s \o t) = Len(s) + Len(t)
      /\ \A i \in 1 .. Len(s) : (s \o t)[i] = s[i]
      /\ \A i \in 1 .. Len(t) : (s \o t)[Len(s) + i] = t[i]
      /\ Len(s) \in Nat /\ Len(t) \in Nat
  BY Joined DEF PlainText, IsSeq
<1>2. ASSUME NEW i \in 1 .. Len(s \o t)
      PROVE  (s \o t)[i].id = 0
  <2>1. CASE i <= Len(s)
    BY <1>1, <2>1 DEF PlainText
  <2>2. CASE i > Len(s)
    <3> DEFINE j == i - Len(s)
    <3>1. j \in 1 .. Len(t) /\ i = Len(s) + j
      BY <1>1, <2>2
    <3> HIDE DEF j
    <3> QED
      BY <1>1, <3>1 DEF PlainText
  <2> QED
    BY <1>1, <2>1, <2>2
<1> QED
  BY <1>1, <1>2 DEF PlainText

(* Plain text has no numbers; what is numbered has just its own.           *)
LEMMA NumbersPlain ==
  ASSUME NEW s, PlainText(s)
  PROVE  NumbersIn(s) = {}
BY DEF PlainText, NumbersIn

LEMMA NumbersJoined ==
  ASSUME NEW s, NEW t, IsSeq(s), IsSeq(t)
  PROVE  NumbersIn(s \o t) = NumbersIn(s) \union NumbersIn(t)
<1>1. /\ Len(s \o t) = Len(s) + Len(t)
      /\ \A i \in 1 .. Len(s) : (s \o t)[i] = s[i]
      /\ \A i \in 1 .. Len(t) : (s \o t)[Len(s) + i] = t[i]
      /\ Len(s) \in Nat /\ Len(t) \in Nat
  BY Joined DEF IsSeq
<1>2. ASSUME NEW m \in NumbersIn(s \o t)
      PROVE  m \in NumbersIn(s) \union NumbersIn(t)
  <2>1. PICK i \in 1 .. Len(s \o t) : m = (s \o t)[i].id /\ m # 0
    BY DEF NumbersIn
  <2>2. CASE i <= Len(s)
    BY <1>1, <2>1, <2>2 DEF NumbersIn
  <2>3. CASE i > Len(s)
    <3> DEFINE j == i - Len(s)
    <3>1. j \in 1 .. Len(t) /\ i = Len(s) + j
      BY <1>1, <2>1, <2>3
    <3> HIDE DEF j
    <3> QED
      BY <1>1, <2>1, <3>1 DEF NumbersIn
  <2> QED
    BY <1>1, <2>1, <2>2, <2>3
<1>3. ASSUME NEW m \in NumbersIn(s)
      PROVE  m \in NumbersIn(s \o t)
  <2>1. PICK i \in 1 .. Len(s) : m = s[i].id /\ m # 0
    BY DEF NumbersIn
  <2>2. i \in 1 .. Len(s \o t)
    BY <1>1
  <2> QED
    BY <1>1, <2>1, <2>2 DEF NumbersIn
<1>4. ASSUME NEW m \in NumbersIn(t)
      PROVE  m \in NumbersIn(s \o t)
  <2>1. PICK i \in 1 .. Len(t) : m = t[i].id /\ m # 0
    BY DEF NumbersIn
  <2>2. Len(s) + i \in 1 .. Len(s \o t)
    BY <1>1
  <2> QED
    BY <1>1, <2>1, <2>2 DEF NumbersIn
<1> QED
  BY <1>2, <1>3, <1>4

LEMMA NumbersNumbered ==
  ASSUME NEW m \in Nat \ {0}, NEW text, IsSeq(text)
  PROVE  /\ IsSeq(Numbered(m, text))
         /\ NumbersIn(Numbered(m, text)) = IF Len(text) > 0 THEN {m} ELSE {}
<1>1. Len(text) \in Nat
  BY DEF IsSeq
<1> DEFINE F(i) == [k |-> text[i].k, n |-> text[i].n, id |-> m]
           s == [i \in 1 .. Len(text) |-> F(i)]
<1>2. IsSeq(s) /\ Len(s) = Len(text) /\ \A i \in 1 .. Len(text) : s[i] = F(i)
  <2>1. \A i \in 1 .. Len(text) : s[i] = F(i)
    OBVIOUS
  <2>2. s = [i \in 1 .. Len(text) |-> s[i]]
    OBVIOUS
  <2> HIDE DEF s, F
  <2> QED
    BY <1>1, <2>1, <2>2, Sequence
<1>3. s = Numbered(m, text)
  BY DEF Numbered
<1>4. \A i \in 1 .. Len(text) : s[i].id = m
  BY <1>2
<1> HIDE DEF s
<1>5. NumbersIn(s) = IF Len(text) > 0 THEN {m} ELSE {}
  <2>1. CASE Len(text) > 0
    <3>1. 1 \in 1 .. Len(text)
      BY <1>1, <2>1
    <3> QED
      BY <1>2, <1>4, <2>1, <3>1 DEF NumbersIn
  <2>2. CASE ~(Len(text) > 0)
    BY <1>1, <1>2, <2>2 DEF NumbersIn
  <2> QED
    BY <2>1, <2>2
<1> QED
  BY <1>2, <1>3, <1>5

-----------------------------------------------------------------------------
(* All text is plain until it is numbered.                                 *)

(* Escaping goes through all characters.                                   *)
EscapeStep(k, p) ==
  IF sample[k] \notin Special THEN p
  ELSE [out  |-> p.out \o Span(p.last, k - 1) \o <<[k |-> "escape", n |-> sample[k], id |-> 0]>>,
        last |-> k + 1]

AreEscapes(n, g) ==
  g = [k \in 0 .. n |-> IF k = 0 THEN [out |-> <<>>, last |-> 1] ELSE EscapeStep(k, g[k - 1])]

(* The recursive function of escaping is what its equations say.           *)
LEMMA EscapesExist ==
  ASSUME NEW n \in Nat
  PROVE  \E g : AreEscapes(n, g)
<1> DEFINE P == {m \in Nat : \E g : AreEscapes(m, g)}
           w(k, g) == IF k = 0 THEN [out |-> <<>>, last |-> 1] ELSE EscapeStep(k, g[k - 1])
<1>1. 0 \in P
  <2>1. AreEscapes(0, [k \in 0 .. 0 |-> [out |-> <<>>, last |-> 1]])
    BY DEF AreEscapes
  <2> QED
    BY <2>1
<1>2. ASSUME NEW m \in Nat, m \in P
      PROVE  m + 1 \in P
  <2>1. PICK g : AreEscapes(m, g)
    BY <1>2
  <2> DEFINE h == [k \in 0 .. m + 1 |-> IF k = m + 1 THEN w(m + 1, g) ELSE g[k]]
  <2>2. \A k \in 0 .. m : g[k] = w(k, g)
    BY <2>1 DEF AreEscapes
  <2> HIDE DEF w
  <2>3. \A k \in 0 .. m : h[k] = g[k]
    BY <2>2
  <2>4. \A k \in 0 .. m + 1 : h[k] = w(k, g)
    BY <2>2
  <2>5. \A k \in 0 .. m + 1 : k = 0 \/ h[k - 1] = g[k - 1]
    <3> HIDE DEF h
    <3> QED
      BY <2>3
  <2>6. \A k \in 0 .. m + 1 : w(k, h) = w(k, g)
    <3> HIDE DEF h
    <3> QED
      BY <2>5 DEF w
  <2>7. h = [k \in 0 .. m + 1 |-> w(k, h)]
    BY <2>4, <2>6
  <2>8. AreEscapes(m + 1, h)
    BY <2>7 DEF AreEscapes, w
  <2> QED
    BY <2>8
<1> HIDE DEF P
<1>3. Nat \subseteq P
  BY <1>1, <1>2, SetInduction
<1> QED
  BY <1>3 DEF P

LEMMA EscapesSteps ==
  ASSUME Len(sample) \in Nat
  PROVE  LET g == EscapedUpTo
         IN  /\ g[0] = [out |-> <<>>, last |-> 1]
             /\ \A k \in 1 .. Len(sample) : g[k] = EscapeStep(k, g[k - 1])
<1> DEFINE N == Len(sample)
           g == EscapedUpTo
           w(k) == EscapeStep(k, g[k - 1])
<1>1. \E h : AreEscapes(N, h)
  BY EscapesExist
<1>2. g = CHOOSE h : AreEscapes(N, h)
  BY DEF EscapedUpTo, AreEscapes, EscapeStep
<1>3. AreEscapes(N, g)
  BY <1>1, <1>2
<1>4. N \in Nat
  OBVIOUS
<1>5. \A k \in 0 .. N : g[k] = IF k = 0 THEN [out |-> <<>>, last |-> 1] ELSE w(k)
  <2> HIDE DEF g, N
  <2> QED
    BY <1>3 DEF AreEscapes
<1> HIDE DEF g, N, w
<1>6. 0 \in 0 .. N /\ \A k \in 1 .. N : k \in 0 .. N /\ k # 0
  BY <1>4
<1>7. g[0] = [out |-> <<>>, last |-> 1] /\ \A k \in 1 .. N : g[k] = w(k)
  BY <1>5, <1>6
<1> QED
  BY <1>7 DEF g, N, w

LEMMA SpanPlain ==
  ASSUME NEW m \in Nat, NEW n \in Nat, n - m + 1 \in Nat
  PROVE  PlainText(Span(m, n))
<1> DEFINE s == Span(m, n)
           N == n - m + 1
<1>1. \A i \in 1 .. N : s[i].id = 0
  BY DEF Span
<1>2. s = [i \in 1 .. N |-> s[i]]
  BY DEF Span
<1>3. N \in Nat
  OBVIOUS
<1> HIDE DEF s, N
<1>4. IsSeq(s) /\ Len(s) = N
  BY <1>2, <1>3, Sequence
<1>5. PlainText(s)
  BY <1>1, <1>4 DEF PlainText
<1> QED
  BY <1>5 DEF s

(* An escaped text is a sequence of tokens, whatever it has to escape.     *)
LEMMA EscapedPlain ==
  ASSUME Len(sample) \in Nat
  PROVE  PlainText(Escaped)
<1> DEFINE N == Len(sample)
           g == EscapedUpTo
           Good(p, k) == PlainText(p.out) /\ p.last \in 1 .. k + 1
           P == {k \in Nat : k <= N => Good(g[k], k)}
<1>1. g[0] = [out |-> <<>>, last |-> 1] /\ \A k \in 1 .. N : g[k] = EscapeStep(k, g[k - 1])
  BY EscapesSteps
<1>2. 0 \in P
  <2>1. g[0].out = <<>> /\ g[0].last = 1
    BY <1>1
  <2> QED
    BY <2>1, PlainEmpty
<1>3. ASSUME NEW k \in Nat, k \in P
      PROVE  k + 1 \in P
  <2> SUFFICES ASSUME k + 1 <= N
               PROVE  Good(g[k + 1], k + 1)
    OBVIOUS
  <2> DEFINE p == g[k]
             e == <<[k |-> "escape", n |-> sample[k + 1], id |-> 0]>>
  <2>1. k + 1 \in 1 .. N /\ (k + 1) - 1 = k
    OBVIOUS
  <2>2. g[k + 1] = EscapeStep(k + 1, p)
    BY <1>1, <2>1
  <2>3. Good(p, k)
    BY <1>3
  <2> HIDE DEF g, p
  <2>4. CASE sample[k + 1] \notin Special
    BY <2>2, <2>3, <2>4 DEF EscapeStep
  <2>5. CASE sample[k + 1] \in Special
    <3>1. g[k + 1].out = p.out \o Span(p.last, k) \o e /\ g[k + 1].last = k + 2
      <4>1. g[k + 1] = [out  |-> p.out \o Span(p.last, (k + 1) - 1) \o e, last |-> (k + 1) + 1]
        BY <2>2, <2>5 DEF EscapeStep
      <4>2. (k + 1) + 1 = k + 2
        OBVIOUS
      <4>3. Span(p.last, (k + 1) - 1) = Span(p.last, k)
        BY <2>1
      <4> DEFINE a == Span(p.last, k)
                 b == p.out \o a \o e
      <4>4. g[k + 1] = [out |-> b, last |-> k + 2]
        BY <4>1, <4>2, <4>3
      <4> HIDE DEF b
      <4>5. g[k + 1].out = b /\ g[k + 1].last = k + 2
        BY <4>4
      <4> QED
        BY <4>5 DEF b
    <3>2. PlainText(Span(p.last, k))
      <4>1. p.last \in Nat /\ k - p.last + 1 \in Nat
        BY <2>3
      <4> QED
        BY <4>1, SpanPlain
    <3>3. PlainText(e)
      BY PlainOne
    <3> HIDE DEF e
    <3>4. PlainText(p.out \o Span(p.last, k))
      BY <2>3, <3>2, PlainJoined
    <3>5. PlainText(p.out \o Span(p.last, k) \o e)
      BY <3>3, <3>4, PlainJoined
    <3> QED
      BY <3>1, <3>5
  <2> QED
    BY <2>4, <2>5
<1> HIDE DEF P
<1>4. Nat \subseteq P
  BY <1>2, <1>3, SetInduction
<1>5. Good(g[N], N) /\ N \in Nat
  BY <1>4 DEF P
<1>6. PlainText(Span(g[N].last, N))
  <2>1. g[N].last \in Nat /\ N - g[N].last + 1 \in Nat
    <3> HIDE DEF g, N
    <3> QED
      BY <1>5
  <2> QED
    BY <2>1, SpanPlain
<1> QED
  BY <1>5, <1>6, PlainJoined DEF Escaped

(* Text that is not empty either.                                          *)
SomeText(s) == PlainText(s) /\ Len(s) > 0

LEMMA OneToken ==
  ASSUME NEW e, e.id = 0
  PROVE  SomeText(<<e>>)
BY PlainOne DEF SomeText

LEMMA TwoTokens ==
  ASSUME NEW a, NEW b, a.id = 0, b.id = 0
  PROVE  SomeText(<<a, b>>)
<1> DEFINE s == <<a, b>>
<1>1. s \in Seq({a, b}) /\ Len(s) = 2 /\ s[1] = a /\ s[2] = b
  OBVIOUS
<1>2. IsSeq(s)
  BY <1>1, SequenceOf
<1>3. \A i \in 1 .. Len(s) : s[i].id = 0
  BY <1>1
<1> QED
  BY <1>1, <1>2, <1>3 DEF PlainText, SomeText

(* The pieces that text is made of.                                        *)
LEMMA PiecesPlain ==
  /\ \A k : SomeText(<<T(k)>>)
  /\ \A n : SomeText(Key(n)) /\ SomeText(End(n)) /\ SomeText(Open(n)) /\ SomeText(<<Tag(n)>>)
  /\ SomeText(Comma)
  /\ \A first : PlainText(Separator(first))
<1>1. ASSUME NEW k
      PROVE  SomeText(<<T(k)>>)
  <2>1. T(k).id = 0
    BY DEF T
  <2> QED
    BY <2>1, OneToken
<1>2. ASSUME NEW n
      PROVE  SomeText(Key(n)) /\ SomeText(End(n)) /\ SomeText(Open(n)) /\ SomeText(<<Tag(n)>>)
  <2>1. Tag(n).id = 0 /\ T(">").id = 0
    BY DEF Tag, T
  <2>2. SomeText(Open(n)) /\ SomeText(<<Tag(n)>>)
    BY <2>1, OneToken, TwoTokens DEF Open
  <2>3. SomeText(Key(n))
    BY OneToken DEF Key
  <2>4. SomeText(End(n))
    BY OneToken DEF End
  <2> QED
    BY <2>2, <2>3, <2>4
<1>3. SomeText(Comma)
  BY <1>1 DEF Comma
<1>4. \A first : PlainText(Separator(first))
  BY <1>3, PlainEmpty DEF Separator, SomeText
<1> QED
  BY <1>1, <1>2, <1>3, <1>4

LEMMA PlainLen ==
  ASSUME NEW s, PlainText(s)
  PROVE  Len(s) \in Nat
BY DEF PlainText, IsSeq

LEMMA ValuesPlain ==
  ASSUME Len(sample) \in Nat
  PROVE  /\ PlainText(Escaped) /\ PlainText(Quoted) /\ Len(Quoted) > 0
         /\ \A n : PlainText(Attr(n)) /\ Len(Attr(n)) > 0
<1>1. PlainText(Escaped) /\ Len(Escaped) \in Nat
  BY EscapedPlain, PlainLen
<1> DEFINE q == <<T("quote")>>
<1>2. PlainText(q) /\ Len(q) = 1
  <2>1. T("quote").id = 0
    BY DEF T
  <2> QED
    BY <2>1, PlainOne
<1> HIDE DEF q
<1>3. PlainText(q \o Escaped \o q) /\ Len(q \o Escaped \o q) > 0
  <2>1. PlainText(q \o Escaped) /\ Len(q \o Escaped) = 1 + Len(Escaped)
    BY <1>1, <1>2, PlainJoined
  <2>2. PlainText((q \o Escaped) \o q) /\ Len((q \o Escaped) \o q) = 1 + Len(Escaped) + 1
    BY <1>2, <2>1, PlainJoined
  <2> QED
    BY <1>1, <2>2
<1>4. PlainText(Quoted) /\ Len(Quoted) > 0
  BY <1>3 DEF Quoted, q
<1>5. ASSUME NEW n
      PROVE  PlainText(Attr(n)) /\ Len(Attr(n)) > 0
  <2> DEFINE a == <<[k |-> "attr", n |-> n, id |-> 0]>>
  <2>1. PlainText(a) /\ Len(a) = 1
    BY PlainOne
  <2> HIDE DEF a
  <2>2. PlainText(a \o Escaped) /\ Len(a \o Escaped) = 1 + Len(Escaped)
    BY <1>1, <2>1, PlainJoined
  <2>3. PlainText((a \o Escaped) \o q) /\ Len((a \o Escaped) \o q) = 1 + Len(Escaped) + 1
    BY <1>2, <2>2, PlainJoined
  <2>4. Attr(n) = (a \o Escaped) \o q
    BY DEF Attr, a, q
  <2> QED
    BY <1>1, <2>3, <2>4
<1> QED
  BY <1>1, <1>4, <1>5

LEMMA SomeJoined ==
  ASSUME NEW s, NEW t, PlainText(s), PlainText(t), Len(s) > 0 \/ Len(t) > 0
  PROVE  SomeText(s \o t)
BY PlainJoined, PlainLen DEF SomeText

(* A field of a record.                                                    *)
LEMMA FieldPlain ==
  ASSUME Len(sample) \in Nat, NEW first, NEW list, NEW f
  PROVE  SomeText(Field(first, list, f))
<1> DEFINE r == IF f.raw THEN Attr("r") ELSE <<>>
           c == IF f.raw THEN Comma \o Quoted ELSE <<>>
           k == IF list THEN <<>> ELSE Key(f.name)
           s == Separator(first)
           o == <<T("[")>>
           e == <<T("]")>>
           x == <<Tag(f.name)>>
           z == <<T("/>")>>
           i == Attr("i")
           q == Quoted
<1>1. PlainText(r)
  BY ValuesPlain, PlainEmpty
<1>2. PlainText(c)
  <2>1. PlainText(Comma \o Quoted)
    BY ValuesPlain, PiecesPlain, PlainJoined DEF SomeText
  <2> QED
    BY <2>1, PlainEmpty
<1>3. PlainText(k)
  BY PiecesPlain, PlainEmpty DEF SomeText
<1>4. PlainText(s) /\ SomeText(o) /\ SomeText(e) /\ SomeText(x) /\ SomeText(z)
  <2>1. PlainText(s) /\ SomeText(x)
    BY PiecesPlain
  <2>2. SomeText(o) /\ SomeText(e) /\ SomeText(z)
    BY PiecesPlain
  <2> QED
    BY <2>1, <2>2
<1>5. SomeText(i) /\ SomeText(q)
  BY ValuesPlain DEF SomeText
<1>6. /\ XML => Field(first, list, f) = x \o i \o r \o z
      /\ ~XML => Field(first, list, f) = s \o k \o o \o q \o c \o e
  BY DEF Field
<1> HIDE DEF r, c, k, s, o, e, x, z, i, q
<1>7. SomeText(x \o i \o r \o z)
  <2>1. SomeText(x \o i)
    BY <1>4, <1>5, SomeJoined DEF SomeText
  <2>2. SomeText(x \o i \o r)
    BY <1>1, <2>1, SomeJoined DEF SomeText
  <2> QED
    BY <1>4, <2>2, SomeJoined DEF SomeText
<1>8. SomeText(s \o k \o o \o q \o c \o e)
  <2>1. PlainText(s \o k)
    BY <1>3, <1>4, PlainJoined
  <2>2. SomeText(s \o k \o o)
    BY <1>4, <2>1, SomeJoined DEF SomeText
  <2>3. SomeText(s \o k \o o \o q)
    BY <1>5, <2>2, SomeJoined DEF SomeText
  <2>4. SomeText(s \o k \o o \o q \o c)
    BY <1>2, <2>3, SomeJoined DEF SomeText
  <2> QED
    BY <1>4, <2>4, SomeJoined DEF SomeText
<1> QED
  BY <1>6, <1>7, <1>8

(* The fields of a record, one after the other.                            *)
FieldStep(fields, k, p) ==
  IF fields[k].name \in {"type", "node"} THEN p ELSE p \o Field(p = <<>>, FALSE, fields[k])

AreFields(fields, n, g) ==
  g = [k \in 0 .. n |-> IF k = 0 THEN <<>> ELSE FieldStep(fields, k, g[k - 1])]

(* The recursive function of the fields is what its equations say.         *)
LEMMA FieldsExist ==
  ASSUME NEW fields, NEW n \in Nat
  PROVE  \E g : AreFields(fields, n, g)
<1> DEFINE P == {m \in Nat : \E g : AreFields(fields, m, g)}
           w(k, g) == IF k = 0 THEN <<>> ELSE FieldStep(fields, k, g[k - 1])
<1>1. 0 \in P
  <2>1. AreFields(fields, 0, [k \in 0 .. 0 |-> <<>>])
    BY DEF AreFields
  <2> QED
    BY <2>1
<1>2. ASSUME NEW m \in Nat, m \in P
      PROVE  m + 1 \in P
  <2>1. PICK g : AreFields(fields, m, g)
    BY <1>2
  <2> DEFINE h == [k \in 0 .. m + 1 |-> IF k = m + 1 THEN w(m + 1, g) ELSE g[k]]
  <2>2. \A k \in 0 .. m : g[k] = w(k, g)
    BY <2>1 DEF AreFields
  <2> HIDE DEF w
  <2>3. \A k \in 0 .. m : h[k] = g[k]
    BY <2>2
  <2>4. \A k \in 0 .. m + 1 : h[k] = w(k, g)
    BY <2>2
  <2>5. \A k \in 0 .. m + 1 : k = 0 \/ h[k - 1] = g[k - 1]
    <3> HIDE DEF h
    <3> QED
      BY <2>3
  <2>6. \A k \in 0 .. m + 1 : w(k, h) = w(k, g)
    <3> HIDE DEF h
    <3> QED
      BY <2>5 DEF w
  <2>7. h = [k \in 0 .. m + 1 |-> w(k, h)]
    BY <2>4, <2>6
  <2>8. AreFields(fields, m + 1, h)
    BY <2>7 DEF AreFields, w
  <2> QED
    BY <2>8
<1> HIDE DEF P
<1>3. Nat \subseteq P
  BY <1>1, <1>2, SetInduction
<1> QED
  BY <1>3 DEF P

LEMMA FieldsSteps ==
  ASSUME NEW fields, Len(fields) \in Nat
  PROVE  LET g == FieldsUpTo(fields)
         IN  /\ g[0] = <<>>
             /\ \A k \in 1 .. Len(fields) : g[k] = FieldStep(fields, k, g[k - 1])
<1> DEFINE N == Len(fields)
           g == FieldsUpTo(fields)
           w(k) == FieldStep(fields, k, g[k - 1])
<1>1. \E h : AreFields(fields, N, h)
  BY FieldsExist
<1>2. g = CHOOSE h : AreFields(fields, N, h)
  BY DEF FieldsUpTo, AreFields, FieldStep
<1>3. AreFields(fields, N, g)
  BY <1>1, <1>2
<1>4. N \in Nat
  OBVIOUS
<1>5. \A k \in 0 .. N : g[k] = IF k = 0 THEN <<>> ELSE w(k)
  <2> HIDE DEF g, N
  <2> QED
    BY <1>3 DEF AreFields
<1> HIDE DEF g, N, w
<1>6. 0 \in 0 .. N /\ \A k \in 1 .. N : k \in 0 .. N /\ k # 0
  BY <1>4
<1>7. g[0] = <<>> /\ \A k \in 1 .. N : g[k] = w(k)
  BY <1>5, <1>6
<1> QED
  BY <1>7 DEF g, N, w

(* All fields of a record, however many.                                   *)
LEMMA FieldsPlain ==
  ASSUME Len(sample) \in Nat, NEW fields, Len(fields) \in Nat
  PROVE  PlainText(Fields(fields))
<1> DEFINE N == Len(fields)
           g == FieldsUpTo(fields)
           P == {k \in Nat : k <= N => PlainText(g[k])}
<1>1. g[0] = <<>> /\ \A k \in 1 .. N : g[k] = FieldStep(fields, k, g[k - 1])
  BY FieldsSteps
<1>2. 0 \in P
  BY <1>1, PlainEmpty
<1>3. ASSUME NEW k \in Nat, k \in P
      PROVE  k + 1 \in P
  <2> SUFFICES ASSUME k + 1 <= N
               PROVE  PlainText(g[k + 1])
    OBVIOUS
  <2> DEFINE p == g[k]
             t == Field(p = <<>>, FALSE, fields[k + 1])
  <2>1. k + 1 \in 1 .. N /\ (k + 1) - 1 = k
    OBVIOUS
  <2>2. g[k + 1] = FieldStep(fields, k + 1, p)
    BY <1>1, <2>1
  <2>3. PlainText(p)
    BY <1>3
  <2>4. PlainText(t)
    BY FieldPlain DEF SomeText
  <2>5. g[k + 1] \in {p, p \o t}
    BY <2>2 DEF FieldStep
  <2> HIDE DEF g, p, t
  <2> QED
    BY <2>3, <2>4, <2>5, PlainJoined
<1> HIDE DEF P
<1>4. Nat \subseteq P
  BY <1>2, <1>3, SetInduction
<1> QED
  BY <1>4 DEF P, Fields

LEMMA ThreeJoined ==
  ASSUME NEW a, NEW b, NEW c, PlainText(a), PlainText(b), PlainText(c)
  PROVE  /\ PlainText(a \o b \o c)
         /\ SomeText(a) \/ SomeText(b) \/ SomeText(c) => SomeText(a \o b \o c)
<1>1. PlainText(a \o b) /\ (SomeText(a) \/ SomeText(b) => SomeText(a \o b))
  BY PlainJoined, SomeJoined DEF SomeText
<1> DEFINE d == a \o b
<1> HIDE DEF d
<1>2. PlainText(d) /\ (SomeText(a) \/ SomeText(b) => SomeText(d))
  BY <1>1 DEF d
<1>3. PlainText(d \o c) /\ (SomeText(d) \/ SomeText(c) => SomeText(d \o c))
  BY <1>2, PlainJoined, SomeJoined DEF SomeText
<1> QED
  BY <1>2, <1>3 DEF d

(* A record, and other pieces of an event.                                 *)
LEMMA RecordPlain ==
  ASSUME Len(sample) \in Nat, NEW first, NEW name, NEW fields, Len(fields) \in Nat
  PROVE  SomeText(Record(first, name, fields))
<1> DEFINE a == Open(name)
           f == Fields(fields)
           e == End(name)
           s == Separator(first)
           k == Key(name)
           o == <<T("{")>>
           z == <<T("}")>>
<1>1. PlainText(f)
  BY FieldsPlain
<1>2. SomeText(a) /\ SomeText(e) /\ SomeText(k)
  BY PiecesPlain
<1>3. SomeText(o) /\ SomeText(z) /\ PlainText(s)
  BY PiecesPlain
<1>4. Record(first, name, fields) \in {a \o f \o e, s \o k \o o \o f \o z}
  BY DEF Record
<1> HIDE DEF a, f, e, s, k, o, z
<1>5. SomeText(a \o f \o e)
  BY <1>1, <1>2, ThreeJoined DEF SomeText
<1>6. SomeText(s \o k \o o)
  BY <1>2, <1>3, ThreeJoined DEF SomeText
<1> DEFINE d == s \o k \o o
<1> HIDE DEF d
<1>7. SomeText(d \o f \o z)
  BY <1>1, <1>3, <1>6, ThreeJoined DEF SomeText, d
<1> QED
  BY <1>4, <1>5, <1>7 DEF d

LEMMA ItemPlain ==
  ASSUME Len(sample) \in Nat, NEW fields, Len(fields) \in Nat
  PROVE  SomeText(Item(fields))
<1> DEFINE a == Open("item")
           f == Fields(fields)
           e == End("item")
           o == <<T("{")>>
           z == <<T("}")>>
<1>1. PlainText(f)
  BY FieldsPlain
<1>2. SomeText(a) /\ SomeText(e)
  BY PiecesPlain
<1>3. SomeText(o) /\ SomeText(z)
  BY PiecesPlain
<1>4. Item(fields) \in {a \o f \o e, o \o f \o z}
  BY DEF Item
<1> HIDE DEF a, f, e, o, z
<1>5. SomeText(a \o f \o e) /\ SomeText(o \o f \o z)
  BY <1>1, <1>2, <1>3, ThreeJoined DEF SomeText
<1> QED
  BY <1>4, <1>5

LEMMA LinePlain ==
  ASSUME Len(sample) \in Nat
  PROVE  SomeText(Line)
<1> DEFINE a == Open("line")
           e == End("line")
           s == Separator(line_num = 0)
<1>1. SomeText(a) /\ SomeText(e) /\ PlainText(s)
  BY PiecesPlain
<1>2. PlainText(Escaped) /\ SomeText(Quoted)
  BY ValuesPlain DEF SomeText
<1>3. Line \in {a \o Escaped \o e, s \o Quoted}
  BY DEF Line
<1> HIDE DEF a, e, s
<1>4. SomeText(a \o Escaped \o e)
  BY <1>1, <1>2, ThreeJoined DEF SomeText
<1>5. SomeText(s \o Quoted)
  BY <1>1, <1>2, SomeJoined DEF SomeText
<1> QED
  BY <1>3, <1>4, <1>5

LEMMA BracketsPlain ==
  ASSUME NEW n, NEW bracket
  PROVE  SomeText(Begin(n, bracket)) /\ SomeText(Close(n, bracket))
<1> DEFINE k == Key(n)
           o == <<T(bracket)>>
<1>1. SomeText(Open(n)) /\ SomeText(End(n)) /\ SomeText(k)
  BY PiecesPlain
<1>2. SomeText(o)
  BY PiecesPlain
<1>3. Begin(n, bracket) \in {Open(n), k \o o} /\ Close(n, bracket) \in {End(n), o}
  BY DEF Begin, Close
<1> HIDE DEF k, o
<1>4. SomeText(k \o o)
  BY <1>1, <1>2, SomeJoined DEF SomeText
<1> QED
  BY <1>1, <1>2, <1>3, <1>4

LEMMA ArgsPlain ==
  ASSUME NEW k
  PROVE  SomeText(ArgBegin(k)) /\ SomeText(ArgEnd)
<1> DEFINE s == Separator(k = 0)
           q == <<T("quote")>>
<1>1. SomeText(Open("a")) /\ SomeText(End("a")) /\ PlainText(s)
  BY PiecesPlain
<1>2. SomeText(q)
  BY PiecesPlain
<1>3. ArgBegin(k) \in {Open("a"), s \o q} /\ ArgEnd \in {End("a"), q}
  BY DEF ArgBegin, ArgEnd
<1> HIDE DEF s, q
<1>4. SomeText(s \o q)
  BY <1>1, <1>2, SomeJoined DEF SomeText
<1> QED
  BY <1>1, <1>2, <1>3, <1>4

LEMMA HeaderPlain ==
  ASSUME Len(sample) \in Nat
  PROVE  PlainText(Header)
<1> DEFINE t == <<Tag("event")>>
           a == Attr("serial")
           h == IF shape.host THEN Attr("node") ELSE <<>>
           s == Separator(shape.first)
           o == <<T("{")>>
           k == Key("serial")
           v == <<T("scalar")>>
           l == Key("time")
           w == Key("node")
           j == IF shape.host THEN Comma \o w \o Quoted ELSE <<>>
<1>1. PlainText(t) /\ PlainText(s) /\ PlainText(o) /\ PlainText(v)
  <2>1. PlainText(t) /\ PlainText(s)
    BY PiecesPlain DEF SomeText
  <2>2. PlainText(o) /\ PlainText(v)
    BY PiecesPlain DEF SomeText
  <2> QED
    BY <2>1, <2>2
<1>2. PlainText(k) /\ PlainText(l) /\ PlainText(w) /\ PlainText(Comma)
  BY PiecesPlain DEF SomeText
<1>3. PlainText(a) /\ PlainText(h) /\ PlainText(Quoted)
  BY ValuesPlain, PlainEmpty
<1>4. PlainText(j)
  BY <1>2, <1>3, ThreeJoined, PlainEmpty
<1>5. Header \in {t \o a \o h, s \o o \o k \o v \o Comma \o l \o v \o j}
  BY DEF Header
<1> HIDE DEF t, a, h, s, o, k, v, l, w, j
<1>6. PlainText(t \o a \o h)
  BY <1>1, <1>3, ThreeJoined
<1>7. PlainText(s \o o \o k \o v \o Comma \o l \o v \o j)
  <2> DEFINE x == s \o o \o k
             y == x \o v \o Comma
             z == y \o l \o v
  <2>1. PlainText(x)
    BY <1>1, <1>2, ThreeJoined
  <2> HIDE DEF x
  <2>2. PlainText(y)
    BY <1>1, <1>2, <2>1, ThreeJoined
  <2> HIDE DEF y
  <2>3. PlainText(z)
    BY <1>1, <1>2, <2>2, ThreeJoined
  <2> HIDE DEF z
  <2>4. PlainText(z \o j)
    BY <1>4, <2>3, PlainJoined
  <2> QED
    BY <2>4 DEF x, y, z
<1> QED
  BY <1>5, <1>6, <1>7

LEMMA MarksPlain ==
  ASSUME Len(sample) \in Nat
  PROVE  SomeText(ErrorText) /\ SomeText(TrimmedText)
<1> DEFINE k == Key("error")
           l == Key("trimmed")
           a == <<[k |-> "attr", n |-> "trimmed", id |-> 0], T("quote")>>
           b == <<T("["), T("]")>>
<1>1. SomeText(k) /\ SomeText(l) /\ SomeText(Comma)
  BY PiecesPlain
<1>2. SomeText(Quoted) /\ SomeText(Attr("error"))
  BY ValuesPlain DEF SomeText
<1>3. SomeText(a)
  <2>1. T("quote").id = 0
    BY DEF T
  <2> QED
    BY <2>1, TwoTokens
<1>4. SomeText(b)
  <2>1. T("[").id = 0 /\ T("]").id = 0
    BY DEF T
  <2> QED
    BY <2>1, TwoTokens
<1>5. ErrorText \in {Attr("error"), Comma \o k \o Quoted}
  BY DEF ErrorText
<1>6. TrimmedText \in {a, Comma \o l \o b}
  BY DEF TrimmedText
<1> HIDE DEF k, l, a, b
<1>7. SomeText(Comma \o k \o Quoted) /\ SomeText(Comma \o l \o b)
  BY <1>1, <1>2, <1>4, ThreeJoined DEF SomeText
<1> QED
  BY <1>2, <1>3, <1>5, <1>6, <1>7

-----------------------------------------------------------------------------
(* Nodes.                                                                  *)

TreeNode(node) == node.prio \in Int /\ node.tree \in Trees \union {None}

LEMMA HoleNode == TreeNode(Hole) /\ Hole.prio = -1 /\ Hole.tree = None /\ NumbersIn(Hole.text) = {}
<1>1. Hole.prio = -1 /\ Hole.tree = None /\ Hole.text = <<>>
  BY DEF Hole
<1>2. NumbersIn(<<>>) = {}
  BY PlainEmpty, NumbersPlain
<1> QED
  BY <1>1, <1>2 DEF TreeNode

LEMMA BlankTree ==
  IsTree(Blank) /\ Blank.nodes = <<>> /\ Len(Blank.nodes) = 0 /\ Blank.tail = <<>>
<1>1. Blank.nodes = <<>> /\ Blank.tail = <<>> /\ Blank = [nodes |-> Blank.nodes, tail |-> Blank.tail]
  BY DEF Blank
<1>2. IsSeq(<<>>) /\ Len(<<>>) = 0
  BY NothingSeq
<1> QED
  BY <1>1, <1>2 DEF IsTree

(* u is t with the node at i, with holes before it if it has grown to have *)
(* room for it.                                                            *)
NodeAt(t, u, i, node) ==
  /\ IsTree(u)
  /\ Len(u.nodes) = IF i > Len(t.nodes) THEN i ELSE Len(t.nodes)
  /\ u.nodes[i] = node
  /\ \A k \in 1 .. Len(t.nodes) : k # i => u.nodes[k] = t.nodes[k]
  /\ \A k \in 1 .. Len(u.nodes) : k > Len(t.nodes) /\ k # i => u.nodes[k] = Hole

(* A node in a place, new or not; between it and the others are holes.     *)
LEMMA PutNode ==
  ASSUME NEW t, IsTree(t), NEW i \in Nat \ {0}, NEW node, TreeNode(node)
  PROVE  NodeAt(t, Put(t, i, node), i, node) /\ Put(t, i, node).tail = t.tail
<1> DEFINE n == Len(t.nodes)
           N == IF i > n THEN i ELSE n
           F(k) == IF k = i THEN node ELSE IF k <= n THEN t.nodes[k] ELSE Hole
           s == [k \in 1 .. N |-> F(k)]
           u == Put(t, i, node)
<1>1. n \in Nat /\ N \in Nat /\ i \in 1 .. N /\ \A k \in 1 .. n : k \in 1 .. N
  BY DEF IsTree, IsSeq
<1>2. u = [nodes |-> s, tail |-> t.tail]
  BY DEF Put, IsTree
<1>3. \A k \in 1 .. N : s[k] = F(k)
  OBVIOUS
<1>4. s = [k \in 1 .. N |-> s[k]]
  OBVIOUS
<1>5. \A k \in 1 .. N : TreeNode(F(k))
  <2>1. \A k \in 1 .. n : TreeNode(t.nodes[k])
    BY DEF IsTree, TreeNode
  <2>2. TreeNode(Hole)
    BY HoleNode
  <2> QED
    BY <1>1, <2>1, <2>2
<1> HIDE DEF s, N
<1>6. IsSeq(s) /\ Len(s) = N
  BY <1>1, <1>4, Sequence
<1>7. u.nodes = s /\ u.tail = t.tail /\ u = [nodes |-> u.nodes, tail |-> u.tail]
  BY <1>2
<1>8. IsTree(u)
  <2>1. \A k \in 1 .. Len(u.nodes) : TreeNode(u.nodes[k])
    BY <1>3, <1>5, <1>6, <1>7
  <2>2. IsSeq(t.tail)
    BY DEF IsTree
  <2> QED
    BY <1>6, <1>7, <2>1, <2>2 DEF IsTree, TreeNode
<1>9. /\ u.nodes[i] = node
      /\ \A k \in 1 .. n : k # i => u.nodes[k] = t.nodes[k]
      /\ \A k \in 1 .. Len(u.nodes) : k > n /\ k # i => u.nodes[k] = Hole
  BY <1>1, <1>3, <1>6, <1>7
<1> HIDE DEF u, n
<1> QED
  BY <1>6, <1>7, <1>8, <1>9 DEF u, n, N, NodeAt

(* A node for the text behind the tail.                                    *)
LEMMA PutTextNode ==
  ASSUME NEW t, IsTree(t), NEW i \in Nat \ {0}, NEW prio \in Int
  PROVE  /\ NodeAt(t, PutText(t, i, prio), i, [prio |-> prio, text |-> t.tail, tree |-> None])
         /\ PutText(t, i, prio).tail = <<>>
<1> DEFINE node == [prio |-> prio, text |-> t.tail, tree |-> None]
           v == Put(t, i, node)
           u == PutText(t, i, prio)
           n == Len(t.nodes)
<1>1. TreeNode(node)
  BY DEF TreeNode
<1>2. u = [v EXCEPT !.tail = <<>>]
  BY DEF PutText
<1> HIDE DEF node
<1>3. /\ IsTree(v)
      /\ Len(v.nodes) = IF i > n THEN i ELSE n
      /\ v.nodes[i] = node
      /\ \A k \in 1 .. n : k # i => v.nodes[k] = t.nodes[k]
      /\ \A k \in 1 .. Len(v.nodes) : k > n /\ k # i => v.nodes[k] = Hole
  <2>1. NodeAt(t, v, i, node)
    BY <1>1, PutNode
  <2> HIDE DEF v, n
  <2> QED
    BY <2>1 DEF NodeAt, n
<1> HIDE DEF v, u
<1>4. u = [nodes |-> v.nodes, tail |-> <<>>]
  BY <1>2, <1>3 DEF IsTree
<1>5. u.nodes = v.nodes /\ u.tail = <<>> /\ u = [nodes |-> u.nodes, tail |-> u.tail]
  BY <1>4
<1>6. IsTree(u)
  <2>1. IsSeq(<<>>)
    BY NothingSeq
  <2> QED
    BY <1>3, <1>5, <2>1 DEF IsTree
<1>7. NodeAt(t, u, i, node)
  BY <1>3, <1>5, <1>6 DEF NodeAt
<1> QED
  BY <1>5, <1>7 DEF u, node

LEMMA AddedText ==
  ASSUME NEW t, IsTree(t), NEW text, IsSeq(text)
  PROVE  /\ IsTree(Add(t, text)) /\ Add(t, text).nodes = t.nodes
         /\ Add(t, text).tail = t.tail \o text
         /\ NumbersIn(Add(t, text).tail) = NumbersIn(t.tail) \union NumbersIn(text)
         /\ t.tail = <<>> => NumbersIn(Add(t, text).tail) = NumbersIn(text)
<1> DEFINE u == Add(t, text)
<1>1. IsSeq(t.tail) /\ t = [nodes |-> t.nodes, tail |-> t.tail]
  BY DEF IsTree
<1>2. u = [nodes |-> t.nodes, tail |-> t.tail \o text]
  <2> DEFINE x == t.tail \o text
  <2>1. u = [t EXCEPT !.tail = x]
    BY DEF Add
  <2> HIDE DEF x, u
  <2>2. u = [nodes |-> t.nodes, tail |-> x]
    BY <1>1, <2>1
  <2> QED
    BY <2>2 DEF x
<1>3. u.nodes = t.nodes /\ u.tail = t.tail \o text /\ u = [nodes |-> u.nodes, tail |-> u.tail]
  BY <1>2
<1>4. IsSeq(t.tail \o text)
  BY <1>1, Joined
<1>5. NumbersIn(t.tail \o text) = NumbersIn(t.tail) \union NumbersIn(text)
  BY <1>1, NumbersJoined
<1>6. t.tail = <<>> => NumbersIn(t.tail) = {}
  BY PlainEmpty, NumbersPlain
<1>7. IsTree(u)
  BY <1>3, <1>4 DEF IsTree
<1> QED
  BY <1>3, <1>5, <1>6, <1>7

(* Tree u is tree t and one node more: of this priority, for tree s, with  *)
(* these numbers.                                                          *)
Appended(t, u, prio, s, numbers) ==
  /\ IsTree(u) /\ u.tail = <<>>
  /\ Len(u.nodes) = Len(t.nodes) + 1
  /\ \A k \in 1 .. Len(t.nodes) : u.nodes[k] = t.nodes[k]
  /\ u.nodes[Len(t.nodes) + 1].prio = prio /\ u.nodes[Len(t.nodes) + 1].tree = s
  /\ NumbersIn(u.nodes[Len(t.nodes) + 1].text) = numbers

(* Nodes at the end.                                                       *)
LEMMA TextAppended ==
  ASSUME NEW t, IsTree(t), NEW prio \in Int
  PROVE  /\ Appended(t, AddText(t, prio), prio, None, NumbersIn(t.tail))
         /\ AddText(t, prio).nodes[Len(t.nodes) + 1].text = t.tail
<1> DEFINE n == Len(t.nodes)
           u == AddText(t, prio)
<1>1. n \in Nat /\ n + 1 \in Nat \ {0}
  BY DEF IsTree, IsSeq
<1>2. u = PutText(t, n + 1, prio)
  BY DEF AddText
<1>3. /\ IsTree(u) /\ u.tail = <<>>
      /\ Len(u.nodes) = IF n + 1 > n THEN n + 1 ELSE n
      /\ u.nodes[n + 1] = [prio |-> prio, text |-> t.tail, tree |-> None]
      /\ \A k \in 1 .. n : k # n + 1 => u.nodes[k] = t.nodes[k]
  <2> DEFINE node == [prio |-> prio, text |-> t.tail, tree |-> None]
             i == n + 1
  <2>1. NodeAt(t, u, i, node) /\ u.tail = <<>>
    BY <1>1, <1>2, PutTextNode
  <2> HIDE DEF u, node, n, i
  <2>2. /\ IsTree(u) /\ Len(u.nodes) = IF i > n THEN i ELSE n
        /\ u.nodes[i] = node /\ \A k \in 1 .. n : k # i => u.nodes[k] = t.nodes[k]
    BY <2>1 DEF NodeAt, n
  <2> QED
    BY <2>1, <2>2 DEF node, i
<1> HIDE DEF u
<1>4. /\ Len(u.nodes) = n + 1
      /\ \A k \in 1 .. n : u.nodes[k] = t.nodes[k]
      /\ u.nodes[n + 1].prio = prio /\ u.nodes[n + 1].text = t.tail /\ u.nodes[n + 1].tree = None
  BY <1>1, <1>3
<1> QED
  BY <1>3, <1>4 DEF Appended, u

LEMMA NodeAppended ==
  ASSUME NEW t, IsTree(t), t.tail = <<>>, NEW text, IsSeq(text), NEW prio \in Int
  PROVE  Appended(t, AddNode(t, text, prio), prio, None, NumbersIn(text))
<1> DEFINE v == Add(t, text)
<1>1. IsTree(v) /\ v.nodes = t.nodes /\ NumbersIn(v.tail) = NumbersIn(text)
  BY AddedText
<1> HIDE DEF v
<1>2. Appended(v, AddText(v, prio), prio, None, NumbersIn(v.tail))
  BY <1>1, TextAppended
<1> QED
  BY <1>1, <1>2 DEF Appended, AddNode, v

LEMMA PlainAppended ==
  ASSUME NEW t, IsTree(t), t.tail = <<>>, NEW text, PlainText(text), NEW prio \in Int
  PROVE  Appended(t, AddNode(t, text, prio), prio, None, {})
<1>1. IsSeq(text) /\ NumbersIn(text) = {}
  BY NumbersPlain DEF PlainText
<1>2. Appended(t, AddNode(t, text, prio), prio, None, NumbersIn(text))
  BY <1>1, NodeAppended
<1> QED
  BY <1>1, <1>2

LEMMA NumberAppended ==
  ASSUME NEW t, IsTree(t), t.tail = <<>>, NEW text, SomeText(text), NEW prio \in Int,
         NEW m \in Nat \ {0}
  PROVE  Appended(t, AddNode(t, Numbered(m, text), prio), prio, None, {m})
<1> DEFINE s == Numbered(m, text)
<1>1. IsSeq(s) /\ NumbersIn(s) = {m}
  BY NumbersNumbered DEF SomeText, PlainText
<1> HIDE DEF s
<1>2. Appended(t, AddNode(t, s, prio), prio, None, NumbersIn(s))
  BY <1>1, NodeAppended
<1> QED
  BY <1>1, <1>2 DEF s

LEMMA TreeAppended ==
  ASSUME NEW t, IsTree(t), t.tail = <<>>, NEW prio \in Int, NEW s \in Trees
  PROVE  Appended(t, AddTree(t, prio, s), prio, s, {})
<1> DEFINE n == Len(t.nodes)
           node == [prio |-> prio, text |-> <<>>, tree |-> s]
           i == n + 1
           u == Put(t, i, node)
<1>1. n \in Nat /\ i \in Nat \ {0}
  BY DEF IsTree, IsSeq
<1>2. TreeNode(node) /\ node.prio = prio /\ node.text = <<>> /\ node.tree = s
  BY DEF TreeNode
<1>3. u = AddTree(t, prio, s)
  BY DEF AddTree
<1> HIDE DEF node, i
<1>4. /\ IsTree(u) /\ u.tail = t.tail
      /\ Len(u.nodes) = IF i > n THEN i ELSE n
      /\ u.nodes[i] = node
      /\ \A k \in 1 .. n : k # i => u.nodes[k] = t.nodes[k]
  <2>1. NodeAt(t, u, i, node) /\ u.tail = t.tail
    BY <1>1, <1>2, PutNode
  <2> HIDE DEF u, n
  <2> QED
    BY <2>1 DEF NodeAt, n
<1> HIDE DEF u
<1>5. NumbersIn(<<>>) = {}
  BY PlainEmpty, NumbersPlain
<1>6. Len(u.nodes) = n + 1 /\ \A k \in 1 .. n : u.nodes[k] = t.nodes[k]
  BY <1>1, <1>4 DEF i
<1>7. Appended(t, u, prio, s, {})
  BY <1>2, <1>4, <1>5, <1>6 DEF Appended, i
<1> QED
  BY <1>3, <1>7

-----------------------------------------------------------------------------
(* Numbers in order.                                                       *)

AllNumbers(ns) == NumbersUpTo(ns, Len(ns))

LEMMA UpToMember ==
  ASSUME NEW ns, NEW n, NEW x
  PROVE  x \in NumbersUpTo(ns, n) <=> \E i \in 1 .. n : x \in NumbersIn(ns[i].text)
BY DEF NumbersUpTo

LEMMA UpToSame ==
  ASSUME NEW us, NEW ns, NEW n \in Int, \A i \in 1 .. n : us[i] = ns[i]
  PROVE  NumbersUpTo(us, n) = NumbersUpTo(ns, n)
<1>1. \A x : x \in NumbersUpTo(us, n) <=> x \in NumbersUpTo(ns, n)
  BY UpToMember
<1> QED
  BY <1>1

LEMMA UpToNext ==
  ASSUME NEW ns, NEW n \in Nat
  PROVE  NumbersUpTo(ns, n + 1) = NumbersUpTo(ns, n) \union NumbersIn(ns[n + 1].text)
<1>1. \A i : i \in 1 .. n + 1 <=> i \in 1 .. n \/ i = n + 1
  OBVIOUS
<1>2. \A x : x \in NumbersUpTo(ns, n + 1) <=> x \in NumbersUpTo(ns, n) \/ x \in NumbersIn(ns[n + 1].text)
  BY <1>1, UpToMember
<1> QED
  BY <1>2

(* The numbers and the trees of a tree with one more node.                 *)
LEMMA AppendedNumbers ==
  ASSUME NEW t, IsTree(t), NEW u, NEW prio, NEW s, NEW I, Appended(t, u, prio, s, I)
  PROVE  /\ AllNumbers(u.nodes) = AllNumbers(t.nodes) \union I
         /\ TreesIn(u.nodes) = TreesIn(t.nodes) \union ({s} \ {None})
<1> DEFINE n == Len(t.nodes)
           us == u.nodes
           ns == t.nodes
<1>1. n \in Nat
  BY DEF IsTree, IsSeq
<1>2. /\ Len(us) = n + 1 /\ \A k \in 1 .. n : us[k] = ns[k]
      /\ us[n + 1].tree = s /\ NumbersIn(us[n + 1].text) = I
  BY DEF Appended
<1>3. Len(ns) = n
  OBVIOUS
<1> HIDE DEF n, us, ns
<1>4. AllNumbers(us) = AllNumbers(ns) \union I
  <2>1. NumbersUpTo(us, n) = NumbersUpTo(ns, n)
    BY <1>1, <1>2, UpToSame
  <2>2. NumbersUpTo(us, n + 1) = NumbersUpTo(us, n) \union I
    BY <1>1, <1>2, UpToNext
  <2> QED
    BY <1>2, <1>3, <2>1, <2>2 DEF AllNumbers
<1>5. TreesIn(us) = TreesIn(ns) \union ({s} \ {None})
  <2>1. \A i : i \in 1 .. n + 1 <=> i \in 1 .. n \/ i = n + 1
    BY <1>1
  <2>2. \A x : x \in TreesIn(us) <=> (\E i \in 1 .. n + 1 : us[i].tree = x) /\ x # None
    BY <1>2 DEF TreesIn
  <2>3. \A x : x \in TreesIn(ns) <=> (\E i \in 1 .. n : ns[i].tree = x) /\ x # None
    BY <1>3 DEF TreesIn
  <2>4. \A x : x \in TreesIn(us) <=> x \in TreesIn(ns) \/ (x = s /\ x # None)
    BY <1>2, <2>1, <2>2, <2>3
  <2> QED
    BY <2>4
<1> QED
  BY <1>4, <1>5 DEF us, ns

(* A node with the next number keeps the numbers rising.                   *)
LEMMA RisingAppended ==
  ASSUME NEW t, IsTree(t), NEW u, NEW prio, NEW s, NEW I, Appended(t, u, prio, s, I),
         NEW first, Rising(t.nodes, first),
         \A m \in I : m \in Nat \ {0} /\ prio = m - 1 + first /\ AllNumbers(t.nodes) = 1 .. m - 1
  PROVE  Rising(u.nodes, first)
<1> DEFINE n == Len(t.nodes)
           us == u.nodes
           ns == t.nodes
<1>1. n \in Nat /\ Len(ns) = n
  BY DEF IsTree, IsSeq
<1>2. /\ Len(us) = n + 1 /\ \A k \in 1 .. n : us[k] = ns[k]
      /\ us[n + 1].prio = prio /\ NumbersIn(us[n + 1].text) = I
  BY DEF Appended
<1>3. \A k \in 0 .. n : NumbersUpTo(us, k) = NumbersUpTo(ns, k)
  <2> HIDE DEF us, ns, n
  <2> TAKE k \in 0 .. n
  <2>1. k \in Int /\ \A i \in 1 .. k : us[i] = ns[i]
    BY <1>1, <1>2
  <2> QED
    BY <2>1, UpToSame
<1> SUFFICES ASSUME NEW j \in 1 .. Len(us), NEW m \in NumbersIn(us[j].text)
             PROVE  /\ m \in Nat \ {0} /\ us[j].prio = m - 1 + first
                    /\ NumbersUpTo(us, j - 1) = 1 .. m - 1
  BY DEF Rising
<1>4. CASE j \in 1 .. n
  <2>1. j - 1 \in 0 .. n /\ us[j] = ns[j]
    BY <1>1, <1>2, <1>4
  <2>2. m \in Nat \ {0} /\ ns[j].prio = m - 1 + first /\ NumbersUpTo(ns, j - 1) = 1 .. m - 1
    BY <1>1, <1>4, <2>1 DEF Rising
  <2> HIDE DEF us, ns, n
  <2> QED
    BY <1>3, <2>1, <2>2
<1>5. CASE j = n + 1
  <2>1. m \in I /\ us[j].prio = prio /\ j - 1 = n /\ n \in 0 .. n
    BY <1>1, <1>2, <1>5
  <2>2. NumbersUpTo(us, n) = AllNumbers(ns)
    BY <1>1, <1>3, <2>1 DEF AllNumbers
  <2> QED
    BY <2>1, <2>2
<1> QED
  BY <1>1, <1>2, <1>4, <1>5

LEMMA RisingPlain ==
  ASSUME NEW t, IsTree(t), NEW u, NEW prio, NEW s, Appended(t, u, prio, s, {}),
         NEW first, Rising(t.nodes, first)
  PROVE  Rising(u.nodes, first) /\ AllNumbers(u.nodes) = AllNumbers(t.nodes)
<1> DEFINE I == {}
<1>1. \A m \in I : m \in Nat \ {0} /\ prio = m - 1 + first /\ AllNumbers(t.nodes) = 1 .. m - 1
  OBVIOUS
<1>2. Appended(t, u, prio, s, I)
  OBVIOUS
<1>3. I \subseteq {}
  OBVIOUS
<1> HIDE DEF I
<1>4. Rising(u.nodes, first)
  BY <1>1, <1>2, RisingAppended
<1>5. AllNumbers(u.nodes) = AllNumbers(t.nodes) \union I
  BY <1>2, AppendedNumbers
<1> QED
  BY <1>3, <1>4, <1>5

LEMMA RisingNext ==
  ASSUME NEW t, IsTree(t), NEW u, NEW prio, NEW s, NEW m \in Nat \ {0}, Appended(t, u, prio, s, {m}),
         NEW first, Rising(t.nodes, first), prio = m - 1 + first, AllNumbers(t.nodes) = 1 .. m - 1
  PROVE  Rising(u.nodes, first) /\ AllNumbers(u.nodes) = 1 .. m
<1>1. AllNumbers(u.nodes) = (1 .. m - 1) \union {m}
  <2> DEFINE I == {m}
  <2>1. IsTree(t) /\ Appended(t, u, prio, s, I)
    OBVIOUS
  <2> HIDE DEF I
  <2>2. AllNumbers(u.nodes) = AllNumbers(t.nodes) \union I
    BY <2>1, AppendedNumbers
  <2> QED
    BY <2>2 DEF I
<1>2. (1 .. m - 1) \union {m} = 1 .. m
  OBVIOUS
<1>3. Rising(u.nodes, first)
  <2> DEFINE I == {m}
  <2>1. \A k \in I : k \in Nat \ {0} /\ prio = k - 1 + first /\ AllNumbers(t.nodes) = 1 .. k - 1
    OBVIOUS
  <2>2. Appended(t, u, prio, s, I)
    OBVIOUS
  <2> HIDE DEF I
  <2> QED
    BY <2>1, <2>2, RisingAppended
<1> QED
  BY <1>1, <1>2, <1>3

(* A cut keeps the numbers up to one of them.                              *)
LEMMA RisingCut ==
  ASSUME NEW ns, NEW us, Len(ns) \in Nat, Len(us) = Len(ns), NEW c \in Int, NEW first \in Int,
         \A i \in 1 .. Len(ns) : ns[i].prio \in Int,
         \A i \in 1 .. Len(ns) : us[i] = IF ns[i].prio > c THEN Hole ELSE ns[i]
  PROVE  /\ Rising(ns, first) => Rising(us, first)
         /\ TreesIn(us) \subseteq TreesIn(ns)
<1>1. \A i \in 1 .. Len(ns) :
        \/ us[i] = Hole
        \/ us[i] = ns[i] /\ ns[i].prio <= c
  OBVIOUS
<1>2. Hole.tree = None /\ NumbersIn(Hole.text) = {}
  BY HoleNode
<1>3. TreesIn(us) \subseteq TreesIn(ns)
  BY <1>1, <1>2 DEF TreesIn
<1>4. ASSUME Rising(ns, first)
      PROVE  Rising(us, first)
  <2> SUFFICES ASSUME NEW j \in 1 .. Len(ns), NEW m \in NumbersIn(us[j].text)
               PROVE  /\ m \in Nat \ {0} /\ us[j].prio = m - 1 + first
                      /\ NumbersUpTo(us, j - 1) = 1 .. m - 1
    BY DEF Rising
  <2>1. us[j] = ns[j] /\ ns[j].prio <= c
    BY <1>1, <1>2
  <2>2. m \in Nat \ {0} /\ ns[j].prio = m - 1 + first /\ NumbersUpTo(ns, j - 1) = 1 .. m - 1
    BY <1>4, <2>1 DEF Rising
  <2>3. \A i \in 1 .. j - 1 : i \in 1 .. Len(ns)
    OBVIOUS
  <2>4. ASSUME NEW k \in NumbersUpTo(us, j - 1)
        PROVE  k \in 1 .. m - 1
    <3>1. PICK i \in 1 .. j - 1 : k \in NumbersIn(us[i].text)
      BY UpToMember
    <3>2. us[i] = ns[i]
      BY <1>1, <1>2, <2>3, <3>1
    <3>3. k \in NumbersUpTo(ns, j - 1)
      BY <3>1, <3>2, UpToMember
    <3> QED
      BY <2>2, <3>3
  <2>5. ASSUME NEW k \in 1 .. m - 1
        PROVE  k \in NumbersUpTo(us, j - 1)
    <3>1. PICK i \in 1 .. j - 1 : k \in NumbersIn(ns[i].text)
      BY <2>2, UpToMember
    <3>2. ns[i].prio = k - 1 + first
      BY <1>4, <2>3, <3>1 DEF Rising
    <3>3. ns[i].prio <= c /\ ns[i].prio \in Int
      BY <2>1, <2>2, <3>2
    <3>4. us[i] = ns[i]
      BY <2>3, <3>3
    <3> QED
      BY <3>1, <3>4, UpToMember
  <2> QED
    BY <2>1, <2>2, <2>4, <2>5
<1> QED
  BY <1>3, <1>4

-----------------------------------------------------------------------------
(* Arguments.                                                              *)

ArgState(s) ==
  /\ IsTree(s.tree) /\ s.done \in Nat /\ s.open \in BOOLEAN
  /\ Rising(s.tree.nodes, 0) /\ AllNumbers(s.tree.nodes) = 1 .. s.done
  /\ TreesIn(s.tree.nodes) = {} /\ s.tree.nodes # <<>>
  /\ IF s.open THEN NumbersIn(s.tree.tail) = {s.done + 1} ELSE s.tree.tail = <<>>

(* One more piece of an argument of execve(2).                             *)
LEMMA ArgKept ==
  ASSUME Len(sample) \in Nat, NEW s, ArgState(s), NEW part, Fits(s, part)
  PROVE  ArgState(ArgAdded(s, part))
<1> DEFINE m == s.done + 1
           begin == IF part \in {"whole", "first"} THEN ArgBegin(s.done) ELSE <<>>
           x == begin \o Escaped
           y == Numbered(m, x)
           t == Add(s.tree, y)
           u == Add(t, ArgEnd)
           v == AddText(u, s.done)
<1>1. m \in Nat \ {0} /\ s.done \in Int /\ s.done = m - 1 + 0
  BY DEF ArgState
<1>2. PlainText(x) /\ (part \in {"whole", "first"} => Len(x) > 0)
  <2>1. PlainText(Escaped) /\ SomeText(ArgBegin(s.done))
    BY ValuesPlain, ArgsPlain
  <2>2. PlainText(begin) /\ (part \in {"whole", "first"} => Len(begin) > 0)
    BY <2>1, PlainEmpty DEF SomeText
  <2> HIDE DEF begin
  <2>3. PlainText(x)
    BY <2>1, <2>2, PlainJoined
  <2>4. part \in {"whole", "first"} => SomeText(x)
    BY <2>1, <2>2, SomeJoined
  <2> QED
    BY <2>3, <2>4 DEF SomeText
<1> HIDE DEF x
<1>3. IsSeq(y) /\ NumbersIn(y) = IF Len(x) > 0 THEN {m} ELSE {}
  <2>1. IsSeq(x)
    BY <1>2 DEF PlainText
  <2> HIDE DEF m
  <2> QED
    BY <1>1, <2>1, NumbersNumbered
<1>4. IsTree(s.tree) /\ s.done \in Nat
  BY DEF ArgState
<1> HIDE DEF y
<1>5. /\ IsTree(t) /\ t.nodes = s.tree.nodes
      /\ NumbersIn(t.tail) = NumbersIn(s.tree.tail) \union NumbersIn(y)
      /\ s.tree.tail = <<>> => NumbersIn(t.tail) = NumbersIn(y)
  BY <1>3, <1>4, AddedText
<1> HIDE DEF t
<1>6. NumbersIn(t.tail) = {m}
  <2>1. CASE s.open
    <3>1. NumbersIn(s.tree.tail) = {m}
      BY <2>1 DEF ArgState
    <3> HIDE DEF m
    <3> QED
      BY <1>3, <1>5, <3>1
  <2>2. CASE ~s.open
    <3>1. part \in {"whole", "first"} /\ s.tree.tail = <<>>
      BY <2>2 DEF ArgState, Fits
    <3> HIDE DEF m
    <3> QED
      BY <1>2, <1>3, <1>5, <3>1
  <2> QED
    BY <2>1, <2>2
<1>7. IsTree(u) /\ u.nodes = s.tree.nodes /\ NumbersIn(u.tail) = {m}
  <2>1. IsSeq(ArgEnd) /\ NumbersIn(ArgEnd) = {}
    <3>1. PlainText(ArgEnd)
      BY ArgsPlain DEF SomeText
    <3> QED
      BY <3>1, NumbersPlain DEF PlainText
  <2> HIDE DEF m
  <2>2. /\ IsTree(u) /\ u.nodes = t.nodes
        /\ NumbersIn(u.tail) = NumbersIn(t.tail) \union NumbersIn(ArgEnd)
    BY <1>5, <2>1, AddedText
  <2> HIDE DEF u
  <2> QED
    BY <1>5, <1>6, <2>1, <2>2
<1> HIDE DEF u
<1>8. Appended(u, v, s.done, None, {m})
  <2>1. Appended(u, v, s.done, None, NumbersIn(u.tail))
    BY <1>1, <1>7, TextAppended
  <2> QED
    BY <1>7, <2>1
<1> HIDE DEF v
<1>9. /\ IsTree(v) /\ v.tail = <<>> /\ Rising(v.nodes, 0) /\ AllNumbers(v.nodes) = 1 .. m
      /\ TreesIn(v.nodes) = {} /\ v.nodes # <<>>
  <2>1. Rising(u.nodes, 0) /\ AllNumbers(u.nodes) = 1 .. m - 1 /\ TreesIn(u.nodes) = {}
    BY <1>1, <1>7 DEF ArgState
  <2>2. Rising(v.nodes, 0) /\ AllNumbers(v.nodes) = 1 .. m
    <3> DEFINE q == s.done
               z == 0
    <3>1. q = m - 1 + z /\ m \in Nat \ {0} /\ Appended(u, v, q, None, {m})
      BY <1>1, <1>8
    <3>2. Rising(u.nodes, z)
      BY <2>1
    <3> HIDE DEF m, q, z
    <3>3. Rising(v.nodes, z) /\ AllNumbers(v.nodes) = 1 .. m
      BY <1>7, <2>1, <3>1, <3>2, RisingNext
    <3> QED
      BY <3>3 DEF z
  <2>3. TreesIn(v.nodes) = {}
    <3> DEFINE I == {m}
               q == s.done
    <3>1. IsTree(u) /\ Appended(u, v, q, None, I)
      BY <1>7, <1>8
    <3> HIDE DEF I, q
    <3>2. TreesIn(v.nodes) = TreesIn(u.nodes) \union ({None} \ {None})
      BY <3>1, AppendedNumbers
    <3> QED
      BY <2>1, <3>2
  <2>4. IsTree(v) /\ v.tail = <<>> /\ Len(v.nodes) = Len(u.nodes) + 1
    BY <1>8 DEF Appended
  <2>5. v.nodes # <<>>
    BY <1>7, <2>4, NothingSeq DEF IsTree, IsSeq
  <2> QED
    BY <2>2, <2>3, <2>4, <2>5
<1>10. CASE part \in {"whole", "last"}
  <2> DEFINE r == ArgAdded(s, part)
  <2>1. r = [tree |-> v, done |-> m, open |-> FALSE]
    BY <1>10 DEF ArgAdded, v, u, t, y, x
  <2> HIDE DEF r
  <2>2. r.tree = v /\ r.done = m /\ r.open = FALSE
    BY <2>1
  <2> HIDE DEF m
  <2> QED
    BY <1>1, <1>9, <2>2 DEF ArgState, r
<1>11. CASE part \notin {"whole", "last"}
  <2> DEFINE r == ArgAdded(s, part)
  <2>1. r = [tree |-> t, done |-> s.done, open |-> TRUE]
    BY <1>11 DEF ArgAdded, t, y, x
  <2> HIDE DEF r
  <2>2. r.tree = t /\ r.done = s.done /\ r.open = TRUE
    BY <2>1
  <2> QED
    BY <1>4, <1>5, <1>6, <2>2 DEF ArgState, r
<1> QED
  BY <1>10, <1>11

(* The parts of arguments in a record, one after the other.                *)
ArgStep(parts, k, p) == ArgAdded(p, parts[k])

AreArgs(s, parts, n, g) ==
  g = [k \in 0 .. n |-> IF k = 0 THEN s ELSE ArgStep(parts, k, g[k - 1])]

(* The recursive function of the arguments is what its equations say.      *)
LEMMA ArgsExist ==
  ASSUME NEW s, NEW parts, NEW n \in Nat
  PROVE  \E g : AreArgs(s, parts, n, g)
<1> DEFINE P == {m \in Nat : \E g : AreArgs(s, parts, m, g)}
           w(k, g) == IF k = 0 THEN s ELSE ArgStep(parts, k, g[k - 1])
<1>1. 0 \in P
  <2>1. AreArgs(s, parts, 0, [k \in 0 .. 0 |-> s])
    BY DEF AreArgs
  <2> QED
    BY <2>1
<1>2. ASSUME NEW m \in Nat, m \in P
      PROVE  m + 1 \in P
  <2>1. PICK g : AreArgs(s, parts, m, g)
    BY <1>2
  <2> DEFINE h == [k \in 0 .. m + 1 |-> IF k = m + 1 THEN w(m + 1, g) ELSE g[k]]
  <2>2. \A k \in 0 .. m : g[k] = w(k, g)
    BY <2>1 DEF AreArgs
  <2> HIDE DEF w
  <2>3. \A k \in 0 .. m : h[k] = g[k]
    BY <2>2
  <2>4. \A k \in 0 .. m + 1 : h[k] = w(k, g)
    BY <2>2
  <2>5. \A k \in 0 .. m + 1 : k = 0 \/ h[k - 1] = g[k - 1]
    <3> HIDE DEF h
    <3> QED
      BY <2>3
  <2>6. \A k \in 0 .. m + 1 : w(k, h) = w(k, g)
    <3> HIDE DEF h
    <3> QED
      BY <2>5 DEF w
  <2>7. h = [k \in 0 .. m + 1 |-> w(k, h)]
    BY <2>4, <2>6
  <2>8. AreArgs(s, parts, m + 1, h)
    BY <2>7 DEF AreArgs, w
  <2> QED
    BY <2>8
<1> HIDE DEF P
<1>3. Nat \subseteq P
  BY <1>1, <1>2, SetInduction
<1> QED
  BY <1>3 DEF P

LEMMA ArgsSteps ==
  ASSUME NEW s, NEW parts, Len(parts) \in Nat
  PROVE  LET g == ArgsAdded(s, parts)
         IN  /\ g[0] = s
             /\ \A k \in 1 .. Len(parts) : g[k] = ArgStep(parts, k, g[k - 1])
<1> DEFINE N == Len(parts)
           g == ArgsAdded(s, parts)
           w(k) == ArgStep(parts, k, g[k - 1])
<1>1. \E h : AreArgs(s, parts, N, h)
  BY ArgsExist
<1>2. g = CHOOSE h : AreArgs(s, parts, N, h)
  BY DEF ArgsAdded, AreArgs, ArgStep
<1>3. AreArgs(s, parts, N, g)
  BY <1>1, <1>2
<1>4. N \in Nat
  OBVIOUS
<1>5. \A k \in 0 .. N : g[k] = IF k = 0 THEN s ELSE w(k)
  <2> HIDE DEF g, N
  <2> QED
    BY <1>3 DEF AreArgs
<1> HIDE DEF g, N, w
<1>6. 0 \in 0 .. N /\ \A k \in 1 .. N : k \in 0 .. N /\ k # 0
  BY <1>4
<1>7. g[0] = s /\ \A k \in 1 .. N : g[k] = w(k)
  BY <1>5, <1>6
<1> QED
  BY <1>7 DEF g, N, w

(* All arguments of an EXECVE record, however many.                        *)
LEMMA ArgsKept ==
  ASSUME Len(sample) \in Nat, NEW s, ArgState(s), NEW parts, Len(parts) \in Nat,
         \A k \in 1 .. Len(parts) : Fits(ArgsAdded(s, parts)[k - 1], parts[k])
  PROVE  ArgState(ArgsAdded(s, parts)[Len(parts)])
<1> DEFINE N == Len(parts)
           g == ArgsAdded(s, parts)
           P == {k \in Nat : k <= N => ArgState(g[k])}
<1>1. g[0] = s /\ \A k \in 1 .. N : g[k] = ArgStep(parts, k, g[k - 1])
  BY ArgsSteps
<1>2. 0 \in P
  BY <1>1
<1>3. ASSUME NEW k \in Nat, k \in P
      PROVE  k + 1 \in P
  <2> SUFFICES ASSUME k + 1 <= N
               PROVE  ArgState(g[k + 1])
    OBVIOUS
  <2> DEFINE p == g[k]
  <2>1. k + 1 \in 1 .. N /\ (k + 1) - 1 = k
    OBVIOUS
  <2>2. g[k + 1] = ArgAdded(p, parts[k + 1])
    BY <1>1, <2>1 DEF ArgStep
  <2>3. ArgState(p)
    BY <1>3
  <2>4. Fits(p, parts[k + 1])
    BY <2>1
  <2> HIDE DEF g, p
  <2> QED
    BY <2>2, <2>3, <2>4, ArgKept
<1> HIDE DEF P
<1>4. Nat \subseteq P
  BY <1>2, <1>3, SetInduction
<1> QED
  BY <1>4 DEF P

-----------------------------------------------------------------------------
(* Lists, and those of normalized fields.                                  *)

ListState(t, first, n) ==
  /\ IsTree(t) /\ t.tail = <<>>
  /\ Rising(t.nodes, first) /\ AllNumbers(t.nodes) = 1 .. n /\ TreesIn(t.nodes) = {}

LEMMA ListPlain ==
  ASSUME NEW t, NEW first, NEW n, ListState(t, first, n), NEW text, PlainText(text), NEW prio \in Int
  PROVE  ListState(AddNode(t, text, prio), first, n)
<1> DEFINE u == AddNode(t, text, prio)
<1>1. IsTree(t) /\ t.tail = <<>> /\ Rising(t.nodes, first)
  BY DEF ListState
<1>2. Appended(t, u, prio, None, {})
  BY <1>1, PlainAppended
<1> HIDE DEF u
<1>3. Rising(u.nodes, first) /\ AllNumbers(u.nodes) = AllNumbers(t.nodes)
  BY <1>1, <1>2, RisingPlain
<1>4. TreesIn(u.nodes) = TreesIn(t.nodes)
  <2>1. TreesIn(u.nodes) = TreesIn(t.nodes) \union ({None} \ {None})
    BY <1>1, <1>2, AppendedNumbers
  <2> QED
    BY <2>1
<1>5. IsTree(u) /\ u.tail = <<>>
  BY <1>2 DEF Appended
<1> QED
  BY <1>3, <1>4, <1>5 DEF ListState, u

(* A list grows by the item with the next number.                          *)
LEMMA ListNext ==
  ASSUME NEW m \in Nat \ {0}, NEW t, NEW first, ListState(t, first, m - 1),
         NEW text, SomeText(text), NEW prio \in Int, prio = m - 1 + first
  PROVE  ListState(AddNode(t, Numbered(m, text), prio), first, m)
<1> DEFINE u == AddNode(t, Numbered(m, text), prio)
<1>1. IsTree(t) /\ t.tail = <<>> /\ Rising(t.nodes, first) /\ AllNumbers(t.nodes) = 1 .. m - 1
  BY DEF ListState
<1>2. Appended(t, u, prio, None, {m})
  BY <1>1, NumberAppended
<1> HIDE DEF u
<1>3. Rising(u.nodes, first) /\ AllNumbers(u.nodes) = 1 .. m
  BY <1>1, <1>2, RisingNext
<1>4. TreesIn(u.nodes) = TreesIn(t.nodes)
  <2>1. TreesIn(u.nodes) = TreesIn(t.nodes) \union ({None} \ {None})
    BY <1>1, <1>2, AppendedNumbers
  <2> QED
    BY <2>1
<1>5. IsTree(u) /\ u.tail = <<>>
  BY <1>2 DEF Appended
<1> QED
  BY <1>3, <1>4, <1>5 DEF ListState, u

(* The items of a list, one after the other.                               *)
ItemStep(p, j, q) ==
  AddNode(q, Numbered(p + j - 1, Field(j = 1, TRUE, [name |-> "attr", raw |-> TRUE])), p + j - 1)

AreItems(t, p, n, g) ==
  g = [k \in 0 .. n |-> IF k = 0 THEN t ELSE ItemStep(p, k, g[k - 1])]

(* The recursive function of the items is what its equations say.          *)
LEMMA ItemsExist ==
  ASSUME NEW t, NEW p, NEW n \in Nat
  PROVE  \E g : AreItems(t, p, n, g)
<1> DEFINE P == {m \in Nat : \E g : AreItems(t, p, m, g)}
           w(k, g) == IF k = 0 THEN t ELSE ItemStep(p, k, g[k - 1])
<1>1. 0 \in P
  <2>1. AreItems(t, p, 0, [k \in 0 .. 0 |-> t])
    BY DEF AreItems
  <2> QED
    BY <2>1
<1>2. ASSUME NEW m \in Nat, m \in P
      PROVE  m + 1 \in P
  <2>1. PICK g : AreItems(t, p, m, g)
    BY <1>2
  <2> DEFINE h == [k \in 0 .. m + 1 |-> IF k = m + 1 THEN w(m + 1, g) ELSE g[k]]
  <2>2. \A k \in 0 .. m : g[k] = w(k, g)
    BY <2>1 DEF AreItems
  <2> HIDE DEF w
  <2>3. \A k \in 0 .. m : h[k] = g[k]
    BY <2>2
  <2>4. \A k \in 0 .. m + 1 : h[k] = w(k, g)
    BY <2>2
  <2>5. \A k \in 0 .. m + 1 : k = 0 \/ h[k - 1] = g[k - 1]
    <3> HIDE DEF h
    <3> QED
      BY <2>3
  <2>6. \A k \in 0 .. m + 1 : w(k, h) = w(k, g)
    <3> HIDE DEF h
    <3> QED
      BY <2>5 DEF w
  <2>7. h = [k \in 0 .. m + 1 |-> w(k, h)]
    BY <2>4, <2>6
  <2>8. AreItems(t, p, m + 1, h)
    BY <2>7 DEF AreItems, w
  <2> QED
    BY <2>8
<1> HIDE DEF P
<1>3. Nat \subseteq P
  BY <1>1, <1>2, SetInduction
<1> QED
  BY <1>3 DEF P

LEMMA ItemsSteps ==
  ASSUME NEW t, NEW p, NEW n \in Nat
  PROVE  LET g == ItemsAdded(t, p, n)
         IN  /\ g[0] = t
             /\ \A k \in 1 .. n : g[k] = ItemStep(p, k, g[k - 1])
<1> DEFINE N == n
           g == ItemsAdded(t, p, n)
           w(k) == ItemStep(p, k, g[k - 1])
<1>1. \E h : AreItems(t, p, N, h)
  BY ItemsExist
<1>2. g = CHOOSE h : AreItems(t, p, N, h)
  BY DEF ItemsAdded, AreItems, ItemStep
<1>3. AreItems(t, p, N, g)
  BY <1>1, <1>2
<1>4. N \in Nat
  OBVIOUS
<1>5. \A k \in 0 .. N : g[k] = IF k = 0 THEN t ELSE w(k)
  <2> HIDE DEF g, N
  <2> QED
    BY <1>3 DEF AreItems
<1> HIDE DEF g, N, w
<1>6. 0 \in 0 .. N /\ \A k \in 1 .. N : k \in 0 .. N /\ k # 0
  BY <1>4
<1>7. g[0] = t /\ \A k \in 1 .. N : g[k] = w(k)
  BY <1>5, <1>6
<1> QED
  BY <1>7 DEF g, N, w

(* All items of a position list, however many.                             *)
LEMMA ItemsKept ==
  ASSUME Len(sample) \in Nat, NEW p \in Nat \ {0}, NEW t, ListState(t, 1, p - 1), NEW n \in Nat
  PROVE  ListState(ItemsAdded(t, p, n)[n], 1, p + n - 1)
<1> DEFINE g == ItemsAdded(t, p, n)
           P == {k \in Nat : k <= n => ListState(g[k], 1, p + k - 1)}
<1>1. g[0] = t /\ \A k \in 1 .. n : g[k] = ItemStep(p, k, g[k - 1])
  BY ItemsSteps
<1>2. 0 \in P
  <2>1. p + 0 - 1 = p - 1
    OBVIOUS
  <2> HIDE DEF g
  <2> QED
    BY <1>1, <2>1
<1>3. ASSUME NEW k \in Nat, k \in P
      PROVE  k + 1 \in P
  <2> SUFFICES ASSUME k + 1 <= n
               PROVE  ListState(g[k + 1], 1, p + (k + 1) - 1)
    OBVIOUS
  <2> DEFINE q == g[k]
             m == p + (k + 1) - 1
             f == Field(k + 1 = 1, TRUE, [name |-> "attr", raw |-> TRUE])
  <2>1. k + 1 \in 1 .. n /\ (k + 1) - 1 = k
    OBVIOUS
  <2>2. g[k + 1] = AddNode(q, Numbered(m, f), m)
    BY <1>1, <2>1 DEF ItemStep
  <2>3. ListState(q, 1, p + k - 1)
    BY <1>3
  <2>4. SomeText(f)
    BY FieldPlain
  <2>5. m \in Nat \ {0} /\ m \in Int /\ m = m - 1 + 1 /\ m - 1 = p + k - 1
    OBVIOUS
  <2> HIDE DEF g, q, m, f
  <2> QED
    BY <2>2, <2>3, <2>4, <2>5, ListNext
<1> HIDE DEF P
<1>4. Nat \subseteq P
  BY <1>2, <1>3, SetInduction
<1> QED
  BY <1>4 DEF P

LEMMA ListedKept ==
  ASSUME Len(sample) \in Nat, NEW p \in Nat \ {0}, NEW t, ListState(t, 1, p - 1), NEW n \in Nat, NEW i
  PROVE  ListState(Listed(t, i, p, n), 1, p + n - 1)
<1> DEFINE s == Separator(XML \/ i = 1)
           b == Begin(NormName[i], "[")
           head == s \o b
           e == Close(NormName[i], "]")
           t1 == AddNode(t, head, p)
           t2 == ItemsAdded(t1, p, n)[n]
<1>1. PlainText(s) /\ PlainText(b) /\ PlainText(e)
  BY PiecesPlain, BracketsPlain DEF SomeText
<1>2. Listed(t, i, p, n) = AddNode(t2, e, p)
  BY DEF Listed
<1> HIDE DEF s, b, e
<1>3. PlainText(head)
  BY <1>1, PlainJoined
<1> HIDE DEF head
<1>4. ListState(t1, 1, p - 1)
  BY <1>3, ListPlain
<1> HIDE DEF t1
<1>5. ListState(t2, 1, p + n - 1)
  BY <1>4, ItemsKept
<1> HIDE DEF t2
<1> QED
  BY <1>1, <1>2, <1>5, ListPlain

-----------------------------------------------------------------------------
(* PATH items and their separators.                                        *)

LEMMA GapsHalf ==
  ASSUME NEW t, Len(t.nodes) \in Nat
  PROVE  /\ Gaps(t) \in Nat
         /\ Len(t.nodes) = 0 => Gaps(t) = 0
         /\ Len(t.nodes) > 0 => 2 * Gaps(t) + 1 <= Len(t.nodes) /\ Len(t.nodes) <= 2 * Gaps(t) + 2
<1> DEFINE n == Len(t.nodes)
           h == (n - 1) \div 2
<1>1. n \in Nat
  OBVIOUS
<1> HIDE DEF n
<1>2. n > 0 => h \in Nat /\ 2 * h + 1 <= n /\ n <= 2 * h + 2
  BY <1>1
<1>3. Gaps(t) = IF n > 1 THEN h ELSE 0
  BY DEF Gaps, n
<1> HIDE DEF h
<1> QED
  BY <1>1, <1>2, <1>3 DEF n

(* The separators, one after the other.                                    *)
CommaStep(i, p) == PutText(Add(p, Comma), i * 2 + 1, i)

AreCommas(t, n, g) ==
  g = [k \in 0 .. n |-> IF k = 0 THEN t ELSE CommaStep(k, g[k - 1])]

(* The recursive function of the separators is what its equations say.     *)
LEMMA CommasExist ==
  ASSUME NEW t, NEW n \in Nat
  PROVE  \E g : AreCommas(t, n, g)
<1> DEFINE P == {m \in Nat : \E g : AreCommas(t, m, g)}
           w(k, g) == IF k = 0 THEN t ELSE CommaStep(k, g[k - 1])
<1>1. 0 \in P
  <2>1. AreCommas(t, 0, [k \in 0 .. 0 |-> t])
    BY DEF AreCommas
  <2> QED
    BY <2>1
<1>2. ASSUME NEW m \in Nat, m \in P
      PROVE  m + 1 \in P
  <2>1. PICK g : AreCommas(t, m, g)
    BY <1>2
  <2> DEFINE h == [k \in 0 .. m + 1 |-> IF k = m + 1 THEN w(m + 1, g) ELSE g[k]]
  <2>2. \A k \in 0 .. m : g[k] = w(k, g)
    BY <2>1 DEF AreCommas
  <2> HIDE DEF w
  <2>3. \A k \in 0 .. m : h[k] = g[k]
    BY <2>2
  <2>4. \A k \in 0 .. m + 1 : h[k] = w(k, g)
    BY <2>2
  <2>5. \A k \in 0 .. m + 1 : k = 0 \/ h[k - 1] = g[k - 1]
    <3> HIDE DEF h
    <3> QED
      BY <2>3
  <2>6. \A k \in 0 .. m + 1 : w(k, h) = w(k, g)
    <3> HIDE DEF h
    <3> QED
      BY <2>5 DEF w
  <2>7. h = [k \in 0 .. m + 1 |-> w(k, h)]
    BY <2>4, <2>6
  <2>8. AreCommas(t, m + 1, h)
    BY <2>7 DEF AreCommas, w
  <2> QED
    BY <2>8
<1> HIDE DEF P
<1>3. Nat \subseteq P
  BY <1>1, <1>2, SetInduction
<1> QED
  BY <1>3 DEF P

LEMMA CommasSteps ==
  ASSUME NEW t, Gaps(t) \in Nat
  PROVE  LET g == SeparatedUpTo(t)
         IN  /\ g[0] = t
             /\ \A k \in 1 .. Gaps(t) : g[k] = CommaStep(k, g[k - 1])
<1> DEFINE N == Gaps(t)
           g == SeparatedUpTo(t)
           w(k) == CommaStep(k, g[k - 1])
<1>1. \E h : AreCommas(t, N, h)
  BY CommasExist
<1>2. g = CHOOSE h : AreCommas(t, N, h)
  BY DEF SeparatedUpTo, AreCommas, CommaStep
<1>3. AreCommas(t, N, g)
  BY <1>1, <1>2
<1>4. N \in Nat
  OBVIOUS
<1>5. \A k \in 0 .. N : g[k] = IF k = 0 THEN t ELSE w(k)
  <2> HIDE DEF g, N
  <2> QED
    BY <1>3 DEF AreCommas
<1> HIDE DEF g, N, w
<1>6. 0 \in 0 .. N /\ \A k \in 1 .. N : k \in 0 .. N /\ k # 0
  BY <1>4
<1>7. g[0] = t /\ \A k \in 1 .. N : g[k] = w(k)
  BY <1>5, <1>6
<1> QED
  BY <1>7 DEF g, N, w

(* A node that is a separator, or one behind it that is as before.         *)
IsComma(node) == node # Hole /\ node.tree = None /\ NumbersIn(node.text) = {}

(* Separators go to the places between the items, all of them.             *)
LEMMA CommasPut ==
  ASSUME NEW t, IsTree(t), t.tail = <<>>
  PROVE  LET u == SeparatedUpTo(t)[Gaps(t)]
         IN  /\ IsTree(u) /\ u.tail = <<>> /\ Len(u.nodes) = Len(t.nodes)
             /\ \A k \in 1 .. Len(t.nodes) :
                  \/ u.nodes[k] = t.nodes[k] /\ ~\E i \in 1 .. Gaps(t) : k = 2 * i + 1
                  \/ IsComma(u.nodes[k]) /\ \E i \in 1 .. Gaps(t) : k = 2 * i + 1
<1> DEFINE N == Gaps(t)
           L == Len(t.nodes)
           g == SeparatedUpTo(t)
           ns == t.nodes
           Good(u, i) ==
             /\ IsTree(u) /\ u.tail = <<>> /\ Len(u.nodes) = L
             /\ \A k \in 1 .. L :
                  \/ u.nodes[k] = ns[k] /\ ~\E j \in 1 .. i : k = 2 * j + 1
                  \/ IsComma(u.nodes[k]) /\ \E j \in 1 .. i : k = 2 * j + 1
           P == {i \in Nat : i <= N => Good(g[i], i)}
<1>1. L \in Nat
  BY DEF IsTree, IsSeq
<1>2. N \in Nat /\ (L = 0 => N = 0) /\ (L > 0 => 2 * N + 1 <= L)
  BY <1>1, GapsHalf
<1>3. g[0] = t /\ \A k \in 1 .. N : g[k] = CommaStep(k, g[k - 1])
  BY <1>2, CommasSteps
<1>4. Good(t, 0)
  OBVIOUS
<1> HIDE DEF Good
<1>5. 0 \in P
  BY <1>3, <1>4
<1>6. ASSUME NEW i \in Nat, i \in P
      PROVE  i + 1 \in P
  <2> SUFFICES ASSUME i + 1 <= N
               PROVE  Good(g[i + 1], i + 1)
    OBVIOUS
  <2> DEFINE p == g[i]
             at == (i + 1) * 2 + 1
             q == Add(p, Comma)
             prio == i + 1
             u == PutText(q, at, prio)
  <2>1. i + 1 \in 1 .. N /\ (i + 1) - 1 = i
    BY <1>2
  <2>2. g[i + 1] = u
    BY <1>3, <2>1 DEF CommaStep
  <2>3. Good(p, i)
    BY <1>2, <1>6
  <2>4. at \in 1 .. L /\ at = 2 * (i + 1) + 1 /\ at \in Nat \ {0} /\ prio \in Int
    <3> HIDE DEF N, L
    <3> QED
      BY <1>1, <1>2
  <2> HIDE DEF g, p, at, N, L, ns, prio
  <2>5. PlainText(Comma) /\ Comma # <<>>
    BY PiecesPlain, NonEmpty DEF SomeText, PlainText
  <2>6. IsTree(q) /\ q.nodes = p.nodes /\ NumbersIn(q.tail) = {}
    <3>1. IsTree(p) /\ p.tail = <<>> /\ IsSeq(Comma) /\ NumbersIn(Comma) = {}
      BY <2>3, <2>5, NumbersPlain DEF Good, PlainText
    <3> QED
      BY <3>1, AddedText
  <2> DEFINE node == [prio |-> prio, text |-> q.tail, tree |-> None]
  <2> HIDE DEF q
  <2>7. /\ IsTree(u) /\ u.tail = <<>>
        /\ Len(u.nodes) = IF at > Len(p.nodes) THEN at ELSE Len(p.nodes)
        /\ u.nodes[at] = node
        /\ \A k \in 1 .. Len(p.nodes) : k # at => u.nodes[k] = p.nodes[k]
    <3>1. IsTree(q) /\ at \in Nat \ {0} /\ prio \in Int
      BY <2>4, <2>6
    <3>2. /\ IsTree(u) /\ u.tail = <<>>
          /\ Len(u.nodes) = IF at > Len(q.nodes) THEN at ELSE Len(q.nodes)
          /\ u.nodes[at] = node
          /\ \A k \in 1 .. Len(q.nodes) : k # at => u.nodes[k] = q.nodes[k]
      <4>1. NodeAt(q, u, at, node) /\ u.tail = <<>>
        BY <3>1, PutTextNode
      <4> HIDE DEF u, node
      <4> QED
        BY <4>1 DEF NodeAt
    <3> HIDE DEF u, node
    <3> QED
      BY <3>2, <2>6
  <2> HIDE DEF u
  <2>8. IsComma(node)
    <3>1. node.prio = prio /\ node.tree = None /\ node.text = q.tail
      OBVIOUS
    <3>2. node # Hole
      BY <3>1, HoleNode DEF prio
    <3> HIDE DEF node
    <3> QED
      BY <2>6, <3>1, <3>2 DEF IsComma
  <2> HIDE DEF node
  <2>9. Len(p.nodes) = L /\ Len(u.nodes) = L
    BY <1>1, <2>3, <2>4, <2>7 DEF Good
  <2>10. ASSUME NEW k \in 1 .. L
         PROVE  \/ u.nodes[k] = ns[k] /\ ~\E j \in 1 .. i + 1 : k = 2 * j + 1
                \/ IsComma(u.nodes[k]) /\ \E j \in 1 .. i + 1 : k = 2 * j + 1
    <3>1. CASE k = at
      <4>1. i + 1 \in 1 .. i + 1 /\ k = 2 * (i + 1) + 1
        BY <2>4, <3>1
      <4> QED
        BY <2>7, <2>8, <3>1, <4>1
    <3>2. CASE k # at
      <4>1. u.nodes[k] = p.nodes[k]
        BY <2>7, <2>9, <3>2
      <4>2. \A j : j \in 1 .. i + 1 <=> j \in 1 .. i \/ j = i + 1
        OBVIOUS
      <4>3. (\E j \in 1 .. i + 1 : k = 2 * j + 1) <=> \E j \in 1 .. i : k = 2 * j + 1
        BY <2>4, <3>2, <4>2
      <4>4. \/ p.nodes[k] = ns[k] /\ ~\E j \in 1 .. i : k = 2 * j + 1
            \/ IsComma(p.nodes[k]) /\ \E j \in 1 .. i : k = 2 * j + 1
        BY <2>3 DEF Good
      <4> QED
        BY <4>1, <4>3, <4>4
    <3> QED
      BY <3>1, <3>2
  <2> QED
    BY <2>2, <2>7, <2>9, <2>10 DEF Good
<1> HIDE DEF P
<1>7. Nat \subseteq P
  BY <1>5, <1>6, SetInduction
<1>8. Good(g[N], N)
  BY <1>2, <1>7 DEF P
<1> QED
  BY <1>8 DEF Good

(* What the PATH collector's tree is like before its end.                  *)
PathState(t) ==
  /\ IsTree(t) /\ t.tail = <<>> /\ TreesIn(t.nodes) = {} /\ Spread(t.nodes)
  /\ t.nodes # <<>> => NumbersIn(t.nodes[1].text) = {}
  /\ XML \/ Len(t.nodes) \in {0, 1} \/ \E m \in 1 .. Len(t.nodes) : Len(t.nodes) = 2 * m

(* Without gaps, the place of each item is right.                          *)
LEMMA PathSolid ==
  ASSUME NEW t, PathState(t), t.nodes # <<>>, Solid(Separated(t))
  PROVE  LET u == Separated(t)
         IN  IsTree(u) /\ u.tail = <<>> /\ Rising(u.nodes, 0) /\ TreesIn(u.nodes) = {}
<1> DEFINE u == Separated(t)
           n == Len(t.nodes)
           ns == t.nodes
           us == u.nodes
<1>1. IsTree(t) /\ t.tail = <<>> /\ TreesIn(ns) = {} /\ Spread(ns) /\ NumbersIn(ns[1].text) = {} /\ n \in Nat
  BY DEF PathState, IsTree, IsSeq
<1>2. \A k \in 1 .. Len(us) : us[k] # Hole
  BY DEF Solid
<1>3. CASE XML
  <2>1. u = t
    BY <1>3 DEF Separated
  <2>2. \A i \in 2 .. n : NumbersIn(ns[i].text) = {i - 1} /\ ns[i].prio = i - 2
    <3>1. \A i \in 2 .. n : i \in 1 .. n
      OBVIOUS
    <3>2. \A i \in 2 .. n : ns[i] # Hole
      <4>1. \A k \in 1 .. n : ns[k] # Hole
        BY <1>2, <2>1
      <4> QED
        BY <3>1, <4>1
    <3> QED
      BY <1>1, <1>3, <3>2 DEF Spread
  <2>3. ASSUME NEW j \in 1 .. n, NEW m \in NumbersIn(ns[j].text)
        PROVE  /\ m \in Nat \ {0} /\ ns[j].prio = m - 1 + 0
               /\ NumbersUpTo(ns, j - 1) = 1 .. m - 1
    <3>1. j \in 2 .. n
      BY <1>1, <2>3
    <3>2. m = j - 1 /\ ns[j].prio = j - 2
      BY <2>2, <2>3, <3>1
    <3>3. ASSUME NEW x \in NumbersUpTo(ns, j - 1)
          PROVE  x \in 1 .. m - 1
      <4>1. PICK i \in 1 .. j - 1 : x \in NumbersIn(ns[i].text)
        BY UpToMember
      <4>2. i \in 2 .. n
        BY <1>1, <4>1
      <4>3. x = i - 1
        BY <2>2, <4>1, <4>2
      <4> QED
        BY <3>2, <4>2, <4>3
    <3>4. ASSUME NEW x \in 1 .. m - 1
          PROVE  x \in NumbersUpTo(ns, j - 1)
      <4>1. x + 1 \in 2 .. n /\ x + 1 \in 1 .. j - 1 /\ (x + 1) - 1 = x
        BY <1>1, <3>2
      <4>2. x \in NumbersIn(ns[x + 1].text)
        BY <2>2, <4>1
      <4> QED
        BY <4>1, <4>2, UpToMember
    <3>5. NumbersUpTo(ns, j - 1) = 1 .. m - 1
      BY <3>3, <3>4
    <3>6. m \in Nat \ {0} /\ ns[j].prio = m - 1 + 0
      BY <3>1, <3>2
    <3> QED
      BY <3>5, <3>6
  <2>4. Rising(ns, 0)
    BY <2>3 DEF Rising
  <2> QED
    BY <1>1, <2>1, <2>4
<1>4. CASE ~XML
  <2>1. u = SeparatedUpTo(t)[Gaps(t)]
    BY <1>4 DEF Separated
  <2>2. n > 0
    BY <1>1, NothingSeq DEF IsTree, IsSeq
  <2>3. Gaps(t) \in Nat /\ 2 * Gaps(t) + 1 <= n /\ n <= 2 * Gaps(t) + 2
    BY <1>1, <2>2, GapsHalf
  <2> HIDE DEF u
  <2>4. /\ IsTree(u) /\ u.tail = <<>> /\ Len(us) = n
        /\ \A k \in 1 .. n :
             \/ us[k] = ns[k] /\ ~\E i \in 1 .. Gaps(t) : k = 2 * i + 1
             \/ IsComma(us[k]) /\ \E i \in 1 .. Gaps(t) : k = 2 * i + 1
    BY <1>1, <2>1, CommasPut
  <2>5. \A k \in 1 .. n : us[k] = ns[k] \/ IsComma(us[k])
    BY <2>4
  <2> HIDE DEF us, ns, n
  <2>6. TreesIn(us) = {}
    <3>1. \A k \in 1 .. n : us[k].tree = None
      BY <1>1, <2>5 DEF TreesIn, IsComma, n, ns
    <3> QED
      BY <2>4, <3>1 DEF TreesIn
  <2>7. ASSUME NEW k \in 1 .. n, NEW x \in NumbersIn(us[k].text)
        PROVE  x \in 1 .. k /\ k = 2 * x /\ NumbersIn(us[k].text) = {x} /\ us[k].prio = x - 1
    <3>1. us[k] = ns[k] /\ k # 1
      BY <1>1, <2>5, <2>7 DEF IsComma
    <3>2. us[k] # Hole
      BY <1>2, <2>4
    <3>3. k \in 2 .. Len(ns)
      BY <1>1, <3>1 DEF n, ns
    <3>4. \E m \in 1 .. k : k = 2 * m /\ NumbersIn(ns[k].text) = {m} /\ ns[k].prio = m - 1
      BY <1>1, <1>4, <3>1, <3>2, <3>3 DEF Spread
    <3> QED
      BY <2>7, <3>1, <3>4
  <2>8. ASSUME NEW x \in Nat \ {0}, 2 * x <= n
        PROVE  NumbersIn(us[2 * x].text) = {x}
    <3> DEFINE k == 2 * x
    <3>1. k \in 1 .. n /\ k \in 2 .. n
      BY <1>1, <2>8
    <3>2. ~\E i \in 1 .. Gaps(t) : k = 2 * i + 1
      BY <2>3
    <3>3. us[k] = ns[k] /\ us[k] # Hole
      <4> HIDE DEF k
      <4> QED
        BY <1>2, <2>4, <3>1, <3>2
    <3>4. k \in 2 .. Len(ns)
      BY <3>1 DEF n, ns
    <3>5. \E m \in 1 .. k : k = 2 * m /\ NumbersIn(ns[k].text) = {m}
      BY <1>1, <1>4, <3>3, <3>4 DEF Spread
    <3>6. PICK m \in 1 .. k : k = 2 * m /\ NumbersIn(ns[k].text) = {m}
      BY <3>5
    <3>7. m = x
      BY <3>6
    <3> QED
      BY <3>3, <3>6, <3>7
  <2>9. ASSUME NEW j \in 1 .. Len(us), NEW m \in NumbersIn(us[j].text)
        PROVE  /\ m \in Nat \ {0} /\ us[j].prio = m - 1 + 0
               /\ NumbersUpTo(us, j - 1) = 1 .. m - 1
    <3>1. j \in 1 .. n /\ m \in 1 .. j /\ j = 2 * m /\ us[j].prio = m - 1
      BY <2>4, <2>7, <2>9
    <3>2. ASSUME NEW x \in NumbersUpTo(us, j - 1)
          PROVE  x \in 1 .. m - 1
      <4>1. PICK i \in 1 .. j - 1 : x \in NumbersIn(us[i].text)
        BY UpToMember
      <4>2. i \in 1 .. n
        BY <1>1, <3>1
      <4>3. x \in 1 .. i /\ i = 2 * x
        BY <2>7, <4>1, <4>2
      <4> QED
        BY <3>1, <4>2, <4>3
    <3>3. ASSUME NEW x \in 1 .. m - 1
          PROVE  x \in NumbersUpTo(us, j - 1)
      <4>1. x \in Nat \ {0} /\ 2 * x <= n /\ 2 * x \in 1 .. j - 1
        BY <1>1, <3>1
      <4>2. x \in NumbersIn(us[2 * x].text)
        BY <2>8, <4>1
      <4> QED
        BY <4>1, <4>2, UpToMember
    <3>4. NumbersUpTo(us, j - 1) = 1 .. m - 1
      BY <3>2, <3>3
    <3>5. m \in Nat \ {0} /\ us[j].prio = m - 1 + 0
      BY <3>1
    <3> QED
      BY <3>4, <3>5
  <2>10. Rising(us, 0)
    BY <2>9 DEF Rising
  <2> QED
    BY <2>4, <2>6, <2>10 DEF us, u
<1> QED
  BY <1>3, <1>4

(* A list without anything.                                                *)
LEMMA BlankList ==
  ASSUME NEW first
  PROVE  ListState(Blank, first, 0)
<1>1. IsTree(Blank) /\ Blank.nodes = <<>> /\ Len(Blank.nodes) = 0 /\ Blank.tail = <<>>
  BY BlankTree
<1>2. NumbersUpTo(Blank.nodes, 0) = {} /\ 1 .. 0 = {}
  BY DEF NumbersUpTo
<1>3. TreesIn(Blank.nodes) = {} /\ Rising(Blank.nodes, first)
  BY <1>1 DEF TreesIn, Rising
<1> QED
  BY <1>1, <1>2, <1>3 DEF ListState, AllNumbers

(* A list with its beginning.                                              *)
LEMMA FirstNode ==
  ASSUME NEW text, PlainText(text), NEW first
  PROVE  LET u == AddNode(Blank, text, 0)
         IN  /\ ListState(u, first, 0) /\ Len(u.nodes) = 1 /\ u.nodes # <<>>
             /\ NumbersIn(u.nodes[1].text) = {}
<1> DEFINE u == AddNode(Blank, text, 0)
<1>1. IsTree(Blank) /\ Len(Blank.nodes) = 0 /\ Blank.tail = <<>>
  BY BlankTree
<1>2. ListState(u, first, 0)
  BY BlankList, ListPlain
<1>3. Appended(Blank, u, 0, None, {})
  BY <1>1, PlainAppended
<1> HIDE DEF u
<1>4. Len(u.nodes) = 1 /\ NumbersIn(u.nodes[1].text) = {}
  BY <1>1, <1>3 DEF Appended
<1>5. u.nodes # <<>>
  BY <1>4, NothingSeq
<1> QED
  BY <1>2, <1>4, <1>5 DEF u

LEMMA PathFirst ==
  ASSUME NEW text, PlainText(text)
  PROVE  PathState(AddNode(Blank, text, 0))
<1> DEFINE u == AddNode(Blank, text, 0)
<1>1. ListState(u, 0, 0) /\ Len(u.nodes) = 1 /\ NumbersIn(u.nodes[1].text) = {}
  BY FirstNode
<1> HIDE DEF u
<1>2. Spread(u.nodes)
  BY <1>1 DEF Spread
<1> QED
  BY <1>1, <1>2 DEF PathState, ListState, u

(* A PATH item goes to its place, in whatever order they come.             *)
LEMMA PathPlaced ==
  ASSUME NEW t, PathState(t), t.nodes # <<>>, NEW idx \in Nat, NEW text, SomeText(text),
         NEW i, i = (IF XML THEN idx ELSE idx * 2) + 2,
         i \notin {k \in 1 .. Len(t.nodes) : t.nodes[k] # Hole}
  PROVE  PathState(Placed(t, i, idx, Numbered(idx + 1, text)))
<1> DEFINE n == Len(t.nodes)
           ns == t.nodes
           x == Numbered(idx + 1, text)
           q == Add(t, x)
           u == Placed(t, i, idx, x)
           us == u.nodes
           node == [prio |-> idx, text |-> q.tail, tree |-> None]
<1>1. /\ IsTree(t) /\ t.tail = <<>> /\ TreesIn(ns) = {} /\ Spread(ns) /\ NumbersIn(ns[1].text) = {}
      /\ n \in Nat /\ n > 0
      /\ XML \/ n = 1 \/ \E m \in 1 .. n : n = 2 * m
  BY NothingSeq DEF PathState, IsTree, IsSeq
<1>2. i \in Nat \ {0} /\ idx \in Int /\ i # 1
  OBVIOUS
<1>3. IsSeq(x) /\ NumbersIn(x) = {idx + 1}
  <2> DEFINE m == idx + 1
  <2>1. m \in Nat \ {0} /\ IsSeq(text) /\ Len(text) > 0
    BY DEF SomeText, PlainText
  <2> HIDE DEF m
  <2> QED
    BY <2>1, NumbersNumbered DEF m
<1> HIDE DEF x
<1>4. IsTree(q) /\ q.nodes = ns /\ NumbersIn(q.tail) = {idx + 1}
  BY <1>1, <1>3, AddedText
<1>5. u = PutText(q, i, idx)
  BY DEF Placed
<1> HIDE DEF q, u
<1>6. /\ IsTree(u) /\ u.tail = <<>>
      /\ Len(us) = IF i > n THEN i ELSE n
      /\ us[i] = node
      /\ \A k \in 1 .. n : k # i => us[k] = ns[k]
      /\ \A k \in 1 .. Len(us) : k > n /\ k # i => us[k] = Hole
  <2> DEFINE v == PutText(q, i, idx)
             m == Len(q.nodes)
  <2>1. /\ IsTree(v) /\ v.tail = <<>>
        /\ Len(v.nodes) = IF i > m THEN i ELSE m
        /\ v.nodes[i] = node
        /\ \A k \in 1 .. m : k # i => v.nodes[k] = q.nodes[k]
        /\ \A k \in 1 .. Len(v.nodes) : k > m /\ k # i => v.nodes[k] = Hole
    <3>1. NodeAt(q, v, i, node) /\ v.tail = <<>>
      BY <1>2, <1>4, PutTextNode
    <3> HIDE DEF v, node
    <3> QED
      BY <3>1 DEF NodeAt
  <2>2. u = v /\ q.nodes = ns /\ m = n
    BY <1>4, <1>5
  <2> HIDE DEF v, m, node, n
  <2> QED
    BY <2>1, <2>2
<1>7. node.prio = idx /\ node.tree = None /\ NumbersIn(node.text) = {idx + 1}
  BY <1>4
<1> HIDE DEF n, ns, us, node
<1>8. \A k \in 1 .. Len(us) :
        \/ us[k] = node /\ k = i
        \/ us[k] = Hole /\ k # i
        \/ us[k] = ns[k] /\ k # i /\ k \in 1 .. n
  BY <1>1, <1>2, <1>6
<1>9. TreesIn(us) = {}
  <2>1. \A k \in 1 .. n : ns[k].tree = None
    BY <1>1 DEF TreesIn, n, ns
  <2>2. \A k \in 1 .. Len(us) : us[k].tree = None
    BY <1>7, <1>8, <2>1, HoleNode
  <2> QED
    BY <2>2 DEF TreesIn
<1>10. Spread(us)
  <2> SUFFICES ASSUME NEW k \in 2 .. Len(us)
               PROVE  \/ us[k] = Hole
                      \/ IF XML THEN NumbersIn(us[k].text) = {k - 1} /\ us[k].prio = k - 2
                         ELSE \E m \in 1 .. k : k = 2 * m /\ NumbersIn(us[k].text) = {m} /\ us[k].prio = m - 1
    BY DEF Spread
  <2>1. k \in 1 .. Len(us)
    OBVIOUS
  <2>2. CASE k = i
    <3>1. us[k].prio = idx /\ NumbersIn(us[k].text) = {idx + 1}
      BY <1>6, <1>7, <2>2
    <3>2. CASE XML
      <4>1. idx + 1 = k - 1 /\ idx = k - 2
        BY <2>2, <3>2
      <4> QED
        BY <3>1, <3>2, <4>1
    <3>3. CASE ~XML
      <4> DEFINE m == idx + 1
      <4>1. m \in 1 .. k /\ k = 2 * m /\ m - 1 = idx
        BY <2>2, <3>3
      <4> HIDE DEF m
      <4>2. NumbersIn(us[k].text) = {m} /\ us[k].prio = m - 1
        BY <3>1, <4>1 DEF m
      <4> QED
        BY <3>3, <4>1, <4>2
    <3> QED
      BY <3>2, <3>3
  <2>3. CASE k # i /\ us[k] = Hole
    BY <2>3
  <2>4. CASE us[k] = ns[k] /\ k # i /\ k \in 1 .. n
    <3>1. k \in 2 .. Len(ns)
      BY <1>1, <2>4 DEF n, ns
    <3> QED
      BY <1>1, <2>4, <3>1 DEF Spread
  <2> QED
    BY <1>8, <2>1, <2>2, <2>3, <2>4
<1>11. NumbersIn(us[1].text) = {}
  BY <1>1, <1>2, <1>6
<1>12. XML \/ \E m \in 1 .. Len(us) : Len(us) = 2 * m
  <2>1. CASE XML
    BY <2>1
  <2>2. CASE ~XML /\ i > n
    <3> DEFINE m == idx + 1
    <3>1. m \in 1 .. Len(us) /\ Len(us) = 2 * m
      BY <1>1, <1>6, <2>2
    <3> QED
      BY <3>1
  <2>3. CASE ~XML /\ ~(i > n)
    <3>1. Len(us) = n /\ n # 1
      BY <1>1, <1>2, <1>6, <2>3
    <3> QED
      BY <1>1, <2>3, <3>1
  <2> QED
    BY <2>1, <2>2, <2>3
<1> QED
  BY <1>6, <1>9, <1>10, <1>11, <1>12 DEF PathState, us, u, x

-----------------------------------------------------------------------------
(* The end of the records.                                                 *)

RecordTrees == {"execve", "path", "rep"}

(* With the collectors' trees A in the data, and n records of their own.   *)
DataState(s, A, n) ==
  /\ IsForest(s.tree) /\ s.count = n + Cardinality(A)
  /\ A \subseteq RecordTrees
  /\ s.tree["data"].tail = <<>> /\ Rising(s.tree["data"].nodes, 0)
  /\ AllNumbers(s.tree["data"].nodes) = 1 .. n /\ TreesIn(s.tree["data"].nodes) = A

RecordState(t) ==
  IsTree(t) /\ t.tail = <<>> /\ Rising(t.nodes, 0) /\ TreesIn(t.nodes) = {}

(* The end of an output record.                                            *)
LEMMA RecordClosed ==
  ASSUME NEW t, RecordState(t), NEW text, PlainText(text)
  PROVE  LET u == AddNode(t, text, 0)
         IN  RecordState(u) /\ AllNumbers(u.nodes) = AllNumbers(t.nodes) /\ u.nodes # <<>>
<1> DEFINE u == AddNode(t, text, 0)
           I == AllNumbers(t.nodes)
<1>1. IsTree(t) /\ t.tail = <<>> /\ Rising(t.nodes, 0) /\ TreesIn(t.nodes) = {}
  BY DEF RecordState
<1>2. Appended(t, u, 0, None, {})
  BY <1>1, PlainAppended
<1> HIDE DEF u
<1>3. Rising(u.nodes, 0) /\ AllNumbers(u.nodes) = I
  BY <1>1, <1>2, RisingPlain
<1>4. TreesIn(u.nodes) = {}
  <2>1. TreesIn(u.nodes) = {} \union ({None} \ {None})
    BY <1>1, <1>2, AppendedNumbers
  <2> QED
    BY <2>1
<1>5. IsTree(u) /\ u.tail = <<>> /\ Len(u.nodes) = Len(t.nodes) + 1
  BY <1>2 DEF Appended
<1>6. u.nodes # <<>>
  BY <1>1, <1>5, NothingSeq DEF IsTree, IsSeq
<1> QED
  BY <1>3, <1>4, <1>5, <1>6 DEF RecordState, u

(* The record of the collector's tree t, with the numbers I, is in it too. *)
WithRecord(s, A, n, t, I, r) ==
  /\ DataState(r, A \union {t}, n)
  /\ RecordState(r.tree[t]) /\ r.tree[t].nodes # <<>> /\ AllNumbers(r.tree[t].nodes) = I
  /\ \A u \in Trees \ {t, "data"} : r.tree[u] = s.tree[u]

(* An output record is finished, and its tree put into the data.           *)
LEMMA RecordCommitted ==
  ASSUME NEW s, NEW A, NEW n \in Nat, DataState(s, A, n), NEW t \in RecordTrees \ A, NEW name,
         NEW contents, RecordState(contents)
  PROVE  WithRecord(s, A, n, t, AllNumbers(contents.nodes), Committed(s, t, name, contents))
<1> DEFINE f == s.tree
           d0 == f["data"]
           d1 == IF XML \/ s.count = 0 THEN d0 ELSE AddNode(d0, Comma, s.count)
           d2 == AddTree(d1, s.count, t)
           c == AddNode(contents, Close(name, "]"), 0)
           r == Committed(s, t, name, contents)
           B == A \union {t}
<1>1. IsForest(f) /\ s.count = n + Cardinality(A) /\ A \subseteq RecordTrees
      /\ d0.tail = <<>> /\ Rising(d0.nodes, 0) /\ AllNumbers(d0.nodes) = 1 .. n /\ TreesIn(d0.nodes) = A
  BY DEF DataState
<1>2. t \in Trees /\ "data" \in Trees /\ t # "data" /\ t # None
  BY DEF RecordTrees, Trees, None
<1>3. IsTree(d0)
  BY <1>1, <1>2 DEF IsForest
<1>4. IsFiniteSet(A) /\ Cardinality(A) \in Nat
  <2>1. IsFiniteSet({"execve", "path", "rep"})
    <3>1. IsFiniteSet({"rep"})
      BY FS_Singleton
    <3>2. IsFiniteSet({"rep"} \union {"path"})
      BY <3>1, FS_AddElement
    <3>3. IsFiniteSet(({"rep"} \union {"path"}) \union {"execve"})
      BY <3>2, FS_AddElement
    <3>4. ({"rep"} \union {"path"}) \union {"execve"} = {"execve", "path", "rep"}
      OBVIOUS
    <3> QED
      BY <3>3, <3>4
  <2>2. IsFiniteSet(A)
    BY <1>1, <2>1, FS_Subset DEF RecordTrees
  <2> QED
    BY <2>2, FS_CardinalityType
<1>5. s.count \in Nat /\ s.count \in Int
  BY <1>1, <1>4
<1>6. Cardinality(B) = Cardinality(A) + 1
  BY <1>4, FS_AddElement
<1>7. r.tree = [[f EXCEPT ![t] = c] EXCEPT !["data"] = d2] /\ r.count = s.count + 1
  BY DEF Committed
<1>8. RecordState(c) /\ c.nodes # <<>> /\ AllNumbers(c.nodes) = AllNumbers(contents.nodes)
  <2>1. PlainText(Close(name, "]"))
    BY BracketsPlain DEF SomeText
  <2> QED
    BY <2>1, RecordClosed
<1>9. /\ IsTree(d1) /\ d1.tail = <<>> /\ Rising(d1.nodes, 0)
      /\ AllNumbers(d1.nodes) = 1 .. n /\ TreesIn(d1.nodes) = A
  <2>1. CASE XML \/ s.count = 0
    BY <1>1, <1>3, <2>1
  <2>2. CASE ~(XML \/ s.count = 0)
    <3> DEFINE e == AddNode(d0, Comma, s.count)
               I == AllNumbers(d0.nodes)
    <3>1. Appended(d0, e, s.count, None, {})
      BY <1>1, <1>3, <1>5, PlainAppended, PiecesPlain DEF SomeText
    <3>2. d1 = e
      BY <2>2
    <3> HIDE DEF e, d0
    <3>3. Rising(e.nodes, 0) /\ AllNumbers(e.nodes) = I
      BY <1>1, <1>3, <3>1, RisingPlain
    <3>4. TreesIn(e.nodes) = TreesIn(d0.nodes) \union ({None} \ {None})
      BY <1>3, <3>1, AppendedNumbers
    <3>5. TreesIn(e.nodes) = A
      BY <1>1, <3>4
    <3>6. IsTree(e) /\ e.tail = <<>>
      BY <3>1 DEF Appended
    <3> HIDE DEF d1
    <3> QED
      BY <1>1, <3>2, <3>3, <3>5, <3>6
  <2> QED
    BY <2>1, <2>2
<1> HIDE DEF d0, d1
<1>10. /\ IsTree(d2) /\ d2.tail = <<>> /\ Rising(d2.nodes, 0)
       /\ AllNumbers(d2.nodes) = 1 .. n /\ TreesIn(d2.nodes) = B
  <2> DEFINE I == AllNumbers(d1.nodes)
  <2>1. Appended(d1, d2, s.count, t, {})
    BY <1>2, <1>5, <1>9, TreeAppended
  <2> HIDE DEF d2
  <2>2. Rising(d2.nodes, 0) /\ AllNumbers(d2.nodes) = I
    BY <1>9, <2>1, RisingPlain
  <2>3. TreesIn(d2.nodes) = A \union ({t} \ {None})
    BY <1>9, <2>1, AppendedNumbers
  <2>4. IsTree(d2) /\ d2.tail = <<>>
    BY <2>1 DEF Appended
  <2> QED
    BY <1>2, <1>9, <2>2, <2>3, <2>4
<1> HIDE DEF d2, c, r, f
<1>11. /\ r.tree[t] = c /\ r.tree["data"] = d2
       /\ \A u \in Trees \ {t, "data"} : r.tree[u] = f[u]
       /\ r.tree = [u \in Trees |-> r.tree[u]]
  <2>1. f = [u \in Trees |-> f[u]]
    BY <1>1 DEF IsForest
  <2> QED
    BY <1>2, <1>7, <2>1
<1>12. IsForest(r.tree)
  <2>1. IsTree(c)
    BY <1>8 DEF RecordState
  <2>2. \A u \in Trees : IsTree(r.tree[u])
    BY <1>1, <1>10, <1>11, <2>1 DEF IsForest
  <2> QED
    BY <1>11, <2>2 DEF IsForest
<1>13. DataState(r, B, n)
  <2>1. r.count = n + Cardinality(B)
    BY <1>1, <1>4, <1>6, <1>7
  <2>2. B \subseteq RecordTrees
    BY <1>1
  <2> HIDE DEF B
  <2> QED
    BY <1>10, <1>11, <1>12, <2>1, <2>2 DEF DataState
<1> QED
  BY <1>8, <1>11, <1>13 DEF r, f, WithRecord

-----------------------------------------------------------------------------
(* Steps with records. The text, the event and the normalized data do not  *)
(* depend on what a collector does.                                        *)

LEMMA SameShape ==
  ASSUME shape' = shape
  PROVE  /\ XML' <=> XML
         /\ TextNode' = TextNode /\ DataNode' = DataNode /\ EventLen' = EventLen
         /\ \A i : TreeAt(i)' = TreeAt(i)
BY DEF XML, TextNode, DataNode, EventLen, TreeAt

LEMMA SampleTyped ==
  ASSUME TypeOK
  PROVE  Len(sample) \in Nat
BY MarkupAssumption DEF TypeOK

LEMMA ForestTrees ==
  ASSUME NEW f, IsForest(f)
  PROVE  /\ IsTree(f["event"]) /\ IsTree(f["text"]) /\ IsTree(f["data"]) /\ IsTree(f["norm"])
         /\ IsTree(f["execve"]) /\ IsTree(f["path"]) /\ IsTree(f["rep"])
BY DEF IsForest, Trees

(* One tree is another one.                                                *)
With(g, f, t, u) == g = [f EXCEPT ![t] = u]

LEMMA ForestWith ==
  ASSUME NEW f, IsForest(f), NEW t \in Trees, NEW u, IsTree(u), NEW g, With(g, f, t, u)
  PROVE  IsForest(g) /\ g[t] = u /\ \A s \in Trees \ {t} : g[s] = f[s]
<1>1. f = [s \in Trees |-> f[s]] /\ \A s \in Trees : IsTree(f[s])
  BY DEF IsForest
<1>2. g[t] = u /\ (\A s \in Trees \ {t} : g[s] = f[s]) /\ g = [s \in Trees |-> g[s]]
  BY <1>1 DEF With
<1>3. \A s \in Trees : IsTree(g[s])
  BY <1>1, <1>2
<1> QED
  BY <1>2, <1>3 DEF IsForest

(* Every record adds its line to the text.                                 *)
LEMMA LineAdded ==
  ASSUME MarkupInv, pc = "records"
  PROVE  /\ IsForest(WithLine) /\ ListState(WithLine["text"], 0, line_num + 1)
         /\ \A t \in Trees \ {"text"} : WithLine[t] = tree[t]
<1> DEFINE m == line_num + 1
           t == tree["text"]
           u == AddNode(t, Numbered(m, Line), line_num)
<1>1. TypeOK /\ EventOK /\ TextOK
  BY DEF MarkupInv
<1>2. ~Marked
  BY <1>1 DEF EventOK
<1>3. IsForest(tree) /\ line_num \in Nat /\ line_num \in Int /\ m \in Nat \ {0} /\ m - 1 = line_num
      /\ line_num = m - 1 + 0
  BY <1>1 DEF TypeOK
<1>4. SomeText(Line)
  BY <1>1, SampleTyped, LinePlain
<1>5. ListState(t, 0, m - 1)
  <2>1. IsTree(t)
    BY <1>3, ForestTrees
  <2>2. Rising(t.nodes, 0) /\ TreesIn(t.nodes) = {} /\ t.tail = <<>>
    BY <1>1 DEF TextOK, InOrder, TreesOf
  <2>3. AllNumbers(t.nodes) = 1 .. m - 1
    BY <1>1, <1>2, <1>3 DEF TextOK, Numbers, AllNumbers
  <2> QED
    BY <2>1, <2>2, <2>3 DEF ListState
<1> HIDE DEF t
<1>6. ListState(u, 0, m)
  <2> DEFINE z == 0
             p == line_num
  <2>1. p = m - 1 + z /\ p \in Int /\ m \in Nat \ {0} /\ ListState(t, z, m - 1)
    BY <1>3, <1>5
  <2> HIDE DEF m, z, p
  <2>2. ListState(AddNode(t, Numbered(m, Line), p), z, m)
    BY <1>4, <2>1, ListNext
  <2> QED
    BY <2>2 DEF z, p
<1>7. WithLine = [tree EXCEPT !["text"] = u]
  BY DEF WithLine, t
<1> HIDE DEF u, m
<1>8. IsTree(u) /\ "text" \in Trees
  BY <1>6 DEF ListState, Trees
<1>9. /\ IsForest(WithLine) /\ WithLine["text"] = u
      /\ \A s \in Trees \ {"text"} : WithLine[s] = tree[s]
  <2> DEFINE x == "text"
             f == tree
             g == WithLine
  <2>1. x \in Trees /\ IsTree(u) /\ IsForest(f) /\ With(g, f, x, u)
    BY <1>3, <1>7, <1>8 DEF With
  <2> HIDE DEF x, f, g
  <2>2. IsForest(g) /\ g[x] = u /\ \A s \in Trees \ {x} : g[s] = f[s]
    BY <2>1, ForestWith
  <2> QED
    BY <2>2 DEF x, f, g
<1> QED
  BY <1>6, <1>9 DEF m

(* Records leave the event and the normalized data as they are.            *)
LEMMA RecordsFrame ==
  ASSUME MarkupInv, RecordStep, IsForest(tree'), tree'["text"] = WithLine["text"],
         tree'["event"] = tree["event"], tree'["norm"] = tree["norm"],
         record_num' \in Nat, error' \in BOOLEAN, IsFiniteSet(seen'),
         args' \in [num : Nat, done : Nat, open : BOOLEAN]
  PROVE  TypeOK' /\ EventOK' /\ TextOK' /\ NormOK' /\ ~Marked' /\ pc' = "records"
<1>1. TypeOK /\ EventOK /\ TextOK /\ NormOK
  BY DEF MarkupInv, RecordStep
<1>2. /\ pc = "records" /\ pc' = pc /\ shape' = shape /\ sample' = sample /\ norm' = norm
      /\ line_num' = line_num + 1
  BY DEF RecordStep
<1>3. TypeOK'
  BY <1>1, <1>2 DEF TypeOK
<1>4. ~Marked /\ ~Marked'
  BY <1>1, <1>2 DEF EventOK, Marked, TrimmedNode
<1>5. EventOK'
  <2>1. EventLen' = EventLen /\ \A i : TreeAt(i)' = TreeAt(i)
    BY <1>2, SameShape
  <2>2. TreesOf("event")' = TreesOf("event")
    BY DEF TreesOf
  <2> QED
    BY <1>1, <1>2, <1>4, <2>1, <2>2 DEF EventOK, TrimmedNode
<1>6. TextOK'
  <2>1. ListState(WithLine["text"], 0, line_num + 1)
    BY <1>2, LineAdded
  <2>2. ListState(tree["text"]', 0, line_num')
    BY <1>2, <2>1
  <2> QED
    BY <2>2 DEF ListState, TextOK, InOrder, TreesOf, Numbers, AllNumbers
<1>7. NormOK'
  BY <1>1, <1>2 DEF NormOK, InOrder, TreesOf, Numbers
<1> QED
  BY <1>2, <1>3, <1>4, <1>5, <1>6, <1>7

(* What the collectors have while there are records.                       *)
LEMMA RecordsStates ==
  ASSUME MarkupInv, pc = "records", ~error
  PROVE  /\ ListState(tree["data"], 0, record_num) /\ record_num = Cardinality(seen) /\ record_num \in Nat
         /\ ListState(tree["rep"], 0, Len(tree["rep"].nodes) - 1) /\ Len(tree["rep"].nodes) \in Nat
         /\ PathState(tree["path"])
         /\ tree["execve"].nodes # <<>> =>
              ArgState([tree |-> tree["execve"], done |-> args.done, open |-> args.open])
         /\ tree["execve"].nodes = <<>> => args.done = 0 /\ ~args.open /\ args.num = 0
<1>1. TypeOK /\ EventOK /\ DataOK /\ RepOK /\ ExecveOK /\ PathOK
  BY DEF MarkupInv
<1>2. ~Marked
  BY <1>1 DEF EventOK
<1>3. IsTree(tree["data"]) /\ IsTree(tree["rep"]) /\ IsTree(tree["path"]) /\ IsTree(tree["execve"])
  BY <1>1, ForestTrees DEF TypeOK
<1>4. ListState(tree["data"], 0, record_num) /\ record_num = Cardinality(seen) /\ record_num \in Nat
  BY <1>1, <1>2, <1>3 DEF DataOK, ListState, TreesOf, Numbers, AllNumbers, TypeOK
<1>5. ListState(tree["rep"], 0, Len(tree["rep"].nodes) - 1) /\ Len(tree["rep"].nodes) \in Nat
  BY <1>1, <1>3 DEF RepOK, InOrder, ListState, TreesOf, Numbers, AllNumbers, IsTree, IsSeq
<1>6. PathState(tree["path"])
  BY <1>1, <1>3 DEF PathOK, PathState, TreesOf
<1>7. ASSUME tree["execve"].nodes # <<>>
      PROVE  ArgState([tree |-> tree["execve"], done |-> args.done, open |-> args.open])
  <2> DEFINE s == [tree |-> tree["execve"], done |-> args.done, open |-> args.open]
  <2>1. s.tree = tree["execve"] /\ s.done = args.done /\ s.open = args.open
    OBVIOUS
  <2>2. s.done \in Nat /\ s.open \in BOOLEAN
    BY <1>1 DEF TypeOK
  <2> HIDE DEF s
  <2> QED
    BY <1>1, <1>2, <1>3, <1>7, <2>1, <2>2 DEF ExecveOK, ArgState, TreesOf, Numbers, AllNumbers, s
<1>8. tree["execve"].nodes = <<>> => args.done = 0 /\ ~args.open /\ args.num = 0
  BY <1>1, <1>2 DEF ExecveOK
<1> QED
  BY <1>4, <1>5, <1>6, <1>7, <1>8

(* What the collectors have: trees f, n records of the unique collector,   *)
(* with the types s, and the arguments a.                                  *)
Gathered(f, n, s, a) ==
  /\ ListState(f["data"], 0, n) /\ n = Cardinality(s)
  /\ ListState(f["rep"], 0, Len(f["rep"].nodes) - 1)
  /\ PathState(f["path"])
  /\ f["execve"].nodes # <<>> =>
       ArgState([tree |-> f["execve"], done |-> a.done, open |-> a.open]) /\ a.num # 0
  /\ f["execve"].nodes = <<>> =>
       a.num = 0 /\ a.done = 0 /\ ~a.open /\ f["execve"].tail = <<>>

(* This is what the invariant says of them while there are records,        *)
LEMMA GatheredNow ==
  ASSUME MarkupInv, pc = "records", ~error
  PROVE  Gathered(tree, record_num, seen, args)
<1>1. TypeOK /\ EventOK /\ ExecveOK /\ ~Marked
  BY DEF MarkupInv, EventOK
<1>2. tree["execve"].nodes # <<>> => args.num # 0
  BY <1>1 DEF ExecveOK
<1>3. tree["execve"].nodes = <<>> => tree["execve"].tail = <<>>
  BY <1>1, RecordsStates DEF ExecveOK
<1> DEFINE X == ArgState([tree |-> tree["execve"], done |-> args.done, open |-> args.open])
<1>4. /\ ListState(tree["data"], 0, record_num) /\ record_num = Cardinality(seen)
      /\ ListState(tree["rep"], 0, Len(tree["rep"].nodes) - 1)
      /\ PathState(tree["path"])
      /\ tree["execve"].nodes # <<>> => X
      /\ tree["execve"].nodes = <<>> => args.done = 0 /\ ~args.open /\ args.num = 0
  BY RecordsStates
<1> QED
  BY <1>2, <1>3, <1>4 DEF Gathered

(* and all it says of them.                                                *)
LEMMA GatheredThere ==
  ASSUME shape' = shape, IsForest(tree'), ~Marked', pc' = "records",
         Gathered(tree', record_num', seen', args')
  PROVE  DataOK' /\ RepOK' /\ ExecveOK' /\ PathOK'
<1>1. ~Marked' /\ pc' = "records"
  OBVIOUS
<1>2. shape' = shape /\ (XML' <=> XML)
  BY SameShape
<1> DEFINE F == tree'
           Z == [tree |-> F["execve"], done |-> args'.done, open |-> args'.open]
<1>3. Gathered(tree', record_num', seen', args')
  OBVIOUS
<1>4. /\ ListState(F["data"], 0, record_num') /\ record_num' = Cardinality(seen')
      /\ ListState(F["rep"], 0, Len(F["rep"].nodes) - 1)
      /\ PathState(F["path"])
      /\ F["execve"].nodes # <<>> => ArgState(Z) /\ args'.num # 0
      /\ F["execve"].nodes = <<>> =>
           args'.num = 0 /\ args'.done = 0 /\ ~args'.open /\ F["execve"].tail = <<>>
  BY <1>3 DEF Gathered
<1>5. IsTree(F["execve"])
  BY ForestTrees
<1>6. DataOK'
  BY <1>1, <1>4 DEF DataOK, ListState, TreesOf, Numbers, AllNumbers
<1>7. RepOK'
  BY <1>1, <1>4 DEF RepOK, InOrder, ListState, TreesOf, Numbers, AllNumbers
<1>8. PathOK'
  <2>1. PathState(F["path"])
    BY <1>4
  <2> QED
    BY <1>1, <1>2, <2>1 DEF PathOK, PathState, TreesOf, Spread
<1>9. ExecveOK'
  <2>1. CASE F["execve"].nodes # <<>>
    <3>1. ArgState(Z) /\ args'.num # 0
      BY <1>4, <2>1
    <3>2. Z.tree = F["execve"] /\ Z.done = args'.done /\ Z.open = args'.open
      OBVIOUS
    <3> HIDE DEF Z
    <3> QED
      BY <1>1, <2>1, <3>1, <3>2 DEF ArgState, ExecveOK, TreesOf, Numbers, AllNumbers
  <2>2. CASE F["execve"].nodes = <<>>
    <3>1. args'.num = 0 /\ args'.done = 0 /\ ~args'.open /\ F["execve"].tail = <<>>
      BY <1>4, <2>2
    <3> DEFINE ns == F["execve"].nodes
    <3>2. Len(ns) = 0
      BY <2>2
    <3>3. Rising(ns, 0) /\ TreesIn(ns) = {} /\ NumbersUpTo(ns, Len(ns)) = {}
      <4> HIDE DEF ns
      <4> QED
        BY <3>2 DEF Rising, TreesIn, NumbersUpTo
    <3> QED
      BY <1>1, <2>2, <3>1, <3>3 DEF ExecveOK, TreesOf, Numbers
  <2> QED
    BY <2>1, <2>2
<1> QED
  BY <1>6, <1>7, <1>8, <1>9

LEMMA GatheredNext ==
  ASSUME MarkupInv, RecordStep, IsForest(tree'), tree'["text"] = WithLine["text"],
         tree'["event"] = tree["event"], tree'["norm"] = tree["norm"],
         record_num' \in Nat, error' \in BOOLEAN, IsFiniteSet(seen'),
         args' \in [num : Nat, done : Nat, open : BOOLEAN],
         ~error' => Gathered(tree', record_num', seen', args')
  PROVE  MarkupInv'
<1>1. TypeOK' /\ EventOK' /\ TextOK' /\ NormOK' /\ ~Marked' /\ pc' = "records"
  BY RecordsFrame
<1>2. ~error' => DataOK' /\ RepOK' /\ ExecveOK' /\ PathOK'
  BY <1>1, GatheredThere DEF RecordStep
<1> QED
  BY <1>1, <1>2 DEF MarkupInv

(* A step that changes the tree of one collector, and the text.            *)
LEMMA CollectorAdded ==
  ASSUME MarkupInv, pc = "records", NEW t \in {"data", "rep", "path", "execve"}, NEW u, IsTree(u),
         With(tree', WithLine, t, u)
  PROVE  /\ IsForest(tree') /\ tree'["text"] = WithLine["text"]
         /\ tree'["event"] = tree["event"] /\ tree'["norm"] = tree["norm"] /\ tree'[t] = u
         /\ \A s \in {"data", "rep", "path", "execve"} : s # t => tree'[s] = tree[s]
<1>1. IsForest(WithLine) /\ \A s \in Trees \ {"text"} : WithLine[s] = tree[s]
  BY LineAdded
<1> DEFINE f == WithLine
           g == tree'
<1>2. IsForest(f) /\ With(g, f, t, u) /\ t \in Trees
  BY <1>1 DEF Trees
<1> HIDE DEF f, g
<1>3. IsForest(g) /\ g[t] = u /\ \A s \in Trees \ {t} : g[s] = f[s]
  BY <1>2, ForestWith
<1>4. IsForest(tree') /\ tree'[t] = u /\ \A s \in Trees \ {t} : tree'[s] = WithLine[s]
  BY <1>3 DEF f, g
<1> QED
  BY <1>1, <1>4 DEF Trees

(* A record of the unique collector is the next one of the data.           *)
LEMMA AddUniqStep ==
  ASSUME MarkupInv, AddUniq
  PROVE  MarkupInv'
<1>1. RecordStep /\ ~error /\ pc = "records" /\ TypeOK
  BY DEF AddUniq, RecordStep, MarkupInv
<1> DEFINE m == record_num + 1
           d == tree["data"]
<1>2. PICK name \in UniqTypes \ seen, fields \in FieldLists :
        /\ seen' = seen \union {name}
        /\ tree' = [WithLine EXCEPT
                      !["data"] = AddNode(@, Numbered(m, Record(record_num = 0, name, fields)), record_num)]
  BY DEF AddUniq
<1> DEFINE x == Record(record_num = 0, name, fields)
           u == AddNode(d, Numbered(m, x), record_num)
<1>3. SomeText(x)
  BY <1>1, SampleTyped, RecordPlain, MarkupAssumption
<1>4. Gathered(tree, record_num, seen, args)
  BY <1>1, GatheredNow
<1>5. ListState(d, 0, record_num) /\ record_num = Cardinality(seen)
  BY <1>4 DEF Gathered
<1>6. record_num \in Nat /\ record_num \in Int /\ m \in Nat \ {0} /\ record_num = m - 1 + 0 /\ m - 1 = record_num
  BY <1>1 DEF TypeOK
<1>7. With(tree', WithLine, "data", u)
  BY <1>1, <1>2, LineAdded DEF With, Trees
<1> HIDE DEF x, d
<1>8. ListState(u, 0, m)
  <2> DEFINE z == 0
             p == record_num
  <2>1. p = m - 1 + z /\ p \in Int /\ m \in Nat \ {0} /\ ListState(d, z, m - 1)
    BY <1>5, <1>6
  <2> HIDE DEF m, z, p
  <2>2. ListState(AddNode(d, Numbered(m, x), p), z, m)
    BY <1>3, <2>1, ListNext
  <2> QED
    BY <2>2 DEF z, p
<1> HIDE DEF u
<1>9. /\ IsForest(tree') /\ tree'["text"] = WithLine["text"]
      /\ tree'["event"] = tree["event"] /\ tree'["norm"] = tree["norm"] /\ tree'["data"] = u
      /\ \A s \in {"data", "rep", "path", "execve"} : s # "data" => tree'[s] = tree[s]
  <2>1. IsTree(u)
    BY <1>8 DEF ListState
  <2> DEFINE t == "data"
  <2>2. t \in {"data", "rep", "path", "execve"} /\ With(tree', WithLine, t, u)
    BY <1>7
  <2> HIDE DEF t
  <2>3. /\ IsForest(tree') /\ tree'["text"] = WithLine["text"]
        /\ tree'["event"] = tree["event"] /\ tree'["norm"] = tree["norm"] /\ tree'[t] = u
        /\ \A s \in {"data", "rep", "path", "execve"} : s # t => tree'[s] = tree[s]
    BY <1>1, <2>1, <2>2, CollectorAdded
  <2> QED
    BY <2>3 DEF t
<1>10. IsFiniteSet(seen') /\ Cardinality(seen') = m
  <2>1. IsFiniteSet(seen) /\ name \notin seen
    BY <1>1, <1>2 DEF TypeOK
  <2>2. IsFiniteSet(seen \union {name}) /\ Cardinality(seen \union {name}) = Cardinality(seen) + 1
    BY <2>1, FS_AddElement
  <2> QED
    BY <1>2, <1>5, <2>2
<1>11. record_num' = m /\ error' = error /\ args' = args
  BY DEF AddUniq
<1>12. Gathered(tree', record_num', seen', args')
  <2> HIDE DEF m
  <2> QED
    BY <1>4, <1>8, <1>9, <1>10, <1>11 DEF Gathered
<1>13. record_num' \in Nat /\ error' \in BOOLEAN /\ args' \in [num : Nat, done : Nat, open : BOOLEAN]
  BY <1>1, <1>6, <1>11 DEF TypeOK
<1> QED
  BY <1>1, <1>9, <1>10, <1>12, <1>13, GatheredNext

LEMMA Filled ==
  ASSUME NEW s, IsSeq(s), s # <<>>
  PROVE  Len(s) > 0
<1> SUFFICES ASSUME Len(s) = 0
             PROVE  s = <<>>
  BY DEF IsSeq
<1>1. s = [i \in 1 .. 0 |-> s[i]]
  BY DEF IsSeq
<1> QED
  BY <1>1

(* The beginning of a collector's tree.                                    *)
LEMMA BegunList ==
  ASSUME NEW t, NEW n, NEW m, m = Len(tree[t].nodes) - 1, ListState(tree[t], 0, m)
  PROVE  LET u == Begun(t, n)
         IN  Len(u.nodes) \in Nat \ {0} /\ ListState(u, 0, Len(u.nodes) - 1)
<1> DEFINE u == Begun(t, n)
           b == Begin(n, "[")
<1>1. CASE tree[t].nodes = <<>>
  <2>1. u = AddNode(Blank, b, 0)
    BY <1>1 DEF Begun
  <2>2. PlainText(b)
    BY BracketsPlain DEF SomeText
  <2> DEFINE z == 0
  <2> HIDE DEF b, z
  <2>3. LET v == AddNode(Blank, b, 0) IN ListState(v, z, 0) /\ Len(v.nodes) = 1
    BY <2>2, FirstNode
  <2>4. ListState(u, z, 0) /\ Len(u.nodes) = 1
    BY <2>1, <2>3
  <2> HIDE DEF u
  <2>5. ListState(u, z, Len(u.nodes) - 1) /\ Len(u.nodes) \in Nat \ {0}
    BY <2>4
  <2> QED
    BY <2>5 DEF u, z
<1>2. CASE tree[t].nodes # <<>>
  <2>1. u = tree[t]
    BY <1>2 DEF Begun
  <2>2. Len(u.nodes) \in Nat /\ Len(u.nodes) > 0
    BY <1>2, <2>1, Filled DEF ListState, IsTree, IsSeq
  <2>3. ListState(u, 0, m) /\ m = Len(u.nodes) - 1
    BY <2>1
  <2> HIDE DEF u
  <2>4. ListState(u, 0, Len(u.nodes) - 1)
    BY <2>3
  <2> QED
    BY <2>2, <2>4 DEF u
<1> QED
  BY <1>1, <1>2

(* A repeating record is the next item.                                    *)
LEMMA AddRepStep ==
  ASSUME MarkupInv, AddRep
  PROVE  MarkupInv'
<1>1. RecordStep /\ ~error /\ pc = "records" /\ TypeOK
  BY DEF AddRep, RecordStep, MarkupInv
<1> DEFINE b == Begun("rep", "avc")
           n == Len(b.nodes)
           s == IF XML THEN <<>> ELSE Separator(n = 1)
<1>2. PICK fields \in FieldLists :
        tree' = [WithLine EXCEPT !["rep"] = AddNode(b, Numbered(n, s \o Item(fields)), n - 1)]
  BY DEF AddRep
<1> DEFINE x == s \o Item(fields)
           u == AddNode(b, Numbered(n, x), n - 1)
<1>3. SomeText(x)
  <2>1. PlainText(s)
    BY PiecesPlain, PlainEmpty
  <2>2. PlainText(Item(fields)) /\ Len(Item(fields)) > 0
    BY <1>1, SampleTyped, ItemPlain, MarkupAssumption DEF SomeText
  <2> DEFINE y == Item(fields)
  <2> HIDE DEF s, y
  <2> QED
    BY <2>1, <2>2, SomeJoined
<1>4. Gathered(tree, record_num, seen, args)
  BY <1>1, GatheredNow
<1>5. n \in Nat \ {0} /\ ListState(b, 0, n - 1)
  <2> DEFINE t == "rep"
             m == Len(tree[t].nodes) - 1
  <2>1. ListState(tree[t], 0, m) /\ m = Len(tree[t].nodes) - 1
    BY <1>4 DEF Gathered
  <2> HIDE DEF t, m
  <2>2. LET v == Begun(t, "avc") IN Len(v.nodes) \in Nat \ {0} /\ ListState(v, 0, Len(v.nodes) - 1)
    BY <2>1, BegunList
  <2> QED
    BY <2>2 DEF t
<1>6. With(tree', WithLine, "rep", u)
  BY <1>2 DEF With
<1> HIDE DEF x, b
<1>7. ListState(u, 0, n) /\ Len(u.nodes) - 1 = n
  <2> DEFINE z == 0
             p == n - 1
             e == Numbered(n, x)
             v == AddNode(b, e, p)
  <2>1. p = n - 1 + z /\ p \in Int /\ n \in Nat \ {0} /\ ListState(b, z, n - 1) /\ SomeText(x)
        /\ IsTree(b) /\ b.tail = <<>> /\ Len(b.nodes) = n
    BY <1>3, <1>5 DEF ListState
  <2> HIDE DEF n, z, p
  <2>2. ListState(v, z, n)
    BY <2>1, ListNext
  <2> HIDE DEF v
  <2>3. Appended(b, v, p, None, {n})
    BY <2>1, NumberAppended DEF v
  <2>4. Len(v.nodes) = Len(b.nodes) + 1
    BY <2>3 DEF Appended
  <2>5. v = u
    BY DEF v, p
  <2> QED
    BY <2>1, <2>2, <2>4, <2>5 DEF z
<1> HIDE DEF u
<1>8. /\ IsForest(tree') /\ tree'["text"] = WithLine["text"]
      /\ tree'["event"] = tree["event"] /\ tree'["norm"] = tree["norm"] /\ tree'["rep"] = u
      /\ \A t \in {"data", "rep", "path", "execve"} : t # "rep" => tree'[t] = tree[t]
  <2>1. IsTree(u)
    BY <1>7 DEF ListState
  <2> DEFINE t == "rep"
  <2>2. t \in {"data", "rep", "path", "execve"} /\ With(tree', WithLine, t, u)
    BY <1>6
  <2> HIDE DEF t
  <2>3. /\ IsForest(tree') /\ tree'["text"] = WithLine["text"]
        /\ tree'["event"] = tree["event"] /\ tree'["norm"] = tree["norm"] /\ tree'[t] = u
        /\ \A i \in {"data", "rep", "path", "execve"} : i # t => tree'[i] = tree[i]
    BY <1>1, <2>1, <2>2, CollectorAdded
  <2> QED
    BY <2>3 DEF t
<1>9. record_num' = record_num /\ error' = error /\ args' = args /\ seen' = seen
  BY DEF AddRep
<1>10. Gathered(tree', record_num', seen', args')
  <2> HIDE DEF n
  <2> QED
    BY <1>4, <1>7, <1>8, <1>9 DEF Gathered
<1>11. /\ record_num' \in Nat /\ error' \in BOOLEAN /\ IsFiniteSet(seen')
       /\ args' \in [num : Nat, done : Nat, open : BOOLEAN]
  BY <1>1, <1>9 DEF TypeOK
<1> QED
  BY <1>1, <1>8, <1>10, <1>11, GatheredNext

(* A PATH record goes to its place.                                        *)
LEMMA AddPathStep ==
  ASSUME MarkupInv, AddPath
  PROVE  MarkupInv'
<1>1. RecordStep /\ ~error /\ pc = "records" /\ TypeOK
  BY DEF AddPath, RecordStep, MarkupInv
<1> DEFINE b == Begun("path", "path")
<1>2. PICK fields \in FieldLists, idx \in 0 .. MaxIdx :
        LET i == (IF XML THEN idx ELSE idx * 2) + 2
        IN  /\ i \notin {k \in 1 .. Len(b.nodes) : b.nodes[k] # Hole}
            /\ tree' = [WithLine EXCEPT !["path"] = Placed(b, i, idx, Numbered(idx + 1, Item(fields)))]
  BY DEF AddPath
<1> DEFINE i == (IF XML THEN idx ELSE idx * 2) + 2
           x == Item(fields)
           u == Placed(b, i, idx, Numbered(idx + 1, x))
<1>3. SomeText(x)
  BY <1>1, SampleTyped, ItemPlain, MarkupAssumption
<1>4. Gathered(tree, record_num, seen, args)
  BY <1>1, GatheredNow
<1>5. PathState(b) /\ b.nodes # <<>>
  <2>1. CASE tree["path"].nodes = <<>>
    <3> DEFINE o == Begin("path", "[")
               v == AddNode(Blank, o, 0)
    <3>1. b = v /\ PlainText(o)
      BY <2>1, BracketsPlain DEF Begun, SomeText
    <3> DEFINE z == 0
    <3> HIDE DEF o, z
    <3>2. PathState(v)
      BY <3>1, PathFirst
    <3>3. ListState(v, z, 0) /\ v.nodes # <<>>
      BY <3>1, FirstNode
    <3> QED
      BY <3>1, <3>2, <3>3
  <2>2. CASE tree["path"].nodes # <<>>
    BY <1>4, <2>2 DEF Begun, Gathered
  <2> QED
    BY <2>1, <2>2
<1>6. With(tree', WithLine, "path", u)
  BY <1>2 DEF With
<1>7. i \notin {k \in 1 .. Len(b.nodes) : b.nodes[k] # Hole} /\ idx \in Nat
  BY <1>2, MarkupAssumption
<1> HIDE DEF x, b
<1>8. PathState(u)
  <2>1. i = (IF XML THEN idx ELSE idx * 2) + 2
    OBVIOUS
  <2> HIDE DEF i
  <2> QED
    BY <1>3, <1>5, <1>7, <2>1, PathPlaced
<1> HIDE DEF u
<1>9. /\ IsForest(tree') /\ tree'["text"] = WithLine["text"]
      /\ tree'["event"] = tree["event"] /\ tree'["norm"] = tree["norm"] /\ tree'["path"] = u
      /\ \A t \in {"data", "rep", "path", "execve"} : t # "path" => tree'[t] = tree[t]
  <2>1. IsTree(u)
    BY <1>8 DEF PathState
  <2> DEFINE t == "path"
  <2>2. t \in {"data", "rep", "path", "execve"} /\ With(tree', WithLine, t, u)
    BY <1>6
  <2> HIDE DEF t
  <2>3. /\ IsForest(tree') /\ tree'["text"] = WithLine["text"]
        /\ tree'["event"] = tree["event"] /\ tree'["norm"] = tree["norm"] /\ tree'[t] = u
        /\ \A j \in {"data", "rep", "path", "execve"} : j # t => tree'[j] = tree[j]
    BY <1>1, <2>1, <2>2, CollectorAdded
  <2> QED
    BY <2>3 DEF t
<1>10. record_num' = record_num /\ error' = error /\ args' = args /\ seen' = seen
  BY DEF AddPath
<1>11. Gathered(tree', record_num', seen', args')
  BY <1>4, <1>8, <1>9, <1>10 DEF Gathered
<1>12. /\ record_num' \in Nat /\ error' \in BOOLEAN /\ IsFiniteSet(seen')
       /\ args' \in [num : Nat, done : Nat, open : BOOLEAN]
  BY <1>1, <1>10 DEF TypeOK
<1> QED
  BY <1>1, <1>9, <1>11, <1>12, GatheredNext

(* An EXECVE record finishes arguments and begins another one.             *)
LEMMA AddExecveStep ==
  ASSUME MarkupInv, AddExecve
  PROVE  MarkupInv'
<1>1. RecordStep /\ ~error /\ pc = "records" /\ TypeOK
  BY DEF AddExecve, RecordStep, MarkupInv
<1> DEFINE b == Begun("execve", "execve")
           q == [tree |-> b, done |-> args.done, open |-> args.open]
<1>2. PICK parts \in ExecveFields, num \in 1 .. MaxArgs :
        LET at == ArgsAdded(q, parts)
            s  == at[Len(parts)]
        IN  /\ \A k \in 1 .. Len(parts) : Fits(at[k - 1], parts[k])
            /\ args' = [num |-> num, done |-> s.done, open |-> s.open]
            /\ tree' = [WithLine EXCEPT !["execve"] = s.tree]
  BY DEF AddExecve
<1> DEFINE s == ArgsAdded(q, parts)[Len(parts)]
<1>3. Gathered(tree, record_num, seen, args)
  BY <1>1, GatheredNow
<1>4. ArgState(q)
  <2>1. CASE tree["execve"].nodes = <<>>
    <3> DEFINE o == Begin("execve", "[")
               v == AddNode(Blank, o, 0)
    <3>1. b = v /\ PlainText(o)
      BY <2>1, BracketsPlain DEF Begun, SomeText
    <3> DEFINE z == 0
    <3> HIDE DEF o, z
    <3>2. ListState(v, z, 0) /\ v.nodes # <<>>
      BY <3>1, FirstNode
    <3>3. args.done = 0 /\ ~args.open /\ args.open \in BOOLEAN
      BY <1>1, <1>3, <2>1 DEF Gathered, TypeOK
    <3>4. q.tree = v /\ q.done = 0 /\ q.open = args.open
      BY <3>1, <3>3
    <3> HIDE DEF v, q
    <3>5. IsTree(q.tree) /\ q.tree.tail = <<>> /\ q.done \in Nat
      BY <3>2, <3>4 DEF ListState
    <3>7. q.open \in BOOLEAN /\ ~q.open
      BY <3>3, <3>4
    <3>6. /\ Rising(q.tree.nodes, z) /\ AllNumbers(q.tree.nodes) = 1 .. q.done
          /\ TreesIn(q.tree.nodes) = {} /\ q.tree.nodes # <<>>
      BY <3>2, <3>4 DEF ListState
    <3> QED
      BY <3>5, <3>6, <3>7 DEF ArgState, z
  <2>2. CASE tree["execve"].nodes # <<>>
    <3>1. b = tree["execve"]
      BY <2>2 DEF Begun
    <3> QED
      BY <1>3, <2>2, <3>1 DEF Gathered
  <2> QED
    BY <2>1, <2>2
<1> HIDE DEF q
<1>5. ArgState(s)
  <2>1. Len(sample) \in Nat /\ Len(parts) \in Nat
    BY <1>1, SampleTyped, MarkupAssumption
  <2> QED
    BY <1>2, <1>4, <2>1, ArgsKept
<1>6. With(tree', WithLine, "execve", s.tree) /\ args' = [num |-> num, done |-> s.done, open |-> s.open]
      /\ num \in Nat /\ num # 0
  BY <1>2, MarkupAssumption DEF With
<1> HIDE DEF s
<1>7. IsTree(s.tree) /\ s.done \in Nat /\ s.open \in BOOLEAN /\ s.tree.nodes # <<>>
  BY <1>5 DEF ArgState
<1>8. /\ IsForest(tree') /\ tree'["text"] = WithLine["text"]
      /\ tree'["event"] = tree["event"] /\ tree'["norm"] = tree["norm"] /\ tree'["execve"] = s.tree
      /\ \A t \in {"data", "rep", "path", "execve"} : t # "execve" => tree'[t] = tree[t]
  <2> DEFINE t == "execve"
             u == s.tree
  <2>1. t \in {"data", "rep", "path", "execve"} /\ With(tree', WithLine, t, u) /\ IsTree(u)
    BY <1>6, <1>7
  <2> HIDE DEF t, u
  <2>2. /\ IsForest(tree') /\ tree'["text"] = WithLine["text"]
        /\ tree'["event"] = tree["event"] /\ tree'["norm"] = tree["norm"] /\ tree'[t] = u
        /\ \A j \in {"data", "rep", "path", "execve"} : j # t => tree'[j] = tree[j]
    BY <1>1, <2>1, CollectorAdded
  <2> QED
    BY <2>2 DEF t, u
<1>9. record_num' = record_num /\ error' = error /\ seen' = seen
  BY DEF AddExecve
<1>10. Gathered(tree', record_num', seen', args')
  <2> DEFINE Z == [tree |-> tree'["execve"], done |-> args'.done, open |-> args'.open]
  <2>1. Z.tree = s.tree /\ Z.done = s.done /\ Z.open = s.open /\ args'.num # 0
    BY <1>6, <1>8
  <2>2. ArgState(Z)
    <3> HIDE DEF Z
    <3> QED
      BY <1>5, <2>1 DEF ArgState
  <2>3. tree'["execve"].nodes # <<>>
    BY <1>7, <1>8
  <2> QED
    BY <1>3, <1>8, <1>9, <2>1, <2>2, <2>3 DEF Gathered
<1>11. /\ record_num' \in Nat /\ error' \in BOOLEAN /\ IsFiniteSet(seen')
       /\ args' \in [num : Nat, done : Nat, open : BOOLEAN]
  BY <1>1, <1>6, <1>7, <1>9 DEF TypeOK
<1> QED
  BY <1>1, <1>8, <1>10, <1>11, GatheredNext

LEMMA AddDropStep ==
  ASSUME MarkupInv, AddDrop
  PROVE  MarkupInv'
<1>1. RecordStep /\ ~error /\ pc = "records" /\ TypeOK
  BY DEF AddDrop, RecordStep, MarkupInv
<1>2. Gathered(tree, record_num, seen, args)
  BY <1>1, GatheredNow
<1>3. tree' = WithLine /\ record_num' = record_num /\ error' = error /\ args' = args /\ seen' = seen
  BY DEF AddDrop
<1>4. IsForest(WithLine) /\ \A t \in Trees \ {"text"} : WithLine[t] = tree[t]
  BY <1>1, LineAdded
<1>5. /\ IsForest(tree') /\ tree'["text"] = WithLine["text"]
      /\ tree'["event"] = tree["event"] /\ tree'["norm"] = tree["norm"]
      /\ \A t \in {"data", "rep", "path", "execve"} : tree'[t] = tree[t]
  BY <1>3, <1>4 DEF Trees
<1>6. Gathered(tree', record_num', seen', args')
  BY <1>2, <1>3, <1>5 DEF Gathered
<1>7. /\ record_num' \in Nat /\ error' \in BOOLEAN /\ IsFiniteSet(seen')
      /\ args' \in [num : Nat, done : Nat, open : BOOLEAN]
  BY <1>1, <1>3 DEF TypeOK
<1> QED
  BY <1>1, <1>5, <1>6, <1>7, GatheredNext

(* A collector that fails may leave text: nobody relies on its tree then.  *)
LEMMA AddFailsStep ==
  ASSUME MarkupInv, AddFails
  PROVE  MarkupInv'
<1>1. RecordStep /\ pc = "records" /\ TypeOK
  BY DEF AddFails, RecordStep, MarkupInv
<1>2. error' = TRUE /\ record_num' = record_num /\ args' = args /\ seen' = seen
  BY DEF AddFails
<1>3. IsForest(WithLine) /\ \A t \in Trees \ {"text"} : WithLine[t] = tree[t]
  BY <1>1, LineAdded
<1>4. /\ IsForest(tree') /\ tree'["text"] = WithLine["text"]
      /\ tree'["event"] = tree["event"] /\ tree'["norm"] = tree["norm"]
  <2>1. CASE tree' = WithLine
    BY <1>3, <2>1 DEF Trees
  <2>2. CASE tree' # WithLine
    <3> DEFINE x == <<T("torn")>>
    <3>1. PICK t \in {"data", "rep", "path", "execve"} : tree' = [WithLine EXCEPT ![t] = Add(@, x)]
      BY <2>2 DEF AddFails
    <3> DEFINE u == Add(WithLine[t], x)
    <3>2. With(tree', WithLine, t, u)
      BY <3>1 DEF With
    <3>3. IsTree(WithLine[t]) /\ IsSeq(x)
      BY <1>3, PiecesPlain DEF IsForest, Trees, SomeText, PlainText
    <3> HIDE DEF x
    <3>4. IsTree(u)
      BY <3>3, AddedText
    <3> HIDE DEF u
    <3> QED
      BY <1>1, <3>2, <3>4, CollectorAdded
  <2> QED
    BY <2>1, <2>2
<1>5. /\ record_num' \in Nat /\ error' \in BOOLEAN /\ IsFiniteSet(seen')
      /\ args' \in [num : Nat, done : Nat, open : BOOLEAN]
  BY <1>1, <1>2 DEF TypeOK
<1> QED
  BY <1>1, <1>2, <1>4, <1>5, GatheredNext

LEMMA AddRecordStep ==
  ASSUME MarkupInv, AddRecord
  PROVE  MarkupInv'
BY AddUniqStep, AddRepStep, AddPathStep, AddExecveStep, AddDropStep, AddFailsStep DEF AddRecord

-----------------------------------------------------------------------------
(* The end of the records.                                                 *)

(* The end of one collector, whose tree has the numbers I: its tree is in  *)
(* the data if it has anything.                                            *)
OneEnded(s, A, r, B, n, t, I) ==
  /\ DataState(r, B, n)
  /\ IF tree[t].nodes = <<>> THEN r = s /\ B = A
     ELSE /\ B = A \union {t}
          /\ RecordState(r.tree[t]) /\ r.tree[t].nodes # <<>> /\ AllNumbers(r.tree[t].nodes) = I
          /\ \A u \in Trees \ {t, "data"} : r.tree[u] = s.tree[u]

LEMMA OneCommitted ==
  ASSUME NEW s, NEW A, NEW n \in Nat, DataState(s, A, n), NEW t \in RecordTrees \ A, NEW name,
         NEW contents, tree[t].nodes # <<>> => RecordState(contents),
         NEW r, r = IF tree[t].nodes = <<>> THEN s ELSE Committed(s, t, name, contents)
  PROVE  OneEnded(s, A, r, IF tree[t].nodes = <<>> THEN A ELSE A \union {t}, n, t,
                  AllNumbers(contents.nodes))
<1>1. CASE tree[t].nodes = <<>>
  BY <1>1 DEF OneEnded
<1>2. CASE tree[t].nodes # <<>>
  <2>1. r = Committed(s, t, name, contents) /\ RecordState(contents)
    BY <1>2
  <2>2. WithRecord(s, A, n, t, AllNumbers(contents.nodes), Committed(s, t, name, contents))
    BY <2>1, RecordCommitted
  <2>3. WithRecord(s, A, n, t, AllNumbers(contents.nodes), r)
    BY <2>1, <2>2
  <2> QED
    BY <1>2, <2>3 DEF OneEnded, WithRecord
<1> QED
  BY <1>1, <1>2

(* All the collectors end: the data has the trees of those with records.   *)
LEMMA AllEnded ==
  ASSUME MarkupInv, pc = "records", ~error, Complete
  PROVE  /\ DataState(Ended, Added, record_num)
         /\ \A t \in Added : RecordState(Ended.tree[t]) /\ Ended.tree[t].nodes # <<>>
         /\ \A t \in Trees \ (Added \union {"data"}) : Ended.tree[t] = tree[t]
         /\ "execve" \in Added => AllNumbers(Ended.tree["execve"].nodes) = 1 .. args.done
<1> DEFINE n == record_num
           e == "execve"
           p == "path"
           r == "rep"
           s0 == [tree |-> tree, count |-> n]
           s1 == EndExecve(s0)
           s2 == EndPath(s1)
           s3 == EndRep(s2)
           ce == tree[e]
           cp == Separated(tree[p])
           cr == tree[r]
           A1 == IF tree[e].nodes = <<>> THEN {} ELSE {} \union {e}
           A2 == IF tree[p].nodes = <<>> THEN A1 ELSE A1 \union {p}
           A3 == IF tree[r].nodes = <<>> THEN A2 ELSE A2 \union {r}
<1>1. TypeOK /\ Gathered(tree, record_num, seen, args)
  BY GatheredNow DEF MarkupInv
<1>2. n \in Nat
  BY <1>1 DEF TypeOK
<1>3. Ended = s3
  BY DEF Ended
<1>4. DataState(s0, {}, n)
  <2>1. s0.tree = tree /\ s0.count = n
    OBVIOUS
  <2>2. n + Cardinality({}) = n
    BY <1>2, FS_EmptySet
  <2>3. IsForest(tree) /\ ListState(tree["data"], 0, n)
    BY <1>1 DEF TypeOK, Gathered
  <2> HIDE DEF s0, n
  <2> QED
    BY <2>1, <2>2, <2>3 DEF DataState, ListState
<1>5. tree[e].nodes # <<>> => RecordState(ce) /\ AllNumbers(ce.nodes) = 1 .. args.done
  <2> SUFFICES ASSUME tree[e].nodes # <<>>
               PROVE  RecordState(ce) /\ AllNumbers(ce.nodes) = 1 .. args.done
    OBVIOUS
  <2> DEFINE q == [tree |-> tree["execve"], done |-> args.done, open |-> args.open]
  <2>1. ArgState(q)
    BY <1>1 DEF Gathered
  <2>2. q.tree = ce /\ q.done = args.done /\ q.open = args.open /\ ~args.open
    BY DEF Complete
  <2> HIDE DEF q, ce
  <2> QED
    BY <2>1, <2>2 DEF ArgState, RecordState
<1>6. tree[p].nodes # <<>> => RecordState(cp)
  <2> SUFFICES ASSUME tree[p].nodes # <<>>
               PROVE  RecordState(cp)
    OBVIOUS
  <2> DEFINE t == tree[p]
  <2>1. PathState(t) /\ t.nodes # <<>> /\ Solid(Separated(t))
    BY <1>1 DEF Gathered, Complete
  <2> HIDE DEF t
  <2>2. LET u == Separated(t)
        IN  IsTree(u) /\ u.tail = <<>> /\ Rising(u.nodes, 0) /\ TreesIn(u.nodes) = {}
    BY <2>1, PathSolid
  <2> QED
    BY <2>2 DEF RecordState, t
<1>7. RecordState(cr)
  BY <1>1 DEF Gathered, ListState, RecordState
<1>8. s1 = IF tree[e].nodes = <<>> THEN s0 ELSE Committed(s0, e, "execve", ce)
  BY DEF EndExecve
<1>9. s2 = IF tree[p].nodes = <<>> THEN s1 ELSE Committed(s1, p, "path", cp)
  BY DEF EndPath
<1>10. s3 = IF tree[r].nodes = <<>> THEN s2 ELSE Committed(s2, r, "avc", cr)
  BY DEF EndRep
<1>11. e \in RecordTrees \ {} /\ p \in RecordTrees \ A1 /\ r \in RecordTrees \ A2
  BY DEF RecordTrees
<1>12. s0.tree = tree
  OBVIOUS
<1> HIDE DEF n, s0, s1, s2, s3, ce, cp, cr
<1>13. OneEnded(s0, {}, s1, A1, n, e, AllNumbers(ce.nodes))
  <2> DEFINE Z == {}
             t == e
  <2>1. DataState(s0, Z, n) /\ t \in RecordTrees \ Z /\ (tree[t].nodes # <<>> => RecordState(ce))
        /\ s1 = IF tree[t].nodes = <<>> THEN s0 ELSE Committed(s0, t, "execve", ce)
    BY <1>4, <1>5, <1>8, <1>11
  <2> HIDE DEF Z, t
  <2>2. OneEnded(s0, Z, s1, IF tree[t].nodes = <<>> THEN Z ELSE Z \union {t}, n, t, AllNumbers(ce.nodes))
    BY <1>2, <2>1, OneCommitted
  <2> QED
    BY <2>2 DEF Z, t
<1>14. OneEnded(s1, A1, s2, A2, n, p, AllNumbers(cp.nodes))
  <2> DEFINE t == p
  <2>1. DataState(s1, A1, n) /\ t \in RecordTrees \ A1 /\ (tree[t].nodes # <<>> => RecordState(cp))
        /\ s2 = IF tree[t].nodes = <<>> THEN s1 ELSE Committed(s1, t, "path", cp)
    BY <1>6, <1>9, <1>11, <1>13 DEF OneEnded
  <2> HIDE DEF t, A1
  <2>2. OneEnded(s1, A1, s2, IF tree[t].nodes = <<>> THEN A1 ELSE A1 \union {t}, n, t, AllNumbers(cp.nodes))
    BY <1>2, <2>1, OneCommitted
  <2> QED
    BY <2>2 DEF t
<1>15. OneEnded(s2, A2, s3, A3, n, r, AllNumbers(cr.nodes))
  <2> DEFINE t == r
  <2>1. DataState(s2, A2, n) /\ t \in RecordTrees \ A2 /\ RecordState(cr)
        /\ s3 = IF tree[t].nodes = <<>> THEN s2 ELSE Committed(s2, t, "avc", cr)
    BY <1>7, <1>10, <1>11, <1>14 DEF OneEnded
  <2> HIDE DEF t, A2
  <2>2. OneEnded(s2, A2, s3, IF tree[t].nodes = <<>> THEN A2 ELSE A2 \union {t}, n, t, AllNumbers(cr.nodes))
    BY <1>2, <2>1, OneCommitted
  <2> QED
    BY <2>2 DEF t
<1>16. A3 = Added
  BY DEF Added
<1>17. DataState(s3, Added, n)
  BY <1>15, <1>16 DEF OneEnded
<1>18. /\ \A t \in Trees \ {e, "data"} : s1.tree[t] = tree[t]
       /\ \A t \in Trees \ {p, "data"} : s2.tree[t] = s1.tree[t]
       /\ \A t \in Trees \ {r, "data"} : s3.tree[t] = s2.tree[t]
  BY <1>12, <1>13, <1>14, <1>15 DEF OneEnded
<1>19. /\ e \in Added => RecordState(s1.tree[e]) /\ s1.tree[e].nodes # <<>>
                          /\ AllNumbers(s1.tree[e].nodes) = AllNumbers(ce.nodes)
       /\ p \in Added => RecordState(s2.tree[p]) /\ s2.tree[p].nodes # <<>>
       /\ r \in Added => RecordState(s3.tree[r]) /\ s3.tree[r].nodes # <<>>
  BY <1>13, <1>14, <1>15 DEF OneEnded, Added
<1>20. s3.tree[e] = s1.tree[e] /\ s3.tree[p] = s2.tree[p]
  BY <1>18 DEF Trees
<1>21. \A t \in Added : RecordState(s3.tree[t]) /\ s3.tree[t].nodes # <<>>
  BY <1>19, <1>20 DEF Added
<1>22. \A t \in Trees \ (Added \union {"data"}) : s3.tree[t] = tree[t]
  <2>1. \A t \in {"event", "text", "norm"} : s3.tree[t] = tree[t]
    BY <1>18 DEF Trees
  <2>2. e \notin Added => s3.tree[e] = tree[e]
    BY <1>12, <1>13, <1>20 DEF OneEnded, Added
  <2>3. p \notin Added => s3.tree[p] = tree[p]
    BY <1>14, <1>18, <1>20 DEF OneEnded, Added, Trees
  <2>4. r \notin Added => s3.tree[r] = tree[r]
    BY <1>15, <1>18 DEF OneEnded, Added, Trees
  <2> QED
    BY <2>1, <2>2, <2>3, <2>4 DEF Trees
<1>23. e \in Added => AllNumbers(s3.tree[e].nodes) = 1 .. args.done
  BY <1>5, <1>19, <1>20 DEF Added
<1> QED
  BY <1>3, <1>17, <1>21, <1>22, <1>23 DEF n

LEMMA EndRecordsStep ==
  ASSUME MarkupInv, EndRecords
  PROVE  MarkupInv'
<1>1. /\ pc = "records" /\ pc' \in {"norm", "finish"} /\ shape' = shape /\ sample' = sample
      /\ line_num' = line_num /\ seen' = seen /\ args' = args /\ norm' = norm
  BY DEF EndRecords
<1>2. TypeOK /\ EventOK /\ TextOK /\ NormOK /\ ~Marked
  BY <1>1 DEF MarkupInv, EventOK
<1>3. EventLen' = EventLen /\ \A i : TreeAt(i)' = TreeAt(i)
  BY <1>1, SameShape
<1>4. CASE tree' = tree /\ record_num' = record_num /\ error' = TRUE
  <2>1. TypeOK'
    BY <1>1, <1>2, <1>4 DEF TypeOK
  <2>2. EventOK' /\ TextOK' /\ NormOK'
    <3>1. TreesOf("event")' = TreesOf("event") /\ (Marked' <=> Marked)
      BY <1>4 DEF TreesOf, Marked, TrimmedNode
    <3>2. EventOK'
      BY <1>1, <1>2, <1>3, <1>4, <3>1 DEF EventOK, TrimmedNode
    <3>3. TextOK' /\ NormOK'
      BY <1>1, <1>2, <1>4 DEF TextOK, NormOK, InOrder, TreesOf, Numbers, Marked, TrimmedNode
    <3> QED
      BY <3>2, <3>3
  <2> QED
    BY <1>1, <1>4, <2>1, <2>2 DEF MarkupInv
<1>5. CASE ~error /\ Complete /\ tree' = Ended.tree /\ record_num' = Ended.count /\ error' = FALSE
  <2>1. MarkupInv /\ pc = "records" /\ ~error /\ Complete
    BY <1>1, <1>5
  <2>2. /\ DataState(Ended, Added, record_num)
        /\ \A t \in Added : RecordState(Ended.tree[t]) /\ Ended.tree[t].nodes # <<>>
        /\ \A t \in Trees \ (Added \union {"data"}) : Ended.tree[t] = tree[t]
        /\ "execve" \in Added => AllNumbers(Ended.tree["execve"].nodes) = 1 .. args.done
    BY <2>1, AllEnded
  <2>3. Gathered(tree, record_num, seen, args)
    BY <2>1, GatheredNow
  <2>4. /\ \A t \in Added : RecordState(tree'[t]) /\ tree'[t].nodes # <<>>
        /\ \A t \in Trees \ (Added \union {"data"}) : tree'[t] = tree[t]
        /\ "execve" \in Added => AllNumbers(tree'["execve"].nodes) = 1 .. args.done
    BY <1>5, <2>2
  <2>5. /\ IsForest(tree') /\ record_num' = record_num + Cardinality(Added)
        /\ tree'["data"].tail = <<>> /\ Rising(tree'["data"].nodes, 0)
        /\ AllNumbers(tree'["data"].nodes) = 1 .. record_num /\ TreesIn(tree'["data"].nodes) = Added
    BY <1>5, <2>2 DEF DataState
  <2>6. Added \subseteq {"execve", "path", "rep"} /\ Cardinality(Added) \in Nat
    <3>1. IsFiniteSet({"execve", "path", "rep"})
      <4>1. IsFiniteSet({"execve"} \union {"path"})
        BY FS_Singleton, FS_Union
      <4>2. IsFiniteSet(({"execve"} \union {"path"}) \union {"rep"})
        BY <4>1, FS_Singleton, FS_Union
      <4>3. ({"execve"} \union {"path"}) \union {"rep"} = {"execve", "path", "rep"}
        OBVIOUS
      <4> QED
        BY <4>2, <4>3
    <3>2. Added \subseteq {"execve", "path", "rep"}
      BY DEF Added
    <3> QED
      BY <3>1, <3>2, FS_Subset, FS_CardinalityType
  <2>7. tree'["event"] = tree["event"] /\ tree'["text"] = tree["text"] /\ tree'["norm"] = tree["norm"]
    BY <2>4, <2>6 DEF Trees
  <2>8. Added' = Added
    <3>1. \A t \in {"execve", "path", "rep"} : tree'[t].nodes # <<>> <=> tree[t].nodes # <<>>
      BY <2>4 DEF Added, Trees
    <3> QED
      BY <3>1 DEF Added
  <2>9. TypeOK'
    <3>1. record_num' \in Nat
      BY <1>2, <2>5, <2>6 DEF TypeOK
    <3>2. error' \in BOOLEAN
      BY <1>5
    <3> QED
      BY <1>1, <1>2, <2>5, <3>1, <3>2 DEF TypeOK
  <2>10. ~Marked' /\ EventOK' /\ TextOK' /\ NormOK'
    <3>1. TreesOf("event")' = TreesOf("event") /\ (Marked' <=> Marked)
      BY <2>7 DEF TreesOf, Marked, TrimmedNode
    <3>2. EventOK'
      BY <1>1, <1>2, <1>3, <2>7, <3>1 DEF EventOK, TrimmedNode
    <3>3. TextOK' /\ NormOK'
      BY <1>1, <1>2, <2>7 DEF TextOK, NormOK, InOrder, TreesOf, Numbers, Marked, TrimmedNode
    <3> QED
      BY <1>2, <3>1, <3>2, <3>3
  <2>11. DataOK'
    <3>1. record_num = Cardinality(seen)
      BY <2>3 DEF Gathered
    <3> QED
      BY <1>1, <2>5, <2>6, <2>8, <3>1 DEF DataOK, TreesOf, Numbers, AllNumbers
  <2>12. RepOK'
    <3>1. RecordState(tree'["rep"])
      <4>1. CASE "rep" \in Added
        BY <2>4, <4>1
      <4>2. CASE "rep" \notin Added
        <5>1. tree'["rep"] = tree["rep"]
          BY <2>4, <4>2 DEF Trees
        <5> QED
          BY <2>3, <5>1 DEF Gathered, ListState, RecordState
      <4> QED
        BY <4>1, <4>2
    <3> QED
      BY <1>1, <3>1 DEF RecordState, RepOK, InOrder, TreesOf
  <2>13. PathOK'
    <3>1. CASE "path" \in Added
      <4>1. RecordState(tree'["path"])
        BY <2>4, <3>1
      <4> QED
        BY <1>1, <4>1 DEF RecordState, PathOK, TreesOf
    <3>2. CASE "path" \notin Added
      <4>1. tree'["path"] = tree["path"] /\ tree["path"].nodes = <<>>
        BY <2>4, <3>2 DEF Trees, Added
      <4> DEFINE ns == tree["path"].nodes
      <4>2. Len(ns) = 0
        BY <4>1
      <4>3. Rising(ns, 0)
        <5> HIDE DEF ns
        <5> QED
          BY <4>2 DEF Rising
      <4>4. PathState(tree["path"])
        BY <2>3 DEF Gathered
      <4> QED
        BY <1>1, <4>1, <4>3, <4>4 DEF PathState, PathOK, TreesOf
    <3> QED
      BY <3>1, <3>2
  <2>14. ExecveOK'
    <3>1. args.done = args.num /\ ~args.open
      BY <2>1 DEF Complete
    <3>2. CASE "execve" \in Added
      <4>1. /\ RecordState(tree'["execve"]) /\ tree'["execve"].nodes # <<>>
            /\ AllNumbers(tree'["execve"].nodes) = 1 .. args.done
        BY <2>4, <3>2
      <4>2. args.num # 0
        BY <2>3, <3>2 DEF Gathered, Added
      <4> QED
        BY <1>1, <3>1, <4>1, <4>2 DEF RecordState, ExecveOK, TreesOf, Numbers, AllNumbers
    <3>3. CASE "execve" \notin Added
      <4>1. tree'["execve"] = tree["execve"] /\ tree["execve"].nodes = <<>>
        BY <2>4, <3>3 DEF Trees, Added
      <4>2. args.num = 0 /\ args.done = 0 /\ tree["execve"].tail = <<>>
        BY <2>3, <4>1 DEF Gathered
      <4> DEFINE ns == tree["execve"].nodes
      <4>3. Len(ns) = 0
        BY <4>1
      <4>4. Rising(ns, 0) /\ TreesIn(ns) = {} /\ NumbersUpTo(ns, Len(ns)) = {}
        <5> HIDE DEF ns
        <5> QED
          BY <4>3 DEF Rising, TreesIn, NumbersUpTo
      <4> QED
        BY <1>1, <3>1, <4>1, <4>2, <4>4 DEF ExecveOK, TreesOf, Numbers
    <3> QED
      BY <3>2, <3>3
  <2> QED
    BY <1>1, <2>9, <2>10, <2>11, <2>12, <2>13, <2>14 DEF MarkupInv
<1> QED
  BY <1>4, <1>5 DEF EndRecords

(* Whatever has been is gone.                                              *)
LEMMA EmptiedStep ==
  ASSUME MarkupInv, Emptied
  PROVE  MarkupInv'
<1> DEFINE f == [t \in Trees |-> Blank]
<1>1. /\ tree' = f /\ line_num' = 0 /\ record_num' = 0 /\ error' = FALSE /\ seen' = {}
      /\ args' = [num |-> 0, done |-> 0, open |-> FALSE] /\ norm' = [next |-> 1, prio |-> 1]
      /\ pc' = "start" /\ shape' = shape /\ sample' = sample
  BY DEF Emptied
<1>2. IsForest(f)
  BY BlankTree DEF IsForest
<1>3. IsFiniteSet({})
  BY FS_EmptySet
<1>4. TypeOK'
  <2>1. IsForest(tree') /\ IsFiniteSet(seen')
    BY <1>1, <1>2, <1>3
  <2>2. args' \in [num : Nat, done : Nat, open : BOOLEAN] /\ norm' \in [next : Nat, prio : Nat \ {0}]
    BY <1>1
  <2>3. line_num' \in Nat /\ record_num' \in Nat /\ error' \in BOOLEAN
    BY <1>1
  <2> QED
    BY <1>1, <2>1, <2>2, <2>3 DEF MarkupInv, TypeOK
<1>5. Empty'
  BY <1>1 DEF Empty
<1> QED
  BY <1>1, <1>4, <1>5 DEF MarkupInv

-----------------------------------------------------------------------------
(* The normalized fields.                                                  *)

(* What the collectors have stays as it is.                                *)
LEMMA DataFrame ==
  ASSUME MarkupInv, ~error, pc # "start", pc # "records", pc' # "records", shape' = shape,
         tree'["data"] = tree["data"], tree'["execve"] = tree["execve"],
         tree'["path"] = tree["path"], tree'["rep"] = tree["rep"],
         record_num' = record_num, seen' = seen, args' = args, Marked' <=> Marked
  PROVE  DataOK' /\ RepOK' /\ ExecveOK' /\ PathOK'
<1>1. DataOK /\ RepOK /\ ExecveOK /\ PathOK
  BY DEF MarkupInv
<1>2. Added' = Added
  BY DEF Added
<1>3. DataOK' /\ RepOK'
  BY <1>1, <1>2 DEF DataOK, RepOK, InOrder, TreesOf, Numbers
<1>4. ExecveOK' /\ PathOK'
  BY <1>1 DEF ExecveOK, PathOK, TreesOf, Numbers
<1> QED
  BY <1>3, <1>4

(* A normalized field changes the normalized data only.                    *)
LEMMA NormAdded ==
  ASSUME MarkupInv, pc = "norm", pc' \in {"norm", "finish"}, IsForest(tree'),
         \A t \in Trees \ {"norm"} : tree'[t] = tree[t],
         norm' \in [next : Nat, prio : Nat \ {0}], ListState(tree'["norm"], 1, norm'.prio - 1),
         shape' = shape, sample' = sample, line_num' = line_num, record_num' = record_num,
         error' = error, seen' = seen, args' = args
  PROVE  MarkupInv'
<1>1. TypeOK /\ EventOK /\ TextOK /\ NormOK /\ ~Marked
  BY DEF MarkupInv, EventOK
<1>2. EventLen' = EventLen /\ \A i : TreeAt(i)' = TreeAt(i)
  BY SameShape
<1>3. TypeOK'
  BY <1>1 DEF TypeOK
<1>4. /\ tree'["event"] = tree["event"] /\ tree'["text"] = tree["text"] /\ tree'["data"] = tree["data"]
      /\ tree'["execve"] = tree["execve"] /\ tree'["path"] = tree["path"] /\ tree'["rep"] = tree["rep"]
  BY DEF Trees
<1>5. TreesOf("event")' = TreesOf("event") /\ (Marked' <=> Marked)
  BY <1>4 DEF TreesOf, Marked, TrimmedNode
<1>6. EventOK'
  BY <1>1, <1>2, <1>4, <1>5 DEF EventOK, TrimmedNode
<1>7. TextOK'
  BY <1>1, <1>4, <1>5 DEF TextOK, InOrder, TreesOf, Numbers
<1>8. NormOK'
  BY DEF NormOK, ListState, InOrder, TreesOf, Numbers, AllNumbers
<1>9. ~error' => DataOK' /\ RepOK' /\ ExecveOK' /\ PathOK'
  BY <1>4, <1>5, DataFrame
<1> QED
  BY <1>3, <1>6, <1>7, <1>8, <1>9 DEF MarkupInv

(* Its numbers are those of the priorities, and these count on.            *)
LEMMA AddNormStep ==
  ASSUME MarkupInv, AddNorm
  PROVE  MarkupInv'
<1> DEFINE i == norm.next
           p == norm.prio
           d == tree["norm"]
           f == [name |-> NormName[i], raw |-> NormFields[i] = "POS"]
           x == Field(i = 1, FALSE, f)
<1>1. /\ pc = "norm" /\ pc' \in {"norm", "finish"}
      /\ shape' = shape /\ sample' = sample /\ line_num' = line_num /\ record_num' = record_num
      /\ error' = error /\ seen' = seen /\ args' = args
  BY DEF AddNorm
<1>2. TypeOK /\ NormOK
  BY <1>1 DEF MarkupInv
<1>3. i \in Nat /\ p \in Nat \ {0} /\ p - 1 + 1 = p /\ p \in Int /\ IsForest(tree) /\ Len(sample) \in Nat
  BY <1>2, SampleTyped DEF TypeOK
<1>4. ListState(d, 1, p - 1)
  <2>1. IsTree(d)
    BY <1>3, ForestTrees
  <2> QED
    BY <1>1, <1>2, <2>1 DEF NormOK, InOrder, ListState, TreesOf, Numbers, AllNumbers
<1>5. CASE tree' = tree /\ norm' = [norm EXCEPT !.next = i + 1]
  <2>1. norm' \in [next : Nat, prio : Nat \ {0}] /\ norm'.prio = p
    BY <1>2, <1>3, <1>5 DEF TypeOK
  <2>2. ListState(tree'["norm"], 1, norm'.prio - 1) /\ IsForest(tree')
        /\ \A t \in Trees \ {"norm"} : tree'[t] = tree[t]
    BY <1>3, <1>4, <1>5, <2>1
  <2> QED
    BY <1>1, <2>1, <2>2, NormAdded
<1>6. ASSUME NEW u, NEW q \in Nat \ {0}, ListState(u, 1, q - 1), With(tree', tree, "norm", u),
             norm' = [next |-> i + 1, prio |-> q]
      PROVE  MarkupInv'
  <2>1. norm' \in [next : Nat, prio : Nat \ {0}] /\ norm'.prio = q
    BY <1>3, <1>6
  <2>2. IsTree(u)
    BY <1>6 DEF ListState
  <2>3. IsForest(tree') /\ tree'["norm"] = u /\ \A t \in Trees \ {"norm"} : tree'[t] = tree[t]
    <3> DEFINE t == "norm"
               a == tree
               b == tree'
    <3>1. t \in Trees /\ IsForest(a) /\ With(b, a, t, u)
      BY <1>3, <1>6 DEF Trees
    <3> HIDE DEF t, a, b
    <3>2. IsForest(b) /\ b[t] = u /\ \A s \in Trees \ {t} : b[s] = a[s]
      BY <2>2, <3>1, ForestWith
    <3> QED
      BY <3>2 DEF t, a, b
  <2>4. ListState(tree'["norm"], 1, norm'.prio - 1)
    BY <1>6, <2>1, <2>3
  <2> QED
    BY <1>1, <2>1, <2>3, <2>4, NormAdded
<1>7. CASE /\ tree' = [tree EXCEPT !["norm"] = AddNode(@, Numbered(p, x), p)]
           /\ norm' = [next |-> i + 1, prio |-> p + 1]
  <2> DEFINE u == AddNode(d, Numbered(p, x), p)
             q == p + 1
  <2>1. With(tree', tree, "norm", u) /\ norm' = [next |-> i + 1, prio |-> q]
    BY <1>3, <1>7 DEF With
  <2>2. SomeText(x)
    BY <1>3, FieldPlain
  <2>3. ListState(u, 1, p)
    <3> DEFINE z == 1
    <3>1. p = p - 1 + z /\ ListState(d, z, p - 1)
      BY <1>3, <1>4
    <3> HIDE DEF d, x, p, z
    <3>2. ListState(AddNode(d, Numbered(p, x), p), z, p)
      BY <1>3, <2>2, <3>1, ListNext
    <3> QED
      BY <3>2 DEF z
  <2>4. q \in Nat \ {0} /\ p = q - 1
    BY <1>3
  <2> HIDE DEF u, q
  <2>5. ListState(u, 1, q - 1)
    BY <2>3, <2>4
  <2> QED
    BY <1>6, <2>1, <2>4, <2>5
<1>8. ASSUME NEW n \in 1 .. MaxItems, tree' = [tree EXCEPT !["norm"] = Listed(@, i, p, n)],
             norm' = [next |-> i + 1, prio |-> p + n]
      PROVE  MarkupInv'
  <2> DEFINE u == Listed(d, i, p, n)
             q == p + n
  <2>1. With(tree', tree, "norm", u) /\ norm' = [next |-> i + 1, prio |-> q]
    BY <1>3, <1>8 DEF With
  <2>2. n \in Nat
    BY MarkupAssumption
  <2>3. ListState(u, 1, q - 1)
    <3> HIDE DEF d, i, p
    <3> QED
      BY <1>3, <1>4, <2>2, ListedKept
  <2>4. q \in Nat \ {0}
    BY <1>3, <2>2
  <2> HIDE DEF u, q
  <2> QED
    BY <1>6, <2>1, <2>3, <2>4
<1> QED
  BY <1>5, <1>7, <1>8 DEF AddNorm

-----------------------------------------------------------------------------
(* The end of the event.                                                   *)

(* Text at the end of a list leaves it as it is.                           *)
LEMMA ListClosed ==
  ASSUME NEW t, IsTree(t), t.tail = <<>>, NEW first, Rising(t.nodes, first),
         NEW text, PlainText(text)
  PROVE  LET u == AddNode(t, text, 0)
         IN  /\ IsTree(u) /\ u.tail = <<>> /\ Rising(u.nodes, first)
             /\ AllNumbers(u.nodes) = AllNumbers(t.nodes) /\ TreesIn(u.nodes) = TreesIn(t.nodes)
<1> DEFINE u == AddNode(t, text, 0)
           z == 0
           E == {}
<1>1. z \in Int
  OBVIOUS
<1>2. u = AddNode(t, text, z)
  OBVIOUS
<1> HIDE DEF u, z
<1>3. Appended(t, u, z, None, {})
  BY <1>1, <1>2, PlainAppended
<1>4. IsTree(u) /\ u.tail = <<>>
  BY <1>3 DEF Appended
<1>5. Rising(u.nodes, first) /\ AllNumbers(u.nodes) = AllNumbers(t.nodes)
  BY <1>3, RisingPlain
<1>6. TreesIn(u.nodes) = TreesIn(t.nodes)
  <2>1. Appended(t, u, z, None, E)
    BY <1>3
  <2> HIDE DEF E
  <2>2. TreesIn(u.nodes) = TreesIn(t.nodes) \union ({None} \ {None})
    BY <2>1, AppendedNumbers
  <2> QED
    BY <2>2
<1> QED
  BY <1>4, <1>5, <1>6 DEF u

(* The places of the trees in the event.                                   *)
LEMMA TreeAtNodes ==
  /\ TextNode \in Nat /\ TextNode \in 4 .. 5 /\ DataNode = TextNode + 1
  /\ EventLen = IF shape.with_norm THEN DataNode + 1 ELSE DataNode
  /\ TreeAt(TextNode) = "text" /\ TreeAt(DataNode) = "data" /\ TreeAt(DataNode + 1) = "norm"
  /\ \A i : i \notin {TextNode, DataNode, DataNode + 1} => TreeAt(i) = None
<1>1. TextNode \in Nat /\ TextNode \in 4 .. 5 /\ DataNode = TextNode + 1
  BY DEF TextNode, DataNode
<1>2. TextNode # DataNode /\ DataNode + 1 # TextNode /\ DataNode + 1 # DataNode
  BY <1>1
<1> HIDE DEF TextNode, DataNode
<1> QED
  BY <1>1, <1>2 DEF TreeAt, EventLen

(* What the event has, by where it is.                                     *)
EventNodes(u, n) ==
  /\ IsTree(u) /\ u.tail = <<>> /\ Len(u.nodes) = n
  /\ \A i \in 1 .. n : u.nodes[i].tree = TreeAt(i)
  /\ n >= TrimmedNode => u.nodes[TrimmedNode].text = <<>>

(* An event with an error has no data, and is not marked.                  *)
LEMMA ErrorPut ==
  ASSUME NEW t, EventNodes(t, EventLen), Len(sample) \in Nat
  PROVE  LET u == PutText(Add(Void(t, DataNode), ErrorText), ErrorNode, 0)
         IN  /\ IsTree(u) /\ u.tail = <<>> /\ Len(u.nodes) = EventLen
             /\ u.nodes[TrimmedNode].text = <<>>
             /\ \A i \in 1 .. EventLen : u.nodes[i].tree \in {TreeAt(i), None} \ {"data"}
<1> DEFINE i == DataNode
           n == EventLen
           v == Put(t, i, Hole)
           q == Add(v, ErrorText)
           e == ErrorNode
           z == 0
           u == PutText(q, e, z)
<1>1. /\ TextNode \in Nat /\ TextNode \in 4 .. 5 /\ i = TextNode + 1 /\ n \in Nat /\ n >= i
      /\ TreeAt(i) = "data" /\ (\A k : k \notin {TextNode, DataNode, DataNode + 1} => TreeAt(k) = None)
      /\ TreeAt(TextNode) = "text" /\ TreeAt(i + 1) = "norm"
  BY TreeAtNodes
<1>2. /\ IsTree(t) /\ t.tail = <<>> /\ Len(t.nodes) = n
      /\ \A k \in 1 .. n : t.nodes[k].tree = TreeAt(k)
      /\ t.nodes[2].text = <<>>
  BY <1>1 DEF EventNodes, TrimmedNode
<1>3. e = 3 /\ e \in Nat \ {0} /\ i \in Nat \ {0} /\ z \in Int
  BY <1>1 DEF ErrorNode
<1> HIDE DEF i, n, e, z
<1>4. /\ IsTree(v) /\ v.tail = t.tail /\ Len(v.nodes) = n /\ v.nodes[i] = Hole
      /\ \A k \in 1 .. n : k # i => v.nodes[k] = t.nodes[k]
  <2> DEFINE h == Hole
  <2>1. TreeNode(h)
    BY HoleNode
  <2> HIDE DEF h
  <2> DEFINE w == Put(t, i, h)
  <2>2. NodeAt(t, w, i, h) /\ w.tail = t.tail
    BY <1>2, <1>3, <2>1, PutNode
  <2>3. v = w
    BY DEF v, h
  <2> HIDE DEF w
  <2>4. /\ IsTree(w) /\ Len(w.nodes) = IF i > Len(t.nodes) THEN i ELSE Len(t.nodes)
        /\ w.nodes[i] = h /\ \A k \in 1 .. Len(t.nodes) : k # i => w.nodes[k] = t.nodes[k]
    BY <2>2 DEF NodeAt
  <2> HIDE DEF v
  <2> QED
    BY <1>1, <1>2, <1>3, <2>2, <2>3, <2>4 DEF h
<1> HIDE DEF v
<1>5. IsTree(q) /\ q.nodes = v.nodes
  <2>1. IsSeq(ErrorText)
    BY MarksPlain DEF SomeText, PlainText
  <2> QED
    BY <1>4, <2>1, AddedText
<1> HIDE DEF q
<1>6. /\ IsTree(u) /\ u.tail = <<>> /\ Len(u.nodes) = n
      /\ u.nodes[e] = [prio |-> z, text |-> q.tail, tree |-> None]
      /\ \A k \in 1 .. n : k # e => u.nodes[k] = v.nodes[k]
  <2> DEFINE node == [prio |-> z, text |-> q.tail, tree |-> None]
  <2>1. NodeAt(q, u, e, node) /\ u.tail = <<>>
    BY <1>3, <1>5, PutTextNode
  <2>2. Len(q.nodes) = n /\ ~(e > n)
    BY <1>1, <1>3, <1>4, <1>5
  <2> HIDE DEF u, node
  <2>3. IsTree(u) /\ Len(u.nodes) = n /\ u.nodes[e] = node /\ \A k \in 1 .. n : k # e => u.nodes[k] = q.nodes[k]
    BY <2>1, <2>2 DEF NodeAt
  <2> QED
    BY <1>5, <2>1, <2>3 DEF node
<1>7. u = PutText(Add(Void(t, DataNode), ErrorText), ErrorNode, 0)
  BY DEF Void, u, q, v, i, e, z
<1> HIDE DEF u
<1>8. u.nodes[2].text = <<>>
  <2>1. 2 \in 1 .. n /\ 2 # e /\ 2 # i
    BY <1>1, <1>3
  <2> QED
    BY <1>2, <1>4, <1>6, <2>1
<1>9. ASSUME NEW k \in 1 .. n
      PROVE  u.nodes[k].tree \in {TreeAt(k), None} \ {"data"}
  <2>1. CASE k = e
    BY <1>6, <2>1 DEF None
  <2>2. CASE k # e /\ k = i
    BY <1>4, <1>6, <2>2 DEF None, Hole
  <2>3. CASE k # e /\ k # i
    <3>1. u.nodes[k].tree = TreeAt(k)
      BY <1>2, <1>4, <1>6, <2>3
    <3>2. TreeAt(k) # "data"
      BY <1>1, <2>3 DEF None, i
    <3> QED
      BY <3>1, <3>2
  <2> QED
    BY <2>1, <2>2, <2>3
<1> QED
  BY <1>6, <1>7, <1>8, <1>9 DEF TrimmedNode, n

LEMMA Voided ==
  ASSUME NEW t, IsTree(t), NEW i \in 1 .. Len(t.nodes)
  PROVE  LET u == Void(t, i)
         IN  /\ IsTree(u) /\ u.tail = t.tail /\ Len(u.nodes) = Len(t.nodes) /\ u.nodes[i] = Hole
             /\ \A k \in 1 .. Len(t.nodes) : k # i => u.nodes[k] = t.nodes[k]
<1> DEFINE h == Hole
           w == Put(t, i, h)
<1>1. TreeNode(h)
  BY HoleNode
<1>2. Len(t.nodes) \in Nat /\ i \in Nat \ {0} /\ ~(i > Len(t.nodes))
  BY DEF IsTree, IsSeq
<1>3. Void(t, i) = w
  BY DEF Void
<1> HIDE DEF h
<1>4. NodeAt(t, w, i, h) /\ w.tail = t.tail
  BY <1>1, <1>2, PutNode
<1> HIDE DEF w
<1>5. /\ IsTree(w) /\ Len(w.nodes) = Len(t.nodes)
      /\ w.nodes[i] = h /\ \A k \in 1 .. Len(t.nodes) : k # i => w.nodes[k] = t.nodes[k]
  BY <1>2, <1>4 DEF NodeAt
<1> QED
  BY <1>3, <1>4, <1>5 DEF h

(* The event as it is finished, from what it has been.                     *)
FinishedEvent(t) ==
  LET marked == IF error THEN PutText(Add(Void(t, DataNode), ErrorText), ErrorNode, 0) ELSE t
      event  == AddNode(marked, Close("event", "}"), 0)
  IN  IF shape.with_text \/ error THEN event ELSE Void(event, TextNode)

(* What a finished event has: all parts that are wanted, but for errors.   *)
LEMMA EventFinished ==
  ASSUME NEW t, EventNodes(t, EventLen), Len(sample) \in Nat
  PROVE  LET u == FinishedEvent(t)
         IN  /\ IsTree(u) /\ u.tail = <<>> /\ TrimmedNode <= Len(u.nodes)
             /\ u.nodes[TrimmedNode].text = <<>>
             /\ TreesIn(u.nodes) \subseteq {"text", "data", "norm"}
             /\ error => "data" \notin TreesIn(u.nodes)
             /\ ~error => TreesIn(u.nodes) = {s \in {"text", "data", "norm"} :
                                                /\ s = "text" => shape.with_text
                                                /\ s = "norm" => shape.with_norm}
<1> DEFINE n == EventLen
           c == Close("event", "}")
           m == IF error THEN PutText(Add(Void(t, DataNode), ErrorText), ErrorNode, 0) ELSE t
           x == AddNode(m, c, 0)
           w == shape.with_text \/ error
           u == IF w THEN x ELSE Void(x, TextNode)
           i == TextNode
<1>1. /\ i \in Nat /\ i \in 4 .. 5 /\ DataNode = i + 1 /\ n \in Nat
      /\ n = (IF shape.with_norm THEN i + 2 ELSE i + 1)
      /\ TreeAt(i) = "text" /\ TreeAt(i + 1) = "data" /\ TreeAt(i + 2) = "norm"
      /\ \A k : k \notin {i, i + 1, i + 2} => TreeAt(k) = None
  BY TreeAtNodes
<1>2. /\ IsTree(t) /\ t.tail = <<>> /\ Len(t.nodes) = n
      /\ \A k \in 1 .. n : t.nodes[k].tree = TreeAt(k)
      /\ t.nodes[2].text = <<>>
  BY <1>1 DEF EventNodes, TrimmedNode
<1>3. FinishedEvent(t) = u
  BY DEF FinishedEvent
<1> HIDE DEF i, n, w
<1>4. /\ IsTree(m) /\ m.tail = <<>> /\ Len(m.nodes) = n /\ m.nodes[2].text = <<>>
      /\ error => \A k \in 1 .. n : m.nodes[k].tree \in {TreeAt(k), None} \ {"data"}
      /\ ~error => \A k \in 1 .. n : m.nodes[k].tree = TreeAt(k)
  <2>1. CASE error
    <3>1. LET q == PutText(Add(Void(t, DataNode), ErrorText), ErrorNode, 0)
          IN  /\ IsTree(q) /\ q.tail = <<>> /\ Len(q.nodes) = EventLen
              /\ q.nodes[TrimmedNode].text = <<>>
              /\ \A k \in 1 .. EventLen : q.nodes[k].tree \in {TreeAt(k), None} \ {"data"}
      BY ErrorPut
    <3> DEFINE q == PutText(Add(Void(t, DataNode), ErrorText), ErrorNode, 0)
    <3>2. m = q
      BY <2>1
    <3>3. IsTree(q) /\ q.tail = <<>> /\ Len(q.nodes) = n /\ q.nodes[2].text = <<>>
          /\ \A k \in 1 .. n : q.nodes[k].tree \in {TreeAt(k), None} \ {"data"}
      BY <3>1 DEF TrimmedNode, n
    <3> HIDE DEF q, m
    <3> QED
      BY <2>1, <3>2, <3>3
  <2>2. CASE ~error
    BY <1>2, <2>2
  <2> QED
    BY <2>1, <2>2
<1> HIDE DEF m
<1>5. /\ IsTree(x) /\ x.tail = <<>> /\ Len(x.nodes) = n + 1 /\ x.nodes[n + 1].tree = None
      /\ \A k \in 1 .. n : x.nodes[k] = m.nodes[k]
  <2> DEFINE z == 0
  <2>1. PlainText(c) /\ z \in Int
    <3>1. SomeText(c)
      BY BracketsPlain
    <3>2. z \in Int
      OBVIOUS
    <3> QED
      BY <3>1, <3>2 DEF SomeText
  <2>2. x = AddNode(m, c, z)
    OBVIOUS
  <2> HIDE DEF c, z, x
  <2>3. Appended(m, x, z, None, {})
    BY <1>4, <2>1, <2>2, PlainAppended
  <2> QED
    BY <1>4, <2>3 DEF Appended
<1> HIDE DEF x
<1>6. /\ IsTree(u) /\ u.tail = <<>> /\ Len(u.nodes) = n + 1 /\ u.nodes[n + 1].tree = None
      /\ w => \A k \in 1 .. n : u.nodes[k] = m.nodes[k]
      /\ ~w => u.nodes[i] = Hole /\ \A k \in 1 .. n : k # i => u.nodes[k] = m.nodes[k]
  <2>1. CASE w
    BY <1>5, <2>1
  <2>2. CASE ~w
    <3>1. i \in 1 .. Len(x.nodes)
      BY <1>1, <1>5
    <3>2. LET v == Void(x, i)
          IN  /\ IsTree(v) /\ v.tail = x.tail /\ Len(v.nodes) = Len(x.nodes) /\ v.nodes[i] = Hole
              /\ \A k \in 1 .. Len(x.nodes) : k # i => v.nodes[k] = x.nodes[k]
      BY <1>5, <3>1, Voided
    <3>3. u = Void(x, i)
      BY <2>2 DEF i
    <3> HIDE DEF u
    <3>4. /\ IsTree(u) /\ u.tail = <<>> /\ Len(u.nodes) = n + 1 /\ u.nodes[i] = Hole
          /\ \A k \in 1 .. n + 1 : k # i => u.nodes[k] = x.nodes[k]
      BY <1>5, <3>2, <3>3
    <3>5. n + 1 \in 1 .. n + 1 /\ n + 1 # i /\ \A k \in 1 .. n : k \in 1 .. n + 1
      BY <1>1
    <3> QED
      BY <1>5, <2>2, <3>4, <3>5
  <2> QED
    BY <2>1, <2>2
<1> HIDE DEF u
<1>7. 2 \in 1 .. n /\ 2 # i /\ i \in 1 .. n /\ i + 1 \in 1 .. n
  BY <1>1
<1>8. u.nodes[2].text = <<>>
  BY <1>4, <1>6, <1>7
<1>9. TrimmedNode <= Len(u.nodes)
  BY <1>1, <1>6 DEF TrimmedNode
<1>10. \A k \in 1 .. n + 1 : k \in 1 .. n \/ k = n + 1
  BY <1>1
<1>11. \A k : TreeAt(k) \in {"text", "data", "norm", None}
  BY <1>1
<1>12. \A k \in 1 .. n : m.nodes[k].tree \in {"text", "data", "norm", None}
  BY <1>4, <1>11 DEF None
<1>13. \A k \in 1 .. n : u.nodes[k].tree \in {m.nodes[k].tree, None}
  BY <1>6 DEF Hole
<1>14. \A k \in 1 .. n + 1 : u.nodes[k].tree \in {"text", "data", "norm", None}
  BY <1>6, <1>10, <1>12, <1>13
<1>15. TreesIn(u.nodes) \subseteq {"text", "data", "norm"}
  BY <1>6, <1>14 DEF TreesIn
<1>16. error => "data" \notin TreesIn(u.nodes)
  <2> SUFFICES ASSUME error, NEW k \in 1 .. n + 1, u.nodes[k].tree = "data"
               PROVE  FALSE
    BY <1>6 DEF TreesIn
  <2>1. k # n + 1
    BY <1>6 DEF None
  <2> QED
    BY <1>4, <1>10, <1>13, <2>1 DEF None
<1>17. ~error => TreesIn(u.nodes) = {s \in {"text", "data", "norm"} :
                                        /\ s = "text" => shape.with_text
                                        /\ s = "norm" => shape.with_norm}
  <2> SUFFICES ASSUME ~error
               PROVE  TreesIn(u.nodes) = {s \in {"text", "data", "norm"} :
                                            /\ s = "text" => shape.with_text
                                            /\ s = "norm" => shape.with_norm}
    OBVIOUS
  <2>1. \A k \in 1 .. n : m.nodes[k].tree = TreeAt(k)
    BY <1>4
  <2>2. "data" \in TreesIn(u.nodes)
    <3>1. u.nodes[i + 1].tree = "data"
      BY <1>1, <1>6, <1>7, <2>1
    <3>2. i + 1 \in 1 .. Len(u.nodes)
      BY <1>1, <1>6
    <3> QED
      BY <3>1, <3>2 DEF TreesIn, None
  <2>3. shape.with_text => "text" \in TreesIn(u.nodes)
    <3> SUFFICES ASSUME shape.with_text
                 PROVE  "text" \in TreesIn(u.nodes)
      OBVIOUS
    <3>1. u.nodes[i].tree = "text"
      BY <1>1, <1>6, <1>7, <2>1 DEF w
    <3>2. i \in 1 .. Len(u.nodes)
      BY <1>1, <1>6
    <3> QED
      BY <3>1, <3>2 DEF TreesIn, None
  <2>4. shape.with_norm => "norm" \in TreesIn(u.nodes)
    <3> SUFFICES ASSUME shape.with_norm
                 PROVE  "norm" \in TreesIn(u.nodes)
      OBVIOUS
    <3>1. n = i + 2 /\ n \in 1 .. n /\ n # i
      BY <1>1
    <3>2. u.nodes[n].tree = "norm"
      BY <1>1, <1>6, <2>1, <3>1
    <3>3. n \in 1 .. Len(u.nodes)
      BY <1>1, <1>6
    <3> QED
      BY <3>2, <3>3 DEF TreesIn, None
  <2>5. "text" \in TreesIn(u.nodes) => shape.with_text
    <3> SUFFICES ASSUME ~shape.with_text, NEW k \in 1 .. n + 1, u.nodes[k].tree = "text"
                 PROVE  FALSE
      BY <1>6 DEF TreesIn
    <3>1. k \in 1 .. n /\ ~w
      BY <1>6, <1>10 DEF None, w
    <3>2. k # i
      BY <1>6, <3>1 DEF Hole, None
    <3>3. TreeAt(k) = "text"
      BY <1>6, <2>1, <3>1, <3>2
    <3>4. k # i + 1 /\ k # i + 2
      BY <1>1, <3>3
    <3> QED
      BY <1>1, <3>2, <3>3, <3>4 DEF None
  <2>6. "norm" \in TreesIn(u.nodes) => shape.with_norm
    <3> SUFFICES ASSUME ~shape.with_norm, NEW k \in 1 .. n + 1, u.nodes[k].tree = "norm"
                 PROVE  FALSE
      BY <1>6 DEF TreesIn
    <3>1. k \in 1 .. n
      BY <1>6, <1>10 DEF None
    <3>2. m.nodes[k].tree = "norm"
      BY <1>13, <3>1 DEF None
    <3>3. TreeAt(k) = "norm" /\ k # i + 2
      BY <1>1, <2>1, <3>1, <3>2
    <3>4. k # i /\ k # i + 1
      BY <1>1, <3>3
    <3> QED
      BY <1>1, <3>3, <3>4 DEF None
  <2> QED
    BY <1>15, <2>2, <2>3, <2>4, <2>5, <2>6
<1> QED
  BY <1>3, <1>6, <1>8, <1>9, <1>15, <1>16, <1>17 DEF TrimmedNode

LEMMA FinishStep ==
  ASSUME MarkupInv, Finish
  PROVE  MarkupInv'
<1> DEFINE e == tree["event"]
           t == tree["text"]
           d == tree["data"]
           m == tree["norm"]
           ct == Close("text", "]")
           cd == Close("data", "}")
           cn == Close("norm", "}")
           ut == AddNode(t, ct, 0)
           ud == IF error THEN d ELSE AddNode(d, cd, 0)
           un == IF shape.with_norm THEN AddNode(m, cn, 0) ELSE m
           ue == FinishedEvent(e)
<1>1. /\ pc = "finish" /\ pc' = "trim"
      /\ shape' = shape /\ sample' = sample /\ line_num' = line_num /\ record_num' = record_num
      /\ error' = error /\ seen' = seen /\ args' = args /\ norm' = norm
  BY DEF Finish
<1>2. TypeOK /\ EventOK /\ TextOK /\ NormOK /\ ~Marked
  BY <1>1 DEF MarkupInv, EventOK
<1>3. /\ IsForest(tree) /\ Len(sample) \in Nat /\ IsTree(e) /\ IsTree(t) /\ IsTree(d) /\ IsTree(m)
      /\ tree = [s \in Trees |-> tree[s]]
  BY <1>2, SampleTyped, ForestTrees DEF TypeOK, IsForest
<1>4. /\ tree'["text"] = ut /\ tree'["data"] = ud /\ tree'["norm"] = un /\ tree'["event"] = ue
      /\ tree'["execve"] = tree["execve"] /\ tree'["path"] = tree["path"] /\ tree'["rep"] = tree["rep"]
      /\ tree' = [s \in Trees |-> tree'[s]]
  <2>1. tree' = [tree EXCEPT !["text"]  = ut, !["data"] = ud, !["norm"] = un, !["event"] = ue]
    BY <1>3 DEF Finish, FinishedEvent, Trees
  <2> HIDE DEF ut, ud, un, ue
  <2> QED
    BY <1>3, <2>1 DEF Trees
<1> HIDE DEF t, d, m, e, ct, cd, cn
<1>5. PlainText(ct) /\ PlainText(cd) /\ PlainText(cn)
  <2>1. SomeText(ct)
    BY BracketsPlain DEF ct
  <2>2. SomeText(cd)
    BY BracketsPlain DEF cd
  <2>3. SomeText(cn)
    BY BracketsPlain DEF cn
  <2> QED
    BY <2>1, <2>2, <2>3 DEF SomeText
<1>6. /\ IsTree(ut) /\ ut.tail = <<>> /\ Rising(ut.nodes, 0)
      /\ AllNumbers(ut.nodes) = 1 .. line_num /\ TreesIn(ut.nodes) = {}
  <2> DEFINE z == 0
             v == AddNode(t, ct, 0)
  <2>1. Rising(t.nodes, z) /\ TreesIn(t.nodes) = {} /\ t.tail = <<>> /\ AllNumbers(t.nodes) = 1 .. line_num
    BY <1>2 DEF TextOK, InOrder, TreesOf, Numbers, AllNumbers, t
  <2> HIDE DEF z
  <2>2. /\ IsTree(v) /\ v.tail = <<>> /\ Rising(v.nodes, z)
        /\ AllNumbers(v.nodes) = AllNumbers(t.nodes) /\ TreesIn(v.nodes) = TreesIn(t.nodes)
    BY <1>3, <1>5, <2>1, ListClosed
  <2> QED
    BY <2>1, <2>2 DEF z
<1>7. IsTree(un) /\ un.tail = <<>> /\ Rising(un.nodes, 1) /\ TreesIn(un.nodes) = {}
  <2> DEFINE z == 1
             v == AddNode(m, cn, 0)
  <2>1. Rising(m.nodes, z) /\ TreesIn(m.nodes) = {} /\ m.tail = <<>>
    BY <1>2 DEF NormOK, InOrder, TreesOf, m
  <2> HIDE DEF z
  <2>2. IsTree(v) /\ v.tail = <<>> /\ Rising(v.nodes, z) /\ TreesIn(v.nodes) = TreesIn(m.nodes)
    BY <1>3, <1>5, <2>1, ListClosed
  <2> QED
    BY <1>3, <2>1, <2>2 DEF z
<1>8. /\ IsTree(ud)
      /\ ~error => /\ ud.tail = <<>> /\ Rising(ud.nodes, 0)
                   /\ AllNumbers(ud.nodes) = AllNumbers(d.nodes) /\ TreesIn(ud.nodes) = TreesIn(d.nodes)
  <2>1. CASE error
    BY <1>3, <2>1
  <2>2. CASE ~error
    <3> DEFINE z == 0
               v == AddNode(d, cd, 0)
    <3>1. Rising(d.nodes, z) /\ d.tail = <<>>
      BY <1>1, <2>2 DEF MarkupInv, DataOK, d
    <3> HIDE DEF z
    <3>2. /\ IsTree(v) /\ v.tail = <<>> /\ Rising(v.nodes, z)
          /\ AllNumbers(v.nodes) = AllNumbers(d.nodes) /\ TreesIn(v.nodes) = TreesIn(d.nodes)
      BY <1>3, <1>5, <3>1, ListClosed
    <3> QED
      BY <2>2, <3>2 DEF z
  <2> QED
    BY <2>1, <2>2
<1>9. /\ IsTree(ue) /\ ue.tail = <<>> /\ TrimmedNode <= Len(ue.nodes)
      /\ ue.nodes[TrimmedNode].text = <<>>
      /\ TreesIn(ue.nodes) \subseteq {"text", "data", "norm"}
      /\ error => "data" \notin TreesIn(ue.nodes)
      /\ ~error => TreesIn(ue.nodes) = {s \in {"text", "data", "norm"} :
                                          /\ s = "text" => shape.with_text
                                          /\ s = "norm" => shape.with_norm}
  <2>1. EventNodes(e, EventLen)
    BY <1>1, <1>2, <1>3 DEF EventOK, EventNodes, Marked, e
  <2> QED
    BY <1>3, <2>1, EventFinished
<1> HIDE DEF ut, ud, un, ue
<1>10. TypeOK'
  <2>1. \A s \in Trees : IsTree(tree'[s])
    BY <1>3, <1>4, <1>6, <1>7, <1>8, <1>9 DEF Trees, IsForest
  <2>2. IsForest(tree')
    BY <1>4, <2>1 DEF IsForest
  <2> QED
    BY <1>1, <1>2, <2>2 DEF TypeOK
<1>11. ~Marked'
  BY <1>4, <1>9 DEF Marked, TrimmedNode
<1>12. EventOK'
  BY <1>1, <1>4, <1>9, <1>11 DEF EventOK, TreesOf, TrimmedNode
<1>13. TextOK'
  BY <1>1, <1>4, <1>6 DEF TextOK, InOrder, TreesOf, Numbers, AllNumbers
<1>14. NormOK'
  BY <1>1, <1>4, <1>7 DEF NormOK, InOrder, TreesOf
<1>15. ASSUME ~error'
       PROVE  DataOK' /\ RepOK' /\ ExecveOK' /\ PathOK'
  <2>1. DataOK /\ RepOK /\ ExecveOK /\ PathOK /\ ~error
    BY <1>1, <1>15 DEF MarkupInv
  <2>2. Added' = Added
    BY <1>4 DEF Added
  <2>3. DataOK'
    <3>1. TreesOf("data")' = TreesOf("data") /\ Numbers("data")' = Numbers("data")
      BY <1>4, <1>8, <2>1 DEF TreesOf, Numbers, AllNumbers, d
    <3> QED
      BY <1>1, <1>2, <1>4, <1>8, <2>1, <2>2, <3>1 DEF DataOK
  <2>4. RepOK' /\ PathOK'
    BY <1>1, <1>4, <2>1 DEF RepOK, PathOK, InOrder, TreesOf, Numbers
  <2>5. ExecveOK'
    BY <1>1, <1>2, <1>4, <1>11, <2>1 DEF ExecveOK, TreesOf, Numbers
  <2> QED
    BY <2>3, <2>4, <2>5
<1> QED
  BY <1>1, <1>10, <1>12, <1>13, <1>14, <1>15 DEF MarkupInv

-----------------------------------------------------------------------------
(* The beginning of the event.                                             *)

LEMMA NodeBegun ==
  ASSUME NEW t, NEW n \in Nat, EventNodes(t, n), NEW u, NEW prio, NEW I, Appended(t, u, prio, TreeAt(n + 1), I),
         n + 1 = TrimmedNode => u.nodes[n + 1].text = <<>>
  PROVE  EventNodes(u, n + 1)
<1>1. /\ IsTree(u) /\ u.tail = <<>> /\ Len(u.nodes) = n + 1 /\ u.nodes[n + 1].tree = TreeAt(n + 1)
      /\ \A k \in 1 .. n : u.nodes[k] = t.nodes[k]
  BY DEF EventNodes, Appended
<1>2. \A k \in 1 .. n + 1 : k \in 1 .. n \/ k = n + 1
  OBVIOUS
<1>3. \A k \in 1 .. n + 1 : u.nodes[k].tree = TreeAt(k)
  BY <1>1, <1>2 DEF EventNodes
<1>4. n + 1 >= 2 => u.nodes[2].text = <<>>
  <2>1. CASE n >= 2
    BY <1>1, <2>1 DEF EventNodes, TrimmedNode
  <2>2. CASE n + 1 = 2
    BY <2>2 DEF TrimmedNode
  <2> QED
    BY <2>1, <2>2
<1> QED
  BY <1>1, <1>3, <1>4 DEF EventNodes, TrimmedNode

(* The event is built, in either language, with every part in its place.   *)
LEMMA EventBegun ==
  ASSUME Len(sample) \in Nat
  PROVE  LET tag   == AddText(AddText(AddNode(Blank, Header, 0), 0), 0)
             event == AddTree(AddTree(IF XML THEN AddNode(tag, <<T(">")>>, 0) ELSE tag,
                                      1, "text"), 2, "data")
         IN  EventNodes(IF shape.with_norm THEN AddTree(event, 3, "norm") ELSE event, EventLen)
<1> DEFINE z  == 0
           b  == Blank
           h  == Header
           g  == <<T(">")>>
           a1 == AddNode(b, h, z)
           a2 == AddText(a1, z)
           a3 == AddText(a2, z)
           a4 == AddNode(a3, g, z)
           c  == IF XML THEN a4 ELSE a3
           i  == TextNode
           p1 == 1
           p2 == 2
           p3 == 3
           st == "text"
           sd == "data"
           sn == "norm"
           c1 == AddTree(c, p1, st)
           c2 == AddTree(c1, p2, sd)
           c3 == AddTree(c2, p3, sn)
           w  == shape.with_norm
<1>1. /\ i \in Nat /\ i = (IF XML THEN 5 ELSE 4) /\ EventLen = IF w THEN i + 2 ELSE i + 1
      /\ TreeAt(i) = st /\ TreeAt(i + 1) = sd /\ TreeAt(i + 2) = sn
      /\ \A k : k \notin {i, i + 1, i + 2} => TreeAt(k) = None
  <2>1. /\ i \in Nat /\ EventLen = (IF w THEN i + 2 ELSE i + 1)
        /\ TreeAt(i) = st /\ TreeAt(i + 1) = sd /\ TreeAt(i + 2) = sn
        /\ \A k : k \notin {i, i + 1, i + 2} => TreeAt(k) = None
    BY TreeAtNodes
  <2>2. i = IF XML THEN 5 ELSE 4
    BY DEF TextNode
  <2> QED
    BY <2>1, <2>2
<1>2. z \in Int /\ p1 \in Int /\ p2 \in Int /\ p3 \in Int /\ st \in Trees /\ sd \in Trees /\ sn \in Trees
  BY DEF Trees
<1>3. PlainText(h) /\ PlainText(g)
  BY HeaderPlain, PiecesPlain DEF SomeText
<1>4. EventNodes(b, 0)
  BY BlankTree DEF EventNodes, TrimmedNode
<1>5. TreeAt(1) = None /\ TreeAt(2) = None /\ TreeAt(3) = None /\ (XML => TreeAt(4) = None)
  <2>1. 1 \notin {i, i + 1, i + 2} /\ 2 \notin {i, i + 1, i + 2} /\ 3 \notin {i, i + 1, i + 2}
    BY <1>1
  <2>2. XML => 4 \notin {i, i + 1, i + 2}
    BY <1>1
  <2> HIDE DEF i, st, sd, sn
  <2> QED
    BY <1>1, <2>1, <2>2
<1> DEFINE ending == IF w THEN c3 ELSE c2
<1>6. ending = LET tag   == AddText(AddText(AddNode(Blank, Header, 0), 0), 0)
                   event == AddTree(AddTree(IF XML THEN AddNode(tag, <<T(">")>>, 0) ELSE tag,
                                            1, "text"), 2, "data")
               IN  IF shape.with_norm THEN AddTree(event, 3, "norm") ELSE event
  OBVIOUS
<1> HIDE DEF z, b, h, g, i, st, sd, sn, p1, p2, p3, w
<1>7. EventNodes(a1, 1)
  <2> DEFINE n == 0
  <2>1. Appended(b, a1, z, None, {})
    BY <1>2, <1>3, <1>4, PlainAppended DEF EventNodes
  <2>2. n \in Nat /\ n + 1 # TrimmedNode /\ TreeAt(n + 1) = None /\ n + 1 = 1
    BY <1>5 DEF TrimmedNode
  <2>3. EventNodes(b, n)
    BY <1>4
  <2> HIDE DEF n, a1
  <2>4. EventNodes(a1, n + 1)
    BY <2>1, <2>2, <2>3, NodeBegun
  <2> QED
    BY <2>2, <2>4
<1> HIDE DEF a1
<1>8. EventNodes(a2, 2)
  <2> DEFINE n == 1
             I == NumbersIn(a1.tail)
  <2>1. Appended(a1, a2, z, None, I) /\ a2.nodes[Len(a1.nodes) + 1].text = a1.tail
    BY <1>2, <1>7, TextAppended DEF EventNodes
  <2>2. a2.nodes[n + 1].text = <<>>
    BY <1>7, <2>1 DEF EventNodes
  <2>3. n \in Nat /\ TreeAt(n + 1) = None /\ n + 1 = 2 /\ EventNodes(a1, n)
    BY <1>5, <1>7
  <2> HIDE DEF n, a2, I
  <2>4. EventNodes(a2, n + 1)
    BY <2>1, <2>2, <2>3, NodeBegun
  <2> QED
    BY <2>3, <2>4
<1> HIDE DEF a2
<1>9. EventNodes(a3, 3)
  <2> DEFINE n == 2
             I == NumbersIn(a2.tail)
  <2>1. Appended(a2, a3, z, None, I)
    BY <1>2, <1>8, TextAppended DEF EventNodes
  <2>2. n \in Nat /\ n + 1 # TrimmedNode /\ TreeAt(n + 1) = None /\ n + 1 = 3 /\ EventNodes(a2, n)
    BY <1>5, <1>8 DEF TrimmedNode
  <2> HIDE DEF n, a3, I
  <2>3. EventNodes(a3, n + 1)
    BY <2>1, <2>2, NodeBegun
  <2> QED
    BY <2>2, <2>3
<1> HIDE DEF a3
<1>10. XML => EventNodes(a4, 4)
  <2> SUFFICES ASSUME XML
               PROVE  EventNodes(a4, 4)
    OBVIOUS
  <2> DEFINE n == 3
             I == {}
  <2>1. Appended(a3, a4, z, None, I)
    BY <1>2, <1>3, <1>9, PlainAppended DEF EventNodes
  <2>2. n \in Nat /\ n + 1 # TrimmedNode /\ TreeAt(n + 1) = None /\ n + 1 = 4 /\ EventNodes(a3, n)
    BY <1>5, <1>9 DEF TrimmedNode
  <2> HIDE DEF n, a4, I
  <2>3. EventNodes(a4, n + 1)
    BY <2>1, <2>2, NodeBegun
  <2> QED
    BY <2>2, <2>3
<1> HIDE DEF a4
<1> DEFINE j == i - 1
<1>11. j \in Nat /\ j + 1 = i /\ j + 2 = i + 1 /\ j + 3 = i + 2 /\ j >= 3 /\ EventNodes(c, j)
  BY <1>1, <1>9, <1>10
<1>12. j + 1 # TrimmedNode /\ j + 1 + 1 # TrimmedNode /\ j + 2 + 1 # TrimmedNode
       /\ j + 1 \in Nat /\ j + 2 \in Nat /\ j + 1 + 1 = j + 2 /\ j + 2 + 1 = j + 3
  BY <1>11 DEF TrimmedNode
<1> HIDE DEF c, j
<1>13. EventNodes(c1, j + 1)
  <2> DEFINE I == {}
  <2>1. Appended(c, c1, p1, st, I)
    BY <1>2, <1>11, TreeAppended DEF EventNodes
  <2>2. TreeAt(j + 1) = st
    BY <1>1, <1>11
  <2> HIDE DEF I, c1
  <2> QED
    BY <1>11, <1>12, <2>1, <2>2, NodeBegun
<1> HIDE DEF c1
<1>14. EventNodes(c2, j + 2)
  <2> DEFINE I == {}
             n == j + 1
  <2>1. Appended(c1, c2, p2, sd, I)
    BY <1>2, <1>13, TreeAppended DEF EventNodes
  <2>2. n \in Nat /\ n + 1 = j + 2 /\ TreeAt(n + 1) = sd /\ n + 1 # TrimmedNode /\ EventNodes(c1, n)
    BY <1>1, <1>11, <1>12, <1>13
  <2> HIDE DEF I, c2, n
  <2>3. EventNodes(c2, n + 1)
    BY <2>1, <2>2, NodeBegun
  <2> QED
    BY <2>2, <2>3
<1> HIDE DEF c2
<1>15. EventNodes(c3, j + 3)
  <2> DEFINE I == {}
             n == j + 2
  <2>1. Appended(c2, c3, p3, sn, I)
    BY <1>2, <1>14, TreeAppended DEF EventNodes
  <2>2. n \in Nat /\ n + 1 = j + 3 /\ TreeAt(n + 1) = sn /\ n + 1 # TrimmedNode /\ EventNodes(c2, n)
    BY <1>1, <1>11, <1>12, <1>14
  <2> HIDE DEF I, c3, n
  <2>3. EventNodes(c3, n + 1)
    BY <2>1, <2>2, NodeBegun
  <2> QED
    BY <2>2, <2>3
<1>16. EventNodes(ending, EventLen)
  <2> HIDE DEF c3
  <2>1. CASE w
    BY <1>1, <1>11, <1>15, <2>1
  <2>2. CASE ~w
    BY <1>1, <1>11, <1>14, <2>2
  <2> QED
    BY <2>1, <2>2
<1> HIDE DEF ending
<1> QED
  BY <1>6, <1>16

(* A part with its beginning only.                                         *)
LEMMA PartBegun ==
  ASSUME NEW n, NEW bracket, NEW first
  PROVE  ListState(Part(n, bracket), first, 0)
<1> DEFINE s == IF XML THEN <<>> ELSE Comma
           b == Begin(n, bracket)
           x == s \o b
<1>1. PlainText(s) /\ PlainText(b)
  BY PiecesPlain, BracketsPlain, PlainEmpty DEF SomeText
<1>2. Part(n, bracket) = AddNode(Blank, x, 0)
  BY DEF Part
<1> HIDE DEF s, b
<1>3. PlainText(x)
  BY <1>1, PlainJoined
<1> HIDE DEF x
<1> DEFINE u == AddNode(Blank, x, 0)
<1>4. ListState(u, first, 0)
  BY <1>3, FirstNode
<1> QED
  BY <1>2, <1>4

LEMMA StartStep ==
  ASSUME MarkupInv, Start
  PROVE  MarkupInv'
<1> DEFINE ev == LET tag   == AddText(AddText(AddNode(Blank, Header, 0), 0), 0)
                     event == AddTree(AddTree(IF XML THEN AddNode(tag, <<T(">")>>, 0) ELSE tag,
                                              1, "text"), 2, "data")
                 IN  IF shape.with_norm THEN AddTree(event, 3, "norm") ELSE event
           ut == Part("text", "[")
           ud == Part("data", "{")
           un == IF shape.with_norm THEN Part("norm", "{") ELSE tree["norm"]
<1>1. /\ pc = "start" /\ pc' = "records"
      /\ shape' = shape /\ sample' = sample /\ line_num' = line_num /\ record_num' = record_num
      /\ error' = error /\ seen' = seen /\ args' = args /\ norm' = norm
  BY DEF Start
<1>2. TypeOK /\ Empty
  BY <1>1 DEF MarkupInv
<1>3. IsForest(tree) /\ Len(sample) \in Nat /\ tree = [s \in Trees |-> Blank]
  BY <1>2, SampleTyped DEF TypeOK, Empty
<1>4. EventNodes(ev, EventLen)
  BY <1>3, EventBegun
<1>5. ListState(ut, 0, 0)
  <2> DEFINE a == "text"
             b == "["
             z == 0
  <2> HIDE DEF a, b, z
  <2>1. ListState(Part(a, b), z, 0)
    BY PartBegun
  <2> QED
    BY <2>1 DEF a, b, z
<1>6. ListState(ud, 0, 0)
  <2> DEFINE a == "data"
             b == "{"
             z == 0
  <2> HIDE DEF a, b, z
  <2>1. ListState(Part(a, b), z, 0)
    BY PartBegun
  <2> QED
    BY <2>1 DEF a, b, z
<1>7. ListState(un, 1, 0)
  <2> DEFINE a == "norm"
             b == "{"
             z == 1
  <2>1. tree["norm"] = Blank
    BY <1>3 DEF Trees
  <2> HIDE DEF a, b, z
  <2>2. ListState(Part(a, b), z, 0)
    BY PartBegun
  <2>3. ListState(Blank, z, 0)
    BY BlankList
  <2> QED
    BY <2>1, <2>2, <2>3 DEF a, b, z
<1>8. tree' = [tree EXCEPT !["event"] = ev, !["text"] = ut, !["data"] = ud, !["norm"] = un]
  BY <1>3 DEF Start, Trees
<1> HIDE DEF ev, ut, ud, un
<1>9. /\ tree'["event"] = ev /\ tree'["text"] = ut /\ tree'["data"] = ud /\ tree'["norm"] = un
      /\ tree'["execve"] = Blank /\ tree'["path"] = Blank /\ tree'["rep"] = Blank
      /\ tree' = [s \in Trees |-> tree'[s]]
  BY <1>3, <1>8 DEF Trees
<1>10. IsForest(tree')
  <2>1. IsTree(ev) /\ IsTree(ut) /\ IsTree(ud) /\ IsTree(un) /\ IsTree(Blank)
    BY <1>4, <1>5, <1>6, <1>7, BlankTree DEF EventNodes, ListState
  <2>2. \A s \in Trees : IsTree(tree'[s])
    BY <1>9, <2>1 DEF Trees
  <2> QED
    BY <1>9, <2>2 DEF IsForest
<1>11. TypeOK'
  BY <1>1, <1>2, <1>10 DEF TypeOK
<1>12. EventLen' = EventLen /\ \A i : TreeAt(i)' = TreeAt(i)
  BY <1>1, SameShape
<1>13. /\ IsTree(ev) /\ ev.tail = <<>> /\ Len(ev.nodes) = EventLen
       /\ (\A i \in 1 .. EventLen : ev.nodes[i].tree = TreeAt(i))
       /\ TrimmedNode <= EventLen /\ ev.nodes[TrimmedNode].text = <<>>
  <2>1. TrimmedNode <= EventLen /\ EventLen >= TrimmedNode
    BY TreeAtNodes DEF TrimmedNode
  <2> QED
    BY <1>4, <2>1 DEF EventNodes
<1>14. ~Marked'
  BY <1>9, <1>13 DEF Marked, TrimmedNode
<1>15. EventOK'
  <2>1. \A i : TreeAt(i) \in {"text", "data", "norm", None}
    BY TreeAtNodes
  <2>2. TreesIn(ev.nodes) \subseteq {"text", "data", "norm"}
    BY <1>13, <2>1 DEF TreesIn
  <2> QED
    BY <1>1, <1>9, <1>12, <1>13, <1>14, <2>2 DEF EventOK, TreesOf, TrimmedNode
<1>16. TextOK'
  <2>1. line_num' = 0
    BY <1>1, <1>2 DEF Empty
  <2> QED
    BY <1>5, <1>9, <2>1 DEF ListState, TextOK, InOrder, TreesOf, Numbers, AllNumbers
<1>17. NormOK'
  <2>1. norm'.prio - 1 = 0
    BY <1>1, <1>2 DEF Empty
  <2> QED
    BY <1>7, <1>9, <2>1 DEF ListState, NormOK, InOrder, TreesOf, Numbers, AllNumbers
<1>18. Gathered(tree', record_num', seen', args')
  <2>1. /\ record_num' = 0 /\ Cardinality(seen') = 0
        /\ args'.num = 0 /\ args'.done = 0 /\ args'.open = FALSE
    BY <1>1, <1>2, FS_EmptySet DEF Empty
  <2>2. Blank.nodes = <<>> /\ Len(Blank.nodes) = 0 /\ Blank.tail = <<>> /\ IsTree(Blank)
    BY BlankTree
  <2>3. ListState(Blank, 0, Len(Blank.nodes) - 1)
    <3> DEFINE z == 0
               n == Len(Blank.nodes) - 1
    <3>1. ListState(Blank, z, 0) /\ 1 .. n = 1 .. 0
      BY <2>2, BlankList
    <3> HIDE DEF z, n
    <3>2. ListState(Blank, z, n)
      BY <3>1 DEF ListState
    <3> QED
      BY <3>2 DEF z, n
  <2>4. PathState(Blank)
    <3> DEFINE ns == Blank.nodes
    <3>1. ListState(Blank, 0, 0) /\ Len(ns) = 0 /\ ns = <<>>
      BY <2>2, BlankList
    <3>2. Spread(ns)
      <4> HIDE DEF ns
      <4> QED
        BY <3>1 DEF Spread
    <3> QED
      BY <2>2, <3>1, <3>2 DEF PathState, ListState
  <2>5. ListState(tree'["data"], 0, record_num')
    BY <1>6, <1>9, <2>1
  <2> QED
    BY <1>9, <2>1, <2>2, <2>3, <2>4, <2>5 DEF Gathered
<1>19. DataOK' /\ RepOK' /\ ExecveOK' /\ PathOK'
  BY <1>1, <1>10, <1>14, <1>18, GatheredThere
<1> QED
  BY <1>1, <1>11, <1>15, <1>16, <1>17, <1>19 DEF MarkupInv

-----------------------------------------------------------------------------
(* Trimming.                                                               *)

Cutting == [Trees -> Int]

LEMMA WholeCut == Whole \in Cutting
<1>1. MaxRecords + Len(NormFields) + MaxItems + MaxArgs + 3 \in Int
  BY MarkupAssumption
<1> QED
  BY <1>1 DEF Whole, Cutting

LEMMA LevelsTyped ==
  ASSUME NEW t, IsTree(t)
  PROVE  Levels(t) \subseteq Int
BY DEF Levels, IsTree

LEMMA CutWith ==
  ASSUME NEW c \in Cutting, NEW t \in Trees, NEW p \in Int
  PROVE  [c EXCEPT ![t] = p] \in Cutting
BY DEF Cutting

(* What a tree may hold.                                                   *)
LEMMA BelowTyped ==
  ASSUME NEW t, IsTree(t), NEW p
  PROVE  Below(t, p) \subseteq Trees
BY DEF Below, IsTree

(* What trimming chooses from, at each depth, cuts every tree somewhere.   *)
LEMMA RecordCutsTyped ==
  ASSUME IsForest(tree), NEW t \in Trees
  PROVE  RecordCuts(t) \subseteq Cutting
<1> SUFFICES ASSUME NEW c \in RecordCuts(t)
             PROVE  c \in Cutting
  OBVIOUS
<1>1. PICK p \in Levels(tree[t]) : c \in {[w EXCEPT ![t] = p] : w \in {Whole} \union UNION {{} : s \in Below(tree[t], p)}}
  BY DEF RecordCuts, CutsOf
<1>2. c = [Whole EXCEPT ![t] = p]
  BY <1>1
<1>3. p \in Int
  BY LevelsTyped DEF IsForest
<1> QED
  BY <1>2, <1>3, WholeCut, CutWith

LEMMA PartCutsTyped ==
  ASSUME IsForest(tree), NEW t \in Trees
  PROVE  PartCuts(t) \subseteq Cutting
<1> SUFFICES ASSUME NEW c \in PartCuts(t)
             PROVE  c \in Cutting
  OBVIOUS
<1>1. PICK p \in Levels(tree[t]) :
        c \in {[w EXCEPT ![t] = p] : w \in {Whole} \union UNION {RecordCuts(s) : s \in Below(tree[t], p)}}
  BY DEF PartCuts, CutsOf
<1>2. PICK w \in {Whole} \union UNION {RecordCuts(s) : s \in Below(tree[t], p)} : c = [w EXCEPT ![t] = p]
  BY <1>1
<1>3. p \in Int /\ Below(tree[t], p) \subseteq Trees
  BY LevelsTyped, BelowTyped DEF IsForest
<1>4. w \in Cutting
  BY <1>2, <1>3, WholeCut, RecordCutsTyped
<1> QED
  BY <1>2, <1>3, <1>4, CutWith

LEMMA CutsTyped ==
  ASSUME IsForest(tree), NEW c \in Cuts, NEW t \in Trees
  PROVE  c[t] \in Int
<1> DEFINE e == "event"
<1>1. PICK p \in Levels(tree[e]) :
        c \in {[w EXCEPT ![e] = p] : w \in {Whole} \union UNION {PartCuts(s) : s \in Below(tree[e], p)}}
  BY DEF Cuts, CutsOf
<1>2. PICK w \in {Whole} \union UNION {PartCuts(s) : s \in Below(tree[e], p)} : c = [w EXCEPT ![e] = p]
  BY <1>1
<1>3. e \in Trees
  BY DEF Trees
<1>4. p \in Int /\ Below(tree[e], p) \subseteq Trees
  BY <1>3, LevelsTyped, BelowTyped DEF IsForest
<1>5. w \in Cutting
  BY <1>2, <1>4, WholeCut, PartCutsTyped
<1> HIDE DEF e
<1>6. c \in Cutting
  BY <1>2, <1>3, <1>4, <1>5, CutWith
<1> QED
  BY <1>6 DEF Cutting

(* A tree cut at p.                                                        *)
Cut(t, p) == [t EXCEPT !.nodes = [i \in 1 .. Len(@) |-> IF @[i].prio > p THEN Hole ELSE @[i]]]

(* A cut keeps what is rising: with a number goes every higher one.        *)
LEMMA TreeCut ==
  ASSUME NEW t, IsTree(t), NEW p \in Int
  PROVE  LET u == Cut(t, p)
         IN  /\ IsTree(u) /\ u.tail = t.tail /\ Len(u.nodes) = Len(t.nodes)
             /\ TreesIn(u.nodes) \subseteq TreesIn(t.nodes)
             /\ \A first \in Int : Rising(t.nodes, first) => Rising(u.nodes, first)
<1> DEFINE ns == t.nodes
           n == Len(ns)
           F(i) == IF ns[i].prio > p THEN Hole ELSE ns[i]
           us == [i \in 1 .. n |-> F(i)]
           u == Cut(t, p)
<1>1. n \in Nat /\ t = [nodes |-> t.nodes, tail |-> t.tail] /\ IsSeq(t.tail)
      /\ \A i \in 1 .. n : ns[i].prio \in Int /\ ns[i].tree \in Trees \union {None}
  BY DEF IsTree, IsSeq
<1>2. u = [nodes |-> us, tail |-> t.tail]
  BY <1>1 DEF Cut
<1>3. u.nodes = us /\ u.tail = t.tail /\ u = [nodes |-> u.nodes, tail |-> u.tail]
  BY <1>2
<1>4. \A i \in 1 .. n : us[i] = IF ns[i].prio > p THEN Hole ELSE ns[i]
  OBVIOUS
<1>5. us = [i \in 1 .. n |-> us[i]]
  OBVIOUS
<1> HIDE DEF us, u, ns
<1>6. IsSeq(us) /\ Len(us) = n
  <2> HIDE DEF n
  <2> QED
    BY <1>1, <1>5, Sequence
<1>7. \A i \in 1 .. n : us[i].prio \in Int /\ us[i].tree \in Trees \union {None}
  BY <1>1, <1>4 DEF Hole
<1>8. IsTree(u)
  BY <1>1, <1>3, <1>6, <1>7 DEF IsTree
<1>9. ASSUME NEW first \in Int
      PROVE  (Rising(ns, first) => Rising(us, first)) /\ TreesIn(us) \subseteq TreesIn(ns)
  BY <1>1, <1>4, <1>6, RisingCut
<1>10. TreesIn(us) \subseteq TreesIn(ns)
  <2>1. 0 \in Int
    OBVIOUS
  <2> QED
    BY <1>9, <2>1
<1> QED
  BY <1>3, <1>6, <1>8, <1>9, <1>10 DEF u, ns

(* The event is marked.                                                    *)
LEMMA EventMarked ==
  ASSUME NEW t, IsTree(t), TrimmedNode <= Len(t.nodes), Len(sample) \in Nat
  PROVE  LET u == PutText(Add(t, TrimmedText), TrimmedNode, 0)
         IN  /\ IsTree(u) /\ u.tail = <<>> /\ Len(u.nodes) = Len(t.nodes)
             /\ u.nodes[TrimmedNode].text # <<>>
             /\ TreesIn(u.nodes) \subseteq TreesIn(t.nodes)
<1> DEFINE x == TrimmedText
           q == Add(t, x)
           i == TrimmedNode
           z == 0
           u == PutText(q, i, z)
           n == Len(t.nodes)
<1>1. SomeText(x)
  BY MarksPlain
<1>2. i \in Nat \ {0} /\ z \in Int /\ ~(i > n) /\ n \in Nat /\ i \in 1 .. n /\ IsSeq(t.tail)
  BY DEF TrimmedNode, IsTree, IsSeq
<1>3. PutText(Add(t, TrimmedText), TrimmedNode, 0) = u
  OBVIOUS
<1> HIDE DEF x, i, z, n
<1>4. IsTree(q) /\ q.nodes = t.nodes /\ q.tail = t.tail \o x
  <2>1. IsSeq(x)
    BY <1>1 DEF SomeText, PlainText
  <2> QED
    BY <2>1, AddedText
<1>5. q.tail # <<>>
  <2>1. IsSeq(x) /\ Len(x) > 0
    BY <1>1 DEF SomeText, PlainText
  <2> DEFINE r == t.tail
  <2> HIDE DEF r
  <2>2. IsSeq(r)
    BY <1>2 DEF r
  <2>3. IsSeq(r \o x) /\ Len(r \o x) = Len(r) + Len(x) /\ Len(r) \in Nat /\ Len(x) \in Nat
    BY <2>1, <2>2, Joined DEF IsSeq
  <2>4. Len(r \o x) > 0
    BY <2>1, <2>3
  <2>5. r \o x # <<>>
    BY <2>3, <2>4, NonEmpty
  <2> QED
    BY <1>4, <2>5 DEF r
<1> HIDE DEF q
<1>6. /\ IsTree(u) /\ u.tail = <<>> /\ Len(u.nodes) = n
      /\ u.nodes[i] = [prio |-> z, text |-> q.tail, tree |-> None]
      /\ \A k \in 1 .. n : k # i => u.nodes[k] = t.nodes[k]
  <2> DEFINE node == [prio |-> z, text |-> q.tail, tree |-> None]
  <2>1. NodeAt(q, u, i, node) /\ u.tail = <<>>
    BY <1>2, <1>4, PutTextNode
  <2>2. Len(q.nodes) = n /\ ~(i > n)
    BY <1>2, <1>4 DEF n
  <2> HIDE DEF u, node
  <2>3. IsTree(u) /\ Len(u.nodes) = n /\ u.nodes[i] = node /\ \A k \in 1 .. n : k # i => u.nodes[k] = q.nodes[k]
    BY <2>1, <2>2 DEF NodeAt
  <2> QED
    BY <1>4, <2>1, <2>3 DEF node
<1> HIDE DEF u
<1>7. TreesIn(u.nodes) \subseteq TreesIn(t.nodes)
  <2> SUFFICES ASSUME NEW k \in 1 .. n, u.nodes[k].tree # None
               PROVE  u.nodes[k].tree \in TreesIn(t.nodes)
    BY <1>6 DEF TreesIn
  <2>1. k # i
    BY <1>6
  <2> QED
    BY <1>6, <2>1 DEF TreesIn, n
<1> QED
  BY <1>3, <1>5, <1>6, <1>7 DEF i, n

(* Trimming, and the mark it leaves.                                       *)
LEMMA TrimStep ==
  ASSUME MarkupInv, TrimEvent
  PROVE  MarkupInv'
<1>1. /\ pc = "trim" /\ pc' = "rendered"
      /\ shape' = shape /\ sample' = sample /\ line_num' = line_num /\ record_num' = record_num
      /\ error' = error /\ seen' = seen /\ args' = args /\ norm' = norm
  BY DEF TrimEvent
<1>2. TypeOK /\ EventOK /\ TextOK /\ NormOK /\ (~error => DataOK /\ RepOK /\ ExecveOK /\ PathOK)
  BY <1>1 DEF MarkupInv
<1>3. CASE tree' = tree
  <2>1. TypeOK'
    BY <1>1, <1>2, <1>3 DEF TypeOK
  <2>2. TreesOf("event")' = TreesOf("event") /\ (Marked' <=> Marked)
    BY <1>3 DEF TreesOf, Marked, TrimmedNode
  <2>3. EventOK'
    BY <1>1, <1>2, <1>3, <2>2 DEF EventOK, TrimmedNode
  <2>4. TextOK' /\ NormOK'
    BY <1>1, <1>2, <1>3, <2>2 DEF TextOK, NormOK, InOrder, TreesOf, Numbers
  <2>5. ~error' => DataOK' /\ RepOK' /\ ExecveOK' /\ PathOK'
    BY <1>1, <1>3, <2>2, DataFrame
  <2> QED
    BY <1>1, <2>1, <2>3, <2>4, <2>5 DEF MarkupInv
<1>4. CASE \E cut \in Cuts :
             tree' = [Trimmed(cut) EXCEPT !["event"] = PutText(Add(@, TrimmedText), TrimmedNode, 0)]
  <2>1. PICK cut \in Cuts :
          tree' = [Trimmed(cut) EXCEPT !["event"] = PutText(Add(@, TrimmedText), TrimmedNode, 0)]
    BY <1>4
  <2> DEFINE C(t) == Cut(tree[t], cut[t])
             ue == PutText(Add(C("event"), TrimmedText), TrimmedNode, 0)
  <2>2. IsForest(tree) /\ Len(sample) \in Nat
    BY <1>2, SampleTyped DEF TypeOK
  <2>3. /\ tree'["event"] = ue /\ \A t \in Trees \ {"event"} : tree'[t] = C(t)
        /\ tree' = [t \in Trees |-> tree'[t]]
    <3>1. Trimmed(cut) = [t \in Trees |-> C(t)]
      BY DEF Trimmed, Cut
    <3> HIDE DEF C
    <3> QED
      BY <2>1, <3>1 DEF Trees
  <2>4. ASSUME NEW t \in Trees
        PROVE  /\ IsTree(C(t)) /\ C(t).tail = tree[t].tail /\ Len(C(t).nodes) = Len(tree[t].nodes)
               /\ TreesIn(C(t).nodes) \subseteq TreesIn(tree[t].nodes)
               /\ Rising(tree[t].nodes, 0) => Rising(C(t).nodes, 0)
               /\ Rising(tree[t].nodes, 1) => Rising(C(t).nodes, 1)
    <3> DEFINE a == tree[t]
               p == cut[t]
    <3>1. IsTree(a) /\ p \in Int
      BY <2>2, CutsTyped DEF IsForest
    <3> HIDE DEF a, p
    <3>2. LET u == Cut(a, p)
          IN  /\ IsTree(u) /\ u.tail = a.tail /\ Len(u.nodes) = Len(a.nodes)
              /\ TreesIn(u.nodes) \subseteq TreesIn(a.nodes)
              /\ \A first \in Int : Rising(a.nodes, first) => Rising(u.nodes, first)
      BY <3>1, TreeCut
    <3>3. C(t) = Cut(a, p)
      BY DEF a, p
    <3> HIDE DEF C
    <3>4. 0 \in Int /\ 1 \in Int
      OBVIOUS
    <3> DEFINE u == C(t)
    <3>5. /\ IsTree(u) /\ u.tail = a.tail /\ Len(u.nodes) = Len(a.nodes)
          /\ TreesIn(u.nodes) \subseteq TreesIn(a.nodes)
          /\ \A first \in Int : Rising(a.nodes, first) => Rising(u.nodes, first)
      BY <3>2, <3>3
    <3> HIDE DEF u
    <3>6. /\ Rising(a.nodes, 0) => Rising(u.nodes, 0)
          /\ Rising(a.nodes, 1) => Rising(u.nodes, 1)
      BY <3>4, <3>5
    <3> QED
      BY <3>5, <3>6 DEF u, a
  <2>5. TrimmedNode <= Len(tree["event"].nodes) /\ "event" \in Trees
    BY <1>2 DEF EventOK, Trees
  <2> HIDE DEF C
  <2>6. /\ IsTree(ue) /\ ue.tail = <<>> /\ Len(ue.nodes) = Len(tree["event"].nodes)
        /\ ue.nodes[TrimmedNode].text # <<>>
        /\ TreesIn(ue.nodes) \subseteq TreesIn(tree["event"].nodes)
    <3> DEFINE v == C("event")
    <3>1. IsTree(v) /\ TrimmedNode <= Len(v.nodes) /\ Len(v.nodes) = Len(tree["event"].nodes)
          /\ TreesIn(v.nodes) \subseteq TreesIn(tree["event"].nodes)
      BY <2>4, <2>5
    <3> HIDE DEF v
    <3>2. LET u == PutText(Add(v, TrimmedText), TrimmedNode, 0)
          IN  /\ IsTree(u) /\ u.tail = <<>> /\ Len(u.nodes) = Len(v.nodes)
              /\ u.nodes[TrimmedNode].text # <<>>
              /\ TreesIn(u.nodes) \subseteq TreesIn(v.nodes)
      BY <2>2, <3>1, EventMarked
    <3>3. ue = PutText(Add(v, TrimmedText), TrimmedNode, 0)
      BY DEF v
    <3> HIDE DEF ue
    <3> QED
      BY <3>1, <3>2, <3>3
  <2> HIDE DEF ue
  <2>7. TypeOK'
    <3>1. \A t \in Trees : IsTree(tree'[t])
      BY <2>3, <2>4, <2>6
    <3>2. IsForest(tree')
      BY <2>3, <3>1 DEF IsForest
    <3> QED
      BY <1>1, <1>2, <3>2 DEF TypeOK
  <2>8. Marked'
    BY <2>3, <2>6 DEF Marked, TrimmedNode
  <2>9. EventOK'
    <3>1. TreesOf("event")' \subseteq TreesOf("event")
      BY <2>3, <2>6 DEF TreesOf
    <3> QED
      BY <1>1, <1>2, <2>3, <2>5, <2>6, <2>8, <3>1 DEF EventOK, TrimmedNode
  <2>10. /\ "text" \in Trees \ {"event"} /\ "norm" \in Trees \ {"event"} /\ "data" \in Trees \ {"event"}
         /\ "execve" \in Trees \ {"event"} /\ "path" \in Trees \ {"event"} /\ "rep" \in Trees \ {"event"}
    BY DEF Trees
  <2>11. ASSUME NEW t \in Trees \ {"event"}
         PROVE  /\ tree'[t].tail = tree[t].tail
                /\ TreesIn(tree'[t].nodes) \subseteq TreesIn(tree[t].nodes)
                /\ Rising(tree[t].nodes, 0) => Rising(tree'[t].nodes, 0)
                /\ Rising(tree[t].nodes, 1) => Rising(tree'[t].nodes, 1)
    <3>1. tree'[t] = C(t)
      BY <2>3
    <3> QED
      BY <2>4, <3>1
  <2>12. TextOK' /\ NormOK'
    BY <1>1, <1>2, <2>8, <2>10, <2>11 DEF TextOK, NormOK, InOrder, TreesOf
  <2>13. ASSUME ~error'
         PROVE  DataOK' /\ RepOK' /\ ExecveOK' /\ PathOK'
    <3>1. DataOK /\ RepOK /\ ExecveOK /\ PathOK
      BY <1>1, <1>2, <2>13
    <3>2. DataOK'
      BY <1>1, <2>8, <2>10, <2>11, <3>1 DEF DataOK, TreesOf
    <3>3. RepOK'
      BY <1>1, <2>10, <2>11, <3>1 DEF RepOK, InOrder, TreesOf
    <3>4. ExecveOK'
      BY <1>1, <2>8, <2>10, <2>11, <3>1 DEF ExecveOK, TreesOf
    <3>5. PathOK'
      BY <1>1, <2>10, <2>11, <3>1 DEF PathOK, TreesOf
    <3> QED
      BY <3>2, <3>3, <3>4, <3>5
  <2> QED
    BY <1>1, <2>7, <2>9, <2>12, <2>13 DEF MarkupInv
<1> QED
  BY <1>3, <1>4 DEF TrimEvent

-----------------------------------------------------------------------------
(* The theorems.                                                           *)

LEMMA MarkupInit ==
  ASSUME Init
  PROVE  MarkupInv
<1> DEFINE f == [t \in Trees |-> Blank]
<1>1. IsForest(f)
  BY BlankTree DEF IsForest
<1>2. IsFiniteSet({})
  BY FS_EmptySet
<1>3. TypeOK
  <2>1. args \in [num : Nat, done : Nat, open : BOOLEAN] /\ norm \in [next : Nat, prio : Nat \ {0}]
    BY DEF Init
  <2>2. error \in BOOLEAN /\ line_num \in Nat /\ record_num \in Nat
    BY DEF Init
  <2>3. IsForest(tree) /\ IsFiniteSet(seen)
    BY <1>1, <1>2 DEF Init
  <2> QED
    BY <2>1, <2>2, <2>3 DEF Init, TypeOK
<1>4. Empty
  BY DEF Init, Empty
<1> QED
  BY <1>3, <1>4 DEF MarkupInv, Init

LEMMA MarkupNext ==
  ASSUME MarkupInv, Next
  PROVE  MarkupInv'
<1>1. CASE Drop \/ Render \/ GiveUp
  BY <1>1, EmptiedStep DEF Drop, Render, GiveUp
<1> QED
  BY <1>1, StartStep, AddRecordStep, EndRecordsStep, AddNormStep, FinishStep, TrimStep DEF Next

LEMMA MarkupStutter ==
  ASSUME MarkupInv, UNCHANGED vars
  PROVE  MarkupInv'
<1>1. /\ pc' = pc /\ shape' = shape /\ sample' = sample /\ tree' = tree /\ line_num' = line_num
      /\ record_num' = record_num /\ error' = error /\ seen' = seen /\ args' = args /\ norm' = norm
  BY DEF vars
<1>2. EventLen' = EventLen /\ (\A i : TreeAt(i)' = TreeAt(i)) /\ (XML' <=> XML)
  BY <1>1, SameShape
<1>3. (\A t : TreesOf(t)' = TreesOf(t)) /\ (\A t : Numbers(t)' = Numbers(t)) /\ (Marked' <=> Marked) /\ Added' = Added
  BY <1>1 DEF TreesOf, Numbers, Marked, TrimmedNode, Added
<1>4. (TypeOK' <=> TypeOK) /\ (Empty' <=> Empty)
  BY <1>1 DEF TypeOK, Empty
<1>5. (EventOK' <=> EventOK) /\ (TextOK' <=> TextOK) /\ (NormOK' <=> NormOK)
  BY <1>1, <1>2, <1>3 DEF EventOK, TextOK, NormOK, InOrder, TrimmedNode
<1>6. (DataOK' <=> DataOK) /\ (RepOK' <=> RepOK) /\ (ExecveOK' <=> ExecveOK)
  BY <1>1, <1>3 DEF DataOK, RepOK, ExecveOK, InOrder
<1>7. PathOK' <=> PathOK
  BY <1>1, <1>2, <1>3 DEF PathOK, Spread
<1> QED
  BY <1>1, <1>4, <1>5, <1>6, <1>7 DEF MarkupInv

(* What each tree has is known in every state.                             *)
THEOREM MarkupInvariant == Spec => []MarkupInv
<1>1. Init => MarkupInv
  BY MarkupInit
<1>2. MarkupInv /\ [Next]_vars => MarkupInv'
  BY MarkupNext, MarkupStutter
<1> QED
  BY <1>1, <1>2, PTL DEF Spec

(* The properties follow from the invariant.                               *)
LEMMA KeptFollows ==
  ASSUME MarkupInv
  PROVE  BeginningKept
<1> SUFFICES ASSUME pc = "rendered", NEW t \in Linked
             PROVE  \A j \in 1 .. Len(tree[t].nodes) : \A m \in NumbersIn(tree[t].nodes[j].text) :
                      NumbersUpTo(tree[t].nodes, j - 1) = 1 .. m - 1
  BY DEF BeginningKept
<1>1. EventOK /\ TextOK /\ NormOK
  BY DEF MarkupInv
<1>2. TreesOf("event") \subseteq {"text", "data", "norm"} /\ TreesOf("text") = {} /\ TreesOf("norm") = {}
  BY <1>1 DEF EventOK, TextOK, NormOK, InOrder
<1>3. \E first : Rising(tree[t].nodes, first)
  <2>1. Rising(tree["text"].nodes, 0) /\ Rising(tree["norm"].nodes, 1)
    BY <1>1 DEF TextOK, NormOK, InOrder
  <2>2. CASE error
    <3>1. "data" \notin TreesOf("event")
      BY <1>1, <2>2 DEF EventOK
    <3>2. t \in {"text", "norm"}
      BY <1>2, <3>1 DEF Linked
    <3> QED
      BY <2>1, <3>2
  <2>3. CASE ~error
    <3>1. DataOK /\ RepOK /\ ExecveOK /\ PathOK
      BY <2>3 DEF MarkupInv
    <3>2. /\ Rising(tree["data"].nodes, 0) /\ Rising(tree["execve"].nodes, 0)
          /\ Rising(tree["rep"].nodes, 0) /\ Rising(tree["path"].nodes, 0)
      BY <3>1 DEF DataOK, RepOK, ExecveOK, PathOK, InOrder
    <3>3. t \in {"text", "data", "norm", "execve", "path", "rep"}
      BY <1>2, <3>1 DEF Linked, DataOK
    <3> QED
      BY <2>1, <3>2, <3>3
  <2> QED
    BY <2>2, <2>3
<1> QED
  BY <1>3 DEF Rising

LEMMA AllFollows ==
  ASSUME MarkupInv
  PROVE  AllThere
<1> SUFFICES ASSUME pc = "rendered", ~error, ~Marked
             PROVE  /\ \A t \in Linked \union {"event"} : tree[t].tail = <<>>
                    /\ shape.with_text <=> "text" \in Linked
                    /\ shape.with_text => Numbers("text") = 1 .. line_num
                    /\ "data" \in Linked /\ (shape.with_norm <=> "norm" \in Linked)
                    /\ Numbers("execve") = 1 .. args.num
                    /\ args.num > 0 => "execve" \in Linked
                    /\ Cardinality(seen) = Cardinality(Numbers("data"))
                    /\ record_num = Cardinality(seen) + Cardinality(Linked \ {"text", "data", "norm"})
  BY DEF AllThere, Marked
<1>1. TypeOK /\ EventOK /\ TextOK /\ NormOK /\ DataOK /\ RepOK /\ ExecveOK /\ PathOK
  BY DEF MarkupInv
<1> DEFINE E == {s \in {"text", "data", "norm"} :
                   /\ s = "text" => shape.with_text
                   /\ s = "norm" => shape.with_norm}
<1>2. TreesOf("event") = E
  BY <1>1 DEF EventOK
<1>3. TreesOf("text") = {} /\ TreesOf("norm") = {} /\ TreesOf("data") = Added
  BY <1>1 DEF TextOK, NormOK, InOrder, DataOK
<1>4. "data" \in E /\ E \subseteq {"text", "data", "norm"} /\ Added \subseteq {"execve", "path", "rep"}
      /\ ("text" \in E <=> shape.with_text) /\ ("norm" \in E <=> shape.with_norm)
  BY DEF Added
<1>5. Linked = E \union Added
  <2> HIDE DEF E
  <2> QED
    BY <1>2, <1>3, <1>4 DEF Linked
<1> HIDE DEF E
<1>6. ASSUME NEW t \in Linked \union {"event"}
      PROVE  tree[t].tail = <<>>
  <2>1. /\ tree["event"].tail = <<>> /\ tree["text"].tail = <<>> /\ tree["norm"].tail = <<>>
        /\ tree["data"].tail = <<>> /\ tree["rep"].tail = <<>> /\ tree["path"].tail = <<>>
    BY <1>1 DEF EventOK, TextOK, NormOK, InOrder, DataOK, RepOK, PathOK
  <2>2. tree["execve"].tail = <<>>
    BY <1>1 DEF ExecveOK
  <2>3. t \in {"event", "text", "norm", "data", "execve", "path", "rep"}
    BY <1>4, <1>5
  <2> QED
    BY <2>1, <2>2, <2>3
<1>7. (shape.with_text <=> "text" \in Linked) /\ "data" \in Linked /\ (shape.with_norm <=> "norm" \in Linked)
  BY <1>4, <1>5
<1>8. Numbers("text") = 1 .. line_num
  BY <1>1 DEF TextOK
<1>9. Numbers("execve") = 1 .. args.num /\ (args.num > 0 => "execve" \in Linked)
  <2>1. Numbers("execve") = 1 .. args.done /\ args.done = args.num
        /\ (tree["execve"].nodes = <<>> <=> args.num = 0)
    BY <1>1 DEF ExecveOK
  <2>2. args.num > 0 => tree["execve"].nodes # <<>>
    BY <2>1
  <2> QED
    BY <1>5, <2>1, <2>2 DEF Added
<1>10. Cardinality(seen) = Cardinality(Numbers("data"))
  <2> DEFINE c == Cardinality(seen)
  <2>1. c \in Nat
    BY <1>1, FS_CardinalityType DEF TypeOK
  <2>2. Numbers("data") = 1 .. c
    BY <1>1 DEF DataOK
  <2> HIDE DEF c
  <2>3. Cardinality(1 .. c) = c
    BY <2>1, FS_Interval
  <2> QED
    BY <2>2, <2>3 DEF c
<1>11. record_num = Cardinality(seen) + Cardinality(Linked \ {"text", "data", "norm"})
  <2>1. Linked \ {"text", "data", "norm"} = Added
    BY <1>4, <1>5
  <2>2. record_num = Cardinality(seen) + Cardinality(Added)
    BY <1>1 DEF DataOK
  <2> QED
    BY <2>1, <2>2
<1> QED
  BY <1>6, <1>7, <1>8, <1>9, <1>10, <1>11

(* Whatever is trimmed, what is left of the lines, records, arguments and  *)
(* items of an event is the beginning of them.                             *)
THEOREM MarkupBeginningKept == Spec => []BeginningKept
BY MarkupInvariant, KeptFollows, PTL

(* An event that is neither marked as trimmed nor has an error has every   *)
(* line, record and argument, and nothing of it waits for a node.          *)
THEOREM MarkupAllThere == Spec => []AllThere
BY MarkupInvariant, AllFollows, PTL

=============================================================================
