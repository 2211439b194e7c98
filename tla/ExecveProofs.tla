---------------------------- MODULE ExecveProofs ----------------------------
(***************************************************************************)
(* Theorems about ExecveColl, for calls of any number of arguments, cut    *)
(* into any number of slices, and any number of events: the collector      *)
(* never puts the text of an argument in the place of another one, and     *)
(* puts a call together again if nothing of it gets lost.                  *)
(***************************************************************************)
EXTENDS ExecveColl, TLAPS

-----------------------------------------------------------------------------
(* Tokens and nodes.                                                       *)

LEMMA TokenTypes ==
  /\ Prologue \in Tokens /\ Epilogue \in Tokens /\ Open \in Tokens /\ Close \in Tokens
  /\ \A i, j \in Nat : Whole(i) \in Tokens /\ Slice(i, j) \in Tokens
<1>1. \A kind \in Kinds, i, j \in Nat : Token(kind, i, j) \in Tokens
  BY DEF Token, Tokens
<1>2. /\ "prologue" \in Kinds /\ "epilogue" \in Kinds /\ "open" \in Kinds
      /\ "close" \in Kinds /\ "whole" \in Kinds /\ "slice" \in Kinds
  BY DEF Kinds
<1>3. 0 \in Nat
  OBVIOUS
<1>4. Prologue \in Tokens /\ Epilogue \in Tokens /\ Open \in Tokens /\ Close \in Tokens
  BY <1>1, <1>2, <1>3, Zenon DEF Prologue, Epilogue, Open, Close
<1>5. \A i, j \in Nat : Whole(i) \in Tokens /\ Slice(i, j) \in Tokens
  BY <1>1, <1>2, <1>3, Zenon DEF Whole, Slice
<1> QED
  BY <1>4, <1>5

(* One sequence after another, item by item.                               *)
LEMMA Concatenated ==
  ASSUME NEW S, NEW s \in Seq(S), NEW t \in Seq(S)
  PROVE  /\ s \o t \in Seq(S) /\ Len(s \o t) = Len(s) + Len(t)
         /\ Len(s) \in Nat /\ Len(t) \in Nat
         /\ \A k \in 1 .. Len(s) : (s \o t)[k] = s[k]
         /\ \A k \in 1 .. Len(t) : (s \o t)[Len(s) + k] = t[k]
OBVIOUS

LEMMA ConcatenatedNodes ==
  ASSUME NEW s \in Seq(Seq(Tokens)), NEW t \in Seq(Seq(Tokens))
  PROVE  /\ s \o t \in Seq(Seq(Tokens)) /\ Len(s \o t) = Len(s) + Len(t)
         /\ Len(s) \in Nat /\ Len(t) \in Nat
         /\ \A k \in 1 .. Len(s) : (s \o t)[k] = s[k]
         /\ \A k \in 1 .. Len(t) : (s \o t)[Len(s) + k] = t[k]
BY Concatenated

(* Sequences that agree item by item are the same.                         *)
LEMMA SameSeq ==
  ASSUME NEW S, NEW s \in Seq(S), NEW t \in Seq(S), Len(s) = Len(t),
         \A k \in 1 .. Len(s) : s[k] = t[k]
  PROVE  s = t
OBVIOUS

(* A function on the numbers up to n is a sequence.                        *)
LEMMA FunctionSeq ==
  ASSUME NEW S, NEW n \in Nat, NEW f \in [1 .. n -> S]
  PROVE  f \in Seq(S) /\ Len(f) = n
OBVIOUS

LEMMA Pairs ==
  ASSUME NEW S, NEW a \in S, NEW b \in S
  PROVE  <<a>> \o <<b>> = <<a, b>> /\ <<>> \o <<a, b>> = <<a, b>>
<1> DEFINE s == <<a>>
           t == <<b>>
           u == <<a, b>>
           v == s \o t
<1>1. s \in Seq(S) /\ Len(s) = 1 /\ s[1] = a /\ t \in Seq(S) /\ Len(t) = 1 /\ t[1] = b
  OBVIOUS
<1>2. u \in Seq(S) /\ Len(u) = 2 /\ u[1] = a /\ u[2] = b
  OBVIOUS
<1>3. <<>> \o u = u
  OBVIOUS
<1> HIDE DEF s, t, u
<1>4. v \in Seq(S) /\ Len(v) = 2 /\ v[1] = a /\ v[2] = b
  <2>1. /\ v \in Seq(S) /\ Len(v) = Len(s) + Len(t)
        /\ \A k \in 1 .. Len(s) : v[k] = s[k]
        /\ \A k \in 1 .. Len(t) : v[Len(s) + k] = t[k]
    BY <1>1, Concatenated
  <2> HIDE DEF v
  <2>2. v[1] = s[1] /\ v[1 + 1] = t[1] /\ Len(v) = 1 + 1
    BY <1>1, <2>1
  <2> QED
    BY <1>1, <2>1, <2>2
<1> HIDE DEF v
<1>5. v = u
  BY <1>2, <1>4
<1> QED
  BY <1>3, <1>5 DEF s, t, u, v

LEMMA Triples ==
  ASSUME NEW S, NEW a \in S, NEW b \in S, NEW c \in S
  PROVE  <<a>> \o <<b>> \o <<c>> = <<a, b, c>> /\ <<>> \o <<a, b, c>> = <<a, b, c>>
<1> DEFINE s == <<a, b>>
           t == <<c>>
           u == <<a, b, c>>
           v == s \o t
<1>1. /\ s \in Seq(S) /\ Len(s) = 2 /\ s[1] = a /\ s[2] = b
      /\ t \in Seq(S) /\ Len(t) = 1 /\ t[1] = c
  OBVIOUS
<1>2. u \in Seq(S) /\ Len(u) = 3 /\ u[1] = a /\ u[2] = b /\ u[3] = c
  OBVIOUS
<1>3. <<>> \o u = u
  OBVIOUS
<1> HIDE DEF s, t, u
<1>4. v \in Seq(S) /\ Len(v) = 3 /\ v[1] = a /\ v[2] = b /\ v[3] = c
  <2>1. s \in Seq(S) /\ t \in Seq(S)
    BY <1>1
  <2>2. /\ v \in Seq(S) /\ Len(v) = Len(s) + Len(t)
        /\ \A k \in 1 .. Len(s) : v[k] = s[k]
        /\ \A k \in 1 .. Len(t) : v[Len(s) + k] = t[k]
    BY <2>1, Concatenated
  <2> HIDE DEF v
  <2>3. v[1] = s[1] /\ v[2] = s[2] /\ v[2 + 1] = t[1] /\ Len(v) = 2 + 1
    BY <1>1, <2>2
  <2> QED
    BY <1>1, <2>2, <2>3
<1> HIDE DEF v
<1>5. v = u
  BY <1>2, <1>4
<1>6. <<a>> \o <<b>> = s
  BY Pairs DEF s
<1> QED
  BY <1>3, <1>5, <1>6 DEF t, u, v

(* A node in two parts has no other arguments' text than its parts have.   *)
LEMMA SourcesOfParts ==
  ASSUME NEW s \in Seq(Tokens), NEW t \in Seq(Tokens), NEW S,
         Sources(s) \subseteq S, Sources(t) \subseteq S
  PROVE  s \o t \in Seq(Tokens) /\ Sources(s \o t) \subseteq S
<1> DEFINE u == s \o t
           text_at(q) == {m \in 1 .. Len(q) : q[m].kind \in {"whole", "slice"}}
<1>1. /\ u \in Seq(Tokens) /\ Len(s) \in Nat /\ Len(t) \in Nat /\ Len(u) = Len(s) + Len(t)
      /\ \A k \in 1 .. Len(u) : u[k] = IF k <= Len(s) THEN s[k] ELSE t[k - Len(s)]
  OBVIOUS
<1> HIDE DEF u
<1>2. ASSUME NEW k \in text_at(u)
      PROVE  u[k].arg \in S
  <2>1. CASE k <= Len(s)
    <3>1. k \in text_at(s) /\ u[k] = s[k]
      BY <1>1, <1>2, <2>1
    <3> QED
      BY <3>1 DEF Sources
  <2>2. CASE ~(k <= Len(s))
    <3>1. k - Len(s) \in text_at(t) /\ u[k] = t[k - Len(s)]
      BY <1>1, <1>2, <2>2
    <3> QED
      BY <3>1 DEF Sources
  <2> QED
    BY <2>1, <2>2
<1>3. Sources(u) \subseteq S
  BY <1>2 DEF Sources
<1> QED
  BY <1>1, <1>3 DEF u

(* What has no text of an argument, and what has that of one.              *)
LEMMA SourcesOfTokens ==
  /\ \A S : Sources(<<>>) \subseteq S /\ Sources(<<Prologue>>) \subseteq S
  /\ \A S : Sources(<<Epilogue>>) \subseteq S /\ Sources(<<Open>>) \subseteq S
  /\ \A S : Sources(<<Close>>) \subseteq S /\ Sources(<<Open, Close>>) \subseteq S
  /\ \A i \in Nat : Sources(<<Open, Whole(i), Close>>) \subseteq {i}
  /\ \A i, j \in Nat : Sources(<<Slice(i, j)>>) \subseteq {i}
BY DEF Sources, Token, Prologue, Epilogue, Open, Close, Whole, Slice

Placed(t) == \A k \in 1 .. Len(t) : Sources(t[k]) \subseteq {k - 2}

(* Nodes that are added after others, each of them in its place.           *)
LEMMA PlacedTogether ==
  ASSUME NEW t \in Seq(Seq(Tokens)), NEW u \in Seq(Seq(Tokens)), Placed(t),
         \A k \in 1 .. Len(u) : Sources(u[k]) \subseteq {Len(t) + k - 2}
  PROVE  t \o u \in Seq(Seq(Tokens)) /\ Len(t \o u) = Len(t) + Len(u) /\ Placed(t \o u)
<1> DEFINE v == t \o u
<1>1. /\ v \in Seq(Seq(Tokens)) /\ Len(t) \in Nat /\ Len(u) \in Nat /\ Len(v) = Len(t) + Len(u)
      /\ \A k \in 1 .. Len(v) : v[k] = IF k <= Len(t) THEN t[k] ELSE u[k - Len(t)]
  OBVIOUS
<1> HIDE DEF v
<1>2. ASSUME NEW k \in 1 .. Len(v)
      PROVE  Sources(v[k]) \subseteq {k - 2}
  <2>1. CASE k <= Len(t)
    <3>1. k \in 1 .. Len(t) /\ v[k] = t[k]
      BY <1>1, <2>1
    <3> QED
      BY <3>1 DEF Placed
  <2>2. CASE ~(k <= Len(t))
    <3>1. k - Len(t) \in 1 .. Len(u) /\ v[k] = u[k - Len(t)]
      BY <1>1, <2>2
    <3>2. Sources(u[k - Len(t)]) \subseteq {Len(t) + (k - Len(t)) - 2}
      BY <3>1
    <3>3. Len(t) + (k - Len(t)) - 2 = k - 2
      BY <1>1
    <3> QED
      BY <3>1, <3>2, <3>3
  <2> QED
    BY <2>1, <2>2
<1> QED
  BY <1>1, <1>2 DEF v, Placed

(* The node of an argument of the call.                                    *)
LEMMA NodeTypes ==
  ASSUME argv \in Seq(Nat), NEW i \in 0 .. Len(argv) - 1
  PROVE  Node(i) \in Seq(Tokens)
<1>1. argv[i + 1] \in Nat /\ i \in Nat
  <2>1. i + 1 \in 1 .. Len(argv) /\ Len(argv) \in Nat
    OBVIOUS
  <2> QED
    BY <2>1
<1> DEFINE n == argv[i + 1]
           slices_of == [j \in 1 .. n |-> Slice(i, j - 1)]
           middle == IF i \in skipped THEN <<>> ELSE IF n = 0 THEN <<Whole(i)>> ELSE slices_of
<1>2. slices_of \in Seq(Tokens)
  <2>1. \A j \in 1 .. n : Slice(i, j - 1) \in Tokens
    <3> TAKE j \in 1 .. n
    <3>1. j - 1 \in Nat
      BY <1>1
    <3> QED
      BY <1>1, <3>1, TokenTypes
  <2>2. slices_of \in [1 .. n -> Tokens]
    BY <2>1, Zenon
  <2> HIDE DEF slices_of
  <2> QED
    BY <1>1, <2>2, FunctionSeq
<1>3. middle \in Seq(Tokens)
  <2>1. <<>> \in Seq(Tokens) /\ <<Whole(i)>> \in Seq(Tokens)
    BY <1>1, TokenTypes
  <2> HIDE DEF slices_of
  <2> QED
    BY <1>2, <2>1
<1>4. Node(i) = <<Open>> \o middle \o <<Close>>
  BY DEF Node
<1> HIDE DEF middle
<1> QED
  BY <1>3, <1>4, TokenTypes

(* The nodes of the first arguments, item by item.                         *)
LEMMA NodesTypes ==
  ASSUME argv \in Seq(Nat), NEW n \in 0 .. Len(argv)
  PROVE  /\ Nodes(n) \in Seq(Seq(Tokens)) /\ Len(Nodes(n)) = n + 1
         /\ Nodes(n)[1] = <<Prologue>>
         /\ \A k \in 1 .. n : Nodes(n)[k + 1] = Node(k - 1)
<1> DEFINE q == [k \in 1 .. n |-> Node(k - 1)]
           p == <<<<Prologue>>>>
<1>1. n \in Nat /\ Len(argv) \in Nat
  OBVIOUS
<1>2. \A k \in 1 .. n : Node(k - 1) \in Seq(Tokens)
  <2> TAKE k \in 1 .. n
  <2>1. k - 1 \in 0 .. Len(argv) - 1
    BY <1>1
  <2> QED
    BY <2>1, NodeTypes
<1>3. q \in Seq(Seq(Tokens)) /\ Len(q) = n /\ \A k \in 1 .. n : q[k] = Node(k - 1)
  BY <1>1, <1>2
<1>4. p \in Seq(Seq(Tokens)) /\ Len(p) = 1 /\ p[1] = <<Prologue>>
  BY TokenTypes
<1>5. Nodes(n) = p \o q
  BY DEF Nodes
<1> HIDE DEF p, q
<1>6. /\ p \o q \in Seq(Seq(Tokens)) /\ Len(p \o q) = n + 1
      /\ (p \o q)[1] = <<Prologue>>
      /\ \A k \in 1 .. n : (p \o q)[k + 1] = q[k]
  <2>1. /\ p \o q \in Seq(Seq(Tokens)) /\ Len(p \o q) = Len(p) + Len(q)
        /\ \A k \in 1 .. Len(p) : (p \o q)[k] = p[k]
        /\ \A k \in 1 .. Len(q) : (p \o q)[Len(p) + k] = q[k]
    BY <1>3, <1>4, ConcatenatedNodes, Zenon
  <2>2. \A k \in 1 .. n : 1 + k = k + 1
    BY <1>1
  <2>3. 1 \in 1 .. 1 /\ 1 + n = n + 1
    BY <1>1
  <2> QED
    BY <2>1, <2>2, <2>3, <1>3, <1>4
<1> QED
  BY <1>3, <1>5, <1>6

(* The nodes of a few more arguments.                                      *)
LEMMA NodesExtended ==
  ASSUME argv \in Seq(Nat), NEW n \in 0 .. Len(argv), NEW m \in n .. Len(argv),
         NEW u \in Seq(Seq(Tokens)), Len(u) = m - n,
         \A k \in 1 .. Len(u) : u[k] = Node(n + k - 1)
  PROVE  Nodes(n) \o u = Nodes(m)
<1> DEFINE s == Nodes(n)
           t == Nodes(m)
           w == s \o u
<1>1. n \in Nat /\ m \in Nat /\ m \in 0 .. Len(argv) /\ n <= m
  OBVIOUS
<1>2. /\ s \in Seq(Seq(Tokens)) /\ Len(s) = n + 1 /\ s[1] = <<Prologue>>
      /\ \A k \in 1 .. n : s[k + 1] = Node(k - 1)
  BY NodesTypes
<1>3. /\ t \in Seq(Seq(Tokens)) /\ Len(t) = m + 1 /\ t[1] = <<Prologue>>
      /\ \A k \in 1 .. m : t[k + 1] = Node(k - 1)
  BY <1>1, NodesTypes
<1> HIDE DEF s, t
<1>4. /\ w \in Seq(Seq(Tokens)) /\ Len(w) = m + 1
      /\ \A k \in 1 .. m + 1 : w[k] = IF k <= n + 1 THEN s[k] ELSE u[k - (n + 1)]
  <2>1. /\ w \in Seq(Seq(Tokens)) /\ Len(w) = Len(s) + Len(u)
        /\ \A k \in 1 .. Len(s) : w[k] = s[k]
        /\ \A k \in 1 .. Len(u) : w[Len(s) + k] = u[k]
    BY <1>2, ConcatenatedNodes, Zenon
  <2>2. Len(w) = m + 1
    BY <1>1, <1>2, <2>1
  <2>3. ASSUME NEW k \in 1 .. m + 1
        PROVE  w[k] = IF k <= n + 1 THEN s[k] ELSE u[k - (n + 1)]
    <3>1. CASE k <= n + 1
      BY <3>1, <1>1, <1>2, <2>1
    <3>2. CASE ~(k <= n + 1)
      <4>1. k - (n + 1) \in 1 .. m - n
        BY <3>2, <1>1
      <4>2. Len(s) + (k - (n + 1)) = k
        BY <1>1, <1>2
      <4> QED
        BY <3>2, <4>1, <4>2, <2>1
    <3> QED
      BY <3>1, <3>2
  <2> QED
    BY <2>1, <2>2, <2>3
<1> HIDE DEF w
<1>5. ASSUME NEW k \in 1 .. m + 1
      PROVE  w[k] = t[k]
  <2>1. CASE k = 1
    BY <2>1, <1>1, <1>2, <1>3, <1>4
  <2>2. CASE k # 1 /\ k <= n + 1
    <3>1. k - 1 \in 1 .. n /\ k - 1 \in 1 .. m /\ (k - 1) + 1 = k
      BY <2>2, <1>1
    <3> QED
      BY <2>2, <3>1, <1>2, <1>3, <1>4
  <2>3. CASE ~(k <= n + 1)
    <3>1. /\ k - 1 \in 1 .. m /\ (k - 1) + 1 = k
          /\ k - (n + 1) \in 1 .. Len(u) /\ n + (k - (n + 1)) - 1 = (k - 1) - 1
      BY <2>3, <1>1
    <3>2. u[k - (n + 1)] = Node((k - 1) - 1)
      BY <3>1
    <3> QED
      BY <2>3, <3>1, <3>2, <1>3, <1>4
  <2> QED
    BY <2>1, <2>2, <2>3
<1>6. w = t
  BY <1>1, <1>3, <1>4, <1>5, SameSeq
<1> QED
  BY <1>6 DEF w, s, t

-----------------------------------------------------------------------------
(* Fields.                                                                 *)

LEMMA FieldFacts ==
  ASSUME argv \in Seq(Nat), FieldOK
  PROVE  /\ next.kind \in {"argc", "arg", "len", "slice", "done"}
         /\ next.arg \in 0 .. Len(argv) /\ next.slice \in Nat
         /\ next.kind = "argc" => next.arg = 0
         /\ next.kind \in {"arg", "len", "slice"} => next.arg \in 0 .. Len(argv) - 1
         /\ next.kind = "arg" => argv[next.arg + 1] = 0
         /\ next.kind = "len" => argv[next.arg + 1] # 0
         /\ next.kind = "slice" => next.slice < argv[next.arg + 1]
         /\ next.kind = "done" => next.arg = Len(argv)
<1>1. Len(argv) \in Nat
  OBVIOUS
<1>2. CASE next = Field("argc", 0, 0)
  <2>1. next.kind = "argc" /\ next.arg = 0 /\ next.slice = 0
    BY <1>2 DEF Field
  <2> QED
    BY <2>1, <1>1
<1>3. CASE next = Field("done", Len(argv), 0)
  <2>1. next.kind = "done" /\ next.arg = Len(argv) /\ next.slice = 0
    BY <1>3 DEF Field
  <2> QED
    BY <2>1, <1>1
<1>4. ASSUME NEW i \in 0 .. Len(argv) - 1, next = Field("arg", i, 0), argv[i + 1] = 0
      PROVE  next.kind = "arg" /\ next.arg = i /\ next.slice = 0
  BY <1>4 DEF Field
<1>5. ASSUME NEW i \in 0 .. Len(argv) - 1, next = Field("len", i, 0), argv[i + 1] # 0
      PROVE  next.kind = "len" /\ next.arg = i /\ next.slice = 0
  BY <1>5 DEF Field
<1>6. ASSUME NEW i \in 0 .. Len(argv) - 1, NEW j \in 0 .. argv[i + 1] - 1,
             next = Field("slice", i, j)
      PROVE  next.kind = "slice" /\ next.arg = i /\ next.slice = j /\ j < argv[i + 1] /\ j \in Nat
  <2>1. argv[i + 1] \in Nat
    <3>1. i + 1 \in 1 .. Len(argv)
      BY <1>1
    <3> QED
      BY <3>1
  <2>2. next.kind = "slice" /\ next.arg = i /\ next.slice = j
    BY <1>6 DEF Field
  <2> QED
    BY <2>1, <2>2
<1>7. ASSUME NEW i \in 0 .. Len(argv) - 1
      PROVE  i \in 0 .. Len(argv)
  BY <1>1
<1> QED
  BY <1>1, <1>2, <1>3, <1>4, <1>5, <1>6, <1>7 DEF FieldOK

LEMMA FirstFieldFacts ==
  ASSUME argv \in Seq(Nat), NEW i \in 0 .. Len(argv)
  PROVE  /\ FirstField(i).kind \in {"arg", "len", "done"} /\ FirstField(i).arg = i
         /\ FirstField(i).slice = 0
BY DEF FirstField, Field

(* The kernel goes on with one field of the call after another.            *)
LEMMA NextFieldOK ==
  ASSUME argv \in Seq(Nat), FieldOK, next.kind # "done", next' = NextField, UNCHANGED argv
  PROVE  FieldOK'
<1>1. Len(argv) \in Nat
  OBVIOUS
<1>2. ASSUME NEW i \in 0 .. Len(argv), next' = FirstField(i)
      PROVE  FieldOK'
  <2>1. CASE i = Len(argv)
    BY <1>2, <2>1 DEF FirstField, FieldOK
  <2>2. CASE i # Len(argv)
    <3>1. i \in 0 .. Len(argv) - 1
      BY <1>1, <2>2
    <3>2. next' = IF argv[i + 1] = 0 THEN Field("arg", i, 0) ELSE Field("len", i, 0)
      BY <1>2, <2>2 DEF FirstField
    <3> QED
      BY <3>1, <3>2 DEF FieldOK
  <2> QED
    BY <2>1, <2>2
<1>3. /\ next.kind \in {"argc", "arg", "len", "slice"}
      /\ next.kind \in {"arg", "len", "slice"} => next.arg \in 0 .. Len(argv) - 1
      /\ next.kind = "len" => argv[next.arg + 1] # 0
      /\ next.kind = "slice" => next.slice \in Nat /\ next.slice < argv[next.arg + 1]
  BY FieldFacts
<1>4. next.kind \in {"arg", "len", "slice"} =>
        next.arg + 1 \in 0 .. Len(argv) /\ argv[next.arg + 1] \in Nat
  <2> SUFFICES ASSUME next.kind \in {"arg", "len", "slice"}
               PROVE  next.arg + 1 \in 0 .. Len(argv) /\ argv[next.arg + 1] \in Nat
    OBVIOUS
  <2>1. next.arg + 1 \in 1 .. Len(argv)
    BY <1>1, <1>3
  <2> QED
    BY <1>1, <2>1
<1>5. CASE next.kind = "argc"
  <2>1. 0 \in 0 .. Len(argv)
    BY <1>1
  <2> QED
    BY <1>2, <1>5, <2>1 DEF NextField
<1>6. CASE next.kind = "arg"
  BY <1>2, <1>4, <1>6 DEF NextField
<1>7. CASE next.kind = "len"
  <2>1. next' = Field("slice", next.arg, 0)
    BY <1>7 DEF NextField
  <2>2. 0 \in 0 .. argv[next.arg + 1] - 1
    BY <1>3, <1>4, <1>7
  <2> QED
    BY <1>3, <1>7, <2>1, <2>2 DEF FieldOK
<1>8. CASE next.kind = "slice" /\ next.slice + 1 < argv[next.arg + 1]
  <2>1. next' = Field("slice", next.arg, next.slice + 1)
    BY <1>8 DEF NextField
  <2>2. next.slice + 1 \in 0 .. argv[next.arg + 1] - 1
    BY <1>3, <1>4, <1>8
  <2> QED
    BY <1>3, <1>8, <2>1, <2>2 DEF FieldOK
<1>9. CASE next.kind = "slice" /\ ~(next.slice + 1 < argv[next.arg + 1])
  BY <1>2, <1>4, <1>9 DEF NextField
<1> QED
  BY <1>3, <1>5, <1>6, <1>7, <1>8, <1>9

-----------------------------------------------------------------------------
(* What the collector adds.                                                *)

(* The collector only takes a field if the event has not ended.            *)
LEMMA TakeFacts ==
  ASSUME ExecveInv, NEW kind \in {"argc", "arg", "len", "slice"}, Take(kind)
  PROVE  /\ rc = "OK" /\ ~losing /\ ended = FALSE /\ added = FALSE /\ next.kind = kind
         /\ next' = NextField
         /\ UNCHANGED <<argv, losing, skipped, events, ended, added>>
BY DEF ExecveInv, TypeOK, ShapeOK, Take

LEMMA BegunFacts ==
  ASSUME ExecveInv, rc = "OK", added = FALSE
  PROVE  /\ Begun \in Seq(Seq(Tokens)) /\ Len(Begun) = arg_idx + 1 /\ Placed(Begun)
         /\ Begun # <<>>
<1>1. tree \in Seq(Seq(Tokens)) /\ arg_idx \in Nat /\ text \in Seq(Tokens)
  BY DEF ExecveInv, TypeOK
<1>2. CASE tree = <<>>
  <2> DEFINE b == <<<<Prologue>>>>
  <2>1. Begun = b /\ arg_idx = 0
    BY <1>2 DEF Begun, ExecveInv, ShapeOK
  <2>2. b \in Seq(Seq(Tokens)) /\ Len(b) = 1 /\ b[1] = <<Prologue>>
    BY TokenTypes
  <2> HIDE DEF b
  <2>3. Sources(b[1]) \subseteq {1 - 2}
    BY <2>2, SourcesOfTokens
  <2>4. \A k \in 1 .. Len(b) : k = 1
    BY <2>2
  <2>5. Placed(b)
    BY <2>3, <2>4 DEF Placed
  <2>6. b # <<>>
    BY <2>2
  <2>7. Len(b) = arg_idx + 1
    BY <2>1, <2>2
  <2> QED
    BY <2>1, <2>2, <2>5, <2>6, <2>7
<1>3. CASE tree # <<>>
  <2>1. Begun = tree /\ Len(tree) = arg_idx + 1
    BY <1>3 DEF Begun, ExecveInv, ShapeOK
  <2>2. Placed(tree)
    BY DEF ExecveInv, OwnPlace, Placed
  <2> QED
    BY <1>1, <1>3, <2>1, <2>2
<1> QED
  BY <1>2, <1>3

LEMMA PaddingFacts ==
  ASSUME ExecveInv, rc = "OK", NEW i \in Nat, arg_idx <= i
  PROVE  /\ Padding(i) \in Seq(Seq(Tokens)) /\ Len(Padding(i)) = i - arg_idx
         /\ \A k \in 1 .. i - arg_idx :
              Padding(i)[k] = (IF k = 1 THEN text ELSE <<>>) \o <<Open, Close>>
         /\ \A k \in 1 .. i - arg_idx : Sources(Padding(i)[k]) \subseteq {arg_idx + k - 1}
<1>1. text \in Seq(Tokens) /\ arg_idx \in Nat /\ i - arg_idx \in Nat
  BY DEF ExecveInv, TypeOK
<1>2. Sources(text) \subseteq {arg_idx}
  BY DEF ExecveInv, OwnPlace
<1> DEFINE pad(k) == (IF k = 1 THEN text ELSE <<>>) \o <<Open, Close>>
<1>3. ASSUME NEW k \in 1 .. i - arg_idx
      PROVE  pad(k) \in Seq(Tokens) /\ Sources(pad(k)) \subseteq {arg_idx + k - 1}
  <2>1. <<Open, Close>> \in Seq(Tokens) /\ <<>> \in Seq(Tokens)
    BY TokenTypes
  <2>2. \A S : Sources(<<Open, Close>>) \subseteq S /\ Sources(<<>>) \subseteq S
    BY SourcesOfTokens
  <2>3. CASE k = 1
    <3>1. arg_idx + k - 1 = arg_idx
      BY <2>3, <1>1
    <3> QED
      BY <2>1, <2>2, <2>3, <3>1, <1>1, <1>2, SourcesOfParts
  <2>4. CASE k # 1
    BY <2>1, <2>2, <2>4, SourcesOfParts
  <2> QED
    BY <2>3, <2>4
<1>4. Padding(i) = [k \in 1 .. i - arg_idx |-> pad(k)]
  BY DEF Padding
<1> HIDE DEF pad
<1> DEFINE p == Padding(i)
<1>5. p \in [1 .. i - arg_idx -> Seq(Tokens)] /\ \A k \in 1 .. i - arg_idx : p[k] = pad(k)
  BY <1>3, <1>4
<1> HIDE DEF p
<1>6. p \in Seq(Seq(Tokens)) /\ Len(p) = i - arg_idx
  BY <1>1, <1>5, FunctionSeq
<1> QED
  BY <1>3, <1>5, <1>6 DEF p, pad

LEMMA TextAfterFacts ==
  ASSUME ExecveInv, rc = "OK", NEW i \in Nat
  PROVE  TextAfter(i) \in Seq(Tokens) /\ Sources(TextAfter(i)) \subseteq {i}
<1>1. text \in Seq(Tokens) /\ Sources(text) \subseteq {arg_idx}
  BY DEF ExecveInv, TypeOK, OwnPlace
<1>2. Sources(<<>>) \subseteq {i}
  BY SourcesOfTokens
<1> QED
  BY <1>1, <1>2 DEF TextAfter

-----------------------------------------------------------------------------
(* The inductive invariant: the kernel's steps.                            *)

(* The nodes of arguments that are skipped afterwards as they were before. *)
LEMMA NodesKept ==
  ASSUME NEW n \in Nat, UNCHANGED argv,
         \A i \in 0 .. n - 1 : i \in skipped' <=> i \in skipped
  PROVE  Nodes(n)' = Nodes(n)
<1>1. ASSUME NEW k \in 1 .. n
      PROVE  Node(k - 1)' = Node(k - 1)
  <2>1. k - 1 \in 0 .. n - 1
    OBVIOUS
  <2> QED
    BY <2>1 DEF Node
<1>2. [k \in 1 .. n |-> Node(k - 1)'] = [k \in 1 .. n |-> Node(k - 1)]
  BY <1>1
<1> QED
  BY <1>2 DEF Nodes

LEMMA CallTyped ==
  ASSUME NEW q, \E n \in 0 .. MaxArgs : q \in [1 .. n -> 0 .. MaxSlices]
  PROVE  q \in Seq(Nat)
<1>1. PICK n \in 0 .. MaxArgs : q \in [1 .. n -> 0 .. MaxSlices]
  OBVIOUS
<1>2. n \in Nat /\ 0 .. MaxSlices \subseteq Nat
  BY ExecveAssumption
<1>3. q \in [1 .. n -> Nat]
  BY <1>1, <1>2
<1> QED
  BY <1>2, <1>3, FunctionSeq

LEMMA InitExecve == Init => ExecveInv
<1> SUFFICES ASSUME Init PROVE ExecveInv
  OBVIOUS
<1>1. argv \in Seq(Nat)
  BY CallTyped DEF Init
<1>2. next.kind = "argc" /\ next.arg = 0
  BY DEF Init, Field
<1>3. FieldOK
  BY DEF Init, FieldOK
<1>4. TypeOK
  <2>1. <<>> \in Seq(Seq(Tokens)) /\ <<>> \in Seq(Tokens) /\ {} \in SUBSET Nat
    OBVIOUS
  <2> QED
    BY <1>1, <1>3, <2>1, Zenon DEF Init, TypeOK
<1>5. IsValid /\ ShapeOK
  BY DEF Init, IsValid, ShapeOK
<1>6. OwnPlace
  <2>1. Len(tree) = 0 /\ text = <<>> /\ Sources(<<>>) \subseteq {arg_idx}
    BY SourcesOfTokens DEF Init
  <2> QED
    BY <2>1 DEF OwnPlace
<1>7. IntactOK /\ IntactComplete
  BY <1>2 DEF Init, IntactOK, IntactComplete
<1> QED
  BY <1>4, <1>5, <1>6, <1>7 DEF ExecveInv

LEMMA EmptyExecve ==
  ASSUME ExecveInv, Empty
  PROVE  ExecveInv'
<1>1. argv' \in Seq(Nat)
  BY CallTyped DEF Empty, NewCall
<1>2. next' = Field("argc", 0, 0) /\ next'.kind = "argc" /\ next'.arg = 0
  BY DEF Empty, NewCall, Field
<1>3. FieldOK'
  BY <1>2 DEF FieldOK
<1>4. TypeOK'
  <2>1. <<>> \in Seq(Seq(Tokens)) /\ <<>> \in Seq(Tokens) /\ {} \in SUBSET Nat
    OBVIOUS
  <2>2. events' \in Nat
    BY DEF ExecveInv, TypeOK, Empty
  <2> QED
    BY <1>1, <1>3, <2>1, <2>2 DEF Empty, NewCall, TypeOK
<1>5. IsValid' /\ ShapeOK'
  BY DEF Empty, IsValid, ShapeOK
<1>6. OwnPlace'
  BY SourcesOfTokens DEF Empty, OwnPlace
<1>7. IntactOK' /\ IntactComplete'
  BY <1>2 DEF Empty, NewCall, IntactOK, IntactComplete
<1> QED
  BY <1>4, <1>5, <1>6, <1>7 DEF ExecveInv

(* A step that leaves the collector as it is.                              *)
LEMMA SameArguments ==
  ASSUME IsValid, OwnPlace,
         UNCHANGED <<arg_num, arg_idx, got_len, slice_idx, len_total, len_read, tree, text, rc>>
  PROVE  IsValid' /\ OwnPlace'
BY DEF IsValid, OwnPlace, Sources

LEMMA NewRecordExecve ==
  ASSUME ExecveInv, NewRecord
  PROVE  ExecveInv'
<1> USE DEF NewRecord, arg, slices
<1>1. TypeOK'
  BY DEF ExecveInv, TypeOK, FieldOK
<1>2. IsValid' /\ ShapeOK' /\ OwnPlace'
  BY DEF ExecveInv, IsValid, ShapeOK, OwnPlace, Sources
<1>3. IntactOK'
  BY DEF ExecveInv, IntactOK, Nodes, Node, Begins
<1>4. IntactComplete'
  BY DEF ExecveInv, IntactComplete, Complete, Nodes, Node
<1> QED
  BY <1>1, <1>2, <1>3, <1>4 DEF ExecveInv

LEMMA LoseExecve ==
  ASSUME ExecveInv, Lose
  PROVE  ExecveInv'
<1> USE DEF Lose, arg, slices
<1>1. TypeOK'
  <2>1. FieldOK'
    BY NextFieldOK DEF ExecveInv, TypeOK
  <2> QED
    BY <2>1 DEF ExecveInv, TypeOK
<1>2. ended = FALSE
  BY DEF ExecveInv, TypeOK, ShapeOK
<1>3. IsValid' /\ ShapeOK' /\ OwnPlace'
  BY <1>2 DEF ExecveInv, IsValid, ShapeOK, OwnPlace, Sources
<1>4. IntactOK' /\ IntactComplete'
  BY DEF IntactOK, IntactComplete
<1> QED
  BY <1>1, <1>3, <1>4 DEF ExecveInv

LEMMA LeaveOutExecve ==
  ASSUME ExecveInv, LeaveOut
  PROVE  ExecveInv'
<1> USE DEF LeaveOut, arg, slices
<1>1. /\ argv \in Seq(Nat) /\ Len(argv) \in Nat /\ FieldOK /\ arg_idx \in Nat
      /\ ended \in BOOLEAN /\ intact \in BOOLEAN /\ skipped \subseteq Nat
  BY DEF ExecveInv, TypeOK
<1>2. next.arg \in 0 .. Len(argv) - 1 /\ next.arg + 1 \in 0 .. Len(argv) /\ argv[next.arg + 1] = 0
  BY <1>1, FieldFacts
<1>3. next' = FirstField(next.arg + 1)
  BY DEF NextField
<1>4. next'.kind \in {"arg", "len", "done"} /\ next'.arg = next.arg + 1
  BY <1>1, <1>2, <1>3, FirstFieldFacts
<1>5. ended = FALSE
  BY <1>1 DEF ExecveInv, ShapeOK
<1>6. TypeOK'
  <2>1. FieldOK'
    BY <1>1, NextFieldOK
  <2>2. skipped' \in SUBSET Nat
    <3>1. next.arg \in Nat /\ skipped' = skipped \union {next.arg}
      BY <1>1, <1>2
    <3> QED
      BY <1>1, <3>1
  <2> QED
    BY <2>1, <2>2 DEF ExecveInv, TypeOK
<1>7. IsValid' /\ ShapeOK' /\ OwnPlace'
  <2>1. UNCHANGED <<argv, arg_num, arg_idx, got_len, slice_idx, len_total, len_read,
                    tree, text, ended, added, rc>>
    OBVIOUS
  <2>2. IsValid' /\ OwnPlace'
    BY <2>1, SameArguments DEF ExecveInv
  <2>3. ShapeOK /\ ended' = FALSE
    BY <1>5, <2>1 DEF ExecveInv
  <2> QED
    BY <2>1, <2>2, <2>3 DEF ShapeOK
<1>8. ASSUME intact PROVE rc = "OK" /\ IntactOK'
  <2>1. /\ rc = "OK" /\ arg_num = Len(argv) /\ tree = Nodes(arg_idx) /\ arg_idx <= next.arg
        /\ \A i \in skipped : i < next.arg /\ argv[i + 1] = 0
        /\ arg_idx .. next.arg - 1 \subseteq skipped
        /\ ~got_len /\ slice_idx = 0 /\ len_total = 0 /\ len_read = 0 /\ text = <<>>
    BY <1>5, <1>8 DEF ExecveInv, IntactOK
  <2>2. \A i \in skipped' : i < next.arg + 1 /\ argv[i + 1] = 0
    BY <1>1, <1>2, <2>1
  <2>3. arg_idx .. (next.arg + 1) - 1 \subseteq skipped' /\ arg_idx <= next.arg + 1
    BY <1>1, <1>2, <2>1
  <2>4. Nodes(arg_idx)' = Nodes(arg_idx)
    <3>1. \A i \in 0 .. arg_idx - 1 : i # next.arg
      BY <1>1, <1>2, <2>1
    <3>2. \A n \in Nat : (\A i \in 0 .. n - 1 : i # next.arg) => Nodes(n)' = Nodes(n)
      BY NodesKept
    <3> QED
      BY <1>1, <3>1, <3>2
  <2> QED
    BY <1>4, <2>1, <2>2, <2>3, <2>4 DEF IntactOK
<1>9. IntactOK' /\ IntactComplete'
  BY <1>1, <1>5, <1>8 DEF IntactOK, IntactComplete
<1> QED
  BY <1>6, <1>7, <1>9 DEF ExecveInv

-----------------------------------------------------------------------------
(* The inductive invariant: fields the collector does not accept.          *)

(* After an error there is nothing to say but that the fields are valid.   *)
LEMMA Stopped ==
  ASSUME ExecveInv, ended = FALSE, added = FALSE,
         TypeOK', IsValid', rc' # "OK", intact' = FALSE, arg_num' = arg_num,
         tree' # <<>>, UNCHANGED <<argv, ended, added>>
  PROVE  ExecveInv'
<1>1. ShapeOK'
  BY DEF ExecveInv, ShapeOK
<1>2. OwnPlace' /\ IntactOK' /\ IntactComplete'
  BY DEF OwnPlace, IntactOK, IntactComplete
<1> QED
  BY <1>1, <1>2 DEF ExecveInv

LEMMA RejectExecve ==
  ASSUME ExecveInv, NEW kind \in {"argc", "arg", "len", "slice"}, Take(kind), Reject,
         intact = FALSE
  PROVE  ExecveInv'
<1>1. /\ rc = "OK" /\ ended = FALSE /\ added = FALSE /\ next.kind = kind
      /\ next' = NextField /\ UNCHANGED <<argv, losing, skipped, events, ended, added>>
  BY TakeFacts
<1>2. /\ rc' = "INVALID_EXECVE" /\ tree' = Begun
      /\ UNCHANGED <<intact, arg_num, arg_idx, got_len, slice_idx, len_total, len_read, text>>
  BY DEF Reject, arg, slices
<1>3. Begun \in Seq(Seq(Tokens)) /\ Begun # <<>>
  BY <1>1, BegunFacts
<1>4. FieldOK'
  <2>1. next.kind # "done"
    BY <1>1
  <2> QED
    BY <1>1, <2>1, NextFieldOK DEF ExecveInv, TypeOK
<1>5. TypeOK'
  BY <1>1, <1>2, <1>3, <1>4 DEF ExecveInv, TypeOK
<1>6. IsValid'
  BY <1>2 DEF ExecveInv, IsValid
<1> QED
  BY <1>1, <1>2, <1>3, <1>5, <1>6, Stopped

(* What failing leaves behind: some of the skipped arguments.              *)
LEMMA AddFailsExecve ==
  ASSUME ExecveInv, AddFails
  PROVE  ExecveInv'
<1>1. PICK kind \in {"argc", "arg", "len", "slice"} : Take(kind)
  BY DEF AddFails
<1>2. /\ rc = "OK" /\ ended = FALSE /\ added = FALSE /\ next.kind = kind
      /\ next' = NextField /\ UNCHANGED <<argv, losing, skipped, events, ended, added>>
  BY <1>1, TakeFacts
<1>3. /\ argv \in Seq(Nat) /\ FieldOK /\ arg_num \in Nat /\ arg_idx \in Nat
      /\ got_len \in BOOLEAN /\ slice_idx \in Nat /\ len_total \in Nat /\ len_read \in Nat
      /\ text \in Seq(Tokens)
  BY DEF ExecveInv, TypeOK
<1>4. next.arg \in Nat
  BY <1>3, FieldFacts
<1> DEFINE pad == IF next.kind \in {"arg", "len"} /\ InRange(next.arg)
                  THEN Padding(next.arg) ELSE <<>>
<1>5. /\ pad \in Seq(Seq(Tokens)) /\ Len(pad) \in Nat
      /\ Len(pad) # 0 => arg_idx + Len(pad) <= arg_num
  <2>1. CASE next.kind \in {"arg", "len"} /\ InRange(next.arg)
    <3>1. arg_idx <= next.arg /\ next.arg < arg_num /\ pad = Padding(next.arg)
      BY <2>1 DEF InRange
    <3>2. Padding(next.arg) \in Seq(Seq(Tokens)) /\ Len(Padding(next.arg)) = next.arg - arg_idx
      BY <1>2, <1>4, <3>1, PaddingFacts
    <3> QED
      BY <1>3, <1>4, <3>1, <3>2
  <2>2. CASE ~(next.kind \in {"arg", "len"} /\ InRange(next.arg))
    <3>1. pad = <<>>
      BY <2>2
    <3> HIDE DEF pad
    <3> QED
      BY <3>1
  <2> QED
    BY <2>1, <2>2
<1>6. PICK k \in 0 .. Len(pad) :
        LET t == IF k = 0 THEN text ELSE <<>>
        IN  /\ tree' = Begun \o SubSeq(pad, 1, k)
            /\ arg_idx' = arg_idx + k
            /\ text' \in {t, Append(t, Open)}
  BY DEF AddFails
<1> HIDE DEF pad
<1>7. Begun \in Seq(Seq(Tokens)) /\ Len(Begun) = arg_idx + 1
  BY <1>2, BegunFacts
<1>8. tree' \in Seq(Seq(Tokens)) /\ tree' # <<>>
  <2> DEFINE p == SubSeq(pad, 1, k)
  <2>1. p \in Seq(Seq(Tokens))
    BY <1>5
  <2> HIDE DEF p
  <2>2. Begun \o p \in Seq(Seq(Tokens)) /\ Len(Begun \o p) = Len(Begun) + Len(p) /\ Len(p) \in Nat
    BY <2>1, <1>7, ConcatenatedNodes
  <2>3. Len(Begun \o p) # 0
    BY <2>2, <1>3, <1>7
  <2>4. tree' = Begun \o p
    BY <1>6 DEF p
  <2> QED
    BY <2>2, <2>3, <2>4
<1>9. arg_idx' \in Nat /\ arg_idx' <= arg_num
  <2>1. arg_idx <= arg_num
    BY DEF ExecveInv, IsValid
  <2> QED
    BY <2>1, <1>3, <1>5, <1>6
<1>10. text' \in Seq(Tokens)
  <2>1. text' \in {text, Append(text, Open), <<>>, Append(<<>>, Open)}
    BY <1>6
  <2>2. Append(text, Open) \in Seq(Tokens) /\ Append(<<>>, Open) \in Seq(Tokens)
    BY <1>3, TokenTypes
  <2>3. <<>> \in Seq(Tokens)
    OBVIOUS
  <2> QED
    BY <1>3, <2>1, <2>2, <2>3, Zenon
<1>11. /\ rc' \in {"NOMEM", "AUPARSE_FAILED", "INVALID_EXECVE"} /\ intact' = FALSE
       /\ got_len' \in {got_len, got_len \/ next.kind = "len"}
       /\ len_read' \in {len_read} \union
                        IF next.kind = "slice" /\ InSequence THEN {len_read + 1} ELSE {}
       /\ UNCHANGED <<arg_num, slice_idx, len_total>>
  BY DEF AddFails
<1>12. got_len' \in BOOLEAN /\ (got_len => got_len')
  BY <1>3, <1>11
<1>13. len_read' \in Nat /\ len_read' <= len_total
  <2>1. len_read <= len_total
    BY DEF ExecveInv, IsValid
  <2> QED
    BY <2>1, <1>3, <1>11 DEF InSequence
<1>14. FieldOK'
  <2>1. next.kind # "done"
    BY <1>2
  <2> QED
    BY <1>2, <1>3, <2>1, NextFieldOK
<1>15. TypeOK'
  BY <1>2, <1>8, <1>9, <1>10, <1>11, <1>12, <1>13, <1>14 DEF ExecveInv, TypeOK
<1>16. IsValid'
  BY <1>9, <1>11, <1>12, <1>13 DEF ExecveInv, IsValid
<1>17. rc' # "OK"
  BY <1>11
<1> QED
  BY <1>2, <1>8, <1>11, <1>15, <1>16, <1>17, Stopped

-----------------------------------------------------------------------------
(* The inductive invariant: fields the collector accepts.                  *)

(* After a field that was accepted, every argument has its node.           *)
LEMMA Accepted ==
  ASSUME ExecveInv, ended = FALSE, added = FALSE, UNCHANGED <<argv, ended, added>>,
         TypeOK', IsValid', rc' = "OK", intact' = intact, arg_num' \in {0, Len(argv)},
         Len(tree') = arg_idx' + 1, Placed(tree'), Sources(text') \subseteq {arg_idx'},
         intact => IntactOK'
  PROVE  ExecveInv'
<1>1. tree' # <<>>
  <2>1. arg_idx' \in Nat
    BY DEF TypeOK
  <2>2. arg_idx' + 1 # 0
    <3>1. \A n \in Nat : n + 1 # 0
      OBVIOUS
    <3> QED
      BY <2>1, <3>1, Zenon
  <2>3. Len(tree') # 0
    BY <2>2, Zenon
  <2> QED
    BY <2>3
<1>2. ShapeOK'
  BY <1>1 DEF ExecveInv, ShapeOK
<1>3. OwnPlace'
  BY DEF OwnPlace, Placed
<1>4. IntactOK' /\ IntactComplete'
  BY DEF IntactOK, IntactComplete
<1> QED
  BY <1>2, <1>3, <1>4 DEF ExecveInv

(* If nothing was lost, the nodes so far are those of the arguments.       *)
LEMMA IntactSoFar ==
  ASSUME ExecveInv, ended = FALSE, intact
  PROVE  /\ rc = "OK"
         /\ \A i \in skipped : i < next.arg /\ argv[i + 1] = 0
         /\ arg_idx <= next.arg /\ arg_idx .. next.arg - 1 \subseteq skipped
         /\ next.kind = "argc" => arg_num = 0 /\ arg_idx = 0 /\ tree = <<>>
         /\ Begun = Nodes(arg_idx)
         /\ next.kind # "argc" => arg_num = Len(argv)
         /\ next.kind = "slice" =>
              /\ arg_idx = next.arg /\ got_len
              /\ slice_idx = next.slice /\ len_read = next.slice
              /\ len_total = argv[arg_idx + 1]
              /\ text = Begins(arg_idx, next.slice)
         /\ next.kind # "slice" =>
              ~got_len /\ slice_idx = 0 /\ len_total = 0 /\ len_read = 0 /\ text = <<>>
<1>1. /\ rc = "OK"
      /\ \A i \in skipped : i < next.arg /\ argv[i + 1] = 0
      /\ arg_idx <= next.arg /\ arg_idx .. next.arg - 1 \subseteq skipped
      /\ next.kind = "argc" => arg_num = 0 /\ tree = <<>>
      /\ next.kind # "argc" => arg_num = Len(argv) /\ tree = Nodes(arg_idx)
      /\ next.kind = "slice" =>
           /\ arg_idx = next.arg /\ got_len
           /\ slice_idx = next.slice /\ len_read = next.slice
           /\ len_total = argv[arg_idx + 1]
           /\ text = Begins(arg_idx, next.slice)
      /\ next.kind # "slice" =>
           ~got_len /\ slice_idx = 0 /\ len_total = 0 /\ len_read = 0 /\ text = <<>>
  BY DEF ExecveInv, IntactOK
<1>2. argv \in Seq(Nat) /\ FieldOK /\ arg_idx \in Nat
  BY DEF ExecveInv, TypeOK
<1>3. next.arg \in 0 .. Len(argv) /\ Len(argv) \in Nat /\ (next.kind = "argc" => next.arg = 0)
  BY <1>2, FieldFacts
<1>4. arg_idx \in 0 .. Len(argv) /\ (next.kind = "argc" => arg_idx = 0)
  BY <1>1, <1>2, <1>3
<1>5. Begun = Nodes(arg_idx)
  <2>1. CASE next.kind = "argc"
    <3>1. Nodes(0) = <<<<Prologue>>>>
      <4> DEFINE e == [k \in 1 .. 0 |-> Node(k - 1)]
      <4>1. e = <<>>
        OBVIOUS
      <4> HIDE DEF e
      <4>2. Nodes(0) = <<<<Prologue>>>> \o e
        BY DEF Nodes, e
      <4>3. <<<<Prologue>>>> \in Seq(Seq(Tokens))
        BY TokenTypes
      <4> QED
        BY <4>1, <4>2, <4>3
    <3> QED
      BY <2>1, <3>1, <1>1, <1>4 DEF Begun
  <2>2. CASE next.kind # "argc"
    <3>1. Nodes(arg_idx) # <<>>
      <4>1. Nodes(arg_idx) \in Seq(Seq(Tokens)) /\ Len(Nodes(arg_idx)) = arg_idx + 1
        BY <1>2, <1>4, NodesTypes
      <4>2. Len(Nodes(arg_idx)) # 0
        BY <4>1, <1>2
      <4> QED
        BY <4>1, <4>2
    <3> QED
      BY <2>2, <3>1, <1>1 DEF Begun
  <2> QED
    BY <2>1, <2>2
<1> QED
  BY <1>1, <1>4, <1>5

(* The nodes of the arguments that were skipped.                           *)
LEMMA IntactPadding ==
  ASSUME ExecveInv, ended = FALSE, intact, next.kind \in {"arg", "len"}
  PROVE  \A k \in 1 .. next.arg - arg_idx : Padding(next.arg)[k] = Node(arg_idx + k - 1)
<1>1. /\ rc = "OK" /\ arg_idx <= next.arg /\ arg_idx .. next.arg - 1 \subseteq skipped
      /\ text = <<>>
  BY IntactSoFar
<1>2. argv \in Seq(Nat) /\ FieldOK /\ arg_idx \in Nat
  BY DEF ExecveInv, TypeOK
<1>3. next.arg \in Nat
  BY <1>2, FieldFacts
<1> SUFFICES ASSUME NEW k \in 1 .. next.arg - arg_idx
             PROVE  Padding(next.arg)[k] = Node(arg_idx + k - 1)
  OBVIOUS
<1>4. Padding(next.arg)[k] = (IF k = 1 THEN text ELSE <<>>) \o <<Open, Close>>
  BY <1>1, <1>3, PaddingFacts
<1>5. arg_idx + k - 1 \in skipped
  <2>1. arg_idx + k - 1 \in arg_idx .. next.arg - 1
    BY <1>2, <1>3
  <2> QED
    BY <2>1, <1>1
<1>6. Node(arg_idx + k - 1) = <<Open>> \o <<>> \o <<Close>>
  BY <1>5 DEF Node
<1>7. <<>> \o <<Open, Close>> = <<Open, Close>> /\ <<Open>> \o <<Close>> = <<Open, Close>>
  BY TokenTypes, Pairs, Zenon
<1>8. <<Open>> \o <<>> = <<Open>>
  BY TokenTypes
<1> QED
  BY <1>1, <1>4, <1>6, <1>7, <1>8, Zenon

LEMMA AddArgcExecve ==
  ASSUME ExecveInv, AddArgc
  PROVE  ExecveInv'
<1>1. Take("argc")
  BY DEF AddArgc
<1>2. /\ rc = "OK" /\ ended = FALSE /\ added = FALSE /\ next.kind = "argc"
      /\ next' = NextField /\ UNCHANGED <<argv, losing, skipped, events, ended, added>>
  BY <1>1, TakeFacts
<1>3. /\ argv \in Seq(Nat) /\ Len(argv) \in Nat /\ FieldOK /\ arg_idx \in Nat /\ arg_num \in Nat
      /\ intact \in BOOLEAN
  BY DEF ExecveInv, TypeOK
<1>4. next' = FirstField(0) /\ next'.kind \in {"arg", "len", "done"} /\ next'.arg = 0
  <2>1. next' = FirstField(0)
    BY <1>2 DEF NextField
  <2>2. 0 \in 0 .. Len(argv)
    BY <1>3
  <2> QED
    BY <1>3, <2>1, <2>2, FirstFieldFacts
<1>5. CASE arg_num # 0 /\ Reject
  <2>1. intact = FALSE
    BY <1>2, <1>3, <1>5, IntactSoFar
  <2> QED
    BY <1>1, <1>5, <2>1, RejectExecve
<1>6. CASE arg_num = 0 /\ arg_num' = Len(argv) /\ Accept(Begun) /\ UNCHANGED <<arg_idx, slices, text>>
  <2>1. /\ tree' = Begun /\ rc' = rc /\ intact' = intact /\ arg_num' = Len(argv)
        /\ UNCHANGED <<arg_idx, got_len, slice_idx, len_total, len_read, text>>
    BY <1>6 DEF Accept, slices
  <2>2. Begun \in Seq(Seq(Tokens)) /\ Len(Begun) = arg_idx + 1 /\ Placed(Begun)
    BY <1>2, BegunFacts
  <2>3. FieldOK'
    <3>1. next.kind # "done"
      BY <1>2
    <3> QED
      BY <1>2, <1>3, <3>1, NextFieldOK
  <2>4. TypeOK'
    BY <1>2, <1>3, <2>1, <2>2, <2>3 DEF ExecveInv, TypeOK
  <2>5. IsValid'
    <3>1. arg_idx <= arg_num /\ arg_idx' = arg_idx /\ arg_num = 0
      BY <1>6, <2>1 DEF ExecveInv, IsValid
    <3>2. arg_idx' <= arg_num'
      BY <3>1, <1>3, <2>1
    <3> QED
      BY <2>1, <3>2 DEF ExecveInv, IsValid
  <2>6. Sources(text) \subseteq {arg_idx}
    BY <1>2 DEF ExecveInv, OwnPlace
  <2>7. ASSUME intact PROVE IntactOK'
    <3>1. /\ \A i \in skipped : i < 0 /\ argv[i + 1] = 0
          /\ arg_idx = 0 /\ Begun = Nodes(arg_idx)
          /\ ~got_len /\ slice_idx = 0 /\ len_total = 0 /\ len_read = 0 /\ text = <<>>
      <4>1. next.arg = 0 /\ next.kind # "slice"
        BY <1>2, <1>3, FieldFacts
      <4> QED
        BY <4>1, <1>2, <2>7, IntactSoFar
    <3>2. Nodes(arg_idx)' = Nodes(arg_idx)
      <4>1. \A n \in Nat : Nodes(n)' = Nodes(n)
        BY <1>2, NodesKept
      <4> QED
        BY <4>1, <1>3, <2>1
    <3>3. 0 .. 0 - 1 \subseteq skipped /\ 0 <= 0
      OBVIOUS
    <3> QED
      BY <1>2, <1>4, <2>1, <3>1, <3>2, <3>3 DEF IntactOK
  <2>8. arg_num' \in {0, Len(argv)} /\ rc' = "OK" /\ Len(tree') = arg_idx' + 1
    BY <1>2, <2>1, <2>2
  <2>9. Placed(tree') /\ Sources(text') \subseteq {arg_idx'}
    BY <2>1, <2>2, <2>6
  <2> QED
    BY <1>2, <2>1, <2>4, <2>5, <2>7, <2>8, <2>9, Accepted
<1> QED
  BY <1>5, <1>6 DEF AddArgc

LEMMA AddArgExecve ==
  ASSUME ExecveInv, AddArg
  PROVE  ExecveInv'
<1> DEFINE i == next.arg
           last == TextAfter(i) \o <<Open, Whole(i), Close>>
           u == Append(Padding(i), last)
<1>1. Take("arg")
  BY DEF AddArg
<1>2. /\ rc = "OK" /\ ended = FALSE /\ added = FALSE /\ next.kind = "arg"
      /\ next' = NextField /\ UNCHANGED <<argv, losing, skipped, events, ended, added>>
  BY <1>1, TakeFacts
<1>3. /\ argv \in Seq(Nat) /\ Len(argv) \in Nat /\ FieldOK /\ arg_idx \in Nat /\ arg_num \in Nat
      /\ intact \in BOOLEAN
  BY DEF ExecveInv, TypeOK
<1>4. i \in 0 .. Len(argv) - 1 /\ i \in Nat /\ i + 1 \in 0 .. Len(argv) /\ argv[i + 1] = 0
  BY <1>2, <1>3, FieldFacts
<1>5. next'.kind \in {"arg", "len", "done"} /\ next'.arg = i + 1
  <2>1. next' = FirstField(i + 1)
    BY <1>2 DEF NextField
  <2> QED
    BY <1>3, <1>4, <2>1, FirstFieldFacts
<1>6. CASE ~InRange(i) /\ Reject
  <2>1. intact = FALSE
    <3> SUFFICES ASSUME intact PROVE InRange(i)
      BY <1>3, <1>6
    <3>1. arg_num = Len(argv) /\ arg_idx <= i
      BY <1>2, IntactSoFar
    <3> QED
      BY <3>1, <1>3, <1>4 DEF InRange
  <2> QED
    BY <1>1, <1>6, <2>1, RejectExecve
<1>7. CASE /\ InRange(i) /\ Accept(Begun \o u) /\ text' = <<>> /\ arg_idx' = i + 1
           /\ UNCHANGED <<arg_num, slices>>
  <2>1. /\ tree' = Begun \o u /\ rc' = rc /\ intact' = intact /\ text' = <<>> /\ arg_idx' = i + 1
        /\ UNCHANGED <<arg_num, got_len, slice_idx, len_total, len_read>>
        /\ arg_idx <= i /\ i < arg_num
    BY <1>7 DEF Accept, slices, InRange
  <2>2. Begun \in Seq(Seq(Tokens)) /\ Len(Begun) = arg_idx + 1 /\ Placed(Begun)
    BY <1>2, BegunFacts
  <2>3. /\ Padding(i) \in Seq(Seq(Tokens)) /\ Len(Padding(i)) = i - arg_idx
        /\ \A k \in 1 .. i - arg_idx : Sources(Padding(i)[k]) \subseteq {arg_idx + k - 1}
    BY <1>2, <1>4, <2>1, PaddingFacts
  <2>4. last \in Seq(Tokens) /\ Sources(last) \subseteq {i}
    <3>1. <<Open, Whole(i), Close>> \in Seq(Tokens)
      BY <1>4, TokenTypes
    <3>2. Sources(<<Open, Whole(i), Close>>) \subseteq {i}
      BY <1>4, SourcesOfTokens
    <3>3. TextAfter(i) \in Seq(Tokens) /\ Sources(TextAfter(i)) \subseteq {i}
      BY <1>2, <1>4, TextAfterFacts
    <3> QED
      BY <3>1, <3>2, <3>3, SourcesOfParts
  <2> HIDE DEF last
  <2>5. /\ u \in Seq(Seq(Tokens)) /\ Len(u) = (i - arg_idx) + 1
        /\ \A k \in 1 .. i - arg_idx : u[k] = Padding(i)[k]
        /\ u[(i - arg_idx) + 1] = last
    <3> DEFINE p == Padding(i)
    <3>1. p \in Seq(Seq(Tokens)) /\ Len(p) = i - arg_idx
      BY <2>3
    <3> HIDE DEF p
    <3>2. /\ Append(p, last) \in Seq(Seq(Tokens)) /\ Len(Append(p, last)) = Len(p) + 1
          /\ \A k \in 1 .. Len(p) : Append(p, last)[k] = p[k]
          /\ Append(p, last)[Len(p) + 1] = last
      BY <3>1, <2>4
    <3> QED
      BY <3>1, <3>2, Zenon DEF p
  <2>6. \A k \in 1 .. Len(u) : k \in 1 .. i - arg_idx \/ k = (i - arg_idx) + 1
    <3> DEFINE d == i - arg_idx
    <3>1. d \in Nat
      BY <1>3, <1>4, <2>1
    <3>2. Len(u) = d + 1
      BY <2>5
    <3> HIDE DEF d, u
    <3>3. \A k \in 1 .. Len(u) : k \in 1 .. d \/ k = d + 1
      BY <3>1, <3>2
    <3> QED
      BY <3>3 DEF d
  <2> HIDE DEF u
  <2>7. \A k \in 1 .. Len(u) : Sources(u[k]) \subseteq {Len(Begun) + k - 2}
    <3> TAKE k \in 1 .. Len(u)
    <3>1. Len(Begun) + k - 2 = arg_idx + k - 1
      BY <1>3, <1>4, <2>1, <2>2, <2>5
    <3>2. CASE k \in 1 .. i - arg_idx
      BY <3>1, <3>2, <2>3, <2>5
    <3>3. CASE k = (i - arg_idx) + 1
      <4>1. arg_idx + k - 1 = i
        BY <3>3, <1>3, <1>4
      <4> QED
        BY <3>1, <3>3, <4>1, <2>4, <2>5
    <3> QED
      BY <3>2, <3>3, <2>6
  <2>8. tree' \in Seq(Seq(Tokens)) /\ Len(tree') = (arg_idx + 1) + ((i - arg_idx) + 1) /\ Placed(tree')
    <3>1. /\ Begun \o u \in Seq(Seq(Tokens)) /\ Len(Begun \o u) = Len(Begun) + Len(u)
          /\ Placed(Begun \o u)
      BY <2>2, <2>5, <2>7, PlacedTogether
    <3> QED
      BY <3>1, <2>1, <2>2, <2>5
  <2>9. Len(tree') = arg_idx' + 1
    <3>1. \A x, y \in Nat : (x + 1) + ((y - x) + 1) = (y + 1) + 1
      OBVIOUS
    <3>2. Len(tree') = (i + 1) + 1
      BY <3>1, <1>3, <1>4, <2>8, Zenon
    <3> QED
      BY <3>2, <2>1
  <2>10. FieldOK'
    <3>1. next.kind # "done"
      BY <1>2
    <3> QED
      BY <1>2, <1>3, <3>1, NextFieldOK
  <2>11. TypeOK'
    <3>1. <<>> \in Seq(Tokens) /\ i + 1 \in Nat
      BY <1>4
    <3> QED
      BY <3>1, <1>2, <1>3, <2>1, <2>8, <2>10 DEF ExecveInv, TypeOK
  <2>12. IsValid'
    <3>1. arg_idx' <= arg_num'
      BY <1>3, <1>4, <2>1
    <3> QED
      BY <2>1, <3>1 DEF ExecveInv, IsValid
  <2>13. ASSUME intact PROVE IntactOK'
    <3>1. /\ \A k \in skipped : k < i /\ argv[k + 1] = 0
          /\ arg_idx .. i - 1 \subseteq skipped
          /\ Begun = Nodes(arg_idx) /\ arg_num = Len(argv)
          /\ ~got_len /\ slice_idx = 0 /\ len_total = 0 /\ len_read = 0 /\ text = <<>>
      BY <1>2, <2>13, IntactSoFar
    <3>2. last = Node(i)
      <4>1. i \notin skipped
        BY <3>1, <1>4
      <4>2. Node(i) = <<Open>> \o <<Whole(i)>> \o <<Close>>
        BY <4>1, <1>4 DEF Node
      <4>3. last = <<>> \o <<Open, Whole(i), Close>>
        BY <3>1 DEF TextAfter, last
      <4> QED
        BY <4>2, <4>3, <1>4, TokenTypes, Triples, Zenon
    <3>3. \A k \in 1 .. i - arg_idx : Padding(i)[k] = Node(arg_idx + k - 1)
      BY <1>2, <2>13, IntactPadding
    <3>4. \A k \in 1 .. Len(u) : u[k] = Node(arg_idx + k - 1)
      <4> TAKE k \in 1 .. Len(u)
      <4>1. CASE k \in 1 .. i - arg_idx
        BY <4>1, <3>3, <2>5
      <4>2. CASE k = (i - arg_idx) + 1
        <5>1. arg_idx + k - 1 = i
          BY <4>2, <1>3, <1>4
        <5> QED
          BY <4>2, <5>1, <3>2, <2>5
      <4> QED
        BY <4>1, <4>2, <2>6
    <3>5. Begun \o u = Nodes(i + 1)
      <4>1. arg_idx \in 0 .. Len(argv) /\ i + 1 \in arg_idx .. Len(argv)
        BY <1>3, <1>4, <2>1
      <4>2. Len(u) = (i + 1) - arg_idx
        BY <1>3, <1>4, <2>5
      <4> QED
        BY <4>1, <4>2, <3>1, <3>4, <1>3, <2>5, NodesExtended
    <3>6. Nodes(arg_idx)' = Nodes(i + 1)
      <4>1. \A n \in Nat : Nodes(n)' = Nodes(n)
        BY <1>2, NodesKept
      <4>2. i + 1 \in Nat
        BY <1>4
      <4> QED
        BY <4>1, <4>2, <2>1
    <3>7. /\ \A k \in skipped : k < i + 1
          /\ (i + 1) .. (i + 1) - 1 \subseteq skipped /\ i + 1 <= i + 1
      <4>1. skipped \subseteq Nat
        BY DEF ExecveInv, TypeOK
      <4> QED
        BY <4>1, <3>1, <1>4
    <3> QED
      BY <1>2, <1>5, <2>1, <3>1, <3>5, <3>6, <3>7 DEF IntactOK
  <2>14. arg_num' \in {0, Len(argv)}
    BY <2>1 DEF ExecveInv, ShapeOK
  <2>15. Sources(text') \subseteq {arg_idx'}
    BY <2>1, SourcesOfTokens
  <2>16. rc' = "OK"
    BY <1>2, <2>1
  <2> QED
    BY <1>2, <2>1, <2>8, <2>9, <2>11, <2>12, <2>13, <2>14, <2>15, <2>16, Accepted
<1> QED
  BY <1>6, <1>7 DEF AddArg

LEMMA AddArgLenExecve ==
  ASSUME ExecveInv, AddArgLen
  PROVE  ExecveInv'
<1> DEFINE i == next.arg
           u == Padding(i)
<1>1. Take("len")
  BY DEF AddArgLen
<1>2. /\ rc = "OK" /\ ended = FALSE /\ added = FALSE /\ next.kind = "len"
      /\ next' = NextField /\ UNCHANGED <<argv, losing, skipped, events, ended, added>>
  BY <1>1, TakeFacts
<1>3. /\ argv \in Seq(Nat) /\ Len(argv) \in Nat /\ FieldOK /\ arg_idx \in Nat /\ arg_num \in Nat
      /\ intact \in BOOLEAN /\ got_len \in BOOLEAN
      /\ slice_idx \in Nat /\ len_total \in Nat /\ len_read \in Nat
  BY DEF ExecveInv, TypeOK
<1>4. i \in 0 .. Len(argv) - 1 /\ i \in Nat /\ argv[i + 1] \in Nat
  <2>1. i \in 0 .. Len(argv) - 1
    BY <1>2, <1>3, FieldFacts
  <2>2. i + 1 \in 1 .. Len(argv)
    BY <2>1, <1>3
  <2> QED
    BY <2>1, <2>2, <1>3
<1>5. next'.kind = "slice" /\ next'.arg = i /\ next'.slice = 0
  BY <1>2 DEF NextField, Field
<1>6. CASE ~(InRange(i) /\ ~got_len) /\ Reject
  <2>1. intact = FALSE
    <3> SUFFICES ASSUME intact PROVE InRange(i) /\ ~got_len
      BY <1>3, <1>6
    <3>1. arg_num = Len(argv) /\ arg_idx <= i /\ ~got_len
      BY <1>2, IntactSoFar
    <3> QED
      BY <3>1, <1>3, <1>4 DEF InRange
  <2> QED
    BY <1>1, <1>6, <2>1, RejectExecve
<1>7. CASE /\ InRange(i) /\ ~got_len /\ Accept(Begun \o u) /\ text' = TextAfter(i)
           /\ arg_idx' = i /\ got_len' = TRUE /\ len_total' = argv[i + 1]
           /\ UNCHANGED <<arg_num, slice_idx, len_read>>
  <2>1. /\ tree' = Begun \o u /\ rc' = rc /\ intact' = intact /\ text' = TextAfter(i)
        /\ arg_idx' = i /\ got_len' = TRUE /\ len_total' = argv[i + 1]
        /\ UNCHANGED <<arg_num, slice_idx, len_read>>
        /\ arg_idx <= i /\ i < arg_num
    BY <1>7 DEF Accept, InRange
  <2>2. Begun \in Seq(Seq(Tokens)) /\ Len(Begun) = arg_idx + 1 /\ Placed(Begun)
    BY <1>2, BegunFacts
  <2>3. /\ u \in Seq(Seq(Tokens)) /\ Len(u) = i - arg_idx
        /\ \A k \in 1 .. i - arg_idx : Sources(u[k]) \subseteq {arg_idx + k - 1}
    BY <1>2, <1>4, <2>1, PaddingFacts
  <2> HIDE DEF u
  <2>4. \A k \in 1 .. Len(u) : Sources(u[k]) \subseteq {Len(Begun) + k - 2}
    <3> TAKE k \in 1 .. Len(u)
    <3>1. Len(Begun) + k - 2 = arg_idx + k - 1 /\ k \in 1 .. i - arg_idx
      BY <1>3, <1>4, <2>1, <2>2, <2>3
    <3> QED
      BY <3>1, <2>3
  <2>5. tree' \in Seq(Seq(Tokens)) /\ Len(tree') = arg_idx' + 1 /\ Placed(tree')
    <3>1. /\ Begun \o u \in Seq(Seq(Tokens)) /\ Len(Begun \o u) = Len(Begun) + Len(u)
          /\ Placed(Begun \o u)
      BY <2>2, <2>3, <2>4, PlacedTogether
    <3>2. \A x, y \in Nat : (x + 1) + (y - x) = y + 1
      OBVIOUS
    <3>3. Len(Begun \o u) = i + 1
      <4>1. (arg_idx + 1) + (i - arg_idx) = i + 1
        BY <3>2, <1>3, <1>4, Zenon
      <4>2. Len(Begun \o u) = (arg_idx + 1) + (i - arg_idx)
        BY <3>1, <2>2, <2>3, Zenon
      <4> QED
        BY <4>1, <4>2, Zenon
    <3> QED
      BY <3>1, <3>3, <2>1
  <2>6. FieldOK'
    <3>1. next.kind # "done"
      BY <1>2
    <3> QED
      BY <1>2, <1>3, <3>1, NextFieldOK
  <2>7. text' \in Seq(Tokens) /\ Sources(text') \subseteq {arg_idx'}
    BY <1>2, <1>4, <2>1, TextAfterFacts
  <2>8. TypeOK'
    BY <1>2, <1>3, <1>4, <2>1, <2>5, <2>6, <2>7 DEF ExecveInv, TypeOK
  <2>9. IsValid'
    <3>1. len_read <= len_total /\ len_total = 0
      BY <1>7 DEF ExecveInv, IsValid
    <3>2. arg_idx' <= arg_num' /\ len_read' <= len_total'
      BY <1>3, <1>4, <2>1, <3>1
    <3> QED
      BY <2>1, <3>2 DEF IsValid
  <2>10. ASSUME intact PROVE IntactOK'
    <3>1. /\ \A k \in skipped : k < i /\ argv[k + 1] = 0
          /\ Begun = Nodes(arg_idx) /\ arg_num = Len(argv)
          /\ slice_idx = 0 /\ len_read = 0 /\ text = <<>>
      BY <1>2, <2>10, IntactSoFar
    <3>2. \A k \in 1 .. Len(u) : u[k] = Node(arg_idx + k - 1)
      BY <1>2, <2>3, <2>10, IntactPadding DEF u
    <3>3. Begun \o u = Nodes(i)
      <4>1. arg_idx \in 0 .. Len(argv) /\ i \in arg_idx .. Len(argv)
        BY <1>3, <1>4, <2>1
      <4> QED
        BY <4>1, <3>1, <3>2, <1>3, <2>3, NodesExtended
    <3>4. Nodes(arg_idx)' = Nodes(i)
      <4>1. \A n \in Nat : Nodes(n)' = Nodes(n)
        BY <1>2, NodesKept
      <4> QED
        BY <4>1, <1>4, <2>1
    <3>5. text' = <<>> /\ Begins(arg_idx, 0)' = <<>>
      BY <2>1, <3>1 DEF TextAfter, Begins
    <3>6. i .. i - 1 \subseteq skipped /\ i <= i
      BY <1>4
    <3> QED
      BY <1>2, <1>5, <2>1, <3>1, <3>3, <3>4, <3>5, <3>6 DEF IntactOK, Begins
  <2>11. arg_num' \in {0, Len(argv)}
    BY <2>1 DEF ExecveInv, ShapeOK
  <2>12. rc' = "OK"
    BY <1>2, <2>1
  <2> QED
    BY <1>2, <2>1, <2>5, <2>7, <2>8, <2>9, <2>10, <2>11, <2>12, Accepted
<1> QED
  BY <1>6, <1>7 DEF AddArgLen

(* A node after others, in its place.                                      *)
LEMMA PlacedAppended ==
  ASSUME NEW t \in Seq(Seq(Tokens)), Placed(t), NEW node \in Seq(Tokens),
         Sources(node) \subseteq {Len(t) - 1}
  PROVE  /\ Append(t, node) \in Seq(Seq(Tokens)) /\ Len(Append(t, node)) = Len(t) + 1
         /\ Placed(Append(t, node))
<1> DEFINE v == Append(t, node)
<1>1. Len(t) \in Nat
  OBVIOUS
<1>2. /\ v \in Seq(Seq(Tokens)) /\ Len(v) = Len(t) + 1 /\ v[Len(t) + 1] = node
      /\ \A k \in 1 .. Len(t) : v[k] = t[k]
  OBVIOUS
<1> HIDE DEF v
<1>3. ASSUME NEW k \in 1 .. Len(v)
      PROVE  Sources(v[k]) \subseteq {k - 2}
  <2>1. CASE k \in 1 .. Len(t)
    BY <1>2, <2>1 DEF Placed
  <2>2. CASE k = Len(t) + 1
    <3>1. Len(t) - 1 = k - 2
      BY <2>2, <1>1
    <3> QED
      BY <1>2, <2>2, <3>1
  <2> QED
    BY <1>1, <1>2, <2>1, <2>2
<1> QED
  BY <1>2, <1>3 DEF v, Placed

LEMMA NodesAppended ==
  ASSUME argv \in Seq(Nat), NEW n \in 0 .. Len(argv) - 1
  PROVE  Append(Nodes(n), Node(n)) = Nodes(n + 1)
<1> DEFINE u == <<Node(n)>>
<1>1. n \in 0 .. Len(argv) /\ n + 1 \in n .. Len(argv) /\ n \in Nat
  OBVIOUS
<1>2. Node(n) \in Seq(Tokens)
  BY NodeTypes
<1>3. u \in Seq(Seq(Tokens)) /\ Len(u) = (n + 1) - n /\ u[1] = Node(n)
  BY <1>1, <1>2
<1>4. \A k \in 1 .. Len(u) : k = 1
  BY <1>1, <1>3
<1>5. n + 1 - 1 = n
  BY <1>1
<1>6. Nodes(n) \in Seq(Seq(Tokens))
  BY <1>1, NodesTypes
<1>7. Append(Nodes(n), Node(n)) = Nodes(n) \o u
  BY <1>2, <1>6
<1> HIDE DEF u
<1>8. \A k \in 1 .. Len(u) : u[k] = Node(n + k - 1)
  BY <1>3, <1>4, <1>5
<1> QED
  BY <1>1, <1>3, <1>7, <1>8, NodesExtended

(* The beginning of an argument with one more of its slices.               *)
LEMMA BeginsNext ==
  ASSUME NEW i \in Nat, NEW j \in Nat
  PROVE  /\ Begins(i, j) \o ((IF j = 0 THEN <<Open>> ELSE <<>>) \o <<Slice(i, j)>>)
              = Begins(i, j + 1)
         /\ Begins(i, j) \in Seq(Tokens)
         /\ Begins(i, j + 1) = <<Open>> \o [k \in 1 .. j + 1 |-> Slice(i, k - 1)]
<1> DEFINE f == [k \in 1 .. j |-> Slice(i, k - 1)]
           g == [k \in 1 .. j + 1 |-> Slice(i, k - 1)]
           s == <<Slice(i, j)>>
           o == <<Open>>
<1>1. \A k \in 1 .. j + 1 : Slice(i, k - 1) \in Tokens
  <2> TAKE k \in 1 .. j + 1
  <2>1. k - 1 \in Nat
    OBVIOUS
  <2> QED
    BY <2>1, TokenTypes
<1>2. f \in Seq(Tokens) /\ Len(f) = j /\ \A k \in 1 .. j : f[k] = Slice(i, k - 1)
  <2>1. f \in [1 .. j -> Tokens] /\ \A k \in 1 .. j : f[k] = Slice(i, k - 1)
    BY <1>1
  <2> HIDE DEF f
  <2> QED
    BY <2>1, FunctionSeq
<1>3. g \in Seq(Tokens) /\ Len(g) = j + 1 /\ \A k \in 1 .. j + 1 : g[k] = Slice(i, k - 1)
  <2>1. g \in [1 .. j + 1 -> Tokens] /\ \A k \in 1 .. j + 1 : g[k] = Slice(i, k - 1)
    BY <1>1
  <2>2. j + 1 \in Nat
    OBVIOUS
  <2> HIDE DEF g
  <2> QED
    BY <2>1, <2>2, FunctionSeq
<1>4. s \in Seq(Tokens) /\ Len(s) = 1 /\ s[1] = Slice(i, j) /\ o \in Seq(Tokens)
  BY TokenTypes
<1>5. j = 0 => f = <<>>
  BY <1>2
<1>6. j + 1 # 0
  OBVIOUS
<1>7. Begins(i, j) = (IF j = 0 THEN <<>> ELSE o \o f) /\ Begins(i, j + 1) = o \o g
  BY <1>6 DEF Begins
<1> HIDE DEF f, g, s, o
<1>8. f \o s = g
  <2> DEFINE h == f \o s
  <2>1. /\ h \in Seq(Tokens) /\ Len(h) = j + 1 /\ h[j + 1] = s[1]
        /\ \A k \in 1 .. j : h[k] = f[k]
    <3>1. /\ h \in Seq(Tokens) /\ Len(h) = Len(f) + Len(s)
          /\ \A k \in 1 .. Len(f) : h[k] = f[k]
          /\ \A k \in 1 .. Len(s) : h[Len(f) + k] = s[k]
      <4>1. f \in Seq(Tokens) /\ s \in Seq(Tokens)
        BY <1>2, <1>4
      <4> QED
        BY <4>1, Concatenated
    <3>2. 1 \in 1 .. 1
      OBVIOUS
    <3> QED
      BY <1>2, <1>4, <3>1, <3>2
  <2> HIDE DEF h
  <2>2. \A k \in 1 .. j + 1 : k \in 1 .. j \/ k = j + 1
    OBVIOUS
  <2>3. j + 1 - 1 = j /\ \A k \in 1 .. j : k \in 1 .. j + 1
    OBVIOUS
  <2>4. j + 1 \in 1 .. j + 1
    OBVIOUS
  <2>5. \A k \in 1 .. j + 1 : h[k] = g[k]
    BY <2>1, <2>2, <2>3, <2>4, <1>2, <1>3, <1>4
  <2>6. h = g
    BY <2>1, <2>5, <1>3, SameSeq
  <2> QED
    BY <2>6 DEF h
<1>9. <<>> \o (o \o s) = o \o s /\ <<>> \o s = s /\ <<>> \o s = s /\ <<>> \in Seq(Tokens)
  BY <1>4
<1>10. (o \o f) \o s = o \o (f \o s) /\ o \o f \in Seq(Tokens)
  BY <1>2, <1>4
<1>11. CASE j = 0
  <2>1. f \o s = s
    BY <1>5, <1>9, <1>11
  <2> QED
    BY <1>7, <1>8, <1>9, <1>11, <2>1 DEF s, o, g
<1>12. CASE j # 0
  BY <1>7, <1>8, <1>9, <1>10, <1>12 DEF s, o, g
<1> QED
  BY <1>11, <1>12

LEMMA AddArgSliceExecve ==
  ASSUME ExecveInv, AddArgSlice
  PROVE  ExecveInv'
<1> DEFINE i == next.arg
           j == next.slice
           begin == IF slice_idx = 0 THEN <<Open>> ELSE <<>>
           slice == <<Slice(i, j)>>
           more == text \o (begin \o slice)
           node == more \o <<Close>>
<1>1. Take("slice")
  BY DEF AddArgSlice
<1>2. /\ rc = "OK" /\ ended = FALSE /\ added = FALSE /\ next.kind = "slice"
      /\ next' = NextField /\ UNCHANGED <<argv, losing, skipped, events, ended, added>>
  BY <1>1, TakeFacts
<1>3. /\ argv \in Seq(Nat) /\ Len(argv) \in Nat /\ FieldOK /\ arg_idx \in Nat /\ arg_num \in Nat
      /\ intact \in BOOLEAN /\ got_len \in BOOLEAN /\ skipped \subseteq Nat
      /\ slice_idx \in Nat /\ len_total \in Nat /\ len_read \in Nat /\ text \in Seq(Tokens)
  BY DEF ExecveInv, TypeOK
<1>4. /\ i \in 0 .. Len(argv) - 1 /\ i \in Nat /\ i + 1 \in 0 .. Len(argv)
      /\ argv[i + 1] \in Nat /\ j \in Nat /\ j < argv[i + 1]
  <2>1. i \in 0 .. Len(argv) - 1 /\ j \in Nat /\ j < argv[i + 1]
    BY <1>2, <1>3, FieldFacts
  <2>2. i + 1 \in 1 .. Len(argv)
    BY <2>1, <1>3
  <2> QED
    BY <2>1, <2>2, <1>3
<1>5. begin \o slice \in Seq(Tokens) /\ Sources(begin \o slice) \subseteq {i}
  <2>1. begin \in Seq(Tokens) /\ slice \in Seq(Tokens)
    BY <1>4, TokenTypes
  <2>2. Sources(begin) \subseteq {i} /\ Sources(slice) \subseteq {i}
    BY <1>4, SourcesOfTokens
  <2> QED
    BY <2>1, <2>2, SourcesOfParts
<1> HIDE DEF begin, slice
<1>6. FieldOK'
  <2>1. next.kind # "done"
    BY <1>2
  <2> QED
    BY <1>2, <1>3, <2>1, NextFieldOK
<1>7. Begun \in Seq(Seq(Tokens)) /\ Len(Begun) = arg_idx + 1 /\ Placed(Begun)
  BY <1>2, BegunFacts
<1>8. arg_num \in {0, Len(argv)}
  BY DEF ExecveInv, ShapeOK
<1>9. ASSUME intact
      PROVE  /\ \A k \in skipped : k < i /\ argv[k + 1] = 0
             /\ arg_num = Len(argv) /\ Begun = Nodes(arg_idx)
             /\ arg_idx = i /\ got_len /\ slice_idx = j /\ len_read = j
             /\ len_total = argv[i + 1] /\ more = Begins(i, j + 1)
  <2>1. /\ \A k \in skipped : k < i /\ argv[k + 1] = 0
        /\ arg_num = Len(argv) /\ Begun = Nodes(arg_idx)
        /\ arg_idx = i /\ got_len /\ slice_idx = j /\ len_read = j
        /\ len_total = argv[arg_idx + 1] /\ text = Begins(arg_idx, j)
    BY <1>2, <1>9, IntactSoFar
  <2>2. more = Begins(i, j + 1)
    BY <2>1, <1>4, BeginsNext DEF begin, slice
  <2> QED
    BY <2>1, <2>2
<1>10. ASSUME intact PROVE InSequence
  <2>1. j + 1 <= argv[i + 1]
    BY <1>4
  <2> QED
    BY <1>3, <1>4, <1>9, <1>10, <2>1 DEF InSequence
<1>11. CASE ~InSequence /\ Reject
  <2>1. intact = FALSE
    BY <1>3, <1>10, <1>11
  <2> QED
    BY <1>1, <1>11, <2>1, RejectExecve
<1>12. CASE InSequence
  <2>1. /\ i = arg_idx /\ arg_idx < arg_num /\ got_len /\ j = slice_idx
        /\ len_read + 1 <= len_total
    BY <1>12 DEF InSequence
  <2>2. more \in Seq(Tokens) /\ Sources(more) \subseteq {arg_idx}
    <3>1. Sources(text) \subseteq {arg_idx}
      BY <1>2 DEF ExecveInv, OwnPlace
    <3> QED
      BY <3>1, <1>3, <1>5, <2>1, SourcesOfParts
  <2> QED
    <3> HIDE DEF more
    <3>1. CASE /\ len_read + 1 = len_total
               /\ Accept(Append(Begun, node)) /\ text' = <<>>
               /\ got_len' = FALSE /\ slice_idx' = 0 /\ len_total' = 0 /\ len_read' = 0
               /\ arg_idx' = arg_idx + 1 /\ UNCHANGED arg_num
      <4>1. /\ tree' = Append(Begun, node) /\ rc' = rc /\ intact' = intact /\ text' = <<>>
            /\ got_len' = FALSE /\ slice_idx' = 0 /\ len_total' = 0 /\ len_read' = 0
            /\ arg_idx' = arg_idx + 1 /\ arg_num' = arg_num
        BY <3>1 DEF Accept
      <4>2. node \in Seq(Tokens) /\ Sources(node) \subseteq {Len(Begun) - 1}
        <5>1. <<Close>> \in Seq(Tokens) /\ Sources(<<Close>>) \subseteq {arg_idx}
          BY TokenTypes, SourcesOfTokens
        <5>2. node \in Seq(Tokens) /\ Sources(node) \subseteq {arg_idx}
          BY <2>2, <5>1, SourcesOfParts
        <5>3. Len(Begun) - 1 = arg_idx
          BY <1>3, <1>7
        <5> HIDE DEF node
        <5> QED
          BY <5>2, <5>3
      <4> HIDE DEF node
      <4>3. tree' \in Seq(Seq(Tokens)) /\ Len(tree') = arg_idx' + 1 /\ Placed(tree')
        <5>1. /\ Append(Begun, node) \in Seq(Seq(Tokens))
              /\ Len(Append(Begun, node)) = Len(Begun) + 1 /\ Placed(Append(Begun, node))
          BY <1>7, <4>2, PlacedAppended
        <5> QED
          BY <5>1, <4>1, <1>7
      <4>4. text' \in Seq(Tokens) /\ Sources(text') \subseteq {arg_idx'}
        BY <4>1, SourcesOfTokens
      <4>5. arg_idx' \in Nat /\ arg_idx' <= arg_num
        BY <4>1, <2>1, <1>3
      <4>6. TypeOK'
        BY <1>2, <1>3, <1>6, <4>1, <4>3, <4>4, <4>5 DEF ExecveInv, TypeOK
      <4>7. IsValid'
        BY <4>1, <4>5 DEF IsValid
      <4>8. ASSUME intact PROVE IntactOK'
        <5>1. j + 1 = argv[i + 1]
          BY <4>8, <1>9, <3>1
        <5>2. next'.kind \in {"arg", "len", "done"} /\ next'.arg = i + 1
          <6>1. next' = FirstField(i + 1)
            BY <1>2, <1>4, <5>1 DEF NextField
          <6> QED
            BY <6>1, <1>3, <1>4, FirstFieldFacts
        <5>3. node = Node(i)
          <6>1. i \notin skipped /\ argv[i + 1] # 0
            BY <4>8, <1>4, <1>9
          <6>2. Node(i) = <<Open>> \o [k \in 1 .. j + 1 |-> Slice(i, k - 1)] \o <<Close>>
            BY <6>1, <5>1 DEF Node
          <6>3. node = Begins(i, j + 1) \o <<Close>>
            BY <4>8, <1>9 DEF node
          <6>4. Begins(i, j + 1) = <<Open>> \o [k \in 1 .. j + 1 |-> Slice(i, k - 1)]
            BY <1>4, BeginsNext
          <6> QED
            BY <6>2, <6>3, <6>4, Zenon
        <5>4. tree' = Nodes(i + 1)
          <6>1. Begun = Nodes(i)
            BY <4>8, <1>9
          <6> QED
            BY <6>1, <5>3, <4>1, <1>3, <1>4, NodesAppended
        <5>5. Nodes(arg_idx)' = Nodes(i + 1)
          <6>1. \A n \in Nat : Nodes(n)' = Nodes(n)
            BY <1>2, NodesKept
          <6>2. i + 1 \in Nat
            BY <1>4
          <6> QED
            BY <6>1, <6>2, <4>1, <2>1
        <5>6. /\ \A k \in skipped : k < i + 1 /\ argv[k + 1] = 0
              /\ (i + 1) .. (i + 1) - 1 \subseteq skipped /\ i + 1 <= i + 1
          BY <4>8, <1>3, <1>4, <1>9
        <5>7. arg_num = Len(argv)
          BY <4>8, <1>9
        <5> QED
          BY <1>2, <2>1, <4>1, <5>2, <5>4, <5>5, <5>6, <5>7 DEF IntactOK
      <4>9. rc' = "OK" /\ arg_num' \in {0, Len(argv)}
        BY <1>2, <1>8, <4>1
      <4> QED
        BY <1>2, <4>1, <4>3, <4>4, <4>6, <4>7, <4>8, <4>9, Accepted
    <3>2. CASE /\ len_read + 1 < len_total
               /\ Accept(Begun) /\ text' = more
               /\ len_read' = len_read + 1 /\ slice_idx' = slice_idx + 1
               /\ UNCHANGED <<arg, got_len, len_total>>
      <4>1. /\ tree' = Begun /\ rc' = rc /\ intact' = intact /\ text' = more
            /\ len_read' = len_read + 1 /\ slice_idx' = slice_idx + 1
            /\ UNCHANGED <<arg_num, arg_idx, got_len, len_total>>
        BY <3>2 DEF Accept, arg
      <4>2. TypeOK'
        BY <1>2, <1>3, <1>6, <1>7, <2>2, <4>1 DEF ExecveInv, TypeOK
      <4>3. IsValid'
        <5>1. len_read' <= len_total'
          BY <1>3, <2>1, <4>1
        <5> QED
          BY <5>1, <2>1, <4>1 DEF ExecveInv, IsValid
      <4>4. ASSUME intact PROVE IntactOK'
        <5>1. j + 1 < argv[i + 1]
          BY <4>4, <1>9, <3>2
        <5>2. next'.kind = "slice" /\ next'.arg = i /\ next'.slice = j + 1
          BY <1>2, <1>4, <5>1 DEF NextField, Field
        <5>3. Nodes(arg_idx)' = Nodes(arg_idx)
          <6>1. \A n \in Nat : Nodes(n)' = Nodes(n)
            BY <1>2, NodesKept
          <6> QED
            BY <6>1, <1>3, <4>1
        <5>4. Begins(i, j + 1)' = Begins(i, j + 1)' /\ text' = Begins(i, j + 1)
          BY <4>4, <4>1, <1>9
        <5>5. i .. i - 1 \subseteq skipped /\ i <= i
          BY <1>4
        <5>6. /\ \A k \in skipped : k < i /\ argv[k + 1] = 0
              /\ arg_num = Len(argv) /\ Begun = Nodes(arg_idx)
              /\ arg_idx = i /\ got_len /\ slice_idx = j /\ len_read = j
              /\ len_total = argv[i + 1]
          BY <4>4, <1>9
        <5>7. /\ rc' = "OK" /\ arg_num' = Len(argv') /\ tree' = Nodes(arg_idx)'
              /\ arg_idx' = next'.arg /\ got_len' /\ slice_idx' = next'.slice
              /\ len_read' = next'.slice /\ len_total' = argv'[arg_idx' + 1]
          BY <1>2, <4>1, <5>2, <5>3, <5>6
        <5>8. /\ \A k \in skipped' : k < next'.arg /\ argv'[k + 1] = 0
              /\ arg_idx' <= next'.arg /\ arg_idx' .. next'.arg - 1 \subseteq skipped'
          BY <1>2, <4>1, <5>2, <5>5, <5>6
        <5>9. text' = Begins(arg_idx', next'.slice)
          BY <4>1, <5>2, <5>4, <5>6
        <5> QED
          BY <5>2, <5>7, <5>8, <5>9 DEF IntactOK, Begins, Slice, Token, Open
      <4>5. rc' = "OK" /\ arg_num' \in {0, Len(argv)} /\ Len(tree') = arg_idx' + 1
        BY <1>2, <1>7, <1>8, <4>1
      <4>6. Placed(tree') /\ Sources(text') \subseteq {arg_idx'}
        BY <1>7, <2>2, <4>1
      <4> QED
        BY <1>2, <4>1, <4>2, <4>3, <4>4, <4>5, <4>6, Accepted
    <3> QED
      BY <1>12, <3>1, <3>2 DEF AddArgSlice, more, node, begin, slice
<1> QED
  BY <1>11, <1>12 DEF AddArgSlice

(* The end: an event of which nothing was lost has all of its arguments,   *)
(* unless the kernel has left out the last ones.                           *)
LEMMA EndExecve ==
  ASSUME ExecveInv, End
  PROVE  ExecveInv'
<1>1. /\ next.kind = "done" /\ rc = "OK" /\ ended = FALSE /\ added = FALSE /\ ended' = TRUE
      /\ UNCHANGED <<argv, next, losing, skipped, intact, events, arg_num, arg_idx,
                     got_len, slice_idx, len_total, len_read, text>>
  BY DEF End, ExecveInv, TypeOK, ShapeOK, kernel, arg, slices
<1>2. /\ argv \in Seq(Nat) /\ Len(argv) \in Nat /\ FieldOK /\ arg_idx \in Nat /\ arg_num \in Nat
      /\ intact \in BOOLEAN /\ tree \in Seq(Seq(Tokens)) /\ text \in Seq(Tokens)
      /\ arg_num \in {0, Len(argv)}
  BY DEF ExecveInv, TypeOK, ShapeOK
<1>3. next.arg = Len(argv)
  BY <1>1, <1>2, FieldFacts
<1>4. FieldOK' /\ IsValid' /\ IntactOK'
  BY <1>1 DEF ExecveInv, TypeOK, FieldOK, IsValid, IntactOK
<1>5. ASSUME intact
      PROVE  /\ arg_num = Len(argv) /\ arg_idx <= Len(argv) /\ text = <<>>
             /\ arg_idx .. Len(argv) - 1 \subseteq skipped /\ Begun = Nodes(arg_idx)
  BY <1>1, <1>3, <1>5, IntactSoFar
<1>6. CASE arg_num = 0 /\ UNCHANGED <<tree, added, rc>>
  <2>1. TypeOK'
    BY <1>1, <1>4, <1>6 DEF ExecveInv, TypeOK
  <2>2. ShapeOK' /\ OwnPlace'
    <3>1. ShapeOK /\ OwnPlace
      BY DEF ExecveInv
    <3>2. OwnPlace'
      <4>1. IsValid /\ UNCHANGED <<arg_num, arg_idx, got_len, slice_idx, len_total,
                                   len_read, tree, text, rc>>
        BY <1>1, <1>6 DEF ExecveInv
      <4> QED
        BY <3>1, <4>1, SameArguments
    <3>3. ShapeOK'
      BY <3>1, <1>1, <1>6 DEF ShapeOK
    <3> QED
      BY <3>2, <3>3
  <2>3. IntactComplete'
    <3>1. intact => Len(argv) = 0
      BY <1>5, <1>6
    <3> QED
      BY <3>1, <1>1, <1>2, <1>6 DEF IntactComplete
  <2> QED
    BY <1>4, <2>1, <2>2, <2>3 DEF ExecveInv
<1>7. CASE arg_num # 0 /\ arg_idx # arg_num /\ rc' = "INVALID_EXECVE" /\ UNCHANGED <<tree, added>>
  <2>1. TypeOK'
    BY <1>1, <1>4, <1>7 DEF ExecveInv, TypeOK
  <2>2. ShapeOK' /\ OwnPlace'
    BY <1>1, <1>7 DEF ExecveInv, ShapeOK, OwnPlace
  <2>3. IntactComplete'
    <3>1. intact => Len(argv) - 1 \in skipped
      <4> SUFFICES ASSUME intact PROVE Len(argv) - 1 \in skipped
        OBVIOUS
      <4>1. Len(argv) - 1 \in arg_idx .. Len(argv) - 1
        BY <1>2, <1>5, <1>7
      <4> QED
        BY <4>1, <1>5
    <3> QED
      BY <3>1, <1>1 DEF IntactComplete
  <2> QED
    BY <1>4, <2>1, <2>2, <2>3 DEF ExecveInv
<1>8. CASE /\ arg_num # 0 /\ arg_idx = arg_num
           /\ tree' = Append(tree, Append(text, Epilogue)) /\ added' = TRUE /\ rc' = rc
  <2> DEFINE node == Append(text, Epilogue)
  <2>1. tree # <<>> /\ Begun = tree
    BY <1>8 DEF ExecveInv, ShapeOK, Begun
  <2>2. Len(tree) = arg_idx + 1 /\ Placed(tree) /\ Sources(text) \subseteq {arg_idx}
    <3>1. Len(tree) = arg_idx + 1 /\ Placed(tree)
      BY <1>1, <2>1, BegunFacts
    <3> QED
      BY <3>1, <1>1 DEF ExecveInv, OwnPlace
  <2>3. node \in Seq(Tokens) /\ Sources(node) \subseteq {Len(tree) - 1}
    <3>1. <<Epilogue>> \in Seq(Tokens) /\ Sources(<<Epilogue>>) \subseteq {arg_idx}
      BY TokenTypes, SourcesOfTokens
    <3>2. node = text \o <<Epilogue>>
      BY <1>2, TokenTypes
    <3>3. text \o <<Epilogue>> \in Seq(Tokens) /\ Sources(text \o <<Epilogue>>) \subseteq {arg_idx}
      BY <1>2, <2>2, <3>1, SourcesOfParts
    <3>4. Len(tree) - 1 = arg_idx
      BY <1>2, <2>2
    <3> HIDE DEF node
    <3> QED
      BY <3>2, <3>3, <3>4, Zenon
  <2>4. tree' = Append(tree, node)
    BY <1>8
  <2> HIDE DEF node
  <2>5. tree' \in Seq(Seq(Tokens)) /\ Len(tree') = (arg_idx + 1) + 1 /\ Placed(tree')
    <3>1. /\ Append(tree, node) \in Seq(Seq(Tokens))
          /\ Len(Append(tree, node)) = Len(tree) + 1 /\ Placed(Append(tree, node))
      BY <1>2, <2>2, <2>3, PlacedAppended
    <3> QED
      BY <3>1, <2>2, <2>4
  <2>6. tree' # <<>> /\ Len(tree') = arg_idx + 2
    <3>1. Len(tree') = arg_idx + 2 /\ Len(tree') # 0
      BY <2>5, <1>2
    <3> QED
      BY <3>1
  <2>7. TypeOK'
    BY <1>1, <1>4, <1>8, <2>5 DEF ExecveInv, TypeOK
  <2>8. ShapeOK'
    BY <1>1, <1>2, <1>8, <2>6 DEF ShapeOK
  <2>9. OwnPlace'
    BY <1>1, <2>2, <2>5 DEF OwnPlace, Placed, Sources
  <2>10. IntactComplete'
    <3>1. intact => Len(argv) > 0 /\ tree' = Append(Nodes(Len(argv)), <<Epilogue>>)
      <4> SUFFICES ASSUME intact
                   PROVE  Len(argv) > 0 /\ tree' = Append(Nodes(Len(argv)), <<Epilogue>>)
        OBVIOUS
      <4>1. node = <<Epilogue>>
        BY <1>5, TokenTypes DEF node
      <4>2. tree = Nodes(Len(argv)) /\ Len(argv) > 0
        BY <1>2, <1>5, <1>8, <2>1
      <4> QED
        BY <4>1, <4>2, <2>4
    <3>2. Nodes(Len(argv))' = Nodes(Len(argv))
      <4>1. \A n \in Nat : Nodes(n)' = Nodes(n)
        BY <1>1, NodesKept
      <4> QED
        BY <4>1, <1>1, <1>2
    <3> QED
      BY <3>1, <3>2, <1>1, <1>8 DEF IntactComplete, Complete
  <2> QED
    BY <1>4, <2>7, <2>8, <2>9, <2>10 DEF ExecveInv
<1> QED
  BY <1>6, <1>7, <1>8 DEF End

LEMMA NextExecve ==
  ASSUME ExecveInv, [Next]_vars
  PROVE  ExecveInv'
<1>1. CASE Next
  BY <1>1, NewRecordExecve, LoseExecve, LeaveOutExecve, AddArgcExecve, AddArgExecve,
     AddArgLenExecve, AddArgSliceExecve, AddFailsExecve, EndExecve, EmptyExecve DEF Next
<1>2. CASE UNCHANGED vars
  <2>1. UNCHANGED <<argv, next, losing, skipped, intact, events, arg_num, arg_idx, got_len,
                    slice_idx, len_total, len_read, tree, text, ended, added, rc>>
    BY <1>2 DEF vars, kernel, arg, slices
  <2>2. TypeOK' /\ ShapeOK'
    BY <2>1 DEF ExecveInv, TypeOK, FieldOK, ShapeOK
  <2>3. IsValid' /\ OwnPlace'
    BY <2>1, SameArguments DEF ExecveInv
  <2>4. IntactOK'
    BY <2>1 DEF ExecveInv, IntactOK, Nodes, Node, Begins
  <2>5. IntactComplete'
    BY <2>1 DEF ExecveInv, IntactComplete, Complete, Nodes, Node
  <2> QED
    BY <2>2, <2>3, <2>4, <2>5 DEF ExecveInv
<1> QED
  BY <1>1, <1>2

(* The invariant of the collector: its fields are valid, every argument so *)
(* far has its own node, and as long as nothing is lost the nodes are just *)
(* what the kernel has written.                                            *)
THEOREM ExecveInvariant == Spec => []ExecveInv
<1>1. Init => ExecveInv
  BY InitExecve
<1>2. ExecveInv /\ [Next]_vars => ExecveInv'
  BY NextExecve
<1> QED
  BY <1>1, <1>2, PTL DEF Spec

-----------------------------------------------------------------------------
(* What the runs check, for calls of any size.                             *)

(* The assertion aushape_execve_coll_is_valid holds whatever fields arrive *)
(* and whatever fails on the way.                                          *)
THEOREM AlwaysValid == Spec => []IsValid
<1>1. ExecveInv => IsValid
  BY DEF ExecveInv
<1> QED
  BY <1>1, ExecveInvariant, PTL

(* The text of an argument is never output in the place of another one,    *)
(* whatever records were lost.                                             *)
THEOREM ArgumentsInPlace == Spec => []OwnPlace
<1>1. ExecveInv => OwnPlace
  BY DEF ExecveInv
<1> QED
  BY <1>1, ExecveInvariant, PTL

(* A record that is output has a place for each of the call's arguments.   *)
THEOREM ArgumentsCounted == Spec => []AllPlaces
<1>1. ASSUME ExecveInv PROVE AllPlaces
  <2> SUFFICES ASSUME added PROVE arg_num = Len(argv) /\ Len(tree) = Len(argv) + 2
    BY DEF AllPlaces
  <2>1. /\ rc = "OK" /\ arg_num # 0 /\ arg_idx = arg_num /\ arg_num \in {0, Len(argv)}
        /\ tree # <<>> /\ Len(tree) = arg_idx + 2
    BY <1>1 DEF ExecveInv, ShapeOK
  <2> QED
    BY <2>1
<1> QED
  BY <1>1, ExecveInvariant, PTL

(* A call of which nothing was lost is put together again exactly.         *)
THEOREM CallsPutTogether == Spec => []IntactComplete
<1>1. ExecveInv => IntactComplete
  BY DEF ExecveInv
<1> QED
  BY <1>1, ExecveInvariant, PTL

=============================================================================
