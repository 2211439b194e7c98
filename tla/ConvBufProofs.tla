---------------------------- MODULE ConvBufProofs ----------------------------
(***************************************************************************)
(* Theorems about ConvBuf, for any record types, any number of events and  *)
(* of records in them.                                                     *)
(***************************************************************************)
EXTENDS ConvBuf, FiniteSetTheorems, WellFoundedInduction, TLAPS

-----------------------------------------------------------------------------
(***************************************************************************)
(* Induction over the natural numbers, stated of a set and not of an       *)
(* operator: for what recursive functions of the models compute.           *)
(***************************************************************************)

(* A set with zero, and with the successor of everything in it, has all    *)
(* natural numbers: otherwise one of them would be the least without.      *)
LEMMA SetInduction ==
  ASSUME NEW P, 0 \in P, \A n \in Nat : n \in P => n + 1 \in P
  PROVE  Nat \subseteq P
<1> DEFINE T == Nat \ P
           R == OpToRel(<, Nat)
<1> SUFFICES ASSUME T # {}
             PROVE  FALSE
  OBVIOUS
<1>1. IsWellFoundedOn(R, Nat)
  BY NatLessThanWellFounded
<1>2. \E x \in T : \A y \in T : ~(<<y, x>> \in R)
  <2>1. T \subseteq Nat
    OBVIOUS
  <2> HIDE DEF R, T
  <2> QED
    BY <1>1, <2>1, WFMin
<1>3. PICK x \in T : \A y \in T : ~(<<y, x>> \in R)
  BY <1>2
<1>4. \A y \in Nat : y < x => <<y, x>> \in R
  BY <1>3 DEF OpToRel
<1> HIDE DEF R
<1>5. x # 0 /\ x - 1 \in Nat /\ x - 1 < x
  BY <1>3
<1>6. x - 1 \notin T
  BY <1>3, <1>4, <1>5
<1> QED
  BY <1>3, <1>5, <1>6

-----------------------------------------------------------------------------
(* Records.                                                                *)

LEMMA RecordFields ==
  ASSUME ConvBufAssumption, NEW r \in Record
  PROVE  /\ \/ r.type \in UniqTypes \/ r.type \in Reps
            \/ r.type = "EOE" \/ r.type = "PATH" \/ r.type = "EXECVE"
         /\ r.type = "PATH" => r.idx \in Int
         /\ r.type = "EXECVE" => r.argc \in Int /\ r.argc >= -1 /\ r.args \in Nat
BY DEF ConvBufAssumption, Record

(* The type of a record decides which collector has it.                    *)
LEMMA OneCollector ==
  ASSUME ConvBufAssumption
  PROVE  /\ UniqTypes \intersect Reps = {}
         /\ "PATH" \notin UniqTypes \union Reps /\ "EXECVE" \notin UniqTypes \union Reps
         /\ "EOE" \notin UniqTypes \union Reps
         /\ UniqTypes \subseteq OutputTypes /\ Reps \subseteq OutputTypes
         /\ "PATH" \in OutputTypes /\ "EXECVE" \in OutputTypes
BY DEF ConvBufAssumption, OutputTypes

LEMMA Appended ==
  ASSUME NEW S, NEW s \in Seq(S), NEW e \in S
  PROVE  /\ Append(s, e) \in Seq(S) /\ Len(s) \in Nat
         /\ Len(Append(s, e)) = Len(s) + 1
         /\ \A k \in 1 .. Len(s) : Append(s, e)[k] = s[k]
         /\ Append(s, e)[Len(s) + 1] = e
OBVIOUS

LEMMA FunctionSeq ==
  ASSUME NEW S, NEW n \in Nat, NEW f \in [1 .. n -> S]
  PROVE  f \in Seq(S) /\ Len(f) = n
OBVIOUS

LEMMA AppendIncreasing ==
  ASSUME NEW s \in Seq(Nat), NEW e \in Nat, \A x \in Elements(s) : x < e,
         \A i, j \in 1 .. Len(s) : i < j => s[i] < s[j]
  PROVE  LET a == Append(s, e)
         IN  /\ a \in Seq(Nat)
             /\ Elements(a) = Elements(s) \union {e}
             /\ \A i, j \in 1 .. Len(a) : i < j => a[i] < a[j]
<1> DEFINE a == Append(s, e)
           L == Len(s)
<1>1. /\ a \in Seq(Nat) /\ L \in Nat /\ Len(a) = L + 1
      /\ \A k \in 1 .. L : a[k] = s[k]
      /\ a[L + 1] = e
  BY Appended
<1> HIDE DEF a, L
<1>2. \A k \in 1 .. Len(a) : k \in 1 .. L \/ k = L + 1
  BY <1>1
<1>3. (\A k \in 1 .. L : k \in 1 .. Len(a)) /\ L + 1 \in 1 .. Len(a)
  BY <1>1
<1>4. Elements(a) = Elements(s) \union {e}
  BY <1>1, <1>2, <1>3 DEF Elements, L
<1>5. \A k \in 1 .. L : s[k] \in Elements(s)
  BY DEF Elements, L
<1>6. \A i, j \in 1 .. Len(a) : i < j => a[i] < a[j]
  <2> SUFFICES ASSUME NEW i \in 1 .. Len(a), NEW j \in 1 .. Len(a), i < j
               PROVE  a[i] < a[j]
    OBVIOUS
  <2>1. i \in 1 .. L
    BY <1>1, <1>2
  <2>2. CASE j \in 1 .. L
    BY <1>1, <2>1, <2>2 DEF L
  <2>3. CASE j = L + 1
    BY <1>1, <1>5, <2>1, <2>3
  <2> QED
    BY <1>2, <2>2, <2>3
<1> QED
  BY <1>1, <1>4, <1>6 DEF a

LEMMA OfTypeAppend ==
  ASSUME NEW src \in Seq(Record), NEW r \in Record, NEW t
  PROVE  /\ r.type = t => OfType(Append(src, r), t) = OfType(src, t) \union {Len(src) + 1}
         /\ r.type # t => OfType(Append(src, r), t) = OfType(src, t)
BY Appended DEF OfType

LEMMA Single ==
  ASSUME NEW S, NEW e \in S
  PROVE  /\ <<e>> \in Seq(S) /\ Len(<<e>>) = 1 /\ <<e>>[1] = e
         /\ Elements(<<e>>) = {e}
<1>1. <<e>> \in Seq(S) /\ Len(<<e>>) = 1 /\ <<e>>[1] = e
  OBVIOUS
<1>2. 1 .. 1 = {1}
  OBVIOUS
<1> QED
  BY <1>1, <1>2 DEF Elements

LEMMA OfTypeBelow ==
  ASSUME NEW src \in Seq(Record), NEW t
  PROVE  /\ Len(src) \in Nat
         /\ OfType(src, t) \subseteq 1 .. Len(src) /\ OfType(src, t) \subseteq Nat
         /\ \A k \in OfType(src, t) : src[k] \in Record /\ src[k].type = t
BY DEF OfType

-----------------------------------------------------------------------------
(* Counting arguments.                                                     *)

ArgsOf(r) == IF r.type = "EXECVE" THEN r.args ELSE 0

(* f counts the arguments of src up to the n-th record.                    *)
AreArgs(src, n, f) ==
  f = [k \in 0 .. n |-> IF k = 0 THEN 0 ELSE f[k - 1] + ArgsOf(src[k])]

(* Such a function exists, by induction on n.                              *)
LEMMA ArgsExist ==
  ASSUME NEW src
  PROVE  \A n \in Nat : \E f : AreArgs(src, n, f)
<1> DEFINE P == {n \in Nat : \E f : AreArgs(src, n, f)}
<1>1. 0 \in P
  <2> DEFINE f == [k \in 0 .. 0 |-> 0]
  <2>1. AreArgs(src, 0, f)
    BY DEF AreArgs
  <2> QED
    BY <2>1
<1>2. ASSUME NEW n \in Nat, n \in P
      PROVE  n + 1 \in P
  <2>1. PICK f : AreArgs(src, n, f)
    BY <1>2
  <2> DEFINE w(k, g) == IF k = 0 THEN 0 ELSE g[k - 1] + ArgsOf(src[k])
             h == [k \in 0 .. n + 1 |-> w(k, f)]
  <2>2. f = [k \in 0 .. n |-> w(k, f)]
    BY <2>1 DEF AreArgs
  <2> HIDE DEF w
  <2>3. \A k \in 0 .. n : h[k] = f[k]
    BY <2>2
  <2>4. \A k \in 0 .. n + 1 : k = 0 \/ h[k - 1] = f[k - 1]
    <3> HIDE DEF h
    <3> QED
      BY <2>3
  <2>5. \A k \in 0 .. n + 1 : w(k, h) = w(k, f)
    <3> HIDE DEF h
    <3> QED
      BY <2>4 DEF w
  <2>6. h = [k \in 0 .. n + 1 |-> w(k, h)]
    BY <2>5
  <2>7. AreArgs(src, n + 1, h)
    BY <2>6 DEF AreArgs, w
  <2> QED
    BY <2>7
<1> HIDE DEF P
<1>3. Nat \subseteq P
  BY <1>1, <1>2, SetInduction
<1> QED
  BY <1>3 DEF P

LEMMA ArgsAre ==
  ASSUME NEW src \in Seq(Record)
  PROVE  /\ Args(src)[0] = 0
         /\ \A k \in 1 .. Len(src) : Args(src)[k] = Args(src)[k - 1] + ArgsOf(src[k])
<1>1. Len(src) \in Nat
  OBVIOUS
<1>2. \E f : AreArgs(src, Len(src), f)
  BY <1>1, ArgsExist
<1>3. Args(src) = CHOOSE f : AreArgs(src, Len(src), f)
  BY DEF Args, AreArgs, ArgsOf
<1>4. AreArgs(src, Len(src), Args(src))
  BY <1>2, <1>3
<1> DEFINE f == Args(src)
<1>5. f = [k \in 0 .. Len(src) |-> IF k = 0 THEN 0 ELSE f[k - 1] + ArgsOf(src[k])]
  BY <1>4 DEF AreArgs
<1> HIDE DEF f
<1>6. /\ f[0] = 0
      /\ \A k \in 1 .. Len(src) : f[k] = f[k - 1] + ArgsOf(src[k])
  <2>1. \A k \in 0 .. Len(src) : f[k] = IF k = 0 THEN 0 ELSE f[k - 1] + ArgsOf(src[k])
    BY <1>5
  <2>2. 0 \in 0 .. Len(src) /\ \A k \in 1 .. Len(src) : k \in 0 .. Len(src) /\ k # 0
    BY <1>1
  <2> QED
    BY <2>1, <2>2
<1> QED
  BY <1>6 DEF f

(* The count is a number, and no record makes it less.                     *)
LEMMA ArgsGrow ==
  ASSUME ConvBufAssumption, NEW src \in Seq(Record)
  PROVE  /\ \A k \in 0 .. Len(src) : Args(src)[k] \in Nat
         /\ \A k \in 0 .. Len(src) : Args(src)[k] <= Args(src)[Len(src)]
<1> DEFINE f == Args(src)
           N == Len(src)
           P == {n \in Nat : n <= N => f[n] \in Nat}
           Q == {n \in Nat : n <= N => f[N - n] <= f[N]}
<1>1. /\ f[0] = 0 /\ N \in Nat
      /\ \A k \in 1 .. N : f[k] = f[k - 1] + ArgsOf(src[k]) /\ ArgsOf(src[k]) \in Nat
  <2>1. \A k \in 1 .. N : src[k] \in Record
    OBVIOUS
  <2>2. \A k \in 1 .. N : ArgsOf(src[k]) \in Nat
    BY <2>1, RecordFields DEF ArgsOf
  <2> QED
    BY <2>2, ArgsAre
<1> HIDE DEF f, N
<1>2. 0 \in P
  BY <1>1
<1>3. ASSUME NEW n \in Nat, n \in P
      PROVE  n + 1 \in P
  <2>1. SUFFICES ASSUME n + 1 <= N
                 PROVE  f[n + 1] \in Nat
    OBVIOUS
  <2>2. n + 1 \in 1 .. N /\ (n + 1) - 1 = n /\ f[n] \in Nat
    BY <1>1, <1>3, <2>1
  <2> QED
    BY <1>1, <2>2
<1>4. \A k \in 0 .. N : f[k] \in Nat
  <2> HIDE DEF P
  <2>1. Nat \subseteq P
    BY <1>2, <1>3, SetInduction
  <2> QED
    BY <1>1, <2>1 DEF P
<1>5. 0 \in Q
  BY <1>1, <1>4
<1>6. ASSUME NEW n \in Nat, n \in Q
      PROVE  n + 1 \in Q
  <2>1. SUFFICES ASSUME n + 1 <= N
                 PROVE  f[N - (n + 1)] <= f[N]
    OBVIOUS
  <2>2. N - n \in 1 .. N /\ (N - n) - 1 = N - (n + 1) /\ f[N - n] <= f[N]
    BY <1>1, <1>6, <2>1
  <2>3. f[N - n] = f[N - (n + 1)] + ArgsOf(src[N - n]) /\ ArgsOf(src[N - n]) \in Nat
    BY <1>1, <2>2
  <2>4. f[N - (n + 1)] \in Nat /\ f[N] \in Nat
    BY <1>1, <1>4, <2>1
  <2> QED
    BY <2>2, <2>3, <2>4
<1>7. \A k \in 0 .. N : f[k] <= f[N]
  <2> HIDE DEF Q
  <2>1. Nat \subseteq Q
    BY <1>5, <1>6, SetInduction
  <2>2. \A k \in 0 .. N : N - k \in Q
    BY <1>1, <2>1
  <2>3. ASSUME NEW k \in 0 .. N
        PROVE  f[k] <= f[N]
    <3>1. N - k <= N /\ N - (N - k) = k
      BY <1>1
    <3> QED
      BY <2>2, <3>1 DEF Q
  <2> QED
    BY <2>3
<1> QED
  BY <1>4, <1>7 DEF f, N

(* One more record leaves the counts before it as they are.                *)
LEMMA ArgsAppend ==
  ASSUME ConvBufAssumption, NEW src \in Seq(Record), NEW r \in Record
  PROVE  LET s == Append(src, r)
         IN  /\ \A k \in 0 .. Len(src) : Args(s)[k] = Args(src)[k]
             /\ Args(s)[Len(s)] = Args(src)[Len(src)] + ArgsOf(r)
<1> DEFINE s == Append(src, r)
           f == Args(src)
           g == Args(s)
           N == Len(src)
           P == {n \in Nat : n <= N => g[n] = f[n]}
<1>1. /\ s \in Seq(Record) /\ N \in Nat /\ Len(s) = N + 1 /\ s[N + 1] = r
      /\ \A k \in 1 .. N : s[k] = src[k]
  BY Appended
<1>2. /\ f[0] = 0 /\ g[0] = 0
      /\ \A k \in 1 .. N : f[k] = f[k - 1] + ArgsOf(src[k])
      /\ \A k \in 1 .. N + 1 : g[k] = g[k - 1] + ArgsOf(s[k])
  <2> HIDE DEF s
  <2> QED
    BY <1>1, ArgsAre
<1> HIDE DEF s, f, g, N
<1>3. 0 \in P
  BY <1>2
<1>4. ASSUME NEW n \in Nat, n \in P
      PROVE  n + 1 \in P
  <2>1. SUFFICES ASSUME n + 1 <= N
                 PROVE  g[n + 1] = f[n + 1]
    OBVIOUS
  <2>2. N \in Nat /\ n <= N /\ g[n] = f[n]
    BY <1>1, <1>4, <2>1
  <2>3. n + 1 \in 1 .. N /\ n + 1 \in 1 .. N + 1 /\ (n + 1) - 1 = n
    BY <2>1, <2>2
  <2>4. s[n + 1] = src[n + 1]
    BY <1>1, <2>3
  <2>5. f[n + 1] = f[n] + ArgsOf(src[n + 1]) /\ g[n + 1] = g[n] + ArgsOf(s[n + 1])
    BY <1>2, <2>3
  <2> QED
    BY <2>2, <2>4, <2>5
<1>5. \A k \in 0 .. N : g[k] = f[k]
  <2> HIDE DEF P
  <2>1. Nat \subseteq P
    BY <1>3, <1>4, SetInduction
  <2> QED
    BY <1>1, <2>1 DEF P
<1>6. g[N + 1] = f[N] + ArgsOf(r)
  <2>1. N + 1 \in 1 .. N + 1 /\ (N + 1) - 1 = N /\ N \in 0 .. N
    BY <1>1
  <2> QED
    BY <1>1, <1>2, <1>5, <2>1
<1> QED
  BY <1>1, <1>5, <1>6 DEF s, f, g, N

-----------------------------------------------------------------------------
(* What was refused stays a reason to refuse the event.                    *)

LEMMA StillRefused ==
  ASSUME ConvBufAssumption, NEW src \in Seq(Record), NEW r \in Record
  PROVE  LET s == Append(src, r)
         IN  /\ Repeated(src) => Repeated(s)
             /\ InvalidPath(src) => InvalidPath(s)
             /\ InvalidExecve(src) => InvalidExecve(s)
<1> DEFINE s == Append(src, r)
<1>1. /\ s \in Seq(Record) /\ Len(src) \in Nat /\ Len(s) = Len(src) + 1
      /\ \A k \in 1 .. Len(src) : s[k] = src[k]
  BY Appended
<1>2. \A t : /\ OfType(src, t) \subseteq OfType(s, t) /\ OfType(src, t) \subseteq 1 .. Len(src)
             /\ \A k \in OfType(s, t) : k \in OfType(src, t) \/ k = Len(src) + 1
  <2> SUFFICES ASSUME NEW t
               PROVE  /\ OfType(src, t) \subseteq OfType(s, t) /\ OfType(src, t) \subseteq 1 .. Len(src)
                      /\ \A k \in OfType(s, t) : k \in OfType(src, t) \/ k = Len(src) + 1
    OBVIOUS
  <2>1. OfType(src, t) \subseteq 1 .. Len(src)
    BY OfTypeBelow
  <2>2. OfType(s, t) = OfType(src, t) \/ OfType(s, t) = OfType(src, t) \union {Len(src) + 1}
    BY OfTypeAppend
  <2> QED
    BY <2>1, <2>2
<1>3. \A k \in 0 .. Len(src) : Args(s)[k] = Args(src)[k]
  BY ArgsAppend
<1> HIDE DEF s
<1>4. Repeated(src) => Repeated(s)
  <2> SUFFICES ASSUME Repeated(src) PROVE Repeated(s)
    OBVIOUS
  <2>1. PICK i, j \in 1 .. Len(src) :
          i # j /\ src[i].type = src[j].type /\ src[i].type \in UniqTypes
    BY DEF Repeated
  <2>2. i \in 1 .. Len(s) /\ j \in 1 .. Len(s) /\ s[i] = src[i] /\ s[j] = src[j]
    BY <1>1
  <2> QED
    BY <2>1, <2>2 DEF Repeated
<1>5. InvalidPath(src) => InvalidPath(s)
  <2> SUFFICES ASSUME InvalidPath(src) PROVE InvalidPath(s)
    OBVIOUS
  <2>1. PICK k \in OfType(src, "PATH") :
          \/ src[k].idx \notin 0 .. MaxIdx
          \/ \E j \in OfType(src, "PATH") : j # k /\ src[j].idx = src[k].idx
    BY DEF InvalidPath
  <2>2. \A j \in OfType(src, "PATH") : j \in OfType(s, "PATH") /\ s[j] = src[j]
    BY <1>1, <1>2
  <2> QED
    BY <2>1, <2>2 DEF InvalidPath
<1>6. InvalidExecve(src) => InvalidExecve(s)
  <2> DEFINE recs == OfType(src, "EXECVE")
             new  == OfType(s, "EXECVE")
  <2>1. \A j \in recs : j \in new /\ s[j] = src[j] /\ j \in 1 .. Len(src)
    BY <1>1, <1>2
  <2>2. \A j \in recs, k \in new : k <= j => k \in recs
    BY <1>1, <1>2
  <2> HIDE DEF recs, new
  <2>3. CASE \E k, j \in recs : k < j /\ src[k].argc > 0 /\ src[j].argc # -1
    BY <2>1, <2>3 DEF InvalidExecve, new
  <2>4. CASE \E j \in recs : src[j].args > 0 /\ \A k \in recs : k <= j => src[k].argc <= 0
    <3>1. PICK j \in recs : src[j].args > 0 /\ \A k \in recs : k <= j => src[k].argc <= 0
      BY <2>4
    <3>2. \A k \in new : k <= j => s[k].argc <= 0
      BY <2>1, <2>2, <3>1
    <3> QED
      BY <2>1, <3>1, <3>2 DEF InvalidExecve, new
  <2>5. CASE \E k \in recs, n \in 1 .. Len(src) : src[k].argc > 0 /\ Args(src)[n] > src[k].argc
    <3>1. PICK k \in recs, n \in 1 .. Len(src) : src[k].argc > 0 /\ Args(src)[n] > src[k].argc
      BY <2>5
    <3>2. n \in 1 .. Len(s) /\ Args(s)[n] = Args(src)[n]
      BY <1>1, <1>3
    <3> QED
      BY <2>1, <3>1, <3>2 DEF InvalidExecve, new
  <2> QED
    BY <2>3, <2>4, <2>5 DEF InvalidExecve, recs
<1> QED
  BY <1>4, <1>5, <1>6 DEF s

-----------------------------------------------------------------------------
(* Output records.                                                         *)

(* An output record is not affected by a record of another type.           *)
LEMMA MadeOfKept ==
  ASSUME NEW src \in Seq(Record), NEW r \in Record, NEW o \in OutputRecords, NEW k,
         MadeOf(src, o, k), o.type # r.type
  PROVE  MadeOf(Append(src, r), o, k)
<1>1. OfType(Append(src, r), o.type) = OfType(src, o.type)
  BY OfTypeAppend
<1>2. \A i \in 1 .. Len(o.from) : o.from[i] \in 1 .. Len(src)
  BY OfTypeBelow DEF MadeOf, Elements
<1>3. \A i \in 1 .. Len(o.from) : Append(src, r)[o.from[i]] = src[o.from[i]]
  BY <1>2, Appended
<1> QED
  BY <1>1, <1>3 DEF MadeOf

(* Another output record, of a type the data does not have.                *)
LEMMA WellMadeAdd ==
  ASSUME NEW src, NEW d \in Seq(OutputRecords), NEW o \in OutputRecords,
         WellMade(src, d), MadeOf(src, o, Len(d) + 1), o.type \notin Types(d)
  PROVE  /\ Append(d, o) \in Seq(OutputRecords) /\ Len(Append(d, o)) = Len(d) + 1
         /\ WellMade(src, Append(d, o))
         /\ Types(Append(d, o)) = Types(d) \union {o.type}
<1> DEFINE a == Append(d, o)
<1>1. /\ a \in Seq(OutputRecords) /\ Len(d) \in Nat /\ Len(a) = Len(d) + 1
      /\ \A k \in 1 .. Len(d) : a[k] = d[k]
      /\ a[Len(d) + 1] = o
  BY Appended
<1> HIDE DEF a
<1>2. \A k \in 1 .. Len(a) : k \in 1 .. Len(d) \/ k = Len(d) + 1
  BY <1>1
<1>3. \A k \in 1 .. Len(d) : d[k].type # o.type
  BY DEF Types
<1>4. WellMade(src, a)
  BY <1>1, <1>2, <1>3 DEF WellMade
<1>5. Types(a) = Types(d) \union {o.type}
  <2>1. \A k \in 1 .. Len(d) : k \in 1 .. Len(a)
    BY <1>1
  <2>2. Len(d) + 1 \in 1 .. Len(a)
    BY <1>1
  <2> QED
    BY <1>1, <1>2, <2>1, <2>2 DEF Types
<1> QED
  BY <1>1, <1>4, <1>5 DEF a

-----------------------------------------------------------------------------
(* The record loop: what each collector does with a record of its own, and *)
(* that it is not affected by those of the others.                         *)

LEMMA OutputOfSeen ==
  ASSUME TypeOK, UniqOK
  PROVE  \A k \in 1 .. Len(data) :
           data[k] \in OutputRecords /\ data[k].type \in seen /\ data[k].type \in UniqTypes
<1>1. data \in Seq(OutputRecords) /\ seen \subseteq UniqTypes
  BY DEF TypeOK
<1>2. \A k \in 1 .. Len(data) : data[k].type \in seen
  BY DEF UniqOK, Types
<1>3. \A k \in 1 .. Len(data) : data[k] \in OutputRecords
  BY <1>1
<1> QED
  BY <1>1, <1>2, <1>3

LEMMA UniqKept ==
  ASSUME ConvBufAssumption, TypeOK, UniqOK, NEW r \in Record, source' = Append(source, r),
         r.type \notin UniqTypes, UNCHANGED <<data, record_num, seen>>
  PROVE  UniqOK'
<1>1. \A k \in 1 .. Len(data) : data[k] \in OutputRecords /\ data[k].type # r.type
  BY OutputOfSeen
<1>2. \A k \in 1 .. Len(data) : MadeOf(source', data[k], k)
  <2>1. source \in Seq(Record) /\ \A k \in 1 .. Len(data) : MadeOf(source, data[k], k)
    BY DEF TypeOK, UniqOK, WellMade
  <2> QED
    BY <1>1, <2>1, MadeOfKept
<1>3. \A t \in UniqTypes : OfType(source', t) = OfType(source, t)
  BY OfTypeAppend DEF TypeOK
<1>4. ~Repeated(source')
  <2>1. /\ Len(source) \in Nat /\ Len(source') = Len(source) + 1
        /\ \A k \in 1 .. Len(source) : source'[k] = source[k]
        /\ source'[Len(source) + 1] = r
    BY Appended DEF TypeOK
  <2>2. \A k \in 1 .. Len(source') : k \in 1 .. Len(source) \/ k = Len(source) + 1
    BY <2>1
  <2> QED
    BY <2>1, <2>2 DEF UniqOK, Repeated
<1> QED
  BY <1>2, <1>3, <1>4 DEF UniqOK, WellMade

LEMMA UniqAdded ==
  ASSUME ConvBufAssumption, TypeOK, UniqOK, NEW r \in Record, source' = Append(source, r),
         r.type \in UniqTypes, r.type \notin seen, seen' = seen \union {r.type},
         data' = Append(data, OutputRecord(r.type, record_num, <<This>>, {})),
         record_num' = record_num + 1
  PROVE  UniqOK'
<1> DEFINE t == r.type
           o == OutputRecord(t, record_num, <<This>>, {})
           n == Len(source) + 1
<1>1. /\ source \in Seq(Record) /\ Len(source) \in Nat
      /\ Len(source') = n /\ n \in Nat
      /\ \A k \in 1 .. Len(source) : source'[k] = source[k]
      /\ source'[n] = r
  <2>1. source \in Seq(Record)
    BY DEF TypeOK
  <2> QED
    BY <2>1, Appended
<1>2. /\ o \in OutputRecords /\ o.type = t /\ (o.separated <=> Len(data) > 0) /\ o.from = <<n>>
      /\ Len(data) \in Nat /\ data \in Seq(OutputRecords)
  <2>1. record_num = Len(data) /\ Len(data) \in Nat /\ data \in Seq(OutputRecords)
    BY DEF TypeOK, UniqOK
  <2>2. t \in OutputTypes
    BY OneCollector
  <2>3. <<n>> \in Seq(Nat) /\ {} \in SUBSET Nat /\ (record_num > 0) \in BOOLEAN
    BY <1>1, Single
  <2> QED
    BY <2>1, <2>2, <2>3 DEF OutputRecord, OutputRecords, This
<1>3. OfType(source', t) = {n}
  <2>1. OfType(source, t) = {}
    BY DEF OfType, UniqOK
  <2>2. source \in Seq(Record)
    BY DEF TypeOK
  <2>3. OfType(source', t) = OfType(source, t) \union {n}
    BY <2>2, OfTypeAppend
  <2> QED
    BY <2>1, <2>3
<1>4. MadeOf(source', o, Len(data) + 1)
  <2>1. Elements(o.from) = {n} /\ Len(o.from) = 1
    BY <1>1, <1>2, Single
  <2>2. o.type \notin Reps
    BY <1>2, OneCollector
  <2> HIDE DEF o, n
  <2>3. o.separated <=> Len(data) + 1 > 1
    BY <1>2
  <2>4. \A i, j \in 1 .. Len(o.from) : ~(i < j)
    BY <2>1
  <2> QED
    BY <1>2, <1>3, <2>1, <2>2, <2>3, <2>4 DEF MadeOf
<1>5. WellMade(source', data)
  <2>1. \A k \in 1 .. Len(data) : data[k] \in OutputRecords /\ data[k].type # r.type
    BY OutputOfSeen
  <2>2. \A k \in 1 .. Len(data) : MadeOf(source, data[k], k)
    BY DEF UniqOK, WellMade
  <2>3. \A k \in 1 .. Len(data) : MadeOf(source', data[k], k)
    BY <1>1, <2>1, <2>2, MadeOfKept
  <2> QED
    BY <2>3 DEF UniqOK, WellMade
<1>6. /\ Len(data') = Len(data) + 1 /\ WellMade(source', data')
      /\ Types(data') = Types(data) \union {t}
  <2>1. o.type \notin Types(data)
    BY <1>2 DEF UniqOK
  <2> HIDE DEF o
  <2>2. data' = Append(data, o)
    BY DEF o
  <2> QED
    BY <1>2, <1>4, <1>5, <2>1, <2>2, WellMadeAdd
<1>7. \A u \in UniqTypes : u \in seen' <=> OfType(source', u) # {}
  <2>1. \A u \in UniqTypes : u # t => OfType(source', u) = OfType(source, u)
    BY <1>1, OfTypeAppend
  <2> QED
    BY <1>3, <2>1 DEF UniqOK
<1>8. ~Repeated(source')
  <2>1. \A k \in 1 .. Len(source) : source[k].type # t
    BY DEF UniqOK, OfType
  <2>2. \A k \in 1 .. Len(source') : k \in 1 .. Len(source) \/ k = n
    BY <1>1
  <2> QED
    BY <1>1, <2>1, <2>2 DEF UniqOK, Repeated
<1>9. record_num' = Len(data') /\ Types(data') = seen'
  BY <1>6 DEF UniqOK
<1> QED
  BY <1>6, <1>7, <1>8, <1>9 DEF UniqOK

LEMMA RepKept ==
  ASSUME ConvBufAssumption, TypeOK, RepOK, NEW r \in Record, source' = Append(source, r),
         r.type \notin Reps, UNCHANGED items
  PROVE  RepOK'
<1>1. \A t \in Reps : OfType(source', t) = OfType(source, t)
  BY OfTypeAppend DEF TypeOK
<1>2. items' = items
  OBVIOUS
<1> QED
  BY <1>1, <1>2 DEF RepOK

LEMMA PathKept ==
  ASSUME ConvBufAssumption, TypeOK, PathOK, NEW r \in Record, source' = Append(source, r),
         r.type # "PATH", UNCHANGED path
  PROVE  PathOK'
<1>1. OfType(source', "PATH") = OfType(source, "PATH")
  BY OfTypeAppend DEF TypeOK
<1>2. \A k \in OfType(source, "PATH") : source'[k] = source[k]
  BY Appended, OfTypeBelow DEF TypeOK
<1> QED
  BY <1>1, <1>2 DEF PathOK

LEMMA CountedSome ==
  ASSUME NEW src, NEW held, held.num > 0, NEW k \in OfType(src, "EXECVE"), src[k].argc = held.num,
         \A j \in OfType(src, "EXECVE") : /\ j < k => src[j].argc <= 0 /\ src[j].args = 0
                                          /\ j > k => src[j].argc = -1
  PROVE  Counted(src, held)
BY DEF Counted

LEMMA SameCount ==
  ASSUME NEW src, NEW s, NEW held, Counted(src, held),
         OfType(s, "EXECVE") = OfType(src, "EXECVE"),
         \A j \in OfType(src, "EXECVE") : s[j].argc = src[j].argc /\ s[j].args = src[j].args
  PROVE  Counted(s, held)
<1> DEFINE recs == OfType(src, "EXECVE")
<1>1. CASE held.num = 0 /\ held.idx = 0 /\ \A j \in recs : src[j].argc <= 0 /\ src[j].args = 0
  BY <1>1 DEF Counted
<1>2. ASSUME held.num > 0, NEW k \in recs, src[k].argc = held.num,
             \A j \in recs : /\ j < k => src[j].argc <= 0 /\ src[j].args = 0
                             /\ j > k => src[j].argc = -1
      PROVE  Counted(s, held)
  <2>1. \A j \in recs : /\ j < k => s[j].argc <= 0 /\ s[j].args = 0
                        /\ j > k => s[j].argc = -1
    BY <1>2
  <2>2. s[k].argc = held.num /\ OfType(s, "EXECVE") = recs
    BY <1>2
  <2> HIDE DEF recs
  <2> QED
    BY <1>2, <2>1, <2>2 DEF Counted
<1> QED
  BY <1>1, <1>2 DEF Counted

LEMMA ExecveKept ==
  ASSUME ConvBufAssumption, TypeOK, ExecveOK, NEW r \in Record, source' = Append(source, r),
         r.type # "EXECVE", UNCHANGED execve
  PROVE  ExecveOK'
<1>1. OfType(source', "EXECVE") = OfType(source, "EXECVE")
  BY OfTypeAppend DEF TypeOK
<1>2. \A k \in OfType(source, "EXECVE") : source'[k] = source[k]
  BY Appended, OfTypeBelow DEF TypeOK
<1>3. Args(source')[Len(source')] = Args(source)[Len(source)]
  <2>1. source \in Seq(Record) /\ Len(source) \in 0 .. Len(source)
    BY DEF TypeOK
  <2>2. Args(source)[Len(source)] \in Nat
    BY <2>1, ArgsGrow
  <2>3. Args(source')[Len(source')] = Args(source)[Len(source)] + ArgsOf(r) /\ ArgsOf(r) = 0
    BY <2>1, ArgsAppend DEF ArgsOf
  <2> QED
    BY <2>2, <2>3
<1>4. Counted(source', execve)
  <2>1. \A j \in OfType(source, "EXECVE") :
          source'[j].argc = source[j].argc /\ source'[j].args = source[j].args
    BY <1>2
  <2> QED
    BY <1>1, <2>1, SameCount DEF ExecveOK
<1> QED
  BY <1>1, <1>3, <1>4 DEF ExecveOK

Item == [record : Nat, comma : BOOLEAN]

(* However few nodes can be added, an item has a comma but for the first.  *)
LEMMA ItemAdded ==
  ASSUME NEW held \in [nodes : Nat, list : Seq(Item)], NEW n \in Nat, NEW recs,
         recs \subseteq 1 .. n, ItemsOf(held, recs),
         NEW grown \in {0, 1}, held.nodes = 0 => grown = 1
  PROVE  LET new == [nodes |-> held.nodes + grown,
                     list |-> Append(held.list, [record |-> n + 1, comma |-> held.nodes > 0])]
         IN  /\ new \in [nodes : Nat, list : Seq(Item)]
             /\ ItemsOf(new, recs \union {n + 1})
<1> DEFINE list == held.list
           e == [record |-> n + 1, comma |-> held.nodes > 0]
           a == Append(list, e)
           L == Len(list)
<1>1. /\ list \in Seq(Item) /\ e \in Item /\ held.nodes \in Nat /\ L \in Nat
      /\ e.record = n + 1 /\ (e.comma <=> held.nodes > 0)
  <2>1. list \in Seq(Item) /\ held.nodes \in Nat
    OBVIOUS
  <2>2. L \in Nat
    BY <2>1
  <2>3. n + 1 \in Nat /\ (held.nodes > 0) \in BOOLEAN
    OBVIOUS
  <2>4. e \in Item
    BY <2>3 DEF Item
  <2>5. e.record = n + 1 /\ e.comma = (held.nodes > 0)
    OBVIOUS
  <2> QED
    BY <2>1, <2>2, <2>4, <2>5
<1>2. /\ a \in Seq(Item) /\ Len(a) = L + 1 /\ (\A k \in 1 .. L : a[k] = list[k]) /\ a[L + 1] = e
  <2> HIDE DEF e, list
  <2> QED
    BY <1>1, Appended
<1>3. /\ held.nodes > 0 <=> L > 0
      /\ {list[k].record : k \in 1 .. L} = recs
      /\ \A k \in 1 .. L : list[k].comma <=> k > 1
      /\ \A i, j \in 1 .. L : i < j => list[i].record < list[j].record
  BY DEF ItemsOf
<1> HIDE DEF list, e, a, L
<1>4. \A k \in 1 .. Len(a) : k \in 1 .. L \/ k = L + 1
  BY <1>1, <1>2
<1>5. \A k \in 1 .. L : k \in 1 .. Len(a)
  BY <1>1, <1>2
<1>6. {a[k].record : k \in 1 .. Len(a)} = recs \union {n + 1}
  <2>1. L + 1 \in 1 .. Len(a)
    BY <1>1, <1>2
  <2> QED
    BY <1>1, <1>2, <1>3, <1>4, <1>5, <2>1
<1>7. \A k \in 1 .. Len(a) : a[k].comma <=> k > 1
  BY <1>1, <1>2, <1>3, <1>4
<1>8. \A i, j \in 1 .. Len(a) : i < j => a[i].record < a[j].record
  <2> SUFFICES ASSUME NEW i \in 1 .. Len(a), NEW j \in 1 .. Len(a), i < j
               PROVE  a[i].record < a[j].record
    OBVIOUS
  <2>1. i \in 1 .. L
    BY <1>1, <1>2, <1>4
  <2>2. list[i].record \in 1 .. n
    BY <1>3, <2>1
  <2>3. CASE j \in 1 .. L
    BY <1>2, <1>3, <2>1, <2>3
  <2>4. CASE j = L + 1
    BY <1>1, <1>2, <2>1, <2>2, <2>4
  <2> QED
    BY <1>4, <2>3, <2>4
<1> DEFINE new == [nodes |-> held.nodes + grown, list |-> a]
<1>9. /\ new.nodes = held.nodes + grown /\ new.list = a
      /\ new \in [nodes : Nat, list : Seq(Item)]
  BY <1>1, <1>2
<1>10. new.nodes > 0 <=> Len(a) > 0
  BY <1>1, <1>2, <1>9
<1> HIDE DEF new
<1>11. ItemsOf(new, recs \union {n + 1})
  BY <1>6, <1>7, <1>8, <1>9, <1>10 DEF ItemsOf
<1> QED
  BY <1>9, <1>11 DEF new, a, e, list

LEMMA RepAdded ==
  ASSUME ConvBufAssumption, TypeOK, RepOK, NEW r \in Record, source' = Append(source, r),
         r.type \in Reps, AddRep(r.type)
  PROVE  RepOK' /\ items' \in [Reps -> [nodes : Nat, list : Seq(Item)]]
<1> DEFINE t == r.type
<1>1. PICK grown \in IF items[t].nodes + 1 < NodeMin THEN {1} ELSE {0, 1} :
        items' = [items EXCEPT ![t] =
                    [nodes |-> @.nodes + grown,
                     list  |-> Append(@.list, [record |-> This, comma |-> @.nodes > 0])]]
  BY DEF AddRep
<1>2. source \in Seq(Record) /\ Len(source) \in Nat
  BY DEF TypeOK
<1>3. items \in [Reps -> [nodes : Nat, list : Seq(Item)]]
  BY DEF TypeOK, Item
<1> DEFINE held == items[t]
           n == Len(source)
           new == [nodes |-> held.nodes + grown,
                   list |-> Append(held.list, [record |-> n + 1, comma |-> held.nodes > 0])]
<1>4. items' = [items EXCEPT ![t] = new]
  BY <1>1 DEF This
<1>5. held \in [nodes : Nat, list : Seq(Item)]
  BY <1>3
<1>6. grown \in {0, 1} /\ (held.nodes = 0 => grown = 1)
  BY <1>1, <1>5 DEF ConvBufAssumption
<1>7. ItemsOf(held, OfType(source, t)) /\ OfType(source, t) \subseteq 1 .. n
  BY <1>2, OfTypeBelow DEF RepOK
<1>8. /\ new \in [nodes : Nat, list : Seq(Item)]
      /\ ItemsOf(new, OfType(source, t) \union {n + 1})
  <2> HIDE DEF held, n
  <2> QED
    BY <1>2, <1>5, <1>6, <1>7, ItemAdded DEF n
<1> HIDE DEF new
<1>9. OfType(source', t) = OfType(source, t) \union {n + 1}
  BY <1>2, OfTypeAppend
<1>10. \A u \in Reps : u # t => OfType(source', u) = OfType(source, u)
  BY <1>2, OfTypeAppend
<1>11. /\ items' \in [Reps -> [nodes : Nat, list : Seq(Item)]]
       /\ items'[t] = new /\ \A u \in Reps : u # t => items'[u] = items[u]
  BY <1>3, <1>4, <1>8
<1>12. \A u \in Reps : ItemsOf(items'[u], OfType(source', u))
  <2> SUFFICES ASSUME NEW u \in Reps PROVE ItemsOf(items'[u], OfType(source', u))
    OBVIOUS
  <2>1. CASE u = t
    BY <1>8, <1>9, <1>11, <2>1
  <2>2. CASE u # t
    BY <1>10, <1>11, <2>2 DEF RepOK
  <2> QED
    BY <2>1, <2>2
<1> QED
  BY <1>11, <1>12 DEF RepOK

LEMMA PathAdded ==
  ASSUME ConvBufAssumption, TypeOK, PathOK, NEW r \in Record, source' = Append(source, r),
         r.type = "PATH", r.idx \in 0 .. MaxIdx, r.idx \notin DOMAIN path,
         path' = [j \in DOMAIN path \union {r.idx} |-> IF j = r.idx THEN This ELSE path[j]]
  PROVE  /\ PathOK'
         /\ path' \in [DOMAIN path' -> Nat] /\ DOMAIN path' \subseteq 0 .. MaxIdx
<1> DEFINE n == Len(source)
<1>1. /\ n \in Nat /\ source'[n + 1] = r
      /\ \A k \in 1 .. n : source'[k] = source[k]
  BY Appended DEF TypeOK
<1>2. /\ OfType(source', "PATH") = OfType(source, "PATH") \union {n + 1}
      /\ OfType(source, "PATH") \subseteq 1 .. n
  BY OfTypeAppend, OfTypeBelow DEF TypeOK
<1>3. /\ DOMAIN path' = DOMAIN path \union {r.idx} /\ path'[r.idx] = n + 1
      /\ \A j \in DOMAIN path : j # r.idx /\ path'[j] = path[j]
  BY DEF This
<1> HIDE DEF n
<1>4. path' \in [DOMAIN path' -> Nat] /\ DOMAIN path' \subseteq 0 .. MaxIdx
  <2>1. DOMAIN path \subseteq 0 .. MaxIdx /\ \A j \in DOMAIN path : path[j] \in Nat
    BY DEF TypeOK
  <2>2. \A j \in DOMAIN path \union {r.idx} : (IF j = r.idx THEN This ELSE path[j]) \in Nat
    BY <1>1, <2>1 DEF This, n
  <2> QED
    BY <1>3, <2>1, <2>2
<1>5. ASSUME NEW i \in DOMAIN path'
      PROVE  path'[i] \in OfType(source', "PATH") /\ source'[path'[i]].idx = i
  <2>1. CASE i = r.idx
    BY <1>1, <1>2, <1>3, <2>1
  <2>2. CASE i \in DOMAIN path
    <3>1. path[i] \in OfType(source, "PATH") /\ source[path[i]].idx = i /\ path'[i] = path[i]
      BY <1>3, <2>2 DEF PathOK
    <3> QED
      BY <1>1, <1>2, <3>1
  <2> QED
    BY <1>3, <2>1, <2>2
<1>6. ASSUME NEW k \in OfType(source', "PATH")
      PROVE  source'[k].idx \in DOMAIN path' /\ path'[source'[k].idx] = k
  <2>1. CASE k = n + 1
    BY <1>1, <1>3, <2>1
  <2>2. CASE k \in OfType(source, "PATH")
    <3>1. source[k].idx \in DOMAIN path /\ path[source[k].idx] = k /\ source'[k] = source[k]
      BY <1>1, <1>2, <2>2 DEF PathOK
    <3> QED
      BY <1>3, <3>1
  <2> QED
    BY <1>2, <2>1, <2>2
<1> QED
  BY <1>4, <1>5, <1>6 DEF PathOK

(* An item is refused if it is out of bounds, or there already.            *)
LEMMA PathRefused ==
  ASSUME ConvBufAssumption, TypeOK, PathOK, NEW r \in Record, source' = Append(source, r),
         r.type = "PATH", ~(r.idx \in 0 .. MaxIdx /\ r.idx \notin DOMAIN path)
  PROVE  InvalidPath(source')
<1> DEFINE n == Len(source)
<1>1. /\ n \in Nat /\ source'[n + 1] = r
      /\ \A k \in 1 .. n : source'[k] = source[k]
  BY Appended DEF TypeOK
<1>2. /\ OfType(source', "PATH") = OfType(source, "PATH") \union {n + 1}
      /\ OfType(source, "PATH") \subseteq 1 .. n
  BY OfTypeAppend, OfTypeBelow DEF TypeOK
<1> HIDE DEF n
<1>3. CASE r.idx \notin 0 .. MaxIdx
  BY <1>1, <1>2, <1>3 DEF InvalidPath
<1>4. CASE r.idx \in DOMAIN path
  <2>1. PICK m \in OfType(source, "PATH") : source[m].idx = r.idx
    BY <1>4 DEF PathOK
  <2>2. m \in 1 .. n
    BY <1>2, <2>1
  <2>3. m # n + 1 /\ source'[m] = source[m]
    <3>1. \A k \in 1 .. n : k # n + 1
      BY <1>1
    <3> QED
      BY <1>1, <2>2, <3>1
  <2>4. m \in OfType(source', "PATH") /\ n + 1 \in OfType(source', "PATH")
    BY <1>2, <2>1
  <2>5. source'[m].idx = source'[n + 1].idx
    BY <1>1, <2>1, <2>3
  <2> QED
    BY <2>3, <2>4, <2>5 DEF InvalidPath
<1> QED
  BY <1>3, <1>4

(* Another record that fits the count.                                     *)
LEMMA CountedAdded ==
  ASSUME ConvBufAssumption, NEW src \in Seq(Record), NEW r \in Record, r.type = "EXECVE",
         NEW held, held.num \in Nat, held.idx \in Nat, Counted(src, held),
         NEW num, num = IF r.argc >= 0 THEN r.argc ELSE held.num,
         r.argc >= 0 => held.num = 0, held.idx + r.args <= num,
         NEW h, h.num = num, h.idx = held.idx + r.args
  PROVE  Counted(Append(src, r), h)
<1> DEFINE s == Append(src, r)
           n == Len(src)
           recs == OfType(src, "EXECVE")
           new  == OfType(s, "EXECVE")
<1> SUFFICES Counted(s, h)
  OBVIOUS
<1>1. n \in Nat /\ s[n + 1] = r /\ \A k \in 1 .. n : s[k] = src[k]
  BY Appended
<1>2. new = recs \union {n + 1} /\ recs \subseteq 1 .. n
  <2>1. recs \subseteq 1 .. n
    BY OfTypeBelow
  <2> QED
    BY <2>1, OfTypeAppend
<1>3. r.argc \in Int /\ r.argc >= -1 /\ r.args \in Nat
  BY RecordFields
<1> HIDE DEF s, n, recs, new
<1>4. \A j \in recs : j < n + 1 /\ s[j] = src[j]
  <2>1. \A j \in 1 .. n : j < n + 1
    BY <1>1
  <2> QED
    BY <1>1, <1>2, <2>1
<1>5. /\ n + 1 \in new /\ recs \subseteq new
      /\ \A j \in new : j \in recs \/ j = n + 1
  BY <1>2
<1>6. CASE held.num = 0 /\ held.idx = 0 /\ \A j \in recs : src[j].argc <= 0 /\ src[j].args = 0
  <2>1. \A j \in recs : s[j].argc <= 0 /\ s[j].args = 0
    BY <1>4, <1>6
  <2>2. CASE r.argc <= 0
    <3>1. num = 0 /\ r.args = 0
      BY <1>3, <1>6, <2>2
    <3>2. \A j \in new : s[j].argc <= 0 /\ s[j].args = 0
      BY <1>1, <1>5, <2>1, <2>2, <3>1
    <3>3. h.num = 0 /\ h.idx = 0
      BY <1>6, <3>1
    <3>4. \A j \in OfType(s, "EXECVE") : s[j].argc <= 0 /\ s[j].args = 0
      BY <3>2 DEF new
    <3> QED
      BY <3>3, <3>4, Zenon DEF Counted
  <2>3. CASE r.argc > 0
    <3>1. h.num = r.argc /\ h.num > 0
      BY <1>3, <2>3
    <3>2. s[n + 1].argc = h.num
      BY <1>1, <3>1
    <3>3. \A j \in new : /\ j < n + 1 => s[j].argc <= 0 /\ s[j].args = 0
                         /\ j > n + 1 => s[j].argc = -1
      <4>1. ~(n + 1 < n + 1) /\ ~(n + 1 > n + 1) /\ \A j \in recs : ~(j > n + 1)
        <5>1. \A j \in 1 .. n : ~(j > n + 1)
          BY <1>1
        <5> QED
          BY <1>1, <1>2, <5>1
      <4> QED
        BY <1>5, <2>1, <4>1
    <3>4. n + 1 \in OfType(s, "EXECVE")
      BY <1>5 DEF new
    <3>5. \A j \in OfType(s, "EXECVE") : /\ j < n + 1 => s[j].argc <= 0 /\ s[j].args = 0
                                         /\ j > n + 1 => s[j].argc = -1
      BY <3>3 DEF new
    <3> QED
      BY <3>1, <3>2, <3>4, <3>5, CountedSome
  <2> QED
    BY <1>3, <2>2, <2>3
<1>7. ASSUME held.num > 0, NEW k \in recs, src[k].argc = held.num,
             \A j \in recs : /\ j < k => src[j].argc <= 0 /\ src[j].args = 0
                             /\ j > k => src[j].argc = -1
      PROVE  Counted(s, h)
  <2>1. r.argc = -1 /\ num = held.num
    BY <1>3, <1>7
  <2>2. \A j \in recs : /\ j < k => s[j].argc <= 0 /\ s[j].args = 0
                        /\ j > k => s[j].argc = -1
    BY <1>4, <1>7
  <2>3. ~(n + 1 < k) /\ s[n + 1].argc = -1
    <3>1. \A j \in 1 .. n : ~(n + 1 < j)
      BY <1>1
    <3> QED
      BY <1>1, <1>2, <1>7, <2>1, <3>1
  <2>4. \A j \in new : /\ j < k => s[j].argc <= 0 /\ s[j].args = 0
                       /\ j > k => s[j].argc = -1
    BY <1>5, <2>2, <2>3
  <2>5. k \in new /\ s[k].argc = h.num /\ h.num > 0
    BY <1>4, <1>5, <1>7, <2>1
  <2>6. k \in OfType(s, "EXECVE")
    BY <2>5 DEF new
  <2>7. \A j \in OfType(s, "EXECVE") : /\ j < k => s[j].argc <= 0 /\ s[j].args = 0
                                       /\ j > k => s[j].argc = -1
    BY <2>4 DEF new
  <2> QED
    BY <2>5, <2>6, <2>7, CountedSome
<1> QED
  BY <1>6, <1>7 DEF Counted, recs

(* The collector has counted the arguments of the records it has taken.    *)
LEMMA ExecveAdded ==
  ASSUME ConvBufAssumption, TypeOK, ExecveOK, NEW r \in Record, source' = Append(source, r),
         r.type = "EXECVE", NEW num, num = IF r.argc >= 0 THEN r.argc ELSE execve.num,
         r.argc >= 0 => execve.num = 0, execve.idx + r.args <= num,
         execve' = [num |-> num, idx |-> execve.idx + r.args, taken |-> Append(execve.taken, This)]
  PROVE  /\ ExecveOK'
         /\ execve' \in [num : Nat, idx : Nat, taken : Seq(Nat)]
<1> DEFINE n == Len(source)
           recs == OfType(source, "EXECVE")
           new  == OfType(source', "EXECVE")
           taken == execve.taken
           a == Append(taken, n + 1)
<1>1. /\ source \in Seq(Record) /\ n \in Nat /\ source'[n + 1] = r
      /\ \A k \in 1 .. n : source'[k] = source[k]
  BY Appended DEF TypeOK
<1>2. new = recs \union {n + 1} /\ recs \subseteq 1 .. n
  BY OfTypeAppend, OfTypeBelow DEF TypeOK
<1>3. r.argc \in Int /\ r.argc >= -1 /\ r.args \in Nat
  BY RecordFields
<1>4. execve.num \in Nat /\ execve.idx \in Nat /\ taken \in Seq(Nat)
  BY DEF TypeOK
<1>5. num \in Nat /\ execve.idx + r.args \in Nat
  BY <1>3, <1>4
<1>6. /\ execve'.num = num /\ execve'.idx = execve.idx + r.args
      /\ execve'.taken = a
  BY DEF This
<1>7. /\ a \in Seq(Nat)
      /\ Elements(a) = Elements(taken) \union {n + 1}
      /\ \A i, j \in 1 .. Len(a) : i < j => a[i] < a[j]
  <2>1. n + 1 \in Nat /\ \A i \in 1 .. n : i < n + 1
    BY <1>1
  <2>2. /\ Elements(taken) = recs
        /\ \A i, j \in 1 .. Len(taken) : i < j => taken[i] < taken[j]
    BY DEF ExecveOK
  <2> HIDE DEF taken, n, recs
  <2>3. \A i \in Elements(taken) : i < n + 1
    BY <1>2, <2>1, <2>2
  <2> QED
    BY <1>4, <2>1, <2>2, <2>3, AppendIncreasing
<1>8. execve' \in [num : Nat, idx : Nat, taken : Seq(Nat)]
  BY <1>5, <1>7 DEF This
<1> HIDE DEF a, n, recs, new, taken
<1>10. Elements(a) = new
  BY <1>2, <1>7 DEF ExecveOK, taken, recs
<1>11. \A i, j \in 1 .. Len(a) : i < j => a[i] < a[j]
  BY <1>7
<1>12. execve'.idx = Args(source')[Len(source')]
  <2>1. execve.idx = Args(source)[Len(source)]
    BY DEF ExecveOK
  <2>2. Args(source')[Len(source')] = Args(source)[Len(source)] + r.args
    BY <1>1, ArgsAppend DEF ArgsOf
  <2> QED
    BY <1>6, <2>1, <2>2
<1>13. Counted(source', execve')
  <2>1. Counted(source, execve)
    BY DEF ExecveOK
  <2>2. Counted(Append(source, r), execve')
    BY <1>1, <1>4, <1>6, <2>1, CountedAdded
  <2> QED
    BY <2>2
<1> QED
  BY <1>6, <1>8, <1>10, <1>11, <1>12, <1>13 DEF ExecveOK, new

(* A record is refused if it gives the number of arguments again, or if    *)
(* there are more of them than there are to be.                            *)
LEMMA ExecveRefused ==
  ASSUME ConvBufAssumption, TypeOK, ExecveOK, NEW r \in Record, source' = Append(source, r),
         r.type = "EXECVE", NEW num, num = IF r.argc >= 0 THEN r.argc ELSE execve.num,
         ~((r.argc >= 0 => execve.num = 0) /\ execve.idx + r.args <= num)
  PROVE  InvalidExecve(source')
<1> DEFINE n == Len(source)
           recs == OfType(source, "EXECVE")
           new  == OfType(source', "EXECVE")
<1>1. /\ source \in Seq(Record) /\ n \in Nat /\ source'[n + 1] = r /\ Len(source') = n + 1
      /\ \A k \in 1 .. n : source'[k] = source[k]
  BY Appended DEF TypeOK
<1>2. new = recs \union {n + 1} /\ recs \subseteq 1 .. n
  BY OfTypeAppend, OfTypeBelow DEF TypeOK
<1>3. r.argc \in Int /\ r.argc >= -1 /\ r.args \in Nat
  BY RecordFields
<1>4. execve.num \in Nat /\ execve.idx \in Nat
  BY DEF TypeOK
<1>5. Args(source')[n + 1] = execve.idx + r.args
  <2>1. execve.idx = Args(source)[Len(source)]
    BY DEF ExecveOK
  <2>2. Args(source')[Len(source')] = Args(source)[Len(source)] + r.args
    BY <1>1, ArgsAppend DEF ArgsOf
  <2> QED
    BY <1>1, <2>1, <2>2
<1>6. \A j \in recs : j \in 1 .. n /\ j < n + 1 /\ source'[j] = source[j]
  <2>1. \A j \in 1 .. n : j < n + 1
    BY <1>1
  <2> QED
    BY <1>1, <1>2, <2>1
<1>7. n + 1 \in new /\ recs \subseteq new /\ n + 1 \in 1 .. Len(source')
  BY <1>1, <1>2
<1>8. \A j \in new : j \in recs \/ j = n + 1
  BY <1>2
<1> HIDE DEF n, recs, new
<1>9. CASE r.argc > 0 /\ execve.num = 0
  <2>1. source'[n + 1].argc > 0 /\ Args(source')[n + 1] > source'[n + 1].argc
    BY <1>1, <1>3, <1>4, <1>5, <1>9
  <2> QED
    BY <1>7, <2>1 DEF InvalidExecve, new
<1>10. CASE r.argc <= 0 /\ execve.num = 0
  <2>1. execve.idx = 0 /\ \A j \in recs : source[j].argc <= 0
    BY <1>10 DEF ExecveOK, Counted, recs
  <2>2. r.args > 0
    BY <1>3, <1>4, <1>10, <2>1
  <2>3. \A k \in new : source'[k].argc <= 0
    BY <1>1, <1>6, <1>8, <1>10, <2>1
  <2> QED
    BY <1>1, <1>7, <2>2, <2>3 DEF InvalidExecve, new
<1>11. CASE execve.num > 0
  <2>1. PICK k \in recs : source[k].argc = execve.num
    BY <1>11 DEF ExecveOK, Counted, recs
  <2>2. k \in new /\ k < n + 1 /\ source'[k].argc = execve.num /\ source'[k].argc > 0
    BY <1>6, <1>7, <1>11, <2>1
  <2>3. CASE r.argc >= 0
    <3>1. source'[n + 1].argc # -1
      BY <1>1, <1>3, <2>3
    <3> QED
      BY <1>7, <2>2, <3>1 DEF InvalidExecve, new
  <2>4. CASE ~(r.argc >= 0)
    <3>1. execve.idx + r.args > execve.num
      BY <1>3, <1>4, <2>4
    <3>2. Args(source')[n + 1] > source'[k].argc
      BY <1>5, <2>2, <3>1
    <3> QED
      BY <1>7, <2>2, <3>2 DEF InvalidExecve, new
  <2> QED
    BY <2>3, <2>4
<1> QED
  BY <1>3, <1>4, <1>9, <1>10, <1>11

LEMMA UniqRefused ==
  ASSUME ConvBufAssumption, TypeOK, UniqOK, NEW r \in Record, source' = Append(source, r),
         r.type \in UniqTypes, r.type \in seen
  PROVE  Repeated(source')
<1> DEFINE n == Len(source)
<1>1. /\ n \in Nat /\ Len(source') = n + 1 /\ source'[n + 1] = r
      /\ \A k \in 1 .. n : source'[k] = source[k]
  BY Appended DEF TypeOK
<1>2. PICK m \in 1 .. n : source[m].type = r.type
  BY DEF UniqOK, OfType
<1>3. m \in 1 .. n + 1 /\ n + 1 \in 1 .. n + 1 /\ m # n + 1
  BY <1>1, <1>2
<1> HIDE DEF n
<1> QED
  BY <1>1, <1>2, <1>3 DEF Repeated

-----------------------------------------------------------------------------
(* A turn of the record loop keeps the invariant.                          *)

LoopTypeOK ==
  /\ data \in Seq(OutputRecords)
  /\ record_num \in Nat
  /\ error_rc \in {"OK"} \union Errors
  /\ seen \subseteq UniqTypes
  /\ items \in [Reps -> [nodes : Nat, list : Seq(Item)]]
  /\ path \in [DOMAIN path -> Nat] /\ DOMAIN path \subseteq 0 .. MaxIdx
  /\ execve \in [num : Nat, idx : Nat, taken : Seq(Nat)]

LoopOK ==
  /\ LoopTypeOK
  /\ error_rc = "OK" => UniqOK /\ RepOK /\ PathOK /\ ExecveOK
  /\ FailedOK

LEMMA TypeParts ==
  TypeOK <=> /\ LoopTypeOK
             /\ with_text \in BOOLEAN /\ pc \in {"idle", "records"} /\ source \in Seq(Record)
BY DEF TypeOK, LoopTypeOK, Item

(* A collector that refuses a record for a reason.                         *)
LEMMA RefusedOK ==
  ASSUME LoopTypeOK, NEW code, Refused(code), code \in Errors,
         code = "REPEATED_RECORD" => Repeated(source'),
         code = "INVALID_PATH" => InvalidPath(source'),
         code = "INVALID_EXECVE" => InvalidExecve(source')
  PROVE  LoopOK'
<1>1. /\ error_rc' = code /\ UNCHANGED <<data, record_num>>
      /\ seen' = seen /\ items' = items /\ path' = path /\ execve' = execve
  BY DEF Refused, collectors
<1>2. LoopTypeOK'
  BY <1>1 DEF LoopTypeOK
<1>3. error_rc' # "OK"
  BY <1>1 DEF Errors
<1> QED
  BY <1>1, <1>2, <1>3 DEF LoopOK, FailedOK

LEMMA AddUniqOK ==
  ASSUME ConvBufAssumption, TypeOK, UniqOK, RepOK, PathOK, ExecveOK,
         NEW r \in Record, source' = Append(source, r), r.type \in UniqTypes, AddUniq(r.type)
  PROVE  LoopOK'
<1> DEFINE t == r.type
<1>1. LoopTypeOK
  BY TypeParts
<1>2. CASE t \in seen /\ Refused("REPEATED_RECORD")
  BY <1>1, <1>2, UniqRefused, RefusedOK DEF Errors
<1>3. ASSUME t \notin seen, seen' = seen \union {t}, UNCHANGED <<items, path, execve>>,
             data' = Append(data, OutputRecord(t, record_num, <<This>>, {})),
             record_num' = record_num + 1, error_rc' = "OK"
      PROVE  LoopOK'
  <2>1. UniqOK'
    BY <1>3, UniqAdded
  <2>2. RepOK' /\ PathOK' /\ ExecveOK'
    BY <1>3, OneCollector, RepKept, PathKept, ExecveKept
  <2>3. OutputRecord(t, record_num, <<This>>, {}) \in OutputRecords
    <3>1. t \in OutputTypes /\ {} \in SUBSET Nat /\ (record_num > 0) \in BOOLEAN
      <4>1. t \in OutputTypes
        BY OneCollector
      <4> QED
        BY <4>1
    <3>2. <<This>> \in Seq(Nat)
      <4>1. This \in Nat
        BY DEF TypeOK, This
      <4> QED
        BY <4>1, Single
    <3> QED
      BY <3>1, <3>2 DEF OutputRecord, OutputRecords
  <2>4. data' \in Seq(OutputRecords)
    BY <1>1, <1>3, <2>3, Appended DEF LoopTypeOK
  <2>5. record_num' \in Nat /\ seen' \subseteq UniqTypes /\ error_rc' \in {"OK"} \union Errors
    BY <1>1, <1>3 DEF LoopTypeOK
  <2>6. items' = items /\ path' = path /\ execve' = execve
    BY <1>3
  <2>7. LoopTypeOK'
    BY <1>1, <2>4, <2>5, <2>6 DEF LoopTypeOK
  <2> QED
    BY <1>3, <2>1, <2>2, <2>7 DEF LoopOK, FailedOK
<1>4. ASSUME seen' = seen \union {t}, UNCHANGED <<data, record_num, items, path, execve>>,
             error_rc' \in {"NOMEM", "AUPARSE_FAILED"}
      PROVE  LoopOK'
  <2>1. LoopTypeOK'
    BY <1>1, <1>4 DEF LoopTypeOK, Errors
  <2> QED
    BY <1>4, <2>1 DEF LoopOK, FailedOK
<1> QED
  BY <1>2, <1>3, <1>4 DEF AddUniq

LEMMA AddRepOK ==
  ASSUME ConvBufAssumption, TypeOK, UniqOK, RepOK, PathOK, ExecveOK,
         NEW r \in Record, source' = Append(source, r), r.type \in Reps, AddRep(r.type)
  PROVE  LoopOK'
<1>1. UNCHANGED <<data, record_num, seen, path, execve>> /\ error_rc' = "OK"
  BY DEF AddRep, Stored
<1>2. r.type \notin UniqTypes /\ r.type # "PATH" /\ r.type # "EXECVE"
  BY OneCollector
<1>3. RepOK' /\ items' \in [Reps -> [nodes : Nat, list : Seq(Item)]]
  BY RepAdded
<1>4. UniqOK' /\ PathOK' /\ ExecveOK'
  BY <1>1, <1>2, UniqKept, PathKept, ExecveKept
<1>5. LoopTypeOK'
  BY <1>1, <1>3, TypeParts DEF LoopTypeOK
<1> QED
  BY <1>1, <1>3, <1>4, <1>5 DEF LoopOK, FailedOK

LEMMA AddPathOK ==
  ASSUME ConvBufAssumption, TypeOK, UniqOK, RepOK, PathOK, ExecveOK,
         NEW r \in Record, source' = Append(source, r), r.type = "PATH", AddPath(r.idx)
  PROVE  LoopOK'
<1>1. LoopTypeOK
  BY TypeParts
<1>2. r.type \notin UniqTypes /\ r.type \notin Reps
  BY OneCollector
<1>3. CASE ~(r.idx \in 0 .. MaxIdx /\ r.idx \notin DOMAIN path) /\ Refused("INVALID_PATH")
  BY <1>1, <1>3, PathRefused, RefusedOK DEF Errors
<1>4. ASSUME r.idx \in 0 .. MaxIdx, r.idx \notin DOMAIN path, Stored, UNCHANGED <<seen, items, execve>>,
             path' = [j \in DOMAIN path \union {r.idx} |-> IF j = r.idx THEN This ELSE path[j]]
      PROVE  LoopOK'
  <2>1. UNCHANGED <<data, record_num>> /\ error_rc' = "OK"
    BY <1>4 DEF Stored
  <2>2. PathOK' /\ path' \in [DOMAIN path' -> Nat] /\ DOMAIN path' \subseteq 0 .. MaxIdx
    BY <1>4, PathAdded
  <2>3. UniqOK' /\ RepOK' /\ ExecveOK'
    BY <1>2, <1>4, <2>1, UniqKept, RepKept, ExecveKept
  <2>4. LoopTypeOK'
    BY <1>1, <1>4, <2>1, <2>2 DEF LoopTypeOK
  <2> QED
    BY <2>1, <2>2, <2>3, <2>4 DEF LoopOK, FailedOK
<1> QED
  BY <1>3, <1>4 DEF AddPath

LEMMA AddExecveOK ==
  ASSUME ConvBufAssumption, TypeOK, UniqOK, RepOK, PathOK, ExecveOK,
         NEW r \in Record, source' = Append(source, r), r.type = "EXECVE", AddExecve(r.argc, r.args)
  PROVE  LoopOK'
<1> DEFINE num  == IF r.argc >= 0 THEN r.argc ELSE execve.num
           good == (r.argc >= 0 => execve.num = 0) /\ execve.idx + r.args <= num
<1>1. LoopTypeOK
  BY TypeParts
<1>2. r.type \notin UniqTypes /\ r.type \notin Reps
  BY OneCollector
<1>3. num \in Nat
  BY <1>1, RecordFields DEF LoopTypeOK
<1>4. ASSUME ~good, error_rc' = "INVALID_EXECVE",
             execve' \in {execve, [execve EXCEPT !.num = IF @ = 0 THEN num ELSE @]},
             UNCHANGED <<data, record_num, seen, items, path>>
      PROVE  LoopOK'
  <2>1. InvalidExecve(source')
    BY <1>4, ExecveRefused
  <2>2. execve' \in [num : Nat, idx : Nat, taken : Seq(Nat)]
    BY <1>1, <1>3, <1>4 DEF LoopTypeOK
  <2> HIDE DEF num, good
  <2>3. LoopTypeOK'
    BY <1>1, <1>4, <2>2 DEF LoopTypeOK, Errors
  <2> QED
    BY <1>4, <2>1, <2>3 DEF LoopOK, FailedOK
<1>5. ASSUME good, Stored, UNCHANGED <<seen, items, path>>,
             execve' = [num |-> num, idx |-> execve.idx + r.args, taken |-> Append(execve.taken, This)]
      PROVE  LoopOK'
  <2>1. UNCHANGED <<data, record_num>> /\ error_rc' = "OK"
    BY <1>5 DEF Stored
  <2>2. ExecveOK' /\ execve' \in [num : Nat, idx : Nat, taken : Seq(Nat)]
    BY <1>5, ExecveAdded
  <2>3. UniqOK' /\ RepOK' /\ PathOK'
    BY <1>2, <1>5, <2>1, UniqKept, RepKept, PathKept
  <2> HIDE DEF num, good
  <2>4. LoopTypeOK'
    BY <1>1, <1>5, <2>1, <2>2 DEF LoopTypeOK
  <2> QED
    BY <2>1, <2>2, <2>3, <2>4 DEF LoopOK, FailedOK
<1> QED
  BY <1>4, <1>5 DEF AddExecve

LEMMA AddDropOK ==
  ASSUME ConvBufAssumption, TypeOK, UniqOK, RepOK, PathOK, ExecveOK,
         NEW r \in Record, source' = Append(source, r), r.type = "EOE", AddDrop
  PROVE  LoopOK'
<1>1. UNCHANGED <<data, record_num, seen, items, path, execve>> /\ error_rc' = "OK"
  BY DEF AddDrop, Stored, collectors
<1>2. r.type \notin UniqTypes /\ r.type \notin Reps
  BY OneCollector
<1>3. UniqOK' /\ RepOK' /\ PathOK' /\ ExecveOK'
  BY <1>1, <1>2, UniqKept, RepKept, PathKept, ExecveKept
<1>4. LoopTypeOK'
  BY <1>1, TypeParts DEF LoopTypeOK
<1> QED
  BY <1>1, <1>3, <1>4 DEF LoopOK, FailedOK

(* Records that have all been taken are those no collector refuses.        *)
LEMMA TakenAccepted ==
  ASSUME ConvBufAssumption, TypeOK, UniqOK, PathOK, ExecveOK
  PROVE  Accepted(source)
<1> DEFINE recs == OfType(source, "EXECVE")
           all  == Args(source)[Len(source)]
<1>1. source \in Seq(Record) /\ Len(source) \in Nat
  BY DEF TypeOK
<1>2. ~InvalidPath(source)
  <2>1. \A k \in OfType(source, "PATH") :
          source[k].idx \in 0 .. MaxIdx /\ path[source[k].idx] = k
    BY DEF PathOK, TypeOK
  <2>2. \A k, j \in OfType(source, "PATH") : source[j].idx = source[k].idx => j = k
    BY <2>1
  <2> QED
    BY <2>1, <2>2 DEF InvalidPath
<1>3. \A n \in 1 .. Len(source) : Args(source)[n] \in Nat /\ Args(source)[n] <= all
  <2>1. \A n \in 1 .. Len(source) : n \in 0 .. Len(source)
    BY <1>1
  <2> QED
    BY <1>1, <2>1, ArgsGrow
<1>4. all = execve.idx /\ execve.num \in Nat /\ execve.idx \in Nat /\ execve.idx <= execve.num
  BY DEF TypeOK, ExecveOK
<1>5. \A k \in recs : k \in Int /\ source[k].argc \in Int /\ source[k].args \in Nat
  <2>1. \A k \in recs : source[k] \in Record /\ source[k].type = "EXECVE" /\ k \in Int
    BY <1>1, OfTypeBelow
  <2> QED
    BY <2>1, RecordFields
<1>6. Counted(source, execve)
  BY DEF ExecveOK
<1> HIDE DEF recs, all
<1>7. CASE \A j \in recs : source[j].argc <= 0 /\ source[j].args = 0
  <2>1. \A j \in recs : ~(source[j].argc > 0) /\ ~(source[j].args > 0)
    BY <1>5, <1>7
  <2> QED
    BY <1>2, <2>1 DEF Accepted, InvalidExecve, UniqOK, recs
<1>8. ASSUME NEW k \in recs, execve.num > 0, source[k].argc = execve.num,
             \A j \in recs : /\ j < k => source[j].argc <= 0 /\ source[j].args = 0
                             /\ j > k => source[j].argc = -1
      PROVE  Accepted(source)
  <2>1. \A j \in recs : j < k \/ j = k \/ j > k
    BY <1>5
  <2>2. \A j \in recs : source[j].argc > 0 => j = k
    BY <1>5, <1>8, <2>1
  <2>3. ~\E i, j \in recs : i < j /\ source[i].argc > 0 /\ source[j].argc # -1
    BY <1>5, <1>8, <2>2
  <2>4. ~\E j \in recs : source[j].args > 0 /\ \A i \in recs : i <= j => source[i].argc <= 0
    <3>1. \A j \in recs : source[j].args > 0 => k <= j
      BY <1>5, <1>8, <2>1
    <3>2. ~(source[k].argc <= 0)
      BY <1>5, <1>8
    <3> QED
      BY <3>1, <3>2
  <2>5. ~\E i \in recs, n \in 1 .. Len(source) :
           source[i].argc > 0 /\ Args(source)[n] > source[i].argc
    BY <1>3, <1>4, <1>8, <2>2
  <2> QED
    BY <1>2, <2>3, <2>4, <2>5 DEF Accepted, InvalidExecve, UniqOK, recs
<1> QED
  BY <1>6, <1>7, <1>8 DEF Counted, recs

(* The beginnings of what one more record was added to.                    *)
LEMMA Beginnings ==
  ASSUME NEW src \in Seq(Record), NEW r \in Record
  PROVE  LET s == Append(src, r)
         IN  /\ \A k \in 0 .. Len(src) : UpTo(s, k) = UpTo(src, k)
             /\ UpTo(s, Len(src)) = src /\ UpTo(s, Len(src) + 1) = s
<1> DEFINE s == Append(src, r)
<1>1. /\ s \in Seq(Record) /\ Len(src) \in Nat /\ Len(s) = Len(src) + 1
      /\ \A k \in 1 .. Len(src) : s[k] = src[k]
  BY Appended
<1> HIDE DEF s
<1>2. \A k \in 0 .. Len(src) : UpTo(s, k) = UpTo(src, k)
  BY <1>1 DEF UpTo
<1>3. UpTo(src, Len(src)) = src /\ UpTo(s, Len(s)) = s
  BY <1>1 DEF UpTo
<1>4. Len(src) \in 0 .. Len(src)
  BY <1>1
<1> QED
  BY <1>1, <1>2, <1>3, <1>4 DEF s

(* The first record that is refused stays the first when others follow.    *)
LEMMA FirstKept ==
  ASSUME NEW src \in Seq(Record), NEW r \in Record, NEW code,
         NEW k \in 1 .. Len(src), FirstRefused(src, k, code)
  PROVE  FirstRefused(Append(src, r), k, code)
<1>1. k \in 0 .. Len(src) /\ k - 1 \in 0 .. Len(src)
  OBVIOUS
<1>2. /\ UpTo(Append(src, r), k) = UpTo(src, k)
      /\ UpTo(Append(src, r), k - 1) = UpTo(src, k - 1)
  BY <1>1, Beginnings
<1> QED
  BY <1>2 DEF FirstRefused

LEMMA FirstFound ==
  ASSUME NEW src \in Seq(Record), NEW r \in Record, NEW code, Accepted(src),
         code = "REPEATED_RECORD" => Repeated(Append(src, r)),
         code = "INVALID_PATH" => InvalidPath(Append(src, r)),
         code = "INVALID_EXECVE" => InvalidExecve(Append(src, r))
  PROVE  FirstRefused(Append(src, r), Len(src) + 1, code)
<1>1. Len(src) \in Nat /\ (Len(src) + 1) - 1 = Len(src)
  OBVIOUS
<1>2. /\ UpTo(Append(src, r), Len(src)) = src
      /\ UpTo(Append(src, r), Len(src) + 1) = Append(src, r)
  BY Beginnings
<1> QED
  BY <1>1, <1>2 DEF FirstRefused

LEMMA AddRecordOK ==
  ASSUME ConvBufAssumption, ConvBufInv, AddRecord
  PROVE  ConvBufInv'
<1>1. /\ pc = "records" /\ pc' = "records" /\ with_text' = with_text
      /\ TypeOK /\ FailedOK /\ FirstOK
      /\ error_rc = "OK" => UniqOK /\ RepOK /\ PathOK /\ ExecveOK
  BY DEF AddRecord, ConvBufInv
<1>2. PICK r \in Record :
        /\ source' = Append(source, r)
        /\ IF error_rc = "OK"
           THEN Dispatch(r)
           ELSE UNCHANGED <<data, record_num, error_rc, collectors>>
  BY DEF AddRecord
<1>3. source' \in Seq(Record)
  BY <1>1, <1>2, Appended DEF TypeOK
<1>4. LoopOK'
  <2>1. CASE error_rc # "OK"
    <3>1. /\ UNCHANGED <<data, record_num, error_rc>>
          /\ seen' = seen /\ items' = items /\ path' = path /\ execve' = execve
      BY <1>2, <2>1 DEF collectors
    <3>2. LoopTypeOK'
      BY <1>1, <3>1, TypeParts DEF LoopTypeOK
    <3>3. /\ Repeated(source) => Repeated(source')
          /\ InvalidPath(source) => InvalidPath(source')
          /\ InvalidExecve(source) => InvalidExecve(source')
      BY <1>1, <1>2, StillRefused DEF TypeOK
    <3> QED
      BY <1>1, <2>1, <3>1, <3>2, <3>3 DEF LoopOK, FailedOK
  <2>2. CASE error_rc = "OK"
    <3>1. CASE r.type \in UniqTypes /\ AddUniq(r.type)
      BY <1>1, <1>2, <2>2, <3>1, AddUniqOK
    <3>2. CASE r.type \in Reps /\ AddRep(r.type)
      BY <1>1, <1>2, <2>2, <3>2, AddRepOK
    <3>3. CASE r.type = "PATH" /\ AddPath(r.idx)
      BY <1>1, <1>2, <2>2, <3>3, AddPathOK
    <3>4. CASE r.type = "EXECVE" /\ AddExecve(r.argc, r.args)
      BY <1>1, <1>2, <2>2, <3>4, AddExecveOK
    <3>5. CASE r.type = "EOE" /\ AddDrop
      BY <1>1, <1>2, <2>2, <3>5, AddDropOK
    <3>6. ASSUME NEW code \in {"NOMEM", "AUPARSE_FAILED"}, Refused(code)
          PROVE  LoopOK'
      <4>1. code \in Errors /\ code \notin {"REPEATED_RECORD", "INVALID_PATH", "INVALID_EXECVE"}
        BY DEF Errors
      <4> QED
        BY <1>1, <3>6, <4>1, RefusedOK, TypeParts
    <3> QED
      BY <1>2, <2>2, <3>1, <3>2, <3>3, <3>4, <3>5, <3>6 DEF Dispatch
  <2> QED
    BY <2>1, <2>2
<1>5. TypeOK'
  <2>1. LoopTypeOK'
    BY <1>4 DEF LoopOK
  <2> QED
    BY <1>1, <1>3, <2>1 DEF TypeOK, LoopTypeOK, Item
<1>6. FirstOK'
  <2>1. source \in Seq(Record) /\ Len(source) \in Nat /\ Len(source') = Len(source) + 1
    BY <1>1, <1>2, Appended DEF TypeOK
  <2>2. CASE error_rc # "OK"
    <3>1. error_rc' = error_rc
      BY <1>2, <2>2
    <3>2. SUFFICES ASSUME error_rc \in Reasons
                   PROVE  \E k \in 1 .. Len(source') : FirstRefused(source', k, error_rc)
      BY <3>1 DEF FirstOK
    <3>3. PICK k \in 1 .. Len(source) : FirstRefused(source, k, error_rc)
      BY <1>1, <3>2 DEF FirstOK
    <3>4. FirstRefused(source', k, error_rc) /\ k \in 1 .. Len(source')
      BY <1>2, <2>1, <3>3, FirstKept
    <3> QED
      BY <3>4
  <2>3. CASE error_rc = "OK"
    <3>1. Accepted(source)
      BY <1>1, <2>3, TakenAccepted
    <3>2. FirstRefused(source', Len(source) + 1, error_rc')
      BY <1>2, <1>4, <2>1, <3>1, FirstFound DEF LoopOK, FailedOK
    <3>3. Len(source) + 1 \in 1 .. Len(source')
      BY <2>1
    <3> QED
      BY <3>2, <3>3 DEF FirstOK
  <2> QED
    BY <2>2, <2>3
<1> QED
  BY <1>1, <1>4, <1>5, <1>6 DEF ConvBufInv, LoopOK

-----------------------------------------------------------------------------
(* The end of the event: what the collectors add to the data.              *)

(* The data d has the records of the types T, and nothing else.            *)
Ended(d, T) ==
  /\ d \in Seq(OutputRecords)
  /\ WellMade(source, d)
  /\ Types(d) \subseteq T
  /\ \A t \in T : OfType(source, t) # {} => t \in Types(d)

LEMMA WithOK ==
  ASSUME TypeOK, record_num = Len(data), NEW T, NEW d, Ended(d, T),
         NEW t \in OutputTypes, t \notin T, NEW from \in Seq(Nat), NEW commas \in SUBSET Nat,
         Elements(from) = OfType(source, t),
         \A i, j \in 1 .. Len(from) :
           i < j => IF t = "PATH" THEN source[from[i]].idx < source[from[j]].idx
                                  ELSE from[i] < from[j],
         t \in Reps => commas = 2 .. Len(from)
  PROVE  Ended(With(d, t, from, commas), T \union {t})
<1>1. CASE from = <<>>
  <2>1. With(d, t, from, commas) = d
    BY <1>1 DEF With
  <2>2. OfType(source, t) = {}
    <3>1. Elements(<<>>) = {}
      <4>1. Len(<<>>) = 0 /\ 1 .. 0 = {}
        OBVIOUS
      <4> QED
        BY <4>1 DEF Elements
    <3> QED
      BY <1>1, <3>1
  <2> QED
    BY <2>1, <2>2 DEF Ended
<1>2. CASE from # <<>>
  <2> DEFINE o == OutputRecord(t, Count(d), from, commas)
             w == Append(d, o)
  <2>1. d \in Seq(OutputRecords) /\ Len(d) \in Nat /\ Len(data) \in Nat
    BY DEF Ended, TypeOK
  <2>2. Count(d) = Len(d)
    BY <2>1 DEF Count
  <2>3. /\ o.type = t /\ (o.separated <=> Len(d) > 0) /\ o.from = from /\ o.commas = commas
        /\ o \in OutputRecords
    <3>1. (Len(d) > 0) \in BOOLEAN
      OBVIOUS
    <3> QED
      BY <2>2, <3>1 DEF OutputRecord, OutputRecords
  <2> HIDE DEF o
  <2>4. o.separated <=> Len(d) + 1 > 1
    BY <2>1, <2>3
  <2>5. MadeOf(source, o, Len(d) + 1)
    BY <2>3, <2>4 DEF MadeOf
  <2>6. WellMade(source, d) /\ o.type \notin Types(d)
    BY <2>3 DEF Ended
  <2>7. /\ w \in Seq(OutputRecords) /\ WellMade(source, w)
        /\ Types(w) = Types(d) \union {t}
    BY <2>1, <2>3, <2>5, <2>6, WellMadeAdd
  <2>8. With(d, t, from, commas) = w
    BY <1>2 DEF With, o
  <2> HIDE DEF w
  <2> QED
    BY <2>7, <2>8 DEF Ended
<1> QED
  BY <1>1, <1>2

LEMMA DataEnded ==
  ASSUME TypeOK, UniqOK
  PROVE  Ended(data, UniqTypes)
BY DEF TypeOK, UniqOK, Ended

(* The types with output before the repeating ones.                        *)
Ahead == (UniqTypes \union IF execve.num = 0 THEN {} ELSE {"EXECVE"}) \union {"PATH"}

LEMMA ExecveEnded ==
  ASSUME ConvBufAssumption, TypeOK, UniqOK, ExecveOK
  PROVE  Ended(WithExecve(data), UniqTypes \union IF execve.num = 0 THEN {} ELSE {"EXECVE"})
<1>1. Ended(data, UniqTypes)
  BY DataEnded
<1>2. CASE execve.num = 0
  BY <1>1, <1>2 DEF WithExecve
<1>3. CASE execve.num # 0
  <2> DEFINE taken == execve.taken
  <2>1. /\ taken \in Seq(Nat) /\ Elements(taken) = OfType(source, "EXECVE")
        /\ \A i, j \in 1 .. Len(taken) : i < j => taken[i] < taken[j]
    BY DEF TypeOK, ExecveOK
  <2>2. WithExecve(data) = With(data, "EXECVE", taken, {})
    BY <1>3 DEF WithExecve
  <2>3. "EXECVE" \in OutputTypes /\ "EXECVE" \notin UniqTypes /\ "EXECVE" \notin Reps
    BY OneCollector
  <2>4. "EXECVE" # "PATH" /\ {} \in SUBSET Nat /\ record_num = Len(data)
    BY DEF UniqOK
  <2> HIDE DEF taken
  <2>5. Ended(With(data, "EXECVE", taken, {}), UniqTypes \union {"EXECVE"})
    BY <1>1, <2>1, <2>3, <2>4, WithOK
  <2> QED
    BY <1>3, <2>2, <2>5
<1> QED
  BY <1>2, <1>3

(* The indices of the items of a solid tree, and the numbers of their      *)
(* records in the order of those.                                          *)
LEMMA PathItems ==
  ASSUME ConvBufAssumption, TypeOK, PathOK, NEW m \in 0 .. MaxIdx + 1, DOMAIN path = 0 .. m - 1
  PROVE  LET n    == Cardinality(DOMAIN path)
             from == [k \in 1 .. n |-> path[k - 1]]
         IN  /\ n = m /\ from \in Seq(Nat) /\ Len(from) = m
             /\ Elements(from) = OfType(source, "PATH")
             /\ \A i, j \in 1 .. Len(from) : i < j => source[from[i]].idx < source[from[j]].idx
<1> DEFINE n    == Cardinality(DOMAIN path)
           from == [k \in 1 .. n |-> path[k - 1]]
<1>1. m \in Nat
  BY DEF ConvBufAssumption
<1>2. n = m
  <2>1. 0 \in Int /\ m - 1 \in Int
    BY <1>1
  <2>2. Cardinality(0 .. m - 1) = IF 0 > m - 1 THEN 0 ELSE (m - 1) - 0 + 1
    BY <2>1, FS_Interval
  <2> QED
    BY <1>1, <2>2
<1>3. \A k \in 1 .. m : /\ k - 1 \in DOMAIN path /\ path[k - 1] \in Nat
                        /\ path[k - 1] \in OfType(source, "PATH")
                        /\ source[path[k - 1]].idx = k - 1
  <2>1. \A k \in 1 .. m : k - 1 \in 0 .. m - 1
    BY <1>1
  <2> QED
    BY <2>1 DEF PathOK, TypeOK
<1> HIDE DEF n
<1>4. from \in [1 .. m -> Nat]
  BY <1>2, <1>3
<1>5. from \in Seq(Nat) /\ Len(from) = m
  <2> HIDE DEF from
  <2> QED
    BY <1>1, <1>4, FunctionSeq
<1>6. \A k \in 1 .. m : from[k] = path[k - 1]
  BY <1>2
<1>7. \A k \in OfType(source, "PATH") : \E i \in 1 .. m : k = path[i - 1]
  <2> SUFFICES ASSUME NEW k \in OfType(source, "PATH")
               PROVE  \E i \in 1 .. m : k = path[i - 1]
    OBVIOUS
  <2>1. source[k].idx \in 0 .. m - 1 /\ path[source[k].idx] = k
    BY DEF PathOK
  <2>2. source[k].idx + 1 \in 1 .. m /\ (source[k].idx + 1) - 1 = source[k].idx
    BY <1>1, <2>1
  <2> QED
    BY <2>1, <2>2
<1> HIDE DEF from
<1>8. Elements(from) = OfType(source, "PATH")
  <2>1. \A k \in 1 .. Len(from) : from[k] \in OfType(source, "PATH")
    BY <1>3, <1>5, <1>6
  <2>2. \A k \in OfType(source, "PATH") : \E i \in 1 .. Len(from) : k = from[i]
    <3>1. \A k \in OfType(source, "PATH") : \E i \in 1 .. m : k = from[i]
      BY <1>6, <1>7
    <3> QED
      BY <1>5, <3>1
  <2> QED
    BY <2>1, <2>2 DEF Elements
<1>9. \A i, j \in 1 .. Len(from) : i < j => source[from[i]].idx < source[from[j]].idx
  <2>1. \A k \in 1 .. m : source[from[k]].idx = k - 1
    BY <1>3, <1>6
  <2> QED
    BY <1>1, <1>5, <2>1
<1> QED
  BY <1>2, <1>5, <1>8, <1>9 DEF n, from

LEMMA PathEnded ==
  ASSUME ConvBufAssumption, TypeOK, record_num = Len(data), PathOK, PathSolid,
         NEW T, NEW d, Ended(d, T), "PATH" \notin T
  PROVE  Ended(WithPath(d), T \union {"PATH"})
<1>1. PICK m \in 0 .. MaxIdx + 1 : DOMAIN path = 0 .. m - 1
  BY DEF PathSolid
<1> DEFINE n    == Cardinality(DOMAIN path)
           from == [k \in 1 .. n |-> path[k - 1]]
<1>2. /\ n = m /\ from \in Seq(Nat) /\ Len(from) = m
      /\ Elements(from) = OfType(source, "PATH")
      /\ \A i, j \in 1 .. Len(from) : i < j => source[from[i]].idx < source[from[j]].idx
  BY <1>1, PathItems
<1>3. WithPath(d) = With(d, "PATH", from, 2 .. n)
  BY DEF WithPath
<1>4. "PATH" \in OutputTypes /\ "PATH" \notin Reps
  BY OneCollector
<1>5. 2 .. n \in SUBSET Nat
  BY <1>2 DEF ConvBufAssumption
<1> HIDE DEF n, from
<1>6. Ended(With(d, "PATH", from, 2 .. n), T \union {"PATH"})
  BY <1>2, <1>4, <1>5, WithOK
<1> QED
  BY <1>3, <1>6

LEMMA RepEnded ==
  ASSUME ConvBufAssumption, TypeOK, record_num = Len(data), RepOK,
         NEW T, NEW d, Ended(d, T), NEW t \in Reps, t \notin T
  PROVE  Ended(WithRep(d, t), T \union {t})
<1> DEFINE list == items[t].list
           L    == Len(list)
           from == [k \in 1 .. L |-> list[k].record]
           commas == {k \in 1 .. L : list[k].comma}
<1>1. list \in Seq(Item) /\ L \in Nat
  BY DEF TypeOK, Item
<1>2. /\ {list[k].record : k \in 1 .. L} = OfType(source, t)
      /\ \A k \in 1 .. L : list[k].comma <=> k > 1
      /\ \A i, j \in 1 .. L : i < j => list[i].record < list[j].record
  BY DEF RepOK, ItemsOf
<1>3. \A k \in 1 .. L : list[k].record \in Nat
  <2> HIDE DEF list
  <2>1. \A k \in 1 .. L : list[k] \in Item
    BY <1>1
  <2> QED
    BY <2>1 DEF Item
<1>4. WithRep(d, t) = With(d, t, from, commas)
  BY DEF WithRep
<1>5. t \in OutputTypes /\ t # "PATH"
  BY OneCollector
<1> HIDE DEF list, L
<1>6. from \in Seq(Nat) /\ Len(from) = L
  <2>1. from \in [1 .. L -> Nat]
    BY <1>3
  <2> HIDE DEF from
  <2> QED
    BY <1>1, <2>1, FunctionSeq
<1>7. \A k \in 1 .. L : from[k] = list[k].record
  OBVIOUS
<1>8. commas = 2 .. L /\ commas \in SUBSET Nat
  BY <1>1, <1>2
<1> HIDE DEF from, commas
<1>9. Elements(from) = OfType(source, t)
  BY <1>2, <1>6, <1>7 DEF Elements
<1>10. \A i, j \in 1 .. Len(from) : i < j => from[i] < from[j]
  BY <1>2, <1>6, <1>7
<1>11. Ended(With(d, t, from, commas), T \union {t})
  BY <1>5, <1>6, <1>8, <1>9, <1>10, WithOK
<1> QED
  BY <1>4, <1>11

(* f gives the data with what the first n repeating collectors add.        *)
AreAdded(d, n, f) ==
  f = [k \in 0 .. n |-> IF k = 0 THEN d ELSE WithRep(f[k - 1], RepTypes[k])]

LEMMA AddedExist ==
  ASSUME NEW d
  PROVE  \A n \in Nat : \E f : AreAdded(d, n, f)
<1> DEFINE P == {n \in Nat : \E f : AreAdded(d, n, f)}
<1>1. 0 \in P
  <2> DEFINE f == [k \in 0 .. 0 |-> d]
  <2>1. AreAdded(d, 0, f)
    BY DEF AreAdded
  <2> QED
    BY <2>1
<1>2. ASSUME NEW n \in Nat, n \in P
      PROVE  n + 1 \in P
  <2>1. PICK f : AreAdded(d, n, f)
    BY <1>2
  <2> DEFINE w(k, g) == IF k = 0 THEN d ELSE WithRep(g[k - 1], RepTypes[k])
             h == [k \in 0 .. n + 1 |-> w(k, f)]
  <2>2. f = [k \in 0 .. n |-> w(k, f)]
    BY <2>1 DEF AreAdded
  <2> HIDE DEF w
  <2>3. \A k \in 0 .. n : h[k] = f[k]
    BY <2>2
  <2>4. \A k \in 0 .. n + 1 : k = 0 \/ h[k - 1] = f[k - 1]
    <3> HIDE DEF h
    <3> QED
      BY <2>3
  <2>5. \A k \in 0 .. n + 1 : w(k, h) = w(k, f)
    <3> HIDE DEF h
    <3> QED
      BY <2>4 DEF w
  <2>6. h = [k \in 0 .. n + 1 |-> w(k, h)]
    BY <2>5
  <2>7. AreAdded(d, n + 1, h)
    BY <2>6 DEF AreAdded, w
  <2> QED
    BY <2>7
<1> HIDE DEF P
<1>3. Nat \subseteq P
  BY <1>1, <1>2, SetInduction
<1> QED
  BY <1>3 DEF P

LEMMA RepsEnded ==
  ASSUME ConvBufAssumption, TypeOK, record_num = Len(data), RepOK,
         NEW T, NEW d, Ended(d, T), T \intersect Reps = {}
  PROVE  Ended(WithReps(d), T \union Reps)
<1> DEFINE N == Len(RepTypes)
           f == CHOOSE g : AreAdded(d, N, g)
           U(n) == T \union {RepTypes[i] : i \in 1 .. n}
           P == {n \in Nat : n <= N => Ended(f[n], U(n))}
<1>1. N \in Nat
  BY DEF ConvBufAssumption
<1>2. AreAdded(d, N, f)
  BY <1>1, AddedExist
<1>3. WithReps(d) = f[N]
  BY DEF WithReps, AreAdded
<1> HIDE DEF f
<1>4. \A k \in 0 .. N : f[k] = IF k = 0 THEN d ELSE WithRep(f[k - 1], RepTypes[k])
  <2> HIDE DEF N
  <2> QED
    BY <1>2 DEF AreAdded
<1>5. f[0] = d /\ \A k \in 1 .. N : f[k] = WithRep(f[k - 1], RepTypes[k])
  <2>1. 0 \in 0 .. N /\ \A k \in 1 .. N : k \in 0 .. N /\ k # 0
    BY <1>1
  <2> HIDE DEF N
  <2> QED
    BY <1>4, <2>1
<1>6. 0 \in P
  <2>1. U(0) = T
    OBVIOUS
  <2> QED
    BY <1>5, <2>1
<1>7. ASSUME NEW n \in Nat, n \in P
      PROVE  n + 1 \in P
  <2>1. SUFFICES ASSUME n + 1 <= N
                 PROVE  Ended(f[n + 1], U(n + 1))
    OBVIOUS
  <2> DEFINE t == RepTypes[n + 1]
  <2>2. Ended(f[n], U(n))
    BY <1>1, <1>7, <2>1
  <2>3. n + 1 \in 1 .. N /\ (n + 1) - 1 = n
    BY <1>1, <2>1
  <2>4. f[n + 1] = WithRep(f[n], t)
    BY <1>5, <2>3
  <2>5. t \in Reps /\ t \notin T
    BY <2>3 DEF Reps
  <2>6. t \notin U(n)
    <3>1. \A i \in 1 .. n : i \in 1 .. N /\ i # n + 1
      BY <1>1, <2>1
    <3>2. \A i \in 1 .. n : RepTypes[i] # t
      BY <2>3, <3>1 DEF ConvBufAssumption
    <3> QED
      BY <2>5, <3>2
  <2>7. U(n + 1) = U(n) \union {t}
    <3>1. \A i \in 1 .. n + 1 : i \in 1 .. n \/ i = n + 1
      OBVIOUS
    <3>2. n + 1 \in 1 .. n + 1 /\ \A i \in 1 .. n : i \in 1 .. n + 1
      OBVIOUS
    <3> QED
      BY <3>1, <3>2
  <2> HIDE DEF U, t
  <2>8. Ended(WithRep(f[n], t), U(n) \union {t})
    BY <2>2, <2>5, <2>6, RepEnded
  <2> QED
    BY <2>4, <2>7, <2>8
<1> HIDE DEF P
<1>8. Nat \subseteq P
  BY <1>6, <1>7, SetInduction
<1>9. Ended(f[N], U(N))
  <2>1. N \in P /\ N <= N
    BY <1>1, <1>8
  <2> HIDE DEF N, U
  <2> QED
    BY <2>1 DEF P
<1> QED
  BY <1>3, <1>9 DEF Reps

(* So the data is complete when all collectors have been ended.            *)
LEMMA CollectedOK ==
  ASSUME ConvBufAssumption, TypeOK, UniqOK, RepOK, PathOK, ExecveOK, PathSolid
  PROVE  Ended(Collected, Ahead \union Reps)
<1>1. record_num = Len(data)
  BY DEF UniqOK
<1> DEFINE T == UniqTypes \union IF execve.num = 0 THEN {} ELSE {"EXECVE"}
<1>2. Ended(WithExecve(data), T)
  BY ExecveEnded
<1>3. /\ "PATH" \notin T
      /\ (T \union {"PATH"}) \intersect Reps = {}
  BY OneCollector
<1> HIDE DEF T
<1>4. Ended(WithPath(WithExecve(data)), T \union {"PATH"})
  BY <1>1, <1>2, <1>3, PathEnded
<1>5. Ended(WithReps(WithPath(WithExecve(data))), (T \union {"PATH"}) \union Reps)
  BY <1>1, <1>3, <1>4, RepsEnded
<1> QED
  BY <1>5 DEF Collected, Ahead, T

-----------------------------------------------------------------------------
(* What an event is refused for, and that it is never accepted with it.    *)

LEMMA OfTypeFinite ==
  ASSUME NEW src \in Seq(Record), NEW t
  PROVE  IsFiniteSet(OfType(src, t)) /\ Cardinality(OfType(src, t)) \in Nat
<1>1. Len(src) \in Int /\ 1 \in Int
  OBVIOUS
<1>2. IsFiniteSet(1 .. Len(src))
  BY <1>1, FS_Interval
<1>3. OfType(src, t) \in SUBSET (1 .. Len(src))
  BY OfTypeBelow
<1>4. IsFiniteSet(OfType(src, t))
  BY <1>2, <1>3, FS_Subset
<1> QED
  BY <1>4, FS_CardinalityType

LEMMA TwoOrMore ==
  ASSUME NEW S, IsFiniteSet(S)
  PROVE  Cardinality(S) > 1 <=> \E x, y \in S : x # y
<1>1. Cardinality(S) \in Nat
  BY FS_CardinalityType
<1>2. Cardinality(S) = 0 <=> S = {}
  BY FS_EmptySet
<1>3. Cardinality(S) = 1 <=> \E x : S = {x}
  BY FS_Singleton
<1>4. (\E x, y \in S : x # y) <=> ~(S = {}) /\ ~(\E x : S = {x})
  OBVIOUS
<1> QED
  BY <1>1, <1>2, <1>3, <1>4

LEMMA RepeatsJudged ==
  ASSUME NEW src \in Seq(Record)
  PROVE  Repeats(src) <=> Repeated(src)
<1>1. \A t : Cardinality(OfType(src, t)) > 1 <=> \E x, y \in OfType(src, t) : x # y
  BY OfTypeFinite, TwoOrMore
<1>2. Repeats(src) <=> \E t \in UniqTypes : \E x, y \in OfType(src, t) : x # y
  BY <1>1 DEF Repeats
<1> QED
  BY <1>2 DEF Repeated, OfType

(* The items have as many indices as there are records if no two of them   *)
(* have the same.                                                          *)
LEMMA IndicesCounted ==
  ASSUME NEW src \in Seq(Record)
  PROVE  LET recs == OfType(src, "PATH")
             idx  == {src[k].idx : k \in recs}
         IN  Cardinality(idx) = Cardinality(recs)
               <=> \A j, k \in recs : src[j].idx = src[k].idx => j = k
<1> DEFINE recs == OfType(src, "PATH")
           idx  == {src[k].idx : k \in recs}
           f    == [k \in recs |-> src[k].idx]
<1>1. IsFiniteSet(recs)
  BY OfTypeFinite
<1> HIDE DEF recs
<1>2. f \in Surjection(recs, idx)
  BY DEF Surjection
<1>3. f \in Injection(recs, idx) <=> \A j, k \in recs : src[j].idx = src[k].idx => j = k
  BY DEF Injection, IsInjective
<1> HIDE DEF f, idx
<1>4. Cardinality(idx) = Cardinality(recs) <=> f \in Injection(recs, idx)
  BY <1>1, <1>2, FS_Surjection
<1> QED
  BY <1>3, <1>4 DEF idx, recs

LEMMA InvalidPathJudged ==
  ASSUME ConvBufAssumption, NEW src \in Seq(Record), InvalidPath(src)
  PROVE  BadPath(src)
<1> DEFINE recs == OfType(src, "PATH")
           idx  == {src[k].idx : k \in recs}
<1>1. PICK k \in recs : \/ src[k].idx \notin 0 .. MaxIdx
                        \/ \E j \in recs : j # k /\ src[j].idx = src[k].idx
  BY DEF InvalidPath
<1>2. CASE src[k].idx \notin 0 .. MaxIdx
  <2>1. src[k].idx \in idx
    OBVIOUS
  <2>2. \A n \in 0 .. MaxIdx + 1 : 0 .. n - 1 \subseteq 0 .. MaxIdx
    BY DEF ConvBufAssumption
  <2>3. ~\E n \in 0 .. MaxIdx + 1 : idx = 0 .. n - 1
    <3> HIDE DEF idx
    <3> QED
      BY <1>2, <2>1, <2>2
  <2> QED
    BY <2>3 DEF BadPath
<1>3. CASE \E j \in recs : j # k /\ src[j].idx = src[k].idx
  <2>1. Cardinality(idx) # Cardinality(recs)
    BY <1>3, IndicesCounted
  <2> QED
    BY <2>1 DEF BadPath
<1> QED
  BY <1>1, <1>2, <1>3

LEMMA PathJudged ==
  ASSUME TypeOK, PathOK
  PROVE  BadPath(source) <=> ~PathSolid
<1> DEFINE recs == OfType(source, "PATH")
           idx  == {source[k].idx : k \in recs}
<1>1. idx = DOMAIN path
  BY DEF PathOK
<1>2. \A j, k \in recs : source[j].idx = source[k].idx => j = k
  BY DEF PathOK
<1>3. Cardinality(idx) = Cardinality(recs)
  <2>1. source \in Seq(Record)
    BY DEF TypeOK
  <2> QED
    BY <1>2, <2>1, IndicesCounted
<1>4. BadPath(source) <=> ~\E n \in 0 .. MaxIdx + 1 : idx = 0 .. n - 1
  BY <1>3 DEF BadPath
<1> HIDE DEF idx
<1> QED
  BY <1>1, <1>4 DEF PathSolid

(* Either no arguments are announced and there are none, or one record     *)
(* announces those that follow.                                            *)
LEMMA GoodExecveMeans ==
  ASSUME NEW src \in Seq(Record)
  PROVE  LET recs == OfType(src, "EXECVE")
             argc == {k \in recs : src[k].argc > 0}
             all  == Args(src)[Len(src)]
         IN  GoodExecve(src) <=>
               \/ argc = {} /\ all = 0
               \/ \E k \in recs :
                    /\ argc = {k} /\ all = src[k].argc
                    /\ \A j \in recs : /\ j < k => src[j].args = 0
                                       /\ j > k => src[j].argc = -1
<1> DEFINE recs == OfType(src, "EXECVE")
           argc == {k \in recs : src[k].argc > 0}
           all  == Args(src)[Len(src)]
           need == IF argc = {} THEN 0 ELSE src[CHOOSE k \in argc : TRUE].argc
           one  == \A k \in argc, j \in recs : /\ j < k => src[j].args = 0
                                               /\ j > k => src[j].argc = -1
<1>1. GoodExecve(src) <=> Cardinality(argc) <= 1 /\ all = need /\ one
  BY DEF GoodExecve
<1>2. argc \subseteq recs
  OBVIOUS
<1>3. IsFiniteSet(argc) /\ Cardinality(argc) \in Nat
  <2>1. IsFiniteSet(recs)
    BY OfTypeFinite
  <2> HIDE DEF argc, recs
  <2>2. IsFiniteSet(argc)
    BY <1>2, <2>1, FS_Subset
  <2> QED
    BY <2>2, FS_CardinalityType
<1>4. Cardinality(argc) <= 1 <=> argc = {} \/ \E k : argc = {k}
  <2> HIDE DEF argc
  <2>1. Cardinality(argc) <= 1 <=> Cardinality(argc) = 0 \/ Cardinality(argc) = 1
    BY <1>3
  <2> QED
    BY <1>3, <2>1, FS_EmptySet, FS_Singleton
<1>5. argc = {} => need = 0 /\ one
  OBVIOUS
<1>6. \A k : argc = {k} => need = src[k].argc /\ k \in recs
  <2> SUFFICES ASSUME NEW k, argc = {k}
               PROVE  need = src[k].argc /\ k \in recs
    OBVIOUS
  <2>1. k \in recs
    BY <1>2
  <2> HIDE DEF argc
  <2>2. (CHOOSE m \in argc : TRUE) = k
    OBVIOUS
  <2>3. argc # {}
    OBVIOUS
  <2> QED
    BY <2>1, <2>2, <2>3
<1>7. \A k : argc = {k} =>
        (one <=> \A j \in recs : /\ j < k => src[j].args = 0
                                 /\ j > k => src[j].argc = -1)
  <2> HIDE DEF argc, recs
  <2> QED
    OBVIOUS
<1> HIDE DEF argc, recs, all, need, one
<1>8. GoodExecve(src) <=>
        \/ argc = {} /\ all = 0
        \/ \E k \in recs :
             /\ argc = {k} /\ all = src[k].argc
             /\ \A j \in recs : /\ j < k => src[j].args = 0
                                /\ j > k => src[j].argc = -1
  BY <1>1, <1>4, <1>5, <1>6, <1>7
<1> QED
  BY <1>8 DEF argc, recs, all

LEMMA InvalidExecveJudged ==
  ASSUME ConvBufAssumption, NEW src \in Seq(Record), InvalidExecve(src)
  PROVE  ~GoodExecve(src)
<1> DEFINE recs == OfType(src, "EXECVE")
           argc == {k \in recs : src[k].argc > 0}
           all  == Args(src)[Len(src)]
<1>1. /\ recs \subseteq 1 .. Len(src) /\ Len(src) \in Nat
      /\ \A k \in recs : src[k] \in Record /\ src[k].type = "EXECVE"
  BY OfTypeBelow
<1>2. \A k \in recs : src[k].argc \in Int /\ src[k].args \in Nat
  BY <1>1, RecordFields
<1>3. \A k \in 0 .. Len(src) : Args(src)[k] \in Nat /\ Args(src)[k] <= all
  BY ArgsGrow
<1>4. \A j \in recs : src[j].args <= all
  <2> SUFFICES ASSUME NEW j \in recs PROVE src[j].args <= all
    OBVIOUS
  <2>1. j \in 1 .. Len(src) /\ j \in 0 .. Len(src) /\ j - 1 \in 0 .. Len(src)
    BY <1>1
  <2>2. Args(src)[j] = Args(src)[j - 1] + ArgsOf(src[j]) /\ ArgsOf(src[j]) = src[j].args
    BY <1>1, <2>1, ArgsAre DEF ArgsOf
  <2>3. Args(src)[j] \in Nat /\ Args(src)[j - 1] \in Nat /\ Args(src)[j] <= all /\ all \in Nat
    <3>1. Len(src) \in 0 .. Len(src)
      BY <1>1
    <3> QED
      BY <1>3, <2>1, <3>1
  <2> HIDE DEF all
  <2> QED
    BY <1>2, <2>2, <2>3
<1>5. all \in Nat
  <2>1. Len(src) \in 0 .. Len(src)
    BY <1>1
  <2> QED
    BY <1>3, <2>1
<1>6. SUFFICES ASSUME \/ argc = {} /\ all = 0
                      \/ \E k \in recs :
                           /\ argc = {k} /\ all = src[k].argc
                           /\ \A j \in recs : /\ j < k => src[j].args = 0
                                              /\ j > k => src[j].argc = -1
               PROVE  FALSE
  BY GoodExecveMeans
<1>7. \/ \E k, j \in recs : k < j /\ src[k].argc > 0 /\ src[j].argc # -1
      \/ \E j \in recs : src[j].args > 0 /\ \A k \in recs : k <= j => src[k].argc <= 0
      \/ \E k \in recs, n \in 1 .. Len(src) : src[k].argc > 0 /\ Args(src)[n] > src[k].argc
  BY DEF InvalidExecve
<1>8. \A k \in recs : src[k].argc > 0 => k \in argc
  OBVIOUS
<1>9. \A k \in recs : k \in Int
  BY <1>1
<1> HIDE DEF recs, all
<1>10. CASE \E k, j \in recs : k < j /\ src[k].argc > 0 /\ src[j].argc # -1
  <2>1. PICK k \in recs, j \in recs : k < j /\ src[k].argc > 0 /\ src[j].argc # -1
    BY <1>10
  <2>2. j > k
    BY <1>9, <2>1
  <2> HIDE DEF argc
  <2> QED
    BY <1>6, <1>8, <2>1, <2>2
<1>11. CASE \E j \in recs : src[j].args > 0 /\ \A k \in recs : k <= j => src[k].argc <= 0
  <2>1. PICK j \in recs : src[j].args > 0 /\ \A k \in recs : k <= j => src[k].argc <= 0
    BY <1>11
  <2>2. all # 0
    BY <1>2, <1>4, <1>5, <2>1
  <2>3. PICK k \in recs : argc = {k} /\ \A i \in recs : i < k => src[i].args = 0
    BY <1>6, <2>2
  <2>4. src[k].argc > 0
    BY <2>3
  <2>5. ~(k <= j)
    BY <1>2, <2>1, <2>4
  <2>6. j < k
    BY <1>9, <2>5
  <2> QED
    BY <2>1, <2>3, <2>6
<1>12. CASE \E k \in recs, n \in 1 .. Len(src) : src[k].argc > 0 /\ Args(src)[n] > src[k].argc
  <2>1. PICK k \in recs, n \in 1 .. Len(src) : src[k].argc > 0 /\ Args(src)[n] > src[k].argc
    BY <1>12
  <2>2. n \in 0 .. Len(src)
    BY <1>1
  <2>3. Args(src)[n] \in Nat /\ Args(src)[n] <= all
    BY <1>3, <2>2
  <2>4. all = src[k].argc
    <3> HIDE DEF argc
    <3> QED
      BY <1>6, <1>8, <2>1
  <2> QED
    BY <1>2, <1>5, <2>1, <2>3, <2>4
<1> QED
  BY <1>7, <1>10, <1>11, <1>12

LEMMA ExecveJudged ==
  ASSUME ConvBufAssumption, TypeOK, ExecveOK
  PROVE  GoodExecve(source) <=> ExecveFinished
<1> DEFINE recs == OfType(source, "EXECVE")
           argc == {k \in recs : source[k].argc > 0}
           all  == Args(source)[Len(source)]
<1>1. source \in Seq(Record) /\ execve.num \in Nat /\ execve.idx \in Nat /\ execve.idx = all
  BY DEF TypeOK, ExecveOK
<1>2. \A k \in recs : source[k].argc \in Int /\ k \in Int
  <2>1. \A k \in recs : source[k] \in Record /\ source[k].type = "EXECVE" /\ k \in Int
    BY <1>1, OfTypeBelow
  <2> QED
    BY <2>1, RecordFields
<1>3. GoodExecve(source) <=>
        \/ argc = {} /\ all = 0
        \/ \E k \in recs :
             /\ argc = {k} /\ all = source[k].argc
             /\ \A j \in recs : /\ j < k => source[j].args = 0
                                /\ j > k => source[j].argc = -1
  BY <1>1, GoodExecveMeans
<1>4. ExecveFinished <=> all = execve.num
  BY <1>1 DEF ExecveFinished
<1> HIDE DEF all
<1>5. CASE execve.num = 0 /\ execve.idx = 0 /\ \A j \in recs : source[j].argc <= 0 /\ source[j].args = 0
  <2>1. argc = {}
    BY <1>2, <1>5
  <2> QED
    BY <1>1, <1>3, <1>4, <1>5, <2>1
<1>6. ASSUME execve.num > 0, NEW k \in recs, source[k].argc = execve.num,
             \A j \in recs : /\ j < k => source[j].argc <= 0 /\ source[j].args = 0
                             /\ j > k => source[j].argc = -1
      PROVE  GoodExecve(source) <=> ExecveFinished
  <2>1. \A j \in recs : j < k \/ j = k \/ j > k
    BY <1>2
  <2>2. \A j \in recs : j # k => ~(source[j].argc > 0)
    BY <1>2, <1>6, <2>1
  <2>3. argc = {k}
    BY <1>6, <2>2
  <2> HIDE DEF argc
  <2>4. GoodExecve(source) <=> all = source[k].argc
    BY <1>3, <1>6, <2>3
  <2> QED
    BY <1>4, <1>6, <2>4
<1>7. Counted(source, execve)
  BY DEF ExecveOK
<1> QED
  BY <1>5, <1>6, <1>7 DEF Counted

-----------------------------------------------------------------------------
(* The end of the event.                                                   *)

Outcome == DataComplete /\ NothingLost /\ ErrorsJustified /\ FirstErrorReported

LEMMA CleanedUp ==
  ASSUME ConvBufAssumption, TypeOK, Cleanup, UNCHANGED with_text, pc' = "idle",
         record_num' \in Nat, error_rc' \in {"OK"} \union Errors
  PROVE  ConvBufInv'
<1>1. /\ seen' = {} /\ items' = [t \in Reps |-> NoItems] /\ path' = NoPath
      /\ execve' = NoExecve /\ data' = <<>> /\ source' = <<>>
  BY DEF Cleanup
<1>2. NoItems \in [nodes : Nat, list : Seq(Item)]
  BY DEF NoItems
<1>3. items' \in [Reps -> [nodes : Nat, list : Seq(Item)]]
  BY <1>1, <1>2
<1>4. path' \in [DOMAIN path' -> Nat] /\ DOMAIN path' \subseteq 0 .. MaxIdx
  BY <1>1 DEF NoPath
<1>5. execve' \in [num : Nat, idx : Nat, taken : Seq(Nat)] /\ execve'.num = 0
  BY <1>1 DEF NoExecve
<1>6. data' \in Seq(OutputRecords) /\ source' \in Seq(Record)
  BY <1>1
<1>7. TypeOK'
  BY <1>1, <1>3, <1>4, <1>5, <1>6 DEF TypeOK, Item
<1> QED
  BY <1>1, <1>5, <1>7 DEF ConvBufInv, CollectorsEmpty

(* An event with an error is rendered with its text instead of its data.   *)
LEMMA OutcomeError ==
  ASSUME NEW error \in Errors, pc' = "idle",
         result'.rc = "OK", result'.text, result'.data = <<>>, result'.error = error,
         result'.source = source,
         error = "REPEATED_RECORD" => Repeats(source),
         error = "INVALID_PATH" => BadPath(source),
         error = "INVALID_EXECVE" => ~GoodExecve(source),
         error \in Reasons =>
           \/ \E k \in 1 .. Len(source) : FirstRefused(source, k, error)
           \/ /\ Accepted(source)
              /\ error = IF GoodExecve(source) THEN "INVALID_PATH" ELSE "INVALID_EXECVE"
  PROVE  Outcome'
<1>1. error # "OK"
  BY DEF Errors
<1>2. DataComplete'
  BY <1>1 DEF DataComplete
<1>3. NothingLost'
  BY <1>1 DEF NothingLost
<1>4. ErrorsJustified'
  BY <1>1 DEF ErrorsJustified
<1>5. FirstErrorReported'
  BY DEF FirstErrorReported
<1> QED
  BY <1>2, <1>3, <1>4, <1>5 DEF Outcome

(* Of an event without one, every record is in the data, or has no output. *)
LEMMA OutcomeOK ==
  ASSUME ConvBufAssumption, TypeOK, UniqOK, PathOK, ExecveOK, ExecveFinished, PathSolid,
         NEW d, Ended(d, Ahead \union Reps), pc' = "idle",
         result'.error = "OK", result'.source = source,
         \/ Len(d) = 0 /\ ~result'.text /\ result'.data = <<>>
         \/ Len(d) # 0 /\ result'.data = d
  PROVE  Outcome'
<1> DEFINE recs == OfType(source, "EXECVE")
<1>1. \A k \in 1 .. Len(source) : source[k] \in Record /\ k \in OfType(source, source[k].type)
  BY DEF TypeOK, OfType
<1>2. execve.num = 0 => \A j \in recs : source[j].argc <= 0
  BY DEF ExecveOK, Counted, TypeOK
<1>3. \A k \in 1 .. Len(source) :
        \/ source[k].type = "EOE"
        \/ source[k].type = "EXECVE" /\ \A j \in recs : source[j].argc <= 0
        \/ source[k].type \in Types(d)
  <2> SUFFICES ASSUME NEW k \in 1 .. Len(source)
               PROVE  \/ source[k].type = "EOE"
                      \/ source[k].type = "EXECVE" /\ \A j \in recs : source[j].argc <= 0
                      \/ source[k].type \in Types(d)
    OBVIOUS
  <2>1. \/ source[k].type \in UniqTypes \/ source[k].type \in Reps
        \/ source[k].type = "EOE" \/ source[k].type = "PATH" \/ source[k].type = "EXECVE"
    BY <1>1, RecordFields
  <2>2. source[k].type \in Ahead \union Reps => source[k].type \in Types(d)
    <3>1. OfType(source, source[k].type) # {}
      BY <1>1
    <3> QED
      BY <3>1 DEF Ended
  <2>3. \/ source[k].type = "EOE"
        \/ source[k].type = "EXECVE" /\ execve.num = 0
        \/ source[k].type \in Ahead \union Reps
    BY <2>1 DEF Ahead
  <2> HIDE DEF recs
  <2> QED
    BY <1>2, <2>2, <2>3
<1>4. WellMade(source, d) /\ d \in Seq(OutputRecords)
  BY DEF Ended
<1>5. DataComplete'
  <2>1. CASE Len(d) = 0 /\ ~result'.text /\ result'.data = <<>>
    BY <2>1 DEF DataComplete, Rendered
  <2>2. CASE result'.data = d
    <3>1. \A t \in Types(d) : \E i \in 1 .. Len(d) : d[i].type = t
      BY DEF Types
    <3>2. \A k \in 1 .. Len(source) :
            \/ source[k].type = "EOE"
            \/ source[k].type = "EXECVE" /\ \A j \in recs : source[j].argc <= 0
            \/ \E i \in 1 .. Len(d) : d[i].type = source[k].type
      BY <1>3, <3>1
    <3> QED
      BY <1>4, <2>2, <3>2 DEF DataComplete
  <2> QED
    BY <2>1, <2>2
<1>6. NothingLost'
  <2>1. CASE Len(d) = 0
    <3>1. Types(d) = {}
      BY <2>1 DEF Types
    <3>2. \A k \in 1 .. Len(source) :
            \/ source[k].type = "EOE"
            \/ source[k].type = "EXECVE" /\ source[k].argc <= 0
      BY <1>1, <1>3, <3>1
    <3> QED
      BY <3>2 DEF NothingLost
  <2>2. CASE Len(d) # 0 /\ result'.data = d
    <3>1. d # <<>>
      BY <2>2
    <3> QED
      BY <2>2, <3>1 DEF NothingLost
  <2> QED
    BY <2>1, <2>2
<1>7. ErrorsJustified'
  <2>1. ~Repeats(source)
    BY RepeatsJudged DEF UniqOK, TypeOK
  <2>2. ~BadPath(source) /\ GoodExecve(source)
    BY PathJudged, ExecveJudged
  <2> QED
    BY <2>1, <2>2 DEF ErrorsJustified
<1>8. FirstErrorReported'
  BY DEF FirstErrorReported, Reasons
<1> QED
  BY <1>5, <1>6, <1>7, <1>8 DEF Outcome

LEMMA FinishOK ==
  ASSUME ConvBufAssumption, ConvBufInv, Finish
  PROVE  ConvBufInv' /\ Outcome'
<1>1. /\ TypeOK /\ FailedOK /\ FirstOK /\ pc' = "idle" /\ Cleanup /\ UNCHANGED with_text
      /\ error_rc = "OK" => UniqOK /\ RepOK /\ PathOK /\ ExecveOK
  BY DEF Finish, FinishWith, ConvBufInv
<1>2. PICK error \in IF error_rc # "OK" THEN {error_rc} ELSE {EndError, "NOMEM"} :
        LET d == IF error = "OK" THEN Collected ELSE data
        IN  /\ error_rc' = error
            /\ record_num' = Count(d)
            /\ result' = IF error \in {"OK"} /\ Count(d) = 0
                         THEN [Nothing EXCEPT !.source = source]
                         ELSE [rc |-> "OK", source |-> source,
                               text |-> with_text \/ error \in Errors,
                               data |-> IF error = "OK" THEN d ELSE <<>>, error |-> error]
  BY DEF Finish, FinishWith
<1>3. record_num \in Nat /\ source \in Seq(Record) /\ Len(data) \in Nat
      /\ error_rc \in {"OK"} \union Errors
  BY <1>1 DEF TypeOK
<1>4. CASE error # "OK"
  <2>1. error \in Errors
    BY <1>2, <1>3, <1>4 DEF EndError, Errors
  <2>2. /\ error_rc' = error /\ record_num' = Count(data)
        /\ result' = [rc |-> "OK", source |-> source, text |-> with_text \/ error \in Errors,
                      data |-> <<>>, error |-> error]
    BY <1>2, <1>4
  <2>3. record_num' = record_num
    BY <1>3, <2>2 DEF Count
  <2>4. ConvBufInv'
    BY <1>1, <1>3, <2>1, <2>2, <2>3, CleanedUp
  <2>5. /\ result'.rc = "OK" /\ result'.text /\ result'.data = <<>> /\ result'.error = error
        /\ result'.source = source
    BY <2>1, <2>2
  <2>6. /\ error = "REPEATED_RECORD" => Repeats(source)
        /\ error = "INVALID_PATH" => BadPath(source)
        /\ error = "INVALID_EXECVE" => ~GoodExecve(source)
    <3>1. CASE error_rc # "OK"
      <4>1. error = error_rc
        BY <1>2, <3>1
      <4> QED
        BY <1>1, <1>3, <4>1, RepeatsJudged, InvalidPathJudged, InvalidExecveJudged DEF FailedOK
    <3>2. CASE error_rc = "OK"
      <4>1. error \in {EndError, "NOMEM"}
        BY <1>2, <3>2
      <4>2. /\ error # "REPEATED_RECORD"
            /\ error = "INVALID_PATH" => ~PathSolid
            /\ error = "INVALID_EXECVE" => ~ExecveFinished
        BY <4>1 DEF EndError
      <4> QED
        BY <1>1, <3>2, <4>2, PathJudged, ExecveJudged
    <3> QED
      BY <3>1, <3>2
  <2>7. error \in Reasons =>
          \/ \E k \in 1 .. Len(source) : FirstRefused(source, k, error)
          \/ /\ Accepted(source)
             /\ error = IF GoodExecve(source) THEN "INVALID_PATH" ELSE "INVALID_EXECVE"
    <3>1. CASE error_rc # "OK"
      <4>1. error = error_rc
        BY <1>2, <3>1
      <4> QED
        BY <1>1, <4>1 DEF FirstOK
    <3>2. CASE error_rc = "OK"
      <4>1. error \in {EndError, "NOMEM"}
        BY <1>2, <3>2
      <4>2. error \in Reasons =>
              error = IF ExecveFinished THEN "INVALID_PATH" ELSE "INVALID_EXECVE"
        BY <4>1 DEF EndError, Reasons
      <4>3. Accepted(source) /\ (GoodExecve(source) <=> ExecveFinished)
        BY <1>1, <3>2, TakenAccepted, ExecveJudged
      <4> QED
        BY <4>2, <4>3
    <3> QED
      BY <3>1, <3>2
  <2> QED
    BY <1>1, <2>1, <2>4, <2>5, <2>6, <2>7, OutcomeError
<1>5. CASE error = "OK"
  <2>1. error_rc = "OK" /\ EndError = "OK"
    BY <1>2, <1>5
  <2>2. UniqOK /\ RepOK /\ PathOK /\ ExecveOK /\ ExecveFinished /\ PathSolid
    BY <1>1, <2>1 DEF EndError
  <2> DEFINE d == Collected
  <2>3. Ended(d, Ahead \union Reps)
    BY <1>1, <2>2, CollectedOK
  <2> HIDE DEF d
  <2>4. d \in Seq(OutputRecords) /\ Len(d) \in Nat
    BY <2>3 DEF Ended
  <2>5. Count(d) = Len(d)
    BY <1>3, <2>2, <2>4 DEF Count, UniqOK
  <2>6. error_rc' = "OK" /\ record_num' = Len(d)
    BY <1>2, <1>5, <2>5 DEF d
  <2>7. ConvBufInv'
    BY <1>1, <2>4, <2>6, CleanedUp
  <2>8. /\ result'.error = "OK" /\ result'.source = source
        /\ \/ Len(d) = 0 /\ ~result'.text /\ result'.data = <<>>
           \/ Len(d) # 0 /\ result'.data = d
    <3>1. CASE Len(d) = 0
      <4>1. result' = [Nothing EXCEPT !.source = source]
        BY <1>2, <1>5, <2>5, <3>1 DEF d
      <4> QED
        BY <3>1, <4>1 DEF Nothing
    <3>2. CASE Len(d) # 0
      <4>1. result' = [rc |-> "OK", source |-> source, text |-> with_text \/ error \in Errors,
                       data |-> d, error |-> "OK"]
        BY <1>2, <1>5, <2>5, <3>2 DEF d
      <4> QED
        BY <3>2, <4>1
    <3> QED
      BY <3>1, <3>2
  <2>9. Outcome'
    BY <1>1, <2>2, <2>3, <2>8, OutcomeOK
  <2> QED
    BY <2>7, <2>9
<1> QED
  BY <1>4, <1>5

(* Nothing is rendered when a conversion fails as a whole.                 *)
LEMMA GiveUpOK ==
  ASSUME ConvBufAssumption, ConvBufInv, GiveUp
  PROVE  ConvBufInv' /\ Outcome'
<1>1. /\ TypeOK /\ pc' = "idle" /\ Cleanup /\ UNCHANGED <<with_text, record_num, error_rc>>
  BY DEF GiveUp, ConvBufInv
<1>2. PICK code \in {"NOMEM", "AUPARSE_FAILED"} : result' = [Nothing EXCEPT !.rc = code]
  BY DEF GiveUp
<1>3. ConvBufInv'
  BY <1>1, CleanedUp DEF TypeOK
<1>4. result'.rc # "OK" /\ result'.source = <<>>
  BY <1>2 DEF Nothing
<1>5. Outcome'
  BY <1>4 DEF Outcome, DataComplete, NothingLost, ErrorsJustified, FirstErrorReported, Rendered
<1> QED
  BY <1>3, <1>5

LEMMA StartOK ==
  ASSUME ConvBufAssumption, ConvBufInv, Start
  PROVE  ConvBufInv' /\ Outcome'
<1>1. /\ pc = "idle" /\ pc' = "records" /\ record_num' = 0 /\ error_rc' = "OK"
      /\ with_text' = with_text /\ source' = source /\ data' = data
      /\ seen' = seen /\ items' = items /\ path' = path /\ execve' = execve
  BY DEF Start, collectors
<1>2. /\ TypeOK /\ CollectorsEmpty /\ execve = NoExecve /\ data = <<>> /\ source = <<>>
  BY <1>1 DEF ConvBufInv
<1>3. TypeOK'
  BY <1>1, <1>2 DEF TypeOK
<1>4. Len(<<>>) = 0 /\ 1 .. 0 = {} /\ <<>> \in Seq(Record)
  OBVIOUS
<1>5. \A t : OfType(<<>>, t) = {}
  BY <1>4 DEF OfType
<1>6. UniqOK'
  <2>1. Types(<<>>) = {} /\ WellMade(<<>>, <<>>) /\ ~Repeated(<<>>)
    BY <1>4 DEF Types, WellMade, Repeated
  <2> QED
    BY <1>1, <1>2, <1>4, <1>5, <2>1 DEF UniqOK, CollectorsEmpty
<1>7. RepOK'
  <2>1. ItemsOf(NoItems, {})
    <3>1. NoItems.list = <<>> /\ NoItems.nodes = 0
      BY DEF NoItems
    <3> QED
      BY <1>4, <3>1 DEF ItemsOf
  <2>2. \A t \in Reps : items[t] = NoItems
    BY <1>2 DEF CollectorsEmpty
  <2> QED
    BY <1>1, <1>2, <1>5, <2>1, <2>2 DEF RepOK
<1>8. PathOK'
  BY <1>1, <1>2, <1>5 DEF PathOK, CollectorsEmpty, NoPath
<1>9. ExecveOK'
  <2>1. Args(<<>>)[0] = 0
    BY <1>4, ArgsAre
  <2>2. execve.num = 0 /\ execve.idx = 0 /\ execve.taken = <<>>
    BY <1>2 DEF NoExecve
  <2>3. Counted(<<>>, execve)
    BY <1>5, <2>2 DEF Counted
  <2>4. Elements(<<>>) = {}
    BY <1>4 DEF Elements
  <2>5. execve'.idx = 0 /\ execve'.taken = <<>> /\ execve'.idx <= execve'.num
    BY <1>1, <2>2
  <2> QED
    BY <1>1, <1>2, <1>4, <1>5, <2>1, <2>3, <2>4, <2>5 DEF ExecveOK
<1>10. ConvBufInv'
  BY <1>1, <1>3, <1>6, <1>7, <1>8, <1>9 DEF ConvBufInv, FailedOK, FirstOK, Reasons
<1>11. Outcome'
  BY <1>1 DEF Outcome, DataComplete, NothingLost, ErrorsJustified, FirstErrorReported, Rendered
<1> QED
  BY <1>10, <1>11

-----------------------------------------------------------------------------

(* ConvBufInv, and what follows from it for the event that has ended last: *)
(* initially there is none.                                                *)
LEMMA InitOK ==
  ASSUME ConvBufAssumption, Init
  PROVE  ConvBufInv /\ Outcome
<1>1. /\ with_text \in BOOLEAN /\ pc = "idle" /\ source = <<>> /\ data = <<>> /\ record_num = 0
      /\ error_rc = "OK" /\ seen = {} /\ items = [t \in Reps |-> NoItems]
      /\ path = NoPath /\ execve = NoExecve /\ result = Nothing
  BY DEF Init
<1>2. TypeOK
  <2>1. NoItems \in [nodes : Nat, list : Seq([record : Nat, comma : BOOLEAN])]
    BY DEF NoItems
  <2>2. path \in [DOMAIN path -> Nat] /\ DOMAIN path \subseteq 0 .. MaxIdx
    BY <1>1 DEF NoPath
  <2>3. execve \in [num : Nat, idx : Nat, taken : Seq(Nat)]
    BY <1>1 DEF NoExecve
  <2>4. items \in [Reps -> [nodes : Nat, list : Seq([record : Nat, comma : BOOLEAN])]]
    BY <1>1, <2>1
  <2>5. source \in Seq(Record) /\ data \in Seq(OutputRecords)
    BY <1>1
  <2> QED
    BY <1>1, <2>2, <2>3, <2>4, <2>5 DEF TypeOK
<1>3. CollectorsEmpty
  BY <1>1 DEF CollectorsEmpty, NoExecve
<1>4. ConvBufInv
  BY <1>1, <1>2, <1>3 DEF ConvBufInv
<1>5. ~Rendered /\ result.source = <<>>
  BY <1>1 DEF Rendered, Nothing
<1>6. Outcome
  BY <1>5 DEF Outcome, DataComplete, NothingLost, ErrorsJustified, FirstErrorReported
<1> QED
  BY <1>4, <1>6

LEMMA NextOK ==
  ASSUME ConvBufAssumption, ConvBufInv /\ Outcome, [Next]_vars
  PROVE  ConvBufInv' /\ Outcome'
<1>1. CASE Start
  BY <1>1, StartOK
<1>2. CASE AddRecord
  <2>1. ConvBufInv'
    BY <1>2, AddRecordOK
  <2>2. pc' = "records"
    BY <1>2 DEF AddRecord
  <2>3. Outcome'
    BY <2>2 DEF Outcome, DataComplete, NothingLost, ErrorsJustified, FirstErrorReported, Rendered
  <2> QED
    BY <2>1, <2>3
<1>3. CASE Finish
  BY <1>3, FinishOK
<1>4. CASE GiveUp
  BY <1>4, GiveUpOK
<1>5. CASE UNCHANGED vars
  <2>1. /\ with_text' = with_text /\ pc' = pc /\ source' = source /\ data' = data
        /\ record_num' = record_num /\ error_rc' = error_rc /\ result' = result
        /\ seen' = seen /\ items' = items /\ path' = path /\ execve' = execve
    BY <1>5 DEF vars, collectors
  <2>2. /\ TypeOK' = TypeOK /\ UniqOK' = UniqOK /\ RepOK' = RepOK /\ PathOK' = PathOK
        /\ ExecveOK' = ExecveOK /\ FailedOK' = FailedOK /\ FirstOK' = FirstOK
        /\ CollectorsEmpty' = CollectorsEmpty
    BY <2>1 DEF TypeOK, UniqOK, RepOK, PathOK, ExecveOK, FailedOK, FirstOK, CollectorsEmpty
  <2>3. ConvBufInv'
    BY <2>1, <2>2 DEF ConvBufInv
  <2>4. Outcome'
    BY <2>1 DEF Outcome, DataComplete, NothingLost, ErrorsJustified, FirstErrorReported, Rendered
  <2> QED
    BY <2>3, <2>4
<1> QED
  BY <1>1, <1>2, <1>3, <1>4, <1>5 DEF Next

(* In every state of the conversion of any number of events, of any number *)
(* of records, the collectors hold what ConvBufInv says of the records the *)
(* loop of aushape_conv_buf_add_event has taken, or are empty.             *)
THEOREM ConvBufInvariant == Spec => [](ConvBufInv /\ Outcome)
<1>1. ConvBufAssumption
  BY ConvBufAssumption
<1>2. Init => ConvBufInv /\ Outcome
  BY <1>1, InitOK
<1>3. (ConvBufInv /\ Outcome) /\ [Next]_vars => (ConvBufInv /\ Outcome)'
  BY <1>1, NextOK
<1> QED
  BY <1>2, <1>3, PTL DEF Spec

(* The data of an event has all of its records, in order, records of a     *)
(* type in one output record, however many there are and whatever their    *)
(* order among the other records.                                          *)
THEOREM DataAlwaysComplete == Spec => []DataComplete
<1>1. Outcome => DataComplete
  BY DEF Outcome
<1> QED
  BY <1>1, ConvBufInvariant, PTL

(* An event that cannot be collected is output with its source text; only  *)
(* one without any output disappears.                                      *)
THEOREM NoEventLost == Spec => []NothingLost
<1>1. Outcome => NothingLost
  BY DEF Outcome
<1> QED
  BY <1>1, ConvBufInvariant, PTL

(* The collectors judge an event record by record and when they are ended, *)
(* yet the judgement is that of the whole event: an error reported is one  *)
(* of its records, and one of its records is always reported.              *)
THEOREM ErrorsAreJustified == Spec => []ErrorsJustified
<1>1. Outcome => ErrorsJustified
  BY DEF Outcome
<1> QED
  BY <1>1, ConvBufInvariant, PTL

(* Of several faults an event is output with the first as its error, by    *)
(* FirstOK: what made a collector refuse a record stays in error_rc in the *)
(* turns of the record loop that follow, and keeps the collectors from     *)
(* being ended, whose errors are reported only if no record was refused.   *)
THEOREM FirstErrorIsReported == Spec => []FirstErrorReported
<1>1. Outcome => FirstErrorReported
  BY DEF Outcome
<1> QED
  BY <1>1, ConvBufInvariant, PTL

=============================================================================
