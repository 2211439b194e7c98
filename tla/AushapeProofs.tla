---------------------------- MODULE AushapeProofs ----------------------------
(***************************************************************************)
(* Proofs about the converter, for every format, every size and number of  *)
(* events, and any order of library calls; and about the program, for      *)
(* every command line, format, input and every failure.                    *)
(***************************************************************************)
EXTENDS Aushape, SequenceTheorems, WellFoundedInduction, TLAPS

-----------------------------------------------------------------------------
(***************************************************************************)
(* Induction over the natural numbers, stated of a set and not of an       *)
(* operator: for what recursive functions of the models compute.           *)
(***************************************************************************)

(* A set with zero, and with the successor of everything in it, has all    *)
(* natural numbers: otherwise one of them would be the least without.      *)
LEMMA SetInduction ==
  ASSUME NEW P, 0 \in P, \A n \in Nat : n \in P => n + 1 \in P
  PROVE  Nat \subseteq P
<1> DEFINE T == Nat \ P
           R == OpToRel(<, Nat)
<1> SUFFICES ASSUME T # {}
             PROVE  FALSE
  OBVIOUS
<1>1. IsWellFoundedOn(R, Nat)
  BY NatLessThanWellFounded
<1>2. \E x \in T : \A y \in T : ~(<<y, x>> \in R)
  <2>1. T \subseteq Nat
    OBVIOUS
  <2> HIDE DEF R, T
  <2> QED
    BY <1>1, <2>1, WFMin
<1>3. PICK x \in T : \A y \in T : ~(<<y, x>> \in R)
  BY <1>2
<1>4. \A y \in Nat : y < x => <<y, x>> \in R
  BY <1>3 DEF OpToRel
<1> HIDE DEF R
<1>5. x # 0 /\ x - 1 \in Nat /\ x - 1 < x
  BY <1>3
<1>6. x - 1 \notin T
  BY <1>3, <1>4, <1>5
<1> QED
  BY <1>3, <1>5, <1>6

-----------------------------------------------------------------------------
(***************************************************************************)
(* Well-formed texts.                                                      *)
(***************************************************************************)

(* Appending to the buffer appends to the whole text.                      *)
LEMMA AppendToConcat ==
  ASSUME NEW S, NEW s \in Seq(S), NEW b \in Seq(S), NEW t \in S
  PROVE  s \o Append(b, t) = Append(s \o b, t)
OBVIOUS

(* Writing the buffer leaves the whole text the same.                      *)
LEMMA ConcatEmpty ==
  ASSUME NEW S, NEW s \in Seq(S)
  PROVE  s \o <<>> = s
OBVIOUS

(* A token that fits keeps a text well-formed.                             *)
LEMMA WellFormedAppend ==
  ASSUME NEW w, NEW s \in Seq(Token), NEW t \in Token,
         WellFormed(w, s), Fits(w, Append(s, t), Len(s) + 1)
  PROVE  WellFormed(w, Append(s, t))
<1> DEFINE a == Append(s, t)
<1>1. Len(a) = Len(s) + 1 /\ \A i \in 1 .. Len(s) : a[i] = s[i]
  OBVIOUS
<1>2. ASSUME NEW i \in 1 .. Len(a)
      PROVE  Fits(w, a, i)
  <2>1. CASE i = Len(s) + 1
    BY <2>1
  <2>2. CASE i \in 1 .. Len(s)
    <3>1. Fits(w, s, i)
      BY <2>2 DEF WellFormed
    <3>2. a[i] = s[i] /\ (i > 1 => a[i - 1] = s[i - 1])
      BY <1>1, <2>2
    <3> QED
      BY <3>1, <3>2 DEF Fits, Inside
  <2> QED
    BY <1>1, <2>1, <2>2
<1> QED
  BY <1>2 DEF WellFormed

(* So does cutting it short.                                               *)
LEMMA WellFormedPrefix ==
  ASSUME NEW w, NEW s \in Seq(Token), NEW p \in Seq(Token),
         Len(p) <= Len(s), \A i \in 1 .. Len(p) : p[i] = s[i],
         WellFormed(w, s)
  PROVE  WellFormed(w, p)
<1>1. ASSUME NEW i \in 1 .. Len(p)
      PROVE  Fits(w, p, i)
  <2>1. Fits(w, s, i)
    BY DEF WellFormed
  <2>2. p[i] = s[i] /\ (i > 1 => p[i - 1] = s[i - 1])
    OBVIOUS
  <2> QED
    BY <2>1, <2>2 DEF Fits, Inside
<1> QED
  BY <1>1 DEF WellFormed

-----------------------------------------------------------------------------
(***************************************************************************)
(* What rendering and writing leave in the buffer and at the output.       *)
(***************************************************************************)

TextTypeOK ==
  /\ rc \in RC
  /\ buf \in Seq(Buffered)
  /\ out \in Seq(Token)
  /\ rest \in Seq(Token)

LEMMA TornIsNoToken == Torn \notin Token
BY DEF Torn, Token

(* A well-formed text that is held back, or written, stays what the output *)
(* and the buffer hold together.                                           *)
LEMMA EmissionOK ==
  ASSUME TypeOK, rc = "OK", rest = <<>>, UNCHANGED format,
         NEW STATE b, b \in Seq(Token), WellFormed(~Bare, out \o b), b # <<>>,
         SeenWellFormed,
         Hold(b) \/ Write(b)
  PROVE  /\ TextTypeOK' /\ TextOK' /\ SeenWellFormed'
         /\ rc' = "OK" => out' \o buf' = out \o b
<1> USE DEF RC, Bare, format
<1>1. out \in Seq(Token) /\ rest \in Seq(Token) /\ b \in Seq(Buffered)
  BY DEF TypeOK, Buffered
<1>2. CASE Hold(b)
  BY <1>1, <1>2 DEF Hold, TextTypeOK, TextOK, SeenWellFormed, Seen
<1>3. CASE Written(b)
  <2>1. out' = out \o b /\ buf' = <<>> /\ rest' = <<>> /\ rc' = "OK"
    BY <1>3 DEF Written
  <2>2. out' \in Seq(Token) /\ buf' \in Seq(Token) /\ buf' \in Seq(Buffered)
    BY <1>1, <2>1
  <2>3. out' \o buf' = out \o b /\ out' \o rest' = out \o b
    BY <1>1, <2>1
  <2> QED
    BY <2>1, <2>2, <2>3 DEF TextTypeOK, TextOK, SeenWellFormed, Seen
<1>4. CASE WriteFails(b)
  <2>1. rc' # "OK" /\ rc' \in RC /\ buf' = b /\ out' = out
    BY <1>4 DEF WriteFails
  <2>2. PICK k \in 0 .. Len(b) : rest' = SubSeq(b, 1, k)
    <3>1. CASE cont
      BY <1>1, <1>4, <3>1 DEF WriteFails
    <3>2. CASE ~cont
      <4>1. rest' = <<>> /\ SubSeq(b, 1, 0) = <<>>
        BY <1>1, <1>4, <3>2 DEF WriteFails
      <4> QED
        BY <1>1, <4>1
    <3> QED
      BY <3>1, <3>2
  <2>3. rest' \in Seq(Token) /\ Len(rest') = k /\ \A i \in 1 .. k : rest'[i] = b[i]
    BY <2>2
  <2> DEFINE seen == out \o rest'
             all  == out \o b
  <2>4. seen \in Seq(Token) /\ all \in Seq(Token) /\ Len(seen) <= Len(all)
    BY <1>1, <2>3
  <2>5. \A i \in 1 .. Len(seen) : seen[i] = all[i]
    BY <1>1, <2>3
  <2>6. WellFormed(~Bare, seen)
    BY <2>4, <2>5, WellFormedPrefix
  <2> QED
    BY <1>1, <2>1, <2>3, <2>6 DEF TextTypeOK, TextOK, SeenWellFormed, Seen
<1> QED
  BY <1>2, <1>3, <1>4 DEF Write

(* A failed rendering only touches the buffer.                             *)
LEMMA RenderFailsOK ==
  ASSUME TypeOK, UNCHANGED format, SeenWellFormed,
         NEW codes, codes \subseteq RC \ {"OK"}, RenderFails(codes)
  PROVE  TextTypeOK' /\ TextOK' /\ SeenWellFormed' /\ rc' # "OK"
<1>1. Append(buf, Torn) \in Seq(Buffered)
  BY DEF TypeOK, Buffered
<1> QED
  BY <1>1 DEF RenderFails, TypeOK, TextTypeOK, TextOK, SeenWellFormed, Seen, Bare, format

-----------------------------------------------------------------------------
(***************************************************************************)
(* The steps that compose the output keep the invariant.                   *)
(***************************************************************************)

(* A token that fits after the text of a working converter.                *)
LEMMA NextTokenOK ==
  ASSUME TypeOK, TextOK, rc = "OK", NEW STATE t, t \in Token,
         Fits(~Bare, Append(out \o buf, t), Len(out \o buf) + 1)
  PROVE  LET b == Append(buf, t)
         IN  /\ b \in Seq(Token) /\ b # <<>>
             /\ out \o b = Append(out \o buf, t)
             /\ WellFormed(~Bare, out \o b)
             /\ Len(out \o b) = Len(out \o buf) + 1
             /\ (out \o b)[Len(out \o b)] = t
<1>1. out \in Seq(Token) /\ buf \in Seq(Token) /\ WellFormed(~Bare, out \o buf)
  BY DEF TypeOK, TextOK
<1>2. out \o Append(buf, t) = Append(out \o buf, t)
  BY <1>1, AppendToConcat
<1>3. out \o buf \in Seq(Token)
  BY <1>1
<1>4. WellFormed(~Bare, Append(out \o buf, t))
  BY <1>1, <1>3, WellFormedAppend
<1> QED
  BY <1>1, <1>2, <1>3, <1>4

(* What each of the three kinds of token finds before it.                  *)
LEMMA PrologueFits ==
  ASSUME ConvInv, rc = "OK", ~Bare, ~in_doc
  PROVE  Prologue \in Token /\ Fits(~Bare, Append(out \o buf, Prologue), Len(out \o buf) + 1)
<1> DEFINE all == out \o buf
<1>1. Prologue \in Token
  BY DEF Prologue, Token
<1>2. ~Open(all) /\ all \in Seq(Token)
  BY DEF ConvInv, DocStateOK, TypeOK, TextOK
<1> QED
  BY <1>1, <1>2 DEF Fits, Inside, Open, Prologue

LEMMA EpilogueFits ==
  ASSUME ConvInv, rc = "OK", ~Bare, in_doc
  PROVE  Epilogue \in Token /\ Fits(~Bare, Append(out \o buf, Epilogue), Len(out \o buf) + 1)
<1> DEFINE all == out \o buf
<1>1. Epilogue \in Token
  BY DEF Epilogue, Token
<1>2. Open(all) /\ all \in Seq(Token)
  BY DEF ConvInv, DocStateOK, TypeOK, TextOK
<1> QED
  BY <1>1, <1>2 DEF Fits, Inside, Open, Epilogue

LEMMA EventFits ==
  ASSUME ConvInv, ConvAssumption, rc = "OK", ~Bare => in_doc, reported \in Nat,
         NEW size \in Sizes
  PROVE  LET t == Event(reported, size, events_in_doc = 0)
         IN  /\ t \in Token
             /\ Fits(~Bare, Append(out \o buf, t), Len(out \o buf) + 1)
<1> DEFINE t   == Event(reported, size, events_in_doc = 0)
           all == out \o buf
<1> USE DEF ConvInv
<1>1. size \in Nat
  BY DEF ConvAssumption
<1>2. t \in Token /\ t.kind = "event" /\ (t.first <=> events_in_doc = 0)
  BY <1>1 DEF Event, Token
<1>3. all \in Seq(Token)
  BY DEF TypeOK, TextOK
<1>4. Fits(~Bare, Append(all, t), Len(all) + 1)
  <2>0. Append(all, t)[Len(all) + 1] = t
    BY <1>2, <1>3
  <2>1. CASE Bare
    <3>1. t.first
      BY <1>2, <2>1 DEF DocStateOK
    <3> QED
      BY <1>2, <2>0, <2>1, <3>1 DEF Fits
  <2>2. CASE ~Bare
    <3>1. Open(all) /\ (events_in_doc = 0 <=> all[Len(all)].kind = "prologue")
      BY <1>3, <2>2 DEF DocStateOK
    <3>2. Inside(Append(all, t), Len(all) + 1)
      BY <1>3, <3>1 DEF Open, Inside
    <3>3. Len(all) > 0
      BY <1>3, <3>1 DEF Open, Inside
    <3>4. Append(all, t)[(Len(all) + 1) - 1] = all[Len(all)]
      BY <1>2, <1>3, <3>3
    <3>5. t.first <=> all[Len(all)].kind = "prologue"
      BY <1>2, <3>1
    <3> QED
      BY <1>2, <2>0, <2>2, <3>2, <3>4, <3>5 DEF Fits
  <2> QED
    BY <2>1, <2>2
<1> QED
  BY <1>2, <1>4

LEMMA StartDocOK ==
  ASSUME ConvInv, rc = "OK", ~Bare, ~in_doc, StartDoc,
         UNCHANGED <<format, events_in_doc>>
  PROVE  /\ TextTypeOK' /\ TextOK' /\ SeenWellFormed' /\ DocStateOK'
         /\ in_doc' \in BOOLEAN
         /\ rc' = "OK" => in_doc'
<1> USE DEF ConvInv, format, Bare
<1>1. CASE RenderFails({"NOMEM"}) /\ UNCHANGED in_doc
  <2>1. TextTypeOK' /\ TextOK' /\ SeenWellFormed' /\ rc' # "OK"
    BY <1>1, RenderFailsOK DEF RC
  <2> QED
    BY <1>1, <2>1 DEF DocStateOK, TypeOK
<1>2. CASE in_doc' = TRUE /\ (Hold(Append(buf, Prologue)) \/ Write(Append(buf, Prologue)))
  <2> DEFINE all == out \o buf
             b   == Append(buf, Prologue)
  <2>2. events_in_doc = 0 /\ all \in Seq(Token)
    BY DEF DocStateOK, TypeOK, TextOK
  <2>4. /\ b \in Seq(Token) /\ b # <<>>
        /\ WellFormed(~Bare, out \o b)
        /\ Len(out \o b) = Len(all) + 1
        /\ (out \o b)[Len(out \o b)] = Prologue
    BY PrologueFits, NextTokenOK
  <2>5. /\ TextTypeOK' /\ TextOK' /\ SeenWellFormed'
        /\ rc' = "OK" => out' \o buf' = out \o b
    BY <1>2, <2>4, EmissionOK DEF TextOK
  <2>6. rc' = "OK" => Open(out' \o buf')
    <3>1. Len(all) \in Nat
      BY <2>2
    <3>2. Open(out \o b)
      BY <2>4, <3>1 DEF Open, Inside, Prologue
    <3> QED
      BY <2>5, <3>2
  <2> QED
    BY <1>2, <2>2, <2>4, <2>5, <2>6 DEF DocStateOK, Prologue
<1> QED
  BY <1>1, <1>2 DEF StartDoc

LEMMA FinishDocOK ==
  ASSUME ConvInv, rc = "OK", ~Bare, in_doc, FinishDoc, UNCHANGED format
  PROVE  /\ TextTypeOK' /\ TextOK' /\ SeenWellFormed' /\ DocStateOK'
         /\ in_doc' \in BOOLEAN /\ events_in_doc' \in Nat
<1> DEFINE all == out \o buf
           b   == Append(buf, Epilogue)
<1> USE DEF ConvInv, format, Bare
<1>1. CASE RenderFails({"NOMEM"}) /\ UNCHANGED <<in_doc, events_in_doc>>
  <2>1. TextTypeOK' /\ TextOK' /\ SeenWellFormed' /\ rc' # "OK"
    BY <1>1, RenderFailsOK DEF RC
  <2> QED
    BY <1>1, <2>1 DEF DocStateOK, TypeOK
<1>2. CASE \/ Written(b) /\ in_doc' = FALSE /\ events_in_doc' = 0
           \/ WriteFails(b) /\ UNCHANGED <<in_doc, events_in_doc>>
  <2>2. all \in Seq(Token)
    BY DEF TypeOK, TextOK
  <2>4. /\ b \in Seq(Token) /\ b # <<>>
        /\ WellFormed(~Bare, out \o b)
        /\ Len(out \o b) = Len(all) + 1
        /\ (out \o b)[Len(out \o b)] = Epilogue
    BY EpilogueFits, NextTokenOK
  <2>5. Write(b)
    BY <1>2 DEF Write
  <2>6. /\ TextTypeOK' /\ TextOK' /\ SeenWellFormed'
        /\ rc' = "OK" => out' \o buf' = out \o b
    BY <2>4, <2>5, EmissionOK DEF TextOK
  <2>7. rc' = "OK" => ~Open(out' \o buf')
    <3>1. Len(all) \in Nat
      BY <2>2
    <3>2. ~Open(out \o b)
      BY <2>4, <3>1 DEF Open, Inside, Epilogue
    <3> QED
      BY <2>6, <3>2
  <2>8. rc' = "OK" => in_doc' = FALSE /\ events_in_doc' = 0
    BY <1>2 DEF WriteFails
  <2>9. in_doc' \in BOOLEAN /\ events_in_doc' \in Nat
    <3>1. in_doc' = FALSE \/ in_doc' = in_doc
      BY <1>2
    <3>2. events_in_doc' = 0 \/ events_in_doc' = events_in_doc
      BY <1>2
    <3>3. in_doc \in BOOLEAN /\ events_in_doc \in Nat
      BY DEF TypeOK
    <3>4. in_doc' \in BOOLEAN
      BY <3>1, <3>3, Zenon
    <3>5. events_in_doc' \in Nat
      BY <3>2, <3>3
    <3> QED
      BY <3>4, <3>5
  <2> QED
    BY <2>6, <2>7, <2>8, <2>9 DEF DocStateOK
<1> QED
  BY <1>1, <1>2 DEF FinishDoc

(* An event weighs something in a document, so that only the first one     *)
(* finds events_in_doc at 0 and is rendered as the first.                  *)
LEMMA EventAddedOK ==
  ASSUME ConvInv, ConvAssumption, ~Bare => in_doc, reported \in Nat,
         NEW size \in Sizes, EventAdded(size), UNCHANGED <<format, in_doc>>
  PROVE  /\ TextTypeOK' /\ TextOK' /\ SeenWellFormed' /\ DocStateOK'
         /\ events_in_doc' \in Nat
<1> DEFINE t   == Event(reported, size, events_in_doc = 0)
           all == out \o buf
           b   == Append(buf, t)
<1> USE DEF ConvInv, format
<1>1. size \in Nat \ {0} /\ epd \in Int
  BY DEF ConvAssumption, TypeOK
<1>2. t \in Token /\ t.kind = "event" /\ (t.first <=> events_in_doc = 0)
  BY <1>1 DEF Event, Token
<1>3. rc = "OK" /\ all \in Seq(Token)
  BY DEF EventAdded, TypeOK, TextOK
<1>4. Fits(~Bare, Append(all, t), Len(all) + 1)
  BY <1>3, EventFits
<1>5. /\ b \in Seq(Token) /\ b # <<>>
      /\ WellFormed(~Bare, out \o b)
      /\ Len(out \o b) = Len(all) + 1
      /\ (out \o b)[Len(out \o b)] = t
  BY <1>2, <1>3, <1>4, NextTokenOK
<1>6. /\ TextTypeOK' /\ TextOK' /\ SeenWellFormed'
      /\ rc' = "OK" => out' \o buf' = out \o b
  <2>1. Hold(b) \/ Write(b)
    BY DEF EventAdded
  <2> QED
    BY <1>3, <1>5, <2>1, EmissionOK DEF TextOK
<1>7. events_in_doc' \in Nat /\ (Bare => events_in_doc' = 0) /\ (~Bare => events_in_doc' > 0)
  BY <1>1 DEF EventAdded, Weight, TypeOK, DocStateOK, Bare
<1>8. rc' = "OK" => /\ Open(out' \o buf')
                    /\ (out' \o buf')[Len(out' \o buf')].kind # "prologue"
  <2> HIDE DEF t, b, all
  <2>1. (out \o b)[Len(out \o b)].kind = "event" /\ Len(out \o b) = Len(all) + 1
    BY <1>2, <1>5
  <2>2. Len(all) \in Nat
    BY <1>3
  <2>3. Open(out \o b)
    BY <2>1, <2>2 DEF Open, Inside
  <2> QED
    BY <1>6, <2>1, <2>3
<1>9. UNCHANGED Bare
  BY DEF Bare
<1> QED
  <2>2. in_doc' = in_doc /\ (Bare => ~in_doc)
    BY DEF DocStateOK
  <2>3. Bare' => ~in_doc' /\ events_in_doc' = 0
    BY <1>7, <1>9, <2>2
  <2>4. ~Bare' => in_doc' /\ events_in_doc' # 0
    BY <1>7, <1>9, <2>2
  <2>5. DocStateOK'
    BY <1>8, <2>3, <2>4 DEF DocStateOK
  <2> QED
    BY <1>6, <1>7, <2>5

(* A step that leaves text and document alone, and at most fails.          *)
LEMMA UntouchedOK ==
  ASSUME ConvInv, UNCHANGED <<format, in_doc, events_in_doc, text>>,
         rc' = rc \/ rc' \in RC \ {"OK"}
  PROVE  /\ TextTypeOK' /\ TextOK' /\ SeenWellFormed' /\ DocStateOK'
         /\ in_doc' \in BOOLEAN /\ events_in_doc' \in Nat
<1> USE DEF ConvInv, format, text
<1>1. TextTypeOK' /\ in_doc' \in BOOLEAN /\ events_in_doc' \in Nat
  BY DEF TypeOK, TextTypeOK
<1>2. UNCHANGED <<Bare, out \o buf, out \o rest>>
  BY DEF Bare
<1>3. TextOK' /\ SeenWellFormed'
  BY <1>2 DEF TextOK, SeenWellFormed, Seen
<1>4. DocStateOK'
  BY <1>2 DEF DocStateOK
<1> QED
  BY <1>1, <1>3, <1>4

-----------------------------------------------------------------------------
(***************************************************************************)
(* ConvInv is an inductive invariant.                                      *)
(***************************************************************************)

LEMMA ConvInvInit == ConvAssumption /\ Init => ConvInv
<1> SUFFICES ASSUME ConvAssumption, Init
             PROVE  ConvInv
  OBVIOUS
<1>1. TypeOK
  <2>1. buf \in Seq(Buffered) /\ out \in Seq(Token) /\ rest \in Seq(Token)
    BY DEF Init
  <2>2. fed \in Nat /\ reported \in 0 .. fed /\ dropped \subseteq 1 .. reported
    BY DEF Init
  <2>3. cont \in BOOLEAN /\ in_doc \in BOOLEAN /\ events_in_doc \in Nat
    BY DEF Init
  <2>4. ret \in [op : {"create", "begin", "input", "flush", "end"}, rc : RC]
    BY DEF Init, RC
  <2> QED
    BY <2>1, <2>2, <2>3, <2>4 DEF Init, TypeOK, RC
<1>2. out \o buf = <<>> /\ out \o rest = <<>>
  BY DEF Init
<1>3. WellFormed(~Bare, <<>>) /\ ~Open(<<>>)
  BY DEF WellFormed, Open, Inside
<1>4. TextOK /\ SeenWellFormed
  BY <1>2, <1>3 DEF Init, TextOK, SeenWellFormed, Seen
<1>5. DocStateOK
  BY <1>2, <1>3 DEF Init, DocStateOK
<1>6. CallbackOK
  BY DEF Init, CallbackOK
<1> QED
  BY <1>1, <1>4, <1>5, <1>6 DEF ConvInv

LEMMA ConvInvStep == ConvAssumption /\ ConvInv /\ [Next]_vars => ConvInv'
<1> SUFFICES ASSUME ConvAssumption, ConvInv, [Next]_vars
             PROVE  ConvInv'
  OBVIOUS
<1> USE DEF format, auparse, control
<1> DEFINE DocOK  == /\ TextTypeOK /\ TextOK /\ SeenWellFormed /\ DocStateOK
                     /\ in_doc \in BOOLEAN /\ events_in_doc \in Nat
           RestOK == /\ epd \in EventsPerDocs /\ cont \in BOOLEAN
                     /\ fed \in Nat /\ reported \in 0 .. fed
                     /\ dropped \subseteq 1 .. reported
                     /\ pc \in {"ready", "prologue", "event", "epilogue"}
                     /\ call \in {"none", "input", "flush", "destroyed"}
                     /\ ret \in [op : {"create", "begin", "input", "flush", "end"}, rc : RC]
<1>0. DocOK /\ RestOK /\ CallbackOK
  BY DEF ConvInv, TypeOK, TextTypeOK
<1>1. SUFFICES DocOK' /\ RestOK' /\ CallbackOK'
  BY DEF ConvInv, TypeOK, TextTypeOK
<1>2. CASE UNCHANGED vars
  <2>1. DocOK'
    BY <1>2, UntouchedOK DEF vars
  <2>2. RestOK' /\ CallbackOK'
    BY <1>0, <1>2 DEF vars, CallbackOK, Bare, Single
  <2> QED
    BY <2>1, <2>2
<1>3. CASE CbReady
  <2>1. DocOK'
    BY <1>3, UntouchedOK DEF CbReady
  <2>2. RestOK' /\ CallbackOK'
    BY <1>0, <1>3 DEF CbReady, CallbackOK, Bare, Single
  <2> QED
    BY <2>1, <2>2
<1>4. CASE CbPrologue
  <2>1. RestOK'
    BY <1>0, <1>4 DEF CbPrologue
  <2>2. CASE rc = "OK" /\ ~Bare /\ ~Single /\ ~in_doc
    <3>1. StartDoc
      BY <1>4, <2>2 DEF CbPrologue
    <3>2. DocOK' /\ (rc' = "OK" => in_doc')
      BY <1>0, <1>4, <2>2, <3>1, StartDocOK DEF CbPrologue
    <3>3. CallbackOK'
      BY <1>0, <1>4, <3>2 DEF CbPrologue, CallbackOK
    <3> QED
      BY <2>1, <3>2, <3>3
  <2>3. CASE ~(rc = "OK" /\ ~Bare /\ ~Single /\ ~in_doc)
    <3>1. DocOK'
      BY <1>4, <2>3, UntouchedOK DEF CbPrologue
    <3>2. CallbackOK'
      BY <1>0, <1>4, <2>3 DEF CbPrologue, CallbackOK, Bare, Single
    <3> QED
      BY <2>1, <3>1, <3>2
  <2> QED
    BY <2>2, <2>3
<1>5. CASE CbEvent
  <2>1. RestOK'
    <3>1. pc' = "epilogue" /\ UNCHANGED <<format, auparse, call, ret>>
      BY <1>5 DEF CbEvent
    <3>2. dropped' = dropped \/ dropped' = dropped \union {reported}
      BY <1>5 DEF CbEvent, EventSkipped, EventDropped, EventFails, EventAdded
    <3>3. reported \in 1 .. reported
      BY <1>0, <1>5 DEF CbEvent, CallbackOK
    <3>4. dropped' \subseteq 1 .. reported
      BY <1>0, <3>2, <3>3
    <3> QED
      BY <1>0, <3>1, <3>4
  <2>2. ASSUME rc' = "OK"
        PROVE  rc = "OK"
    BY <1>5, <2>2 DEF CbEvent, EventSkipped, EventDropped, EventFails, EventAdded
  <2>3. CallbackOK'
    BY <1>0, <1>5, <2>2 DEF CbEvent, CallbackOK, Bare, Single
  <2>4. CASE EventSkipped \/ EventDropped
    BY <1>5, <2>1, <2>3, <2>4, UntouchedOK DEF CbEvent, EventSkipped, EventDropped
  <2>5. CASE EventFails
    <3>1. TextTypeOK' /\ TextOK' /\ SeenWellFormed' /\ rc' # "OK"
      BY <1>5, <2>5, RenderFailsOK DEF CbEvent, EventFails, ConvInv, RC
    <3>2. DocStateOK' /\ in_doc' \in BOOLEAN /\ events_in_doc' \in Nat
      BY <1>0, <1>5, <2>5, <3>1 DEF CbEvent, EventFails, DocStateOK, Bare
    <3> QED
      BY <2>1, <2>3, <3>1, <3>2
  <2>6. ASSUME NEW size \in Sizes, EventAdded(size)
        PROVE  DocOK'
    <3>1. (~Bare => in_doc) /\ reported \in Nat
      BY <1>0, <1>5, <2>6 DEF CbEvent, EventAdded, CallbackOK
    <3>2. UNCHANGED <<format, in_doc>>
      BY <1>5 DEF CbEvent
    <3>3. /\ TextTypeOK' /\ TextOK' /\ SeenWellFormed' /\ DocStateOK'
          /\ events_in_doc' \in Nat
      BY <2>6, <3>1, <3>2, EventAddedOK
    <3> QED
      BY <1>0, <3>2, <3>3
  <2> QED
    BY <1>5, <2>1, <2>3, <2>4, <2>5, <2>6 DEF CbEvent
<1>6. CASE CbEpilogue
  <2>1. RestOK'
    BY <1>0, <1>6 DEF CbEpilogue
  <2>2. CASE rc = "OK" /\ ~Bare /\ ~Single /\ LimitHit
    <3>1. FinishDoc /\ in_doc /\ UNCHANGED format
      BY <1>0, <1>6, <2>2 DEF CbEpilogue, CallbackOK
    <3>2. DocOK'
      BY <2>2, <3>1, FinishDocOK
    <3>3. CallbackOK'
      BY <1>0, <1>6, <2>2 DEF CbEpilogue, CallbackOK, Single
    <3> QED
      BY <2>1, <3>2, <3>3
  <2>3. CASE ~(rc = "OK" /\ ~Bare /\ ~Single /\ LimitHit)
    <3>1. DocOK'
      BY <1>6, <2>3, UntouchedOK DEF CbEpilogue
    <3>2. CallbackOK'
      BY <1>0, <1>6, <2>3 DEF CbEpilogue, CallbackOK, Bare, Single
    <3> QED
      BY <2>1, <3>1, <3>2
  <2> QED
    BY <2>2, <2>3
<1>7. ASSUME NEW op \in {"begin", "input", "flush", "end"}, NEW code \in RC, Refuse(op, code)
      PROVE  DocOK' /\ RestOK' /\ CallbackOK'
  <2>1. DocOK'
    BY <1>7, UntouchedOK DEF Refuse
  <2>2. RestOK' /\ CallbackOK'
    BY <1>0, <1>7 DEF Refuse, Returned, CallbackOK, Bare, Single
  <2> QED
    BY <2>1, <2>2
<1>8. rc \in RC /\ "OK" \in RC /\ "INVALID_STATE" \in RC
  BY <1>0 DEF TextTypeOK, RC
<1>9. CASE Begin
  <2>1. CASE \E code \in RC : Refuse("begin", code)
    BY <1>7, <2>1
  <2>2. CASE /\ Single /\ ~in_doc /\ rc = "OK"
             /\ StartDoc
             /\ Returned("begin", rc')
             /\ UNCHANGED <<format, events_in_doc, auparse, dropped, pc, call>>
    <3>1. ~Bare
      BY <2>2 DEF Single, Bare, ConvAssumption
    <3>2. DocOK'
      BY <1>0, <2>2, <3>1, StartDocOK
    <3>3. RestOK' /\ CallbackOK'
      BY <1>0, <1>9, <2>2, <3>2 DEF Begin, Returned, CallbackOK, TextTypeOK
    <3> QED
      BY <3>2, <3>3
  <2> QED
    BY <1>8, <1>9, <2>1, <2>2 DEF Begin
<1>10. ASSUME NEW op \in {"input", "flush"}, NEW n \in Nat, Enter(op, n)
       PROVE  DocOK' /\ RestOK' /\ CallbackOK'
  <2>1. CASE \E code \in RC : Refuse(op, code)
    BY <1>7, <2>1
  <2>2. CASE /\ ~(Single /\ ~in_doc) /\ rc = "OK"
             /\ call' = op
             /\ fed' = fed + n
             /\ UNCHANGED <<format, rc, in_doc, events_in_doc, text, reported, dropped, pc, ret>>
    <3>1. DocOK'
      BY <2>2, UntouchedOK
    <3>2. RestOK'
      BY <1>0, <2>2
    <3>3. CallbackOK'
      BY <1>0, <1>10, <2>2 DEF Enter, CallbackOK, Bare, Single
    <3> QED
      BY <3>1, <3>2, <3>3
  <2> QED
    BY <1>8, <1>10, <2>1, <2>2 DEF Enter
<1>11. CASE Input
  BY <1>0, <1>10, <1>11 DEF Input
<1>12. CASE Flush
  BY <1>10, <1>12 DEF Flush
<1>13. CASE Leave
  <2>1. rc' = rc \/ rc' = "AUPARSE_FAILED"
    BY <1>13 DEF Leave
  <2>2. DocOK'
    BY <1>13, <2>1, UntouchedOK DEF Leave, RC
  <2>3. RestOK'
    BY <1>0, <1>13, <2>2 DEF Leave, Returned, TextTypeOK
  <2>4. CallbackOK'
    BY <1>0, <1>13, <2>1 DEF Leave, CallbackOK, Bare, Single
  <2> QED
    BY <2>2, <2>3, <2>4
<1>14. CASE End
  <2>1. CASE \E code \in RC : Refuse("end", code)
    BY <1>7, <2>1
  <2>2. CASE /\ ~Bare /\ in_doc /\ rc = "OK"
             /\ FinishDoc
             /\ Returned("end", rc')
             /\ UNCHANGED <<format, auparse, dropped, pc, call>>
    <3>1. DocOK'
      BY <2>2, FinishDocOK
    <3>2. RestOK' /\ CallbackOK'
      BY <1>0, <1>14, <2>2, <3>1 DEF End, Returned, CallbackOK, TextTypeOK
    <3> QED
      BY <3>1, <3>2
  <2> QED
    BY <1>8, <1>14, <2>1, <2>2 DEF End
<1>15. CASE Destroy
  <2>1. DocOK'
    BY <1>15, UntouchedOK DEF Destroy
  <2>2. RestOK' /\ CallbackOK'
    BY <1>0, <1>15 DEF Destroy, CallbackOK, Bare, Single
  <2> QED
    BY <2>1, <2>2
<1> QED
  BY <1>2, <1>3, <1>4, <1>5, <1>6, <1>9, <1>11, <1>12, <1>13, <1>14, <1>15
     DEF Next, Internal

-----------------------------------------------------------------------------
(***************************************************************************)
(* The theorems.                                                           *)
(***************************************************************************)

THEOREM ConvInvariant == Spec => []ConvInv
<1>1. Init => ConvInv
  BY ConvAssumption, ConvInvInit
<1>2. ConvInv /\ [Next]_vars => ConvInv'
  BY ConvAssumption, ConvInvStep
<1> QED
  BY <1>1, <1>2, PTL DEF Spec

(* The converter's fields keep their types, whatever is called in whatever *)
(* order and whatever fails.                                               *)
THEOREM TypeCorrect == Spec => []TypeOK
<1>1. ConvInv => TypeOK
  BY DEF ConvInv
<1> QED
  BY <1>1, ConvInvariant, PTL

(* The reader of the output always has a prefix of well-formed documents,  *)
(* for every number or size of events in a document.                       *)
THEOREM OutputWellFormed == Spec => []SeenWellFormed
<1>1. ConvInv => SeenWellFormed
  BY DEF ConvInv
<1> QED
  BY <1>1, ConvInvariant, PTL

(* After the first failure the converter stays silent for ever.            *)
THEOREM SilentAfterFailure == Spec => FailureFinal
<1> DEFINE Silent == rc # "OK" => rc' # "OK" /\ UNCHANGED <<out, rest>>
<1>1. [Next]_vars => [Silent]_vars
  <2> SUFFICES ASSUME [Next]_vars, rc # "OK", ~UNCHANGED vars
               PROVE  rc' # "OK" /\ UNCHANGED <<out, rest>>
    OBVIOUS
  <2> USE DEF text
  <2>1. CASE CbReady
    BY <2>1 DEF CbReady
  <2>2. CASE CbPrologue
    BY <2>2 DEF CbPrologue
  <2>3. CASE CbEvent
    BY <2>3 DEF CbEvent, EventSkipped, EventDropped, EventFails, EventAdded
  <2>4. CASE CbEpilogue
    BY <2>4 DEF CbEpilogue
  <2>5. CASE Begin
    BY <2>5 DEF Begin, Refuse
  <2>6. CASE Input
    BY <2>6 DEF Input, Enter, Refuse
  <2>7. CASE Flush
    BY <2>7 DEF Flush, Enter, Refuse
  <2>8. CASE Leave
    BY <2>8 DEF Leave
  <2>9. CASE End
    BY <2>9 DEF End, Refuse
  <2>10. CASE Destroy
    BY <2>10 DEF Destroy
  <2> QED
    BY <2>1, <2>2, <2>3, <2>4, <2>5, <2>6, <2>7, <2>8, <2>9, <2>10 DEF Next, Internal
<1> QED
  BY <1>1, PTL DEF Spec, FailureFinal

-----------------------------------------------------------------------------
(***************************************************************************)
(* The converter implements DocStream.                                     *)
(***************************************************************************)

LEMMA SoundText ==
  ASSUME NEW STATE b, b \in Seq(Token)
  PROVE  Sound(b) = b /\ Sound(Append(b, Torn)) = b
<1>1. b # <<>> => b[Len(b)] # Torn
  BY TornIsNoToken
<1>2. Sound(b) = b
  BY <1>1 DEF Sound
<1> DEFINE a == Append(b, Torn)
<1>3. a # <<>> /\ a[Len(a)] = Torn /\ Len(a) - 1 = Len(b)
  OBVIOUS
<1>4. SubSeq(a, 1, Len(b)) = b
  OBVIOUS
<1>5. Sound(a) = b
  BY <1>3, <1>4 DEF Sound
<1> QED
  BY <1>2, <1>5

(* As long as nothing has failed, the log is what output and buffer hold,  *)
(* and the reader has what the output has accepted.                        *)
LEMMA WorkingLog ==
  ASSUME ConvInv, rc = "OK"
  PROVE  /\ Log = out \o buf /\ Log \in Seq(Token)
         /\ Seen = out /\ Len(Seen) \in Nat /\ Len(Seen) <= Len(Log)
<1>1. out \in Seq(Token) /\ buf \in Seq(Token) /\ rest = <<>>
  BY DEF ConvInv, TypeOK, TextOK
<1> QED
  BY <1>1, SoundText DEF Log, Seen

(* A failed rendering leaves the log as it is.                             *)
LEMMA StreamRenderFails ==
  ASSUME ConvInv, rc = "OK", UNCHANGED format,
         NEW codes, "OK" \notin codes, RenderFails(codes)
  PROVE  Stream!Next
<1>1. Log = out \o buf /\ buf \in Seq(Token) /\ Len(Seen) \in Nat /\ Len(Seen) <= Len(Log) /\ Log \in Seq(Token)
  BY WorkingLog DEF ConvInv, TextOK
<1>2. rc' # "OK" /\ out' = out /\ rest' = rest
  BY DEF RenderFails
<1>3. buf' = buf \/ buf' = Append(buf, Torn)
  BY DEF RenderFails
<1>4. Sound(buf') = buf
  BY <1>1, <1>3, SoundText
<1>5. Log' = Log /\ Seen' = Seen
  BY <1>1, <1>2, <1>4 DEF Log, Seen
<1>6. UNCHANGED <<~Bare, cont>>
  BY DEF Bare, format
<1> QED
  BY <1>1, <1>2, <1>5, <1>6 DEF Stream!Next, Stream!Fail, Stream!Compose

(* A token that fits is composed, and delivered to an output that may have *)
(* it now.                                                                 *)
LEMMA StreamEmission ==
  ASSUME ConvInv, rc = "OK", UNCHANGED format,
         NEW STATE t, t \in Token,
         Fits(~Bare, Append(out \o buf, t), Len(out \o buf) + 1),
         NEW STATE b, b = Append(buf, t),
         \/ Hold(b)
         \/ Written(b) /\ (cont \/ Bare \/ ~Open(out \o b))
         \/ WriteFails(b)
  PROVE  Stream!Next
<1>1. Log = out \o buf /\ Log \in Seq(Token) /\ Seen = out /\ Len(Seen) \in Nat
  BY WorkingLog
<1>2. /\ b \in Seq(Token) /\ b # <<>>
      /\ out \o b = Append(Log, t)
      /\ out \in Seq(Token) /\ rest = <<>>
  BY <1>1, NextTokenOK DEF ConvInv, TypeOK, TextOK
<1>3. UNCHANGED <<~Bare, cont, Bare>>
  BY DEF Bare, format
<1>4. ASSUME Log' = out \o b
      PROVE  Stream!Compose
  <2>1. Len(Log') = Len(Log) + 1 /\ Log'[Len(Log')] = t
    BY <1>1, <1>2, <1>4
  <2>2. Fits(~Bare, Log', Len(Log'))
    BY <1>1, <1>2, <1>4, <2>1
  <2> QED
    BY <1>2, <1>4, <2>1, <2>2 DEF Stream!Compose, Stream!Fits, Stream!Token, Fits, Token, Stream!Inside, Inside
<1>5. CASE Hold(b)
  <2>1. Log' = out \o b /\ Seen' = Seen /\ rc' = rc
    BY <1>2, <1>5, SoundText DEF Hold, Log, Seen
  <2> QED
    BY <1>3, <1>4, <2>1 DEF Stream!Next, Stream!Advance
<1>6. CASE Written(b) /\ (cont \/ Bare \/ ~Open(out \o b))
  <2>1. out' = out \o b /\ buf' = <<>> /\ rest' = <<>> /\ rc' = rc
    BY <1>2, <1>6 DEF Written
  <2>2. Sound(<<>>) = <<>>
    BY DEF Sound
  <2>3. Log' = out \o b /\ Seen' = out \o b
    BY <1>2, <2>1, <2>2 DEF Log, Seen
  <2> QED
    BY <1>3, <1>4, <1>6, <2>1, <2>3
       DEF Stream!Next, Stream!Advance, Stream!Deliver, Stream!Open, Open, Stream!Inside, Inside
<1>7. CASE WriteFails(b)
  <2>1. rc' # "OK" /\ out' = out /\ buf' = b
    BY <1>7 DEF WriteFails
  <2>2. Log' = out \o b
    BY <1>2, <2>1, SoundText DEF Log
  <2>3. /\ Len(Seen') \in Len(Seen) .. Len(Log')
        /\ ~cont => Len(Seen') = Len(Seen)
    <3>1. CASE cont
      <4>1. PICK k \in 0 .. Len(b) - 1 : rest' = SubSeq(b, 1, k)
        BY <1>7, <3>1 DEF WriteFails
      <4>2. rest' \in Seq(Token) /\ Len(rest') = k
        BY <1>2, <4>1
      <4>3. Len(out \o rest') = Len(out) + k /\ Len(out \o b) = Len(out) + Len(b)
        BY <1>2, <4>2
      <4>4. Len(Seen') = Len(out) + k /\ Len(Log') = Len(out) + Len(b)
        BY <2>1, <2>2, <4>3 DEF Seen
      <4> QED
        BY <1>1, <1>2, <3>1, <4>4
    <3>2. CASE ~cont
      <4>1. Seen' = Seen
        BY <1>7, <2>1, <3>2 DEF WriteFails, Seen
      <4>2. Len(Log') = Len(out) + Len(b)
        BY <1>2, <2>2
      <4> QED
        BY <1>1, <1>2, <4>1, <4>2
    <3> QED
      BY <3>1, <3>2
  <2> QED
    BY <1>3, <1>4, <2>1, <2>2, <2>3 DEF Stream!Next, Stream!Fail
<1> QED
  BY <1>5, <1>6, <1>7

(* A step that leaves text alone composes and delivers nothing.            *)
LEMMA StreamUntouched ==
  ASSUME ConvInv, UNCHANGED <<format, text>>, rc' = rc \/ rc' # "OK"
  PROVE  [Stream!Next]_Stream!vars
<1>1. Log' = Log /\ Seen' = Seen /\ UNCHANGED <<~Bare, cont>>
  BY DEF text, format, Log, Sound, Seen, Bare
<1>2. CASE rc' = rc
  BY <1>1, <1>2 DEF Stream!vars
<1>3. CASE rc # "OK" /\ rc' # "OK"
  BY <1>1, <1>3 DEF Stream!vars
<1>4. CASE rc = "OK" /\ rc' # "OK"
  <2>1. Len(Seen) \in Nat /\ Len(Seen) <= Len(Log) /\ Log \in Seq(Token)
    BY <1>4, WorkingLog
  <2> QED
    BY <1>1, <1>4, <2>1 DEF Stream!Next, Stream!Fail, Stream!Compose
<1> QED
  BY <1>2, <1>3, <1>4

LEMMA StreamStartDoc ==
  ASSUME ConvInv, rc = "OK", ~Bare, ~in_doc, StartDoc, UNCHANGED format
  PROVE  Stream!Next
<1> DEFINE b == Append(buf, Prologue)
<1>1. CASE RenderFails({"NOMEM"})
  BY <1>1, StreamRenderFails
<1>2. CASE Hold(b)
  BY <1>2, PrologueFits, StreamEmission
<1>3. CASE cont /\ Write(b)
  BY <1>3, PrologueFits, StreamEmission DEF Write
<1> QED
  BY <1>1, <1>2, <1>3 DEF StartDoc

LEMMA StreamFinishDoc ==
  ASSUME ConvInv, rc = "OK", ~Bare, in_doc, FinishDoc, UNCHANGED format
  PROVE  Stream!Next
<1> DEFINE b == Append(buf, Epilogue)
<1>1. CASE RenderFails({"NOMEM"})
  BY <1>1, StreamRenderFails
<1>2. CASE Written(b) \/ WriteFails(b)
  <2>1. /\ Len(out \o b) = Len(out \o buf) + 1
        /\ (out \o b)[Len(out \o b)] = Epilogue
    BY EpilogueFits, NextTokenOK DEF ConvInv
  <2>2. Len(out \o buf) \in Nat
    BY DEF ConvInv, TypeOK
  <2>3. ~Open(out \o b)
    BY <2>1, <2>2 DEF Open, Inside, Epilogue
  <2> QED
    BY <1>2, <2>3, EpilogueFits, StreamEmission
<1> QED
  BY <1>1, <1>2 DEF FinishDoc

LEMMA StreamEventAdded ==
  ASSUME ConvInv, ConvAssumption, ~Bare => in_doc, reported \in Nat,
         NEW size \in Sizes, EventAdded(size), UNCHANGED format
  PROVE  Stream!Next
<1> DEFINE t == Event(reported, size, events_in_doc = 0)
           b == Append(buf, t)
<1>1. rc = "OK" /\ (Hold(b) \/ (Write(b) /\ (cont \/ Bare)))
  BY DEF EventAdded
<1>2. t \in Token /\ Fits(~Bare, Append(out \o buf, t), Len(out \o buf) + 1)
  BY <1>1, EventFits
<1>3. Hold(b) \/ (Written(b) /\ (cont \/ Bare)) \/ WriteFails(b)
  BY <1>1 DEF Write
<1> HIDE DEF t
<1> QED
  BY <1>1, <1>2, <1>3, StreamEmission

LEMMA StreamStep == ConvAssumption /\ ConvInv /\ [Next]_vars => [Stream!Next]_Stream!vars
<1> SUFFICES ASSUME ConvAssumption, ConvInv, [Next]_vars
             PROVE  [Stream!Next]_Stream!vars
  OBVIOUS
<1>1. ASSUME NEW op, NEW code, Refuse(op, code)
      PROVE  [Stream!Next]_Stream!vars
  BY <1>1, StreamUntouched DEF Refuse
<1>2. CASE UNCHANGED vars
  BY <1>2, StreamUntouched DEF vars
<1>3. CASE CbReady
  BY <1>3, StreamUntouched DEF CbReady
<1>4. CASE CbPrologue
  <2>1. CASE rc = "OK" /\ ~Bare /\ ~Single /\ ~in_doc
    BY <1>4, <2>1, StreamStartDoc DEF CbPrologue
  <2>2. CASE ~(rc = "OK" /\ ~Bare /\ ~Single /\ ~in_doc)
    BY <1>4, <2>2, StreamUntouched DEF CbPrologue
  <2> QED
    BY <2>1, <2>2
<1>5. CASE CbEvent
  <2>1. UNCHANGED format
    BY <1>5 DEF CbEvent
  <2>2. CASE EventSkipped \/ EventDropped
    BY <2>1, <2>2, StreamUntouched DEF EventSkipped, EventDropped
  <2>3. CASE EventFails
    BY <2>1, <2>3, StreamRenderFails DEF EventFails
  <2>4. ASSUME NEW size \in Sizes, EventAdded(size)
        PROVE  Stream!Next
    <3>1. (~Bare => in_doc) /\ reported \in Nat
      BY <1>5, <2>4 DEF CbEvent, EventAdded, ConvInv, TypeOK, CallbackOK
    <3> QED
      BY <2>1, <2>4, <3>1, StreamEventAdded
  <2> QED
    BY <1>5, <2>2, <2>3, <2>4 DEF CbEvent
<1>6. CASE CbEpilogue
  <2>1. CASE rc = "OK" /\ ~Bare /\ ~Single /\ LimitHit
    BY <1>6, <2>1, StreamFinishDoc DEF CbEpilogue, ConvInv, CallbackOK
  <2>2. CASE ~(rc = "OK" /\ ~Bare /\ ~Single /\ LimitHit)
    BY <1>6, <2>2, StreamUntouched DEF CbEpilogue
  <2> QED
    BY <2>1, <2>2
<1>7. CASE Begin
  <2>1. Single => ~Bare
    BY DEF Single, Bare, ConvAssumption
  <2> QED
    BY <1>1, <1>7, <2>1, StreamStartDoc DEF Begin
<1>8. ASSUME NEW op, NEW n, Enter(op, n)
      PROVE  [Stream!Next]_Stream!vars
  BY <1>1, <1>8, StreamUntouched DEF Enter
<1>9. CASE Leave
  BY <1>9, StreamUntouched DEF Leave
<1>10. CASE End
  BY <1>1, <1>10, StreamFinishDoc DEF End
<1>11. CASE Destroy
  BY <1>11, StreamUntouched DEF Destroy
<1> QED
  BY <1>2, <1>3, <1>4, <1>5, <1>6, <1>7, <1>8, <1>9, <1>10, <1>11
     DEF Next, Internal, Input, Flush

(* Every behaviour of the converter is one of the abstract stream: what    *)
(* the reader has at any time is a prefix of one growing well-formed log,  *)
(* delivered without gaps, and to a discrete output only at the end of     *)
(* documents.                                                              *)
THEOREM Refinement == Spec => ImplementsStream
<1>1. Init => Stream!Init
  <2> SUFFICES ASSUME Init
               PROVE  Stream!Init
    OBVIOUS
  <2>1. Log = <<>> /\ Len(Seen) = 0
    BY DEF Init, Log, Seen, Sound
  <2> QED
    BY <2>1 DEF Init, Stream!Init
<1>2. ConvInv /\ [Next]_vars => [Stream!Next]_Stream!vars
  BY ConvAssumption, StreamStep
<1> QED
  BY <1>1, <1>2, ConvInvariant, PTL DEF Spec, ImplementsStream, Stream!Spec

-----------------------------------------------------------------------------
(***************************************************************************)
(* What steps do to the log.                                               *)
(***************************************************************************)

(* What is held back, written, or not written, is composed.                *)
LEMMA EmissionLog ==
  ASSUME ConvInv, rc = "OK",
         NEW STATE t, t \in Token,
         NEW STATE b, b = Append(buf, t), Hold(b) \/ Write(b)
  PROVE  Log' = Append(Log, t)
<1>1. Log = out \o buf /\ out \in Seq(Token) /\ buf \in Seq(Token)
  BY WorkingLog DEF ConvInv, TypeOK, TextOK
<1>2. b \in Seq(Token) /\ out \o b = Append(Log, t)
  BY <1>1, AppendToConcat
<1>3. CASE Hold(b) \/ WriteFails(b)
  <2>1. out' = out /\ buf' = b
    BY <1>3 DEF Hold, WriteFails
  <2> QED
    BY <1>2, <2>1, SoundText DEF Log
<1>4. CASE Written(b)
  <2>1. out' = out \o b /\ buf' = <<>>
    BY <1>4 DEF Written
  <2>2. Sound(<<>>) = <<>>
    BY DEF Sound
  <2>3. (out \o b) \o <<>> = out \o b
    BY <1>1, <1>2
  <2> QED
    BY <1>2, <2>1, <2>2, <2>3 DEF Log
<1> QED
  BY <1>3, <1>4 DEF Write

(* A failed rendering is not.                                              *)
LEMMA RenderFailsLog ==
  ASSUME ConvInv, rc = "OK", NEW codes, "OK" \notin codes, RenderFails(codes)
  PROVE  Log' = Log /\ rc' # "OK"
<1>1. buf \in Seq(Token) /\ Log = out \o buf
  BY WorkingLog DEF ConvInv, TextOK
<1>2. rc' # "OK" /\ out' = out /\ (buf' = buf \/ buf' = Append(buf, Torn))
  BY DEF RenderFails
<1>3. Sound(buf') = buf
  BY <1>1, <1>2, SoundText
<1> QED
  BY <1>1, <1>2, <1>3 DEF Log

(* A document's beginning and end are composed, or fail to be.             *)
LEMMA StartDocLog ==
  ASSUME ConvInv, rc = "OK", StartDoc
  PROVE  Log' = Append(Log, Prologue) \/ (Log' = Log /\ rc' # "OK")
<1>1. Prologue \in Token
  BY DEF Prologue, Token
<1> QED
  BY <1>1, EmissionLog, RenderFailsLog DEF StartDoc

LEMMA FinishDocLog ==
  ASSUME ConvInv, rc = "OK", FinishDoc
  PROVE  Log' = Append(Log, Epilogue) \/ (Log' = Log /\ rc' # "OK")
<1>1. Epilogue \in Token
  BY DEF Epilogue, Token
<1> QED
  BY <1>1, EmissionLog, RenderFailsLog DEF FinishDoc, Write

LEMMA EventAddedLog ==
  ASSUME ConvInv, ConvAssumption, NEW size \in Sizes, EventAdded(size)
  PROVE  /\ Event(reported, size, events_in_doc = 0) \in Token
         /\ Log' = Append(Log, Event(reported, size, events_in_doc = 0))
<1>1. Event(reported, size, events_in_doc = 0) \in Token
  BY DEF ConvInv, TypeOK, ConvAssumption, Event, Token
<1> DEFINE t == Event(reported, size, events_in_doc = 0)
<1>2. rc = "OK" /\ (Hold(Append(buf, t)) \/ Write(Append(buf, t)))
  BY DEF EventAdded
<1> HIDE DEF t
<1>3. Log' = Append(Log, t)
  BY <1>1, <1>2, EmissionLog DEF t
<1> QED
  BY <1>1, <1>3 DEF t

LEMMA SameLog ==
  ASSUME UNCHANGED text
  PROVE  Log' = Log
BY DEF text, Log, Sound


(* What every step but those of the block for the event does: it composes  *)
(* no event and leaves none out, takes care of none, and recovers nothing. *)
NoEvent ==
  /\ Log' = Log \/ \E t \in Token : t.kind # "event" /\ Log' = Append(Log, t)
  /\ Log' # Log => rc = "OK"
  /\ UNCHANGED <<dropped, Handled>>
  /\ rc' = "OK" => rc = "OK"

LEMMA OtherSteps ==
  ASSUME ConvAssumption, ConvInv, [Next]_vars
  PROVE  NoEvent \/ CbEvent
<1> USE DEF format, auparse, control
<1>1. Prologue \in Token /\ Prologue.kind # "event" /\ Epilogue \in Token /\ Epilogue.kind # "event"
  BY DEF Prologue, Epilogue, Token
<1>2. reported \in Nat
  BY DEF ConvInv, TypeOK
<1>3. ASSUME NEW op, NEW code, Refuse(op, code)
      PROVE  NoEvent
  BY <1>3, SameLog DEF Refuse, NoEvent, Handled
<1>4. CASE UNCHANGED vars
  BY <1>4, SameLog DEF vars, NoEvent, Handled
<1>5. CASE CbReady
  <2>1. UNCHANGED Handled
    BY <1>2, <1>5 DEF CbReady, Handled
  <2> QED
    BY <1>5, <2>1, SameLog DEF CbReady, NoEvent
<1>6. CASE CbPrologue
  <2>1. UNCHANGED <<Handled, dropped>>
    BY <1>6 DEF CbPrologue, Handled
  <2>2. CASE rc = "OK" /\ StartDoc
    BY <1>1, <2>1, <2>2, StartDocLog DEF NoEvent
  <2>3. CASE UNCHANGED <<rc, in_doc, text>>
    BY <2>1, <2>3, SameLog DEF NoEvent
  <2> QED
    BY <1>6, <2>2, <2>3 DEF CbPrologue
<1>7. CASE CbEpilogue
  <2>1. UNCHANGED <<Handled, dropped>>
    BY <1>7 DEF CbEpilogue, Handled
  <2>2. CASE rc = "OK" /\ FinishDoc
    BY <1>1, <2>1, <2>2, FinishDocLog DEF NoEvent
  <2>3. CASE UNCHANGED <<rc, in_doc, events_in_doc, text>>
    BY <2>1, <2>3, SameLog DEF NoEvent
  <2> QED
    BY <1>7, <2>2, <2>3 DEF CbEpilogue
<1>8. CASE Begin
  <2>1. CASE \E code \in {"OK", "INVALID_STATE", rc} : Refuse("begin", code)
    BY <1>3, <2>1
  <2>2. CASE rc = "OK" /\ StartDoc /\ UNCHANGED <<auparse, dropped, pc>>
    BY <1>1, <2>2, StartDocLog DEF NoEvent, Handled
  <2> QED
    BY <1>8, <2>1, <2>2 DEF Begin
<1>9. ASSUME NEW op, NEW n, Enter(op, n)
      PROVE  NoEvent
  <2>1. CASE \E code : Refuse(op, code)
    BY <1>3, <2>1
  <2>2. CASE UNCHANGED <<rc, text, reported, dropped, pc>>
    BY <2>2, SameLog DEF NoEvent, Handled
  <2> QED
    BY <1>9, <2>1, <2>2 DEF Enter
<1>10. CASE Leave
  <2>1. UNCHANGED <<text, reported, dropped, pc>> /\ (rc' = "OK" => rc = "OK")
    BY <1>10 DEF Leave
  <2> QED
    BY <2>1, SameLog DEF NoEvent, Handled
<1>11. CASE End
  <2>1. CASE \E code : Refuse("end", code)
    BY <1>3, <2>1
  <2>2. CASE rc = "OK" /\ FinishDoc /\ UNCHANGED <<auparse, dropped, pc>>
    BY <1>1, <2>2, FinishDocLog DEF NoEvent, Handled
  <2> QED
    BY <1>11, <2>1, <2>2 DEF End
<1>12. CASE Destroy
  BY <1>12, SameLog DEF Destroy, NoEvent, Handled
<1> QED
  BY <1>4, <1>5, <1>6, <1>7, <1>8, <1>9, <1>10, <1>11, <1>12
     DEF Next, Internal, Input, Flush

-----------------------------------------------------------------------------
(***************************************************************************)
(* Events come out once, and in order.                                     *)
(***************************************************************************)

(* The numbers of the events of a text with one more token.                *)
LEMMA IdsAppend ==
  ASSUME NEW s \in Seq(Token), NEW t \in Token
  PROVE  Ids(Append(s, t)) = Ids(s) \union (IF t.kind = "event" THEN {t.id} ELSE {})
<1> DEFINE a == Append(s, t)
<1>1. Len(a) = Len(s) + 1 /\ a[Len(s) + 1] = t /\ \A i \in 1 .. Len(s) : a[i] = s[i]
  OBVIOUS
<1>2. Len(s) \in Nat
  OBVIOUS
<1> HIDE DEF a
<1>3. ASSUME NEW x \in Ids(a)
      PROVE  x \in Ids(s) \union (IF t.kind = "event" THEN {t.id} ELSE {})
  <2>1. PICK i \in 1 .. Len(a) : a[i].kind = "event" /\ a[i].id = x
    BY <1>3 DEF Ids
  <2>2. CASE i = Len(s) + 1
    BY <1>1, <2>1, <2>2
  <2>3. CASE i \in 1 .. Len(s)
    BY <1>1, <2>1, <2>3 DEF Ids
  <2> QED
    BY <1>1, <1>2, <2>2, <2>3
<1>4. ASSUME NEW x \in Ids(s)
      PROVE  x \in Ids(a)
  <2>1. PICK i \in 1 .. Len(s) : s[i].kind = "event" /\ s[i].id = x
    BY <1>4 DEF Ids
  <2>2. i \in 1 .. Len(a) /\ a[i] = s[i]
    BY <1>1, <1>2, <2>1
  <2> QED
    BY <2>1, <2>2 DEF Ids
<1>5. t.kind = "event" => t.id \in Ids(a)
  <2>1. Len(s) + 1 \in 1 .. Len(a)
    BY <1>1, <1>2
  <2> QED
    BY <1>1, <2>1 DEF Ids
<1> QED
  BY <1>3, <1>4, <1>5 DEF a

(* The numbers of events are those of the tokens.                          *)
Ascending(s) ==
  \A i, j \in 1 .. Len(s) :
    i < j /\ s[i].kind = "event" /\ s[j].kind = "event" => s[i].id < s[j].id

LEMMA AscendingAppend ==
  ASSUME NEW s \in Seq(Token), NEW t \in Token, Ascending(s),
         t.kind = "event" => \A x \in Ids(s) : x < t.id
  PROVE  Ascending(Append(s, t))
<1> DEFINE a == Append(s, t)
<1>1. Len(a) = Len(s) + 1 /\ a[Len(s) + 1] = t /\ \A i \in 1 .. Len(s) : a[i] = s[i]
  OBVIOUS
<1>2. Len(s) \in Nat
  OBVIOUS
<1> HIDE DEF a
<1>3. ASSUME NEW i \in 1 .. Len(a), NEW j \in 1 .. Len(a), i < j,
             a[i].kind = "event", a[j].kind = "event"
      PROVE  a[i].id < a[j].id
  <2>1. i \in 1 .. Len(s) /\ a[i] = s[i]
    BY <1>1, <1>2, <1>3
  <2>2. CASE j \in 1 .. Len(s)
    BY <1>1, <1>3, <2>1, <2>2 DEF Ascending
  <2>3. CASE j = Len(s) + 1
    <3>1. s[i].id \in Ids(s)
      BY <1>3, <2>1 DEF Ids
    <3> QED
      BY <1>1, <1>3, <2>1, <2>3, <3>1
  <2> QED
    BY <1>1, <1>2, <2>2, <2>3
<1> QED
  BY <1>3 DEF Ascending, a

LEMMA EventsInOrderStep ==
  ASSUME ConvAssumption, ConvInv, EventsInOrder, [Next]_vars
  PROVE  EventsInOrder'
<1>0. /\ Ascending(Log) /\ Ids(Log) \intersect dropped = {}
      /\ \E m \in 0 .. Handled : /\ Ids(Log) \union dropped = 1 .. m
                                 /\ rc = "OK" => m = Handled
  BY DEF EventsInOrder, Ascending
<1> DEFINE Goal == /\ Ascending(Log') /\ Ids(Log') \intersect dropped' = {}
                   /\ \E m \in 0 .. Handled' : /\ Ids(Log') \union dropped' = 1 .. m
                                               /\ rc' = "OK" => m = Handled'
<1>1. SUFFICES Goal
  BY DEF EventsInOrder, Ascending, Ids
<1>2. rc = "OK" => Log \in Seq(Token)
  BY WorkingLog
<1>3. CASE NoEvent
  <2>1. Ids(Log') = Ids(Log) /\ Ascending(Log')
    <3>1. CASE Log' = Log
      BY <1>0, <3>1
    <3>2. CASE rc = "OK" /\ \E t \in Token : t.kind # "event" /\ Log' = Append(Log, t)
      <4>1. PICK t \in Token : t.kind # "event" /\ Log' = Append(Log, t)
        BY <3>2
      <4>2. Ids(Log') = Ids(Log)
        BY <1>2, <3>2, <4>1, IdsAppend
      <4>3. Ascending(Log')
        BY <1>0, <1>2, <3>2, <4>1, AscendingAppend
      <4> QED
        BY <4>2, <4>3
    <3> QED
      BY <1>3, <3>1, <3>2 DEF NoEvent
  <2> QED
    BY <1>0, <1>3, <2>1 DEF NoEvent
<1>4. CASE CbEvent
  <2>1. /\ reported \in Nat /\ reported > 0 /\ reported' = reported
        /\ Handled = reported - 1 /\ Handled' = reported
    BY <1>4 DEF CbEvent, auparse, Handled, ConvInv, TypeOK, CallbackOK
  <2>2. PICK m \in 0 .. reported - 1 : /\ Ids(Log) \union dropped = 1 .. m
                                       /\ rc = "OK" => m = reported - 1
    BY <1>0, <2>1
  <2>3. m \in 0 .. reported
    BY <2>1
  <2>4. CASE EventSkipped
    <3>1. Log' = Log /\ dropped' = dropped /\ rc' # "OK"
      BY <2>4, SameLog DEF EventSkipped
    <3> QED
      BY <1>0, <2>1, <2>2, <2>3, <3>1
  <2>5. CASE EventFails
    <3>1. Log' = Log /\ dropped' = dropped /\ rc' # "OK"
      BY <2>5, RenderFailsLog DEF EventFails
    <3> QED
      BY <1>0, <2>1, <2>2, <2>3, <3>1
  <2>6. CASE EventDropped
    <3>1. Log' = Log /\ dropped' = dropped \union {reported} /\ rc = "OK"
      BY <2>6, SameLog DEF EventDropped
    <3>2. Ids(Log) \union dropped = 1 .. reported - 1
      BY <2>2, <3>1
    <3>3. Ids(Log) \intersect dropped' = {}
      BY <1>0, <2>1, <3>1, <3>2
    <3>4. Ids(Log) \union dropped' = 1 .. reported
      BY <2>1, <3>1, <3>2
    <3> QED
      BY <1>0, <2>1, <3>1, <3>3, <3>4
  <2>7. ASSUME NEW size \in Sizes, EventAdded(size)
        PROVE  Goal
    <3> DEFINE t == Event(reported, size, events_in_doc = 0)
    <3>1. t \in Token /\ Log' = Append(Log, t) /\ rc = "OK" /\ dropped' = dropped
      BY <2>7, EventAddedLog DEF EventAdded
    <3>2. t.kind = "event" /\ t.id = reported
      BY DEF Event
    <3> HIDE DEF t
    <3>3. Ids(Log) \union dropped = 1 .. reported - 1
      BY <2>2, <3>1
    <3>4. Ids(Log') = Ids(Log) \union {reported}
      BY <1>2, <3>1, <3>2, IdsAppend
    <3>5. Ascending(Log')
      <4>1. \A x \in Ids(Log) : x < reported
        BY <2>1, <3>3
      <4> QED
        BY <1>0, <1>2, <3>1, <3>2, <4>1, AscendingAppend
    <3>6. Ids(Log') \intersect dropped' = {}
      BY <1>0, <2>1, <3>1, <3>3, <3>4
    <3>7. Ids(Log') \union dropped' = 1 .. reported
      BY <2>1, <3>1, <3>3, <3>4
    <3> QED
      BY <2>1, <3>5, <3>6, <3>7
  <2> QED
    BY <1>4, <2>4, <2>5, <2>6, <2>7 DEF CbEvent
<1> QED
  BY <1>3, <1>4, OtherSteps

(* However documents are split, and whatever fails: the events auparse     *)
(* reports come out once each, in order, but for those add_event drops,    *)
(* and a failure makes no gap.                                             *)
THEOREM OnceAndInOrder == Spec => []EventsInOrder
<1>1. Init => EventsInOrder
  <2> SUFFICES ASSUME Init
               PROVE  EventsInOrder
    OBVIOUS
  <2>1. Log = <<>> /\ dropped = {} /\ Handled = 0
    BY DEF Init, Log, Sound, Handled
  <2>2. Len(Log) = 0 /\ Ids(Log) = {}
    BY <2>1 DEF Ids
  <2> QED
    BY <2>1, <2>2 DEF EventsInOrder
<1>2. ConvInv /\ EventsInOrder /\ [Next]_vars => EventsInOrder'
  BY ConvAssumption, EventsInOrderStep
<1> QED
  BY <1>1, <1>2, ConvInvariant, PTL DEF Spec

-----------------------------------------------------------------------------
(***************************************************************************)
(* No document goes past its limit.                                        *)
(***************************************************************************)

(* f gives the weights of s up to the n-th token.                          *)
AreWeights(s, n, f) ==
  f = [i \in 0 .. n |->
         IF i = 0 \/ s[i].kind # "event" THEN 0 ELSE f[i - 1] + Weight(s[i].size)]

(* Such a function exists, by induction on n.                              *)
LEMMA WeightsExist ==
  ASSUME NEW s
  PROVE  \A n \in Nat : \E f : AreWeights(s, n, f)
<1> DEFINE P == {n \in Nat : \E f : AreWeights(s, n, f)}
<1>1. 0 \in P
  <2> DEFINE f == [i \in 0 .. 0 |-> 0]
  <2>1. AreWeights(s, 0, f)
    BY DEF AreWeights
  <2> QED
    BY <2>1
<1>2. ASSUME NEW n \in Nat, n \in P
      PROVE  n + 1 \in P
  <2>1. PICK f : AreWeights(s, n, f)
    BY <1>2
  <2> DEFINE w(i, g) == IF i = 0 \/ s[i].kind # "event" THEN 0 ELSE g[i - 1] + Weight(s[i].size)
             h == [i \in 0 .. n + 1 |-> w(i, f)]
  <2>2. f = [i \in 0 .. n |-> w(i, f)]
    BY <2>1 DEF AreWeights
  <2> HIDE DEF w
  <2>3. \A i \in 0 .. n : h[i] = f[i]
    BY <2>2
  <2>4. \A i \in 0 .. n + 1 : i = 0 \/ h[i - 1] = f[i - 1]
    <3> HIDE DEF h
    <3> QED
      BY <2>3
  <2>5. \A i \in 0 .. n + 1 : w(i, h) = w(i, f)
    <3> HIDE DEF h
    <3> QED
      BY <2>4 DEF w
  <2>6. h = [i \in 0 .. n + 1 |-> w(i, h)]
    BY <2>5
  <2>7. AreWeights(s, n + 1, h)
    BY <2>6 DEF AreWeights, w
  <2> QED
    BY <2>7
<1> HIDE DEF P
<1>3. Nat \subseteq P
  BY <1>1, <1>2, SetInduction
<1> QED
  BY <1>3 DEF P

LEMMA WeightsAre ==
  ASSUME NEW s \in Seq(Token)
  PROVE  AreWeights(s, Len(s), Weights(s))
<1>1. \E f : AreWeights(s, Len(s), f)
  <2>1. Len(s) \in Nat
    OBVIOUS
  <2> QED
    BY <2>1, WeightsExist
<1>2. Weights(s) = CHOOSE f : AreWeights(s, Len(s), f)
  BY DEF Weights, AreWeights
<1> QED
  BY <1>1, <1>2

(* One more token leaves the weights of those before it as they are.       *)
LEMMA WeightsAppend ==
  ASSUME NEW s \in Seq(Token), NEW t \in Token
  PROVE  LET a == Append(s, t)
         IN  /\ \A i \in 0 .. Len(s) : Weights(a)[i] = Weights(s)[i]
             /\ Weights(a)[Len(a)] = IF t.kind # "event" THEN 0
                                     ELSE Weights(s)[Len(s)] + Weight(t.size)
<1> DEFINE a == Append(s, t)
           v == Weights(a)
           w == Weights(s)
           P == {i \in Nat : i <= Len(s) => v[i] = w[i]}
<1>1. Len(a) = Len(s) + 1 /\ a[Len(s) + 1] = t /\ (\A i \in 1 .. Len(s) : a[i] = s[i]) /\ Len(s) \in Nat
  OBVIOUS
<1>2. AreWeights(a, Len(a), v) /\ AreWeights(s, Len(s), w)
  <2>1. a \in Seq(Token)
    OBVIOUS
  <2> HIDE DEF a
  <2> QED
    BY <2>1, WeightsAre
<1> HIDE DEF a, v, w
<1>3. /\ \A i \in 0 .. Len(a) : v[i] = IF i = 0 \/ a[i].kind # "event" THEN 0
                                       ELSE v[i - 1] + Weight(a[i].size)
      /\ \A i \in 0 .. Len(s) : w[i] = IF i = 0 \/ s[i].kind # "event" THEN 0
                                       ELSE w[i - 1] + Weight(s[i].size)
  BY <1>2 DEF AreWeights
<1>4. 0 \in P
  BY <1>1, <1>3
<1>5. ASSUME NEW n \in Nat, n \in P
      PROVE  n + 1 \in P
  <2>1. SUFFICES ASSUME n + 1 <= Len(s)
                 PROVE  v[n + 1] = w[n + 1]
    OBVIOUS
  <2>2. v[n] = w[n] /\ a[n + 1] = s[n + 1]
    BY <1>1, <1>5, <2>1
  <2>3. n + 1 \in 0 .. Len(a) /\ n + 1 \in 0 .. Len(s) /\ n + 1 # 0 /\ (n + 1) - 1 = n
    BY <1>1, <2>1
  <2> QED
    BY <1>3, <2>2, <2>3
<1> HIDE DEF P
<1>6. Nat \subseteq P
  BY <1>4, <1>5, SetInduction
<1>7. \A i \in 0 .. Len(s) : v[i] = w[i]
  BY <1>1, <1>6 DEF P
<1>8. v[Len(a)] = IF t.kind # "event" THEN 0 ELSE w[Len(s)] + Weight(t.size)
  <2>1. Len(s) + 1 \in 0 .. Len(a) /\ Len(s) + 1 # 0 /\ (Len(s) + 1) - 1 = Len(s)
    BY <1>1
  <2>2. v[Len(s)] = w[Len(s)]
    BY <1>1, <1>7
  <2> QED
    BY <1>1, <1>3, <2>1, <2>2
<1> QED
  BY <1>7, <1>8 DEF a, v, w

Limit == IF epd > 0 THEN epd ELSE -epd

(* Every event of s found its document below the limit.                    *)
Below(s) ==
  \A i \in 1 .. Len(s) : s[i].kind = "event" => Weights(s)[i - 1] < Limit

(* LimitKept without what CountOK says already.                            *)
BelowOK == ~Bare /\ ~Single => Below(Log)

LEMMA LimitKeptParts ==
  ASSUME ConvAssumption, ConvInv
  PROVE  CountOK => (LimitKept <=> BelowOK)
<1> SUFFICES ASSUME CountOK, ~Bare, ~Single
             PROVE  LimitKept <=> BelowOK
  BY DEF LimitKept, BelowOK
<1>1. epd \in Int /\ epd # 0 /\ events_in_doc \in Nat
  BY DEF ConvInv, TypeOK, ConvAssumption, Bare
<1>2. pc = "ready" /\ rc = "OK" => Weights(Log)[Len(Log)] < Limit
  <2> SUFFICES ASSUME pc = "ready", rc = "OK"
               PROVE  Weights(Log)[Len(Log)] < Limit
    OBVIOUS
  <2>1. Weights(Log)[Len(Log)] = events_in_doc /\ ~LimitHit
    BY DEF CountOK
  <2>2. events_in_doc < Limit
    BY <1>1, <2>1 DEF LimitHit, Limit
  <2> QED
    BY <2>1, <2>2
<1> QED
  BY <1>2 DEF LimitKept, BelowOK, Below, Limit

LEMMA BelowAppend ==
  ASSUME NEW s \in Seq(Token), NEW t \in Token, Below(s),
         t.kind = "event" => Weights(s)[Len(s)] < Limit
  PROVE  Below(Append(s, t))
<1> DEFINE a == Append(s, t)
<1>1. Len(a) = Len(s) + 1 /\ a[Len(s) + 1] = t /\ (\A i \in 1 .. Len(s) : a[i] = s[i]) /\ Len(s) \in Nat
  OBVIOUS
<1>2. \A i \in 0 .. Len(s) : Weights(a)[i] = Weights(s)[i]
  BY WeightsAppend
<1> HIDE DEF a
<1>3. ASSUME NEW i \in 1 .. Len(a), a[i].kind = "event"
      PROVE  Weights(a)[i - 1] < Limit
  <2>1. i - 1 \in 0 .. Len(s) /\ Weights(a)[i - 1] = Weights(s)[i - 1]
    BY <1>1, <1>2
  <2>2. CASE i \in 1 .. Len(s)
    BY <1>1, <1>3, <2>1, <2>2 DEF Below
  <2>3. CASE i = Len(s) + 1
    <3>1. i - 1 = Len(s)
      BY <1>1, <2>3
    <3> QED
      BY <1>1, <1>3, <2>1, <2>3, <3>1
  <2> QED
    BY <1>1, <2>2, <2>3
<1> QED
  BY <1>3 DEF Below, a

(* No step changes the format.                                             *)
LEMMA FormatKept == [Next]_vars => UNCHANGED <<epd, cont, Bare, Single, Limit>>
<1> SUFFICES ASSUME [Next]_vars
             PROVE  UNCHANGED <<epd, cont>>
  BY DEF Bare, Single, Limit
<1> QED
  BY DEF Next, Internal, vars, format, Begin, Input, Flush, Enter, End, Destroy, Refuse,
         CbReady, CbPrologue, CbEvent, CbEpilogue, Leave

LEMMA BelowStep ==
  ASSUME ConvAssumption, ConvInv, CountOK, BelowOK, [Next]_vars
  PROVE  BelowOK'
<1>1. UNCHANGED <<epd, Bare, Single, Limit>>
  BY FormatKept
<1>2. SUFFICES ASSUME ~Bare, ~Single
               PROVE  Below(Log')
  BY <1>1 DEF BelowOK, Below, Weights, Weight
<1>3. Below(Log) /\ (rc = "OK" => Log \in Seq(Token))
  BY <1>2, WorkingLog DEF BelowOK
<1>4. CASE NoEvent
  <2>1. CASE Log' = Log
    BY <1>3, <2>1
  <2>2. CASE rc = "OK" /\ \E t \in Token : t.kind # "event" /\ Log' = Append(Log, t)
    <3>1. PICK t \in Token : t.kind # "event" /\ Log' = Append(Log, t)
      BY <2>2
    <3> QED
      BY <1>3, <2>2, <3>1, BelowAppend
  <2> QED
    BY <1>4, <2>1, <2>2 DEF NoEvent
<1>5. CASE CbEvent
  <2>1. CASE EventSkipped \/ EventFails \/ EventDropped
    <3>1. Log' = Log
      BY <2>1, SameLog, RenderFailsLog DEF EventSkipped, EventFails, EventDropped
    <3> QED
      BY <1>3, <3>1
  <2>2. ASSUME NEW size \in Sizes, EventAdded(size)
        PROVE  Below(Log')
    <3> DEFINE t == Event(reported, size, events_in_doc = 0)
    <3>1. t \in Token /\ Log' = Append(Log, t) /\ rc = "OK"
      BY <2>2, EventAddedLog DEF EventAdded
    <3>2. epd \in Int /\ epd # 0 /\ events_in_doc \in Nat
      BY <1>2 DEF ConvInv, TypeOK, ConvAssumption, Bare
    <3>3. Weights(Log)[Len(Log)] = events_in_doc /\ ~LimitHit
      BY <1>2, <1>5, <3>1 DEF CountOK, CbEvent
    <3>4. events_in_doc < Limit
      BY <3>2, <3>3 DEF LimitHit, Limit
    <3> HIDE DEF t
    <3> QED
      BY <1>3, <3>1, <3>3, <3>4, BelowAppend
  <2> QED
    BY <1>5, <2>1, <2>2 DEF CbEvent
<1> QED
  BY <1>4, <1>5, OtherSteps

(* The document that the text ends in weighs what events_in_doc says.      *)
LEMMA CountStep ==
  ASSUME ConvAssumption, ConvInv, CountOK, [Next]_vars
  PROVE  CountOK'
<1> USE DEF auparse, control
<1>1. UNCHANGED <<epd, Bare, Single>>
  BY FormatKept
<1> DEFINE Hit(n) == (epd > 0 /\ n >= epd) \/ (epd < 0 /\ n >= -epd)
<1>2. SUFFICES ASSUME rc' = "OK", ~Bare
               PROVE  /\ Weights(Log')[Len(Log')] = events_in_doc'
                      /\ ~Single /\ pc' # "epilogue" => ~Hit(events_in_doc')
  BY <1>1 DEF CountOK, Weights, Weight, LimitHit
<1>3. rc = "OK" /\ in_doc \in BOOLEAN
  <2>1. rc = "OK"
    BY <1>2, OtherSteps DEF NoEvent, CbEvent, EventSkipped, EventFails, EventDropped, EventAdded
  <2> QED
    BY <2>1 DEF ConvInv, TypeOK
<1>4. /\ Log \in Seq(Token) /\ events_in_doc \in Nat /\ epd \in Int /\ epd # 0
      /\ Weights(Log)[Len(Log)] = events_in_doc
      /\ ~Single /\ pc # "epilogue" => ~Hit(events_in_doc)
  <2>1. Log \in Seq(Token) /\ events_in_doc \in Nat /\ epd \in Int /\ epd # 0
    BY <1>2, <1>3, WorkingLog DEF ConvInv, TypeOK, ConvAssumption, Bare
  <2> QED
    BY <1>2, <1>3, <2>1 DEF CountOK, LimitHit
<1>5. ~Hit(0)
  BY <1>4
<1> HIDE DEF Hit
<1> DEFINE Goal == /\ Weights(Log')[Len(Log')] = events_in_doc'
                   /\ ~Single /\ pc' # "epilogue" => ~Hit(events_in_doc')
<1>6. CASE UNCHANGED <<text, events_in_doc>> /\ (pc # "epilogue" \/ Single \/ ~Hit(events_in_doc))
  <2>1. Log' = Log
    BY <1>6, SameLog
  <2> QED
    BY <1>4, <1>6, <2>1
<1>7. ASSUME StartDoc, ~in_doc, UNCHANGED events_in_doc
      PROVE  Goal
  <2>1. Log' = Append(Log, Prologue) /\ Prologue \in Token /\ Prologue.kind # "event"
    BY <1>2, <1>3, <1>7, StartDocLog DEF Prologue, Token
  <2>2. events_in_doc = 0
    BY <1>2, <1>3, <1>7 DEF ConvInv, DocStateOK
  <2>3. Weights(Log')[Len(Log')] = 0
    BY <1>4, <2>1, WeightsAppend
  <2> QED
    BY <1>5, <1>7, <2>2, <2>3
<1>8. ASSUME FinishDoc
      PROVE  Goal
  <2>1. Log' = Append(Log, Epilogue) /\ Epilogue \in Token /\ Epilogue.kind # "event"
    BY <1>2, <1>3, <1>8, FinishDocLog DEF Epilogue, Token
  <2>2. events_in_doc' = 0
    BY <1>2, <1>8 DEF FinishDoc, WriteFails, RenderFails
  <2>3. Weights(Log')[Len(Log')] = 0
    BY <1>4, <2>1, WeightsAppend
  <2> QED
    BY <1>5, <2>2, <2>3
<1>9. ASSUME NEW size \in Sizes, EventAdded(size), pc' = "epilogue"
      PROVE  Goal
  <2> DEFINE t == Event(reported, size, events_in_doc = 0)
  <2>1. t \in Token /\ Log' = Append(Log, t) /\ t.kind = "event" /\ t.size = size
    BY <1>9, EventAddedLog DEF Event
  <2>2. events_in_doc' = events_in_doc + Weight(size)
    BY <1>9 DEF EventAdded
  <2> HIDE DEF t
  <2>3. Weights(Log')[Len(Log')] = Weights(Log)[Len(Log)] + Weight(size)
    BY <1>4, <2>1, WeightsAppend
  <2> QED
    BY <1>4, <1>9, <2>2, <2>3
<1>10. ASSUME NEW op, NEW code, Refuse(op, code), pc # "epilogue"
       PROVE  Goal
  BY <1>6, <1>10 DEF Refuse
<1>11. call = "none" => pc # "epilogue"
  BY DEF ConvInv, CallbackOK
<1>12. CASE UNCHANGED vars
  <2>1. Log' = Log /\ UNCHANGED <<events_in_doc, pc>>
    BY <1>12, SameLog DEF vars
  <2> QED
    BY <1>4, <2>1
<1>13. CASE CbReady
  BY <1>6, <1>13 DEF CbReady
<1>14. CASE CbPrologue
  <2>1. pc # "epilogue" /\ UNCHANGED events_in_doc
    BY <1>14 DEF CbPrologue
  <2>2. (StartDoc /\ ~in_doc) \/ UNCHANGED text
    BY <1>14 DEF CbPrologue
  <2> QED
    BY <1>6, <1>7, <2>1, <2>2
<1>15. CASE CbEvent
  <2>1. CASE EventSkipped \/ EventFails
    BY <1>2, <1>3, <2>1 DEF EventSkipped, EventFails, RenderFails
  <2>2. CASE EventDropped
    BY <1>6, <1>15, <2>2 DEF EventDropped, CbEvent
  <2> QED
    BY <1>9, <1>15, <2>1, <2>2 DEF CbEvent
<1>16. CASE CbEpilogue
  <2>1. CASE ~Single /\ LimitHit
    BY <1>2, <1>3, <1>8, <1>16, <2>1 DEF CbEpilogue
  <2>2. CASE Single \/ ~LimitHit
    <3>1. UNCHANGED <<text, events_in_doc>>
      BY <1>16, <2>2 DEF CbEpilogue
    <3>2. Single \/ ~Hit(events_in_doc)
      BY <2>2 DEF LimitHit, Hit
    <3> QED
      BY <1>6, <3>1, <3>2
  <2> QED
    BY <2>1, <2>2
<1>17. CASE Begin
  <2>1. CASE \E code : Refuse("begin", code)
    BY <1>10, <1>11, <1>17, <2>1 DEF Begin
  <2>2. CASE StartDoc /\ ~in_doc /\ UNCHANGED events_in_doc
    BY <1>7, <2>2
  <2> QED
    BY <1>17, <2>1, <2>2 DEF Begin
<1>18. ASSUME NEW op, NEW n, Enter(op, n)
       PROVE  Goal
  <2>1. pc # "epilogue"
    BY <1>11, <1>18 DEF Enter
  <2>2. CASE \E code : Refuse(op, code)
    BY <1>10, <2>1, <2>2
  <2>3. CASE UNCHANGED <<text, events_in_doc>>
    BY <1>6, <2>1, <2>3
  <2> QED
    BY <1>18, <2>2, <2>3 DEF Enter
<1>19. CASE Leave
  BY <1>6, <1>19 DEF Leave
<1>20. CASE End
  <2>1. CASE \E code : Refuse("end", code)
    BY <1>10, <1>11, <1>20, <2>1 DEF End
  <2>2. CASE FinishDoc
    BY <1>8, <2>2
  <2> QED
    BY <1>20, <2>1, <2>2 DEF End
<1>21. CASE Destroy
  BY <1>6, <1>11, <1>21 DEF Destroy
<1> QED
  BY <1>12, <1>13, <1>14, <1>15, <1>16, <1>17, <1>18, <1>19, <1>20, <1>21
     DEF Next, Internal, Input, Flush

(* No event is put into a document that has reached its limit, by number   *)
(* or by size, and no such document stays open: "documents are finished    *)
(* when the size of accumulated event text crosses the negated number".    *)
THEOREM DocumentsLimited == Spec => []LimitKept
<1>1. Init => CountOK /\ BelowOK
  <2> SUFFICES ASSUME Init
               PROVE  CountOK /\ BelowOK
    OBVIOUS
  <2>1. Log = <<>> /\ Len(Log) = 0 /\ Log \in Seq(Token) /\ events_in_doc = 0 /\ epd \in Int
    BY ConvAssumption DEF Init, Log, Sound, ConvAssumption
  <2>2. Weights(Log)[0] = 0
    <3>1. AreWeights(Log, 0, Weights(Log))
      BY <2>1, WeightsAre
    <3> QED
      BY <3>1 DEF AreWeights
  <2> QED
    BY <2>1, <2>2 DEF CountOK, LimitHit, BelowOK, Below, Bare
<1>2. ConvInv /\ CountOK /\ BelowOK /\ [Next]_vars => (CountOK /\ BelowOK)'
  BY ConvAssumption, CountStep, BelowStep
<1>3. ConvInv /\ CountOK /\ BelowOK => LimitKept
  BY ConvAssumption, LimitKeptParts
<1> QED
  BY <1>1, <1>2, <1>3, ConvInvariant, PTL DEF Spec

-----------------------------------------------------------------------------
(***************************************************************************)
(* What an End that succeeds leaves behind.                                *)
(***************************************************************************)

LEMMA HeldStep ==
  ASSUME ConvAssumption, ConvInv, HeldOK, [Next]_vars
  PROVE  HeldOK'
<1> USE DEF text
<1>1. SUFFICES ASSUME rc' = "OK", ~in_doc'
               PROVE  buf' = <<>>
  BY DEF HeldOK
<1>2. rc = "OK"
  BY <1>1, OtherSteps DEF NoEvent, CbEvent, EventSkipped, EventFails, EventDropped, EventAdded
<1>3. CASE UNCHANGED <<in_doc, text>>
  BY <1>1, <1>2, <1>3 DEF HeldOK
<1>4. ~StartDoc
  BY <1>1, <1>2 DEF StartDoc, RenderFails
<1>5. CASE FinishDoc
  BY <1>1, <1>5 DEF FinishDoc, Written, WriteFails, RenderFails
<1>6. CASE CbEvent
  <2>1. CASE EventSkipped \/ EventFails \/ EventDropped
    BY <1>1, <1>2, <1>3, <1>6, <2>1 DEF CbEvent, EventSkipped, EventFails, EventDropped, RenderFails
  <2>2. ASSUME NEW size \in Sizes, EventAdded(size)
        PROVE  buf' = <<>>
    <3>1. Bare
      BY <1>1, <1>2, <1>6 DEF CbEvent, ConvInv, CallbackOK
    <3> QED
      BY <1>1, <2>2, <3>1 DEF EventAdded, Write, Written, WriteFails
  <2> QED
    BY <1>6, <2>1, <2>2 DEF CbEvent
<1>7. ASSUME NEW op, NEW code, Refuse(op, code)
      PROVE  buf' = <<>>
  BY <1>3, <1>7 DEF Refuse
<1>8. CASE CbEpilogue
  BY <1>3, <1>5, <1>8 DEF CbEpilogue
<1>9. CASE CbPrologue
  BY <1>3, <1>4, <1>9 DEF CbPrologue
<1>10. CASE Begin
  BY <1>4, <1>7, <1>10 DEF Begin
<1>11. ASSUME NEW op, NEW n, Enter(op, n)
       PROVE  buf' = <<>>
  BY <1>3, <1>7, <1>11 DEF Enter
<1>12. CASE End
  BY <1>5, <1>7, <1>12 DEF End
<1>13. CASE CbReady \/ Leave \/ Destroy \/ UNCHANGED vars
  BY <1>3, <1>13 DEF CbReady, Leave, Destroy, vars
<1> QED
  BY <1>6, <1>8, <1>9, <1>10, <1>11, <1>12, <1>13 DEF Next, Internal, Input, Flush

(* Outside of documents, nothing that was composed waits in the buffer.    *)
THEOREM HeldInvariant == Spec => []HeldOK
<1>1. Init => HeldOK
  BY DEF Init, HeldOK
<1>2. ConvInv /\ HeldOK /\ [Next]_vars => HeldOK'
  BY ConvAssumption, HeldStep
<1> QED
  BY <1>1, <1>2, ConvInvariant, PTL DEF Spec

LEMMA EndLeavesNothing ==
  ASSUME ConvInv, HeldOK, End, rc = "OK", ret'.rc = "OK"
  PROVE  rc' = "OK" /\ buf' = <<>> /\ (Bare \/ ~Open(out'))
<1>1. out \in Seq(Token)
  BY DEF ConvInv, TypeOK
<1>2. CASE ~in_doc /\ UNCHANGED <<rc, text>>
  <2>1. buf' = <<>> /\ out' = out /\ out \o buf = out
    BY <1>1, <1>2 DEF HeldOK, text
  <2> QED
    BY <1>2, <2>1 DEF ConvInv, DocStateOK
<1>3. CASE ~Bare /\ in_doc /\ FinishDoc /\ rc' = "OK"
  <2>1. Written(Append(buf, Epilogue))
    BY <1>3 DEF FinishDoc, WriteFails, RenderFails
  <2>2. buf' = <<>> /\ out' = out \o Append(buf, Epilogue)
    BY <2>1 DEF Written
  <2>3. /\ (out \o Append(buf, Epilogue))[Len(out \o Append(buf, Epilogue))] = Epilogue
        /\ Len(out \o Append(buf, Epilogue)) = Len(out \o buf) + 1
    BY <1>3, EpilogueFits, NextTokenOK DEF ConvInv
  <2>4. Len(out \o buf) \in Nat
    BY <1>1 DEF ConvInv, TypeOK
  <2> QED
    BY <1>3, <2>2, <2>3, <2>4 DEF Open, Inside, Epilogue
<1>4. Bare => ~in_doc
  BY DEF ConvInv, DocStateOK
<1>5. CASE ~in_doc
  BY <1>2, <1>5 DEF End, Refuse
<1>6. CASE in_doc
  BY <1>3, <1>4, <1>6 DEF End, Returned
<1> QED
  BY <1>5, <1>6

(* An End that returns OK has handed everything composed to the output,    *)
(* and the text the output has ends outside of any document.               *)
THEOREM EndHandsOver == Spec => EndDelivers
<1> DEFINE Delivers == End /\ rc = "OK" /\ ret'.rc = "OK" =>
                         buf' = <<>> /\ (Bare \/ ~Open(out'))
<1>1. ConvInv /\ HeldOK /\ [Next]_vars => [Delivers]_vars
  BY EndLeavesNothing
<1> QED
  BY <1>1, ConvInvariant, HeldInvariant, PTL DEF Spec, EndDelivers

-----------------------------------------------------------------------------
(***************************************************************************)
(* A command line has one meaning, or none.                                *)
(***************************************************************************)

AtMostOne(S) == \A x, y \in S : x = y

(* The sizes before they are shifted, and by what.                         *)
SizesOf(arg)   == Cmd!Named([unlimited |-> Cmd!SizeMax], arg)
                  \union IF arg.word = "" THEN {Cmd!Converted(arg.number)} ELSE {}
UnitOf(arg)    == IF arg.word = "" THEN arg.rest ELSE arg.word
FactorsOf(arg) == {g \in Cmd!Factors : g[1] = UnitOf(arg)}

LEMMA ScaledIs ==
  ASSUME NEW arg
  PROVE  Cmd!Scaled(arg) =
           {<<s, (s * f[2]) % Cmd!SizeMod>> : s \in SizesOf(arg), f \in FactorsOf(arg)}
BY DEF Cmd!Scaled, SizesOf, UnitOf, FactorsOf

(* What an option's argument may stand for is one value, or none.          *)
LEMMA ValueOnce ==
  ASSUME NEW arg
  PROVE  /\ \A table : AtMostOne(Cmd!Named(table, arg))
         /\ AtMostOne(Cmd!Signed(arg)) /\ AtMostOne(Cmd!Unsigned(arg))
         /\ AtMostOne(Cmd!MaxEventSize(arg))
<1>1. \A table : AtMostOne(Cmd!Named(table, arg))
  BY DEF AtMostOne, Cmd!Named
<1>2. AtMostOne(Cmd!Signed(arg)) /\ AtMostOne(Cmd!Unsigned(arg))
  BY DEF AtMostOne, Cmd!Signed, Cmd!Unsigned, Cmd!Whole
<1>3. AtMostOne(Cmd!Scaled(arg))
  <2>1. AtMostOne(SizesOf(arg))
    BY DEF AtMostOne, SizesOf, Cmd!Named
  <2>2. AtMostOne(FactorsOf(arg))
    <3>1. \A g \in Cmd!Factors : \/ g[1] = "" /\ g = <<"", 1>>
                                 \/ g[1] = "k" /\ g = <<"k", Kilo>>
                                 \/ g[1] = "m" /\ g = <<"m", Mega>>
      <4>1. ASSUME NEW g \in Cmd!Factors
            PROVE  g = <<"", 1>> \/ g = <<"k", Kilo>> \/ g = <<"m", Mega>>
        BY DEF Cmd!Factors
      <4>2. /\ <<"", 1>>[1] = ""
            /\ <<"k", Kilo>>[1] = "k"
            /\ <<"m", Mega>>[1] = "m"
        OBVIOUS
      <4> QED
        BY <4>1, <4>2, Zenon
    <3>2. \A g, h \in Cmd!Factors : g[1] = h[1] => g = h
      BY <3>1, Zenon
    <3> QED
      BY <3>2 DEF AtMostOne, FactorsOf
  <2> QED
    BY <2>1, <2>2, ScaledIs DEF AtMostOne
<1>4. AtMostOne(Cmd!MaxEventSize(arg))
  BY <1>3 DEF AtMostOne, Cmd!MaxEventSize
<1> QED
  BY <1>1, <1>2, <1>4

(* The options; the field of the configuration each of them sets, and what *)
(* it is set to.                                                           *)
Names == {"help", "version", "with-text", "with-norm", "file", "lang", "output", "events-per-doc",
          "max-event-size", "fold", "indent", "syslog-facility", "syslog-priority"}

Field(name) ==
  CASE name = "with-text"       -> "with_text"
    [] name = "with-norm"       -> "with_norm"
    [] name = "file"            -> "path"
    [] name = "output"          -> "output_type"
    [] name = "events-per-doc"  -> "events_per_doc"
    [] name = "max-event-size"  -> "max_event_size"
    [] name = "fold"            -> "fold_level"
    [] name = "indent"          -> "nest_indent"
    [] name = "syslog-facility" -> "facility"
    [] name = "syslog-priority" -> "priority"
    [] OTHER                    -> name

Means(name, a) ==
  CASE name \in {"help", "version", "with-text", "with-norm"} -> {TRUE}
    [] name = "file"            -> {a.word}
    [] name = "lang"            -> Cmd!Named([json |-> "JSON", xml |-> "XML"], a)
    [] name = "output"          -> Cmd!Named([file |-> "FD", syslog |-> "SYSLOG"], a)
    [] name = "events-per-doc"  ->
         Cmd!Named([none |-> 0, all |-> SSizeMax], a) \union Cmd!Signed(a)
    [] name = "max-event-size"  -> Cmd!MaxEventSize(a)
    [] name = "fold"            ->
         Cmd!Named([none |-> Cmd!SizeMax, all |-> 0], a) \union Cmd!Unsigned(a)
    [] name = "indent"          -> Cmd!Unsigned(a)
    [] name = "syslog-facility" -> Cmd!Named(Cmd!Facilities, a)
    [] name = "syslog-priority" -> Cmd!Named(Cmd!Priorities, a)
    [] OTHER                    -> {}

(* An option makes one of these settings of a configuration, or none.      *)
LEMMA WithMeans ==
  ASSUME NEW c, NEW o
  PROVE  /\ o.name \in Names =>
              Cmd!With(c, o) = {[c EXCEPT ![Field(o.name)] = v] : v \in Means(o.name, o.arg)}
         /\ o.name \notin Names => Cmd!With(c, o) = {}
<1> DEFINE a == o.arg
           S == {[c EXCEPT ![Field(o.name)] = v] : v \in Means(o.name, o.arg)}
<1>1. CASE o.name \in {"help", "version", "with-text", "with-norm"}
  <2>1. Means(o.name, a) = {TRUE}
    BY <1>1 DEF Means
  <2>2. CASE o.name = "help"
    BY <2>1, <2>2 DEF Cmd!With, Field, Names
  <2>3. CASE o.name = "version"
    BY <2>1, <2>3 DEF Cmd!With, Field, Names
  <2>4. CASE o.name = "with-text"
    BY <2>1, <2>4 DEF Cmd!With, Field, Names
  <2>5. CASE o.name = "with-norm"
    BY <2>1, <2>5 DEF Cmd!With, Field, Names
  <2> QED
    BY <1>1, <2>2, <2>3, <2>4, <2>5
<1>2. CASE o.name = "file"
  BY <1>2 DEF Cmd!With, Field, Means, Names
<1>3. CASE o.name = "lang"
  <2> DEFINE V == Cmd!Named([json |-> "JSON", xml |-> "XML"], a)
  <2>1. Cmd!With(c, o) = {[c EXCEPT !.lang = v] : v \in V}
    BY <1>3 DEF Cmd!With
  <2>2. Means(o.name, a) = V /\ Field(o.name) = "lang" /\ o.name \in Names
    BY <1>3 DEF Means, Field, Names
  <2> HIDE DEF V
  <2> QED
    BY <2>1, <2>2
<1>4. CASE o.name = "output"
  <2> DEFINE V == Cmd!Named([file |-> "FD", syslog |-> "SYSLOG"], a)
  <2>1. Cmd!With(c, o) = {[c EXCEPT !.output_type = v] : v \in V}
    BY <1>4 DEF Cmd!With
  <2>2. Means(o.name, a) = V /\ Field(o.name) = "output_type" /\ o.name \in Names
    BY <1>4 DEF Means, Field, Names
  <2> HIDE DEF V
  <2> QED
    BY <2>1, <2>2
<1>5. CASE o.name = "events-per-doc"
  <2> DEFINE V == Cmd!Named([none |-> 0, all |-> SSizeMax], a) \union Cmd!Signed(a)
  <2>1. Cmd!With(c, o) = {[c EXCEPT !.events_per_doc = v] : v \in V}
    BY <1>5 DEF Cmd!With
  <2>2. Means(o.name, a) = V /\ Field(o.name) = "events_per_doc" /\ o.name \in Names
    BY <1>5 DEF Means, Field, Names
  <2> HIDE DEF V
  <2> QED
    BY <2>1, <2>2
<1>6. CASE o.name = "max-event-size"
  <2> DEFINE V == Cmd!MaxEventSize(a)
  <2>1. Cmd!With(c, o) = {[c EXCEPT !.max_event_size = v] : v \in V}
    BY <1>6 DEF Cmd!With
  <2>2. Means(o.name, a) = V /\ Field(o.name) = "max_event_size" /\ o.name \in Names
    BY <1>6 DEF Means, Field, Names
  <2> HIDE DEF V
  <2> QED
    BY <2>1, <2>2
<1>7. CASE o.name = "fold"
  <2> DEFINE V == Cmd!Named([none |-> Cmd!SizeMax, all |-> 0], a) \union Cmd!Unsigned(a)
  <2>1. Cmd!With(c, o) = {[c EXCEPT !.fold_level = v] : v \in V}
    BY <1>7 DEF Cmd!With
  <2>2. Means(o.name, a) = V /\ Field(o.name) = "fold_level" /\ o.name \in Names
    BY <1>7 DEF Means, Field, Names
  <2> HIDE DEF V
  <2> QED
    BY <2>1, <2>2
<1>8. CASE o.name = "indent"
  BY <1>8 DEF Cmd!With, Field, Means, Names
<1>9. CASE o.name = "syslog-facility"
  BY <1>9 DEF Cmd!With, Field, Means, Names
<1>10. CASE o.name = "syslog-priority"
  BY <1>10 DEF Cmd!With, Field, Means, Names
<1>11. CASE o.name \notin Names
  BY <1>11 DEF Cmd!With, Names
<1> QED
  BY <1>1, <1>2, <1>3, <1>4, <1>5, <1>6, <1>7, <1>8, <1>9, <1>10, <1>11 DEF Names

(* So an option makes one configuration of another, or none.               *)
LEMMA WithOnce ==
  ASSUME NEW c, NEW o
  PROVE  AtMostOne(Cmd!With(c, o))
<1>1. \A a : AtMostOne(Means(o.name, a))
  <2> SUFFICES ASSUME NEW a
               PROVE  AtMostOne(Means(o.name, a))
    OBVIOUS
  <2>1. \A words : AtMostOne(Cmd!Named(words, a))
    BY ValueOnce
  <2>2. AtMostOne(Cmd!Named([none |-> 0, all |-> SSizeMax], a) \union Cmd!Signed(a))
    BY ValueOnce DEF AtMostOne, Cmd!Named, Cmd!Signed, Cmd!Whole
  <2>3. AtMostOne(Cmd!Named([none |-> Cmd!SizeMax, all |-> 0], a) \union Cmd!Unsigned(a))
    BY ValueOnce DEF AtMostOne, Cmd!Named, Cmd!Unsigned, Cmd!Whole
  <2>4. AtMostOne({TRUE}) /\ AtMostOne({a.word}) /\ AtMostOne({})
    BY DEF AtMostOne
  <2>5. AtMostOne(Cmd!MaxEventSize(a)) /\ AtMostOne(Cmd!Unsigned(a))
    BY ValueOnce
  <2> QED
    BY <2>1, <2>2, <2>3, <2>4, <2>5 DEF Means
<1> QED
  BY <1>1, WithMeans DEF AtMostOne

(* f gives the configurations after the first options, up to n of them.    *)
AreUpto(opts, n, f) ==
  f = [i \in 0 .. n |->
         IF i = 0 THEN {Cmd!Default} ELSE UNION {Cmd!With(c, opts[i]) : c \in f[i - 1]}]

LEMMA UptoExists ==
  ASSUME NEW opts
  PROVE  \A n \in Nat : \E f : AreUpto(opts, n, f)
<1> DEFINE P == {n \in Nat : \E f : AreUpto(opts, n, f)}
<1>1. 0 \in P
  <2> DEFINE f == [i \in 0 .. 0 |-> {Cmd!Default}]
  <2>1. AreUpto(opts, 0, f)
    BY DEF AreUpto
  <2> QED
    BY <2>1
<1>2. ASSUME NEW n \in Nat, n \in P
      PROVE  n + 1 \in P
  <2>1. PICK f : AreUpto(opts, n, f)
    BY <1>2
  <2> DEFINE u(i, g) == IF i = 0 THEN {Cmd!Default}
                        ELSE UNION {Cmd!With(c, opts[i]) : c \in g[i - 1]}
             h == [i \in 0 .. n + 1 |-> u(i, f)]
  <2>2. f = [i \in 0 .. n |-> u(i, f)]
    BY <2>1 DEF AreUpto
  <2> HIDE DEF u
  <2>3. \A i \in 0 .. n : h[i] = f[i]
    BY <2>2
  <2>4. \A i \in 0 .. n + 1 : i = 0 \/ h[i - 1] = f[i - 1]
    <3> HIDE DEF h
    <3> QED
      BY <2>3
  <2>5. \A i \in 0 .. n + 1 : u(i, h) = u(i, f)
    <3> HIDE DEF h
    <3> QED
      BY <2>4 DEF u
  <2>6. h = [i \in 0 .. n + 1 |-> u(i, h)]
    BY <2>5
  <2>7. AreUpto(opts, n + 1, h)
    BY <2>6 DEF AreUpto, u
  <2> QED
    BY <2>7
<1> HIDE DEF P
<1>3. Nat \subseteq P
  BY <1>1, <1>2, SetInduction
<1> QED
  BY <1>3 DEF P

(* There is at most one after each, by induction on the number of options. *)
LEMMA LoadedOnce ==
  ASSUME AushapeAssumption, NEW line \in CommandLines
  PROVE  AtMostOne(Cmd!Loaded(line))
<1> DEFINE opts == line.opts
           len  == Len(opts)
           upto == CHOOSE f : AreUpto(opts, len, f)
           Q    == {n \in Nat : n <= len => AtMostOne(upto[n])}
<1>1. len \in Nat
  BY DEF AushapeAssumption
<1>2. Cmd!Loaded(line) =
        {[c EXCEPT !.input = IF Len(line.inputs) = 0 THEN @ ELSE line.inputs[1]] :
           c \in IF Len(line.inputs) <= 1 THEN upto[len] ELSE {}}
  BY DEF Cmd!Loaded, AreUpto
<1>3. AreUpto(opts, len, upto)
  <2> HIDE DEF len
  <2> QED
    BY <1>1, UptoExists
<1> HIDE DEF opts, len, upto
<1>4. \A i \in 0 .. len :
        upto[i] = IF i = 0 THEN {Cmd!Default}
                  ELSE UNION {Cmd!With(c, opts[i]) : c \in upto[i - 1]}
  BY <1>3 DEF AreUpto
<1>5. 0 \in Q
  <2>1. upto[0] = {Cmd!Default}
    <3>1. 0 \in 0 .. len
      BY <1>1
    <3> QED
      BY <1>4, <3>1
  <2> QED
    BY <2>1 DEF AtMostOne
<1>6. ASSUME NEW n \in Nat, n \in Q
      PROVE  n + 1 \in Q
  <2> SUFFICES ASSUME n + 1 <= len
               PROVE  AtMostOne(upto[n + 1])
    OBVIOUS
  <2>1. AtMostOne(upto[n])
    BY <1>1, <1>6
  <2>2. n + 1 \in 0 .. len /\ n + 1 # 0 /\ (n + 1) - 1 = n
    BY <1>1
  <2>3. upto[n + 1] = UNION {Cmd!With(c, opts[n + 1]) : c \in upto[n]}
    BY <1>4, <2>2
  <2>4. \A c : AtMostOne(Cmd!With(c, opts[n + 1]))
    BY WithOnce
  <2> QED
    BY <2>1, <2>3, <2>4 DEF AtMostOne
<1> HIDE DEF Q
<1>7. AtMostOne(upto[len])
  <2>1. Nat \subseteq Q
    BY <1>5, <1>6, SetInduction
  <2> QED
    BY <1>1, <2>1 DEF Q
<1> QED
  BY <1>2, <1>7 DEF AtMostOne

-----------------------------------------------------------------------------
(***************************************************************************)
(* A command line that is taken means what the help text says.             *)
(***************************************************************************)

(* No two options set the same field.                                      *)
LEMMA FieldsApart ==
  /\ \A m, n \in Names : Field(m) = Field(n) => m = n
  /\ \A n \in Names : Field(n) \in DOMAIN Cmd!Default /\ Field(n) # "input"
<1>1. /\ Field("help") = "help" /\ Field("version") = "version"
      /\ Field("with-text") = "with_text" /\ Field("with-norm") = "with_norm"
      /\ Field("file") = "path" /\ Field("lang") = "lang" /\ Field("output") = "output_type"
      /\ Field("events-per-doc") = "events_per_doc"
      /\ Field("max-event-size") = "max_event_size"
      /\ Field("fold") = "fold_level" /\ Field("indent") = "nest_indent"
      /\ Field("syslog-facility") = "facility" /\ Field("syslog-priority") = "priority"
  BY DEF Field
<1>2. \A m, n \in Names : Field(m) = Field(n) => m = n
  BY <1>1 DEF Names
<1>3. \A n \in Names : Field(n) \in DOMAIN Cmd!Default /\ Field(n) # "input"
  BY <1>1 DEF Names, Cmd!Default
<1> QED
  BY <1>2, <1>3

(* What the first k options make of the defaults, each option's last word. *)
Settled(opts, c, k) ==
  /\ DOMAIN c = DOMAIN Cmd!Default /\ c.input = "-"
  /\ \A name \in Names :
       \/ /\ \A i \in 1 .. k : opts[i].name # name
          /\ c[Field(name)] = Cmd!Default[Field(name)]
       \/ \E l \in 1 .. k : /\ opts[l].name = name
                            /\ \A i \in l + 1 .. k : opts[i].name # name
                            /\ c[Field(name)] \in Means(name, opts[l].arg)

LEMMA OneMoreOption ==
  ASSUME NEW opts, NEW k \in Nat, NEW c, Settled(opts, c, k), NEW d \in Cmd!With(c, opts[k + 1])
  PROVE  Settled(opts, d, k + 1)
<1> DEFINE o == opts[k + 1]
<1>1. o.name \in Names
  BY WithMeans
<1>2. PICK v \in Means(o.name, o.arg) : d = [c EXCEPT ![Field(o.name)] = v]
  BY <1>1, WithMeans
<1>3. DOMAIN d = DOMAIN Cmd!Default /\ d.input = "-"
  BY <1>1, <1>2, FieldsApart DEF Settled
<1>4. d[Field(o.name)] = v
  BY <1>1, <1>2, FieldsApart DEF Settled
<1>5. \A name \in Names : name # o.name => d[Field(name)] = c[Field(name)]
  BY <1>1, <1>2, FieldsApart DEF Settled
<1>6. 1 .. k + 1 = 1 .. k \union {k + 1} /\ k + 1 \in 1 .. k + 1
  OBVIOUS
<1>7. \A l \in 1 .. k : l + 1 .. k + 1 = l + 1 .. k \union {k + 1}
  OBVIOUS
<1> HIDE DEF o
<1>8. ASSUME NEW name \in Names
      PROVE  \/ /\ \A i \in 1 .. k + 1 : opts[i].name # name
                /\ d[Field(name)] = Cmd!Default[Field(name)]
             \/ \E l \in 1 .. k + 1 : /\ opts[l].name = name
                                      /\ \A i \in l + 1 .. k + 1 : opts[i].name # name
                                      /\ d[Field(name)] \in Means(name, opts[l].arg)
  <2>1. CASE name = o.name
    <3>1. (k + 1) + 1 .. k + 1 = {}
      OBVIOUS
    <3> QED
      BY <1>2, <1>4, <1>6, <2>1, <3>1 DEF o
  <2>2. CASE name # o.name
    <3>1. d[Field(name)] = c[Field(name)]
      BY <1>5, <2>2
    <3>2. CASE /\ \A i \in 1 .. k : opts[i].name # name
               /\ c[Field(name)] = Cmd!Default[Field(name)]
      BY <1>6, <2>2, <3>1, <3>2 DEF o
    <3>3. CASE \E l \in 1 .. k : /\ opts[l].name = name
                                 /\ \A i \in l + 1 .. k : opts[i].name # name
                                 /\ c[Field(name)] \in Means(name, opts[l].arg)
      <4>1. PICK l \in 1 .. k : /\ opts[l].name = name
                                /\ \A i \in l + 1 .. k : opts[i].name # name
                                /\ c[Field(name)] \in Means(name, opts[l].arg)
        BY <3>3
      <4>2. \A i \in l + 1 .. k + 1 : opts[i].name # name
        BY <1>7, <2>2, <4>1 DEF o
      <4> QED
        BY <1>6, <3>1, <4>1, <4>2
    <3> QED
      BY <3>2, <3>3 DEF Settled
  <2> QED
    BY <2>1, <2>2
<1> QED
  BY <1>3, <1>8 DEF Settled

(* A configuration that is loaded has, of each option, the last word or    *)
(* else the default.                                                       *)
LEMMA LastCounts ==
  ASSUME AushapeAssumption, NEW line \in CommandLines, NEW d \in Cmd!Loaded(line)
  PROVE  /\ d.input = IF line.inputs = <<>> THEN "-" ELSE line.inputs[1]
         /\ \A name \in Names :
              IF Cmd!Said(line, name) = {}
              THEN d[Field(name)] = Cmd!Default[Field(name)]
              ELSE /\ Cmd!Last(line, name) \in {line.opts[i].arg : i \in 1 .. Len(line.opts)}
                   /\ d[Field(name)] \in Means(name, Cmd!Last(line, name))
<1> DEFINE opts == line.opts
           len  == Len(opts)
           upto == CHOOSE f : AreUpto(opts, len, f)
           Q    == {n \in Nat : n <= len => \A c \in upto[n] : Settled(opts, c, n)}
<1>1. len \in Nat /\ line.inputs \in Seq(STRING)
  BY DEF AushapeAssumption
<1>2. PICK c \in IF Len(line.inputs) <= 1 THEN upto[len] ELSE {} :
        d = [c EXCEPT !.input = IF Len(line.inputs) = 0 THEN @ ELSE line.inputs[1]]
  BY DEF Cmd!Loaded, AreUpto
<1>3. AreUpto(opts, len, upto)
  <2> HIDE DEF len
  <2> QED
    BY <1>1, UptoExists
<1> HIDE DEF opts, len, upto
<1>4. \A i \in 0 .. len :
        upto[i] = IF i = 0 THEN {Cmd!Default}
                  ELSE UNION {Cmd!With(b, opts[i]) : b \in upto[i - 1]}
  BY <1>3 DEF AreUpto
<1>5. 0 \in Q
  <2>1. upto[0] = {Cmd!Default}
    <3>1. 0 \in 0 .. len
      BY <1>1
    <3> QED
      BY <1>4, <3>1
  <2>2. Settled(opts, Cmd!Default, 0)
    <3>1. Cmd!Default.input = "-"
      BY DEF Cmd!Default
    <3> QED
      BY <3>1 DEF Settled
  <2> QED
    BY <2>1, <2>2
<1>6. ASSUME NEW n \in Nat, n \in Q
      PROVE  n + 1 \in Q
  <2> SUFFICES ASSUME n + 1 <= len, NEW b \in upto[n + 1]
               PROVE  Settled(opts, b, n + 1)
    OBVIOUS
  <2>1. \A e \in upto[n] : Settled(opts, e, n)
    BY <1>1, <1>6
  <2>2. n + 1 \in 0 .. len /\ n + 1 # 0 /\ (n + 1) - 1 = n
    BY <1>1
  <2>3. upto[n + 1] = UNION {Cmd!With(e, opts[n + 1]) : e \in upto[n]}
    BY <1>4, <2>2
  <2>4. PICK e \in upto[n] : b \in Cmd!With(e, opts[n + 1])
    BY <2>3
  <2> QED
    BY <2>1, <2>4, OneMoreOption
<1> HIDE DEF Q
<1>7. Settled(opts, c, len)
  <2>1. Nat \subseteq Q
    BY <1>5, <1>6, SetInduction
  <2> QED
    BY <1>1, <1>2, <2>1 DEF Q
<1>8. d.input = IF line.inputs = <<>> THEN "-" ELSE line.inputs[1]
  <2>1. "input" \in DOMAIN c /\ c.input = "-"
    BY <1>7 DEF Settled, Cmd!Default
  <2>2. Len(line.inputs) = 0 <=> line.inputs = <<>>
    BY <1>1
  <2> QED
    BY <1>2, <2>1, <2>2
<1>9. ASSUME NEW name \in Names
      PROVE  IF Cmd!Said(line, name) = {}
             THEN d[Field(name)] = Cmd!Default[Field(name)]
             ELSE /\ Cmd!Last(line, name) \in {line.opts[i].arg : i \in 1 .. Len(line.opts)}
                  /\ d[Field(name)] \in Means(name, Cmd!Last(line, name))
  <2>1. d[Field(name)] = c[Field(name)]
    BY <1>2, <1>7, FieldsApart DEF Settled
  <2>2. Cmd!Said(line, name) = {i \in 1 .. len : opts[i].name = name}
    BY DEF Cmd!Said, opts, len
  <2>3. CASE /\ \A i \in 1 .. len : opts[i].name # name
             /\ c[Field(name)] = Cmd!Default[Field(name)]
    BY <2>1, <2>2, <2>3
  <2>4. CASE \E l \in 1 .. len : /\ opts[l].name = name
                                 /\ \A i \in l + 1 .. len : opts[i].name # name
                                 /\ c[Field(name)] \in Means(name, opts[l].arg)
    <3>1. PICK l \in 1 .. len : /\ opts[l].name = name
                                /\ \A i \in l + 1 .. len : opts[i].name # name
                                /\ c[Field(name)] \in Means(name, opts[l].arg)
      BY <2>4
    <3> DEFINE S == Cmd!Said(line, name)
    <3>2. l \in S /\ S \subseteq 1 .. len
      BY <2>2, <3>1
    <3>3. \A i \in S : i <= l
      <4> SUFFICES ASSUME NEW i \in 1 .. len, opts[i].name = name, i > l
                   PROVE  FALSE
        BY <1>1, <2>2
      <4> QED
        BY <1>1, <3>1
    <3>4. Cmd!Last(line, name) = opts[CHOOSE i \in S : \A j \in S : j <= i].arg
      BY DEF Cmd!Last, opts
    <3> HIDE DEF S
    <3>5. \A i \in S : (\A j \in S : j <= i) => i = l
      <4> SUFFICES ASSUME NEW i \in S, \A j \in S : j <= i
                   PROVE  i = l
        OBVIOUS
      <4>1. i <= l /\ l <= i /\ i \in Int /\ l \in Int
        BY <1>1, <3>2, <3>3
      <4> QED
        BY <4>1
    <3>6. (CHOOSE i \in S : \A j \in S : j <= i) = l
      BY <3>2, <3>3, <3>5
    <3>7. Cmd!Last(line, name) = opts[l].arg
      BY <3>4, <3>6
    <3>8. S # {}
      BY <3>2
    <3> QED
      BY <2>1, <3>1, <3>7, <3>8 DEF S, opts, len
  <2> QED
    BY <1>7, <2>3, <2>4 DEF Settled
<1> QED
  BY <1>8, <1>9


LEMMA NamedMeans ==
  ASSUME NEW table, NEW a, NEW v \in Cmd!Named(table, a)
  PROVE  a.word \in DOMAIN table /\ v = table[a.word]
BY DEF Cmd!Named

(* An option's last word, or number, is what the field has.                *)
Obeys(a, v, words, range) ==
  IF a.word = "" THEN a.number \in range => v = a.number ELSE v = words[a.word]

LEMMA NamedObeys ==
  ASSUME NEW table, NEW a, NEW v \in Cmd!Named(table, a), "" \notin DOMAIN table
  PROVE  \A range : Obeys(a, v, table, range)
BY NamedMeans DEF Obeys

LEMMA NumberObeys ==
  ASSUME ConvAssumption, NEW a, a.number \in Int
  PROVE  \A words :
           /\ \A v \in Cmd!Signed(a) : Obeys(a, v, words, -SSizeMax - 1 .. SSizeMax)
           /\ \A v \in Cmd!Unsigned(a) : Obeys(a, v, words, 0 .. Cmd!SizeMax)
<1>1. SSizeMax \in Nat
  BY DEF ConvAssumption
<1>2. \A n \in -SSizeMax - 1 .. SSizeMax : Cmd!Limited(n) = n
  BY <1>1 DEF Cmd!Limited
<1>3. \A n \in 0 .. Cmd!SizeMax : Cmd!Converted(n) = n
  BY <1>1 DEF Cmd!Converted, Cmd!SizeMax, Cmd!SizeMod
<1>4. \A n \in Cmd!Whole(a) : a.word = "" /\ n = a.number
  BY DEF Cmd!Whole
<1> QED
  BY <1>2, <1>3, <1>4 DEF Cmd!Signed, Cmd!Unsigned, Obeys

(* A size is large enough, and the size asked for if there is room for it. *)
LEMMA SizeMeans ==
  ASSUME ConvAssumption, AushapeAssumption, NEW a, a.number \in Int, NEW v \in Cmd!MaxEventSize(a)
  PROVE  /\ v >= MinSize
         /\ Cmd!SizeAsked(a) \in 0 .. Cmd!SizeMax => v = Cmd!SizeAsked(a)
<1>1. SSizeMax \in Nat /\ MinSize \in Nat /\ Kilo \in Nat /\ Mega \in Nat
  BY DEF ConvAssumption, AushapeAssumption
<1>2. PICK t \in Cmd!Scaled(a) : v = t[2] /\ t[2] >= MinSize
  BY DEF Cmd!MaxEventSize
<1>3. \A g \in Cmd!Factors : \/ g[1] = "" /\ g[2] = 1
                             \/ g[1] = "k" /\ g[2] = Kilo
                             \/ g[1] = "m" /\ g[2] = Mega
  <2>1. ASSUME NEW g \in Cmd!Factors
        PROVE  g = <<"", 1>> \/ g = <<"k", Kilo>> \/ g = <<"m", Mega>>
    BY DEF Cmd!Factors
  <2>2. /\ <<"", 1>>[1] = "" /\ <<"", 1>>[2] = 1
        /\ <<"k", Kilo>>[1] = "k" /\ <<"k", Kilo>>[2] = Kilo
        /\ <<"m", Mega>>[1] = "m" /\ <<"m", Mega>>[2] = Mega
    OBVIOUS
  <2> QED
    BY <2>1, <2>2, Zenon
<1>4. \A g, h \in Cmd!Factors : g[1] = h[1] => g[2] = h[2]
  BY <1>3
<1>5. PICK s \in SizesOf(a), f \in FactorsOf(a) : v = (s * f[2]) % Cmd!SizeMod
  BY <1>2, ScaledIs
<1>6. f \in Cmd!Factors /\ f[1] = UnitOf(a)
  BY <1>5 DEF FactorsOf
<1>7. a.word = "" /\ s = Cmd!Converted(a.number)
  <2>1. CASE a.word = ""
    <3>1. Cmd!Named([unlimited |-> Cmd!SizeMax], a) = {}
      BY <2>1 DEF Cmd!Named
    <3> QED
      BY <2>1, <3>1 DEF SizesOf
  <2>2. CASE a.word # ""
    <3>1. a.word = "unlimited"
      BY <2>2, NamedMeans DEF SizesOf
    <3> QED
      BY <1>3, <1>6, <2>2, <3>1 DEF UnitOf
  <2> QED
    BY <2>1, <2>2
<1>8. f[2] \in Nat
  <2>1. f[2] = 1 \/ f[2] = Kilo \/ f[2] = Mega
    BY <1>3, <1>6, Zenon
  <2> QED
    BY <1>1, <2>1
<1>9. Cmd!SizeAsked(a) = a.number * f[2]
  <2> DEFINE g == CHOOSE h \in Cmd!Factors : h[1] = a.rest
  <2>1. f[1] = a.rest
    BY <1>6, <1>7 DEF UnitOf
  <2>2. g \in Cmd!Factors /\ g[1] = a.rest
    BY <1>6, <2>1
  <2>3. Cmd!SizeAsked(a) = a.number * g[2]
    BY <1>7 DEF Cmd!SizeAsked
  <2> HIDE DEF g
  <2> QED
    BY <1>4, <1>6, <2>1, <2>2, <2>3
<1>10. ASSUME Cmd!SizeAsked(a) \in 0 .. Cmd!SizeMax
       PROVE  v = Cmd!SizeAsked(a)
  <2> DEFINE n == a.number
             m == f[2]
  <2>1. n \in Int /\ m \in Nat /\ n * m \in 0 .. Cmd!SizeMax
    BY <1>8, <1>9, <1>10
  <2>2. Cmd!SizeMax \in Nat /\ Cmd!SizeMod = Cmd!SizeMax + 1
    BY <1>1 DEF Cmd!SizeMax, Cmd!SizeMod
  <2>3. \A x \in 0 .. Cmd!SizeMax : x % Cmd!SizeMod = x
    BY <2>2
  <2>4. v = (s * m) % Cmd!SizeMod
    BY <1>5
  <2> HIDE DEF n, m
  <2>5. s * m = n * m
    <3>1. CASE m = 0
      <4>1. Cmd!Converted(n) \in Int
        <5>1. Cmd!SizeMod \in Int /\ Cmd!SizeMod > 0
          BY <2>2
        <5>2. n % Cmd!SizeMod \in Int
          BY <2>1, <5>1
        <5> QED
          BY <2>2, <5>2 DEF Cmd!Converted
      <4>2. s \in Int
        BY <1>7, <4>1 DEF n
      <4>3. \A x \in Int : x * 0 = 0
        OBVIOUS
      <4> QED
        BY <2>1, <3>1, <4>2, <4>3
    <3>2. CASE m >= 1
      <4>1. n >= 0
        BY <2>1, <3>2
      <4>2. n <= n * m
        BY <2>1, <3>2, <4>1
      <4>3. n \in 0 .. Cmd!SizeMax
        BY <2>1, <2>2, <4>1, <4>2
      <4>4. Cmd!Converted(n) = n
        <5>1. n % Cmd!SizeMod = n
          BY <2>3, <4>3
        <5>2. n \in -Cmd!SizeMax .. Cmd!SizeMax
          BY <2>2, <4>3
        <5> QED
          BY <5>1, <5>2 DEF Cmd!Converted
      <4> QED
        BY <1>7, <4>4 DEF n
    <3>3. m = 0 \/ m >= 1
      BY <2>1
    <3> QED
      BY <3>1, <3>2, <3>3
  <2>6. v = n * m
    BY <2>1, <2>3, <2>4, <2>5
  <2> QED
    BY <1>9, <2>6 DEF n, m
<1> QED
  BY <1>2, <1>10

(* A configuration that is loaded is what the command line asks for.       *)
LEMMA LoadedMeans ==
  ASSUME ConvAssumption, AushapeAssumption, NEW line \in CommandLines, NEW d \in Cmd!Loaded(line)
  PROVE  d.max_event_size >= MinSize /\ Cmd!AsAsked(d, line)
<1> DEFINE said(name) == Cmd!Said(line, name) # {}
           last(name) == Cmd!Last(line, name)
<1>1. d.input = IF line.inputs = <<>> THEN "-" ELSE line.inputs[1]
  BY LastCounts
<1>2. \A name \in Names :
        IF said(name)
        THEN last(name) \in {line.opts[i].arg : i \in 1 .. Len(line.opts)}
             /\ d[Field(name)] \in Means(name, last(name))
        ELSE d[Field(name)] = Cmd!Default[Field(name)]
  BY LastCounts
<1>3. \A name \in Names : said(name) => last(name).number \in Int
  <2>1. \A i \in 1 .. Len(line.opts) : line.opts[i].arg.number \in Int
    <3> DEFINE args == [word : STRING, number : Int, rest : STRING]
           options == [name : STRING, arg : args]
    <3>1. line.opts \in Seq(options)
      BY DEF AushapeAssumption
    <3>2. \A o \in options : o.arg.number \in Int
      OBVIOUS
    <3> HIDE DEF options
    <3>3. \A i \in 1 .. Len(line.opts) : line.opts[i] \in options
      BY <3>1
    <3> QED
      BY <3>2, <3>3
  <2> QED
    BY <1>2, <2>1
<1> HIDE DEF last
<1>4. d.help <=> said("help")
  <2>1. "help" \in Names /\ Field("help") = "help" /\ Cmd!Default["help"] = FALSE
    BY DEF Names, Field, Cmd!Default
  <2>2. \A a : Means("help", a) = {TRUE}
    BY DEF Means
  <2>3. said("help") => d.help = TRUE
    BY <1>2, <2>1, <2>2
  <2>4. ~said("help") => d.help = FALSE
    BY <1>2, <2>1
  <2> QED
    BY <2>3, <2>4
<1>5. d.version <=> said("version")
  <2>1. "version" \in Names /\ Field("version") = "version" /\ Cmd!Default["version"] = FALSE
    BY DEF Names, Field, Cmd!Default
  <2>2. \A a : Means("version", a) = {TRUE}
    BY DEF Means
  <2>3. said("version") => d.version = TRUE
    BY <1>2, <2>1, <2>2
  <2>4. ~said("version") => d.version = FALSE
    BY <1>2, <2>1
  <2> QED
    BY <2>3, <2>4
<1>6. d.with_text <=> said("with-text")
  <2>1. /\ "with-text" \in Names /\ Field("with-text") = "with_text"
        /\ Cmd!Default["with_text"] = FALSE
    BY DEF Names, Field, Cmd!Default
  <2>2. \A a : Means("with-text", a) = {TRUE}
    BY DEF Means
  <2>3. said("with-text") => d.with_text = TRUE
    BY <1>2, <2>1, <2>2
  <2>4. ~said("with-text") => d.with_text = FALSE
    BY <1>2, <2>1
  <2> QED
    BY <2>3, <2>4
<1>7. d.with_norm <=> said("with-norm")
  <2>1. /\ "with-norm" \in Names /\ Field("with-norm") = "with_norm"
        /\ Cmd!Default["with_norm"] = FALSE
    BY DEF Names, Field, Cmd!Default
  <2>2. \A a : Means("with-norm", a) = {TRUE}
    BY DEF Means
  <2>3. said("with-norm") => d.with_norm = TRUE
    BY <1>2, <2>1, <2>2
  <2>4. ~said("with-norm") => d.with_norm = FALSE
    BY <1>2, <2>1
  <2> QED
    BY <2>3, <2>4
<1>8. IF said("lang")
      THEN Obeys(last("lang"), d.lang, [json |-> "JSON", xml |-> "XML"], 0 .. Cmd!SizeMax)
      ELSE d.lang = "JSON"
  <2>1. "lang" \in Names /\ Field("lang") = "lang" /\ Cmd!Default["lang"] = "JSON"
    BY DEF Names, Field, Cmd!Default
  <2>2. \A a : Means("lang", a) = Cmd!Named([json |-> "JSON", xml |-> "XML"], a)
    BY DEF Means
  <2>3. "" \notin DOMAIN [json |-> "JSON", xml |-> "XML"]
    OBVIOUS
  <2>4. said("lang") => d.lang \in Cmd!Named([json |-> "JSON", xml |-> "XML"], last("lang"))
    BY <1>2, <2>1, <2>2
  <2>5. ~said("lang") => d.lang = "JSON"
    BY <1>2, <2>1
  <2> QED
    BY <2>3, <2>4, <2>5, NamedObeys
<1>9. IF said("output")
      THEN Obeys(last("output"), d.output_type, [file |-> "FD", syslog |-> "SYSLOG"],
                 0 .. Cmd!SizeMax)
      ELSE d.output_type = "FD"
  <2>1. "output" \in Names /\ Field("output") = "output_type" /\ Cmd!Default["output_type"] = "FD"
    BY DEF Names, Field, Cmd!Default
  <2>2. \A a : Means("output", a) = Cmd!Named([file |-> "FD", syslog |-> "SYSLOG"], a)
    BY DEF Means
  <2>3. "" \notin DOMAIN [file |-> "FD", syslog |-> "SYSLOG"]
    OBVIOUS
  <2>4. said("output") => 
        d.output_type \in Cmd!Named([file |-> "FD", syslog |-> "SYSLOG"], last("output"))
    BY <1>2, <2>1, <2>2
  <2>5. ~said("output") => d.output_type = "FD"
    BY <1>2, <2>1
  <2> QED
    BY <2>3, <2>4, <2>5, NamedObeys
<1>10. IF said("fold")
       THEN Obeys(last("fold"), d.fold_level, [none |-> Cmd!SizeMax, all |-> 0], 0 .. Cmd!SizeMax)
       ELSE d.fold_level = 4
  <2>1. "fold" \in Names /\ Field("fold") = "fold_level" /\ Cmd!Default["fold_level"] = 4
    BY DEF Names, Field, Cmd!Default
  <2>2. \A a : Means("fold", a) =
          Cmd!Named([none |-> Cmd!SizeMax, all |-> 0], a) \union Cmd!Unsigned(a)
    BY DEF Means
  <2>3. "" \notin DOMAIN [none |-> Cmd!SizeMax, all |-> 0]
    OBVIOUS
  <2> QED
    BY <1>2, <1>3, <2>1, <2>2, <2>3, NamedObeys, NumberObeys
<1>11. IF said("indent")
       THEN Obeys(last("indent"), d.nest_indent, <<>>, 0 .. Cmd!SizeMax)
       ELSE d.nest_indent = 4
  <2>1. "indent" \in Names /\ Field("indent") = "nest_indent" /\ Cmd!Default["nest_indent"] = 4
    BY DEF Names, Field, Cmd!Default
  <2>2. \A a : Means("indent", a) = Cmd!Unsigned(a)
    BY DEF Means
  <2> QED
    BY <1>2, <1>3, <2>1, <2>2, NumberObeys
<1>12. IF said("events-per-doc")
       THEN Obeys(last("events-per-doc"), d.events_per_doc, [none |-> 0, all |-> SSizeMax],
                  -SSizeMax - 1 .. SSizeMax)
       ELSE d.events_per_doc = SSizeMax
  <2>1. /\ "events-per-doc" \in Names /\ Field("events-per-doc") = "events_per_doc"
        /\ Cmd!Default["events_per_doc"] = SSizeMax
    BY DEF Names, Field, Cmd!Default
  <2>2. \A a : Means("events-per-doc", a) =
          Cmd!Named([none |-> 0, all |-> SSizeMax], a) \union Cmd!Signed(a)
    BY DEF Means
  <2>3. "" \notin DOMAIN [none |-> 0, all |-> SSizeMax]
    OBVIOUS
  <2> QED
    BY <1>2, <1>3, <2>1, <2>2, <2>3, NamedObeys, NumberObeys
<1>13. IF said("syslog-facility")
       THEN Obeys(last("syslog-facility"), d.facility, Cmd!Facilities, 0 .. Cmd!SizeMax)
       ELSE d.facility = 80
  <2>1. /\ "syslog-facility" \in Names /\ Field("syslog-facility") = "facility"
        /\ Cmd!Default["facility"] = 80
    BY DEF Names, Field, Cmd!Default, Cmd!Facilities
  <2>2. \A a : Means("syslog-facility", a) = Cmd!Named(Cmd!Facilities, a)
    BY DEF Means
  <2>3. "" \notin DOMAIN Cmd!Facilities
    BY DEF Cmd!Facilities
  <2>4. said("syslog-facility") => d.facility \in Cmd!Named(Cmd!Facilities, last("syslog-facility"))
    BY <1>2, <2>1, <2>2
  <2>5. ~said("syslog-facility") => d.facility = 80
    BY <1>2, <2>1
  <2> QED
    BY <2>3, <2>4, <2>5, NamedObeys
<1>14. IF said("syslog-priority")
       THEN Obeys(last("syslog-priority"), d.priority, Cmd!Priorities, 0 .. Cmd!SizeMax)
       ELSE d.priority = 6
  <2>1. /\ "syslog-priority" \in Names /\ Field("syslog-priority") = "priority"
        /\ Cmd!Default["priority"] = 6
    BY DEF Names, Field, Cmd!Default, Cmd!Priorities
  <2>2. \A a : Means("syslog-priority", a) = Cmd!Named(Cmd!Priorities, a)
    BY DEF Means
  <2>3. "" \notin DOMAIN Cmd!Priorities
    BY DEF Cmd!Priorities
  <2>4. said("syslog-priority") => d.priority \in Cmd!Named(Cmd!Priorities, last("syslog-priority"))
    BY <1>2, <2>1, <2>2
  <2>5. ~said("syslog-priority") => d.priority = 6
    BY <1>2, <2>1
  <2> QED
    BY <2>3, <2>4, <2>5, NamedObeys
<1>15. d.path = IF ~said("file") THEN "-" ELSE last("file").word
  <2>1. "file" \in Names /\ Field("file") = "path" /\ Cmd!Default["path"] = "-"
    BY DEF Names, Field, Cmd!Default
  <2>2. \A a : Means("file", a) = {a.word}
    BY DEF Means
  <2> QED
    BY <1>2, <2>1, <2>2
<1>16. /\ d.max_event_size >= MinSize
       /\ ~said("max-event-size") => d.max_event_size = Cmd!SizeMax
       /\ said("max-event-size") /\ Cmd!SizeAsked(last("max-event-size")) \in 0 .. Cmd!SizeMax =>
            d.max_event_size = Cmd!SizeAsked(last("max-event-size"))
  <2>1. /\ "max-event-size" \in Names /\ Field("max-event-size") = "max_event_size"
        /\ Cmd!Default["max_event_size"] = Cmd!SizeMax
    BY DEF Names, Field, Cmd!Default
  <2>2. \A a : Means("max-event-size", a) = Cmd!MaxEventSize(a)
    BY DEF Means
  <2>3. Cmd!SizeMax >= MinSize
    BY DEF ConvAssumption, AushapeAssumption, Cmd!SizeMax, Cmd!SizeMod
  <2> QED
    BY <1>2, <1>3, <2>1, <2>2, <2>3, SizeMeans
<1>17. Cmd!AsAsked(d, line)
  <2> DEFINE asked(name, default, word, range, value) ==
        \/ Cmd!Said(line, name) = {} /\ value = default
        \/ /\ Cmd!Said(line, name) # {}
           /\ LET a == Cmd!Last(line, name)
              IN  IF a.word = "" THEN a.number \in range => value = a.number
                  ELSE value = word[a.word]
  <2>1. /\ asked("lang", "JSON", [json |-> "JSON", xml |-> "XML"], 0 .. Cmd!SizeMax, d.lang)
        /\ asked("output", "FD", [file |-> "FD", syslog |-> "SYSLOG"], 0 .. Cmd!SizeMax,
                 d.output_type)
    BY <1>8, <1>9 DEF last, Obeys
  <2>2. /\ asked("fold", 4, [all |-> 0, none |-> Cmd!SizeMax], 0 .. Cmd!SizeMax, d.fold_level)
        /\ asked("indent", 4, <<>>, 0 .. Cmd!SizeMax, d.nest_indent)
        /\ asked("events-per-doc", SSizeMax, [none |-> 0, all |-> SSizeMax],
                 -SSizeMax - 1 .. SSizeMax, d.events_per_doc)
    BY <1>10, <1>11, <1>12 DEF last, Obeys
  <2>3. /\ asked("syslog-facility", 80, Cmd!Facilities, 0 .. Cmd!SizeMax, d.facility)
        /\ asked("syslog-priority", 6, Cmd!Priorities, 0 .. Cmd!SizeMax, d.priority)
    BY <1>13, <1>14 DEF last, Obeys
  <2>4. /\ d.help <=> Cmd!Said(line, "help") # {}
        /\ d.version <=> Cmd!Said(line, "version") # {}
        /\ d.with_text <=> Cmd!Said(line, "with-text") # {}
        /\ d.with_norm <=> Cmd!Said(line, "with-norm") # {}
    BY <1>4, <1>5, <1>6, <1>7
  <2>5. d.path = IF Cmd!Said(line, "file") = {} THEN "-" ELSE Cmd!Last(line, "file").word
    BY <1>15 DEF last
  <2>6. /\ Cmd!Said(line, "max-event-size") = {} => d.max_event_size = Cmd!SizeMax
        /\ Cmd!Said(line, "max-event-size") # {} =>
             LET n == Cmd!SizeAsked(Cmd!Last(line, "max-event-size"))
             IN  n \in 0 .. Cmd!SizeMax => d.max_event_size = n
    BY <1>16 DEF last
  <2> QED
    BY <1>1, <2>1, <2>2, <2>3, <2>4, <2>5, <2>6, Zenon DEF Cmd!AsAsked
<1> QED
  BY <1>16, <1>17

-----------------------------------------------------------------------------
(***************************************************************************)
(* The program uses the converter as the converter's module allows.        *)
(***************************************************************************)

LEMMA ProgramStep == [MainNext]_allVars => [Next]_vars
<1> SUFFICES ASSUME [MainNext]_allVars
             PROVE  [Next]_vars
  OBVIOUS
<1>1. CASE UNCHANGED allVars
  BY <1>1 DEF allVars
<1>2. CASE Wait
  BY <1>2 DEF Wait, Next
<1>3. CASE Load \/ OpenInput \/ OpenOutput \/ CreateOutput \/ CreateConverter \/ MainFed \/ MainFlushed
  BY <1>3 DEF Load, OpenInput, OpenOutput, CreateOutput, CreateConverter, MainFed, MainFlushed
<1>4. CASE MainBegin \/ MainRead \/ MainFlush \/ MainEnd \/ MainCleanup
  BY <1>4 DEF MainBegin, MainRead, MainFlush, MainEnd, MainCleanup, Next
<1> QED
  BY <1>1, <1>2, <1>3, <1>4 DEF MainNext, MainStep

(* Whatever the program does is a behaviour of the converter's module, so  *)
(* that what is proved there holds of the program.                         *)
THEOREM ProgramRunsConverter == MainSpec => Spec
<1>1. MainInit => Init
  BY DEF MainInit
<1> QED
  BY <1>1, ProgramStep, PTL DEF MainSpec, Spec

-----------------------------------------------------------------------------
(***************************************************************************)
(* MainInv is an inductive invariant.                                      *)
(***************************************************************************)

LEMMA MainInvInit == AushapeAssumption /\ MainInit => MainInv
<1> SUFFICES ASSUME AushapeAssumption, MainInit
             PROVE  MainInv
  OBVIOUS
<1>1. ConfOK
  <2>1. argv \in CommandLines /\ conf = {} /\ main = "load"
    BY DEF MainInit
  <2>2. \A c, d \in Cmd!Loaded(argv) : c = d
    BY <2>1, LoadedOnce DEF AtMostOne
  <2>3. \A c \in Cmd!Loaded(argv) : cont <=> c.output_type = "FD"
    BY <2>2 DEF MainInit
  <2> QED
    BY <2>1, <2>3 DEF ConfOK
<1>2. ConverterOK
  BY DEF ConverterOK, MainInit, Init, Preparing, Serving
<1>3. CallsOK
  BY DEF CallsOK, MainInit, Init, Serving
<1>4. DeliveryOK
  BY DEF DeliveryOK, MainInit
<1>5. OwnershipOK
  BY DEF OwnershipOK, MainInit
<1> QED
  BY <1>1, <1>2, <1>3, <1>4, <1>5 DEF MainInv

(* The format of the converter is never changed.                           *)
LEMMA ConfStep ==
  ASSUME AushapeAssumption, MainInv, [MainNext]_allVars
  PROVE  ConfOK'
<1> USE DEF MainInv, ConfOK
<1>1. cont' = cont
  BY ProgramStep, FormatKept
<1>2. CASE Load
  <2>1. conf' = Cmd!Loaded(argv) /\ main = "load" /\ main' # "load"
    BY <1>2 DEF Load, Cleanup
  <2> QED
    BY <1>1, <2>1
<1>3. CASE main # "load" /\ main' # "load" /\ conf' \subseteq conf
  BY <1>1, <1>3
<1>4. CASE UNCHANGED <<main, argv, conf>>
  BY <1>1, <1>4
<1>5. CASE ~Load /\ MainStep
  <2>1. main # "load"
    BY <1>5 DEF MainStep, Load, OpenInput, OpenOutput, CreateOutput, CreateConverter, MainBegin,
           MainRead, MainFed, MainFlush, MainFlushed, MainEnd, MainCleanup
  <2>2. main' # "load" /\ conf' \subseteq conf
    BY <1>5 DEF MainStep, OpenInput, OpenOutput, CreateOutput, CreateConverter, MainBegin,
           MainRead, MainFed, MainFlush, MainFlushed, MainEnd, MainCleanup, ContinueOr, Cleanup, config
  <2> QED
    BY <1>3, <2>1, <2>2
<1>6. CASE Wait
  BY <1>4, <1>6 DEF Wait, mainVars, config
<1>7. CASE UNCHANGED allVars
  BY <1>4, <1>7 DEF allVars, mainVars, config
<1> QED
  BY <1>2, <1>5, <1>6, <1>7 DEF MainNext

LEMMA OwnershipStep ==
  ASSUME MainInv, [MainNext]_allVars
  PROVE  OwnershipOK'
<1> USE DEF MainInv, OwnershipOK, ConverterOK, Preparing, Serving, resources, mainVars, config
<1>1. cont' = cont
  BY ProgramStep, FormatKept
<1>2. CASE Load
  BY <1>1, <1>2 DEF Load, Cleanup
<1>3. CASE OpenInput
  BY <1>1, <1>3 DEF OpenInput, ContinueOr, Cleanup
<1>4. CASE OpenOutput
  <2>1. /\ main = "open output" /\ ~converter /\ converter' = converter
        /\ in_fd' = in_fd /\ in_fd \in {"none", "standard", "open"}
        /\ output' = output /\ output = "none" /\ out_fd = "none"
    BY <1>4 DEF OpenOutput
  <2>2. PICK c \in conf :
          \/ /\ c.output_type = "FD" /\ out_fd' \in {"standard", "open"}
             /\ main' = "create output"
          \/ out_fd' = out_fd /\ main' = "cleanup"
          \/ c.output_type # "FD" /\ out_fd' = out_fd /\ main' = "create output"
    BY <1>4 DEF OpenOutput, ContinueOr, Cleanup
  <2>3. cont <=> c.output_type = "FD"
    BY <2>2 DEF ConfOK
  <2>4. main' \in {"create output", "cleanup"}
    BY <2>2
  <2>5. main' = "create output" => out_fd' \in {"none", "standard", "open"} /\ (cont => out_fd' # "none")
    BY <2>1, <2>2, <2>3
  <2>6. main' = "cleanup" => out_fd' = "none"
    BY <2>1, <2>2
  <2> QED
    BY <1>1, <2>1, <2>4, <2>5, <2>6
<1>5. CASE CreateOutput
  BY <1>1, <1>5 DEF CreateOutput, ContinueOr, Cleanup, Closed
<1>6. CASE CreateConverter
  <2>1. /\ main = "create converter" /\ output = "live"
        /\ in_fd' = in_fd /\ in_fd \in {"none", "standard", "open"}
        /\ out_fd \in {"none", "standard", "open"} /\ (cont => out_fd # "none")
    BY <1>6 DEF CreateConverter
  <2>2. CASE converter' = TRUE /\ UNCHANGED <<output, out_fd>> /\ main' = "begin"
    BY <1>1, <2>1, <2>2
  <2>3. CASE DestroyOutput /\ UNCHANGED converter /\ main' = "cleanup"
    <3>1. ~converter' /\ output' = "destroyed" /\ out_fd' \in {"none", "standard", "closed"}
      BY <2>1, <2>3 DEF DestroyOutput, Closed
    <3> QED
      BY <1>1, <2>1, <2>3, <3>1
  <2> QED
    BY <1>6, <2>2, <2>3 DEF CreateConverter, ContinueOr, Cleanup
<1>7. ASSUME UNCHANGED resources, converter, main # "exited", main' \in Serving \union {"cleanup"}
      PROVE  OwnershipOK'
  <2>1. main' \notin {"load", "open input", "open output", "create output", "create converter", "exited"}
    BY <1>7
  <2> QED
    BY <1>1, <1>7, <2>1
<1>8. CASE MainBegin \/ MainFed \/ MainFlush \/ MainFlushed \/ MainEnd \/ MainRead
  <2>1. main \in Serving /\ UNCHANGED resources
    BY <1>8 DEF MainBegin, MainFed, MainFlush, MainFlushed, MainEnd, MainRead
  <2>2. main' \in Serving \union {"cleanup"}
    BY <1>8 DEF MainBegin, MainFed, MainFlush, MainFlushed, MainEnd, MainRead, ContinueOr, Cleanup
  <2>3. converter /\ main # "exited"
    BY <2>1
  <2> HIDE DEF OwnershipOK, resources, Serving
  <2> QED
    BY <1>7, <2>1, <2>2, <2>3
<1>9. CASE MainCleanup
  BY <1>1, <1>9 DEF MainCleanup, DestroyOutput, Closed
<1>10. CASE UNCHANGED <<resources, main>>
  BY <1>1, <1>10
<1>11. CASE Wait \/ UNCHANGED allVars
  BY <1>10, <1>11 DEF Wait, allVars
<1> QED
  BY <1>2, <1>3, <1>4, <1>5, <1>6, <1>8, <1>9, <1>11 DEF MainNext, MainStep

(* The converter runs only while main waits for it.                        *)
LEMMA WaitsInCall ==
  ASSUME ConvInv, ConverterOK, Internal
  PROVE  /\ call \in {"input", "flush"} /\ converter
         /\ main = IF call = "input" THEN "input" ELSE "flushing"
<1>1. call \in {"input", "flush"}
  BY DEF Internal, CbReady, CbPrologue, CbEvent, CbEpilogue, Leave, ConvInv, CallbackOK
<1> QED
  BY <1>1 DEF ConverterOK, Serving

(* A feed or a flush that main makes is not refused.                       *)
LEMMA Entered ==
  ASSUME MainInv, main \in {"read", "flush"}, NEW op, NEW n, Enter(op, n)
  PROVE  /\ call' = op /\ fed' = fed + n
         /\ UNCHANGED <<format, rc, in_doc, events_in_doc, text, reported, dropped, pc, ret>>
<1>1. rc = "OK" /\ (Single => in_doc)
  BY DEF MainInv, CallsOK, Serving
<1> QED
  BY <1>1 DEF Enter

LEMMA ConverterStep ==
  ASSUME ConvInv, MainInv, [MainNext]_allVars
  PROVE  ConverterOK'
<1> USE DEF MainInv, ConverterOK, Preparing, Serving, resources, mainVars, config
<1>1. CASE Load
  BY <1>1 DEF Load, Cleanup, vars, text, control
<1>2. CASE OpenInput \/ OpenOutput
  <2>1. /\ main \in Preparing /\ main' \in Preparing \union {"cleanup"}
        /\ UNCHANGED <<vars, converter>>
    BY <1>2 DEF OpenInput, OpenOutput, ContinueOr, Cleanup
  <2> QED
    BY <2>1 DEF vars, text, control
<1>3. CASE CreateOutput
  BY <1>3 DEF CreateOutput, ContinueOr, Cleanup, vars, text, control
<1>4. CASE CreateConverter
  BY <1>4 DEF CreateConverter, ContinueOr, Cleanup, DestroyOutput, vars, text, control
<1>5. CASE MainBegin
  <2>1. converter /\ converter' = converter /\ main' \in {"read", "cleanup"}
    BY <1>5 DEF MainBegin, ContinueOr, Cleanup
  <2>2. call = "none" /\ call' = call
    BY <1>5 DEF MainBegin, Begin, Refuse
  <2> QED
    BY <2>1, <2>2
<1>6. CASE MainRead
  <2>1. CASE Input /\ main' = "input"
    <3>1. call' = "input"
      BY <1>6, <2>1, Entered DEF MainRead, Input
    <3> QED
      BY <1>6, <2>1, <3>1 DEF MainRead
  <2>2. CASE UNCHANGED vars /\ main' = "flush"
    BY <1>6, <2>2 DEF MainRead, vars, control
  <2> QED
    BY <1>6, <2>1, <2>2 DEF MainRead
<1>7. CASE MainFed \/ MainFlushed
  BY <1>7 DEF MainFed, MainFlushed, ContinueOr, Cleanup, vars, control
<1>8. CASE MainFlush
  <2>1. call' = "flush"
    BY <1>8, Entered DEF MainFlush, Flush
  <2> QED
    BY <1>8, <2>1 DEF MainFlush
<1>9. CASE MainEnd
  <2>1. converter /\ converter' = converter /\ main' = "cleanup"
    BY <1>9 DEF MainEnd, Cleanup
  <2>2. call = "none" /\ call' = call
    BY <1>9 DEF MainEnd, End, Refuse
  <2> QED
    BY <2>1, <2>2
<1>10. CASE MainCleanup
  BY <1>10 DEF MainCleanup, Destroy, vars, text, control
<1>11. CASE Wait
  <2>1. /\ converter /\ main # "begin" /\ call \in {"input", "flush"}
        /\ main = IF call = "input" THEN "input" ELSE "flushing"
    BY <1>11, WaitsInCall DEF Wait
  <2>2. call' \in {call, "none"}
    BY <1>11 DEF Wait, Internal, CbReady, CbPrologue, CbEvent, CbEpilogue, Leave
  <2> QED
    BY <1>11, <2>1, <2>2 DEF Wait
<1>12. CASE UNCHANGED allVars
  BY <1>12 DEF allVars, vars, text, control
<1> QED
  BY <1>1, <1>2, <1>3, <1>4, <1>5, <1>6, <1>7, <1>8, <1>9, <1>10, <1>11, <1>12
     DEF MainNext, MainStep

LEMMA OneOpenAppend ==
  ASSUME NEW s \in Seq(Token), NEW t \in Token, OneOpen(s), t.kind # "prologue"
  PROVE  /\ t.kind = "event" => OneOpen(Append(s, t))
         /\ t.kind = "epilogue" => OneWhole(Append(s, t))
<1> DEFINE a == Append(s, t)
<1>1. /\ Len(a) = Len(s) + 1 /\ a[Len(s) + 1] = t /\ (\A i \in 1 .. Len(s) : a[i] = s[i])
      /\ Len(s) \in Nat /\ Len(s) > 0 /\ a # <<>>
  BY DEF OneOpen
<1> HIDE DEF a
<1>2. \A i \in 1 .. Len(s) : a[i].kind # "epilogue" /\ (a[i].kind = "prologue" <=> i = 1) /\ i # Len(a)
  BY <1>1 DEF OneOpen
<1>3. \A i \in 1 .. Len(a) : i \in 1 .. Len(s) \/ (i = Len(a) /\ a[i] = t /\ i # 1)
  BY <1>1
<1> QED
  BY <1>1, <1>2, <1>3 DEF OneOpen, OneWhole, a

(* Nothing is composed in the callback of a single document but events.    *)
LEMMA SingleCallback ==
  ASSUME ConvAssumption, ConvInv, Internal, Single, rc' = "OK"
  PROVE  /\ in_doc' = in_doc /\ rc = "OK"
         /\ Log' = Log \/ \E t \in Token : t.kind = "event" /\ Log' = Append(Log, t)
<1>1. [Next]_vars
  BY DEF Next
<1>2. rc = "OK"
  BY <1>1, OtherSteps DEF NoEvent, CbEvent, EventSkipped, EventFails, EventDropped, EventAdded
<1>3. CASE CbEvent
  <2>1. in_doc' = in_doc
    BY <1>3 DEF CbEvent
  <2>2. CASE EventSkipped \/ EventFails \/ EventDropped
    BY <1>2, <2>1, <2>2, SameLog, RenderFailsLog DEF EventSkipped, EventFails, EventDropped
  <2>3. ASSUME NEW size \in Sizes, EventAdded(size)
        PROVE  \E t \in Token : t.kind = "event" /\ Log' = Append(Log, t)
    BY <2>3, EventAddedLog DEF Event
  <2> QED
    BY <1>2, <1>3, <2>1, <2>2, <2>3 DEF CbEvent
<1>4. CASE CbReady \/ CbPrologue \/ CbEpilogue \/ Leave
  BY <1>2, <1>4, SameLog DEF CbReady, CbPrologue, CbEpilogue, Leave
<1> QED
  BY <1>3, <1>4 DEF Internal

(* A conversion that goes on has a single document as it was, or longer.   *)
LEMMA SingleStays ==
  ASSUME ConvAssumption, ConvInv, Internal, Single, rc' = "OK", in_doc, OneOpen(Log)
  PROVE  in_doc' /\ OneOpen(Log')
<1>1. Log \in Seq(Token)
  BY SingleCallback, WorkingLog
<1> QED
  BY <1>1, SingleCallback, OneOpenAppend

(* No failure is called an invalid state.                                  *)
LEMMA FailureNamed ==
  ASSUME Internal, rc # "INVALID_STATE"
  PROVE  rc' # "INVALID_STATE"
BY DEF Internal, CbReady, CbPrologue, CbEvent, CbEpilogue, Leave, StartDoc, FinishDoc,
       EventSkipped, EventFails, EventDropped, EventAdded, Hold, Write, Written, WriteFails, RenderFails

LEMMA CallsStep ==
  ASSUME ConvAssumption, ConvInv, MainInv, [MainNext]_allVars
  PROVE  CallsOK'
<1> USE DEF MainInv, Serving, resources, mainVars, config
<1>1. UNCHANGED Single
  BY ProgramStep, FormatKept
<1>2. CallsOK
  OBVIOUS
<1>3. ASSUME UNCHANGED vars, main' \notin Serving
      PROVE  CallsOK'
  BY <1>2, <1>3 DEF CallsOK, vars, control
<1>4. ASSUME UNCHANGED <<rc, ret, in_doc, text>>,
             main' \in {"read", "flush", "end"} => rc = "OK",
             main' \in {"input", "flushing"} /\ call' = "none" => ret.rc = rc,
             main' \in Serving \ {"begin"} => main \in Serving \ {"begin"}
      PROVE  CallsOK'
  <2>1. Log' = Log
    BY <1>4, SameLog
  <2> QED
    BY <1>1, <1>2, <1>4, <2>1 DEF CallsOK
<1>5. CASE Load \/ OpenInput \/ OpenOutput \/ CreateOutput
  BY <1>3, <1>5 DEF Load, OpenInput, OpenOutput, CreateOutput, ContinueOr, Cleanup
<1>6. CASE CreateConverter
  BY <1>4, <1>6 DEF CreateConverter, ContinueOr, Cleanup, vars, control
<1>7. CASE MainBegin
  <2>1. rc = "OK" /\ ~in_doc /\ out = <<>> /\ buf = <<>>
    BY <1>7 DEF MainBegin, ConverterOK
  <2>2. main' = IF ret'.rc = "OK" THEN "read" ELSE "cleanup"
    BY <1>7 DEF MainBegin, ContinueOr, Cleanup
  <2>3. CASE ~Single /\ Refuse("begin", "OK")
    BY <1>1, <2>1, <2>2, <2>3 DEF CallsOK, Refuse, Returned
  <2>4. CASE Single /\ StartDoc /\ Returned("begin", rc') /\ UNCHANGED <<format, events_in_doc>>
    <3>1. ret'.rc = rc' /\ rc' # "INVALID_STATE"
      BY <2>1, <2>4 DEF Returned, StartDoc, Hold, Write, Written, WriteFails, RenderFails
    <3>2. ~Bare
      BY <2>4 DEF Single, Bare, ConvAssumption
    <3>3. rc' = "OK" => in_doc'
      BY <2>1, <2>4, <3>2, StartDocOK
    <3>4. rc' = "OK" => OneOpen(Log')
      <4>1. Log = <<>> /\ Prologue.kind = "prologue"
        BY <2>1, WorkingLog DEF Prologue
      <4>2. rc' = "OK" => Log' = Append(Log, Prologue)
        BY <2>1, <2>4, StartDocLog
      <4>3. Len(Append(<<>>, Prologue)) = 1 /\ Append(<<>>, Prologue)[1] = Prologue
        OBVIOUS
      <4>4. Prologue.kind # "epilogue" /\ Append(<<>>, Prologue) # <<>>
        BY <4>1
      <4>5. OneOpen(Append(<<>>, Prologue))
        BY <4>1, <4>3, <4>4 DEF OneOpen
      <4> QED
        BY <4>1, <4>2, <4>5
    <3> QED
      BY <2>2, <3>1, <3>3, <3>4 DEF CallsOK
  <2> QED
    BY <1>7, <2>1, <2>3, <2>4 DEF MainBegin, Begin
<1>8. CASE MainRead
  <2>1. CASE Input /\ main' = "input"
    <3>1. call' = "input" /\ UNCHANGED <<rc, ret, in_doc, text>>
      BY <1>8, <2>1, Entered DEF MainRead, Input
    <3> QED
      BY <1>4, <1>8, <2>1, <3>1 DEF MainRead
  <2>2. CASE UNCHANGED vars /\ main' = "flush"
    BY <1>4, <1>8, <2>2 DEF MainRead, vars, control, CallsOK
  <2> QED
    BY <1>8, <2>1, <2>2 DEF MainRead
<1>9. CASE MainFed \/ MainFlushed
  BY <1>4, <1>9 DEF MainFed, MainFlushed, ContinueOr, Cleanup, vars, control, CallsOK
<1>10. CASE MainFlush
  <2>1. call' = "flush" /\ UNCHANGED <<rc, ret, in_doc, text>>
    BY <1>10, Entered DEF MainFlush, Flush
  <2> QED
    BY <1>4, <1>10, <2>1 DEF MainFlush
<1>11. CASE MainEnd
  <2>1. main' = "cleanup" /\ rc = "OK" /\ (Single => in_doc) /\ End
    BY <1>11 DEF MainEnd, Cleanup, CallsOK
  <2>2. rc' # "INVALID_STATE" /\ ret'.rc # "INVALID_STATE"
    BY <2>1 DEF End, Refuse, Returned, FinishDoc, Written, WriteFails, RenderFails
  <2> QED
    BY <2>1, <2>2 DEF CallsOK
<1>12. CASE MainCleanup
  BY <1>4, <1>12 DEF MainCleanup, Destroy, vars, control
<1>13. CASE Wait
  <2>1. /\ main' = main /\ main \in {"input", "flushing"} /\ Internal
    BY <1>13, WaitsInCall DEF Wait
  <2>2. rc' # "INVALID_STATE"
    BY <1>2, <2>1, FailureNamed DEF CallsOK
  <2>3. ret' = ret \/ ret'.rc = rc'
    BY <2>1 DEF Internal, CbReady, CbPrologue, CbEvent, CbEpilogue, Leave, Returned
  <2>4. call' = "none" => ret'.rc = rc'
    <3>1. CASE Leave
      BY <3>1 DEF Leave, Returned
    <3>2. CASE CbReady \/ CbPrologue \/ CbEvent \/ CbEpilogue
      <4>1. call' = call /\ call # "none"
        BY <1>13, <3>2, WaitsInCall DEF Wait, CbReady, CbPrologue, CbEvent, CbEpilogue
      <4> QED
        BY <4>1
    <3> QED
      BY <2>1, <3>1, <3>2 DEF Internal
  <2>5. Single /\ rc' = "OK" => in_doc' /\ OneOpen(Log')
    <3> SUFFICES ASSUME Single, rc' = "OK"
                 PROVE  in_doc' /\ OneOpen(Log')
      OBVIOUS
    <3>1. rc = "OK"
      BY <2>1, SingleCallback
    <3>2. in_doc /\ OneOpen(Log)
      BY <1>2, <2>1, <3>1 DEF CallsOK
    <3> QED
      BY <2>1, <3>2, SingleStays
  <2> QED
    BY <1>1, <1>2, <2>1, <2>2, <2>3, <2>4, <2>5 DEF CallsOK
<1>14. CASE UNCHANGED allVars
  BY <1>4, <1>14 DEF allVars, vars, text, control, CallsOK
<1> QED
  BY <1>5, <1>6, <1>7, <1>8, <1>9, <1>10, <1>11, <1>12, <1>13, <1>14 DEF MainNext, MainStep

LEMMA DeliveryStep ==
  ASSUME ConvAssumption, ConvInv, HeldOK, MainInv, [MainNext]_allVars
  PROVE  DeliveryOK'
<1> USE DEF MainInv, resources, mainVars, config, Bare
<1>1. UNCHANGED <<epd, Bare, Single>>
  BY ProgramStep, FormatKept
<1>2. DeliveryOK
  OBVIOUS
<1>3. ASSUME UNCHANGED <<left, read_rc>>, main' \notin {"flushing", "end"},
             main' \in {"cleanup", "exited"} => status' # 0 \/ ~converter'
      PROVE  DeliveryOK'
  BY <1>2, <1>3 DEF DeliveryOK
<1>4. CASE Load \/ OpenInput \/ OpenOutput \/ CreateOutput \/ CreateConverter
  BY <1>3, <1>4 DEF Load, OpenInput, OpenOutput, CreateOutput, CreateConverter, ContinueOr, Cleanup,
       ConverterOK, Preparing
<1>5. CASE MainBegin \/ MainFed
  BY <1>3, <1>5 DEF MainBegin, MainFed, ContinueOr, Cleanup
<1>6. CASE MainRead
  BY <1>2, <1>6 DEF MainRead, DeliveryOK
<1>7. CASE MainFlush
  <2>1. call' = "flush"
    BY <1>7, Entered DEF MainFlush, Flush
  <2> QED
    BY <1>2, <1>7, <2>1 DEF MainFlush, DeliveryOK
<1>8. CASE MainFlushed
  <2>1. CASE ret.rc = "OK"
    <3>1. main' = "end" /\ rc = "OK" /\ reported = fed
      BY <1>2, <1>8, <2>1 DEF MainFlushed, ContinueOr, CallsOK, DeliveryOK
    <3> QED
      BY <1>2, <1>8, <3>1 DEF MainFlushed, DeliveryOK, vars, auparse
  <2>2. CASE ret.rc # "OK"
    BY <1>3, <1>8, <2>2 DEF MainFlushed, ContinueOr, Cleanup
  <2> QED
    BY <2>1, <2>2
<1>9. CASE MainEnd
  <2>1. /\ main' = "cleanup" /\ UNCHANGED <<left, read_rc>> /\ End
        /\ rc = "OK" /\ reported = fed /\ (Single => in_doc /\ OneOpen(Log))
        /\ status' = 0 => ret'.rc = "OK" /\ read_rc = 0
    BY <1>2, <1>9 DEF MainEnd, Cleanup, CallsOK, DeliveryOK, Serving
  <2>2. UNCHANGED <<reported, fed>>
    BY <2>1 DEF End, Refuse, auparse
  <2>3. ret'.rc = "OK" => rc' = "OK" /\ buf' = <<>> /\ (Bare \/ ~Open(out'))
    BY <2>1, EndLeavesNothing
  <2>4. ret'.rc = "OK" /\ Single => OneWhole(out')
    <3> SUFFICES ASSUME ret'.rc = "OK", Single
                 PROVE  OneWhole(out')
      OBVIOUS
    <3>1. rc' = "OK" /\ buf' = <<>> /\ ~Bare
      BY <2>3 DEF Single, ConvAssumption
    <3>2. FinishDoc
      BY <2>1, <3>1 DEF End
    <3>3. Log' = Append(Log, Epilogue)
      BY <2>1, <3>1, <3>2, FinishDocLog
    <3>4. Log' = out'
      <4>1. out' \in Seq(Token)
        BY <2>1, ConvInvStep, ProgramStep DEF ConvInv, TypeOK
      <4> QED
        BY <3>1, <4>1 DEF Log, Sound
    <3>5. Epilogue \in Token /\ Epilogue.kind = "epilogue"
      BY DEF Epilogue, Token
    <3>6. OneOpen(Log) /\ Log \in Seq(Token)
      BY <2>1, WorkingLog
    <3> QED
      BY <3>3, <3>4, <3>5, <3>6, OneOpenAppend
  <2> QED
    BY <1>1, <1>2, <2>1, <2>2, <2>3, <2>4 DEF DeliveryOK
<1>10. CASE MainCleanup
  <2>1. /\ UNCHANGED <<left, read_rc, status, converter, rc, reported, fed, buf, out>>
        /\ main = "cleanup" /\ main' = "exited"
    BY <1>10 DEF MainCleanup, Destroy, vars, text, auparse
  <2> QED
    BY <1>1, <1>2, <2>1 DEF DeliveryOK
<1>11. CASE Wait
  <2>1. /\ UNCHANGED <<main, left, read_rc, status, converter>> /\ Internal
        /\ main = IF call = "input" THEN "input" ELSE "flushing"
        /\ call \in {"input", "flush"}
    BY <1>11, WaitsInCall DEF Wait
  <2>2. call = "flush" /\ call' = "none" /\ rc' = "OK" => reported' = fed'
    <3>1. CASE Leave
      BY <3>1 DEF Leave, auparse
    <3>2. CASE CbReady \/ CbPrologue \/ CbEvent \/ CbEpilogue
      BY <3>2 DEF CbReady, CbPrologue, CbEvent, CbEpilogue
    <3> QED
      BY <2>1, <3>1, <3>2 DEF Internal
  <2> QED
    BY <1>2, <2>1, <2>2 DEF DeliveryOK
<1>12. CASE UNCHANGED allVars
  BY <1>1, <1>2, <1>12 DEF allVars, vars, text, auparse, control, DeliveryOK
<1> QED
  BY <1>4, <1>5, <1>6, <1>7, <1>8, <1>9, <1>10, <1>11, <1>12 DEF MainNext, MainStep

-----------------------------------------------------------------------------
(***************************************************************************)
(* The theorems.                                                           *)
(***************************************************************************)

(* MainInv and the invariants of the converter hold of the program.        *)
THEOREM MainInvariant == MainSpec => [](ConvInv /\ HeldOK /\ EventsInOrder /\ MainInv)
<1>1. MainSpec => []ConvInv /\ []HeldOK /\ []EventsInOrder
  BY ProgramRunsConverter, ConvInvariant, HeldInvariant, OnceAndInOrder, PTL
<1>2. MainInit => MainInv
  BY AushapeAssumption, MainInvInit
<1>3. ConvInv /\ HeldOK /\ MainInv /\ [MainNext]_allVars => MainInv'
  BY ConvAssumption, AushapeAssumption, ConfStep, ConverterStep, CallsStep, DeliveryStep,
     OwnershipStep DEF MainInv
<1> QED
  BY <1>1, <1>2, <1>3, PTL DEF MainSpec

(* Exit status 0 of a conversion means that all input was read, and every  *)
(* event of it that is not dropped has reached the output, once, in        *)
(* documents that are complete.                                            *)
THEOREM SuccessIsDelivery == MainSpec => []SuccessMeansDelivered
<1>1. ConvInv /\ EventsInOrder /\ MainInv => SuccessMeansDelivered
  <2> SUFFICES ASSUME ConvInv, EventsInOrder, MainInv, Success
               PROVE  /\ left = 0 /\ read_rc = 0
                      /\ rc = "OK" /\ reported = fed
                      /\ Ids(out) = 1 .. fed \ dropped
                      /\ buf = <<>> /\ ~(~Bare /\ Open(out))
    BY DEF SuccessMeansDelivered
  <2>1. /\ left = 0 /\ read_rc = 0 /\ rc = "OK" /\ reported = fed
        /\ buf = <<>> /\ (Bare \/ ~Open(out))
    BY DEF MainInv, DeliveryOK, Success
  <2>2. Log = out
    BY <2>1 DEF ConvInv, TypeOK, Log, Sound
  <2>3. pc = "ready"
    <3>1. call \notin {"input", "flush"}
      BY DEF MainInv, ConverterOK, Success
    <3> QED
      BY <3>1 DEF ConvInv, CallbackOK
  <2>4. Handled = fed
    BY <2>1, <2>3 DEF Handled
  <2>5. Ids(Log) \union dropped = 1 .. fed /\ Ids(Log) \intersect dropped = {}
    BY <2>1, <2>4 DEF EventsInOrder
  <2> QED
    BY <2>1, <2>2, <2>5
<1> QED
  BY <1>1, MainInvariant, PTL

(* A single document is one document when the program succeeds, even if    *)
(* there were no events.                                                   *)
THEOREM SingleIsOne == MainSpec => []SingleMeansOne
<1>1. MainInv => SingleMeansOne
  BY DEF MainInv, DeliveryOK, SingleMeansOne, Success, OneWhole
<1> QED
  BY <1>1, MainInvariant, PTL

(* The library is never called when it must not be, whatever failed before.*)
THEOREM CallsAllowed == MainSpec => []CallsInOrder
<1>1. MainInv => CallsInOrder
  BY DEF MainInv, CallsOK, ConverterOK, CallsInOrder
<1> QED
  BY <1>1, MainInvariant, PTL

(* Files are closed, and the output destroyed, once each, on every way to  *)
(* the exit.                                                               *)
THEOREM EverythingReleased == MainSpec => []ResourcesReleased
<1>1. MainInv => ResourcesReleased
  <2> SUFFICES ASSUME MainInv
               PROVE  ResourcesReleased
    OBVIOUS
  <2>1. in_fd # "closed twice" /\ (main = "exited" => in_fd # "open")
    BY DEF MainInv, OwnershipOK
  <2>2. main = "exited" => out_fd # "open" /\ output # "live"
    BY DEF MainInv, OwnershipOK
  <2>3. converter /\ main # "exited" => output = "live" /\ (cont => out_fd \in {"standard", "open"})
    BY DEF MainInv, OwnershipOK
  <2>4. out_fd # "closed twice"
    BY DEF MainInv, OwnershipOK, ConverterOK, Preparing, Serving
  <2> QED
    BY <2>1, <2>2, <2>3, <2>4 DEF ResourcesReleased
<1> QED
  BY <1>1, MainInvariant, PTL

(* A command line is looked at when the configuration is loaded, and the   *)
(* configuration used right after it.                                      *)
THEOREM CommandLineObeyed == MainSpec => []ConfAsAsked
<1> DEFINE Inv == /\ main = "load" => argv \in CommandLines
                  /\ ConfAsAsked
<1>1. MainInit => Inv
  BY DEF MainInit, ConfAsAsked
<1>2. Inv /\ [MainNext]_allVars => Inv'
  <2> SUFFICES ASSUME Inv, [MainNext]_allVars
               PROVE  Inv'
    OBVIOUS
  <2>1. CASE Load
    <3>1. /\ conf' = Cmd!Loaded(argv) /\ argv' = argv /\ argv \in CommandLines
          /\ main' # "load"
      BY <2>1 DEF Load, Cleanup, config
    <3>2. \A c \in conf' : c.max_event_size >= MinSize /\ Cmd!AsAsked(c, argv)
      BY <3>1, ConvAssumption, AushapeAssumption, LoadedMeans
    <3> QED
      BY <3>1, <3>2 DEF ConfAsAsked
  <2>2. CASE MainStep /\ ~Load
    <3>1. main' \notin {"load", "open input"}
      BY <2>2 DEF MainStep, OpenInput, OpenOutput, CreateOutput, CreateConverter, MainBegin,
         MainRead, MainFed, MainFlush, MainFlushed, MainEnd, MainCleanup, ContinueOr, Cleanup
    <3> QED
      BY <3>1 DEF ConfAsAsked
  <2>3. CASE UNCHANGED <<main, argv, conf>>
    BY <2>3 DEF ConfAsAsked
  <2>4. Wait \/ UNCHANGED allVars => UNCHANGED <<main, argv, conf>>
    BY DEF Wait, allVars, mainVars, config
  <2> QED
    BY <2>1, <2>2, <2>3, <2>4 DEF MainNext
<1> QED
  BY <1>1, <1>2, PTL DEF MainSpec

=============================================================================
