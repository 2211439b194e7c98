------------------------------ MODULE GrowProofs ------------------------------
(***************************************************************************)
(* Theorems about Grow, of arrays and buffers of any items, sizes and      *)
(* widths that GrowAssumption allows: no size wraps around, every copy     *)
(* stays within the memory, and what was stored is kept.                   *)
(***************************************************************************)
EXTENDS Grow, TLAPS

-----------------------------------------------------------------------------
(* Lemmas about sizes and about sequences.                                 *)

(* The product of a size and a smaller one is smaller.                     *)
LEMMA ProductBelow ==
  ASSUME NEW s \in Nat, NEW m \in Nat, NEW n \in 0 .. m
  PROVE  s * n <= s * m
<1>1. PICK d \in Nat : m = n + d
  <2>1. m - n \in Nat /\ m = n + (m - n)
    OBVIOUS
  <2> QED
    BY <2>1
<1>2. s * m = s * n + s * d
  BY <1>1
<1>3. s * d \in Nat /\ s * n \in Nat
  BY <1>1
<1> QED
  BY <1>2, <1>3

(* No size that an array comes to have wraps around: neither its double's  *)
(* number of items, nor the number of its bytes.                           *)
LEMMA SizesFit ==
  ASSUME TypeOK, NEW n \in Nat, Doubled(n)
  PROVE  n % Modulus = n /\ Room(n) = n /\ (n < MaxLen => (n * 2) % Modulus = n * 2)
<1>1. item_size \in Nat \ {0} /\ MaxLen \in Nat /\ init_alloc_len \in Nat \ {0}
  BY GrowAssumption DEF TypeOK
<1>2. Modulus \in Int
  BY GrowAssumption DEF Modulus
<1>3. item_size * 2 * MaxLen < Modulus /\ item_size * init_alloc_len < Modulus
  BY GrowAssumption DEF TypeOK
<1> HIDE DEF Modulus
<1>4. item_size * (2 * MaxLen) = item_size * 2 * MaxLen
  BY <1>1
<1>5. item_size * n < Modulus
  <2>1. CASE n = init_alloc_len
    BY <2>1, <1>3
  <2>2. CASE n < 2 * MaxLen
    <3>1. item_size * n <= item_size * (2 * MaxLen)
      BY <1>1, <2>2, ProductBelow
    <3>2. item_size * n \in Nat /\ item_size * (2 * MaxLen) \in Nat
      BY <1>1
    <3> QED
      BY <3>1, <3>2, <1>2, <1>3, <1>4
  <2> QED
    BY <2>1, <2>2 DEF Doubled
<1>6. item_size * n \in Nat
  BY <1>1
<1>7. n <= item_size * n
  <2>1. n * 1 <= n * item_size
    BY <1>1, ProductBelow
  <2> QED
    BY <2>1, <1>1
<1>8. (item_size * n) % Modulus = item_size * n
  BY <1>2, <1>5, <1>6
<1>9. (item_size * n) \div item_size = n
  BY <1>1
<1>10. n % Modulus = n
  BY <1>2, <1>5, <1>6, <1>7
<1>11. ASSUME n < MaxLen PROVE (n * 2) % Modulus = n * 2
  <2>1. 2 * MaxLen <= item_size * (2 * MaxLen)
    <3>1. (2 * MaxLen) * 1 <= (2 * MaxLen) * item_size
      BY <1>1, ProductBelow
    <3> QED
      BY <3>1, <1>1
  <2>2. item_size * (2 * MaxLen) \in Nat
    BY <1>1
  <2>3. n * 2 \in Nat /\ n * 2 < 2 * MaxLen
    BY <1>1, <1>11
  <2>4. n * 2 < Modulus
    BY <1>1, <1>2, <1>3, <1>4, <2>1, <2>2, <2>3
  <2> QED
    BY <1>2, <2>3, <2>4
<1> QED
  BY <1>8, <1>9, <1>10, <1>11 DEF Room

(* What a call needs is not reduced.                                       *)
LEMMA NeedFits ==
  ASSUME TypeOK, NEW index \in Nat, NEW items \in Seq(Items), NEW ended \in BOOLEAN,
         index + Len(items) + (IF ended THEN 1 ELSE 0) <= MaxLen
  PROVE  /\ EndLen(index, items) = index + Len(items)
         /\ Needed(index, items, ended) = index + Len(items) + IF ended THEN 1 ELSE 0
<1> DEFINE e == index + Len(items)
           n == e + IF ended THEN 1 ELSE 0
<1>1. item_size \in Nat \ {0} /\ MaxLen \in Nat
  BY GrowAssumption DEF TypeOK
<1>2. Modulus \in Int /\ item_size * 2 * MaxLen < Modulus
  BY GrowAssumption DEF TypeOK, Modulus
<1> HIDE DEF Modulus
<1>3. e \in Nat /\ n \in Nat /\ e <= n /\ n <= MaxLen
  OBVIOUS
<1>4. (2 * MaxLen) * 1 <= (2 * MaxLen) * item_size
  BY <1>1, ProductBelow
<1>5. (2 * MaxLen) * item_size = item_size * 2 * MaxLen
  BY <1>1
<1>6. (2 * MaxLen) * item_size \in Nat
  BY <1>1
<1>7. n < Modulus \/ MaxLen = 0
  BY <1>1, <1>2, <1>3, <1>4, <1>5, <1>6
<1>8. 0 < Modulus \/ MaxLen # 0
  BY <1>1, <1>2, <1>5, <1>6
<1>9. n < Modulus
  BY <1>1, <1>2, <1>3, <1>7, <1>8
<1>10. n % Modulus = n /\ e % Modulus = e
  BY <1>2, <1>3, <1>9
<1> QED
  BY <1>10 DEF Needed, EndLen

(* A sequence that is overwritten without a gap.                           *)
LEMMA OverwrittenSeq ==
  ASSUME NEW S, NEW s \in Seq(S), NEW items \in Seq(S), NEW index \in 0 .. Len(s)
  PROVE  LET e == index + Len(items)
             r == Overwritten(s, index, items)
         IN  /\ r \in Seq(S)
             /\ Len(r) = IF e > Len(s) THEN e ELSE Len(s)
             /\ \A k \in 1 .. Len(r) :
                  r[k] = IF k \in index + 1 .. e THEN items[k - index] ELSE s[k]
<1> DEFINE e == index + Len(items)
           n == IF e > Len(s) THEN e ELSE Len(s)
           f == [k \in 1 .. n |-> IF k \in index + 1 .. e THEN items[k - index] ELSE s[k]]
<1>1. n \in Nat
  OBVIOUS
<1>2. ASSUME NEW k \in 1 .. n
      PROVE  (IF k \in index + 1 .. e THEN items[k - index] ELSE s[k]) \in S
  <2>1. CASE k \in index + 1 .. e
    <3>1. k - index \in 1 .. Len(items)
      BY <2>1
    <3> QED
      BY <2>1, <3>1
  <2>2. CASE k \notin index + 1 .. e
    <3>1. k \in 1 .. Len(s)
      BY <2>2, <1>2
    <3> QED
      BY <2>2, <3>1
  <2> QED
    BY <2>1, <2>2
<1>3. f \in Seq(S) /\ Len(f) = n
  BY <1>1, <1>2
<1> QED
  BY <1>3 DEF Overwritten

-----------------------------------------------------------------------------
(* The inductive invariant.                                                *)

LEMMA InitGrow == Init => GrowInv
<1> SUFFICES ASSUME Init PROVE GrowInv
  OBVIOUS
<1>1. TypeOK
  BY GrowAssumption DEF Init, TypeOK, NoCall, Cells
<1>2. SizesOK /\ CallOK /\ StoredOK
  BY DEF Init, SizesOK, CallOK, StoredOK
<1> QED
  BY <1>1, <1>2 DEF GrowInv

(* A call begins that leaves no gap.                                       *)
LEMMA BeginGrow ==
  ASSUME GrowInv, NEW index \in 0 .. valid_len, NEW items \in Some, NEW ended \in BOOLEAN,
         ended => index = valid_len /\ item_size = 1, Begin(index, items, ended)
  PROVE  GrowInv'
<1> USE DEF GrowInv
<1> DEFINE needed == index + Len(items) + IF ended THEN 1 ELSE 0
<1>1. MaxLen \in Nat /\ init_alloc_len \in Nat \ {0}
  BY GrowAssumption DEF TypeOK
<1>2. items \in Seq(Items) /\ Len(items) \in Nat
  <2>1. PICK n \in 0 .. MaxLen : items \in [1 .. n -> Items]
    BY DEF Some
  <2> QED
    BY <2>1, <1>1
<1>3. index \in Nat /\ valid_len \in 0 .. MaxLen
  BY <1>1 DEF TypeOK
<1>4. needed \in Nat /\ needed <= MaxLen
  BY <1>2, <1>3 DEF Begin
<1>5. /\ Needed(index, items, ended) = needed
      /\ EndLen(index, items) = index + Len(items)
  BY <1>2, <1>3, <1>4, NeedFits
<1>6. /\ call' = [index |-> index, items |-> items, ended |-> ended]
      /\ UNCHANGED <<item_size, init_alloc_len, valid_len, alloc_len, mem, stored>>
  BY DEF Begin
<1>7. call'.index = index /\ call'.items = items /\ call'.ended = ended
  BY <1>6
<1> HIDE DEF needed
<1> DEFINE grow == /\ item_size = 1 \/ index + Len(items) > valid_len
                   /\ needed > alloc_len
<1>8. CASE grow
  <2>1. pc' = "grow" /\ new_len' = FirstLen
    BY <1>5, <1>8 DEF Begin, Exceeds
  <2>2. FirstLen \in Nat /\ Doubled(FirstLen)
    <3>1. CASE alloc_len = 0
      BY <3>1, <1>1 DEF FirstLen, Doubled
    <3>2. CASE alloc_len # 0
      <4>1. alloc_len \in Nat /\ Doubled(alloc_len) /\ alloc_len < MaxLen
        BY <3>2, <1>1, <1>4, <1>8 DEF TypeOK, SizesOK
      <4>2. (alloc_len * 2) % Modulus = alloc_len * 2
        BY <4>1, SizesFit
      <4> QED
        BY <3>2, <4>1, <4>2, <1>1 DEF FirstLen, Doubled
    <3> QED
      BY <3>1, <3>2
  <2>3. TypeOK'
    BY <2>1, <2>2, <1>2, <1>3, <1>6 DEF TypeOK
  <2>4. SizesOK' /\ StoredOK'
    BY <1>6 DEF SizesOK, StoredOK, Doubled
  <2>5. Doubled(new_len)'
    BY <2>1, <2>2, <1>6 DEF Doubled
  <2>6. CallOK'
    BY <2>1, <2>5, <1>3, <1>4, <1>6, <1>7, <1>8 DEF CallOK, needed
  <2> QED
    BY <2>3, <2>4, <2>6
<1>9. CASE ~grow
  <2>1. pc' = "copy" /\ new_len' = new_len
    BY <1>5, <1>9 DEF Begin, Exceeds
  <2>2. TypeOK'
    BY <2>1, <1>2, <1>3, <1>6 DEF TypeOK
  <2>3. SizesOK' /\ StoredOK'
    BY <1>6 DEF SizesOK, StoredOK, Doubled
  <2>4. alloc_len \in Nat /\ valid_len <= alloc_len
    BY DEF TypeOK, SizesOK
  <2>5. needed <= alloc_len
    <3>1. CASE ended
      BY <2>4, <3>1, <1>4, <1>9
    <3>2. CASE ~ended
      BY <2>4, <3>2, <1>2, <1>3, <1>9 DEF needed
    <3> QED
      BY <3>1, <3>2
  <2>6. CallOK'
    BY <2>1, <2>4, <2>5, <1>3, <1>4, <1>6, <1>7 DEF CallOK, needed
  <2> QED
    BY <2>2, <2>3, <2>6
<1> QED
  BY <1>8, <1>9

(* What accomodate knows of the call it is in.                             *)
LEMMA Growing ==
  ASSUME GrowInv, pc = "grow"
  PROVE  LET needed == call.index + Len(call.items) + IF call.ended THEN 1 ELSE 0
         IN  /\ needed \in Nat /\ needed <= MaxLen /\ alloc_len < needed
             /\ Needed(call.index, call.items, call.ended) = needed
             /\ new_len \in Nat /\ Doubled(new_len)
<1> DEFINE needed == call.index + Len(call.items) + IF call.ended THEN 1 ELSE 0
<1>1. call.index \in Nat /\ call.items \in Seq(Items) /\ call.ended \in BOOLEAN
  BY DEF GrowInv, TypeOK
<1>2. needed \in Nat
  BY <1>1
<1>3. needed <= MaxLen /\ alloc_len < needed /\ Doubled(new_len)
  BY DEF GrowInv, CallOK
<1>4. Needed(call.index, call.items, call.ended) = needed
  BY <1>1, <1>3, NeedFits DEF GrowInv
<1> QED
  BY <1>2, <1>3, <1>4 DEF GrowInv, TypeOK

LEMMA DoubleGrow ==
  ASSUME GrowInv, Double
  PROVE  GrowInv'
<1> USE DEF GrowInv
<1>1. pc = "grow"
  BY DEF Double
<1> DEFINE needed == call.index + Len(call.items) + IF call.ended THEN 1 ELSE 0
<1>2. /\ needed \in Nat /\ needed <= MaxLen
      /\ Needed(call.index, call.items, call.ended) = needed
      /\ new_len \in Nat /\ Doubled(new_len)
  BY <1>1, Growing
<1> HIDE DEF needed
<1>3. MaxLen \in Nat /\ init_alloc_len \in Nat
  BY GrowAssumption DEF TypeOK
<1>4. new_len < MaxLen
  BY <1>2, <1>3 DEF Double
<1>5. new_len' = new_len * 2
  BY <1>2, <1>4, SizesFit DEF Double
<1>6. UNCHANGED <<pc, item_size, init_alloc_len, valid_len, alloc_len, mem, call, stored>>
  BY DEF Double
<1>7. Doubled(new_len)' /\ new_len' \in Nat
  BY <1>2, <1>3, <1>4, <1>5, <1>6 DEF Doubled
<1>8. TypeOK'
  BY <1>6, <1>7 DEF TypeOK
<1>9. SizesOK' /\ StoredOK'
  BY <1>6 DEF SizesOK, StoredOK, Doubled
<1>10. CallOK'
  BY <1>1, <1>6, <1>7 DEF CallOK
<1> QED
  BY <1>8, <1>9, <1>10

(* What there is moves along, because there is room for more than that.    *)
LEMMA ReallocateGrow ==
  ASSUME GrowInv, Reallocate
  PROVE  GrowInv'
<1> USE DEF GrowInv
<1>1. pc = "grow"
  BY DEF Reallocate, Enough
<1> DEFINE needed == call.index + Len(call.items) + IF call.ended THEN 1 ELSE 0
<1>2. /\ needed \in Nat /\ needed <= MaxLen /\ alloc_len < needed
      /\ Needed(call.index, call.items, call.ended) = needed
      /\ new_len \in Nat /\ Doubled(new_len)
  BY <1>1, Growing
<1> HIDE DEF needed
<1>3. needed <= new_len
  BY <1>2 DEF Reallocate, Enough
<1>4. Room(new_len) = new_len
  BY <1>2, SizesFit
<1>5. /\ pc' = "copy" /\ mem' = Resized(new_len) /\ alloc_len' = new_len
      /\ UNCHANGED <<item_size, init_alloc_len, valid_len, call, new_len, stored>>
  BY <1>4 DEF Reallocate
<1>6. /\ mem \in Seq(Cells) /\ Len(mem) = alloc_len /\ alloc_len \in Nat
      /\ valid_len \in Nat /\ valid_len <= alloc_len
  BY GrowAssumption DEF TypeOK, SizesOK
<1>7. /\ Len(mem') = new_len /\ mem' \in Seq(Cells)
      /\ \A k \in 1 .. alloc_len : mem'[k] = mem[k]
  <2> DEFINE r == Resized(new_len)
  <2>1. \A k \in 1 .. new_len : (IF k <= Len(mem) THEN mem[k] ELSE Garbage) \in Cells
    <3> SUFFICES ASSUME NEW k \in 1 .. new_len
                 PROVE  (IF k <= Len(mem) THEN mem[k] ELSE Garbage) \in Cells
      OBVIOUS
    <3>1. CASE k <= Len(mem)
      <4>1. k \in 1 .. Len(mem)
        BY <3>1, <1>6
      <4> QED
        BY <3>1, <4>1, <1>6
    <3>2. CASE ~(k <= Len(mem))
      BY <3>2 DEF Cells
    <3> QED
      BY <3>1, <3>2
  <2>2. r \in Seq(Cells) /\ Len(r) = new_len
    BY <2>1, <1>2 DEF Resized
  <2>3. \A k \in 1 .. alloc_len : r[k] = mem[k]
    BY <1>2, <1>3, <1>6 DEF Resized
  <2> HIDE DEF r
  <2>4. mem' = r
    BY <1>5 DEF r
  <2> QED
    BY <2>2, <2>3, <2>4
<1>8. TypeOK'
  BY <1>2, <1>5, <1>7 DEF TypeOK
<1>9. SizesOK'
  BY <1>2, <1>3, <1>5, <1>6, <1>7, GrowAssumption DEF SizesOK, Doubled, TypeOK
<1>10. StoredOK'
  BY <1>5, <1>6, <1>7 DEF StoredOK
<1>11. CallOK'
  BY <1>1, <1>2, <1>3, <1>5 DEF CallOK, needed
<1> QED
  BY <1>8, <1>9, <1>10, <1>11

LEMMA NoMemoryGrow ==
  ASSUME GrowInv, NoMemory
  PROVE  GrowInv'
<1> USE DEF GrowInv
<1>1. /\ pc' = "idle" /\ call' = NoCall /\ new_len' = 0
      /\ UNCHANGED <<item_size, init_alloc_len, valid_len, alloc_len, mem, stored>>
  BY DEF NoMemory
<1>2. TypeOK'
  BY <1>1 DEF TypeOK, NoCall
<1>3. SizesOK' /\ StoredOK' /\ CallOK'
  BY <1>1 DEF SizesOK, StoredOK, CallOK, Doubled
<1> QED
  BY <1>2, <1>3

(* What is copied, with the terminator, stays within the memory.           *)
LEMMA CopyWithin ==
  ASSUME GrowInv, pc = "copy"
  PROVE  /\ Copied \in Seq(Cells)
         /\ Len(Copied) = Len(call.items) + IF call.ended THEN 1 ELSE 0
         /\ \A k \in 1 .. Len(call.items) : Copied[k] = call.items[k]
         /\ call.index + Len(Copied) <= Len(mem)
<1>1. call.index \in Nat /\ call.items \in Seq(Items) /\ call.ended \in BOOLEAN
  BY DEF GrowInv, TypeOK
<1>2. call.items \in Seq(Cells)
  BY <1>1 DEF Cells
<1>3. Garbage \in Cells
  BY DEF Cells
<1>4. call.index + Len(call.items) + (IF call.ended THEN 1 ELSE 0) <= Len(mem)
  BY DEF GrowInv, CallOK, SizesOK
<1>5. CASE call.ended
  <2> DEFINE items == call.items
             c == Append(items, Garbage)
  <2>1. items \in Seq(Cells)
    BY <1>2
  <2> HIDE DEF items
  <2>2. /\ c \in Seq(Cells) /\ Len(c) = Len(items) + 1
        /\ \A k \in 1 .. Len(items) : c[k] = items[k]
    BY <2>1, <1>3
  <2>3. Copied = c
    BY <1>5 DEF Copied, items
  <2>4. call.index + Len(items) + 1 <= Len(mem) /\ Len(items) \in Nat
    BY <1>4, <1>5, <2>1 DEF items
  <2> HIDE DEF c
  <2>5. call.index + Len(c) <= Len(mem)
    BY <2>2, <2>4, <1>1
  <2> QED
    BY <2>2, <2>3, <2>5, <1>5 DEF items
<1>6. CASE ~call.ended
  <2>1. Copied = call.items /\ Len(call.items) \in Nat
    BY <1>1, <1>6 DEF Copied
  <2>2. Len(Copied) = Len(call.items) + IF call.ended THEN 1 ELSE 0
    BY <1>6, <2>1
  <2>3. call.index + Len(Copied) <= Len(mem)
    BY <1>1, <1>4, <1>6, <2>1
  <2> QED
    BY <1>2, <2>1, <2>2, <2>3
<1> QED
  BY <1>5, <1>6

LEMMA CopyGrow ==
  ASSUME GrowInv, Copy
  PROVE  GrowInv'
<1> USE DEF GrowInv
<1> DEFINE i == call.index
           items == call.items
           copied == Copied
           n == Len(items)
           m == Len(copied)
           e == i + n
           v == IF e > valid_len THEN e ELSE valid_len
<1>1. pc = "copy"
  BY DEF Copy
<1>2. /\ pc' = "idle" /\ mem' = Overwritten(mem, i, copied) /\ valid_len' = v
      /\ stored' = Overwritten(stored, i, items)
      /\ call' = NoCall /\ new_len' = 0
      /\ UNCHANGED <<item_size, init_alloc_len, alloc_len>>
  BY DEF Copy
<1>3. /\ i \in Nat /\ items \in Seq(Items) /\ n \in Nat
      /\ MaxLen \in Nat /\ valid_len \in 0 .. MaxLen /\ alloc_len \in Nat
      /\ mem \in Seq(Cells) /\ stored \in Seq(Items)
  BY GrowAssumption DEF TypeOK
<1>4. /\ i <= valid_len /\ (call.ended => i = valid_len)
      /\ valid_len <= alloc_len /\ Len(mem) = alloc_len /\ Len(stored) = valid_len
      /\ \A k \in 1 .. valid_len : mem[k] = stored[k]
  BY <1>1, <1>3 DEF CallOK, SizesOK, StoredOK
<1>5. e <= MaxLen
  <2>1. e + (IF call.ended THEN 1 ELSE 0) <= MaxLen
    BY <1>1 DEF CallOK
  <2> QED
    BY <2>1, <1>3
<1>6. /\ copied \in Seq(Cells) /\ m \in Nat
      /\ m = n + IF call.ended THEN 1 ELSE 0
      /\ \A k \in 1 .. n : copied[k] = items[k]
      /\ i + m <= Len(mem)
  <2>1. copied \in Seq(Cells)
    BY <1>1, CopyWithin
  <2>2. m = n + (IF call.ended THEN 1 ELSE 0) /\ (\A k \in 1 .. n : copied[k] = items[k]) /\ i + m <= Len(mem)
    BY <1>1, CopyWithin
  <2> HIDE DEF copied
  <2>3. m \in Nat
    BY <2>1
  <2> QED
    BY <2>1, <2>2, <2>3
<1> HIDE DEF i, items, copied
<1>7. n <= m /\ (m # n => i = valid_len)
  BY <1>3, <1>4, <1>6
<1> HIDE DEF n, m
<1>8. v \in 0 .. MaxLen /\ v <= alloc_len /\ e <= v /\ valid_len <= v
  BY <1>3, <1>4, <1>5, <1>6, <1>7
<1>9. /\ mem' \in Seq(Cells) /\ Len(mem') = Len(mem)
      /\ \A k \in 1 .. Len(mem) :
           mem'[k] = IF k \in i + 1 .. i + m THEN copied[k - i] ELSE mem[k]
  <2>1. i \in 0 .. Len(mem)
    BY <1>3, <1>4
  <2>2. ~(i + m > Len(mem))
    BY <1>3, <1>4, <1>6
  <2> QED
    BY <2>1, <2>2, <1>2, <1>3, <1>6, OverwrittenSeq DEF m
<1>10. /\ stored' \in Seq(Items) /\ Len(stored') = v
       /\ \A k \in 1 .. v :
            stored'[k] = IF k \in i + 1 .. e THEN items[k - i] ELSE stored[k]
  <2>1. i \in 0 .. Len(stored)
    BY <1>3, <1>4
  <2> QED
    BY <2>1, <1>2, <1>3, <1>4, OverwrittenSeq DEF n
<1>11. ASSUME NEW k \in 1 .. v
       PROVE  mem'[k] = stored'[k]
  <2>1. k \in 1 .. Len(mem)
    BY <1>8, <1>4, <1>3
  <2>2. CASE k \in i + 1 .. e
    <3>1. k - i \in 1 .. n /\ k \in i + 1 .. i + m
      BY <2>2, <1>3, <1>6, <1>7
    <3> QED
      BY <2>1, <2>2, <3>1, <1>6, <1>9, <1>10
  <2>3. CASE k \notin i + 1 .. e
    <3>1. k \in 1 .. valid_len
      BY <2>3, <1>3, <1>4, <1>8, <1>11
    <3>2. k \notin i + 1 .. i + m
      BY <3>1, <2>3, <1>3, <1>4, <1>6, <1>7
    <3> QED
      BY <2>1, <2>3, <3>1, <3>2, <1>4, <1>9, <1>10
  <2> QED
    BY <2>2, <2>3
<1>12. TypeOK'
  BY <1>2, <1>8, <1>9, <1>10 DEF TypeOK, NoCall
<1>13. SizesOK'
  BY <1>2, <1>4, <1>8, <1>9 DEF SizesOK, Doubled
<1>14. StoredOK'
  BY <1>2, <1>10, <1>11 DEF StoredOK
<1>15. CallOK'
  BY <1>2 DEF CallOK
<1> QED
  BY <1>12, <1>13, <1>14, <1>15

LEMMA EmptyGrow ==
  ASSUME GrowInv, Empty \/ Cleanup
  PROVE  GrowInv'
<1> USE DEF GrowInv
<1>1. MaxLen \in Nat
  BY GrowAssumption
<1>2. CASE Empty
  <2>1. TypeOK'
    BY <1>1, <1>2 DEF TypeOK, Empty
  <2>2. SizesOK' /\ CallOK' /\ StoredOK'
    BY <1>1, <1>2 DEF SizesOK, CallOK, StoredOK, Empty, Doubled, TypeOK
  <2> QED
    BY <2>1, <2>2
<1>3. CASE Cleanup
  <2>1. TypeOK'
    BY <1>1, <1>3 DEF TypeOK, Cleanup
  <2>2. SizesOK' /\ CallOK' /\ StoredOK'
    BY <1>1, <1>3 DEF SizesOK, CallOK, StoredOK, Cleanup
  <2> QED
    BY <2>1, <2>2
<1> QED
  BY <1>2, <1>3

LEMMA NextGrow ==
  ASSUME GrowInv, [Next]_vars
  PROVE  GrowInv'
<1>1. valid_len \in 0 .. valid_len
  <2>1. valid_len \in Nat
    BY GrowAssumption DEF GrowInv, TypeOK
  <2> QED
    BY <2>1
<1>2. CASE Set
  <2>1. PICK index \in 0 .. valid_len, items \in Some : Begin(index, items, FALSE)
    BY <1>2 DEF Set
  <2> QED
    BY <2>1, BeginGrow
<1>3. CASE Add \/ AddBuf
  <2>1. PICK items \in Some : Begin(valid_len, items, FALSE)
    BY <1>3 DEF Add, AddBuf
  <2> QED
    BY <2>1, <1>1, BeginGrow
<1>4. CASE AddFmt
  <2>1. item_size = 1
    BY <1>4 DEF AddFmt
  <2>2. PICK items \in Some : Begin(valid_len, items, TRUE)
    BY <1>4 DEF AddFmt
  <2> QED
    BY <2>1, <2>2, <1>1, BeginGrow
<1>5. CASE Loop
  BY <1>5, DoubleGrow, ReallocateGrow, NoMemoryGrow, CopyGrow DEF Loop
<1>6. CASE Empty \/ Cleanup
  BY <1>6, EmptyGrow
<1>7. CASE UNCHANGED vars
  BY <1>7 DEF vars, GrowInv, TypeOK, SizesOK, CallOK, StoredOK, Doubled
<1> QED
  BY <1>2, <1>3, <1>4, <1>5, <1>6, <1>7 DEF Next

(* The invariant of growing arrays and buffers: every size is a doubled    *)
(* one that fits a size_t, a call leaves no gap and asks for memory only   *)
(* if it needs more, and the memory begins with what was stored.           *)
THEOREM GrowInvariant == Spec => []GrowInv
<1>1. Init => GrowInv
  BY InitGrow
<1>2. GrowInv /\ [Next]_vars => GrowInv'
  BY NextGrow
<1> QED
  BY <1>1, <1>2, PTL DEF Spec

-----------------------------------------------------------------------------
(* What the runs check, for all arrays and buffers.                        *)

(* The assertions of lib/garr.c and lib/gbuf.c hold whenever they are      *)
(* evaluated, and no copy goes beyond the memory that was allocated: the   *)
(* multiplications of the sizes have not wrapped around.                   *)
THEOREM SizesValid == Spec => []IsValid
<1>1. ASSUME GrowInv PROVE IsValid
  <2>1. item_size # 0 /\ init_alloc_len # 0
    BY <1>1, GrowAssumption DEF GrowInv, TypeOK
  <2>2. alloc_len = 0 \/ (mem # <<>> /\ alloc_len >= init_alloc_len)
    <3> SUFFICES ASSUME alloc_len # 0
                 PROVE  mem # <<>> /\ alloc_len >= init_alloc_len
      OBVIOUS
    <3>1. init_alloc_len \in Nat /\ alloc_len \in Nat
      BY <1>1, GrowAssumption DEF GrowInv, TypeOK
    <3>2. Len(mem) # 0 /\ init_alloc_len <= alloc_len
      BY <1>1 DEF GrowInv, SizesOK, Doubled
    <3> QED
      BY <3>1, <3>2
  <2>3. valid_len <= alloc_len /\ Len(mem) = alloc_len
    BY <1>1 DEF GrowInv, SizesOK
  <2>4. pc = "copy" => call.index + Len(Copied) <= Len(mem)
    BY <1>1, CopyWithin
  <2> QED
    BY <2>1, <2>2, <2>3, <2>4 DEF IsValid
<1> QED
  BY <1>1, GrowInvariant, PTL

(* What calls have stored is in the memory, in its place, whatever the     *)
(* array has grown, moved or failed to grow since.                         *)
THEOREM NothingOverwritten == Spec => []ItemsKept
<1>1. ASSUME GrowInv PROVE ItemsKept
  <2>1. /\ mem \in Seq(Cells) /\ stored \in Seq(Items)
        /\ valid_len \in Nat /\ valid_len <= Len(mem) /\ Len(stored) = valid_len
        /\ \A k \in 1 .. valid_len : mem[k] = stored[k]
    BY <1>1, GrowAssumption DEF GrowInv, TypeOK, SizesOK, StoredOK
  <2> DEFINE s == SubSeq(mem, 1, valid_len)
  <2>2. /\ s \in Seq(Cells) /\ Len(s) = valid_len
        /\ \A k \in 1 .. valid_len : s[k] = mem[k]
    BY <2>1
  <2>3. stored \in Seq(Cells)
    BY <2>1 DEF Cells
  <2> HIDE DEF s
  <2>4. s = stored
    BY <2>1, <2>2, <2>3
  <2> QED
    BY <2>4 DEF s, ItemsKept
<1> QED
  BY <1>1, GrowInvariant, PTL

(* A call that sets items where there are some already never asks for      *)
(* memory, so that it has none to be refused: lib/gbtree.c relies on that. *)
THEOREM InPlaceNeverFails == Spec => InPlaceSucceeds
<1>1. ASSUME GrowInv, NoMemory
      PROVE  call.index + Len(call.items) > valid_len \/ call.ended
  <2>1. pc = "grow"
    BY <1>1 DEF NoMemory, Enough
  <2>2. /\ call.index \in Nat /\ call.items \in Seq(Items) /\ call.ended \in BOOLEAN
        /\ valid_len \in Nat /\ alloc_len \in Nat /\ valid_len <= alloc_len
    BY <1>1, GrowAssumption DEF GrowInv, TypeOK, SizesOK
  <2>3. alloc_len < call.index + Len(call.items) + IF call.ended THEN 1 ELSE 0
    BY <1>1, <2>1, Growing
  <2> QED
    BY <2>2, <2>3
<1>2. GrowInv /\ [Next]_vars =>
        [NoMemory => call.index + Len(call.items) > valid_len \/ call.ended]_vars
  BY <1>1
<1> QED
  BY <1>2, GrowInvariant, PTL DEF Spec, InPlaceSucceeds

=============================================================================
