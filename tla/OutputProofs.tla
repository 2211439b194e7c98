---------------------------- MODULE OutputProofs ----------------------------
(***************************************************************************)
(* Proofs about the outputs, for pieces of any lengths and any behaviour   *)
(* of write(2).                                                            *)
(***************************************************************************)
EXTENDS Output, SequenceTheorems, TLAPS

(* The bytes after byte n.                                                 *)
LEMMA BytesType ==
  ASSUME NEW n \in Nat, NEW k \in Nat
  PROVE  /\ Bytes(n, k) \in Seq(Nat)
         /\ Len(Bytes(n, k)) = k
         /\ \A i \in 1 .. k : Bytes(n, k)[i] = n + i
<1>1. \A i \in 1 .. k : n + i \in Nat
  OBVIOUS
<1> QED
  BY <1>1 DEF Bytes

(* A sequence extended by bytes, taken apart again.                        *)
LEMMA Extended ==
  ASSUME NEW s \in Seq(Nat), NEW n \in Nat, NEW k \in Nat
  PROVE  /\ s \o Bytes(n, k) \in Seq(Nat)
         /\ Len(s \o Bytes(n, k)) = Len(s) + k
         /\ \A i \in 1 .. Len(s) : (s \o Bytes(n, k))[i] = s[i]
         /\ \A i \in Len(s) + 1 .. Len(s) + k : (s \o Bytes(n, k))[i] = n + i - Len(s)
<1> DEFINE b == Bytes(n, k)
<1>1. b \in Seq(Nat) /\ Len(b) = k /\ \A i \in 1 .. k : b[i] = n + i
  BY BytesType
<1>2. Len(s) \in Nat
  OBVIOUS
<1> HIDE DEF b
<1>3. /\ s \o b \in Seq(Nat)
      /\ Len(s \o b) = Len(s) + k
      /\ \A i \in 1 .. Len(s) : (s \o b)[i] = s[i]
  BY <1>1, <1>2
<1>4. \A i \in Len(s) + 1 .. Len(s) + k : (s \o b)[i] = b[i - Len(s)]
  BY <1>1, <1>2
<1>5. \A i \in Len(s) + 1 .. Len(s) + k : b[i - Len(s)] = n + i - Len(s)
  BY <1>1, <1>2
<1> QED
  BY <1>3, <1>4, <1>5 DEF b

-----------------------------------------------------------------------------

(* The invariant that holds between the loop's pointers and the file.      *)
OutInv == OutTypeOK /\ LoopOK /\ NoByteTwice

LEMMA OutInitInv == OutInit => OutInv
BY DEF OutInit, OutInv, OutTypeOK, LoopOK, NoByteTwice

(* write(2) takes a part of the bytes that are left, or all of them.       *)
LEMMA TakeInv ==
  ASSUME OutInv, NEW k \in Nat, Take(k)
  PROVE  OutInv'
<1>0. PICK n \in Nat : n = Len(file)
  BY DEF OutInv, OutTypeOK
<1>1. given \in Nat /\ ptr \in Nat /\ len \in Nat /\ start \in Nat /\ k <= len
  BY DEF OutInv, OutTypeOK, Take
<1>2. /\ file' \in Seq(Nat) /\ Len(file') = n + k
      /\ \A i \in 1 .. n : file'[i] = file[i]
      /\ \A i \in n + 1 .. n + k : file'[i] = ptr + i - n
  <2>1. file \in Seq(Nat)
    BY DEF OutInv, OutTypeOK
  <2>2. file' = file \o Bytes(ptr, k)
    BY DEF Take
  <2>3. /\ file \o Bytes(ptr, k) \in Seq(Nat)
        /\ Len(file \o Bytes(ptr, k)) = Len(file) + k
        /\ \A i \in 1 .. Len(file) : (file \o Bytes(ptr, k))[i] = file[i]
        /\ \A i \in Len(file) + 1 .. Len(file) + k :
             (file \o Bytes(ptr, k))[i] = ptr + i - Len(file)
    BY <1>1, <2>1, Extended
  <2> QED
    BY <1>0, <2>2, <2>3
<1>same. /\ pc = "writing"
      /\ type' = type /\ given' = given /\ start' = start
  BY DEF Take
<1>bytes. \A i \in 1 .. n : file[i] \in Nat
  BY <1>0 DEF OutInv, OutTypeOK
<1>3. /\ type = "fd" /\ ptr + len = given /\ given - start \in Lens
      /\ len = 0 => ptr = start
      /\ ptr - start \in 0 .. n
      /\ \A i \in 1 .. ptr - start : file[n - (ptr - start) + i] = start + i
  BY <1>0, <1>same DEF OutInv, LoopOK
<1>4. /\ \A i, j \in 1 .. n : i < j => file[i] < file[j]
      /\ \A i \in 1 .. n : file[i] <= ptr
  BY <1>0, <1>same DEF OutInv, NoByteTwice
<1>5. /\ k = len => pc' = "idle" /\ result' = "OK" /\ ptr' = ptr /\ len' = len
      /\ k # len => pc' = pc /\ ptr' = ptr + k /\ len' = len - k /\ result' = result
  BY DEF Take
<1>6. OutTypeOK'
  <2>1. pc' \in {"idle", "writing"} /\ result' \in {"OK", "OUTPUT_WRITE_FAILED", "INVALID_ARGS"}
    BY <1>5 DEF OutInv, OutTypeOK
  <2>2. ptr' \in Nat /\ len' \in Nat
    BY <1>1, <1>same, <1>5
  <2>3. type' \in {"fd", "syslog"} /\ given' \in Nat /\ start' \in Nat
    BY <1>1, <1>same, <1>3
  <2> QED
    BY <1>2, <2>1, <2>2, <2>3 DEF OutTypeOK
<1>7. LoopOK'
  <2> SUFFICES ASSUME pc' = "writing" PROVE LoopOK'
    BY DEF LoopOK
  <2>1. k # len /\ ptr' = ptr + k /\ len' = len - k
    BY <1>5
  <2>2. /\ type' = "fd" /\ ptr' + len' = given' /\ given' - start' \in Lens
        /\ len' = 0 => ptr' = start'
        /\ ptr' - start' \in 0 .. Len(file')
    BY <1>1, <1>2, <1>same, <1>3, <2>1
  <2>3. ASSUME NEW i \in 1 .. ptr' - start'
        PROVE  file'[Len(file') - (ptr' - start') + i] = start' + i
    <3>1. CASE i <= ptr - start
      <4>1. i \in 1 .. ptr - start
        BY <1>1, <1>same, <2>1, <3>1
      <4>2. n - (ptr - start) + i \in 1 .. n
        BY <1>1, <1>3, <4>1
      <4>3. Len(file') - (ptr' - start') + i = n - (ptr - start) + i
        BY <1>1, <1>2, <1>same, <2>1
      <4> QED
        BY <1>1, <1>2, <1>same, <1>3, <4>1, <4>2, <4>3
    <3>2. CASE i > ptr - start
      <4>1. n - (ptr - start) + i \in n + 1 .. n + k
        BY <1>1, <1>same, <1>3, <2>1, <3>2
      <4>2. Len(file') - (ptr' - start') + i = n - (ptr - start) + i
        BY <1>1, <1>2, <1>same, <2>1
      <4>3. file'[n - (ptr - start) + i] = ptr + (n - (ptr - start) + i) - n
        BY <1>2, <4>1
      <4> QED
        BY <1>1, <1>same, <4>2, <4>3
    <3> QED
      BY <1>1, <1>same, <2>1, <3>1, <3>2
  <2> QED
    BY <2>2, <2>3 DEF LoopOK
<1>8. NoByteTwice'
  <2>1. ASSUME NEW i \in 1 .. n + k, NEW j \in 1 .. n + k, i < j
        PROVE  file'[i] < file'[j]
    <3>1. CASE j <= n
      BY <1>1, <1>2, <1>bytes, <1>4, <2>1, <3>1
    <3>2. CASE i <= n /\ j > n
      <4>1. file'[i] <= ptr /\ file'[i] \in Nat
        <5>1. i \in 1 .. n
          BY <3>2
        <5>2. file'[i] = file[i] /\ file[i] \in Nat /\ file[i] <= ptr
          BY <1>2, <1>bytes, <1>4, <5>1
        <5> QED
          BY <5>2
      <4>2. file'[j] = ptr + j - n
        BY <1>1, <1>2, <3>2
      <4> QED
        BY <1>1, <3>2, <4>1, <4>2
    <3>3. CASE i > n
      BY <1>1, <1>2, <2>1, <3>3
    <3> QED
      BY <1>1, <2>1, <3>1, <3>2, <3>3
  <2>2. ASSUME NEW i \in 1 .. n + k
        PROVE  file'[i] <= ptr + k /\ file'[i] \in Nat
    <3>1. CASE i <= n
      <4>1. file'[i] = file[i] /\ file[i] \in Nat /\ file[i] <= ptr
        BY <1>2, <1>bytes, <1>4, <3>1
      <4> QED
        BY <1>1, <4>1
    <3>2. CASE i > n
      BY <1>1, <1>2, <3>2
    <3> QED
      BY <1>1, <3>1, <3>2
  <2>3. ptr + k <= IF pc' = "writing" THEN ptr' ELSE given'
    BY <1>1, <1>same, <1>3, <1>5
  <2>4. (IF pc' = "writing" THEN ptr' ELSE given') \in Nat
    BY <1>1, <1>same, <1>5
  <2>5. \A i \in 1 .. n + k : file'[i] <= IF pc' = "writing" THEN ptr' ELSE given'
    BY <1>1, <2>2, <2>3, <2>4
  <2> QED
    BY <1>2, <2>1, <2>5 DEF NoByteTwice
<1> QED
  BY <1>6, <1>7, <1>8 DEF OutInv

(* The invariant is inductive: the loop keeps it, whatever write(2) does.  *)
LEMMA OutNextInv == OutInv /\ [OutNext]_vars => OutInv'
<1> SUFFICES ASSUME OutInv, [OutNext]_vars PROVE OutInv'
  OBVIOUS
<1> USE DEF OutInv
<1>1. CASE FdWrite
  <2>1. PICK n \in Lens : Give(n) /\ len' = n
    BY <1>1 DEF FdWrite
  <2>2. /\ n \in Nat /\ given \in Nat /\ given' = given + n /\ pc = "idle"
        /\ pc' = "writing" /\ type' = "fd" /\ file' = file /\ result' = result
        /\ ptr' = given /\ start' = given /\ len' = n
    BY <1>1, <2>1, OutputAssumption DEF FdWrite, Give, OutTypeOK
  <2>3. OutTypeOK'
    BY <2>2 DEF OutTypeOK
  <2>4. LoopOK'
    BY <2>1, <2>2 DEF LoopOK, OutTypeOK
  <2>5. NoByteTwice'
    BY <2>2 DEF NoByteTwice
  <2> QED
    BY <2>3, <2>4, <2>5
<1>2. CASE TakeNone
  BY <1>2, TakeInv DEF TakeNone
<1>3. CASE TakeSome
  BY <1>3, TakeInv DEF TakeSome, OutTypeOK
<1>4. CASE Interrupted
  BY <1>4 DEF Interrupted, vars, loop, OutTypeOK, LoopOK, NoByteTwice
<1>5. CASE TakeFails
  <2>1. /\ pc = "writing" /\ pc' = "idle" /\ result' = "OUTPUT_WRITE_FAILED"
        /\ type' = type /\ given' = given /\ file' = file
        /\ ptr' = ptr /\ len' = len /\ start' = start
    BY <1>5 DEF TakeFails, loop
  <2>2. OutTypeOK' /\ LoopOK'
    BY <2>1 DEF OutTypeOK, LoopOK
  <2>3. \A i \in 1 .. Len(file) : file[i] <= given
    <3>1. ptr + len = given /\ \A i \in 1 .. Len(file) : file[i] <= ptr
      BY <2>1 DEF LoopOK, NoByteTwice
    <3>2. \A i \in 1 .. Len(file) : file[i] \in Nat
      BY DEF OutTypeOK
    <3> QED
      BY <3>1, <3>2 DEF OutTypeOK
  <2>4. NoByteTwice'
    BY <2>1, <2>3 DEF NoByteTwice
  <2> QED
    BY <2>2, <2>4
<1>6. CASE SyslogWrite
  <2>1. PICK n \in Lens :
          /\ Give(n)
          /\ IF n > IntMax
             THEN result' = "INVALID_ARGS" /\ UNCHANGED file
             ELSE result' = "OK" /\ file' = file \o Bytes(given, n)
    BY <1>6 DEF SyslogWrite
  <2>2. /\ n \in Nat /\ given \in Nat /\ given' = given + n /\ pc = "idle"
        /\ pc' = pc /\ type' = type
        /\ ptr' = ptr /\ start' = start /\ len' = len
    BY <1>6, <2>1, OutputAssumption DEF SyslogWrite, Give, loop, OutTypeOK
  <2>3. \A i \in 1 .. Len(file) : file[i] <= given /\ file[i] \in Nat
    BY <2>2 DEF NoByteTwice, OutTypeOK
  <2>4. /\ file' \in Seq(Nat)
        /\ \A i, j \in 1 .. Len(file') : i < j => file'[i] < file'[j]
        /\ \A i \in 1 .. Len(file') : file'[i] <= given'
    <3>1. CASE file' = file
      BY <2>2, <2>3, <3>1 DEF NoByteTwice, OutTypeOK
    <3>2. CASE file' = file \o Bytes(given, n)
      <4>0. PICK m \in Nat : m = Len(file)
        BY DEF OutTypeOK
      <4>1. /\ file' \in Seq(Nat) /\ Len(file') = m + n
            /\ \A i \in 1 .. m : file'[i] = file[i]
            /\ \A i \in m + 1 .. m + n : file'[i] = given + i - m
        <5>1. /\ file \o Bytes(given, n) \in Seq(Nat)
              /\ Len(file \o Bytes(given, n)) = Len(file) + n
              /\ \A i \in 1 .. Len(file) : (file \o Bytes(given, n))[i] = file[i]
              /\ \A i \in Len(file) + 1 .. Len(file) + n :
                   (file \o Bytes(given, n))[i] = given + i - Len(file)
          BY <2>2, Extended DEF OutTypeOK
        <5> QED
          BY <3>2, <4>0, <5>1
      <4>2. \A i, j \in 1 .. m : i < j => file[i] < file[j]
        BY <4>0 DEF NoByteTwice
      <4>3. ASSUME NEW i \in 1 .. m + n
            PROVE  /\ file'[i] <= given + n /\ file'[i] \in Nat
                   /\ i <= m => file'[i] = file[i] /\ file[i] <= given
                   /\ i > m => file'[i] = given + i - m
        <5>1. CASE i <= m
          <6>1. file'[i] = file[i] /\ file[i] \in Nat /\ file[i] <= given
            BY <2>3, <4>0, <4>1, <5>1
          <6> QED
            BY <2>2, <5>1, <6>1
        <5>2. CASE i > m
          BY <2>2, <4>1, <5>2
        <5> QED
          BY <5>1, <5>2
      <4>4. ASSUME NEW i \in 1 .. m + n, NEW j \in 1 .. m + n, i < j
            PROVE  file'[i] < file'[j]
        <5>1. CASE j <= m
          BY <4>1, <4>2, <4>4, <5>1
        <5>2. CASE j > m
          BY <2>2, <4>3, <4>4, <5>2
        <5> QED
          BY <5>1, <5>2
      <4> QED
        BY <2>2, <4>1, <4>3, <4>4
    <3> QED
      BY <2>1, <3>1, <3>2
  <2>5. NoByteTwice'
    BY <2>2, <2>4 DEF NoByteTwice
  <2>6. LoopOK'
    BY <2>2 DEF LoopOK
  <2>7. result' \in {"OK", "OUTPUT_WRITE_FAILED", "INVALID_ARGS"}
    BY <2>1
  <2>8. OutTypeOK'
    BY <2>2, <2>4, <2>7 DEF OutTypeOK
  <2> QED
    BY <2>5, <2>6, <2>8
<1>7. CASE UNCHANGED vars
  BY <1>7 DEF vars, loop, OutTypeOK, LoopOK, NoByteTwice
<1> QED
  BY <1>1, <1>2, <1>3, <1>4, <1>5, <1>6, <1>7 DEF OutNext

(* Whatever write(2) does, in whatever pieces, the FD output's loop writes *)
(* the bytes it was given in order and none of them twice                  *)
(* (aushape_fd_output_write).                                              *)
THEOREM OutputInvariant == OutSpec => [](OutTypeOK /\ LoopOK /\ NoByteTwice)
<1>1. OutInit => OutInv
  BY OutInitInv
<1>2. OutInv /\ [OutNext]_vars => OutInv'
  BY OutNextInv
<1>3. OutInv => OutTypeOK /\ LoopOK /\ NoByteTwice
  BY DEF OutInv
<1> QED
  BY <1>1, <1>2, <1>3, PTL DEF OutSpec

-----------------------------------------------------------------------------

(* A sequence that ends with bytes, taken apart and extended.              *)
LEMMA Completed ==
  ASSUME NEW s \in Seq(Nat), NEW d \in 0 .. Len(s), NEW n \in Nat, NEW k \in Nat,
         \A i \in 1 .. d : s[Len(s) - d + i] = n + i
  PROVE  s \o Bytes(n + d, k) = SubSeq(s, 1, Len(s) - d) \o Bytes(n, d + k)
<1>0. PICK m \in Nat, e \in Nat, c \in Nat : m = Len(s) - d /\ e = n + d /\ c = d + k
  OBVIOUS
<1> DEFINE a == SubSeq(s, 1, m)
           t == a \o Bytes(n, c)
           u == s \o Bytes(e, k)
<1>1. a \in Seq(Nat) /\ Len(a) = m /\ \A i \in 1 .. m : a[i] = s[i]
  <2>1. \A i \in 1 .. m : s[i] \in Nat
    BY <1>0
  <2> QED
    BY <2>1, SubSeqProperties
<1>2. /\ u \in Seq(Nat) /\ Len(u) = Len(s) + k
      /\ \A i \in 1 .. Len(s) : u[i] = s[i]
      /\ \A i \in Len(s) + 1 .. Len(s) + k : u[i] = e + i - Len(s)
  BY Extended
<1> HIDE DEF a
<1>3. /\ t \in Seq(Nat) /\ Len(t) = m + c
      /\ \A i \in 1 .. m : t[i] = s[i]
      /\ \A i \in m + 1 .. m + c : t[i] = n + i - m
  <2>1. /\ t \in Seq(Nat) /\ Len(t) = Len(a) + c
        /\ \A i \in 1 .. Len(a) : t[i] = a[i]
        /\ \A i \in Len(a) + 1 .. Len(a) + c : t[i] = n + i - Len(a)
    BY <1>1, Extended
  <2> QED
    BY <1>1, <2>1
<1> HIDE DEF t, u
<1>4. Len(s) \in Nat /\ Len(s) = m + d /\ Len(s) + k = m + c
  BY <1>0
<1>5. ASSUME NEW i \in 1 .. m + c PROVE u[i] = t[i]
  <2>1. CASE i <= m
    <3>1. u[i] = s[i]
      BY <1>2, <1>4, <2>1
    <3>2. t[i] = s[i]
      BY <1>3, <2>1
    <3> QED
      BY <3>1, <3>2
  <2>2. CASE i > m /\ i <= m + d
    <3>1. i - m \in 1 .. d /\ Len(s) - d + (i - m) = i
      BY <1>4, <2>2
    <3>2. s[i] = n + (i - m)
      BY <3>1
    <3> QED
      BY <1>2, <1>3, <1>4, <2>2, <3>2
  <2>3. CASE i > m + d
    <3>1. u[i] = e + i - Len(s)
      BY <1>2, <1>4, <2>3
    <3>2. t[i] = n + i - m
      BY <1>3, <2>3
    <3> QED
      BY <1>0, <1>4, <3>1, <3>2
  <2> QED
    BY <2>1, <2>2, <2>3
<1>6. u = t
  <2>1. u \in Seq(Nat) /\ t \in Seq(Nat) /\ Len(u) = m + c /\ Len(t) = m + c
    BY <1>2, <1>3, <1>4
  <2> QED
    BY <1>5, <2>1, SeqEqual
<1> QED
  BY <1>0, <1>6 DEF t, u, a

(* The values the promise sees.                                            *)
Given    == IF pc = "writing" THEN start ELSE given
Accepted == IF pc = "writing" THEN SubSeq(file, 1, Len(file) - (ptr - start)) ELSE file

LEMMA PromiseStep ==
  ASSUME OutInv, [OutNext]_vars
  PROVE  \/ \E n \in Lens :
              /\ Given' = Given + n
              /\ \/ Accepted' = Accepted \o Bytes(Given, n) /\ result' = "OK"
                 \/ /\ \E k \in 0 .. n : /\ k < n \/ n = 0
                                         /\ Accepted' = Accepted \o Bytes(Given, k)
                    /\ result' # "OK"
         \/ Given' = Given /\ Accepted' = Accepted /\ result' = result
<1> DEFINE d == ptr - start
<1>0. /\ file \in Seq(Nat) /\ Len(file) \in Nat /\ SubSeq(file, 1, Len(file)) = file
      /\ given \in Nat /\ ptr \in Nat /\ len \in Nat /\ start \in Nat
  BY DEF OutInv, OutTypeOK
<1>1. ASSUME pc = "writing"
      PROVE  /\ ptr + len = given /\ given - start \in Lens
             /\ len = 0 => ptr = start
             /\ d \in 0 .. Len(file)
             /\ \A i \in 1 .. d : file[Len(file) - d + i] = start + i
             /\ ptr = start + d
  BY <1>0, <1>1 DEF OutInv, LoopOK
<1>2. ASSUME NEW k \in Nat, pc = "writing"
      PROVE  file \o Bytes(ptr, k) = SubSeq(file, 1, Len(file) - d) \o Bytes(start, d + k)
  <2>1. d \in 0 .. Len(file) /\ \A i \in 1 .. d : file[Len(file) - d + i] = start + i
    BY <1>1, <1>2
  <2> HIDE DEF d
  <2>2. file \o Bytes(start + d, k) = SubSeq(file, 1, Len(file) - d) \o Bytes(start, d + k)
    BY <1>0, <2>1, Completed
  <2> QED
    BY <1>1, <1>2, <2>2
<1>3. CASE FdWrite
  <2>1. /\ pc = "idle" /\ pc' = "writing"
        /\ ptr' = given /\ start' = given /\ file' = file /\ result' = result
    BY <1>3 DEF FdWrite, Give
  <2>2. Given' = Given
    BY <2>1 DEF Given
  <2>3. Len(file) - (given - given) = Len(file)
    BY <1>0
  <2>4. Accepted' = Accepted
    BY <1>0, <2>1, <2>3 DEF Accepted
  <2> QED
    BY <2>1, <2>2, <2>4
<1>4. ASSUME NEW k \in Nat, Take(k)
      PROVE  \/ \E n \in Lens : /\ Given' = Given + n
                                /\ Accepted' = Accepted \o Bytes(Given, n)
                                /\ result' = "OK"
             \/ Given' = Given /\ Accepted' = Accepted /\ result' = result
  <2>1. /\ pc = "writing" /\ k <= len /\ file' = file \o Bytes(ptr, k)
        /\ start' = start /\ given' = given
    BY <1>4 DEF Take
  <2>2. Given = start /\ Accepted = SubSeq(file, 1, Len(file) - d)
    BY <2>1 DEF Given, Accepted
  <2>3. CASE k = len
    <3>1. pc' = "idle" /\ result' = "OK"
      BY <1>4, <2>3 DEF Take
    <3>2. Given' = given /\ Accepted' = file \o Bytes(ptr, k)
      BY <2>1, <3>1 DEF Given, Accepted
    <3>3. d + k = given - start
      BY <1>0, <1>1, <2>1, <2>3
    <3>4. Accepted' = Accepted \o Bytes(Given, given - start)
      BY <1>2, <2>1, <2>2, <3>2, <3>3
    <3>5. Given' = Given + (given - start)
      BY <1>0, <2>2, <3>2
    <3> QED
      BY <1>1, <2>1, <3>1, <3>4, <3>5
  <2>4. CASE k # len
    <3>1. pc' = pc /\ result' = result /\ ptr' = ptr + k
      BY <1>4, <2>4 DEF Take
    <3>2. Given' = Given
      BY <2>1, <3>1 DEF Given
    <3>3. d \in 0 .. Len(file)
      BY <1>1, <2>1
    <3>4. PICK m \in Nat : m = Len(file) - d /\ m <= Len(file)
      <4>1. Len(file) - d \in Nat /\ Len(file) - d <= Len(file)
        BY <1>0, <3>3
      <4> QED
        BY <4>1
    <3>5. Len(file') - (ptr' - start') = m
      <4>1. Len(file') = Len(file) + k
        <5>1. Len(file \o Bytes(ptr, k)) = Len(file) + k
          BY <1>0, Extended
        <5> QED
          BY <2>1, <5>1
      <4> QED
        BY <1>0, <2>1, <3>1, <3>4, <4>1
    <3>6. SubSeq(file', 1, m) = SubSeq(file, 1, m)
      <4>1. /\ file' \in Seq(Nat) /\ \A i \in 1 .. m : file'[i] = file[i] /\ file[i] \in Nat
        <5>1. /\ file \o Bytes(ptr, k) \in Seq(Nat)
              /\ \A i \in 1 .. Len(file) : (file \o Bytes(ptr, k))[i] = file[i]
          BY <1>0, Extended
        <5> QED
          BY <1>0, <2>1, <3>4, <5>1
      <4> DEFINE a == SubSeq(file, 1, m)
                 b == SubSeq(file', 1, m)
      <4>2. a \in Seq(Nat) /\ Len(a) = m /\ \A i \in 1 .. m : a[i] = file[i]
        BY <4>1, SubSeqProperties
      <4>3. b \in Seq(Nat) /\ Len(b) = m /\ \A i \in 1 .. m : b[i] = file'[i]
        <5>1. \A i \in 1 .. m : file'[i] \in Nat
          BY <4>1
        <5> QED
          BY <5>1, SubSeqProperties
      <4>4. \A i \in 1 .. m : a[i] = b[i]
        BY <4>1, <4>2, <4>3
      <4> HIDE DEF a, b
      <4>5. a = b
        BY <4>2, <4>3, <4>4, SeqEqual
      <4> QED
        BY <4>5 DEF a, b
    <3>7. Accepted' = SubSeq(file', 1, m)
      BY <2>1, <3>1, <3>5 DEF Accepted
    <3> QED
      BY <2>2, <3>1, <3>2, <3>4, <3>6, <3>7
  <2> QED
    BY <2>3, <2>4
<1>5. CASE TakeFails
  <2>1. /\ pc = "writing" /\ pc' = "idle" /\ result' = "OUTPUT_WRITE_FAILED"
        /\ given' = given /\ file' = file
    BY <1>5 DEF TakeFails
  <2>2. /\ Given = start /\ Accepted = SubSeq(file, 1, Len(file) - d)
        /\ Given' = given /\ Accepted' = file
    BY <2>1 DEF Given, Accepted
  <2>3. /\ ptr + len = given /\ given - start \in Lens
        /\ len = 0 => ptr = start
        /\ d \in 0 .. Len(file) /\ ptr = start + d
    BY <1>1, <2>1
  <2>4. file = Accepted \o Bytes(Given, d)
    <3>1. file \o Bytes(ptr, 0) = Accepted \o Bytes(Given, d + 0)
      BY <1>2, <2>1, <2>2
    <3>2. file \o Bytes(ptr, 0) = file
      BY <1>0 DEF Bytes
    <3>3. d + 0 = d
      BY <1>0
    <3> QED
      BY <3>1, <3>2, <3>3
  <2>5. Given' = Given + (given - start)
    BY <1>0, <2>2
  <2>6. d \in 0 .. given - start /\ (d < given - start \/ given - start = 0)
    BY <1>0, <2>3
  <2> QED
    BY <2>1, <2>2, <2>3, <2>4, <2>5, <2>6
<1>6. CASE SyslogWrite
  <2>1. PICK n \in Lens :
          /\ Give(n)
          /\ IF n > IntMax
             THEN result' = "INVALID_ARGS" /\ UNCHANGED file
             ELSE result' = "OK" /\ file' = file \o Bytes(given, n)
    BY <1>6 DEF SyslogWrite
  <2>2. pc = "idle" /\ pc' = pc /\ given' = given + n
    BY <1>6, <2>1 DEF SyslogWrite, Give
  <2>3. Given = given /\ Accepted = file /\ Given' = given + n /\ Accepted' = file'
    BY <2>2 DEF Given, Accepted
  <2>4. file = file \o Bytes(given, 0) /\ n \in Nat
    BY <1>0, OutputAssumption DEF Bytes
  <2>5. CASE n > IntMax
    <3>1. result' = "INVALID_ARGS" /\ Accepted' = Accepted \o Bytes(Given, 0)
      BY <2>1, <2>3, <2>4, <2>5
    <3>2. 0 \in 0 .. n /\ (0 < n \/ n = 0)
      BY <2>4
    <3> QED
      BY <2>3, <3>1, <3>2
  <2>6. CASE ~(n > IntMax)
    BY <2>1, <2>3, <2>6
  <2> QED
    BY <2>5, <2>6
<1>7. CASE UNCHANGED vars
  BY <1>7 DEF vars, loop, Given, Accepted
<1>8. CASE TakeNone
  BY <1>4, <1>8 DEF TakeNone
<1>9. CASE TakeSome
  <2>1. PICK k \in 1 .. len : Take(k)
    BY <1>9 DEF TakeSome
  <2>2. k \in Nat
    BY <1>0
  <2> QED
    BY <1>4, <2>1, <2>2
<1>10. CASE Interrupted
  BY <1>10 DEF Interrupted, vars, loop, Given, Accepted
<1> QED
  BY <1>3, <1>5, <1>6, <1>7, <1>8, <1>9, <1>10 DEF OutNext

(* The outputs keep the promise of ByteStream (aushape_output_write): a    *)
(* write that returns OK has delivered the whole piece, and one that fails *)
(* a proper prefix of it.                                                  *)
THEOREM OutputRefinement == OutSpec => KeepsPromise
<1>1. OutInit => Promise!Init
  BY DEF OutInit, Promise!Init
<1>2. OutInv /\ [OutNext]_vars => [Promise!Next]_<<Given, Accepted, result>>
  BY PromiseStep DEF Promise!Next, Promise!Write, Promise!Bytes, Bytes, Given, Accepted
<1>3. OutSpec => []OutInv
  BY OutInitInv, OutNextInv, PTL DEF OutSpec
<1> QED
  BY <1>1, <1>2, <1>3, PTL DEF OutSpec, KeepsPromise, Promise!Spec, Given, Accepted

=============================================================================
