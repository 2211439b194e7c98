----------------------------- MODULE ByteStream -----------------------------
(***************************************************************************)
(* What an output promises to the converter: a write delivers the whole of *)
(* a piece and returns OK, or fails and has delivered a proper prefix of   *)
(* it. The bytes handed over are numbered in order.                        *)
(***************************************************************************)
EXTENDS Integers, Sequences

CONSTANT Lens  \* the lengths of the pieces

VARIABLES
  given,    \* bytes the converter has handed over
  accepted, \* bytes delivered by the writes that have returned
  result    \* whether the last of them returned OK

(* The k bytes that follow byte n.                                         *)
Bytes(n, k) == [i \in 1 .. k |-> n + i]

Init == given = 0 /\ accepted = <<>> /\ result = "OK"

Write(n) ==
  /\ given' = given + n
  /\ \/ accepted' = accepted \o Bytes(given, n) /\ result' = "OK"
     \/ /\ \E k \in 0 .. n : /\ k < n \/ n = 0
                             /\ accepted' = accepted \o Bytes(given, k)
        /\ result' # "OK"

Next == \E n \in Lens : Write(n)

Spec == Init /\ [][Next]_<<given, accepted, result>>

=============================================================================
