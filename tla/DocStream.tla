------------------------------ MODULE DocStream ------------------------------
(***************************************************************************)
(* What a converter promises to whoever reads its output. A log of tokens  *)
(* is composed one token at a time, always well-formed; the reader gets it *)
(* in order, a piece at a time, without gaps. An output that accepts only  *)
(* complete documents or events (cont FALSE) gets no other pieces. After a *)
(* failure, in which the reader may have received a part of a piece,       *)
(* nothing more is composed or delivered.                                  *)
(***************************************************************************)
EXTENDS DocTokens

VARIABLES
  wrapped,  \* events are wrapped in documents (events_per_doc # 0)
  cont,     \* the output accepts arbitrary pieces
  log,      \* the tokens composed so far
  sent,     \* how many of them the reader has
  failed    \* the converter has failed

vars == <<wrapped, cont, log, sent, failed>>

Init ==
  /\ wrapped \in BOOLEAN
  /\ cont \in BOOLEAN
  /\ log = <<>>
  /\ sent = 0
  /\ failed = FALSE

(* The log grows by one token that fits, or does not grow.                 *)
Compose ==
  \/ UNCHANGED log
  \/ /\ Len(log') = Len(log) + 1
     /\ log' = Append(log, log'[Len(log')])
     /\ log'[Len(log')] \in Token
     /\ Fits(wrapped, log', Len(log'))

(* Everything composed reaches the reader.                                 *)
Deliver ==
  /\ sent' = Len(log')
  /\ cont \/ ~wrapped \/ ~Open(log')

Advance ==
  /\ ~failed
  /\ Compose
  /\ UNCHANGED sent \/ Deliver
  /\ UNCHANGED <<wrapped, cont, failed>>

Fail ==
  /\ ~failed
  /\ failed' = TRUE
  /\ Compose
  /\ sent' \in sent .. Len(log')
  /\ ~cont => UNCHANGED sent
  /\ UNCHANGED <<wrapped, cont>>

Next == Advance \/ Fail

Spec == Init /\ [][Next]_vars

=============================================================================
