-------------------------------- MODULE Conv --------------------------------
(***************************************************************************)
(* The converter, lib/conv.c: raw log in, output documents out.            *)
(*                                                                         *)
(* A client calls Begin, Input, Flush, End and Destroy in any order.       *)
(* During Input and Flush auparse calls back for every complete event; the *)
(* callback (aushape_conv_cb) has three blocks, each of which checks the   *)
(* sticky return code again: CbPrologue, CbEvent and CbEpilogue. The text  *)
(* in the output buffer is a sequence of tokens (DocTokens).               *)
(*                                                                         *)
(* Memory allocation, auparse and the output may fail wherever the code    *)
(* handles their failure. A failed rendering may leave a piece of text     *)
(* (Torn) in the buffer, a failed write may have delivered a part of the   *)
(* buffer.                                                                 *)
(***************************************************************************)
EXTENDS DocTokens

CONSTANTS
  SSizeMax,      \* SSIZE_MAX, the events_per_doc of a single document
  EventsPerDocs, \* the values of format.events_per_doc to create a converter with
  Sizes,         \* the lengths of a rendered event
  MaxFed,        \* bound: the number of events in the input
  MaxLog         \* bound: no document is begun by a client after that many tokens

ASSUME ConvAssumption ==
  /\ SSizeMax \in Nat \ {0}
  /\ EventsPerDocs \subseteq Int
  /\ Sizes \subseteq Nat \ {0}
  /\ MaxFed \in Nat
  /\ MaxLog \in Nat

VARIABLES
  epd,           \* conv->format.events_per_doc
  cont,          \* conv->output->type->cont
  rc,            \* conv->rc
  in_doc,        \* conv->in_doc
  events_in_doc, \* conv->events_in_doc
  buf,           \* conv->buf.gbuf
  out,           \* what the output has accepted, write after write
  rest,          \* what a failed write has delivered
  fed,           \* complete events put into auparse
  reported,      \* events auparse has called back for
  dropped,       \* events aushape_conv_buf_add_event has left out
  pc,            \* the block of the callback to execute, "ready" outside of it
  call,          \* the library call being executed, "destroyed" at the end
  ret            \* the last library call that returned, and what

format  == <<epd, cont>>
text    == <<buf, out, rest>>
auparse == <<fed, reported>>
control == <<pc, call, ret>>
vars    == <<format, rc, in_doc, events_in_doc, text, auparse, dropped, control>>

RC == {"OK", "NOMEM", "AUPARSE_FAILED", "OUTPUT_WRITE_FAILED", "INVALID_ARGS",
       "INVALID_STATE"}

(* The beginning of a token whose rendering failed.                        *)
Torn == [kind |-> "torn", id |-> 0, size |-> 0, first |-> FALSE]

Bare   == epd = 0
Single == epd = SSizeMax

-----------------------------------------------------------------------------
(***************************************************************************)
(* Rendering into the buffer, and writing the buffer out.                  *)
(***************************************************************************)

Hold(b) == buf' = b /\ UNCHANGED <<rc, out, rest>>

(* Slip: the result of rendering is not looked at.                         *)
RenderFailsUnseen(codes) ==
  /\ buf' \in {buf, Append(buf, Torn)}
  /\ UNCHANGED <<rc, out, rest>>

RenderFails(codes) ==
  /\ rc' \in codes
  /\ buf' \in {buf, Append(buf, Torn)}
  /\ UNCHANGED <<out, rest>>

(* Slip: the buffer is not emptied.                                        *)
WrittenKept(b) ==
  /\ out' = out \o b
  /\ buf' = b
  /\ UNCHANGED <<rc, rest>>

(* aushape_output_write succeeds and aushape_conv_buf_empty is called.     *)
Written(b) ==
  /\ out' = out \o b
  /\ buf' = <<>>
  /\ UNCHANGED <<rc, rest>>

(* An FD output may have written a part of the buffer before the failure,  *)
(* the syslog output only refuses the whole of it.                         *)
WriteFails(b) ==
  /\ buf' = b
  /\ UNCHANGED out
  /\ \/ /\ cont
        /\ rc' = "OUTPUT_WRITE_FAILED"
        /\ \E k \in 0 .. Len(b) - 1 : rest' = SubSeq(b, 1, k)
     \/ /\ ~cont
        /\ rc' = "INVALID_ARGS"
        /\ UNCHANGED rest

Write(b) == Written(b) \/ WriteFails(b)

(* The prologue is rendered, and written at once to a continuous output.   *)
StartDoc ==
  \/ /\ in_doc' = TRUE
     /\ LET b == Append(buf, Prologue)
        IN  IF cont THEN Write(b) ELSE Hold(b)
  \/ RenderFails({"NOMEM"}) /\ UNCHANGED in_doc

(* Slip: events_in_doc keeps its value.                                    *)
FinishDocCounting ==
  LET b == Append(buf, Epilogue)
  IN  \/ Written(b) /\ in_doc' = FALSE /\ UNCHANGED events_in_doc
      \/ WriteFails(b) /\ UNCHANGED <<in_doc, events_in_doc>>
      \/ RenderFails({"NOMEM"}) /\ UNCHANGED <<in_doc, events_in_doc>>

(* Slip: the document is finished in the buffer and not written.           *)
FinishDocHeld ==
  \/ Hold(Append(buf, Epilogue)) /\ in_doc' = FALSE /\ events_in_doc' = 0
  \/ RenderFails({"NOMEM"}) /\ UNCHANGED <<in_doc, events_in_doc>>

(* Slip: a document without events gets no epilogue.                       *)
FinishDocEmpty ==
  LET b == IF events_in_doc = 0 THEN buf ELSE Append(buf, Epilogue)
  IN  \/ Written(b) /\ in_doc' = FALSE /\ events_in_doc' = 0
      \/ WriteFails(b) /\ UNCHANGED <<in_doc, events_in_doc>>

(* The epilogue is rendered, and whatever the buffer holds is written.     *)
FinishDoc ==
  LET b == Append(buf, Epilogue)
  IN  \/ Written(b) /\ in_doc' = FALSE /\ events_in_doc' = 0
      \/ WriteFails(b) /\ UNCHANGED <<in_doc, events_in_doc>>
      \/ RenderFails({"NOMEM"}) /\ UNCHANGED <<in_doc, events_in_doc>>

-----------------------------------------------------------------------------
(***************************************************************************)
(* aushape_conv_cb.                                                        *)
(***************************************************************************)

(* auparse reports a complete event from inside of a feed or a flush.      *)
CbReady ==
  /\ pc = "ready"
  /\ call \in {"input", "flush"}
  /\ reported < fed
  /\ reported' = reported + 1
  /\ pc' = "prologue"
  /\ UNCHANGED <<format, rc, in_doc, events_in_doc, text, fed, dropped, call, ret>>

CbPrologue ==
  /\ pc = "prologue"
  /\ pc' = "event"
  /\ IF rc = "OK" /\ ~Bare /\ ~Single /\ ~in_doc
     THEN StartDoc
     ELSE UNCHANGED <<rc, in_doc, text>>
  /\ UNCHANGED <<format, events_in_doc, auparse, dropped, call, ret>>

(* Slip: the size is counted with the sign of the limit.                   *)
WeightSigned(size) ==
  IF epd > 0 THEN 1 ELSE IF epd < 0 THEN -size ELSE 0

(* What an event adds to events_in_doc.                                    *)
Weight(size) ==
  IF epd > 0 THEN 1 ELSE IF epd < 0 THEN size ELSE 0

EventSkipped == rc # "OK" /\ UNCHANGED <<rc, events_in_doc, text, dropped>>

EventDropped ==
  /\ rc = "OK"
  /\ dropped' = dropped \union {reported}
  /\ UNCHANGED <<rc, events_in_doc, text>>

EventFails ==
  /\ rc = "OK"
  /\ RenderFails({"NOMEM", "AUPARSE_FAILED"})
  /\ UNCHANGED <<events_in_doc, dropped>>

EventAdded(size) ==
  LET b == Append(buf, Event(reported, size, events_in_doc = 0))
  IN  /\ rc = "OK"
      /\ events_in_doc' = events_in_doc + Weight(size)
      /\ IF cont \/ Bare THEN Write(b) ELSE Hold(b)
      /\ UNCHANGED dropped

CbEvent ==
  /\ pc = "event"
  /\ pc' = "epilogue"
  /\ \/ EventSkipped
     \/ EventDropped
     \/ EventFails
     \/ \E size \in Sizes : EventAdded(size)
  /\ UNCHANGED <<format, in_doc, auparse, call, ret>>

(* Slip: the limit may be reached, not only crossed.                       *)
LimitHitLate ==
  \/ epd > 0 /\ events_in_doc > epd
  \/ epd < 0 /\ events_in_doc > -epd

LimitHit ==
  \/ epd > 0 /\ events_in_doc >= epd
  \/ epd < 0 /\ events_in_doc >= -epd

(* Slip: the return code is not checked again after the event.             *)
CbEpilogueUnchecked ==
  /\ pc = "epilogue"
  /\ pc' = "ready"
  /\ IF ~Bare /\ ~Single /\ LimitHit
     THEN FinishDoc
     ELSE UNCHANGED <<rc, in_doc, events_in_doc, text>>
  /\ UNCHANGED <<format, auparse, dropped, call, ret>>

CbEpilogue ==
  /\ pc = "epilogue"
  /\ pc' = "ready"
  /\ IF rc = "OK" /\ ~Bare /\ ~Single /\ LimitHit
     THEN FinishDoc
     ELSE UNCHANGED <<rc, in_doc, events_in_doc, text>>
  /\ UNCHANGED <<format, auparse, dropped, call, ret>>

-----------------------------------------------------------------------------
(***************************************************************************)
(* The library calls.                                                      *)
(***************************************************************************)

Returned(op, code) == ret' = [op |-> op, rc |-> code]

(* A call that changes nothing in the converter.                           *)
Refuse(op, code) ==
  /\ Returned(op, code)
  /\ UNCHANGED <<format, rc, in_doc, events_in_doc, text, auparse, dropped, pc, call>>

Begin ==
  /\ call = "none"
  /\ Len(out) + Len(buf) < MaxLog
  /\ \/ ~Single /\ Refuse("begin", "OK")
     \/ Single /\ in_doc /\ Refuse("begin", "INVALID_STATE")
     \/ Single /\ ~in_doc /\ rc # "OK" /\ Refuse("begin", rc)
     \/ /\ Single /\ ~in_doc /\ rc = "OK"
        /\ StartDoc
        /\ Returned("begin", rc')
        /\ UNCHANGED <<format, events_in_doc, auparse, dropped, pc, call>>

(* Feed or flush auparse: n more events become complete.                   *)
Enter(op, n) ==
  /\ call = "none"
  /\ \/ Single /\ ~in_doc /\ Refuse(op, "INVALID_STATE")
     \/ ~(Single /\ ~in_doc) /\ rc # "OK" /\ Refuse(op, rc)
     \/ /\ ~(Single /\ ~in_doc) /\ rc = "OK"
        /\ call' = op
        /\ fed' = fed + n
        /\ UNCHANGED <<format, rc, in_doc, events_in_doc, text, reported, dropped, pc, ret>>

Input == \E n \in 0 .. MaxFed - fed : Enter("input", n)
Flush == Enter("flush", 0)

(* auparse returns from the feed, keeping back any events, or from the     *)
(* flush, keeping back none; or it fails.                                  *)
Leave ==
  /\ call \in {"input", "flush"}
  /\ pc = "ready"
  /\ call' = "none"
  /\ \/ (call = "flush" => reported = fed) /\ UNCHANGED rc
     \/ rc' = "AUPARSE_FAILED"
  /\ Returned(call, rc')
  /\ UNCHANGED <<format, in_doc, events_in_doc, text, auparse, dropped, pc>>

End ==
  /\ call = "none"
  /\ \/ Bare /\ Refuse("end", "OK")
     \/ ~Bare /\ ~in_doc /\ Refuse("end", IF Single THEN "INVALID_STATE" ELSE "OK")
     \/ ~Bare /\ in_doc /\ rc # "OK" /\ Refuse("end", rc)
     \/ /\ ~Bare /\ in_doc /\ rc = "OK"
        /\ FinishDoc
        /\ Returned("end", rc')
        /\ UNCHANGED <<format, auparse, dropped, pc, call>>

(* No other call may follow; what is left in the buffer is lost with it.   *)
Destroy ==
  /\ call = "none"
  /\ call' = "destroyed"
  /\ UNCHANGED <<format, rc, in_doc, events_in_doc, text, auparse, dropped, pc, ret>>

-----------------------------------------------------------------------------

(* aushape_conv_create.                                                    *)
Init ==
  /\ epd \in EventsPerDocs
  /\ cont \in BOOLEAN
  /\ rc = "OK"
  /\ in_doc = FALSE
  /\ events_in_doc = 0
  /\ buf = <<>> /\ out = <<>> /\ rest = <<>>
  /\ fed = 0 /\ reported = 0
  /\ dropped = {}
  /\ pc = "ready"
  /\ call = "none"
  /\ ret = [op |-> "create", rc |-> "OK"]

(* What happens inside of a library call, the client waiting.              *)
Internal == CbReady \/ CbPrologue \/ CbEvent \/ CbEpilogue \/ Leave

Next == Begin \/ Input \/ Flush \/ End \/ Destroy \/ Internal

Spec == Init /\ [][Next]_vars

-----------------------------------------------------------------------------
(***************************************************************************)
(* Correctness.                                                            *)
(***************************************************************************)

Buffered == Token \union {Torn}

(* The state of struct aushape_conv, of the output and of auparse.         *)
TypeOK ==
  /\ epd \in EventsPerDocs
  /\ cont \in BOOLEAN
  /\ rc \in RC
  /\ in_doc \in BOOLEAN
  /\ events_in_doc \in Nat
  /\ buf \in Seq(Buffered)
  /\ out \in Seq(Token)
  /\ rest \in Seq(Token)
  /\ fed \in Nat
  /\ reported \in 0 .. fed
  /\ dropped \subseteq 1 .. reported
  /\ pc \in {"ready", "prologue", "event", "epilogue"}
  /\ call \in {"none", "input", "flush", "destroyed"}
  /\ ret \in [op : {"create", "begin", "input", "flush", "end"}, rc : RC]

(* The buffer without the remains of a failed rendering.                   *)
Sound(b) == IF b # <<>> /\ b[Len(b)] = Torn THEN SubSeq(b, 1, Len(b) - 1) ELSE b

(* Everything composed so far, and everything the reader of the output has *)
(* received.                                                               *)
Log  == out \o Sound(buf)
Seen == out \o rest

(* Whatever calls are made and whatever fails, the reader of the output    *)
(* has a prefix of well-formed documents: prologues and epilogues match,   *)
(* separators stand where the next event needs one, and nothing of a piece *)
(* whose rendering failed ever comes out.                                  *)
SeenWellFormed == WellFormed(~Bare, Seen)

(* Weights(s)[i] is the weight of the events before s[i + 1] in its        *)
(* document, 0 between documents.                                          *)
Weights(s) ==
  LET w[i \in 0 .. Len(s)] ==
        IF i = 0 \/ s[i].kind # "event" THEN 0 ELSE w[i - 1] + Weight(s[i].size)
  IN  w

(* No event is put into a document that has reached its limit, and such a  *)
(* document is not left open when the callback is done: "documents are     *)
(* finished when the size of accumulated event text crosses the negated    *)
(* number" (format.h), and likewise for a number of events.                *)
LimitKept ==
  ~Bare /\ ~Single =>
    LET limit == IF epd > 0 THEN epd ELSE -epd
        w     == Weights(Log)
    IN  /\ \A i \in 1 .. Len(Log) : Log[i].kind = "event" => w[i - 1] < limit
        /\ pc = "ready" /\ rc = "OK" => w[Len(Log)] < limit

(* The numbers of the events in s, and of the events taken care of.        *)
Ids(s)  == {s[i].id : i \in {j \in 1 .. Len(s) : s[j].kind = "event"}}
Handled == IF pc \in {"prologue", "event"} THEN reported - 1 ELSE reported

(* The events auparse reports come out once each, in order, except the     *)
(* ones add_event drops. A failure cuts the sequence, it makes no gap.     *)
EventsInOrder ==
  /\ \A i, j \in 1 .. Len(Log) :
       i < j /\ Log[i].kind = "event" /\ Log[j].kind = "event" => Log[i].id < Log[j].id
  /\ Ids(Log) \intersect dropped = {}
  /\ \E m \in 0 .. Handled : /\ Ids(Log) \union dropped = 1 .. m
                             /\ rc = "OK" => m = Handled

(* After a failure nothing is written any more, and the converter never    *)
(* recovers: it could not know what the reader has received.               *)
FailureFinal == [][rc # "OK" => rc' # "OK" /\ UNCHANGED <<out, rest>>]_vars

(* An End that returns OK, with no failure before, has handed everything   *)
(* to the output and left no document open.                                *)
EndDelivers ==
  [][End /\ rc = "OK" /\ ret'.rc = "OK" => buf' = <<>> /\ (Bare \/ ~Open(out'))]_vars

(* The converter keeps the promise of DocStream.                           *)
Stream == INSTANCE DocStream WITH
            wrapped <- ~Bare, log <- Log, sent <- Len(Seen), failed <- rc # "OK"

ImplementsStream == Stream!Spec

-----------------------------------------------------------------------------
(***************************************************************************)
(* What holds between the fields of the converter: the invariant that      *)
(* proves the above (AushapeProofs).                                       *)
(***************************************************************************)

(* Until the first failure, the output and the buffer together hold a      *)
(* well-formed text, and no write has been left incomplete.                *)
TextOK ==
  rc = "OK" => rest = <<>> /\ buf \in Seq(Token) /\ WellFormed(~Bare, out \o buf)

(* in_doc says whether that text ends inside of a document, events_in_doc  *)
(* whether it ends with a prologue.                                        *)
DocStateOK ==
  LET all == out \o buf
  IN  /\ Bare => ~in_doc /\ events_in_doc = 0
      /\ rc = "OK" /\ ~Bare =>
           /\ in_doc <=> Open(all)
           /\ ~in_doc => events_in_doc = 0
           /\ in_doc => (events_in_doc = 0 <=> all[Len(all)].kind = "prologue")

(* assert(conv->in_doc) in the callback; a single document stays open      *)
(* while auparse is fed.                                                   *)
CallbackOK ==
  /\ pc # "ready" => call \in {"input", "flush"} /\ reported > 0
  /\ rc = "OK" /\ pc \in {"event", "epilogue"} /\ ~Bare => in_doc
  /\ rc = "OK" /\ Single /\ call \in {"input", "flush"} => in_doc

ConvInv == TypeOK /\ TextOK /\ DocStateOK /\ CallbackOK /\ SeenWellFormed

(* Further on until the first failure: events_in_doc is the weight of the  *)
(* document the text ends in, and stays below the limit but for the moment *)
(* between an event and the end of its document ...                        *)
CountOK ==
  rc = "OK" /\ ~Bare =>
    /\ Weights(Log)[Len(Log)] = events_in_doc
    /\ ~Single /\ pc # "epilogue" => ~LimitHit

(* ... and nothing but a document is held back in the buffer.              *)
HeldOK == rc = "OK" /\ ~in_doc => buf = <<>>

=============================================================================
