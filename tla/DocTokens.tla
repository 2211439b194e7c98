------------------------------ MODULE DocTokens ------------------------------
(***************************************************************************)
(* The pieces of text the converter's output is made of, with their text   *)
(* abstracted away: a document prologue, a document epilogue, and an event.*)
(* An event carries its number, the length of its text, and whether it was *)
(* rendered as the first one of its document (in JSON the other ones begin *)
(* with a comma).                                                          *)
(***************************************************************************)
EXTENDS Integers, Sequences

Token == [kind  : {"prologue", "event", "epilogue"},
          id    : Nat,
          size  : Nat,
          first : BOOLEAN]

(* aushape_conv_buf_add_prologue: the XML declaration and <log>, or "[".   *)
Prologue == [kind |-> "prologue", id |-> 0, size |-> 0, first |-> FALSE]

(* aushape_conv_buf_add_epilogue: </log>, or "]".                          *)
Epilogue == [kind |-> "epilogue", id |-> 0, size |-> 0, first |-> FALSE]

(* The text aushape_conv_buf_add_event renders.                            *)
Event(id, size, first) ==
  [kind |-> "event", id |-> id, size |-> size, first |-> first]

-----------------------------------------------------------------------------

(* Position i of s lies inside a document.                                 *)
Inside(s, i) == i > 1 /\ s[i - 1].kind # "epilogue"

(* A document is open at the end of s.                                     *)
Open(s) == Inside(s, Len(s) + 1)

(* Token i of s may stand where it stands. With document wrapping, only    *)
(* the first event after a prologue is rendered as first; in bare output   *)
(* there are only events and no separators.                                *)
Fits(wrapped, s, i) ==
  IF wrapped
  THEN /\ s[i].kind = "prologue" <=> ~Inside(s, i)
       /\ s[i].kind = "event" => (s[i].first <=> s[i - 1].kind = "prologue")
  ELSE s[i].kind = "event" /\ s[i].first

(* s is a prefix of a series of complete documents, or of bare events.     *)
WellFormed(wrapped, s) == \A i \in 1..Len(s) : Fits(wrapped, s, i)

=============================================================================
