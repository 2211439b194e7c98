----------------------------- MODULE ExecveColl -----------------------------
(***************************************************************************)
(* The collector of EXECVE records, lib/execve_coll.c: the kernel spreads  *)
(* the arguments of an execve(2) call over the fields of any number of     *)
(* records, cutting long arguments into slices; the collector puts them    *)
(* together again. Records may be lost on the way. The collector cannot    *)
(* see that, except by what is missing.                                    *)
(*                                                                         *)
(* One collector serves event after event, and is emptied in between.      *)
(* Output is a sequence of nodes (the gbtree, in the order of priorities), *)
(* each of them a sequence of tokens. Every slice has length 1.            *)
(***************************************************************************)
EXTENDS Integers, Sequences

CONSTANTS
  MaxArgs,   \* bound: the number of arguments of a call
  MaxSlices, \* bound: the number of slices of an argument
  MaxEvents  \* bound: the number of events

ASSUME ExecveAssumption == MaxArgs \in Nat /\ MaxSlices \in Nat /\ MaxEvents \in Nat

VARIABLES
  argv,      \* the arguments: the number of slices, 0 for one written whole
  next,      \* the field the kernel writes next
  losing,    \* the record it is written to gets lost
  skipped,   \* the arguments, empty ones, the kernel has left out
  intact,    \* nothing of this event was lost, and nothing has failed
  events,    \* how many events there have been before this one
  arg_num, arg_idx, got_len, slice_idx, len_total, len_read,
             \* the fields of struct aushape_execve_coll
  tree,      \* its gbtree: the nodes added
  text,      \* the gbtree's text: what belongs to no node yet
  ended,     \* coll->ended
  added,     \* the tree is a part of the event's output
  rc         \* the first error of the event, or "OK"

kernel == <<argv, next, losing, skipped>>
arg    == <<arg_num, arg_idx>>
slices == <<got_len, slice_idx, len_total, len_read>>
vars   == <<kernel, intact, events, arg, slices, tree, text, ended, added, rc>>

-----------------------------------------------------------------------------
(* Output tokens.                                                          *)

Token(kind, i, j) == [kind |-> kind, arg |-> i, slice |-> j]

Prologue == Token("prologue", 0, 0)  \* <execve>  or "execve":[
Epilogue == Token("epilogue", 0, 0)  \* </execve> or ]
Open     == Token("open", 0, 0)      \* <a>  or a quote, after a comma if needed
Close    == Token("close", 0, 0)     \* </a> or a quote

(* The text of an argument written whole, and of a slice of an argument.   *)
Whole(i)    == Token("whole", i, 0)
Slice(i, j) == Token("slice", i, j)

-----------------------------------------------------------------------------
(* The kernel: argc, then the arguments, each one whole or as its length   *)
(* and its slices. A record may end between any two fields.                *)

Field(kind, i, j) == [kind |-> kind, arg |-> i, slice |-> j]

(* The first field of argument i, counted from 0.                          *)
FirstField(i) ==
  IF i = Len(argv) THEN Field("done", i, 0)
  ELSE IF argv[i + 1] = 0 THEN Field("arg", i, 0)
  ELSE Field("len", i, 0)

NextField ==
  IF next.kind = "argc" THEN FirstField(0)
  ELSE IF next.kind = "len" THEN Field("slice", next.arg, 0)
  ELSE IF next.kind = "slice" /\ next.slice + 1 < argv[next.arg + 1]
       THEN Field("slice", next.arg, next.slice + 1)
  ELSE FirstField(next.arg + 1)

NewRecord ==
  /\ next.kind \notin {"argc", "done"}
  /\ losing' \in BOOLEAN
  /\ UNCHANGED <<argv, next, skipped, intact, events, arg, slices, tree, text, ended, added, rc>>

(* A field of a lost record.                                               *)
Lose ==
  /\ losing
  /\ next.kind # "done"
  /\ next' = NextField
  /\ intact' = FALSE
  /\ UNCHANGED <<argv, losing, skipped, events, arg, slices, tree, text, ended, added, rc>>

(* "Skipped empty arguments" (execve_coll.c).                              *)
LeaveOut ==
  /\ next.kind = "arg"
  /\ skipped' = skipped \union {next.arg}
  /\ next' = NextField
  /\ UNCHANGED <<argv, losing, intact, events, arg, slices, tree, text, ended, added, rc>>

-----------------------------------------------------------------------------
(* The collector takes the next field. Once it has returned an error it is *)
(* not called again for this event (aushape_conv_buf_add_event).           *)

Take(kind) ==
  /\ ~losing
  /\ rc = "OK"
  /\ next.kind = kind
  /\ next' = NextField
  /\ UNCHANGED <<argv, losing, skipped, events, ended, added>>

(* The first field of the event's first record to arrive finds no node.    *)
Begun == IF tree = <<>> THEN <<<<Prologue>>>> ELSE tree

Accept(t) == tree' = t /\ UNCHANGED <<rc, intact>>

Reject ==
  /\ rc' = "INVALID_EXECVE"
  /\ tree' = Begun
  /\ UNCHANGED <<intact, arg, slices, text>>

AddArgc ==
  /\ Take("argc")
  /\ \/ arg_num # 0 /\ Reject
     \/ /\ arg_num = 0
        /\ arg_num' = Len(argv)
        /\ Accept(Begun)
        /\ UNCHANGED <<arg_idx, slices, text>>

(* Slip: nothing is added for skipped arguments.                           *)
PaddingNone(i) == <<>>

(* aushape_execve_coll_add_arg_str, for each of the skipped arguments: the *)
(* first one takes along the text which is waiting for a node.             *)
Padding(i) ==
  [k \in 1 .. i - arg_idx |->
     (IF k = 1 THEN text ELSE <<>>) \o <<Open, Close>>]

TextAfter(i) == IF i = arg_idx THEN text ELSE <<>>

InRange(i) == arg_idx <= i /\ i < arg_num

AddArg ==
  /\ Take("arg")
  /\ \/ ~InRange(next.arg) /\ Reject
     \/ /\ InRange(next.arg)
        /\ Accept(Begun \o Append(Padding(next.arg),
                                  TextAfter(next.arg) \o <<Open, Whole(next.arg), Close>>))
        /\ text' = <<>>
        /\ arg_idx' = next.arg + 1
        /\ UNCHANGED <<arg_num, slices>>

AddArgLen ==
  /\ Take("len")
  /\ \/ ~(InRange(next.arg) /\ ~got_len) /\ Reject
     \/ /\ InRange(next.arg) /\ ~got_len
        /\ Accept(Begun \o Padding(next.arg))
        /\ text' = TextAfter(next.arg)
        /\ arg_idx' = next.arg
        /\ got_len' = TRUE
        /\ len_total' = argv[next.arg + 1]
        /\ UNCHANGED <<arg_num, slice_idx, len_read>>

InSequence ==
  /\ next.arg = arg_idx /\ arg_idx < arg_num
  /\ got_len
  /\ next.slice = slice_idx
  /\ len_read + 1 <= len_total

(* Slip: the index of the next slice survives the last slice.              *)
AddArgSliceCounting ==
  LET piece == (IF slice_idx = 0 THEN <<Open>> ELSE <<>>) \o <<Slice(next.arg, next.slice)>>
  IN  /\ Take("slice")
      /\ \/ ~InSequence /\ Reject
         \/ /\ InSequence
            /\ IF len_read + 1 = len_total
               THEN /\ Accept(Append(Begun, text \o piece \o <<Close>>))
                    /\ text' = <<>>
                    /\ got_len' = FALSE /\ len_total' = 0 /\ len_read' = 0
                    /\ arg_idx' = arg_idx + 1
               ELSE /\ Accept(Begun)
                    /\ text' = text \o piece
                    /\ len_read' = len_read + 1
                    /\ UNCHANGED <<got_len, len_total, arg_idx>>
            /\ slice_idx' = slice_idx + 1
            /\ UNCHANGED arg_num

AddArgSlice ==
  LET piece == (IF slice_idx = 0 THEN <<Open>> ELSE <<>>) \o <<Slice(next.arg, next.slice)>>
  IN  /\ Take("slice")
      /\ \/ ~InSequence /\ Reject
         \/ /\ InSequence /\ len_read + 1 = len_total
            /\ Accept(Append(Begun, text \o piece \o <<Close>>))
            /\ text' = <<>>
            /\ got_len' = FALSE /\ slice_idx' = 0 /\ len_total' = 0 /\ len_read' = 0
            /\ arg_idx' = arg_idx + 1
            /\ UNCHANGED arg_num
         \/ /\ InSequence /\ len_read + 1 < len_total
            /\ Accept(Begun)
            /\ text' = text \o piece
            /\ len_read' = len_read + 1
            /\ slice_idx' = slice_idx + 1
            /\ UNCHANGED <<arg, got_len, len_total>>

(* Out of memory, a failure of auparse, or a field that cannot be parsed,  *)
(* perhaps after some of the skipped arguments have been added, or in the  *)
(* middle of writing an argument.                                          *)
AddFails ==
  /\ \E kind \in {"argc", "arg", "len", "slice"} : Take(kind)
  /\ rc' \in {"NOMEM", "AUPARSE_FAILED", "INVALID_EXECVE"}
  /\ intact' = FALSE
  /\ LET pad == IF next.kind \in {"arg", "len"} /\ InRange(next.arg)
                THEN Padding(next.arg)
                ELSE <<>>
     IN  \E k \in 0 .. Len(pad) :
           LET t == IF k = 0 THEN text ELSE <<>>
           IN  /\ tree' = Begun \o SubSeq(pad, 1, k)
               /\ arg_idx' = arg_idx + k
               /\ text' \in {t, Append(t, Open)}
  /\ got_len' \in {got_len, got_len \/ next.kind = "len"}
  /\ len_read' \in {len_read} \union
                   IF next.kind = "slice" /\ InSequence THEN {len_read + 1} ELSE {}
  /\ UNCHANGED <<arg_num, slice_idx, len_total>>

(* Slip: the end is not compared with argc.                                *)
EndUnchecked ==
  /\ next.kind = "done"
  /\ rc = "OK"
  /\ ~ended
  /\ ended' = TRUE
  /\ IF arg_num = 0
     THEN UNCHANGED <<tree, added>>
     ELSE tree' = Append(tree, Append(text, Epilogue)) /\ added' = TRUE
  /\ UNCHANGED <<kernel, intact, events, arg, slices, text, rc>>

(* aushape_coll_end: a collector that is empty ends without output.        *)
End ==
  /\ next.kind = "done"
  /\ rc = "OK"
  /\ ~ended
  /\ ended' = TRUE
  /\ \/ arg_num = 0 /\ UNCHANGED <<tree, added, rc>>
     \/ arg_num # 0 /\ arg_idx # arg_num /\ rc' = "INVALID_EXECVE" /\ UNCHANGED <<tree, added>>
     \/ /\ arg_num # 0 /\ arg_idx = arg_num
        /\ tree' = Append(tree, Append(text, Epilogue))
        /\ added' = TRUE
        /\ UNCHANGED rc
  /\ UNCHANGED <<kernel, intact, events, arg, slices, text>>

(* A call the kernel reports.                                              *)
NewCall ==
  /\ \E n \in 0 .. MaxArgs : argv' \in [1 .. n -> 0 .. MaxSlices]
  /\ next' = Field("argc", 0, 0)
  /\ losing' \in BOOLEAN
  /\ skipped' = {}
  /\ intact' = TRUE

(* Slip: the text without a node is not emptied.                           *)
EmptyKeepingText ==
  /\ ended \/ rc # "OK"
  /\ events < MaxEvents
  /\ events' = events + 1
  /\ NewCall
  /\ arg_num' = 0 /\ arg_idx' = 0
  /\ got_len' = FALSE /\ slice_idx' = 0 /\ len_total' = 0 /\ len_read' = 0
  /\ tree' = <<>>
  /\ ended' = FALSE /\ added' = FALSE
  /\ rc' = "OK"
  /\ UNCHANGED text

(* aushape_coll_empty, when the event is done, and the next event.         *)
Empty ==
  /\ ended \/ rc # "OK"
  /\ events < MaxEvents
  /\ events' = events + 1
  /\ NewCall
  /\ arg_num' = 0 /\ arg_idx' = 0
  /\ got_len' = FALSE /\ slice_idx' = 0 /\ len_total' = 0 /\ len_read' = 0
  /\ tree' = <<>> /\ text' = <<>>
  /\ ended' = FALSE /\ added' = FALSE
  /\ rc' = "OK"

Init ==
  /\ \E n \in 0 .. MaxArgs : argv \in [1 .. n -> 0 .. MaxSlices]
  /\ next = Field("argc", 0, 0)
  /\ losing \in BOOLEAN
  /\ skipped = {}
  /\ intact = TRUE
  /\ events = 0
  /\ arg_num = 0 /\ arg_idx = 0
  /\ got_len = FALSE /\ slice_idx = 0 /\ len_total = 0 /\ len_read = 0
  /\ tree = <<>> /\ text = <<>>
  /\ ended = FALSE /\ added = FALSE
  /\ rc = "OK"

Next ==
  \/ NewRecord \/ Lose \/ LeaveOut
  \/ AddArgc \/ AddArg \/ AddArgLen \/ AddArgSlice \/ AddFails
  \/ End \/ Empty

Spec == Init /\ [][Next]_vars

-----------------------------------------------------------------------------

(* assert(aushape_coll_is_valid(coll)), at the beginning and the end of    *)
(* each function: whatever fields arrive, in whatever order.               *)
IsValid ==
  /\ arg_idx <= arg_num
  /\ got_len \/ (slice_idx = 0 /\ len_total = 0)
  /\ len_read <= len_total

(* The arguments whose text occurs in a node.                              *)
Sources(node) ==
  {node[k].arg : k \in {m \in 1 .. Len(node) : node[m].kind \in {"whole", "slice"}}}

(* Whatever records get lost, the text of an argument is never output in   *)
(* the place of another one, nor out of order.                             *)
OwnPlace ==
  rc = "OK" =>
    /\ \A k \in 1 .. Len(tree) : Sources(tree[k]) \subseteq {k - 2}
    /\ Sources(text) \subseteq {arg_idx}

(* Whatever records get lost, an output record has a place for every       *)
(* argument of the call.                                                   *)
AllPlaces == added => arg_num = Len(argv) /\ Len(tree) = Len(argv) + 2

(* The node of argument i.                                                 *)
Node(i) ==
  <<Open>> \o
  (IF i \in skipped THEN <<>>
   ELSE IF argv[i + 1] = 0 THEN <<Whole(i)>>
   ELSE [j \in 1 .. argv[i + 1] |-> Slice(i, j - 1)]) \o
  <<Close>>

(* The nodes up to the ones of the first n arguments.                      *)
Nodes(n) == <<<<Prologue>>>> \o [k \in 1 .. n |-> Node(k - 1)]

Complete == tree = Append(Nodes(Len(argv)), <<Epilogue>>)

(* If nothing is lost and nothing fails, the arguments are output exactly, *)
(* wherever the records are divided and whatever came before; a call that  *)
(* has none is left out. Empty arguments may be skipped, except the last.  *)
IntactComplete ==
  intact /\ (ended \/ rc # "OK") /\ Len(argv) - 1 \notin skipped =>
    /\ rc = "OK"
    /\ added <=> Len(argv) > 0
    /\ added => Complete

(* An argument has one beginning and one end, with its text between them.  *)
Sound(node) ==
  /\ node[1] = Open /\ node[Len(node)] = Close
  /\ \A k \in 2 .. Len(node) - 1 : node[k] \notin {Open, Close}

(* "INVALID_EXECVE - invalid execve record sequence encountered": what is  *)
(* accepted is a valid sequence, each argument of it complete.             *)
AcceptedSound == added => \A k \in 2 .. Len(tree) - 1 : Sound(tree[k])

-----------------------------------------------------------------------------
(* What all the steps preserve together.                                   *)

Kinds  == {"prologue", "epilogue", "open", "close", "whole", "slice"}
Tokens == [kind : Kinds, arg : Nat, slice : Nat]

(* A field of the call: argc, an argument written whole, the length or a   *)
(* slice of another one, or none, after the last argument.                 *)
FieldOK ==
  \/ next = Field("argc", 0, 0)
  \/ \E i \in 0 .. Len(argv) - 1 :
       \/ next = Field("arg", i, 0) /\ argv[i + 1] = 0
       \/ next = Field("len", i, 0) /\ argv[i + 1] # 0
       \/ \E j \in 0 .. argv[i + 1] - 1 : next = Field("slice", i, j)
  \/ next = Field("done", Len(argv), 0)

TypeOK ==
  /\ argv \in Seq(Nat) /\ FieldOK
  /\ losing \in BOOLEAN /\ skipped \in SUBSET Nat /\ intact \in BOOLEAN /\ events \in Nat
  /\ arg_num \in Nat /\ arg_idx \in Nat
  /\ got_len \in BOOLEAN /\ slice_idx \in Nat /\ len_total \in Nat /\ len_read \in Nat
  /\ tree \in Seq(Seq(Tokens)) /\ text \in Seq(Tokens)
  /\ ended \in BOOLEAN /\ added \in BOOLEAN
  /\ rc \in {"OK", "NOMEM", "AUPARSE_FAILED", "INVALID_EXECVE"}

(* Until there is an error, there is a node before the arguments, one for  *)
(* each argument so far, and one after them at the end.                    *)
ShapeOK ==
  /\ ended => next.kind = "done"
  /\ added => ended /\ rc = "OK" /\ arg_num # 0 /\ arg_idx = arg_num
  /\ arg_num \in {0, Len(argv)}
  /\ arg_num # 0 => tree # <<>>
  /\ rc = "OK" =>
       IF tree = <<>> THEN arg_idx = 0 /\ text = <<>>
       ELSE Len(tree) = arg_idx + IF added THEN 2 ELSE 1

(* The beginning of an argument, with the first n of its slices.           *)
Begins(i, n) == IF n = 0 THEN <<>> ELSE <<Open>> \o [j \in 1 .. n |-> Slice(i, j - 1)]

(* While nothing is lost and nothing fails, the collector has every        *)
(* argument before the field that is next, but for those just skipped, and *)
(* of the argument that field belongs to it has the slices before it.      *)
IntactOK ==
  intact /\ ~ended =>
    /\ rc = "OK"
    /\ \A i \in skipped : i < next.arg /\ argv[i + 1] = 0
    /\ arg_idx <= next.arg /\ arg_idx .. next.arg - 1 \subseteq skipped
    /\ IF next.kind = "argc" THEN arg_num = 0 /\ tree = <<>>
       ELSE /\ arg_num = Len(argv)
            /\ tree = Nodes(arg_idx)
    /\ IF next.kind = "slice"
       THEN /\ arg_idx = next.arg /\ got_len
            /\ slice_idx = next.slice /\ len_read = next.slice
            /\ len_total = argv[arg_idx + 1]
            /\ text = Begins(arg_idx, next.slice)
       ELSE ~got_len /\ slice_idx = 0 /\ len_total = 0 /\ len_read = 0 /\ text = <<>>

ExecveInv == TypeOK /\ IsValid /\ ShapeOK /\ OwnPlace /\ IntactOK /\ IntactComplete

=============================================================================
