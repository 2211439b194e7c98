------------------------------- MODULE Markup -------------------------------
(***************************************************************************)
(* The text of an event, in both languages: what is put into the trees of  *)
(* aushape_conv_buf_add_event (lib/conv_buf.c) and of the collectors, with *)
(* which priority, and what is left of it after trimming. Priorities and   *)
(* separators are chosen far from each other: every cut that trimming can  *)
(* make (see Trim) has to leave one well-formed event.                     *)
(*                                                                         *)
(* Text is a sequence of tokens. Space is left out. Records are valid ones *)
(* or fail in a collector; see ConvBuf and ExecveColl for the conditions.  *)
(***************************************************************************)
EXTENDS Integers, Sequences, FiniteSets, SequencesExt

CONSTANTS
  Samples,      \* texts, sequences of characters: of a line, value or argument
  Shapes,       \* events: [lang, first, host, with_text, with_norm]
  UniqTypes,    \* record types for the unique collector
  FieldLists,   \* fields of a record: sequences of [name, raw]
  ExecveFields, \* fields of an EXECVE record: sequences of parts of arguments
  MaxArgs,      \* bound: the number of arguments of an execve(2) call
  MaxIdx,       \* bound: the index of a PATH item
  NormFields,   \* the types of the normalized fields in NormName: "META", "POS" or "POS_LIST"
  MaxItems,     \* bound: the number of items of a position list
  MaxRecords    \* bound: the number of records of an event

ASSUME MarkupAssumption ==
  /\ Shapes \subseteq [lang : {"XML", "JSON"}, first : BOOLEAN, host : BOOLEAN,
                       with_text : BOOLEAN, with_norm : BOOLEAN]
  /\ \A text \in Samples : Len(text) \in Nat
  /\ \A fields \in FieldLists : Len(fields) \in Nat
  /\ \A parts \in ExecveFields : Len(parts) \in Nat
  /\ NormFields \in Seq({"META", "POS", "POS_LIST"}) /\ Len(NormFields) \in 1 .. 4
  /\ MaxArgs \in Nat /\ MaxIdx \in Nat /\ MaxItems \in Nat /\ MaxRecords \in Nat

VARIABLES
  pc,         \* "start", "records", "norm", "finish", "trim" or "rendered"
  shape,      \* the event's and the format's part in its text
  sample,     \* the text of everything in it
  tree,       \* the trees: their nodes, and the text behind the tail
  line_num,   \* records so far
  record_num, \* output records so far
  error,      \* a collector has failed
  seen,       \* types the unique collector has seen
  args,       \* arguments: announced, finished, and whether one is unfinished
  norm        \* the normalized field to add next, and its priority

vars == <<pc, shape, sample, tree, line_num, record_num, error, seen, args, norm>>

None       == "none"
Trees      == {"event", "text", "data", "norm", "execve", "path", "rep"}
Collectors == <<"execve", "path", "rep">>
XML        == shape.lang = "XML"

-----------------------------------------------------------------------------
(* Tokens, with the number of the line, record, argument or item, within   *)
(* its list, that they belong to.                                          *)

T(k)      == [k |-> k, n |-> "", id |-> 0]
Key(n)    == <<[k |-> "key", n |-> n, id |-> 0]>>
Tag(n)    == [k |-> "<", n |-> n, id |-> 0]
End(n)    == <<[k |-> "</", n |-> n, id |-> 0]>>
Open(n)   == <<Tag(n), T(">")>>
Comma     == <<T(",")>>
Special   == {"&", "'"}
Span(m, n) == [i \in 1 .. n - m + 1 |-> [k |-> "char", n |-> sample[m + i - 1], id |-> 0]]

Numbered(id, text) == [i \in 1 .. Len(text) |-> [k |-> text[i].k, n |-> text[i].n, id |-> id]]

(* aushape_gbuf_add_buf_xml and _json copy what needs no escape in spans,  *)
(* from behind the last escape up to the next one, and up to the end.      *)
EscapedUpTo ==
  LET at[i \in 0 .. Len(sample)] ==
        IF i = 0 THEN [out |-> <<>>, last |-> 1]
        ELSE LET p == at[i - 1]
             IN  IF sample[i] \notin Special THEN p
                 ELSE [out  |-> p.out \o Span(p.last, i - 1)
                                      \o <<[k |-> "escape", n |-> sample[i], id |-> 0]>>,
                       last |-> i + 1]
  IN  at

Escaped ==
  LET all == EscapedUpTo[Len(sample)] IN all.out \o Span(all.last, Len(sample))

Quoted  == <<T("quote")>> \o Escaped \o <<T("quote")>>
Attr(n) == <<[k |-> "attr", n |-> n, id |-> 0]>> \o Escaped \o <<T("quote")>>

Separator(first) == IF first THEN <<>> ELSE Comma

(* aushape_field_format: a value, and the raw one if that is different.    *)
Field(first, list, f) ==
  IF XML
  THEN <<Tag(f.name)>> \o Attr("i") \o (IF f.raw THEN Attr("r") ELSE <<>>) \o <<T("/>")>>
  ELSE Separator(first) \o (IF list THEN <<>> ELSE Key(f.name)) \o <<T("[")>> \o Quoted
         \o (IF f.raw THEN Comma \o Quoted ELSE <<>>) \o <<T("]")>>

(* aushape_record_format_fields; nothing comes before the first field.     *)
FieldsUpTo(fields) ==
  LET at[k \in 0 .. Len(fields)] ==
        IF k = 0 THEN <<>>
        ELSE LET p == at[k - 1]
             IN  IF fields[k].name \in {"type", "node"} THEN p
                 ELSE p \o Field(p = <<>>, FALSE, fields[k])
  IN  at

Fields(fields) == FieldsUpTo(fields)[Len(fields)]

(* aushape_record_format                                                   *)
Record(first, name, fields) ==
  IF XML THEN Open(name) \o Fields(fields) \o End(name)
  ELSE Separator(first) \o Key(name) \o <<T("{")>> \o Fields(fields) \o <<T("}")>>

-----------------------------------------------------------------------------
(* Trees, as GbTree represents them. A node is text or a tree, or a hole.  *)

Blank == [nodes |-> <<>>, tail |-> <<>>]
Hole  == [prio |-> -1, text |-> <<>>, tree |-> None]

Add(t, text) == [t EXCEPT !.tail = @ \o text]

Put(t, i, node) ==
  [t EXCEPT !.nodes = [k \in 1 .. IF i > Len(@) THEN i ELSE Len(@) |->
                         IF k = i THEN node ELSE IF k <= Len(@) THEN @[k] ELSE Hole]]

PutText(t, i, prio) ==
  [Put(t, i, [prio |-> prio, text |-> t.tail, tree |-> None]) EXCEPT !.tail = <<>>]

AddText(t, prio)    == PutText(t, Len(t.nodes) + 1, prio)
AddTree(t, prio, s) == Put(t, Len(t.nodes) + 1, [prio |-> prio, text |-> <<>>, tree |-> s])
Void(t, i)          == Put(t, i, Hole)
Solid(t)            == \A i \in 1 .. Len(t.nodes) : t.nodes[i] # Hole

(* A text followed by a node for it.                                       *)
AddNode(t, text, prio) == AddText(Add(t, text), prio)

-----------------------------------------------------------------------------

(* Where the nodes of the event are.                                       *)
TrimmedNode == 2
ErrorNode   == 3
TextNode    == IF XML THEN 5 ELSE 4
DataNode    == TextNode + 1

Header ==
  IF XML
  THEN <<Tag("event")>> \o Attr("serial") \o (IF shape.host THEN Attr("node") ELSE <<>>)
  ELSE Separator(shape.first) \o <<T("{")>> \o Key("serial") \o <<T("scalar")>> \o Comma
         \o Key("time") \o <<T("scalar")>>
         \o (IF shape.host THEN Comma \o Key("node") \o Quoted ELSE <<>>)

(* The beginning and the end of a part of the event, or of a record.       *)
Begin(n, bracket) == IF XML THEN Open(n) ELSE Key(n) \o <<T(bracket)>>
Close(n, bracket) == IF XML THEN End(n) ELSE <<T(bracket)>>

Part(n, bracket)  == AddNode(Blank, (IF XML THEN <<>> ELSE Comma) \o Begin(n, bracket), 0)

Start ==
  /\ pc = "start"
  /\ pc' = "records"
  /\ LET tag   == AddText(AddText(AddNode(Blank, Header, 0), 0), 0)
         event == AddTree(AddTree(IF XML THEN AddNode(tag, <<T(">")>>, 0) ELSE tag,
                                  1, "text"), 2, "data")
     IN  tree' = [tree EXCEPT
                    !["event"] = IF shape.with_norm THEN AddTree(event, 3, "norm") ELSE event,
                    !["text"]  = Part("text", "["),
                    !["data"]  = Part("data", "{"),
                    !["norm"]  = IF shape.with_norm THEN Part("norm", "{") ELSE @]
  /\ UNCHANGED <<shape, sample, line_num, record_num, error, seen, args, norm>>

(* The source line of a record: the first one is not separate from the     *)
(* beginning of the text.                                                  *)
Line ==
  IF XML THEN Open("line") \o Escaped \o End("line")
  ELSE Separator(line_num = 0) \o Quoted

WithLine == [tree EXCEPT !["text"] = AddNode(@, Numbered(line_num + 1, Line), line_num)]

(* A turn of the record loop; trees and the rest, as the collector leaves them. *)
RecordStep ==
  /\ pc = "records"
  /\ line_num < IF shape.with_norm THEN 1 ELSE MaxRecords
  /\ line_num' = line_num + 1
  /\ UNCHANGED <<pc, shape, sample, norm>>

AddUniq ==
  /\ RecordStep /\ ~error
  /\ \E name \in UniqTypes \ seen, fields \in FieldLists :
       /\ seen' = seen \union {name}
       /\ tree' = [WithLine EXCEPT
                     !["data"] = AddNode(@, Numbered(record_num + 1, Record(record_num = 0, name, fields)),
                                         record_num)]
  /\ record_num' = record_num + 1
  /\ UNCHANGED <<error, args>>

(* Slip: every record begins it.                                           *)
BegunAgain(t, n) == AddNode(Blank, Begin(n, "["), 0)

(* A collector's tree with its beginning, which the first record adds.     *)
Begun(t, n) == IF tree[t].nodes = <<>> THEN AddNode(Blank, Begin(n, "["), 0) ELSE tree[t]

Item(fields) ==
  IF XML THEN Open("item") \o Fields(fields) \o End("item")
  ELSE <<T("{")>> \o Fields(fields) \o <<T("}")>>

AddRep ==
  /\ RecordStep /\ ~error
  /\ \E fields \in FieldLists :
       LET t == Begun("rep", "avc")
           n == Len(t.nodes)
           s == IF XML THEN <<>> ELSE Separator(n = 1)
       IN  tree' = [WithLine EXCEPT !["rep"] = AddNode(t, Numbered(n, s \o Item(fields)), n - 1)]
  /\ UNCHANGED <<record_num, error, seen, args>>

(* Slip: items have the priority of their arrival.                         *)
PlacedLate(t, i, idx, text) == PutText(Add(t, text), i, Len(t.nodes) - 1)

Placed(t, i, idx, text) == PutText(Add(t, text), i, idx)

(* A PATH item goes to a node by its index, with room for separators, and  *)
(* has the priority of that index, in whatever order the records come.     *)
AddPath ==
  /\ RecordStep /\ ~error
  /\ \E fields \in FieldLists, idx \in 0 .. MaxIdx :
       LET t == Begun("path", "path")
           i == (IF XML THEN idx ELSE idx * 2) + 2
       IN  /\ i \notin {k \in 1 .. Len(t.nodes) : t.nodes[k] # Hole}
           /\ tree' = [WithLine EXCEPT !["path"] =
                         Placed(t, i, idx, Numbered(idx + 1, Item(fields)))]
  /\ UNCHANGED <<record_num, error, seen, args>>

ArgBegin(k) == IF XML THEN Open("a") ELSE Separator(k = 0) \o <<T("quote")>>
ArgEnd      == IF XML THEN End("a") ELSE <<T("quote")>>

(* The fields of an EXECVE record: whole arguments, and slices, of which   *)
(* the last one finishes the argument and adds the node.                   *)
ArgAdded(s, part) ==
  LET begin == IF part \in {"whole", "first"} THEN ArgBegin(s.done) ELSE <<>>
      t     == Add(s.tree, Numbered(s.done + 1, begin \o Escaped))
  IN  IF part \in {"whole", "last"}
      THEN [tree |-> AddText(Add(t, ArgEnd), s.done), done |-> s.done + 1, open |-> FALSE]
      ELSE [tree |-> t, done |-> s.done, open |-> TRUE]

ArgsAdded(s, parts) ==
  LET at[k \in 0 .. Len(parts)] ==
        IF k = 0 THEN s ELSE LET p == at[k - 1] IN ArgAdded(p, parts[k])
  IN  at

Fits(s, part) == (part \in {"whole", "first"}) <=> ~s.open

(* Records lost within an argument are left out, see ExecveColl.           *)
AddExecve ==
  /\ RecordStep /\ ~error
  /\ \E parts \in ExecveFields, num \in 1 .. MaxArgs :
       LET at == ArgsAdded([tree |-> Begun("execve", "execve"), done |-> args.done,
                            open |-> args.open], parts)
           s  == at[Len(parts)]
       IN  /\ args.num # 0 => num = args.num
           /\ \A k \in 1 .. Len(parts) : Fits(at[k - 1], parts[k])
           /\ s.done + (IF s.open THEN 1 ELSE 0) <= num
           /\ args' = [num |-> num, done |-> s.done, open |-> s.open]
           /\ tree' = [WithLine EXCEPT !["execve"] = s.tree]
  /\ UNCHANGED <<record_num, error, seen>>

(* EOE records are dropped.                                                *)
AddDrop ==
  /\ RecordStep /\ ~error
  /\ tree' = WithLine
  /\ UNCHANGED <<record_num, error, seen, args>>

(* A collector fails, and may leave a piece of text; the records after it  *)
(* have only their lines.                                                  *)
AddFails ==
  /\ RecordStep
  /\ error' = TRUE
  /\ \E t \in {"data", "rep", "path", "execve"} :
       tree' \in IF error THEN {WithLine}
                 ELSE {WithLine, [WithLine EXCEPT ![t] = Add(@, <<T("torn")>>)]}
  /\ UNCHANGED <<record_num, seen, args>>

AddRecord == AddUniq \/ AddRep \/ AddPath \/ AddExecve \/ AddDrop \/ AddFails

-----------------------------------------------------------------------------

Gaps(t) == IF Len(t.nodes) > 1 THEN (Len(t.nodes) - 1) \div 2 ELSE 0

(* Slip: all the separators of PATH items have the priority of the first.  *)
SeparatedFlat(t) ==
  LET put[i \in 0 .. Gaps(t)] ==
        IF i = 0 THEN t ELSE LET p == put[i - 1] IN PutText(Add(p, Comma), i * 2 + 1, 0)
  IN  IF XML THEN t ELSE put[Gaps(t)]

(* The separators of PATH items, each with the priority of the item after it. *)
SeparatedUpTo(t) ==
  LET put[i \in 0 .. Gaps(t)] ==
        IF i = 0 THEN t ELSE LET p == put[i - 1] IN PutText(Add(p, Comma), i * 2 + 1, i)
  IN  put

Separated(t) == IF XML THEN t ELSE SeparatedUpTo(t)[Gaps(t)]

(* A collector's record is finished, and put into the data behind its own  *)
(* separator, with the priority of the records before it counted on.       *)
Committed(s, t, name, contents) ==
  LET data == IF XML \/ s.count = 0 THEN s.tree["data"] ELSE AddNode(s.tree["data"], Comma, s.count)
  IN  [tree  |-> [s.tree EXCEPT ![t]      = AddNode(contents, Close(name, "]"), 0),
                                !["data"] = AddTree(data, s.count, t)],
       count |-> s.count + 1]

EndExecve(s) ==
  IF tree["execve"].nodes = <<>> THEN s ELSE Committed(s, "execve", "execve", tree["execve"])
EndPath(s) ==
  IF tree["path"].nodes = <<>> THEN s ELSE Committed(s, "path", "path", Separated(tree["path"]))
EndRep(s) ==
  IF tree["rep"].nodes = <<>> THEN s ELSE Committed(s, "rep", "avc", tree["rep"])

Complete == args.done = args.num /\ ~args.open /\ Solid(Separated(tree["path"]))

Ended == EndRep(EndPath(EndExecve([tree |-> tree, count |-> record_num])))

(* aushape_coll_end. When a collector fails, some of the text has been     *)
(* added; that does not matter, as the data are not used any more.         *)
EndRecords ==
  /\ pc = "records" /\ line_num > 0
  /\ \/ /\ ~error /\ Complete /\ Ended.count > 0
        /\ tree' = Ended.tree
        /\ record_num' = Ended.count
        /\ error' = FALSE
     \/ error' = TRUE /\ UNCHANGED <<tree, record_num>>
  /\ pc' = IF shape.with_norm THEN "norm" ELSE "finish"
  /\ UNCHANGED <<shape, sample, line_num, seen, args, norm>>

NormName == <<"event_kind", "session", "subject_attrs", "action">>

(* A list of positions: its beginning and end have the priority of its     *)
(* first item, each item after that has one of its own.                    *)
ItemsAdded(t, p, n) ==
  LET attr == [name |-> "attr", raw |-> TRUE]
      at[j \in 0 .. n] ==
        IF j = 0 THEN t
        ELSE LET q == at[j - 1] IN AddNode(q, Numbered(p + j - 1, Field(j = 1, TRUE, attr)), p + j - 1)
  IN  at

Listed(t, i, p, n) ==
  LET head == Separator(XML \/ i = 1) \o Begin(NormName[i], "[")
  IN  AddNode(ItemsAdded(AddNode(t, head, p), p, n)[n], Close(NormName[i], "]"), p)

(* A normalized field, if auparse has it. It has a separator unless it is  *)
(* the first of the table: that one, the kind of the event, is always      *)
(* there, or the separator of the next one would be wrong.                 *)
AddNorm ==
  /\ pc = "norm"
  /\ LET i == norm.next
         p == norm.prio
         f == [name |-> NormName[i], raw |-> NormFields[i] = "POS"]
     IN  \/ i > 1 /\ UNCHANGED tree /\ norm' = [norm EXCEPT !.next = i + 1]
         \/ /\ NormFields[i] \in {"META", "POS"}
            /\ tree' = [tree EXCEPT !["norm"] = AddNode(@, Numbered(p, Field(i = 1, FALSE, f)), p)]
            /\ norm' = [next |-> i + 1, prio |-> p + 1]
         \/ /\ NormFields[i] = "POS_LIST"
            /\ \E n \in 1 .. MaxItems :
                 /\ tree' = [tree EXCEPT !["norm"] = Listed(@, i, p, n)]
                 /\ norm' = [next |-> i + 1, prio |-> p + n]
  /\ pc' = IF norm'.next > Len(NormFields) THEN "finish" ELSE "norm"
  /\ UNCHANGED <<shape, sample, line_num, record_num, error, seen, args>>

ErrorText   == IF XML THEN Attr("error") ELSE Comma \o Key("error") \o Quoted
TrimmedText ==
  IF XML THEN <<[k |-> "attr", n |-> "trimmed", id |-> 0], T("quote")>>
  ELSE Comma \o Key("trimmed") \o <<T("["), T("]")>>

(* The parts of the event are finished, but not data with an error: these  *)
(* are removed, and the error is put into its node. Then the event is      *)
(* finished, and the source text is removed if nobody wants it.            *)
Finish ==
  /\ pc = "finish"
  /\ pc' = "trim"
  /\ LET marked == IF error
                   THEN PutText(Add(Void(tree["event"], DataNode), ErrorText), ErrorNode, 0)
                   ELSE tree["event"]
         event  == AddNode(marked, Close("event", "}"), 0)
     IN  tree' = [tree EXCEPT
                    !["text"]  = AddNode(@, Close("text", "]"), 0),
                    !["data"]  = IF error THEN @ ELSE AddNode(@, Close("data", "}"), 0),
                    !["norm"]  = IF shape.with_norm THEN AddNode(@, Close("norm", "}"), 0) ELSE @,
                    !["event"] = IF shape.with_text \/ error THEN event ELSE Void(event, TextNode)]
  /\ UNCHANGED <<shape, sample, line_num, record_num, error, seen, args, norm>>

Levels(t) == {t.nodes[i].prio : i \in 1 .. Len(t.nodes)} \ {-1}
Below(t, p) == {t.nodes[i].tree : i \in {j \in 1 .. Len(t.nodes) : t.nodes[j].prio = p}} \ {None}

(* What trimming can leave (see Trim): a tree loses the levels above one,  *)
(* and a tree at that level may be trimmed in turn. By tree, the last      *)
(* priority that is kept. The function is called for each depth.           *)
Whole == [s \in Trees |-> MaxRecords + Len(NormFields) + MaxItems + MaxArgs + 3]
CutsOf(t, Inner(_)) ==
  UNION {{[c EXCEPT ![t] = p] : c \in {Whole} \union UNION {Inner(s) : s \in Below(tree[t], p)}} :
           p \in Levels(tree[t])}

RecordCuts(t) == CutsOf(t, LAMBDA s : {})
PartCuts(t)   == CutsOf(t, RecordCuts)
Cuts          == CutsOf("event", PartCuts)

Trimmed(cut) ==
  [t \in Trees |->
     [tree[t] EXCEPT !.nodes = [i \in 1 .. Len(@) |-> IF @[i].prio > cut[t] THEN Hole ELSE @[i]]]]

(* The event may be trimmed, and says so if it is.                         *)
TrimEvent ==
  /\ pc = "trim"
  /\ pc' = "rendered"
  /\ \/ UNCHANGED tree
     \/ \E cut \in Cuts :
          LET f == Trimmed(cut)
          IN  /\ f # tree
              /\ tree' = [f EXCEPT !["event"] = PutText(Add(@, TrimmedText), TrimmedNode, 0)]
  /\ UNCHANGED <<shape, sample, line_num, record_num, error, seen, args, norm>>

Emptied ==
  /\ tree' = [t \in Trees |-> Blank]
  /\ line_num' = 0 /\ record_num' = 0 /\ error' = FALSE /\ seen' = {}
  /\ args' = [num |-> 0, done |-> 0, open |-> FALSE]
  /\ norm' = [next |-> 1, prio |-> 1]
  /\ pc' = "start"
  /\ UNCHANGED <<shape, sample>>

(* An event without output records is dropped.                             *)
Drop ==
  /\ pc = "records" /\ line_num > 0
  /\ ~error /\ Complete /\ Ended.count = 0
  /\ Emptied

(* The event is rendered, or given up at any point before that; trees and  *)
(* collectors are emptied.                                                 *)
Render == pc = "rendered" /\ Emptied
GiveUp == pc \notin {"start", "rendered"} /\ Emptied

Init ==
  /\ pc = "start"
  /\ shape \in Shapes
  /\ sample \in Samples
  /\ tree = [t \in Trees |-> Blank]
  /\ line_num = 0 /\ record_num = 0 /\ error = FALSE /\ seen = {}
  /\ args = [num |-> 0, done |-> 0, open |-> FALSE]
  /\ norm = [next |-> 1, prio |-> 1]

Next ==
  \/ Start \/ AddRecord \/ EndRecords \/ Drop \/ AddNorm \/ Finish \/ TrimEvent \/ Render \/ GiveUp

Spec == Init /\ [][Next]_vars

-----------------------------------------------------------------------------
(* What is rendered: the nodes in order, and their trees in their places.  *)

RenderedWith(t, Inner(_)) ==
  FlattenSeq([i \in 1 .. Len(tree[t].nodes) |->
                LET n == tree[t].nodes[i]
                IN  IF n.tree = None THEN n.text ELSE Inner(n.tree)])

RecordRendered(t) == RenderedWith(t, LAMBDA s : <<>>)
PartRendered(t)   == RenderedWith(t, RecordRendered)
Rendered          == RenderedWith("event", PartRendered)

(* Well-formed text, by automata over tokens. Both have a stack of what is *)
(* open, and stay in Bad after the first token that has no place.          *)

Bad == [stack |-> <<"bad">>, mode |-> "bad", attrs |-> {}]

Plain(tok) == tok.k = "escape" \/ (tok.k = "char" /\ tok.n \notin Special)

XMLMove(s, tok) ==
  CASE s.mode = "text" /\ tok.k = "<" ->
         [stack |-> Append(s.stack, tok.n), mode |-> "tag", attrs |-> {}]
    [] s.mode = "text" /\ tok.k = "</" /\ s.stack # <<>> /\ Last(s.stack) = tok.n ->
         [s EXCEPT !.stack = Front(@)]
    [] s.mode = "text" /\ s.stack # <<>> /\ Plain(tok) -> s
    [] s.mode = "tag" /\ tok.k = ">" -> [s EXCEPT !.mode = "text"]
    [] s.mode = "tag" /\ tok.k = "/>" -> [s EXCEPT !.mode = "text", !.stack = Front(@)]
    [] s.mode = "tag" /\ tok.k = "attr" /\ tok.n \notin s.attrs ->
         [s EXCEPT !.mode = "value", !.attrs = @ \union {tok.n}]
    [] s.mode = "value" /\ Plain(tok) -> s
    [] s.mode = "value" /\ tok.k = "quote" -> [s EXCEPT !.mode = "tag"]
    [] OTHER -> Bad

(* Here the mode is what came last: "start", "value", "comma", "key" or    *)
(* "string" within one.                                                    *)
Wanted(s) ==
  IF s.stack = <<>> THEN s.mode = "start"
  ELSE s.mode \in IF Last(s.stack) = "{" THEN {"key"} ELSE {"start", "comma"}

JSONMove(s, tok) ==
  CASE s.mode = "string" /\ Plain(tok) -> s
    [] s.mode = "string" /\ tok.k = "quote" -> [s EXCEPT !.mode = "value"]
    [] Wanted(s) /\ tok.k = "quote" -> [s EXCEPT !.mode = "string"]
    [] Wanted(s) /\ tok.k = "scalar" -> [s EXCEPT !.mode = "value"]
    [] Wanted(s) /\ tok.k \in {"{", "["} ->
         [s EXCEPT !.stack = Append(@, tok.k), !.mode = "start"]
    [] s.stack # <<>> /\ s.mode \in {"start", "value"}
         /\ <<Last(s.stack), tok.k>> \in {<<"{", "}">>, <<"[", "]">>} ->
         [s EXCEPT !.stack = Front(@), !.mode = "value"]
    [] s.stack # <<>> /\ s.mode = "value" /\ tok.k = "," -> [s EXCEPT !.mode = "comma"]
    [] s.stack # <<>> /\ Last(s.stack) = "{" /\ s.mode \in {"start", "comma"} /\ tok.k = "key" ->
         [s EXCEPT !.mode = "key"]
    [] OTHER -> Bad

Accepted(text, first, last, Move(_, _)) ==
  LET at[i \in 0 .. Len(text)] ==
        IF i = 0 THEN [stack |-> <<>>, mode |-> first, attrs |-> {}]
        ELSE LET p == at[i - 1] IN Move(p, text[i])
  IN  text # <<>> /\ at[Len(text)].stack = <<>> /\ at[Len(text)].mode = last

(* What is rendered is one element, or one object and a comma before it    *)
(* unless it is the first event of an array: with or without an error, and *)
(* wherever it is cut.                                                     *)
WellFormed ==
  pc = "rendered" =>
    LET text == Rendered
    IN  IF XML THEN Accepted(text, "text", "text", XMLMove)
        ELSE /\ shape.first <=> Head(text).k # ","
             /\ Accepted(IF shape.first THEN text ELSE Tail(text), "start", "value", JSONMove)

(* The trees that the event has.                                           *)
TreesIn(ns) == {ns[i].tree : i \in 1 .. Len(ns)} \ {None}
TreesOf(t)  == TreesIn(tree[t].nodes)
Linked      == TreesOf("event") \union UNION {TreesOf(t) : t \in TreesOf("event")}

(* The numbers of what a node has, and of what the first nodes of a tree   *)
(* have.                                                                   *)
NumbersIn(text) == {text[i].id : i \in 1 .. Len(text)} \ {0}
NumbersUpTo(ns, n) == UNION {NumbersIn(ns[i].text) : i \in 1 .. n}
Numbers(t)         == NumbersUpTo(tree[t].nodes, Len(tree[t].nodes))

(* Whatever is trimmed, what is left of the lines, records, arguments and  *)
(* items is the beginning of them: each of these is in one node, and       *)
(* before it are all of the lower numbers, and no others.                  *)
BeginningKept ==
  pc = "rendered" =>
    \A t \in Linked : \A j \in 1 .. Len(tree[t].nodes) :
      \A m \in NumbersIn(tree[t].nodes[j].text) :
        NumbersUpTo(tree[t].nodes, j - 1) = 1 .. m - 1

(* An event that is neither marked as trimmed nor has an error has it all: *)
(* every line if wanted, every argument and every record, and no text is   *)
(* left waiting for a node.                                                *)
AllThere ==
  (pc = "rendered" /\ ~error /\ tree["event"].nodes[TrimmedNode].text = <<>>) =>
    /\ \A t \in Linked \union {"event"} : tree[t].tail = <<>>
    /\ shape.with_text <=> "text" \in Linked
    /\ shape.with_text => Numbers("text") = 1 .. line_num
    /\ "data" \in Linked /\ (shape.with_norm <=> "norm" \in Linked)
    /\ Numbers("execve") = 1 .. args.num
    /\ args.num > 0 => "execve" \in Linked
    /\ Cardinality(seen) = Cardinality(Numbers("data"))
    /\ record_num = Cardinality(seen) + Cardinality(Linked \ {"text", "data", "norm"})

-----------------------------------------------------------------------------
(* The inductive invariant: what each tree has so far.                     *)

IsSeq(s)  == Len(s) \in Nat /\ s = [i \in 1 .. Len(s) |-> s[i]]
IsTree(t) ==
  /\ t = [nodes |-> t.nodes, tail |-> t.tail] /\ IsSeq(t.nodes) /\ IsSeq(t.tail)
  /\ \A i \in 1 .. Len(t.nodes) : t.nodes[i].prio \in Int /\ t.nodes[i].tree \in Trees \union {None}

IsForest(f) == f = [t \in Trees |-> f[t]] /\ \A t \in Trees : IsTree(f[t])

TypeOK ==
  /\ shape \in Shapes /\ sample \in Samples /\ error \in BOOLEAN
  /\ pc \in {"start", "records", "norm", "finish", "trim", "rendered"}
  /\ IsForest(tree) /\ line_num \in Nat /\ record_num \in Nat /\ IsFiniteSet(seen)
  /\ args \in [num : Nat, done : Nat, open : BOOLEAN]
  /\ norm \in [next : Nat, prio : Nat \ {0}]

Empty ==
  /\ tree = [t \in Trees |-> Blank]
  /\ line_num = 0 /\ record_num = 0 /\ ~error /\ seen = {}
  /\ args = [num |-> 0, done |-> 0, open |-> FALSE] /\ norm.prio = 1

(* Each number is in one node, with the priority it goes by, and before it *)
(* are the lower ones: it is those that a cut keeps as long as it.         *)
Rising(ns, first) ==
  \A j \in 1 .. Len(ns) : \A m \in NumbersIn(ns[j].text) :
    /\ m \in Nat \ {0} /\ ns[j].prio = m - 1 + first
    /\ NumbersUpTo(ns, j - 1) = 1 .. m - 1

(* What a part or a record has, and nothing waits for a node.              *)
InOrder(t, first) == Rising(tree[t].nodes, first) /\ TreesOf(t) = {} /\ tree[t].tail = <<>>

Marked == tree["event"].nodes[TrimmedNode].text # <<>>

TextOK == InOrder("text", 0) /\ (~Marked => Numbers("text") = 1 .. line_num)

NormOK == InOrder("norm", 1) /\ (pc \in {"records", "norm"} => Numbers("norm") = 1 .. norm.prio - 1)

(* Where the collectors' trees are, once the records have ended.           *)
Added == {t \in {"execve", "path", "rep"} : tree[t].nodes # <<>>}

DataOK ==
  /\ Rising(tree["data"].nodes, 0) /\ tree["data"].tail = <<>>
  /\ TreesOf("data") \subseteq {"execve", "path", "rep"}
  /\ ~Marked => Numbers("data") = 1 .. Cardinality(seen)
  /\ pc = "records" => TreesOf("data") = {} /\ record_num = Cardinality(seen)
  /\ pc # "records" /\ ~Marked => TreesOf("data") = Added /\ record_num = Cardinality(seen) + Cardinality(Added)

RepOK ==
  /\ InOrder("rep", 0)
  /\ pc = "records" => Numbers("rep") = 1 .. Len(tree["rep"].nodes) - 1

ExecveOK ==
  /\ Rising(tree["execve"].nodes, 0) /\ TreesOf("execve") = {}
  /\ IF args.open THEN NumbersIn(tree["execve"].tail) = {args.done + 1} ELSE tree["execve"].tail = <<>>
  /\ ~Marked => Numbers("execve") = 1 .. args.done /\ (tree["execve"].nodes = <<>> <=> args.num = 0)
  /\ pc # "records" => args.done = args.num /\ ~args.open
  /\ args.num = 0 => args.done = 0 /\ ~args.open

(* While there are gaps, PATH items are told by where they are.            *)
Spread(ns) ==
  \A i \in 2 .. Len(ns) :
    \/ ns[i] = Hole
    \/ IF XML THEN NumbersIn(ns[i].text) = {i - 1} /\ ns[i].prio = i - 2
       ELSE \E m \in 1 .. i : i = 2 * m /\ NumbersIn(ns[i].text) = {m} /\ ns[i].prio = m - 1

PathOK ==
  /\ TreesOf("path") = {} /\ tree["path"].tail = <<>>
  /\ pc = "records" =>
       /\ Spread(tree["path"].nodes)
       /\ tree["path"].nodes # <<>> => NumbersIn(tree["path"].nodes[1].text) = {}
       /\ XML \/ Len(tree["path"].nodes) \in {0, 1} \/ \E m \in 1 .. Len(tree["path"].nodes) : Len(tree["path"].nodes) = 2 * m
  /\ pc # "records" => Rising(tree["path"].nodes, 0)

(* The trees in the event, from beginning to end, and what may be left.    *)
TreeAt(i) ==
  CASE i = TextNode -> "text" [] i = DataNode -> "data" [] i = DataNode + 1 -> "norm" [] OTHER -> None
EventLen == IF shape.with_norm THEN DataNode + 1 ELSE DataNode

EventOK ==
  /\ tree["event"].tail = <<>> /\ TrimmedNode <= Len(tree["event"].nodes)
  /\ TreesOf("event") \subseteq {"text", "data", "norm"}
  /\ pc # "rendered" => ~Marked
  /\ pc \in {"records", "norm", "finish"} =>
       /\ Len(tree["event"].nodes) = EventLen
       /\ \A i \in 1 .. EventLen : tree["event"].nodes[i].tree = TreeAt(i)
  /\ pc \in {"trim", "rendered"} =>
       /\ error => "data" \notin TreesOf("event")
       /\ ~error /\ ~Marked =>
            TreesOf("event") = {t \in {"text", "data", "norm"} :
                                  /\ t = "text" => shape.with_text
                                  /\ t = "norm" => shape.with_norm}

MarkupInv ==
  /\ TypeOK
  /\ pc = "start" => Empty
  /\ pc # "start" => EventOK /\ TextOK /\ NormOK
  /\ pc # "start" /\ ~error => DataOK /\ RepOK /\ ExecveOK /\ PathOK

=============================================================================
