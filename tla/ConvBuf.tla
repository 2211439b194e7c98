------------------------------- MODULE ConvBuf -------------------------------
(***************************************************************************)
(* Converting one event, aushape_conv_buf_add_event of lib/conv_buf.c: its *)
(* records go one by one to the collectors, through the dispatcher of      *)
(* lib/disp_coll.c. A record type that occurs once in an event is output   *)
(* at once (lib/uniq_coll.c); repeating ones (lib/rep_coll.c), PATH        *)
(* (lib/path_coll.c) and EXECVE records become one output record each,     *)
(* when the collectors are ended; EOE is dropped (lib/drop_coll.c).        *)
(*                                                                         *)
(* The same collectors serve event after event. An input record is known   *)
(* by its number in the event. Of lib/execve_coll.c only the counting of   *)
(* arguments is here, see ExecveColl for the rest.                         *)
(***************************************************************************)
EXTENDS Integers, Sequences, FiniteSets

CONSTANTS
  UniqTypes,  \* record types for the unique collector
  RepTypes,   \* record types for repeating collectors, in the order of the map
  NodeMin,    \* the nodes a repeating collector's tree has room for at once
  MaxIdx,     \* AUSHAPE_PATH_COLL_MAX_IDX
  MaxArgs,    \* bound: the number of arguments of an EXECVE record
  MaxRecords, \* bound: the number of records of an event
  MaxEvents   \* bound: the number of events

Reps == {RepTypes[k] : k \in 1 .. Len(RepTypes)}

(* A record type is in the map once; the unique collector has the types    *)
(* which are not in it.                                                    *)
ASSUME ConvBufAssumption ==
  /\ RepTypes \in Seq(STRING)
  /\ \A i, j \in 1 .. Len(RepTypes) : RepTypes[i] = RepTypes[j] => i = j
  /\ UniqTypes \intersect Reps = {}
  /\ (UniqTypes \union Reps) \intersect {"PATH", "EXECVE", "EOE"} = {}
  /\ NodeMin \in Nat /\ NodeMin >= 2
  /\ MaxIdx \in Nat /\ MaxArgs \in Nat /\ MaxRecords \in Nat /\ MaxEvents \in Nat

VARIABLES
  with_text,  \* buf->format.with_text
  pc,         \* "idle" between the events, "records" in the record loop
  events,     \* how many events have been converted
  source,     \* the records of the event so far, and its <text>
  data,       \* the data tree: the output records
  record_num, \* how many of them there are
  error_rc,   \* the first error of a collector, or "OK"
  seen,       \* uniq_coll->seen
  items,      \* the items of each repeating collector, and its number of nodes
  path,       \* the nodes of path_coll->gbtree: a function from item indices
  execve,     \* execve_coll->arg_num, arg_idx, and the records taken
  result      \* what the last call has returned and rendered

collectors == <<seen, items, path, execve>>
vars       == <<with_text, pc, events, source, data, record_num, error_rc, collectors, result>>

(* An input record. A PATH record has an item index, or none that can be   *)
(* accepted; an EXECVE record may give argc, and some arguments.           *)
Record ==
  [type : UniqTypes \union Reps \union {"EOE"}]
    \union [type : {"PATH"}, idx : -1 .. MaxIdx + 1]
    \union [type : {"EXECVE"}, argc : -1 .. MaxArgs, args : 0 .. MaxArgs]

NoItems  == [nodes |-> 0, list |-> <<>>]
NoPath   == [i \in {} |-> 0]
NoExecve == [num |-> 0, idx |-> 0, taken |-> <<>>]
Nothing  == [rc |-> "OK", source |-> <<>>, text |-> FALSE, data |-> <<>>,
             error |-> "OK"]

(* aushape_coll_empty, for the dispatcher and everything below it, and the *)
(* emptying of the trees.                                                  *)
Cleanup ==
  /\ seen' = {}
  /\ items' = [t \in Reps |-> NoItems]
  /\ path' = NoPath
  /\ execve' = NoExecve
  /\ data' = <<>>
  /\ source' = <<>>

-----------------------------------------------------------------------------

Start ==
  /\ pc = "idle"
  /\ events < MaxEvents
  /\ pc' = "records"
  /\ record_num' = 0
  /\ error_rc' = "OK"
  /\ result' = Nothing
  /\ UNCHANGED <<with_text, events, source, data, collectors>>

(* An output record; every one but the first begins with a separator.      *)
(* commas: its items that do.                                              *)
OutputRecord(type, n, from, commas) ==
  [type |-> type, separated |-> n > 0, from |-> from, commas |-> commas]

(* The number of the record being added.                                   *)
This == Len(source) + 1

Stored == error_rc' = "OK" /\ UNCHANGED <<data, record_num>>

Refused(code) == error_rc' = code /\ UNCHANGED <<data, record_num, collectors>>

(* The type is remembered before the record is formatted, which may fail.  *)
AddUniq(t) ==
  \/ t \in seen /\ Refused("REPEATED_RECORD")
  \/ /\ t \notin seen
     /\ seen' = seen \union {t}
     /\ \/ /\ data' = Append(data, OutputRecord(t, record_num, <<This>>, {}))
           /\ record_num' = record_num + 1
           /\ error_rc' = "OK"
        \/ error_rc' \in {"NOMEM", "AUPARSE_FAILED"} /\ UNCHANGED <<data, record_num>>
     /\ UNCHANGED <<items, path, execve>>

(* An item gets a comma if the tree has nodes of items already. The result *)
(* of adding its node is not checked: when the nodes, the container's      *)
(* prologue among them, have used up the room they had at first, memory    *)
(* may be short. Then the item's text becomes a part of the next node.     *)
AddRep(t) ==
  /\ \E grown \in IF items[t].nodes + 1 < NodeMin THEN {1} ELSE {0, 1} :
       items' = [items EXCEPT ![t] =
                   [nodes |-> @.nodes + grown,
                    list  |-> Append(@.list, [record |-> This, comma |-> @.nodes > 0])]]
  /\ Stored
  /\ UNCHANGED <<seen, path, execve>>

AddPath(i) ==
  \/ ~(i \in 0 .. MaxIdx /\ i \notin DOMAIN path) /\ Refused("INVALID_PATH")
  \/ /\ i \in 0 .. MaxIdx /\ i \notin DOMAIN path
     /\ path' = [j \in DOMAIN path \union {i} |-> IF j = i THEN This ELSE path[j]]
     /\ Stored
     /\ UNCHANGED <<seen, items, execve>>

AddExecve(argc, args) ==
  LET num  == IF argc >= 0 THEN argc ELSE execve.num
      good == (argc >= 0 => execve.num = 0) /\ execve.idx + args <= num
  IN  \/ /\ ~good
         /\ error_rc' = "INVALID_EXECVE"
         /\ execve' \in {execve, [execve EXCEPT !.num = IF @ = 0 THEN num ELSE @]}
         /\ UNCHANGED <<data, record_num, seen, items, path>>
      \/ /\ good
         /\ execve' = [num |-> num, idx |-> execve.idx + args, taken |-> Append(execve.taken, This)]
         /\ Stored
         /\ UNCHANGED <<seen, items, path>>

AddDrop == Stored /\ UNCHANGED collectors

(* aushape_disp_coll_add: the collector is chosen by the name of the type, *)
(* which auparse may fail to give for any record.                          *)
Dispatch(r) ==
  \/ r.type \in UniqTypes /\ AddUniq(r.type)
  \/ r.type \in Reps /\ AddRep(r.type)
  \/ r.type = "PATH" /\ AddPath(r.idx)
  \/ r.type = "EXECVE" /\ AddExecve(r.argc, r.args)
  \/ r.type = "EOE" /\ AddDrop
  \/ Refused("AUPARSE_FAILED")
  \/ r.type # "EOE" /\ Refused("NOMEM")

(* Slip: the records after a failure are collected as well, and the result *)
(* of the last one counts.                                                 *)
AddRecordOnward ==
  /\ pc = "records"
  /\ Len(source) < MaxRecords
  /\ \E r \in Record : source' = Append(source, r) /\ Dispatch(r)
  /\ UNCHANGED <<with_text, pc, events, result>>

(* One turn of the record loop: the source line, then the collector, if    *)
(* none has failed before.                                                 *)
AddRecord ==
  /\ pc = "records"
  /\ Len(source) < MaxRecords
  /\ \E r \in Record :
       /\ source' = Append(source, r)
       /\ IF error_rc = "OK"
          THEN Dispatch(r)
          ELSE UNCHANGED <<data, record_num, error_rc, collectors>>
  /\ UNCHANGED <<with_text, pc, events, result>>

-----------------------------------------------------------------------------
(* aushape_disp_coll_end: the collectors in the order of the map, up to    *)
(* the first one that fails. An empty one is ended without output.         *)

ExecveFinished == execve.idx = execve.num
PathSolid      == \E n \in 0 .. MaxIdx + 1 : DOMAIN path = 0 .. n - 1

(* Slip: missing arguments are not noticed.                                *)
EndErrorWithoutExecve == IF ~PathSolid THEN "INVALID_PATH" ELSE "OK"

EndError ==
  IF ~ExecveFinished THEN "INVALID_EXECVE" ELSE IF ~PathSolid THEN "INVALID_PATH" ELSE "OK"

(* *pcount when the collectors' output records have made d of data.        *)
Count(d) == record_num + Len(d) - Len(data)

(* What ending a collector adds to the output records.                     *)
With(d, type, from, commas) ==
  IF from = <<>> THEN d ELSE Append(d, OutputRecord(type, Count(d), from, commas))

WithExecve(d) == IF execve.num = 0 THEN d ELSE With(d, "EXECVE", execve.taken, {})

(* The items of a solid tree in the order of their indices, and between    *)
(* them the separators which aushape_path_coll_end inserts.                *)
WithPath(d) ==
  LET n == Cardinality(DOMAIN path)
  IN  With(d, "PATH", [k \in 1 .. n |-> path[k - 1]], 2 .. n)

WithRep(d, t) ==
  LET list == items[t].list
  IN  With(d, t, [k \in 1 .. Len(list) |-> list[k].record],
           {k \in 1 .. Len(list) : list[k].comma})

(* Slip: the last collector of the map is not ended.                       *)
WithRepsButLast(d) ==
  LET add[k \in 0 .. Len(RepTypes)] == IF k = 0 THEN d ELSE WithRep(add[k - 1], RepTypes[k])
  IN  add[Len(RepTypes) - 1]

WithReps(d) ==
  LET add[k \in 0 .. Len(RepTypes)] == IF k = 0 THEN d ELSE WithRep(add[k - 1], RepTypes[k])
  IN  add[Len(RepTypes)]

Collected == WithReps(WithPath(WithExecve(data)))

Errors == {"NOMEM", "AUPARSE_FAILED", "REPEATED_RECORD", "INVALID_PATH", "INVALID_EXECVE"}

(* An empty event with an outcome in `dropped` is dropped; with one in     *)
(* `kept`, an event is rendered with its text.                             *)
FinishWith(dropped, kept) ==
  /\ pc = "records"
  /\ source # <<>>
  /\ pc' = "idle"
  /\ events' = events + 1
  /\ \E error \in IF error_rc # "OK" THEN {error_rc} ELSE {EndError, "NOMEM"} :
       LET d == IF error = "OK" THEN Collected ELSE data
       IN  /\ error_rc' = error
           /\ record_num' = Count(d)
           /\ result' = IF error \in dropped /\ Count(d) = 0
                        THEN [Nothing EXCEPT !.source = source]
                        ELSE [rc |-> "OK", source |-> source,
                              text |-> with_text \/ error \in kept,
                              data |-> IF error = "OK" THEN d ELSE <<>>, error |-> error]
  /\ Cleanup
  /\ UNCHANGED with_text

(* Slip: an event with an error is dropped like one without output records.*)
FinishDropping == FinishWith({"OK"} \union Errors, Errors)

(* The end of the event: without output records and errors it is dropped;  *)
(* otherwise it is rendered, with the data unless there was an error, and  *)
(* with the source text if that was asked for, or if there was an error.   *)
Finish == FinishWith({"OK"}, Errors)

(* A failure outside of the collectors, anywhere in the conversion.        *)
GiveUp ==
  /\ pc = "records"
  /\ pc' = "idle"
  /\ events' = events + 1
  /\ \E code \in {"NOMEM", "AUPARSE_FAILED"} : result' = [Nothing EXCEPT !.rc = code]
  /\ Cleanup
  /\ UNCHANGED <<with_text, record_num, error_rc>>

Init ==
  /\ with_text \in BOOLEAN
  /\ pc = "idle"
  /\ events = 0
  /\ source = <<>> /\ data = <<>>
  /\ record_num = 0
  /\ error_rc = "OK"
  /\ seen = {}
  /\ items = [t \in Reps |-> NoItems]
  /\ path = NoPath
  /\ execve = NoExecve
  /\ result = Nothing

Next == Start \/ AddRecord \/ Finish \/ GiveUp

Spec == Init /\ [][Next]_vars

-----------------------------------------------------------------------------

Rendered == pc = "idle" /\ result.rc = "OK" /\ (result.text \/ result.data # <<>>)

(* The records of an event, by their numbers.                              *)
OfType(src, t) == {k \in 1 .. Len(src) : src[k].type = t}
Elements(q)    == {q[k] : k \in 1 .. Len(q)}

(* The output record o is the k-th one, and has all records of its type.   *)
MadeOf(src, o, k) ==
  /\ Elements(o.from) = OfType(src, o.type)
  /\ \A i, j \in 1 .. Len(o.from) :
       i < j => IF o.type = "PATH" THEN src[o.from[i]].idx < src[o.from[j]].idx
                                   ELSE o.from[i] < o.from[j]
  /\ o.separated <=> k > 1
  /\ o.type \in Reps => o.commas = 2 .. Len(o.from)

WellMade(src, d) ==
  /\ \A k \in 1 .. Len(d) : MadeOf(src, d[k], k)
  /\ \A i, j \in 1 .. Len(d) : d[i].type = d[j].type => i = j

(* The data of an event has every input record except EOE and an EXECVE    *)
(* that announces no arguments; records of a type are in one output record *)
(* named after them, in order, PATH items in the order of their indices.   *)
(* The types are distinct, as members of a JSON object have to be, and     *)
(* separated by commas, and so are the items of a repeating one, even if a *)
(* failure to add one of their nodes has gone unnoticed.                   *)
DataComplete ==
  Rendered /\ result.error = "OK" =>
    LET d   == result.data
        src == result.source
    IN  /\ WellMade(src, d)
        /\ \A k \in 1 .. Len(src) :
             \/ src[k].type = "EOE"
             \/ src[k].type = "EXECVE" /\ \A j \in OfType(src, "EXECVE") : src[j].argc <= 0
             \/ \E i \in 1 .. Len(d) : d[i].type = src[k].type

(* An event whose records could not all be collected is output with its    *)
(* source text instead, whether that was asked for or not, and none of the *)
(* data it had so far. An event disappears only if none of its records has *)
(* any output.                                                             *)
NothingLost ==
  pc = "idle" /\ result.source # <<>> =>
    IF result.error # "OK" THEN result.text /\ result.data = <<>>
    ELSE ~result.text /\ result.data = <<>> =>
           \A k \in 1 .. Len(result.source) :
             \/ result.source[k].type = "EOE"
             \/ result.source[k].type = "EXECVE" /\ result.source[k].argc <= 0

Repeats(src) == \E t \in UniqTypes : Cardinality(OfType(src, t)) > 1

BadPath(src) ==
  LET idx == {src[k].idx : k \in OfType(src, "PATH")}
  IN  \/ ~\E n \in 0 .. MaxIdx + 1 : idx = 0 .. n - 1
      \/ Cardinality(idx) # Cardinality(OfType(src, "PATH"))

(* How many arguments the records up to each one have.                     *)
Args(src) ==
  LET args[k \in 0 .. Len(src)] ==
        IF k = 0 THEN 0 ELSE args[k - 1] + (IF src[k].type = "EXECVE" THEN src[k].args ELSE 0)
  IN  args

GoodExecve(src) ==
  LET recs == OfType(src, "EXECVE")
      argc == {k \in recs : src[k].argc > 0}
      need == IF argc = {} THEN 0 ELSE src[CHOOSE k \in argc : TRUE].argc
  IN  /\ Cardinality(argc) <= 1
      /\ Args(src)[Len(src)] = need
      /\ \A k \in argc, j \in recs :
           /\ j < k => src[j].args = 0
           /\ j > k => src[j].argc = -1

(* An error is due to the event's own records: a repeated type, PATH items *)
(* that are missing, repeated or without a valid index, or arguments that  *)
(* are missing or too many. And those are always noticed.                  *)
ErrorsJustified ==
  Rendered =>
    LET src == result.source
    IN  /\ result.error = "REPEATED_RECORD" => Repeats(src)
        /\ result.error = "INVALID_PATH" => BadPath(src)
        /\ result.error = "INVALID_EXECVE" => ~GoodExecve(src)
        /\ result.error = "OK" => ~Repeats(src) /\ ~BadPath(src) /\ GoodExecve(src)

(* What a collector refuses, whatever records are still to come.           *)
Repeated(src) ==
  \E i, j \in 1 .. Len(src) : i # j /\ src[i].type = src[j].type /\ src[i].type \in UniqTypes

InvalidPath(src) ==
  \E k \in OfType(src, "PATH") :
    \/ src[k].idx \notin 0 .. MaxIdx
    \/ \E j \in OfType(src, "PATH") : j # k /\ src[j].idx = src[k].idx

InvalidExecve(src) ==
  LET recs == OfType(src, "EXECVE")
  IN  \/ \E k, j \in recs : k < j /\ src[k].argc > 0 /\ src[j].argc # -1
      \/ \E j \in recs : src[j].args > 0 /\ \A k \in recs : k <= j => src[k].argc <= 0
      \/ \E k \in recs, n \in 1 .. Len(src) : src[k].argc > 0 /\ Args(src)[n] > src[k].argc

(* The records up to the k-th one, of which the others know nothing.       *)
UpTo(src, k)  == SubSeq(src, 1, k)
Accepted(src) == ~Repeated(src) /\ ~InvalidPath(src) /\ ~InvalidExecve(src)

(* The records before the k-th one are accepted; that one is refused, for  *)
(* what the code says.                                                     *)
FirstRefused(src, k, code) ==
  /\ Accepted(UpTo(src, k - 1))
  /\ code = "REPEATED_RECORD" => Repeated(UpTo(src, k))
  /\ code = "INVALID_PATH" => InvalidPath(UpTo(src, k))
  /\ code = "INVALID_EXECVE" => InvalidExecve(UpTo(src, k))

Reasons == {"REPEATED_RECORD", "INVALID_PATH", "INVALID_EXECVE"}

(* An event with several faults is output with the first of them as its    *)
(* error: that of the first record refused, whatever the records after it  *)
(* are, and whatever is missing in the end. If none was refused, arguments *)
(* that are missing come first, and then PATH items, as in the map.        *)
FirstErrorReported ==
  Rendered /\ result.error \in Reasons =>
    LET src == result.source
    IN  \/ \E k \in 1 .. Len(src) : FirstRefused(src, k, result.error)
        \/ /\ Accepted(src)
           /\ result.error = IF GoodExecve(src) THEN "INVALID_PATH" ELSE "INVALID_EXECVE"

-----------------------------------------------------------------------------
(* The invariant these properties follow from: what the collectors and the *)
(* data tree have of the records so far, and what a failed one has seen.   *)

OutputTypes   == UniqTypes \union Reps \union {"PATH", "EXECVE"}
OutputRecords ==
  [type : OutputTypes, separated : BOOLEAN, from : Seq(Nat), commas : SUBSET Nat]

TypeOK ==
  /\ with_text \in BOOLEAN
  /\ pc \in {"idle", "records"}
  /\ source \in Seq(Record)
  /\ data \in Seq(OutputRecords)
  /\ record_num \in Nat
  /\ error_rc \in {"OK"} \union Errors
  /\ seen \subseteq UniqTypes
  /\ items \in [Reps -> [nodes : Nat, list : Seq([record : Nat, comma : BOOLEAN])]]
  /\ path \in [DOMAIN path -> Nat] /\ DOMAIN path \subseteq 0 .. MaxIdx
  /\ execve \in [num : Nat, idx : Nat, taken : Seq(Nat)]

Types(d) == {d[k].type : k \in 1 .. Len(d)}

(* The record types seen are those with an output record already.          *)
UniqOK ==
  /\ record_num = Len(data)
  /\ WellMade(source, data)
  /\ Types(data) = seen
  /\ \A t \in UniqTypes : t \in seen <=> OfType(source, t) # {}
  /\ ~Repeated(source)

(* The items are those of the records, in order, and separated.            *)
ItemsOf(held, recs) ==
  LET list == held.list
  IN  /\ held.nodes > 0 <=> Len(list) > 0
      /\ {list[k].record : k \in 1 .. Len(list)} = recs
      /\ \A k \in 1 .. Len(list) : list[k].comma <=> k > 1
      /\ \A i, j \in 1 .. Len(list) : i < j => list[i].record < list[j].record

RepOK == \A t \in Reps : ItemsOf(items[t], OfType(source, t))

PathOK ==
  /\ \A i \in DOMAIN path : path[i] \in OfType(source, "PATH") /\ source[path[i]].idx = i
  /\ \A k \in OfType(source, "PATH") :
       source[k].idx \in DOMAIN path /\ path[source[k].idx] = k

(* The arguments are counted; none come before the record that says how    *)
(* many there will be.                                                     *)
Counted(src, held) ==
  LET recs == OfType(src, "EXECVE")
  IN  \/ held.num = 0 /\ held.idx = 0 /\ \A j \in recs : src[j].argc <= 0 /\ src[j].args = 0
      \/ /\ held.num > 0
         /\ \E k \in recs :
              /\ src[k].argc = held.num
              /\ \A j \in recs : /\ j < k => src[j].argc <= 0 /\ src[j].args = 0
                                 /\ j > k => src[j].argc = -1

ExecveOK ==
  LET taken == execve.taken
  IN  /\ Elements(taken) = OfType(source, "EXECVE")
      /\ \A i, j \in 1 .. Len(taken) : i < j => taken[i] < taken[j]
      /\ execve.idx = Args(source)[Len(source)] /\ execve.idx <= execve.num
      /\ Counted(source, execve)

FailedOK ==
  /\ error_rc = "REPEATED_RECORD" => Repeated(source)
  /\ error_rc = "INVALID_PATH" => InvalidPath(source)
  /\ error_rc = "INVALID_EXECVE" => InvalidExecve(source)

(* The code was set by the record that was refused, and stays.             *)
FirstOK == error_rc \in Reasons => \E k \in 1 .. Len(source) : FirstRefused(source, k, error_rc)

CollectorsEmpty ==
  /\ seen = {}
  /\ items = [t \in Reps |-> NoItems]
  /\ path = NoPath
  /\ execve.num = 0

ConvBufInv ==
  /\ TypeOK
  /\ pc = "idle" => CollectorsEmpty /\ execve = NoExecve /\ data = <<>> /\ source = <<>>
  /\ pc = "records" /\ error_rc = "OK" => UniqOK /\ RepOK /\ PathOK /\ ExecveOK
  /\ pc = "records" => FailedOK /\ FirstOK

=============================================================================
