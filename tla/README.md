# A model of aushape in TLA+

aushape turns the Linux audit log into XML or JSON documents. It is one
thread: the program (`src/aushape.c`) reads its input a piece at a time and
feeds it to a converter; auparse, a library, puts the log's lines together to
events and calls the converter back for each complete one, from inside of the
feed; the converter renders the event, wraps events in documents, and writes
them to an output. There is no concurrency within the program. What makes it
hard is the rest: callbacks from inside of a call, failures at any step of which
a later step has to take notice, writes that deliver a part, records lost or
in an unexpected order, and state which is used again for event after event.

Paths below are relative to the repository's root; in `PROJECT.json` they begin
with `src/`, the directory the repository is in.

## The parts, and what makes them correct

| part | state it keeps | operations | correct if |
|---|---|---|---|
| Converter, `lib/conv.c` | sticky `rc`, `in_doc`, `events_in_doc`, the output buffer | create, begin, input, flush, end, destroy; the callback `aushape_conv_cb` | the reader gets well-formed documents, each event once and in order, documents of the size asked for, nothing after a failure |
| Program, `src/aushape.c` | two file descriptors, output, converter, exit status | `main`, `create_converter` | exit status 0 means that everything was delivered; whatever was opened is closed once; it exits, if what it calls returns |
| Outputs, `lib/output.c`, `fd_output.c`, `syslog_output.c` | an FD, or the priority for syslog | write | bytes arrive once and in order, a write is whole or fails |
| Event conversion, `lib/conv_buf.c` | five trees, a collector | `aushape_conv_buf_add_event` and the prologue and epilogue of a document | an event is complete, or says why it is not; nothing is left for the next one |
| Collectors, `lib/coll.c`, `disp_coll.c`, `uniq_coll.c`, `rep_coll.c`, `path_coll.c`, `drop_coll.c` | records or items collected in this event | add, end, empty | each record is in one output record, in its place; repeated and missing ones are noticed |
| EXECVE collector, `lib/execve_coll.c` | counters of arguments and slices, a tree | the same | arguments, whole or in slices, end up in their own places; loss is noticed |
| Growing buffer tree, `lib/gbtree.c`, `gbnode.c` | nodes, priorities, peer lists, a text buffer, cached lengths and atomicity | void, put, add, trim, render, empty | a priority's peer list has all its nodes; an oversized event loses its least important parts, and no more |
| Growing arrays and buffers, `lib/garr.c`, `gbuf.c` | memory, its size, the length used | add, set, empty | what was stored is kept, through growing and failing to; the memory is as large as the struct says; calls for less than half of the memory return |
| Formatting, `lib/record.c`, `field.c` | none | format a record, a field | the text of an event is well-formed, wherever it is trimmed |
| Configuration, `lib/conf.c`, `syslog_misc.c` | the options' values | load | the program does what the help text says of its command line |
| A table and a helper, `lib/rc.c`, `auparse.c` | none | look up | |
| Schemas, `lib/aushape.xsd` and others | none | | |

They interact by calls only: the program calls the converter and the outputs'
constructors; the converter calls auparse, which calls it back, the event
conversion and the output; the event conversion calls the collectors through the
dispatcher; the conversion and the collectors put nodes into trees, and one tree
into another. Ownership moves from the program to the output (the file
descriptor) and to the converter (the output). A tree put in another one stays
the collector's, and lasts for the event.

The hazards, each at its line, are in `PROJECT.json`.

## The modules

### Documents and the converter

* `DocTokens` - a document's pieces of text (prologue, event, epilogue) and what
  a well-formed sequence of them is. An event knows whether it was rendered as
  the first of its document, since in JSON the others begin with a comma.
* `DocStream` - **abstract**: what the reader of the output is promised. A log
  is composed token by token and always well-formed; the reader has a prefix of
  it; an output for complete documents gets complete documents; after a failure
  nothing follows.
* `Conv` - `lib/conv.c`. A variable for each field of `struct aushape_conv`; one
  action for each library call and for each block of the callback (`CbPrologue`,
  `CbEvent`, `CbEpilogue`), since each block checks `conv->rc` anew. `Input` and
  `Flush` only begin the call, `CbReady` is auparse reporting an event from
  inside of it, `Leave` is the return of auparse, which may fail. What the
  output has accepted is `out`; what a failed write has delivered is `rest`. A
  rendering that fails may leave a piece of text in the buffer (`Torn`).
* `Conf` - `aushape_conf_load`, a function from command lines, as getopt takes
  them apart, to configurations: a set of one, or none if the command line is
  wrong. Numbers are as sscanf(3) of glibc stores them in a `size_t` or
  `ssize_t` of few bits, so that shifting a size wraps around, and a negative
  number is a large one. Next to it, and independent of it, what the help text
  says of a command line (`InHelpText`, `AsAsked`).
* `Aushape` - `main` and `create_converter` around `Conv`, which it extends, with
  a configuration from `Conf`: a step per call, with the file descriptors and the
  output as resources. `main` waits while the converter executes a call (`Wait`).
* `AushapeProofs` - proofs about `Conv`, `Aushape` and `Conf`, in one module, as
  what is proved of the converter is used for the program.

### Outputs

* `ByteStream` - **abstract**: a write delivers the piece and returns OK, or
  fails with a proper prefix of it delivered.
* `Output` - `aushape_output_write` for both types: the loop around write(2),
  which takes some bytes, none, is interrupted, or fails; and syslog(3), which
  takes a message whole, or is not called as it is too long.
* `OutputProofs` - proofs about `Output`.

`Conv` has an output that is as good as `ByteStream`, a piece being the buffer.

### Events

* `ExecveColl` - `lib/execve_coll.c`, with the kernel and the audit daemon around
  it, which split a call's arguments into fields and records, leave out empty
  arguments, and lose records. An action for each kind of field.
* `ExecveProofs` - proofs about `ExecveColl`.
* `ConvBuf` - `aushape_conv_buf_add_event` with the dispatcher and the collectors:
  `Start`, `AddRecord` for each record (`Dispatch` chooses the collector),
  `Finish`, and `GiveUp`, the failures after which the conversion ends at once.
  Records are known by their numbers.
* `ConvBufProofs` - proofs about `ConvBuf`.
* `Markup` - the same event once more, but with its text: the tokens, in XML or
  JSON, that `conv_buf.c`, the collectors, `record.c`, `field.c` and the escaping
  of `gbuf.c` put into nodes, and the priority each node has. `TrimEvent` leaves
  any cut that trimming can make. The choices made by hand here - which node a
  comma is in, and with what priority - have to agree across four files, so that
  every cut is well-formed. Two automata, over the tokens of a language each, say
  that is. An action for each kind of record, and for each part of the event.
* `MarkupProofs` - proofs about `Markup`.
* `PrioTree` - **abstract**: contents at positions, each with a priority.
* `GbTree` - `lib/gbtree.c` without trimming: the array of nodes, the array of
  priorities, the circular peer lists between them, the text buffer's tail. An
  action for each operation, with every allocation that may fail.
* `GbTreeProofs` - proofs about `GbTree`.
* `Trim` - `aushape_gbtree_trim` and what it calls, on the trees an event
  consists of - itself, its three parts, and those of the collectors, which are a
  constant - with their cached lengths and atomicity, and the end of
  `aushape_conv_buf_add_event` which trims, says so in the event, and trims
  again. A tree is the sequence of its priority levels, which is what `GbTree`
  represents. What calls itself in the code is written once (`TreeTrimmed`), and
  used for each depth: `RecordTrimmed`, `PartTrimmed`, `Trimmed`.
* `TrimProofs` - proofs about `Trim`.
* `Grow` - `lib/garr.c` and `lib/gbuf.c`, the memory under all of these: a step
  for each turn of the loop that doubles the size, in `size_t`, and for
  realloc(3), which may fail. What memory has that was not copied to it is
  `Garbage`. A buffer is an array with items of size 1 that also takes formatted
  text, with room for a terminator.
* `GrowProofs` - proofs about `Grow`.

`ConvBuf`, `ExecveColl`, `Trim` and `Markup` have an event each in their own
abstraction: which records are in it, which arguments, how long it is, and how it
reads. What one of them decides is a nondeterministic choice in the others: a
record that fails in `Markup`, a cut, lengths in `Trim`.

The names that say `Slip` in a comment are slips of the pen a programmer could
make. They are not a part of the model: `PROJECT.json` (`mutants`) names for
each property the definition which, replaced by such a slip, violates it.

## What the runs check

| run | instance | shows |
|---|---|---|
| `conv` | bare, counted (1, 2), sized and single documents; events of size 1 and 2; 4 events; documents begun up to 5 tokens | any order of library calls: `SeenWellFormed`, `LimitKept`, `EventsInOrder`, `FailureFinal`, `EndDelivers`, and the refinement `ImplementsStream` |
| `aushape` | command lines of up to two options, right and wrong; up to 3 events, up to 2 pieces of input | `ConfAsAsked`, `SuccessMeansDelivered`, `SingleMeansOne`, `CallsInOrder`, `ResourcesReleased`; the program `Exits`, as long as each call it makes returns |
| `output` | pieces of 0, 1, 3 and 4 bytes, 9 in all | `NoByteTwice`, the refinement `KeepsPromise`, `WriteReturns` |
| `execve` | two calls in a row with up to 3 arguments of up to 2 slices | `IsValid` (the collector's own assertion), `OwnPlace`, `AllPlaces`, `IntactComplete` |
| `convbuf` | two events of up to 4 records; a unique type, two repeating ones, PATH with two indices, EXECVE with one argument, EOE | `DataComplete`, `NothingLost`, `ErrorsJustified`, `FirstErrorReported` |
| `markup` | events of up to 4 records of two unique types, a repeating one, PATH with three indices, EXECVE with two arguments, or EOE; five kinds of event and format; two texts, one with characters to escape at both ends | `WellFormed`, `BeginningKept`, `AllThere` |
| `gbtree` | 4 nodes, 2 priorities, 1 byte of text | `PeersLinked`, `LevelsComplete`, `SpansDisjoint`, the refinement `ImplementsPrioTree` |
| `trim` | events of up to twice the size asked for, without a bound on their number | `KeptDownward`, `Fits`, `MarkedRight`, `FirstVoidsLowestPriority` |
| `grow` | up to 4 items of 1 and 3 bytes; sizes of 5 bits | `IsValid` (the assertion of every function), `ItemsKept`, `InPlaceSucceeds`, `Returns` |

`conv` and `gbtree` check the type invariants too. Three more runs show
disagreements of the code with what it says of itself:

* `execve_lost`: a record lost in the middle of a sliced argument goes unnoticed
  if a whole argument follows; the slices run into it, although such a sequence
  should be "invalid" (`lib/execve_coll.c:211`).
* `trim_stale`: a collector's tree that was atomic in one event - one argument
  only, or too long even when trimmed - is taken for atomic in later ones, and
  removed from them as a whole. Only in the first event, the nodes removed are
  those of the lowest priority (`FirstVoidsLowestPriority`).
* `conf_unlimited`: `--max-event-size=unlimited`, which the help text offers
  (`lib/conf.c:56`), is refused: what is behind the number is looked at even if a
  word was given (`lib/conf.c:282`). It is the default, if the option is left out.

Others are in the models, but no run of their own shows them:

* Empty arguments skipped by the kernel at the end of a call are an error,
  although there is a loop for adding them (`lib/execve_coll.c:541`). It never
  runs, as an unfinished sequence is refused before (`lib/execve_coll.c:533`).
* An event whose level zero alone is longer than asked for fails the assertion
  after trimming (`lib/conv_buf.c:674`), as neither the host name nor the
  indentation has a bound. A build without debugging has no assertions, and
  outputs an event that is too long.
* A size in kilobytes or megabytes that `size_t` has no room for is taken as what
  is left of it, if that is large enough (`lib/conf.c:284`); and a negative size
  is taken as a large one.
* The comma of a normalized field depends on its place in the table, not on
  whether another one was before it (`lib/conv_buf.c:263`). This is right as long
  as auparse names the kind of every event it can normalize, which `Markup` takes
  for granted.

### The bounds, and why they are enough

* `conv`: four events make two documents of the limit 2 and begin the next, or
  cross the size limit 3 with events of 1 and 2, exactly and beyond. `MaxLog`
  stops a client from opening empty single documents for ever. SSIZE_MAX is 7,
  which no counter reaches.
* `aushape`: two pieces of input allow one to be followed by another, by the end
  and by an error; three events exceed a limit of two. Two options can be the same
  one, given twice, or two that might disturb each other; no option looks at more
  than its own part of the configuration, so that a third adds nothing. Sizes are of 4 bits, the smallest one for an event is 2, and "k"
  and "m" stand for factors of 2 and 4, so that sizes are too small, right, wrap
  around to zero, to one that is too small, and to one that is not.
* `output`: the piece lengths give writes in one, two and several parts; IntMax
  is 3, so that messages of 4 are too long. With three pieces and more, a loop
  follows one that failed, and one that was short.
* `execve`: three arguments are enough for one that is skipped or sliced at the
  beginning, in the middle and at the end; two slices for one that is
  unfinished; two calls for what the first leaves behind.
* `convbuf`: four records have a repeated type together with two others, or two
  PATH items with one missing, and EXECVE records before and after each, or two
  or three that are refused for different reasons, one after the other, with
  something missing in the end as well. The second event meets whatever the first
  left.
* `markup`: a list needs three items for one to be neither first nor last: there
  are three indices, four records and, in `norm`, five priorities from four fields
  in all of their three forms. The trees begin empty for each event, as
  `lib/conv_buf.c` empties them all after each, so that one event at a time is enough. Normalized data does not
  depend on the records; the event that has it has one. Records lost within an
  argument are left out, as `execve_lost` shows that they are not well-formed.
* `grow`: four items of three bytes, doubled, are 24 bytes, below the 32 of 5 bits
  (`GrowAssumption` says that nothing needs half of the memory there is), and the
  initial sizes 1 and 3 are doubled up to two times in a call. Any call may fail
  or be followed by any other, without a bound.
* `gbtree`: with four nodes a peer list has a head, a tail, and one in between,
  and the other priority a node as well. The theorems hold for any bounds.
* `trim`: at most 7 bytes are asked for, and lengths are chosen so that levels
  fit exactly, by one, or not even when trimmed; a header of 8 does not fit by
  itself. There are two collectors' trees, of one or two levels, in level zero of
  the data or above it, so that there is a tree in a tree in a tree, and one
  collector's tree is cached while the other one is not. The caches take finitely
  many values, so the run covers events in any number. The theorems hold for any
  sizes, shapes and collectors.

### Fairness

* `Aushape`: weak fairness of the program's next step, `WF(MainNext)`. It is one
  thread that keeps running; it waits for nobody but the kernel. auparse
  reports finitely many events and returns. It stands for reading an input that
  ends, or fails, and for calls that return: a write and the formatting of an
  event are one step each. So `Exits` says nothing of a write(2) that is
  interrupted for ever (the next item), or of an indentation near SIZE_MAX, for
  which the loop of `lib/gbuf.c:80` does not end.
* `Output`: weak fairness of `TakeSome`, and of `TakeNone` when there is nothing
  left to take. The loop has no bound on its retries: it ends if write(2) is not
  interrupted for ever and does not for ever write nothing. That is assumed of
  the kernel, the code cannot justify it.

* `Grow`: weak fairness of `Loop`, the rest of a call that was begun. realloc(3)
  returns, and nothing else runs in the thread. That the loop ends is not assumed:
  it is what `Returns` says, of calls for less than half of the memory
  (`GrowAssumption`). For more the size wraps around, to zero in the end, and the
  loop goes on for ever.

The other modules are about safety only. A client of the converter may stop at
any time.

## What is proved

TLAPS proves, for all values of the constants allowed by the `ASSUME`s, every
safety invariant and action property that the passing runs check, but for
`WellFormed` of `Markup`. The inductive invariants are definitions in the module
they are about, below its properties, as conjunctions of named parts; on the
runs' instances TLC agrees with them.

* `AushapeProofs`, about the converter. `ConvInvariant` is inductive: until the first failure, what the
  output has and the buffer holds is one well-formed text (`TextOK`); `in_doc`
  says whether it ends inside a document, and `events_in_doc` whether right
  after a prologue (`DocStateOK`); and a callback is always inside of a document
  when it should be (`CallbackOK`). Without the second, the separator of the next
  event, or the next prologue, could be wrong; without the third, a single
  document could be closed during a feed. The invariant says nothing of the text
  after a failure, but what was written is well-formed and stays as it was:
  `OutputWellFormed` (`SeenWellFormed`) and `SilentAfterFailure`
  (`FailureFinal`) follow. `Refinement` maps each step to a step of `DocStream`
  or a stutter: a rendering composes one token that fits, a write delivers
  everything composed.

  Three more results have an invariant of their own. `OnceAndInOrder`
  (`EventsInOrder`) is inductive by itself once `ConvInv` is known.
  `DocumentsLimited` (`LimitKept`) needs that the counter equals the events, or
  their sizes, since the last prologue, and is below the limit but between an
  event and the end of its document (`CountOK`): the code compares the counter,
  the property is about the text. `EndHandsOver` (`EndDelivers`) needs that the
  buffer is empty outside of documents (`HeldOK`).
* `AushapeProofs`, about the program. `ProgramRunsConverter`: a program step is a converter step or
  leaves it alone, so `ConvInv` is the program's. `MainInvariant` (`MainInv`) goes
  through the places of `main` and says at each who owns the file descriptors and
  the output (`OwnershipOK`), in which state the converter is and which call it
  can be in (`ConverterOK`), that nothing goes on after a failure and a single
  document stays the one it is (`CallsOK`), and how much of the input has got
  through (`DeliveryOK`). `EverythingReleased`, `CallsAllowed`, `SingleIsOne` and
  `SuccessIsDelivery` follow, the last one with `EventsInOrder`: that no event is
  missing is a fact about the converter, that there are no more is one about `main`.

  A command line may have any number of options. `WithMeans` says that an option
  sets one field, or is refused; no two set the same one (`FieldsApart`); so by
  induction on the number of options (`OneMoreOption`, `LastCounts`) each field is
  its default or as the last word for it, and `CommandLineObeyed` (`ConfAsAsked`)
  follows for each field. For sizes that needs arithmetic: a product below
  the modulus is what the shift makes (`SizeMeans`). The same induction shows
  that a command line has one meaning at most (`LoadedOnce`), which `MainInv`
  needs, as the converter's format is chosen before.
* `OutputProofs`. `OutputInvariant`: in the loop, what is left to write is the
  end of what was given, and what was written is the end of the file (`LoopOK`);
  that gives `NoByteTwice`. `OutputRefinement`: the steps of the loop are
  stutters, the last one is the write of `ByteStream`.
* `GbTreeProofs`. `TreeInvariant` says of the peer lists that links lead there
  and back within a priority, and that each list is *one* ring: a set of nodes
  which has the head and is closed under `next` has them all. Links there and
  back alone allow a priority with two rings, of which a walk from the head sees
  one. Put as a property of closed sets, the ring needs no induction over the
  length of a walk: unlinking a node, a set closed afterwards is closed before
  together with that node; linking one, likewise.
  `LinksCorrect`, `WalksComplete`, `SpansApart` and `TreeTypeCorrect` follow,
  and `TreeRefinement` shows that arrays and lists implement `PrioTree`; a put
  that fails for want of memory removes what it should have replaced.
* `GrowProofs`. `GrowInvariant` (`GrowInv`): what is allocated, or about to be,
  is the first size, or twice one that was too small. With `GrowAssumption` -
  nothing needs half of what `size_t` can count - it is below the modulus, so
  that no doubling wraps around (`SizesOK`). Memory is asked for only when there
  is not enough, and what is stored next leaves no gap (`CallOK`); what was
  stored is at the beginning of the memory (`StoredOK`).
  `SizesValid` (`IsValid`), `NothingOverwritten` (`ItemsKept`) and
  `InPlaceNeverFails` (`InPlaceSucceeds`) follow. None of them says anything of
  sizes that wrap around, which the assumption excludes.
* `ExecveProofs`. `ExecveInvariant` (`ExecveInv`): until there is an error, the
  tree has a node for each argument counted, one before them, and at the end one
  after them (`ShapeOK`); what a node has belongs to the argument it stands for,
  whatever was lost. As long as nothing is lost and nothing fails, the collector is
  where the kernel has got to, but for empty arguments just skipped (`IntactOK`).
  `AlwaysValid` (`IsValid`), `ArgumentsInPlace` (`OwnPlace`), `ArgumentsCounted`
  (`AllPlaces`) and `CallsPutTogether` (`IntactComplete`) follow, for calls of any
  number of arguments and slices.
* `ConvBufProofs`. The collectors see one record at a time; the properties are
  about the whole event. `ConvBufInvariant` (`ConvBufInv`) says what each collector
  holds of the records so far: the unique one just the types of the output
  records (`UniqOK`), the repeating ones all records of their type in order,
  separated although some of their nodes may be missing (`RepOK`), the PATH one a
  record for each index (`PathOK`), the EXECVE one the sum of the arguments,
  and the record that has announced them (`ExecveOK`). When a collector has
  refused a record, the reason is one that no later record can take away
  (`FailedOK`, `StillRefused`): without that, `ErrorsJustified` would not survive
  the records that follow an error, which are not collected any more. The record
  refused stays the one that is reported, too (`FirstOK`): the records before it,
  which were all taken, are a beginning of the event that every collector accepts
  (`TakenAccepted`), and adding records changes no beginning (`Beginnings`). The end of
  the event is then calculated: each collector adds one output record with all
  records of its type (`WithOK`, and by induction over the map `RepsEnded`), and
  a PATH list is solid, or a sequence of arguments finished, just if the event's
  own records say so (`PathJudged`, `ExecveJudged`). `DataAlwaysComplete`,
  `NoEventLost`, `ErrorsAreJustified` and `FirstErrorIsReported` follow.
  `ConvBufAssumption` says of the types that each is in the map of
  `lib/conv_buf.c` once, which it is, and that the unique collector has the
  others.
* `TrimProofs`. `TrimInvariant` (`TrimInv`): trimming only ever removes levels
  from the end of a tree (`LevelsOK`), and the lengths cached for the trees still in
  the event are theirs once it is measured (`LengthsOK`), whatever earlier events
  have left in the caches. Both together make `Fits` provable: the event is as long
  as its cached length says. The lemmas go up the depths: what is true of a
  collector's tree trimmed to what is left for it, is used for the part that has
  it, and that for the event; at each depth there is one about the cut and one
  about which priorities lost something before which. The event is then followed
  through its two trimmings, as the second one meets the caches of the first:
  `TrimKeptDownward` (`KeptDownward`), `TrimFits` (`Fits`) and
  `TrimMarkedRight` (`MarkedRight`) hold for every event. Only of the first one
  is it true that a tree taken for atomic is as short as it can be, so that something
  is missing from the last level only (`FreshOK`); `TrimFirstVoidsLowestPriority`
  (`FirstVoidsLowestPriority`) needs that, and `trim_stale` shows that it cannot be
  had for later ones. `TrimAssumption` says that collectors' trees are told apart
  from the parts, that no level of a tree is empty, and that each tree is in one
  place: `conv_buf.c` and the collectors put them so.

* `MarkupProofs`. `MarkupInvariant` (`MarkupInv`) follows every list of an event -
  lines, records, arguments, items, normalized fields - through the collectors
  that fill it, at any number of records. Each number is in one node, its priority
  is the one the number stands for, and the nodes before it have all of the lower
  numbers and no others (`Rising`): a cut, which keeps the priorities up to one,
  then keeps a beginning. This is what the code has to get right by hand: a record
  or item goes to a node by counting, with a priority counted separately; the
  items of a normalized list have priorities among those of the fields; and an
  argument may be in the tail of the text, and in no node, for several
  records (`ExecveOK`). PATH records come in any order, so that there is no
  beginning while there are gaps; an item is told by its place instead (`Spread`),
  which becomes `Rising` when the list turns out to be without gaps (`PathOK`).
  `DataOK` and `EventOK` say which trees are in which, and that the number of
  output records is that of the nodes. What the invariant says of completeness
  holds until the event is cut, which the event then is marked for. The text of
  a node is made by recursive functions over fields, arguments, characters;
  it matters only which numbers a text has, and that is proved by induction for
  each of the functions. `MarkupBeginningKept` (`BeginningKept`) and
  `MarkupAllThere` (`AllThere`) follow, for any texts, records and bounds.
  `MarkupAssumption` says of the inputs that they are finite sequences.

Induction over the natural numbers, for the recursive functions of `Conf`,
`ConvBuf`, `Trim` and `Markup`, is a lemma about sets (`SetInduction`), as the
library's theorem about operators cannot be used by the provers installed.

Only model-checked:

* `Exits`, `WriteReturns` and `Returns`, which need fairness: TLAPS cannot prove
  liveness.
* `WellFormed`: a run of the automata over the whole text, concatenated from all
  nodes, at every cut. It needs an invariant of the automaton's state after each node,
  for every cut, by induction over texts within texts; and both the concatenation
  and the automata are operators that take operators, of which the provers can
  expand only the instances.
* The three disagreements above, each of which is a counterexample.

## Not modelled, and why

* Indentation and folding (`aushape_gbuf_space_opening` and `_closing`), and the
  wording of everything: a token stands for it, a length in `Trim`. An indentation
  near SIZE_MAX is excluded by `GrowAssumption`; the code does not exclude it, and
  the program need not exit with it.
* Which characters are escaped, and how; only that those, and no others, are.
* A failure to allocate in the middle of an event is a choice wherever callers
  check it, and once where they do not (`lib/rep_coll.c:175`); `Grow` has what
  memory is then like.
* The parts of `auparse` that are used, and its helper `lib/auparse.c`, are outside:
  they choose what a record is.
* The dumps of trees for debugging, which change nothing.
* Trimming distributes a length over several tree nodes of a level. No level of
  an event has more than one, so in `Trim` it goes to that one.
* Creation and destruction of the trees and collectors: memory only.
* The names of return codes and languages, which are constant tables, and the
  schemas, which are data.

## Plan

Done, in this order: `DocTokens`, `DocStream`, `Conv`; `Aushape`;
`ByteStream`, `Output`; `ExecveColl`; `ConvBuf`; `PrioTree`, `GbTree`; `Trim`;
`Markup`, `Grow`, `Conf`.

Proved: all of the above, but for liveness and `WellFormed`.

To do:

1. The converter's output as `ByteStream` instead of its pieces, composing
   `Refinement` and `OutputRefinement`.
2. A form of `WellFormed` that can be proved: what a node's text does to an
   automaton as a relation between its states, and the relations of the nodes that
   a cut keeps composed.
