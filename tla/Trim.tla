-------------------------------- MODULE Trim --------------------------------
(***************************************************************************)
(* Trimming an event to the size that was asked for: aushape_gbtree_trim   *)
(* and what it needs (lib/gbtree.c, lib/gbnode.c), and its use at the end  *)
(* of aushape_conv_buf_add_event (lib/conv_buf.c).                         *)
(*                                                                         *)
(* A tree is the levels of its nodes, by priority, which the peer lists of *)
(* GbTree represent. In this program a level has text nodes and at most    *)
(* one tree node, and trees are nested three deep: the event has its parts,*)
(* the data have the records of collectors. What calls itself in the code  *)
(* is written once here, and used for each depth. The trees are used for   *)
(* event after event.                                                      *)
(***************************************************************************)
EXTENDS Integers, Sequences, SequencesExt

CONSTANTS
  MaxSize,      \* format.max_event_size
  MarkLen,      \* the length of the "trimmed" attribute or member
  HeaderLens,   \* lengths of the header and the other text of the event itself
  Records,      \* the trees of collectors
  TextShapes,   \* what the trees may look like: sequences of levels
  DataShapes,
  RecordShapes,
  NormShapes

None  == "none"
Parts == {"text", "data", "norm"}
Trees == {"event"} \union Parts \union Records

(* The trees that may be in a tree.                                        *)
Within(t) == CASE t = "event" -> Parts [] t = "data" -> Records [] OTHER -> {}

(* A level: the length of its text nodes, and its tree node.               *)
Level(S)   == [own : Nat, tree : S \union {None}]
Leaf(n)    == [own |-> n, tree |-> None]
Node(n, t) == [own |-> n, tree |-> t]
Absent     == Leaf(0)

(* Every tree begins with its level zero, and no level is empty.           *)
ShapesOf(S) ==
  {s \in Seq(Level(S)) :
     /\ s # <<>> /\ s[1].own > 0
     /\ \A p \in 1 .. Len(s) : s[p].own > 0 \/ s[p].tree # None
     /\ \A p, q \in 1 .. Len(s) : p # q /\ s[p].tree = s[q].tree => s[p].tree = None}

ASSUME TrimAssumption ==
  /\ MaxSize \in Nat /\ MarkLen \in Nat \ {0} /\ HeaderLens \subseteq Nat \ {0}
  /\ Records \intersect (Parts \union {"event", None}) = {}
  /\ TextShapes \union RecordShapes \union NormShapes \subseteq ShapesOf({})
  /\ DataShapes \subseteq ShapesOf(Records)

VARIABLES
  pc,     \* "ready" for an event, "built", "trimmed" once, "done", or "aborted"
  tree,   \* the trees: their levels, and the caches `atomic` and `len`
  marked, \* whether the event says that it was trimmed
  built,  \* the levels of the trees before trimming
  fresh   \* whether this is the first event

vars == <<pc, tree, marked, built, fresh>>

-----------------------------------------------------------------------------

LevelLen(f, v) == v.own + IF v.tree = None THEN 0 ELSE f[v.tree].len

(* The length of the first n levels of a tree, and of all of them.         *)
UpTo(f, t) ==
  LET at[n \in 0 .. Len(f[t].levels)] ==
        IF n = 0 THEN 0 ELSE at[n - 1] + LevelLen(f, f[t].levels[n])
  IN  at

Total(f, t) == UpTo(f, t)[Len(f[t].levels)]

(* The trees that are in the event.                                        *)
Children(s) == {s[p].tree : p \in 1 .. Len(s)} \ {None}
Linked(f) ==
  LET below == Children(f["event"].levels)
  IN  {"event"} \union below \union UNION {Children(f[t].levels) : t \in below}

(* aushape_gbtree_get_len(tree, false) of the event: the lengths of the    *)
(* trees in it are calculated, from the inner ones to the outer ones.      *)
Sized(f, S) == [t \in Trees |-> IF t \in S THEN [f[t] EXCEPT !.len = Total(f, t)] ELSE f[t]]
Measured(f) ==
  Sized(Sized(Sized(f, Linked(f) \intersect Records), Linked(f) \intersect Parts), {"event"})

(* aushape_gbtree_is_atomic(tree, false) of a part: a tree is atomic       *)
(* without nodes above level zero, or trees in it that are not.            *)
Judge(f, t) ==
  LET c == f[t].levels[1].tree
  IN  [f EXCEPT ![t].atomic =
         (c = None \/ f[c].atomic) /\ \A p \in 2 .. Len(f[t].levels) : f[t].levels[p] = Absent]

Judged(f, t) ==
  LET c == f[t].levels[1].tree
  IN  Judge(IF c = None THEN f ELSE Judge(f, c), t)

(* How many levels fit.                                                    *)
Fitting(f, t, max) ==
  LET len == UpTo(f, t)
  IN  CHOOSE n \in 0 .. Len(f[t].levels) :
        len[n] <= max /\ (n < Len(f[t].levels) => len[n + 1] > max)

(* Slips: a level that is too long even when trimmed is kept; level zero   *)
(* can be removed; a level that just fits is removed.                      *)
KeptAnyway(p, len, max)  == p
KeptNothing(p, len, max) == IF len <= max THEN p ELSE p - 1
KeptShort(p, len, max)   == IF len < max \/ p = 1 THEN p ELSE p - 1

(* How many levels are kept after level p is trimmed, if their length then *)
(* is len: it is removed if it does not fit, except for level zero.        *)
Kept(p, len, max) == IF len <= max \/ p = 1 THEN p ELSE p - 1

(* The other levels are voided, and what is known now is cached.           *)
Voided(f, t, max, kept) ==
  LET len == UpTo(f, t)[kept]
  IN  [f EXCEPT ![t] = [levels |-> SubSeq(f[t].levels, 1, kept), len |-> len, atomic |-> len > max]]

(* aushape_gbtree_prio_trim of a level that is too long. Its text nodes    *)
(* stay; its tree node is trimmed to what they leave, unless it is atomic. *)
(* After that the level fits, or is atomic: the loop ends.                 *)
PrioTrimmed(f, t, atomic_cached, p, max, Inner(_, _, _)) ==
  LET v == f[t].levels[p]
      g == IF v.tree = None \/ atomic_cached THEN f ELSE Judged(f, v.tree)
  IN  IF v.tree = None \/ g[v.tree].atomic \/ g[v.tree].len = 0
      THEN g
      ELSE Inner(g, v.tree, IF max > v.own THEN max - v.own ELSE 0)

(* aushape_gbtree_trim: of the levels that do not fit, the first is        *)
(* trimmed, to what the ones before it leave.                              *)
TreeTrimmed(f, t, atomic_cached, max, Inner(_, _, _)) ==
  LET n == Fitting(f, t, max)
      g == PrioTrimmed(f, t, atomic_cached, n + 1, max - UpTo(f, t)[n], Inner)
  IN  IF n = Len(f[t].levels) THEN Voided(f, t, max, n)
      ELSE Voided(g, t, max, Kept(n + 1, UpTo(g, t)[n + 1], max))

(* The three depths. Trees in a tree are trimmed with what is cached.      *)
NoTree(f, t, max)         == f
RecordTrimmed(f, t, max)  == TreeTrimmed(f, t, TRUE, max, NoTree)
PartTrimmed(f, t, max)    == TreeTrimmed(f, t, TRUE, max, RecordTrimmed)
Trimmed(f, atomic_cached) == TreeTrimmed(f, "event", atomic_cached, MaxSize, PartTrimmed)

-----------------------------------------------------------------------------

(* An event with its trees. It has no text unless asked for or in case of  *)
(* an error, in which case it has no data.                                 *)
Build ==
  /\ pc = "ready"
  /\ pc' = "built"
  /\ \E h \in HeaderLens, text \in TextShapes, data \in DataShapes,
        record \in [Records -> RecordShapes], norm \in NormShapes,
        present \in {{"text", "data"}, {"text"}, {"data"}}, with_norm \in BOOLEAN :
       LET at(t) == IF t \in present THEN Node(0, t) ELSE Absent
           event == <<Leaf(h), at("text"), at("data"),
                      IF with_norm THEN Node(0, "norm") ELSE Absent>>
       IN  built' = [t \in Trees |-> CASE t = "event" -> event [] t = "text" -> text
                                       [] t = "data" -> data [] t = "norm" -> norm
                                       [] OTHER -> record[t]]
  /\ tree' = [t \in Trees |-> [tree[t] EXCEPT !.levels = built'[t]]]
  /\ marked' = FALSE
  /\ UNCHANGED fresh

(* The assertion that the event fits now, which only a debugging build has.*)
AssertFits(f, next) == {next} \union IF f["event"].len <= MaxSize THEN {} ELSE {"aborted"}

(* Slip: an event shorter than asked for is taken for a trimmed one.       *)
TrimShortEvent ==
  /\ pc = "built"
  /\ LET g == Trimmed(Measured(tree), FALSE)
     IN  /\ tree' = g
         /\ pc' \in AssertFits(g, IF g["event"].len < MaxSize THEN "trimmed" ELSE "done")
  /\ UNCHANGED <<marked, built, fresh>>

TrimEvent ==
  /\ pc = "built"
  /\ LET f == Measured(tree)
         g == Trimmed(f, FALSE)
     IN  /\ tree' = g
         /\ pc' \in AssertFits(g, IF g["event"].len < f["event"].len THEN "trimmed" ELSE "done")
  /\ UNCHANGED <<marked, built, fresh>>

(* The text that says so is put, at level zero, and the event is trimmed   *)
(* again, with what is cached now.                                         *)
Marked(f) == [f EXCEPT !["event"].levels[1].own = @ + MarkLen]

MarkAndTrim ==
  /\ pc = "trimmed"
  /\ LET g == Trimmed(Marked(tree), TRUE)
     IN  tree' = g /\ pc' \in AssertFits(g, "done")
  /\ marked' = TRUE
  /\ UNCHANGED <<built, fresh>>

(* The event is rendered, and the trees are emptied, but not their caches. *)
Render ==
  /\ pc = "done"
  /\ pc' = "ready"
  /\ tree' = [t \in Trees |-> [tree[t] EXCEPT !.levels = <<>>]]
  /\ built' = [t \in Trees |-> <<>>]
  /\ fresh' = FALSE
  /\ marked' = FALSE

Init ==
  /\ pc = "ready"
  /\ tree = [t \in Trees |-> [levels |-> <<>>, atomic |-> FALSE, len |-> 0]]
  /\ built = [t \in Trees |-> <<>>]
  /\ marked = FALSE
  /\ fresh = TRUE

Next == Build \/ TrimEvent \/ MarkAndTrim \/ Render

Spec == Init /\ [][Next]_vars

-----------------------------------------------------------------------------

Original(t) ==
  IF t = "event" /\ marked THEN [built[t] EXCEPT ![1].own = @ + MarkLen] ELSE built[t]

(* Whatever is in the event has its level zero, with the beginning and the *)
(* end of its markup, and no level without those of a higher priority,     *)
(* on which the separators rely.                                           *)
KeptDownward ==
  pc = "done" =>
    \A t \in Linked(tree) : tree[t].levels # <<>> /\ IsPrefix(tree[t].levels, Original(t))

(* An event that is rendered is not longer than asked for, even when it    *)
(* says that it was trimmed; only when its level zero is too long by       *)
(* itself, trimming does not succeed, and leaves nothing but that.         *)
Fits ==
  LET levels == tree["event"].levels
  IN  pc \in {"done", "aborted"} =>
        \/ Measured(tree)["event"].len <= MaxSize
        \/ Len(levels) = 1 /\ levels[1].own > MaxSize

(* An event says that it was trimmed if, and only if, something is missing.*)
Short(f, b, t) == Len(f[t].levels) < Len(b[t])

MarkedRight ==
  pc = "done" => (marked <=> \E t \in Linked(tree) : Short(tree, built, t))

(* The least that is left of a tree when trimmed, and of a level: trees    *)
(* keep their level zero. By depth, b has the levels of the trees.         *)
LeastRecord(b, t) == b[t][1].own
LeastPart(b, t)   == b[t][1].own + IF b[t][1].tree = None THEN 0 ELSE LeastRecord(b, b[t][1].tree)
Least(b, v)       == v.own + IF v.tree = None THEN 0 ELSE LeastPart(b, v.tree)

(* The first level missing, from a tree or, if its last level has a tree   *)
(* in which something is missing, from that.                               *)
LastTree(f, t) == f[t].levels[Len(f[t].levels)].tree
AfterLast(f, b, t) == b[t][Len(f[t].levels) + 1]

Incomplete(f, b, t) == Short(f, b, t) \/ \E c \in Children(f[t].levels) : Short(f, b, c)

MissingIn(f, b, t) ==
  LET c == LastTree(f, t)
  IN  IF c # None /\ Incomplete(f, b, c) THEN AfterLast(f, b, c) ELSE AfterLast(f, b, t)

FirstMissing(f, b) ==
  LET c == LastTree(f, "event")
  IN  IF c # None /\ Incomplete(f, b, c) THEN MissingIn(f, b, c) ELSE AfterLast(f, b, "event")

(* "voiding nodes of the lowest possible priority until the total contents *)
(* fits": a level is voided only if it would not fit even when trimmed.    *)
VoidsLowestPriority ==
  pc = "done" /\ marked =>
    Measured(tree)["event"].len + Least(built, FirstMissing(tree, built)) > MaxSize

(* So it is in the first event, whatever that is.                          *)
FirstVoidsLowestPriority == fresh => VoidsLowestPriority

-----------------------------------------------------------------------------
(* The invariant by which these are proved, see TrimProofs.                *)

Forest == [Trees -> [levels : Seq(Level(Trees)), len : Nat, atomic : BOOLEAN]]

TypeOK ==
  /\ pc \in {"ready", "built", "trimmed", "done", "aborted"}
  /\ tree \in Forest
  /\ built \in [Trees -> Seq(Level(Trees))]
  /\ marked \in BOOLEAN /\ fresh \in BOOLEAN

(* The trees are what conv_buf.c and the collectors make: the event has    *)
(* its header, and the text or the data, or both.                          *)
EventShape(s) ==
  /\ s \in Seq(Level(Parts)) /\ Len(s) = 4
  /\ s[1].own > 0 /\ s[1].tree = None
  /\ s[2].tree \in {None, "text"} /\ s[3].tree \in {None, "data"} /\ s[4].tree \in {None, "norm"}
  /\ s[2].tree # None \/ s[3].tree # None

WellShaped(b) ==
  EventShape(b["event"]) /\ \A t \in Trees \ {"event"} : b[t] \in ShapesOf(Within(t))

(* Trees lose levels from the end only, until they are emptied.            *)
LevelsOK ==
  pc # "ready" =>
    /\ WellShaped(built)
    /\ \A t \in Trees : tree[t].levels # <<>> /\ IsPrefix(tree[t].levels, Original(t))
    /\ pc = "built" => \A t \in Trees : tree[t].levels = built[t]

(* The cached lengths of what was in the event are right once measured.    *)
Present(b) ==
  LET below == Children(b["event"])
  IN  below \union UNION {Children(b[t]) : t \in below}

LengthsOK ==
  pc \in {"trimmed", "done", "aborted"} =>
    /\ \A t \in Present(built) : tree[t].len = Total(tree, t)
    /\ \/ Total(tree, "event") <= MaxSize
       \/ Len(tree["event"].levels) = 1 /\ tree["event"].levels[1].own > MaxSize

MarkOK ==
  /\ marked => pc \in {"done", "aborted"}
  /\ pc \in {"trimmed", "done"} =>
       ((pc = "trimmed" \/ marked) <=> \E t \in Linked(tree) : Short(tree, built, t))

(* A tree taken for atomic is no longer than the least it can be.          *)
AtomicRight(f, b, S) == \A t \in S : f[t].atomic => Total(f, t) = LeastPart(b, t)

(* Something is missing from the last level only of what is left.          *)
OnlyLast(f, b, S) ==
  \A t \in S : \A p \in 1 .. Len(f[t].levels) - 1 :
     f[t].levels[p].tree # None => ~Incomplete(f, b, f[t].levels[p].tree)

FreshOK ==
  fresh =>
    /\ pc \in {"ready", "built"} => \A t \in Trees : ~tree[t].atomic
    /\ pc = "trimmed" => AtomicRight(tree, built, Present(built))
    /\ pc = "trimmed" => OnlyLast(tree, built, Present(built) \union {"event"})
    /\ pc = "trimmed" \/ (pc = "done" /\ marked) =>
         Total(tree, "event") + Least(built, FirstMissing(tree, built)) > MaxSize

TrimInv == TypeOK /\ LevelsOK /\ LengthsOK /\ MarkOK /\ FreshOK

=============================================================================
