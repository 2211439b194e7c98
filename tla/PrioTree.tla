------------------------------- MODULE PrioTree -------------------------------
(***************************************************************************)
(* What include/aushape/gbtree.h promises of a growing buffer tree, without *)
(* arrays and lists: contents at positions, each with a priority. A text    *)
(* node has the text added to the buffer since the text node before.        *)
(***************************************************************************)
EXTENDS Integers

CONSTANTS
  Indices, \* the positions nodes may have
  Prios    \* the priorities nodes may have

VARIABLES
  content, \* a function from the positions of the nodes to what is there
  written, \* the bytes in the text buffer, known by their numbers
  pending  \* those which belong to no node yet

vars == <<content, written, pending>>

Positions == DOMAIN content

Init ==
  /\ content = [i \in {} |-> 0]
  /\ written = 0
  /\ pending = {}

(* Text is added to the buffer.                                            *)
Write ==
  /\ written' > written
  /\ pending' = pending \union written .. written' - 1
  /\ UNCHANGED content

Put(i, c) == content' = [j \in Positions \union {i} |-> IF j = i THEN c ELSE content[j]]

Keep(S) == content' = [j \in S |-> content[j]]

PutText(i, p) ==
  /\ Put(i, [type |-> "TEXT", prio |-> p, text |-> pending])
  /\ pending' = {}
  /\ UNCHANGED written

PutTree(i, p) ==
  /\ Put(i, [type |-> "TREE", prio |-> p, text |-> {}])
  /\ UNCHANGED <<written, pending>>

(* A node is removed, on demand or because it could not be replaced.       *)
Remove(i) == Keep(Positions \ {i}) /\ UNCHANGED <<written, pending>>

(* All the nodes of a priority are removed, and no others.                 *)
RemovePrio(p) ==
  /\ Keep({i \in Positions : content[i].prio # p})
  /\ UNCHANGED <<written, pending>>

Empty == content' = [i \in {} |-> 0] /\ written' = 0 /\ pending' = {}

Next ==
  \/ Write
  \/ \E i \in Indices, p \in Prios : PutText(i, p) \/ PutTree(i, p)
  \/ \E i \in Indices : Remove(i)
  \/ \E p \in Prios : RemovePrio(p)
  \/ Empty

Spec == Init /\ [][Next]_vars

=============================================================================
