------------------------------- MODULE GbTree -------------------------------
(***************************************************************************)
(* A growing buffer tree, lib/gbtree.c: an array of nodes, which are        *)
(* rendered in the order of their indices, and an array of priorities with  *)
(* the heads of the peer lists: circular doubly-linked lists, through the   *)
(* nodes, of those with the same priority. Trimming walks the peer lists.   *)
(* A text node is a span of the tree's text buffer.                         *)
(***************************************************************************)
EXTENDS Integers

CONSTANTS
  MaxIndex, \* bound: the highest index of a node
  MaxPrio,  \* bound: the highest number of a priority
  MaxText   \* bound: the length of the text

ASSUME GbTreeAssumption == MaxIndex \in Nat /\ MaxPrio \in Nat /\ MaxText \in Nat

VARIABLES
  nodes,    \* gbtree->nodes: a function from the indices
  prios,    \* gbtree->prios: a function from the priorities to indices of nodes
  text_len, \* gbtree->text.len
  tail      \* gbtree->tail: the end of the last text node's span

vars == <<nodes, prios, text_len, tail>>

(* SIZE_MAX, which is no node's index.                                     *)
None == -1

(* A void node: zeroed memory, and after a node was voided whatever it had *)
(* in it, which nobody looks at. So here it is zeroed again.               *)
Blank == [type |-> "VOID", prio |-> 0, prev |-> 0, next |-> 0, pos |-> 0, len |-> 0]

Live(n) == n.type # "VOID"

(* The first n of an array's items and more, until index i is among them.  *)
Grown(a, i, item) == [j \in DOMAIN a \union 0 .. i |-> IF j \in DOMAIN a THEN a[j] ELSE item]

-----------------------------------------------------------------------------
(* aushape_gbtree_node_void: what it makes of the nodes, and of the        *)
(* priorities. A node that is not there yet is allocated.                  *)

IsLive(i) == i \in DOMAIN nodes /\ Live(nodes[i])
Alone(i)  == nodes[i].next = i

(* Slip: the node that comes next keeps its link to the voided one.        *)
VoidNodesHalf(i) ==
  IF IsLive(i)
  THEN [j \in DOMAIN nodes |->
          IF j = i THEN Blank
          ELSE [nodes[j] EXCEPT
                  !.next = IF j = nodes[i].prev THEN nodes[i].next ELSE @]]
  ELSE Grown(nodes, i, Blank)

VoidNodes(i) ==
  IF IsLive(i)
  THEN [j \in DOMAIN nodes |->
          IF j = i THEN Blank
          ELSE [nodes[j] EXCEPT
                  !.next = IF j = nodes[i].prev THEN nodes[i].next ELSE @,
                  !.prev = IF j = nodes[i].next THEN nodes[i].prev ELSE @]]
  ELSE Grown(nodes, i, Blank)

(* Slip: a list keeps its head.                                            *)
VoidPriosKept(i) ==
  IF IsLive(i) /\ Alone(i) THEN [prios EXCEPT ![nodes[i].prio] = None] ELSE prios

VoidPrios(i) ==
  IF ~IsLive(i) THEN prios
  ELSE IF Alone(i) THEN [prios EXCEPT ![nodes[i].prio] = None]
  ELSE IF prios[nodes[i].prio] = i THEN [prios EXCEPT ![nodes[i].prio] = nodes[i].next]
  ELSE prios

(* A node that is not there yet cannot be allocated.                       *)
VoidFails(i) == i \notin DOMAIN nodes /\ UNCHANGED vars

NodeVoid(i) ==
  \/ /\ nodes' = VoidNodes(i)
     /\ prios' = VoidPrios(i)
     /\ UNCHANGED <<text_len, tail>>
  \/ VoidFails(i)

-----------------------------------------------------------------------------
(* aushape_gbtree_node_put: the node is voided, then put at the head of    *)
(* its peer list, and filled.                                              *)

Head(i, p) == IF p \in DOMAIN prios THEN VoidPrios(i)[p] ELSE None

(* Node n with index i in front of the head of the list of priority p.     *)
Linked(ns, head, i, p, n) ==
  [j \in DOMAIN ns |->
     IF j = i
     THEN [n EXCEPT !.prio = p, !.next = IF head = None THEN i ELSE head,
                    !.prev = IF head = None THEN i ELSE ns[head].prev]
     ELSE [ns[j] EXCEPT !.next = IF head # None /\ j = ns[head].prev THEN i ELSE @,
                        !.prev = IF j = head THEN i ELSE @]]

NodePut(i, p, n) ==
  /\ nodes' = Linked(VoidNodes(i), Head(i, p), i, p, n)
  /\ prios' = [Grown(VoidPrios(i), p, None) EXCEPT ![p] = i]

(* Memory is short for the node, or else for the priority: then the node   *)
(* is void already.                                                        *)
PutFails(i, p) ==
  \/ VoidFails(i)
  \/ /\ p \notin DOMAIN prios
     /\ nodes' = VoidNodes(i)
     /\ prios' = VoidPrios(i)
     /\ UNCHANGED <<text_len, tail>>

Text == [type |-> "TEXT", prio |-> 0, prev |-> 0, next |-> 0,
         pos |-> tail, len |-> text_len - tail]
Tree == [Blank EXCEPT !.type = "TREE"]

(* Slip: the tail does not move.                                           *)
PutTextAgain(i, p) ==
  \/ /\ NodePut(i, p, Text)
     /\ UNCHANGED <<tail, text_len>>
  \/ PutFails(i, p)

PutText(i, p) ==
  \/ /\ NodePut(i, p, Text)
     /\ tail' = text_len
     /\ UNCHANGED text_len
  \/ PutFails(i, p)

PutTree(i, p) ==
  \/ /\ NodePut(i, p, Tree)
     /\ UNCHANGED <<text_len, tail>>
  \/ PutFails(i, p)

(* aushape_gbuf_add_*, on the tree as a buffer.                            *)
AddText ==
  /\ text_len' \in text_len + 1 .. MaxText
  /\ UNCHANGED <<nodes, prios, tail>>

-----------------------------------------------------------------------------

(* The nodes a walk from `head` along the links comes to: those in every   *)
(* set that has the head and does not let the walk out.                    *)
Closed(head) ==
  {S \in SUBSET DOMAIN nodes : head \in S /\ \A i \in S : nodes[i].next \in S}

Walk(head) == LET closed == Closed(head) IN {i \in DOMAIN nodes : \A S \in closed : i \in S}

(* Slip: the walk goes on with the next index, not the next peer.          *)
PrioVoidNext(p) ==
  /\ prios[p] # None
  /\ nodes' = [i \in DOMAIN nodes |-> IF i >= prios[p] THEN Blank ELSE nodes[i]]
  /\ prios' = [prios EXCEPT ![p] = None]
  /\ UNCHANGED <<text_len, tail>>

(* aushape_gbtree_prio_void: all the nodes of a list are voided, one after *)
(* another, without unlinking them.                                        *)
PrioVoid(p) ==
  /\ prios[p] # None
  /\ nodes' = [i \in DOMAIN nodes |->
                 IF i \in Walk(prios[p]) THEN Blank ELSE nodes[i]]
  /\ prios' = [prios EXCEPT ![p] = None]
  /\ UNCHANGED <<text_len, tail>>

(* Slip: the priorities are left.                                          *)
EmptyNodes == nodes' = [i \in {} |-> Blank] /\ text_len' = 0 /\ tail' = 0 /\ UNCHANGED prios

(* aushape_gbtree_empty.                                                   *)
Empty ==
  /\ nodes' = [i \in {} |-> Blank]
  /\ prios' = [p \in {} |-> None]
  /\ text_len' = 0
  /\ tail' = 0

(* aushape_gbtree_init.                                                    *)
Init ==
  /\ nodes = [i \in {} |-> Blank]
  /\ prios = [p \in {} |-> None]
  /\ text_len = 0
  /\ tail = 0

Next ==
  \/ AddText
  \/ \E i \in 0 .. MaxIndex, p \in 0 .. MaxPrio : PutText(i, p) \/ PutTree(i, p)
  \/ \E i \in 0 .. MaxIndex : NodeVoid(i)
  \/ \E p \in DOMAIN prios : PrioVoid(p)
  \/ Empty

Spec == Init /\ [][Next]_vars

-----------------------------------------------------------------------------

Node == [type : {"VOID", "TEXT", "TREE"}, prio : Nat, prev : Nat, next : Nat,
         pos : Nat, len : Nat]

TypeOK ==
  /\ \E n \in 0 .. MaxIndex + 1 : nodes \in [0 .. n - 1 -> Node]
  /\ \E n \in 0 .. MaxPrio + 1 : prios \in [0 .. n - 1 -> {None} \union DOMAIN nodes]
  /\ text_len \in Nat
  /\ tail \in 0 .. text_len

(* The nodes that have priority p.                                         *)
Level(p) == {i \in DOMAIN nodes : Live(nodes[i]) /\ nodes[i].prio = p}

(* The links of a node lead to nodes of the same priority, there and back. *)
PeersLinked ==
  \A i \in DOMAIN nodes : Live(nodes[i]) =>
    LET n == nodes[i]
    IN  /\ n.next \in Level(n.prio) /\ nodes[n.next].prev = i
        /\ n.prev \in Level(n.prio) /\ nodes[n.prev].next = i

(* Trimming finds all the nodes of a priority, and nothing else, when it   *)
(* walks the peer list from its head; a list without a head has no nodes,  *)
(* and every node is in the list of a priority.                            *)
LevelsComplete ==
  /\ \A p \in DOMAIN prios : Level(p) = IF prios[p] = None THEN {} ELSE Walk(prios[p])
  /\ \A i \in DOMAIN nodes : Live(nodes[i]) => nodes[i].prio \in DOMAIN prios

(* No byte of the text belongs to two nodes.                               *)
Span(n) == n.pos .. n.pos + n.len - 1

SpansDisjoint ==
  \A i, j \in DOMAIN nodes :
    i # j /\ nodes[i].type = "TEXT" /\ nodes[j].type = "TEXT" =>
      Span(nodes[i]) \intersect Span(nodes[j]) = {}

(* The tree is as good as one without arrays and lists.                    *)
Item(n) == [type |-> n.type, prio |-> n.prio,
            text |-> IF n.type = "TEXT" THEN Span(n) ELSE {}]

content == [i \in {j \in DOMAIN nodes : Live(nodes[j])} |-> Item(nodes[i])]

Abstract == INSTANCE PrioTree
              WITH Indices <- 0 .. MaxIndex, Prios <- 0 .. MaxPrio,
                   written <- text_len, pending <- tail .. text_len - 1

ImplementsPrioTree == Abstract!Spec

=============================================================================
