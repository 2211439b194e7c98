---------------------------- MODULE GbTreeProofs ----------------------------
(***************************************************************************)
(* Proofs about the growing buffer tree, for any numbers of nodes and       *)
(* priorities, and any length of the text.                                  *)
(***************************************************************************)
EXTENDS GbTree, TLAPS

(* The nodes of priority p among ns: Level for any array of nodes.         *)
Peers(ns, p) == {i \in DOMAIN ns : Live(ns[i]) /\ ns[i].prio = p}

Linking(ns, i) ==
  /\ ns[i].next \in Peers(ns, ns[i].prio) /\ ns[ns[i].next].prev = i
  /\ ns[i].prev \in Peers(ns, ns[i].prio) /\ ns[ns[i].prev].next = i

HeadsRight(ns, ps) ==
  /\ \A p \in DOMAIN ps : ps[p] = None \/ ps[p] \in Peers(ns, p)
  /\ \A i \in DOMAIN ns : Live(ns[i]) => ns[i].prio \in DOMAIN ps /\ ps[ns[i].prio] # None

(* There are no two rings of one priority: a set of its nodes that has the *)
(* head and lets no link out has all of them.                              *)
OneRing(ns, ps) ==
  \A p \in DOMAIN ps : \A S \in SUBSET Peers(ns, p) :
    ps[p] \in S /\ (\A j \in S : ns[j].next \in S) => Peers(ns, p) \subseteq S

Lists(ns, ps) ==
  /\ \A i \in DOMAIN ns : Live(ns[i]) => Linking(ns, i)
  /\ HeadsRight(ns, ps)
  /\ OneRing(ns, ps)

Typed(ns, ps) ==
  /\ DOMAIN ns \subseteq Nat /\ ns \in [DOMAIN ns -> Node]
  /\ DOMAIN ps \subseteq Nat /\ ps \in [DOMAIN ps -> Int]

-----------------------------------------------------------------------------
(* Voiding a node.                                                         *)

LEMMA VoidDead ==
  ASSUME Typed(nodes, prios), Lists(nodes, prios), NEW i \in Nat, ~IsLive(i)
  PROVE  /\ Typed(VoidNodes(i), VoidPrios(i)) /\ Lists(VoidNodes(i), VoidPrios(i))
         /\ ~Live(VoidNodes(i)[i])
<1> DEFINE ns == VoidNodes(i)
<1>0. VoidPrios(i) = prios
  BY DEF VoidPrios
<1>1. /\ DOMAIN ns = DOMAIN nodes \union 0 .. i
      /\ \A j \in DOMAIN nodes : ns[j] = nodes[j]
      /\ \A j \in DOMAIN ns \ DOMAIN nodes : ns[j] = Blank
      /\ ns = [j \in DOMAIN ns |-> ns[j]]
  BY DEF VoidNodes, Grown
<1>2. ~Live(Blank) /\ Blank \in Node
  BY DEF Live, Blank, Node
<1> HIDE DEF ns
<1>3. \A p : Peers(ns, p) = Peers(nodes, p)
  BY <1>1, <1>2 DEF Peers
<1>4. Typed(ns, prios)
  BY <1>1, <1>2 DEF Typed
<1>5. \A j \in DOMAIN ns : Live(ns[j]) => j \in DOMAIN nodes /\ ns[j] = nodes[j]
  BY <1>1, <1>2
<1>6. ASSUME NEW j \in DOMAIN ns, Live(ns[j]) PROVE Linking(ns, j)
  <2>1. Linking(nodes, j) /\ ns[j] = nodes[j] /\ j \in DOMAIN nodes
    BY <1>5, <1>6 DEF Lists
  <2>2. ns[j].next \in DOMAIN nodes /\ ns[j].prev \in DOMAIN nodes
    BY <2>1 DEF Linking, Peers
  <2> QED
    BY <2>1, <2>2, <1>1, <1>3 DEF Linking
<1>7. HeadsRight(ns, prios)
  BY <1>3, <1>5 DEF Lists, HeadsRight
<1>8. OneRing(ns, prios)
  <2>1. SUFFICES ASSUME NEW p \in DOMAIN prios, NEW S \in SUBSET Peers(nodes, p),
                        prios[p] \in S, \A j \in S : ns[j].next \in S
                 PROVE  Peers(nodes, p) \subseteq S
    BY <1>3 DEF OneRing
  <2>2. \A j \in S : nodes[j].next \in S
    BY <1>1, <2>1 DEF Peers
  <2> QED
    BY <2>1, <2>2 DEF Lists, OneRing
<1>9. ~Live(ns[i])
  BY <1>1, <1>2 DEF IsLive
<1> QED
  BY <1>0, <1>4, <1>6, <1>7, <1>8, <1>9 DEF Lists, ns

(* A node that is alone in its ring is alone in its level, and its head.   *)
LEMMA AloneInLevel ==
  ASSUME Typed(nodes, prios), Lists(nodes, prios), NEW i \in Nat, IsLive(i), Alone(i)
  PROVE  prios[nodes[i].prio] = i /\ Peers(nodes, nodes[i].prio) = {i}
<1> DEFINE p == nodes[i].prio
<1>1. i \in Peers(nodes, p) /\ p \in DOMAIN prios /\ prios[p] \in Peers(nodes, p)
  BY DEF Lists, HeadsRight, IsLive, Peers
<1>2. nodes[i].next = i /\ nodes[i].prev = i
  BY DEF Lists, Linking, IsLive, Alone
<1>3. \A S \in SUBSET Peers(nodes, p) :
        prios[p] \in S /\ (\A j \in S : nodes[j].next \in S) => Peers(nodes, p) \subseteq S
  BY <1>1 DEF Lists, OneRing
<1>4. prios[p] = i
  <2>1. SUFFICES ASSUME prios[p] # i PROVE FALSE
    OBVIOUS
  <2> DEFINE S == Peers(nodes, p) \ {i}
  <2>2. \A j \in S : nodes[j].next \in S
    <3>1. TAKE j \in S
    <3>2. Linking(nodes, j) /\ nodes[j].prio = p
      BY DEF Lists, Peers
    <3> QED
      BY <3>2, <1>2 DEF Linking
  <2>3. Peers(nodes, p) \subseteq S
    BY <1>1, <1>3, <2>1, <2>2
  <2> QED
    BY <1>1, <2>3
<1>5. Peers(nodes, p) \subseteq {i}
  BY <1>1, <1>2, <1>3, <1>4
<1> QED
  BY <1>1, <1>4, <1>5

(* What voiding a live node does to the others.                            *)
LEMMA VoidedNodes ==
  ASSUME Typed(nodes, prios), Lists(nodes, prios), NEW i \in Nat, IsLive(i)
  PROVE  LET ns == VoidNodes(i)
         IN  /\ DOMAIN ns = DOMAIN nodes /\ ns \in [DOMAIN nodes -> Node]
             /\ ~Live(ns[i])
             /\ \A j \in DOMAIN nodes \ {i} :
                  /\ Live(ns[j]) <=> Live(nodes[j])
                  /\ ns[j].type = nodes[j].type
                  /\ ns[j].prio = nodes[j].prio
                  /\ ns[j].pos = nodes[j].pos
                  /\ ns[j].len = nodes[j].len
                  /\ ns[j].next = IF j = nodes[i].prev THEN nodes[i].next ELSE nodes[j].next
                  /\ ns[j].prev = IF j = nodes[i].next THEN nodes[i].prev ELSE nodes[j].prev
             /\ \A p : Peers(ns, p) = Peers(nodes, p) \ {i}
<1> DEFINE ns == VoidNodes(i)
<1>1. ns = [j \in DOMAIN nodes |->
             IF j = i THEN Blank
             ELSE [nodes[j] EXCEPT
                     !.next = IF j = nodes[i].prev THEN nodes[i].next ELSE @,
                     !.prev = IF j = nodes[i].next THEN nodes[i].prev ELSE @]]
  BY DEF VoidNodes
<1> HIDE DEF ns
<1>2. i \in DOMAIN nodes /\ nodes[i] \in Node /\ nodes[i].next \in Nat /\ nodes[i].prev \in Nat
  BY DEF IsLive, Typed, Node
<1>3. Blank \in Node /\ ~Live(Blank)
  BY DEF Blank, Node, Live
<1>4. ASSUME NEW j \in DOMAIN nodes, j # i
      PROVE  /\ ns[j] \in Node
             /\ ns[j].type = nodes[j].type
             /\ ns[j].prio = nodes[j].prio
             /\ ns[j].pos = nodes[j].pos
             /\ ns[j].len = nodes[j].len
             /\ ns[j].next = IF j = nodes[i].prev THEN nodes[i].next ELSE nodes[j].next
             /\ ns[j].prev = IF j = nodes[i].next THEN nodes[i].prev ELSE nodes[j].prev
  <2>1. nodes[j] \in Node
    BY DEF Typed
  <2> QED
    BY <1>1, <1>2, <1>4, <2>1 DEF Node
<1>5. DOMAIN ns = DOMAIN nodes /\ ns[i] = Blank
  BY <1>1, <1>2
<1>6. ns = [j \in DOMAIN nodes |-> ns[j]]
  BY <1>1
<1>7. ns \in [DOMAIN nodes -> Node]
  BY <1>3, <1>4, <1>5, <1>6
<1>8. \A j \in DOMAIN nodes \ {i} : Live(ns[j]) <=> Live(nodes[j])
  BY <1>4 DEF Live
<1>9. ASSUME NEW p PROVE Peers(ns, p) = Peers(nodes, p) \ {i}
  BY <1>3, <1>4, <1>5, <1>8 DEF Peers
<1> QED
  BY <1>3, <1>4, <1>5, <1>7, <1>8, <1>9 DEF ns

(* The node's neighbours are linked to each other.                         *)
LEMMA VoidLinks ==
  ASSUME Typed(nodes, prios), Lists(nodes, prios), NEW i \in Nat, IsLive(i),
         NEW j \in DOMAIN VoidNodes(i), Live(VoidNodes(i)[j])
  PROVE  Linking(VoidNodes(i), j)
<1> DEFINE ns == VoidNodes(i)
<1> DEFINE p == nodes[j].prio
<1>1. /\ DOMAIN ns = DOMAIN nodes
      /\ ~Live(ns[i])
      /\ \A k \in DOMAIN nodes \ {i} :
           /\ Live(ns[k]) <=> Live(nodes[k])
           /\ ns[k].prio = nodes[k].prio
           /\ ns[k].next = IF k = nodes[i].prev THEN nodes[i].next ELSE nodes[k].next
           /\ ns[k].prev = IF k = nodes[i].next THEN nodes[i].prev ELSE nodes[k].prev
      /\ \A q : Peers(ns, q) = Peers(nodes, q) \ {i}
  BY VoidedNodes
<1>2. Live(ns[j]) /\ j \in DOMAIN ns
  OBVIOUS
<1> HIDE DEF ns
<1>3. j # i /\ j \in DOMAIN nodes /\ Live(nodes[j])
  BY <1>1, <1>2
<1>4. Linking(nodes, j)
  BY <1>3 DEF Lists
<1>5. Linking(nodes, i) /\ i \in DOMAIN nodes
  BY DEF Lists, IsLive
<1>6. ns[j].prio = p
  BY <1>1, <1>3
<1>7. ns[j].next \in Peers(ns, p) /\ ns[ns[j].next].prev = j
  <2>1. CASE nodes[j].next = i
    <3>1. nodes[i].prev = j /\ nodes[i].prio = p
      BY <1>4, <2>1 DEF Linking, Peers
    <3>2. nodes[i].next # i
      BY <1>3, <1>5, <3>1 DEF Linking
    <3>3. ns[j].next = nodes[i].next
      BY <1>1, <1>3, <3>1
    <3>4. nodes[i].next \in Peers(nodes, p) /\ nodes[i].next \in DOMAIN nodes
      BY <1>5, <3>1 DEF Linking, Peers
    <3>5. ns[nodes[i].next].prev = j
      BY <1>1, <3>1, <3>2, <3>4
    <3> QED
      BY <1>1, <3>2, <3>3, <3>4, <3>5
  <2>2. CASE nodes[j].next # i
    <3>1. j # nodes[i].prev
      BY <1>5, <2>2 DEF Linking
    <3>2. ns[j].next = nodes[j].next
      BY <1>1, <1>3, <3>1
    <3>3. nodes[j].next \in Peers(nodes, p) /\ nodes[j].next \in DOMAIN nodes
      BY <1>4 DEF Linking, Peers
    <3>4. nodes[j].next # nodes[i].next
      BY <1>3, <1>4, <1>5 DEF Linking
    <3>5. ns[nodes[j].next].prev = j
      BY <1>1, <1>4, <2>2, <3>3, <3>4 DEF Linking
    <3> QED
      BY <1>1, <2>2, <3>2, <3>3, <3>5
  <2> QED
    BY <2>1, <2>2
<1>8. ns[j].prev \in Peers(ns, p) /\ ns[ns[j].prev].next = j
  <2>1. CASE nodes[j].prev = i
    <3>1. nodes[i].next = j /\ nodes[i].prio = p
      BY <1>4, <2>1 DEF Linking, Peers
    <3>2. nodes[i].prev # i
      BY <1>3, <1>5, <3>1 DEF Linking
    <3>3. ns[j].prev = nodes[i].prev
      BY <1>1, <1>3, <3>1
    <3>4. nodes[i].prev \in Peers(nodes, p) /\ nodes[i].prev \in DOMAIN nodes
      BY <1>5, <3>1 DEF Linking, Peers
    <3>5. ns[nodes[i].prev].next = j
      BY <1>1, <3>1, <3>2, <3>4
    <3> QED
      BY <1>1, <3>2, <3>3, <3>4, <3>5
  <2>2. CASE nodes[j].prev # i
    <3>1. j # nodes[i].next
      BY <1>5, <2>2 DEF Linking
    <3>2. ns[j].prev = nodes[j].prev
      BY <1>1, <1>3, <3>1
    <3>3. nodes[j].prev \in Peers(nodes, p) /\ nodes[j].prev \in DOMAIN nodes
      BY <1>4 DEF Linking, Peers
    <3>4. nodes[j].prev # nodes[i].prev
      BY <1>3, <1>4, <1>5 DEF Linking
    <3>5. ns[nodes[j].prev].next = j
      BY <1>1, <1>4, <2>2, <3>3, <3>4 DEF Linking
    <3> QED
      BY <1>1, <2>2, <3>2, <3>3, <3>5
  <2> QED
    BY <2>1, <2>2
<1> QED
  BY <1>6, <1>7, <1>8 DEF Linking, ns

(* The priorities after a live node was voided.                            *)
LEMMA VoidedPrios ==
  ASSUME Typed(nodes, prios), Lists(nodes, prios), NEW i \in Nat, IsLive(i)
  PROVE  LET ps == VoidPrios(i)
             p  == nodes[i].prio
         IN  /\ DOMAIN ps = DOMAIN prios /\ ps \in [DOMAIN prios -> Int]
             /\ p \in DOMAIN prios
             /\ \A q \in DOMAIN prios \ {p} : ps[q] = prios[q]
             /\ ps[p] = IF Alone(i) THEN None
                        ELSE IF prios[p] = i THEN nodes[i].next ELSE prios[p]
<1>1. nodes[i].prio \in DOMAIN prios
  BY DEF Lists, HeadsRight, IsLive
<1>2. nodes[i].next \in Int /\ None \in Int
  BY DEF Typed, IsLive, Node, None
<1> QED
  BY <1>1, <1>2 DEF VoidPrios, Typed

LEMMA VoidHeads ==
  ASSUME Typed(nodes, prios), Lists(nodes, prios), NEW i \in Nat, IsLive(i)
  PROVE  HeadsRight(VoidNodes(i), VoidPrios(i))
<1> DEFINE ns == VoidNodes(i)
<1> DEFINE ps == VoidPrios(i)
<1> DEFINE p == nodes[i].prio
<1>1. /\ DOMAIN ns = DOMAIN nodes
      /\ ~Live(ns[i])
      /\ \A k \in DOMAIN nodes \ {i} :
           (Live(ns[k]) <=> Live(nodes[k])) /\ ns[k].prio = nodes[k].prio
      /\ \A q : Peers(ns, q) = Peers(nodes, q) \ {i}
  BY VoidedNodes
<1>2. /\ DOMAIN ps = DOMAIN prios
      /\ p \in DOMAIN prios
      /\ \A q \in DOMAIN prios \ {p} : ps[q] = prios[q]
      /\ ps[p] = IF Alone(i) THEN None
                 ELSE IF prios[p] = i THEN nodes[i].next ELSE prios[p]
  BY VoidedPrios
<1> HIDE DEF ns, ps
<1>3. HeadsRight(nodes, prios) /\ Linking(nodes, i) /\ i \in DOMAIN nodes /\ Live(nodes[i])
  BY DEF Lists, IsLive
<1>4. i \in Peers(nodes, p) /\ \A q : q # p => i \notin Peers(nodes, q)
  BY <1>3 DEF Peers
<1>5. prios[p] # None
  BY <1>3 DEF HeadsRight
<1>6. None \notin DOMAIN nodes
  BY DEF Typed, None
<1>7. ASSUME NEW q \in DOMAIN prios PROVE ps[q] = None \/ ps[q] \in Peers(ns, q)
  <2>1. CASE q # p
    BY <1>1, <1>2, <1>3, <1>4, <2>1 DEF HeadsRight
  <2>2. CASE q = p /\ ~Alone(i)
    <3>1. nodes[i].next \in Peers(nodes, p) \ {i}
      BY <1>3, <2>2 DEF Linking, Alone
    <3>2. prios[p] \in Peers(nodes, p)
      BY <1>2, <1>3, <1>5 DEF HeadsRight
    <3> QED
      BY <1>1, <1>2, <2>2, <3>1, <3>2
  <2>3. CASE q = p /\ Alone(i)
    BY <1>2, <2>3
  <2> QED
    BY <2>1, <2>2, <2>3
<1>8. ASSUME NEW j \in DOMAIN ns, Live(ns[j])
      PROVE  ns[j].prio \in DOMAIN ps /\ ps[ns[j].prio] # None
  <2>1. j # i /\ j \in DOMAIN nodes /\ Live(nodes[j]) /\ ns[j].prio = nodes[j].prio
    BY <1>1, <1>8
  <2>2. nodes[j].prio \in DOMAIN prios /\ prios[nodes[j].prio] # None
    BY <1>3, <2>1 DEF HeadsRight
  <2>3. CASE nodes[j].prio # p
    BY <1>2, <2>1, <2>2, <2>3
  <2>4. CASE nodes[j].prio = p
    <3>1. ~Alone(i)
      <4>1. SUFFICES ASSUME Alone(i) PROVE FALSE
        OBVIOUS
      <4>2. Peers(nodes, p) = {i}
        BY <4>1, AloneInLevel
      <4> QED
        BY <2>1, <2>4, <4>2 DEF Peers
    <3>2. nodes[i].next # None
      BY <1>3, <1>6 DEF Linking, Peers
    <3> QED
      BY <1>2, <1>5, <2>1, <2>4, <3>1, <3>2
  <2> QED
    BY <2>3, <2>4
<1> QED
  BY <1>2, <1>7, <1>8 DEF HeadsRight, ns, ps

(* A ring from which a node is taken is still one ring.                    *)
LEMMA VoidRing ==
  ASSUME Typed(nodes, prios), Lists(nodes, prios), NEW i \in Nat, IsLive(i)
  PROVE  OneRing(VoidNodes(i), VoidPrios(i))
<1> DEFINE ns == VoidNodes(i)
<1> DEFINE ps == VoidPrios(i)
<1> DEFINE p == nodes[i].prio
<1>1. /\ DOMAIN ns = DOMAIN nodes
      /\ \A k \in DOMAIN nodes \ {i} :
           ns[k].next = IF k = nodes[i].prev THEN nodes[i].next ELSE nodes[k].next
      /\ \A q : Peers(ns, q) = Peers(nodes, q) \ {i}
  BY VoidedNodes
<1>2. /\ DOMAIN ps = DOMAIN prios
      /\ p \in DOMAIN prios
      /\ \A q \in DOMAIN prios \ {p} : ps[q] = prios[q]
      /\ ps[p] = IF Alone(i) THEN None
                 ELSE IF prios[p] = i THEN nodes[i].next ELSE prios[p]
  BY VoidedPrios
<1> HIDE DEF ns, ps
<1>3. Linking(nodes, i) /\ i \in DOMAIN nodes /\ Live(nodes[i]) /\ i \in Peers(nodes, p)
  BY DEF Lists, IsLive, Peers
<1>4. \A q : Peers(nodes, q) \subseteq DOMAIN nodes
  BY DEF Peers
<1>5. SUFFICES ASSUME NEW q \in DOMAIN prios, NEW S \in SUBSET (Peers(nodes, q) \ {i}),
                      ps[q] \in S, \A j \in S : ns[j].next \in S
               PROVE  Peers(nodes, q) \ {i} \subseteq S
  BY <1>1, <1>2 DEF OneRing, ns, ps
<1>6. \A T \in SUBSET Peers(nodes, q) :
        prios[q] \in T /\ (\A j \in T : nodes[j].next \in T) => Peers(nodes, q) \subseteq T
  BY DEF Lists, OneRing
<1>7. CASE nodes[i].prev \notin S
  <2>1. \A j \in S : nodes[j].next \in S
    BY <1>1, <1>4, <1>5, <1>7
  <2>2. CASE prios[q] = ps[q]
    BY <1>5, <1>6, <2>1, <2>2
  <2>3. CASE prios[q] # ps[q]
    \* Then i was the head, the next node is the new one, and S lacks only i.
    <3>1. q = p /\ prios[p] = i /\ ps[p] = nodes[i].next
      <4>1. q = p
        BY <1>2, <2>3
      <4>2. ps[p] # None
        BY <1>4, <1>5, <4>1 DEF Typed, None
      <4> QED
        BY <1>2, <2>3, <4>1, <4>2
    <3>2. \A j \in S \union {i} : nodes[j].next \in S \union {i}
      BY <1>5, <2>1, <3>1
    <3>3. S \union {i} \in SUBSET Peers(nodes, q) /\ prios[q] \in S \union {i}
      BY <1>3, <1>5, <3>1
    <3>4. Peers(nodes, q) \subseteq S \union {i}
      BY <1>6, <3>2, <3>3
    <3> QED
      BY <3>4
  <2> QED
    BY <2>2, <2>3
<1>8. CASE nodes[i].prev \in S
  <2>1. q = p
    BY <1>3, <1>5, <1>8 DEF Linking, Peers
  <2>2. nodes[i].next \in S
    <3>1. nodes[i].prev \in DOMAIN nodes \ {i}
      BY <1>4, <1>5, <1>8
    <3> QED
      BY <1>1, <1>5, <1>8, <3>1
  <2>3. \A j \in S \union {i} : nodes[j].next \in S \union {i}
    <3>1. TAKE j \in S \union {i}
    <3>2. CASE j = i
      BY <2>2, <3>2
    <3>3. CASE j \in S /\ nodes[j].next # i
      <4>1. j # nodes[i].prev
        BY <1>3, <3>3 DEF Linking
      <4>2. j \in DOMAIN nodes \ {i}
        BY <1>4, <1>5, <3>3
      <4> QED
        BY <1>1, <1>5, <3>3, <4>1, <4>2
    <3>4. CASE nodes[j].next = i
      BY <3>4
    <3> QED
      BY <3>2, <3>3, <3>4
  <2>4. prios[q] \in S \union {i}
    <3>1. ps[p] # None
      BY <1>4, <1>5, <2>1 DEF Typed, None
    <3> QED
      BY <1>2, <1>5, <2>1, <3>1
  <2>5. S \union {i} \in SUBSET Peers(nodes, q)
    BY <1>3, <1>5, <2>1
  <2>6. Peers(nodes, q) \subseteq S \union {i}
    BY <1>6, <2>3, <2>4, <2>5
  <2> QED
    BY <2>6
<1> QED
  BY <1>7, <1>8

(* Voiding a node, live or not, leaves proper lists.                       *)
LEMMA VoidLists ==
  ASSUME Typed(nodes, prios), Lists(nodes, prios), NEW i \in Nat
  PROVE  /\ Typed(VoidNodes(i), VoidPrios(i)) /\ Lists(VoidNodes(i), VoidPrios(i))
         /\ ~Live(VoidNodes(i)[i])
<1>1. CASE ~IsLive(i)
  BY <1>1, VoidDead
<1>2. CASE IsLive(i)
  <2>1. Typed(VoidNodes(i), VoidPrios(i)) /\ ~Live(VoidNodes(i)[i])
    <3>1. DOMAIN VoidNodes(i) = DOMAIN nodes /\ VoidNodes(i) \in [DOMAIN nodes -> Node]
      BY <1>2, VoidedNodes
    <3>2. DOMAIN VoidPrios(i) = DOMAIN prios /\ VoidPrios(i) \in [DOMAIN prios -> Int]
      BY <1>2, VoidedPrios
    <3>3. ~Live(VoidNodes(i)[i])
      BY <1>2, VoidedNodes
    <3> QED
      BY <3>1, <3>2, <3>3 DEF Typed
  <2>2. \A j \in DOMAIN VoidNodes(i) : Live(VoidNodes(i)[j]) => Linking(VoidNodes(i), j)
    BY <1>2, VoidLinks
  <2> QED
    BY <1>2, <2>1, <2>2, VoidHeads, VoidRing DEF Lists
<1> QED
  BY <1>1, <1>2

-----------------------------------------------------------------------------
(* Putting a node into a list.                                             *)

Headed(ps, p)      == IF p \in DOMAIN ps THEN ps[p] ELSE None
WithHead(ps, p, i) == [Grown(ps, p, None) EXCEPT ![p] = i]

(* What ms has, compared with ns, when node n with index i is in front of  *)
(* the head of the list of priority p.                                     *)
InFront(ms, ns, head, i, p, n) ==
  /\ head # None => head \in Peers(ns, p)
  /\ head = None => Peers(ns, p) = {}
  /\ DOMAIN ms = DOMAIN ns /\ ms \in [DOMAIN ns -> Node]
  /\ Live(ms[i]) /\ ms[i].type = n.type /\ ms[i].prio = p
  /\ ms[i].pos = n.pos /\ ms[i].len = n.len
  /\ ms[i].next = IF head = None THEN i ELSE head
  /\ ms[i].prev = IF head = None THEN i ELSE ns[head].prev
  /\ \A j \in DOMAIN ns \ {i} :
       /\ Live(ms[j]) <=> Live(ns[j])
       /\ ms[j].type = ns[j].type
       /\ ms[j].prio = ns[j].prio
       /\ ms[j].pos = ns[j].pos
       /\ ms[j].len = ns[j].len
       /\ ms[j].next = IF head # None /\ j = ns[head].prev THEN i ELSE ns[j].next
       /\ ms[j].prev = IF j = head THEN i ELSE ns[j].prev
  /\ Peers(ms, p) = Peers(ns, p) \union {i}
  /\ \A q : q # p => Peers(ms, q) = Peers(ns, q)

LEMMA LinkedNodes ==
  ASSUME NEW ns, NEW ps, Typed(ns, ps), Lists(ns, ps),
         NEW i \in DOMAIN ns, ~Live(ns[i]), NEW p \in Nat, NEW n \in Node, Live(n)
  PROVE  InFront(Linked(ns, Headed(ps, p), i, p, n), ns, Headed(ps, p), i, p, n)
<1> DEFINE head == Headed(ps, p)
<1> DEFINE ms == Linked(ns, head, i, p, n)
<1>1. head # None => head \in Peers(ns, p)
  BY DEF Headed, Lists, HeadsRight
<1>2. head = None => Peers(ns, p) = {}
  BY DEF Headed, Lists, HeadsRight, Peers
<1>3. ms = [j \in DOMAIN ns |->
             IF j = i
             THEN [n EXCEPT !.prio = p, !.next = IF head = None THEN i ELSE head,
                            !.prev = IF head = None THEN i ELSE ns[head].prev]
             ELSE [ns[j] EXCEPT !.next = IF head # None /\ j = ns[head].prev THEN i ELSE @,
                                !.prev = IF j = head THEN i ELSE @]]
  BY DEF Linked
<1> HIDE DEF ms, head
<1>4. i \in Nat /\ (head # None => head \in Nat /\ ns[head].prev \in Nat)
  BY <1>1 DEF Typed, Peers, Node
<1>5. /\ ms[i] \in Node /\ ms[i].type = n.type /\ ms[i].prio = p
      /\ ms[i].pos = n.pos /\ ms[i].len = n.len
      /\ ms[i].next = IF head = None THEN i ELSE head
      /\ ms[i].prev = IF head = None THEN i ELSE ns[head].prev
  BY <1>3, <1>4 DEF Node
<1>6. ASSUME NEW j \in DOMAIN ns, j # i
      PROVE  /\ ms[j] \in Node
             /\ ms[j].type = ns[j].type
             /\ ms[j].prio = ns[j].prio
             /\ ms[j].pos = ns[j].pos
             /\ ms[j].len = ns[j].len
             /\ ms[j].next = IF head # None /\ j = ns[head].prev THEN i ELSE ns[j].next
             /\ ms[j].prev = IF j = head THEN i ELSE ns[j].prev
  <2>1. ns[j] \in Node
    BY DEF Typed
  <2> QED
    BY <1>3, <1>4, <1>6, <2>1 DEF Node
<1>7. DOMAIN ms = DOMAIN ns /\ ms = [j \in DOMAIN ns |-> ms[j]]
  BY <1>3
<1>8. ms \in [DOMAIN ns -> Node]
  BY <1>5, <1>6, <1>7
<1>9. Live(ms[i]) /\ \A j \in DOMAIN ns \ {i} : Live(ms[j]) <=> Live(ns[j])
  BY <1>5, <1>6 DEF Live
<1>10. Peers(ms, p) = Peers(ns, p) \union {i}
  BY <1>5, <1>6, <1>7, <1>9 DEF Peers
<1>11. \A q : q # p => Peers(ms, q) = Peers(ns, q)
  BY <1>5, <1>6, <1>7, <1>9 DEF Peers
<1> QED
  BY <1>1, <1>2, <1>5, <1>6, <1>7, <1>8, <1>9, <1>10, <1>11 DEF InFront, ms, head

LEMMA LinkedPrios ==
  ASSUME NEW ns, NEW ps, Typed(ns, ps), Lists(ns, ps), NEW p \in Nat, NEW i \in Nat
  PROVE  LET qs == WithHead(ps, p, i)
         IN  /\ DOMAIN qs = DOMAIN ps \union 0 .. p
             /\ DOMAIN qs \subseteq Nat /\ qs \in [DOMAIN qs -> Int]
             /\ qs[p] = i
             /\ \A q \in DOMAIN ps \ {p} : qs[q] = ps[q]
             /\ \A q \in DOMAIN qs \ DOMAIN ps : q # p => qs[q] = None /\ Peers(ns, q) = {}
<1>1. None \in Int /\ p \in 0 .. p
  BY DEF None
<1>2. \A q : q \notin DOMAIN ps => Peers(ns, q) = {}
  BY DEF Lists, HeadsRight, Peers
<1> QED
  BY <1>1, <1>2 DEF WithHead, Grown, Typed

LEMMA LinkLinks ==
  ASSUME NEW ns, NEW ps, Typed(ns, ps), Lists(ns, ps),
         NEW i \in DOMAIN ns, ~Live(ns[i]), NEW p \in Nat, NEW n \in Node, Live(n),
         NEW j \in DOMAIN ns, Live(Linked(ns, Headed(ps, p), i, p, n)[j])
  PROVE  Linking(Linked(ns, Headed(ps, p), i, p, n), j)
<1> DEFINE head == Headed(ps, p)
<1> DEFINE ms == Linked(ns, head, i, p, n)
<1>1. InFront(ms, ns, head, i, p, n)
  BY LinkedNodes
<1>2. Live(ms[j])
  OBVIOUS
<1> SUFFICES Linking(ms, j)
  OBVIOUS
<1> HIDE DEF ms, head
<1>3. \A q : Peers(ns, q) \subseteq DOMAIN ns \ {i}
  BY DEF Peers
<1>4. head # None => Linking(ns, head) /\ ns[head].prio = p
  BY <1>1 DEF InFront, Lists, Peers
<1>5. head # None => /\ ns[head].prev \in Peers(ns, p) /\ ns[ns[head].prev].next = head
                     /\ ns[head].prev \in DOMAIN ns \ {i} /\ head \in DOMAIN ns \ {i}
  BY <1>1, <1>3, <1>4 DEF InFront, Linking
<1>6. CASE j = i
  <2>1. CASE head = None
    BY <1>1, <1>6, <2>1 DEF InFront, Linking
  <2>2. CASE head # None
    <3>1. ms[head].prev = i /\ ms[ns[head].prev].next = i
      BY <1>1, <1>5, <2>2 DEF InFront
    <3> QED
      BY <1>1, <1>5, <1>6, <2>2, <3>1 DEF InFront, Linking
  <2> QED
    BY <2>1, <2>2
<1>7. CASE j # i
  <2> DEFINE q == ns[j].prio
  <2>1. Live(ns[j]) /\ Linking(ns, j) /\ ms[j].prio = q
    BY <1>1, <1>2, <1>7 DEF InFront, Lists
  <2>2. /\ ns[j].next \in Peers(ns, q) /\ ns[j].next \in DOMAIN ns \ {i}
        /\ ns[j].prev \in Peers(ns, q) /\ ns[j].prev \in DOMAIN ns \ {i}
        /\ ns[ns[j].next].prev = j /\ ns[ns[j].prev].next = j
    BY <1>3, <2>1 DEF Linking
  <2>3. Peers(ns, q) \subseteq Peers(ms, q)
    BY <1>1 DEF InFront
  <2>4. ms[j].next \in Peers(ms, q) /\ ms[ms[j].next].prev = j
    <3>1. CASE head # None /\ j = ns[head].prev
      <4>1. ms[j].next = i /\ ms[i].prev = j
        BY <1>1, <1>7, <3>1 DEF InFront
      <4>2. q = p
        BY <1>5, <3>1 DEF Peers
      <4> QED
        BY <1>1, <4>1, <4>2 DEF InFront
    <3>2. CASE ~(head # None /\ j = ns[head].prev)
      <4>1. ms[j].next = ns[j].next
        BY <1>1, <1>7, <3>2 DEF InFront
      <4>2. ns[j].next # head
        BY <1>1, <1>4, <2>2, <3>2 DEF InFront, Typed, None
      <4> QED
        BY <1>1, <2>2, <2>3, <4>1, <4>2 DEF InFront
    <3> QED
      BY <3>1, <3>2
  <2>5. ms[j].prev \in Peers(ms, q) /\ ms[ms[j].prev].next = j
    <3>1. CASE j = head
      <4>1. head # None
        BY <3>1 DEF Typed, None
      <4>2. ms[j].prev = i /\ ms[i].next = j /\ q = p
        BY <1>1, <1>4, <1>7, <3>1, <4>1 DEF InFront
      <4> QED
        BY <1>1, <4>2 DEF InFront
    <3>2. CASE j # head
      <4>1. ms[j].prev = ns[j].prev
        BY <1>1, <1>7, <3>2 DEF InFront
      <4>2. head # None => ns[j].prev # ns[head].prev
        BY <1>5, <2>2, <3>2
      <4> QED
        BY <1>1, <2>2, <2>3, <4>1, <4>2 DEF InFront
    <3> QED
      BY <3>1, <3>2
  <2> QED
    BY <2>1, <2>4, <2>5 DEF Linking
<1> QED
  BY <1>6, <1>7

LEMMA LinkLists ==
  ASSUME NEW ns, NEW ps, Typed(ns, ps), Lists(ns, ps),
         NEW i \in DOMAIN ns, ~Live(ns[i]), NEW p \in Nat, NEW n \in Node, Live(n)
  PROVE  /\ Typed(Linked(ns, Headed(ps, p), i, p, n), WithHead(ps, p, i))
         /\ Lists(Linked(ns, Headed(ps, p), i, p, n), WithHead(ps, p, i))
<1> DEFINE head == Headed(ps, p)
<1> DEFINE ms == Linked(ns, head, i, p, n)
<1> DEFINE qs == WithHead(ps, p, i)
<1>0. i \in Nat
  BY DEF Typed
<1>1. InFront(ms, ns, head, i, p, n)
  BY LinkedNodes
<1>2. /\ DOMAIN qs = DOMAIN ps \union 0 .. p
      /\ DOMAIN qs \subseteq Nat /\ qs \in [DOMAIN qs -> Int]
      /\ qs[p] = i
      /\ \A q \in DOMAIN ps \ {p} : qs[q] = ps[q]
      /\ \A q \in DOMAIN qs \ DOMAIN ps : q # p => qs[q] = None /\ Peers(ns, q) = {}
  BY <1>0, LinkedPrios
<1>3. \A j \in DOMAIN ms : Live(ms[j]) => Linking(ms, j)
  BY <1>1, LinkLinks DEF InFront
<1>4. head = IF p \in DOMAIN ps THEN ps[p] ELSE None
  BY DEF Headed
<1> SUFFICES Typed(ms, qs) /\ Lists(ms, qs)
  OBVIOUS
<1> HIDE DEF ms, qs, head
<1>5. Typed(ms, qs)
  BY <1>1, <1>2 DEF InFront, Typed
<1>6. HeadsRight(ns, ps) /\ \A q : Peers(ns, q) \subseteq DOMAIN ns \ {i}
  BY DEF Lists, Peers
<1>7. HeadsRight(ms, qs)
  <2>1. ASSUME NEW q \in DOMAIN qs PROVE qs[q] = None \/ qs[q] \in Peers(ms, q)
    <3>1. CASE q = p
      BY <1>1, <1>2, <3>1 DEF InFront
    <3>2. CASE q # p /\ q \in DOMAIN ps
      BY <1>1, <1>2, <1>6, <3>2 DEF InFront, HeadsRight
    <3>3. CASE q # p /\ q \notin DOMAIN ps
      BY <1>2, <3>3
    <3> QED
      BY <3>1, <3>2, <3>3
  <2>2. ASSUME NEW j \in DOMAIN ms, Live(ms[j])
        PROVE  ms[j].prio \in DOMAIN qs /\ qs[ms[j].prio] # None
    <3>1. CASE ms[j].prio = p
      BY <1>0, <1>2, <3>1 DEF None
    <3>2. CASE ms[j].prio # p
      <4>1. j # i /\ j \in DOMAIN ns
        BY <1>1, <2>2, <3>2 DEF InFront
      <4>2. Live(ns[j]) /\ ms[j].prio = ns[j].prio
        BY <1>1, <2>2, <4>1 DEF InFront
      <4> QED
        BY <1>2, <1>6, <3>2, <4>1, <4>2 DEF HeadsRight
    <3> QED
      BY <3>1, <3>2
  <2> QED
    BY <2>1, <2>2 DEF HeadsRight
<1>8. OneRing(ms, qs)
  <2>1. SUFFICES ASSUME NEW q \in DOMAIN qs, NEW S \in SUBSET Peers(ms, q),
                        qs[q] \in S, \A j \in S : ms[j].next \in S
                 PROVE  Peers(ms, q) \subseteq S
    BY DEF OneRing
  <2>2. CASE q # p
    <3>1. S \in SUBSET Peers(ns, q) /\ Peers(ms, q) = Peers(ns, q)
      BY <1>1, <2>2 DEF InFront
    <3>2. q \in DOMAIN ps
      BY <1>2, <2>1, <2>2, <3>1
    <3>3. \A j \in S : ns[j].next \in S
      <4>1. TAKE j \in S
      <4>2. j \in DOMAIN ns \ {i} /\ Live(ns[j]) /\ ns[j].prio = q /\ i \notin S
        BY <1>6, <3>1 DEF Peers
      <4>3. ms[j].next # i
        BY <2>1, <4>2
      <4> QED
        BY <1>1, <2>1, <4>2, <4>3 DEF InFront
    <3>4. ps[q] \in S
      BY <1>2, <2>1, <2>2, <3>2
    <3> QED
      BY <3>1, <3>2, <3>3, <3>4 DEF Lists, OneRing
  <2>3. CASE q = p /\ head = None
    BY <1>1, <1>2, <2>1, <2>3 DEF InFront
  <2>4. CASE q = p /\ head # None
    <3> DEFINE T == S \ {i}
    <3>1. i \in S /\ head \in S /\ head # i
      BY <1>1, <1>2, <1>6, <2>1, <2>4 DEF InFront
    <3>2. T \in SUBSET Peers(ns, p) /\ p \in DOMAIN ps /\ ps[p] \in T
      BY <1>1, <1>4, <2>1, <2>4, <3>1 DEF InFront
    <3>3. \A j \in T : ns[j].next \in T
      <4>1. TAKE j \in T
      <4>2. j \in DOMAIN ns \ {i} /\ Live(ns[j])
        BY <1>6, <3>2 DEF Peers
      <4>3. Linking(ns, j) /\ Linking(ns, head)
        BY <1>1, <2>4, <4>2 DEF InFront, Lists, Peers
      <4>4. ns[j].next # i
        BY <1>6, <4>3 DEF Linking
      <4>5. CASE j = ns[head].prev
        <5>1. ns[j].next = head
          BY <4>3, <4>5 DEF Linking
        <5> QED
          BY <3>1, <5>1
      <4>6. CASE j # ns[head].prev
        BY <1>1, <2>1, <4>2, <4>4, <4>6 DEF InFront
      <4> QED
        BY <4>5, <4>6
    <3>4. Peers(ns, p) \subseteq T
      BY <3>2, <3>3 DEF Lists, OneRing
    <3> QED
      BY <1>1, <2>4, <3>1, <3>4 DEF InFront
  <2> QED
    BY <2>2, <2>3, <2>4
<1> QED
  BY <1>3, <1>5, <1>7, <1>8 DEF Lists

-----------------------------------------------------------------------------
(* Walking and voiding a list.                                             *)

(* A walk along the links visits the nodes of the priority, no others.     *)
LEMMA WalkVisitsPeers ==
  ASSUME Typed(nodes, prios), Lists(nodes, prios), NEW p \in DOMAIN prios, prios[p] # None
  PROVE  Walk(prios[p]) = Peers(nodes, p)
<1> DEFINE head == prios[p]
<1>1. head \in Peers(nodes, p) /\ Peers(nodes, p) \subseteq DOMAIN nodes
  BY DEF Lists, HeadsRight, Peers
<1>2. \A j \in Peers(nodes, p) : nodes[j].next \in Peers(nodes, p)
  BY DEF Lists, Linking, Peers
<1>3. Peers(nodes, p) \in Closed(head)
  BY <1>1, <1>2 DEF Closed
<1>4. Walk(head) \subseteq Peers(nodes, p)
  BY <1>3 DEF Walk
<1>5. ASSUME NEW S \in Closed(head) PROVE Peers(nodes, p) \subseteq S
  <2> DEFINE T == S \intersect Peers(nodes, p)
  <2>1. head \in T /\ \A j \in T : nodes[j].next \in T
    BY <1>1, <1>2, <1>5 DEF Closed
  <2>2. Peers(nodes, p) \subseteq T
    BY <2>1 DEF Lists, OneRing
  <2> QED
    BY <2>2
<1>6. Peers(nodes, p) \subseteq Walk(head)
  BY <1>1, <1>5 DEF Walk
<1> QED
  BY <1>4, <1>6

(* Nodes that have become void, and those that are as before.              *)
Kept(ns, ms, S) ==
  /\ \A j \in DOMAIN ns : Live(ns[j]) /\ j \notin S => j \in DOMAIN ms /\ Live(ms[j])
  /\ \A j \in DOMAIN ms : Live(ms[j]) /\ j \notin S =>
       /\ j \in DOMAIN ns /\ Live(ns[j])
       /\ ms[j].type = ns[j].type
       /\ ms[j].prio = ns[j].prio
       /\ ms[j].pos = ns[j].pos
       /\ ms[j].len = ns[j].len

LEMMA PrioVoidLists ==
  ASSUME Typed(nodes, prios), Lists(nodes, prios), NEW p \in DOMAIN prios, PrioVoid(p)
  PROVE  /\ Typed(nodes', prios') /\ Lists(nodes', prios')
         /\ DOMAIN nodes' = DOMAIN nodes /\ DOMAIN prios' = DOMAIN prios
         /\ Kept(nodes, nodes', Peers(nodes, p))
         /\ \A i \in Peers(nodes, p) : ~Live(nodes'[i])
<1> DEFINE P == Peers(nodes, p)
<1>1. Walk(prios[p]) = P
  BY WalkVisitsPeers DEF PrioVoid
<1>2. /\ nodes' = [i \in DOMAIN nodes |-> IF i \in P THEN Blank ELSE nodes[i]]
      /\ prios' = [prios EXCEPT ![p] = None]
  BY <1>1 DEF PrioVoid
<1>3. ~Live(Blank) /\ Blank \in Node /\ None \in Int
  BY DEF Blank, Live, Node, None
<1>4. Typed(nodes', prios') /\ DOMAIN nodes' = DOMAIN nodes /\ DOMAIN prios' = DOMAIN prios
  BY <1>2, <1>3 DEF Typed
<1>5. \A q : Peers(nodes', q) = IF q = p THEN {} ELSE Peers(nodes, q)
  BY <1>2, <1>3 DEF Peers
<1>6. \A j \in DOMAIN nodes' : Live(nodes'[j]) => nodes'[j] = nodes[j] /\ j \notin P
  BY <1>2, <1>3
<1>7. Kept(nodes, nodes', P) /\ \A i \in P : ~Live(nodes'[i])
  BY <1>2, <1>3, <1>6 DEF Kept, Peers
<1>8. ASSUME NEW j \in DOMAIN nodes', Live(nodes'[j]) PROVE Linking(nodes', j)
  <2>1. Live(nodes[j]) /\ nodes'[j] = nodes[j] /\ j \in DOMAIN nodes /\ nodes[j].prio # p
    BY <1>2, <1>6, <1>8 DEF Peers
  <2>2. Linking(nodes, j)
    BY <2>1 DEF Lists
  <2>3. \A k \in Peers(nodes, nodes[j].prio) : nodes'[k] = nodes[k]
    BY <1>2, <2>1 DEF Peers
  <2> QED
    BY <1>5, <2>1, <2>2, <2>3 DEF Linking
<1>9. HeadsRight(nodes', prios')
  <2>1. HeadsRight(nodes, prios)
    BY DEF Lists
  <2> QED
    BY <1>2, <1>4, <1>5, <1>6, <2>1 DEF HeadsRight, Peers
<1>10. OneRing(nodes', prios')
  <2>1. SUFFICES ASSUME NEW q \in DOMAIN prios, q # p, NEW S \in SUBSET Peers(nodes, q),
                        prios[q] \in S, \A j \in S : nodes'[j].next \in S
                 PROVE  Peers(nodes, q) \subseteq S
    BY <1>2, <1>4, <1>5 DEF OneRing
  <2>2. \A j \in S : nodes[j].next \in S
    BY <1>2, <2>1 DEF Peers
  <2> QED
    BY <2>1, <2>2 DEF Lists, OneRing
<1> QED
  BY <1>4, <1>7, <1>8, <1>9, <1>10 DEF Lists

LEMMA VoidKept ==
  ASSUME Typed(nodes, prios), Lists(nodes, prios), NEW i \in Nat
  PROVE  Kept(nodes, VoidNodes(i), {i})
<1>1. CASE IsLive(i)
  <2> DEFINE ns == VoidNodes(i)
  <2>1. /\ DOMAIN ns = DOMAIN nodes
        /\ \A j \in DOMAIN nodes \ {i} :
             /\ Live(ns[j]) <=> Live(nodes[j])
             /\ ns[j].type = nodes[j].type
             /\ ns[j].prio = nodes[j].prio
             /\ ns[j].pos = nodes[j].pos
             /\ ns[j].len = nodes[j].len
    BY <1>1, VoidedNodes
  <2> HIDE DEF ns
  <2>2. Kept(nodes, ns, {i})
    BY <2>1 DEF Kept
  <2> QED
    BY <2>2 DEF ns
<1>2. CASE ~IsLive(i)
  <2>1. ~Live(Blank)
    BY DEF Live, Blank
  <2> QED
    BY <1>2, <2>1 DEF VoidNodes, Grown, Kept
<1> QED
  BY <1>1, <1>2

LEMMA LinkKept ==
  ASSUME NEW ms, NEW ns, NEW head, NEW i \in DOMAIN ns, NEW p, NEW n,
         ~Live(ns[i]), InFront(ms, ns, head, i, p, n)
  PROVE  Kept(ns, ms, {i})
BY DEF InFront, Kept

LEMMA KeptTwice ==
  ASSUME NEW ns, NEW ms, NEW ks, NEW S, Kept(ns, ms, S), Kept(ms, ks, S)
  PROVE  Kept(ns, ks, S)
BY DEF Kept

-----------------------------------------------------------------------------
(* The inductive invariant: the lists, the sizes of the arrays, and the    *)
(* spans of the text nodes.                                                *)

Dense(a, max) == \E n \in 0 .. max + 1 : DOMAIN a = 0 .. n - 1

Spans(ns, t) ==
  /\ \A i \in DOMAIN ns : ns[i].type = "TEXT" => ns[i].pos + ns[i].len <= t
  /\ \A i, j \in DOMAIN ns :
       i # j /\ ns[i].type = "TEXT" /\ ns[j].type = "TEXT" =>
         Span(ns[i]) \intersect Span(ns[j]) = {}

TreeInv ==
  /\ Typed(nodes, prios)
  /\ Dense(nodes, MaxIndex)
  /\ Dense(prios, MaxPrio)
  /\ Lists(nodes, prios)
  /\ text_len \in Nat /\ tail \in 0 .. text_len
  /\ Spans(nodes, tail)

LEMMA DenseGrown ==
  ASSUME NEW a, NEW max \in Nat, Dense(a, max), NEW i \in 0 .. max, NEW item
  PROVE  Dense(Grown(a, i, item), max) /\ i \in DOMAIN Grown(a, i, item)
<1>1. PICK n \in 0 .. max + 1 : DOMAIN a = 0 .. n - 1
  BY DEF Dense
<1>2. DOMAIN Grown(a, i, item) = 0 .. n - 1 \union 0 .. i
  BY <1>1 DEF Grown
<1>3. CASE i < n
  <2>1. 0 .. n - 1 \union 0 .. i = 0 .. n - 1
    BY <1>3
  <2> QED
    BY <1>2, <1>3, <2>1 DEF Dense
<1>4. CASE i >= n
  <2>1. 0 .. n - 1 \union 0 .. i = 0 .. (i + 1) - 1
    BY <1>4
  <2>2. i + 1 \in 0 .. max + 1 /\ i \in 0 .. i
    OBVIOUS
  <2>3. DOMAIN Grown(a, i, item) = 0 .. (i + 1) - 1
    BY <1>2, <2>1
  <2>4. \E k \in 0 .. max + 1 : DOMAIN Grown(a, i, item) = 0 .. k - 1
    BY <2>2, <2>3
  <2> QED
    BY <1>2, <2>2, <2>4 DEF Dense
<1> QED
  BY <1>3, <1>4

LEMMA VoidDense ==
  ASSUME TreeInv, NEW i \in 0 .. MaxIndex
  PROVE  /\ Dense(VoidNodes(i), MaxIndex) /\ i \in DOMAIN VoidNodes(i)
         /\ Dense(VoidPrios(i), MaxPrio) /\ DOMAIN VoidPrios(i) = DOMAIN prios
<1>1. Typed(nodes, prios) /\ Lists(nodes, prios) /\ Dense(nodes, MaxIndex) /\ Dense(prios, MaxPrio)
  BY DEF TreeInv
<1>2. MaxIndex \in Nat
  BY GbTreeAssumption
<1>3. CASE ~IsLive(i)
  BY <1>1, <1>2, <1>3, DenseGrown DEF VoidNodes, VoidPrios
<1>4. CASE IsLive(i)
  <2>1. DOMAIN VoidNodes(i) = DOMAIN nodes
    BY <1>1, <1>4, VoidedNodes
  <2>2. DOMAIN VoidPrios(i) = DOMAIN prios
    BY <1>1, <1>4, VoidedPrios
  <2> QED
    BY <1>1, <1>4, <2>1, <2>2 DEF Dense, IsLive
<1> QED
  BY <1>3, <1>4

(* Spans of nodes that were kept, and one new span after all of them.      *)
LEMMA KeptSpans ==
  ASSUME NEW ns, NEW ms, NEW S, Kept(ns, ms, S), NEW t \in Nat, Spans(ns, t),
         \A i \in DOMAIN ms : i \in S => ~Live(ms[i])
  PROVE  Spans(ms, t)
<1>1. \A i \in DOMAIN ms : ms[i].type = "TEXT" =>
        i \in DOMAIN ns /\ ns[i].type = "TEXT" /\ ms[i].pos = ns[i].pos /\ ms[i].len = ns[i].len
  BY DEF Kept, Live
<1> QED
  BY <1>1 DEF Spans, Span

LEMMA NewSpan ==
  ASSUME NEW ns, NEW ms, NEW i, Kept(ns, ms, {i}), NEW t \in Nat, NEW u \in Nat, t <= u,
         Spans(ns, t), ms[i].pos = t, ms[i].len = u - t,
         \A j \in DOMAIN ns : ns[j].pos \in Nat /\ ns[j].len \in Nat
  PROVE  Spans(ms, u)
<1>1. \A j \in DOMAIN ms : j # i /\ ms[j].type = "TEXT" =>
        j \in DOMAIN ns /\ ns[j].type = "TEXT" /\ ms[j].pos = ns[j].pos /\ ms[j].len = ns[j].len
  BY DEF Kept, Live
<1>2. Span(ms[i]) = t .. u - 1
  BY DEF Span
<1>3. \A j \in DOMAIN ms : j # i /\ ms[j].type = "TEXT" =>
        ms[j].pos \in Nat /\ ms[j].len \in Nat /\ ms[j].pos + ms[j].len <= t
  BY <1>1 DEF Spans
<1>4. \A j \in DOMAIN ms : j # i /\ ms[j].type = "TEXT" => Span(ms[j]) \intersect (t .. u - 1) = {}
  BY <1>3 DEF Span
<1>5. \A j, k \in DOMAIN ms : j # i /\ k # i /\ j # k /\ ms[j].type = "TEXT" /\ ms[k].type = "TEXT" =>
        Span(ms[j]) \intersect Span(ms[k]) = {}
  BY <1>1 DEF Spans, Span
<1>6. \A j \in DOMAIN ms : ms[j].type = "TEXT" => ms[j].pos + ms[j].len <= u
  BY <1>3
<1> QED
  BY <1>2, <1>4, <1>5, <1>6 DEF Spans

LEMMA TreeInitInv == Init => TreeInv
<1> SUFFICES ASSUME Init PROVE TreeInv
  OBVIOUS
<1>1. DOMAIN nodes = {} /\ DOMAIN prios = {} /\ text_len = 0 /\ tail = 0
  BY DEF Init
<1>2. Typed(nodes, prios)
  BY DEF Init, Typed
<1>3. Dense(nodes, MaxIndex) /\ Dense(prios, MaxPrio)
  <2>1. 0 \in 0 .. MaxIndex + 1 /\ 0 \in 0 .. MaxPrio + 1 /\ 0 .. 0 - 1 = {}
    BY GbTreeAssumption
  <2> QED
    BY <1>1, <2>1 DEF Dense
<1>4. Lists(nodes, prios) /\ Spans(nodes, tail)
  BY <1>1 DEF Lists, HeadsRight, OneRing, Spans
<1> QED
  BY <1>1, <1>2, <1>3, <1>4 DEF TreeInv

(* What a node put, or a failure to put it, does.                          *)
LEMMA PutInv ==
  ASSUME TreeInv, NEW i \in 0 .. MaxIndex, NEW p \in 0 .. MaxPrio, NEW n \in Node, Live(n),
         NodePut(i, p, n)
  PROVE  /\ Typed(nodes', prios') /\ Lists(nodes', prios')
         /\ Dense(nodes', MaxIndex) /\ Dense(prios', MaxPrio)
         /\ Kept(nodes, nodes', {i})
         /\ i \in DOMAIN nodes' /\ Live(nodes'[i])
         /\ nodes'[i].type = n.type /\ nodes'[i].prio = p
         /\ nodes'[i].pos = n.pos /\ nodes'[i].len = n.len
<1> DEFINE ns == VoidNodes(i)
<1> DEFINE ps == VoidPrios(i)
<1>0. i \in Nat /\ p \in Nat /\ MaxPrio \in Nat
  BY GbTreeAssumption
<1>1. Typed(nodes, prios) /\ Lists(nodes, prios)
  BY DEF TreeInv
<1>2. Typed(ns, ps) /\ Lists(ns, ps) /\ ~Live(ns[i])
  BY <1>0, <1>1, VoidLists
<1>3. Dense(ns, MaxIndex) /\ i \in DOMAIN ns /\ Dense(ps, MaxPrio) /\ DOMAIN ps = DOMAIN prios
  BY VoidDense
<1>4. Head(i, p) = Headed(ps, p)
  BY <1>3 DEF Head, Headed
<1>5. nodes' = Linked(ns, Headed(ps, p), i, p, n) /\ prios' = WithHead(ps, p, i)
  BY <1>4 DEF NodePut, WithHead
<1>6. Kept(nodes, ns, {i})
  BY <1>0, <1>1, VoidKept
<1> HIDE DEF ns, ps
<1>7. InFront(nodes', ns, Headed(ps, p), i, p, n)
  BY <1>0, <1>2, <1>3, <1>5, LinkedNodes
<1>8. Kept(nodes, nodes', {i})
  BY <1>2, <1>3, <1>6, <1>7, LinkKept, KeptTwice
<1>9. Typed(nodes', prios') /\ Lists(nodes', prios')
  BY <1>0, <1>2, <1>3, <1>5, LinkLists
<1>10. Dense(nodes', MaxIndex)
  BY <1>3, <1>7 DEF InFront, Dense
<1>11. Dense(prios', MaxPrio)
  <2>1. Dense(Grown(ps, p, None), MaxPrio)
    BY <1>0, <1>3, DenseGrown
  <2>2. DOMAIN prios' = DOMAIN Grown(ps, p, None)
    BY <1>5 DEF WithHead
  <2> QED
    BY <2>1, <2>2 DEF Dense
<1> QED
  BY <1>3, <1>7, <1>8, <1>9, <1>10, <1>11 DEF InFront

LEMMA PutFailsInv ==
  ASSUME TreeInv, NEW i \in 0 .. MaxIndex, NEW p \in 0 .. MaxPrio, PutFails(i, p)
  PROVE  TreeInv'
<1>0. i \in Nat
  BY GbTreeAssumption
<1>1. CASE VoidFails(i)
  BY <1>1 DEF VoidFails, vars, TreeInv, Spans, Span
<1>2. CASE nodes' = VoidNodes(i) /\ prios' = VoidPrios(i) /\ UNCHANGED <<text_len, tail>>
  <2>1. Typed(nodes', prios') /\ Lists(nodes', prios') /\ ~Live(nodes'[i])
    BY <1>0, <1>2, VoidLists DEF TreeInv
  <2>2. Dense(nodes', MaxIndex) /\ Dense(prios', MaxPrio)
    BY <1>2, VoidDense
  <2>3. Kept(nodes, nodes', {i})
    BY <1>0, <1>2, VoidKept DEF TreeInv
  <2>4. Spans(nodes', tail)
    BY <2>1, <2>3, KeptSpans DEF TreeInv
  <2>5. text_len' = text_len /\ tail' = tail
    BY <1>2
  <2> QED
    BY <2>1, <2>2, <2>4, <2>5 DEF TreeInv
<1> QED
  BY <1>1, <1>2 DEF PutFails

LEMMA TreeNextInv == TreeInv /\ [Next]_vars => TreeInv'
<1> SUFFICES ASSUME TreeInv, [Next]_vars PROVE TreeInv'
  OBVIOUS
<1>0. text_len \in Nat /\ tail \in Nat /\ tail <= text_len
  BY DEF TreeInv
<1>1. CASE AddText
  <2>1. text_len' \in Nat /\ text_len' > text_len /\ UNCHANGED <<nodes, prios, tail>>
    BY <1>0, <1>1, GbTreeAssumption DEF AddText
  <2> QED
    BY <1>0, <2>1 DEF TreeInv, Spans, Span
<1>2. ASSUME NEW i \in 0 .. MaxIndex, NEW p \in 0 .. MaxPrio, PutText(i, p) PROVE TreeInv'
  <2>1. CASE PutFails(i, p)
    BY <2>1, PutFailsInv
  <2>2. CASE NodePut(i, p, Text) /\ tail' = text_len /\ UNCHANGED text_len
    <3>1. Text \in Node /\ Live(Text) /\ Text.pos = tail /\ Text.len = text_len - tail
      <4>1. text_len - tail \in Nat
        BY <1>0
      <4> QED
        BY <1>0, <4>1 DEF Text, Node, Live
    <3>2. /\ Typed(nodes', prios') /\ Lists(nodes', prios')
          /\ Dense(nodes', MaxIndex) /\ Dense(prios', MaxPrio)
          /\ Kept(nodes, nodes', {i})
          /\ nodes'[i].pos = tail /\ nodes'[i].len = text_len - tail
      BY <2>2, <3>1, PutInv
    <3>3. \A j \in DOMAIN nodes : nodes[j].pos \in Nat /\ nodes[j].len \in Nat
      BY DEF TreeInv, Typed, Node
    <3>4. Spans(nodes', text_len)
      BY <1>0, <3>2, <3>3, NewSpan DEF TreeInv
    <3>5. text_len' \in Nat /\ tail' \in 0 .. text_len' /\ Spans(nodes', tail')
      BY <1>0, <2>2, <3>4
    <3> QED
      BY <3>2, <3>5 DEF TreeInv
  <2> QED
    BY <1>2, <2>1, <2>2 DEF PutText
<1>3. ASSUME NEW i \in 0 .. MaxIndex, NEW p \in 0 .. MaxPrio, PutTree(i, p) PROVE TreeInv'
  <2>1. CASE PutFails(i, p)
    BY <2>1, PutFailsInv
  <2>2. CASE NodePut(i, p, Tree) /\ UNCHANGED <<text_len, tail>>
    <3>1. Tree \in Node /\ Live(Tree) /\ Tree.type # "TEXT"
      BY DEF Tree, Blank, Node, Live
    <3>2. /\ Typed(nodes', prios') /\ Lists(nodes', prios')
          /\ Dense(nodes', MaxIndex) /\ Dense(prios', MaxPrio)
          /\ Kept(nodes, nodes', {i})
          /\ nodes'[i].type # "TEXT"
      BY <2>2, <3>1, PutInv
    <3>3. \A j \in DOMAIN nodes' : nodes'[j].type = "TEXT" =>
            /\ j \in DOMAIN nodes /\ nodes[j].type = "TEXT"
            /\ nodes'[j].pos = nodes[j].pos /\ nodes'[j].len = nodes[j].len
      BY <3>2 DEF Kept, Live
    <3>4. Spans(nodes', tail)
      BY <3>3 DEF TreeInv, Spans, Span
    <3> QED
      BY <1>0, <2>2, <3>2, <3>4 DEF TreeInv
  <2> QED
    BY <1>3, <2>1, <2>2 DEF PutTree
<1>4. ASSUME NEW i \in 0 .. MaxIndex, NodeVoid(i) PROVE TreeInv'
  <2>1. i \in Nat
    BY GbTreeAssumption
  <2>2. CASE VoidFails(i)
    BY <2>2 DEF VoidFails, vars, TreeInv, Spans, Span
  <2>3. CASE nodes' = VoidNodes(i) /\ prios' = VoidPrios(i) /\ UNCHANGED <<text_len, tail>>
    <3>1. Typed(nodes', prios') /\ Lists(nodes', prios') /\ ~Live(nodes'[i])
      BY <2>1, <2>3, VoidLists DEF TreeInv
    <3>2. Dense(nodes', MaxIndex) /\ Dense(prios', MaxPrio)
      BY <2>3, VoidDense
    <3>3. Kept(nodes, nodes', {i})
      BY <2>1, <2>3, VoidKept DEF TreeInv
    <3>4. Spans(nodes', tail)
      BY <1>0, <3>1, <3>3, KeptSpans DEF TreeInv
    <3> QED
      BY <1>0, <2>3, <3>1, <3>2, <3>4 DEF TreeInv
  <2> QED
    BY <1>4, <2>2, <2>3 DEF NodeVoid
<1>5. ASSUME NEW p \in DOMAIN prios, PrioVoid(p) PROVE TreeInv'
  <2>1. /\ Typed(nodes', prios') /\ Lists(nodes', prios')
        /\ DOMAIN nodes' = DOMAIN nodes /\ DOMAIN prios' = DOMAIN prios
        /\ Kept(nodes, nodes', Peers(nodes, p))
        /\ \A i \in Peers(nodes, p) : ~Live(nodes'[i])
    BY <1>5, PrioVoidLists DEF TreeInv
  <2>2. Dense(nodes', MaxIndex) /\ Dense(prios', MaxPrio)
    BY <2>1 DEF TreeInv, Dense
  <2>3. Spans(nodes', tail)
    BY <1>0, <2>1, KeptSpans DEF TreeInv
  <2>4. text_len' = text_len /\ tail' = tail
    BY <1>5 DEF PrioVoid
  <2> QED
    BY <1>0, <2>1, <2>2, <2>3, <2>4 DEF TreeInv
<1>6. CASE Empty
  <2>1. Init'
    BY <1>6 DEF Empty, Init
  <2> QED
    BY <2>1, TreeInitInv, PTL
<1>7. CASE UNCHANGED vars
  BY <1>7 DEF vars, TreeInv, Spans, Span
<1> QED
  BY <1>1, <1>2, <1>3, <1>4, <1>5, <1>6, <1>7 DEF Next

(* The invariant: every link leads there and back within its priority, the *)
(* heads are right, no priority has two rings, and text nodes have spans   *)
(* of their own before the tail.                                           *)
THEOREM TreeInvariant == Spec => []TreeInv
BY TreeInitInv, TreeNextInv, PTL DEF Spec

(* Nodes and priorities are dense arrays, and a head is a node's index.    *)
THEOREM TreeTypeCorrect == Spec => []TypeOK
<1>1. TreeInv => TypeOK
  <2>1. SUFFICES ASSUME TreeInv PROVE TypeOK
    OBVIOUS
  <2>2. /\ nodes \in [DOMAIN nodes -> Node] /\ Dense(nodes, MaxIndex)
        /\ prios \in [DOMAIN prios -> Int] /\ Dense(prios, MaxPrio)
        /\ text_len \in Nat /\ tail \in 0 .. text_len
    BY <2>1 DEF TreeInv, Typed
  <2>3. \A p \in DOMAIN prios : prios[p] \in {None} \union DOMAIN nodes
    BY <2>1 DEF TreeInv, Lists, HeadsRight, Peers
  <2>4. prios \in [DOMAIN prios -> {None} \union DOMAIN nodes]
    BY <2>2, <2>3
  <2> QED
    BY <2>2, <2>4 DEF TypeOK, Dense
<1> QED
  BY <1>1, TreeInvariant, PTL

(* Links lead to nodes of the same priority, there and back.               *)
THEOREM LinksCorrect == Spec => []PeersLinked
<1>1. TreeInv => PeersLinked
  BY DEF TreeInv, Lists, Linking, Peers, PeersLinked, Level
<1> QED
  BY <1>1, TreeInvariant, PTL

(* Trimming's walk along a peer list finds all the nodes of the priority,  *)
(* and no others.                                                          *)
THEOREM WalksComplete == Spec => []LevelsComplete
<1>1. TreeInv => LevelsComplete
  <2>1. SUFFICES ASSUME TreeInv PROVE LevelsComplete
    OBVIOUS
  <2>2. Typed(nodes, prios) /\ Lists(nodes, prios) /\ HeadsRight(nodes, prios)
    BY <2>1 DEF TreeInv, Lists
  <2>3. \A p : Level(p) = Peers(nodes, p)
    BY DEF Level, Peers
  <2>4. \A p \in DOMAIN prios : prios[p] # None => Walk(prios[p]) = Peers(nodes, p)
    BY <2>2, WalkVisitsPeers
  <2>5. \A p \in DOMAIN prios : prios[p] = None => Peers(nodes, p) = {}
    BY <2>2 DEF HeadsRight, Peers
  <2>6. \A i \in DOMAIN nodes : Live(nodes[i]) => nodes[i].prio \in DOMAIN prios
    BY <2>2 DEF HeadsRight
  <2> QED
    BY <2>3, <2>4, <2>5, <2>6 DEF LevelsComplete
<1> QED
  BY <1>1, TreeInvariant, PTL

(* No byte of the text is rendered by two nodes.                           *)
THEOREM SpansApart == Spec => []SpansDisjoint
<1>1. TreeInv => SpansDisjoint
  BY DEF TreeInv, Spans, SpansDisjoint
<1> QED
  BY <1>1, TreeInvariant, PTL

-----------------------------------------------------------------------------
(* The refinement of PrioTree.                                             *)

LEMMA ContentWithout ==
  ASSUME NEW S, Kept(nodes, nodes', S), \A i \in DOMAIN nodes' : i \in S => ~Live(nodes'[i])
  PROVE  content' = [j \in DOMAIN content \ S |-> content[j]]
<1>1. {j \in DOMAIN nodes' : Live(nodes'[j])} = {j \in DOMAIN nodes : Live(nodes[j])} \ S
  BY DEF Kept
<1>2. \A j \in {k \in DOMAIN nodes' : Live(nodes'[k])} : Item(nodes'[j]) = Item(nodes[j])
  BY DEF Kept, Item, Span
<1>3. content' = [j \in {k \in DOMAIN nodes' : Live(nodes'[k])} |-> Item(nodes'[j])]
  BY DEF content
<1> QED
  BY <1>1, <1>2, <1>3 DEF content

LEMMA ContentWith ==
  ASSUME NEW i, Kept(nodes, nodes', {i}), i \in DOMAIN nodes', Live(nodes'[i])
  PROVE  content' = [j \in DOMAIN content \union {i} |->
                       IF j = i THEN Item(nodes'[i]) ELSE content[j]]
<1>1. {j \in DOMAIN nodes' : Live(nodes'[j])} = {j \in DOMAIN nodes : Live(nodes[j])} \union {i}
  BY DEF Kept
<1>2. \A j \in {k \in DOMAIN nodes' : Live(nodes'[k])} : j # i => Item(nodes'[j]) = Item(nodes[j])
  BY DEF Kept, Item, Span
<1>3. content' = [j \in {k \in DOMAIN nodes' : Live(nodes'[k])} |-> Item(nodes'[j])]
  BY DEF content
<1> QED
  BY <1>1, <1>2, <1>3 DEF content

LEMMA VoidStep ==
  ASSUME TreeInv, NEW i \in 0 .. MaxIndex,
         nodes' = VoidNodes(i), prios' = VoidPrios(i), UNCHANGED <<text_len, tail>>
  PROVE  Abstract!Next
<1>1. i \in Nat /\ Typed(nodes, prios) /\ Lists(nodes, prios)
  BY GbTreeAssumption DEF TreeInv
<1>2. Kept(nodes, nodes', {i}) /\ ~Live(nodes'[i])
  BY <1>1, VoidKept, VoidLists
<1>3. content' = [j \in DOMAIN content \ {i} |-> content[j]]
  BY <1>2, ContentWithout
<1>4. Abstract!Remove(i)
  BY <1>3 DEF Abstract!Remove, Abstract!Keep, Abstract!Positions
<1> QED
  BY <1>4 DEF Abstract!Next

LEMMA PutFailsStep ==
  ASSUME TreeInv, NEW i \in 0 .. MaxIndex, NEW p, PutFails(i, p)
  PROVE  Abstract!Next \/ UNCHANGED vars
<1>1. CASE VoidFails(i)
  BY <1>1 DEF VoidFails
<1>2. CASE nodes' = VoidNodes(i) /\ prios' = VoidPrios(i) /\ UNCHANGED <<text_len, tail>>
  BY <1>2, VoidStep
<1> QED
  BY <1>1, <1>2 DEF PutFails

LEMMA StutterStep == UNCHANGED vars => UNCHANGED Abstract!vars
BY DEF vars, Abstract!vars, content, Item, Span

(* What reads the tree by its lists and spans sees contents at positions,  *)
(* with priorities: putting replaces one of them, with precisely the text  *)
(* added before, voiding removes one or all of a priority, and a failure   *)
(* removes the node it was to replace, at most.                            *)
THEOREM TreeRefinement == Spec => ImplementsPrioTree
<1>1. Init => Abstract!Init
  <2>1. SUFFICES ASSUME Init PROVE Abstract!Init
    OBVIOUS
  <2>2. DOMAIN nodes = {} /\ text_len = 0 /\ tail = 0
    BY <2>1 DEF Init
  <2>3. content = [i \in {} |-> 0] /\ tail .. text_len - 1 = {}
    BY <2>2 DEF content
  <2> QED
    BY <2>2, <2>3 DEF Abstract!Init
<1>2. TreeInv /\ [Next]_vars => [Abstract!Next]_(Abstract!vars)
  <2> SUFFICES ASSUME TreeInv, [Next]_vars PROVE Abstract!Next \/ UNCHANGED Abstract!vars
    OBVIOUS
  <2>0. text_len \in Nat /\ tail \in Nat /\ tail <= text_len
    BY DEF TreeInv
  <2>1. CASE AddText
    <3>1. text_len' \in Nat /\ text_len' > text_len /\ UNCHANGED <<nodes, prios, tail>>
      BY <2>0, <2>1, GbTreeAssumption DEF AddText
    <3>2. content' = content
      BY <3>1 DEF content, Item, Span
    <3>3. tail' .. text_len' - 1 = tail .. text_len - 1 \union text_len .. text_len' - 1
      BY <2>0, <3>1
    <3> QED
      BY <3>1, <3>2, <3>3 DEF Abstract!Next, Abstract!Write
  <2>2. ASSUME NEW i \in 0 .. MaxIndex, NEW p \in 0 .. MaxPrio, PutText(i, p)
        PROVE  Abstract!Next \/ UNCHANGED vars
    <3>1. CASE PutFails(i, p)
      BY <3>1, PutFailsStep
    <3>2. CASE NodePut(i, p, Text) /\ tail' = text_len /\ UNCHANGED text_len
      <4>1. Text \in Node /\ Live(Text) /\ Text.type = "TEXT"
            /\ Text.pos = tail /\ Text.len = text_len - tail
        <5>1. text_len - tail \in Nat
          BY <2>0
        <5> QED
          BY <2>0, <5>1 DEF Text, Node, Live
      <4>2. /\ Kept(nodes, nodes', {i}) /\ i \in DOMAIN nodes' /\ Live(nodes'[i])
            /\ nodes'[i].type = "TEXT" /\ nodes'[i].prio = p
            /\ nodes'[i].pos = tail /\ nodes'[i].len = text_len - tail
        BY <3>2, <4>1, PutInv
      <4>3. tail + (text_len - tail) - 1 = text_len - 1
        BY <2>0
      <4>4. Item(nodes'[i]) = [type |-> "TEXT", prio |-> p, text |-> tail .. text_len - 1]
        BY <4>2, <4>3 DEF Item, Span
      <4>5. content' = [j \in DOMAIN content \union {i} |->
                          IF j = i THEN [type |-> "TEXT", prio |-> p, text |-> tail .. text_len - 1]
                          ELSE content[j]]
        BY <4>2, <4>4, ContentWith
      <4>6. tail' .. text_len' - 1 = {} /\ text_len' = text_len
        BY <2>0, <3>2
      <4>7. Abstract!PutText(i, p)
        BY <4>5, <4>6 DEF Abstract!PutText, Abstract!Put, Abstract!Positions
      <4> QED
        BY <4>7 DEF Abstract!Next
    <3> QED
      BY <2>2, <3>1, <3>2 DEF PutText
  <2>3. ASSUME NEW i \in 0 .. MaxIndex, NEW p \in 0 .. MaxPrio, PutTree(i, p)
        PROVE  Abstract!Next \/ UNCHANGED vars
    <3>1. CASE PutFails(i, p)
      BY <3>1, PutFailsStep
    <3>2. CASE NodePut(i, p, Tree) /\ UNCHANGED <<text_len, tail>>
      <4>1. Tree \in Node /\ Live(Tree) /\ Tree.type = "TREE"
        BY DEF Tree, Blank, Node, Live
      <4>2. /\ Kept(nodes, nodes', {i}) /\ i \in DOMAIN nodes' /\ Live(nodes'[i])
            /\ nodes'[i].type = "TREE" /\ nodes'[i].prio = p
        BY <3>2, <4>1, PutInv
      <4>3. Item(nodes'[i]) = [type |-> "TREE", prio |-> p, text |-> {}]
        BY <4>2 DEF Item
      <4>4. content' = [j \in DOMAIN content \union {i} |->
                          IF j = i THEN [type |-> "TREE", prio |-> p, text |-> {}]
                          ELSE content[j]]
        BY <4>2, <4>3, ContentWith
      <4>5. Abstract!PutTree(i, p)
        BY <3>2, <4>4 DEF Abstract!PutTree, Abstract!Put, Abstract!Positions
      <4> QED
        BY <4>5 DEF Abstract!Next
    <3> QED
      BY <2>3, <3>1, <3>2 DEF PutTree
  <2>4. ASSUME NEW i \in 0 .. MaxIndex, NodeVoid(i) PROVE Abstract!Next \/ UNCHANGED vars
    BY <2>4, VoidStep DEF NodeVoid, VoidFails
  <2>5. ASSUME NEW p \in DOMAIN prios, PrioVoid(p) PROVE Abstract!Next
    <3>1. p \in 0 .. MaxPrio
      BY GbTreeAssumption DEF TreeInv, Dense
    <3>2. Kept(nodes, nodes', Peers(nodes, p)) /\ \A i \in Peers(nodes, p) : ~Live(nodes'[i])
      BY <2>5, PrioVoidLists DEF TreeInv
    <3>3. content' = [j \in DOMAIN content \ Peers(nodes, p) |-> content[j]]
      BY <3>2, ContentWithout
    <3>4. DOMAIN content \ Peers(nodes, p) = {j \in DOMAIN content : content[j].prio # p}
      BY DEF content, Peers, Item
    <3>5. Abstract!RemovePrio(p)
      BY <2>5, <3>3, <3>4 DEF PrioVoid, Abstract!RemovePrio, Abstract!Keep, Abstract!Positions
    <3> QED
      BY <3>1, <3>5 DEF Abstract!Next
  <2>6. CASE Empty
    <3>1. DOMAIN nodes' = {} /\ text_len' = 0 /\ tail' = 0
      BY <2>6 DEF Empty
    <3>2. content' = [i \in {} |-> 0] /\ tail' .. text_len' - 1 = {}
      BY <3>1 DEF content
    <3> QED
      BY <3>1, <3>2 DEF Abstract!Empty, Abstract!Next
  <2> QED
    BY <2>1, <2>2, <2>3, <2>4, <2>5, <2>6, StutterStep DEF Next
<1> QED
  BY <1>1, <1>2, TreeInvariant, PTL DEF Spec, ImplementsPrioTree, Abstract!Spec

=============================================================================
