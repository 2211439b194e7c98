----------------------------- MODULE TrimProofs -----------------------------
(***************************************************************************)
(* Proofs about Trim.                                                      *)
(***************************************************************************)
EXTENDS Trim, WellFoundedInduction, TLAPS

(* A set with zero, and with the successor of everything in it, has all    *)
(* natural numbers: otherwise one of them would be the least without.      *)
LEMMA SetInduction ==
  ASSUME NEW P, 0 \in P, \A n \in Nat : n \in P => n + 1 \in P
  PROVE  Nat \subseteq P
<1> DEFINE T == Nat \ P
           R == OpToRel(<, Nat)
<1> SUFFICES ASSUME T # {}
             PROVE  FALSE
  OBVIOUS
<1>1. IsWellFoundedOn(R, Nat)
  BY NatLessThanWellFounded
<1>2. \E x \in T : \A y \in T : ~(<<y, x>> \in R)
  <2>1. T \subseteq Nat
    OBVIOUS
  <2> HIDE DEF R, T
  <2> QED
    BY <1>1, <2>1, WFMin
<1>3. PICK x \in T : \A y \in T : ~(<<y, x>> \in R)
  BY <1>2
<1>4. \A y \in Nat : y < x => <<y, x>> \in R
  BY <1>3 DEF OpToRel
<1> HIDE DEF R
<1>5. x # 0 /\ x - 1 \in Nat /\ x - 1 < x
  BY <1>3
<1>6. x - 1 \notin T
  BY <1>3, <1>4, <1>5
<1> QED
  BY <1>3, <1>5, <1>6

-----------------------------------------------------------------------------
(* Which trees there are.                                                  *)

LEMMA TreesApart ==
  ASSUME TrimAssumption
  PROVE  /\ None \notin Trees /\ "event" \in Trees /\ "event" \notin Parts \union Records
         /\ Parts \intersect Records = {}
         /\ Within("event") = Parts
         /\ \A t \in Parts : Within(t) \subseteq Records
         /\ \A t \in Records : Within(t) = {}
         /\ \A t \in Trees : Within(t) \subseteq Trees \ {t, "event"}
         /\ \A s, t \in Trees : s # t => Within(s) \intersect Within(t) = {}
         /\ \A t \in Trees : \A s \in Within(t) : t \notin Within(s) /\ (t # "event" => Within(s) = {})
BY DEF TrimAssumption, Trees, Parts, Within, None

(* What is used of the shapes of trees.                                    *)
Shaped(o) ==
  \A t \in Trees :
    /\ o[t] \in Seq(Level(Trees)) /\ Len(o[t]) \in Nat /\ Len(o[t]) >= 1
    /\ \A p \in 1 .. Len(o[t]) : o[t][p].own \in Nat /\ o[t][p].tree \in Within(t) \union {None}
    /\ \A p, q \in 1 .. Len(o[t]) : p # q /\ o[t][p].tree = o[t][q].tree => o[t][p].tree = None
    /\ o[t][1].own > 0
    /\ t # "event" => \A p \in 1 .. Len(o[t]) : o[t][p].own > 0 \/ o[t][p].tree # None
    /\ t = "event" => o[t][1].tree = None

LEMMA LevelsTyped ==
  ASSUME TrimAssumption, NEW S \in SUBSET Trees, NEW s \in Seq(Level(S))
  PROVE  /\ s \in Seq(Level(Trees)) /\ Len(s) \in Nat
         /\ \A p \in 1 .. Len(s) : s[p].own \in Nat /\ s[p].tree \in S \union {None}
<1>1. \A p \in 1 .. Len(s) : s[p] \in Level(S)
  OBVIOUS
<1>2. Level(S) \subseteq Level(Trees)
  BY DEF Level
<1>3. s \in Seq(Level(Trees)) /\ Len(s) \in Nat
  <2> HIDE DEF Level
  <2> DEFINE L == Level(S)
             M == Level(Trees)
  <2>1. s \in Seq(L) /\ L \subseteq M
    BY <1>2
  <2> HIDE DEF L, M
  <2>2. s \in Seq(M) /\ Len(s) \in Nat
    BY <2>1
  <2> QED
    BY <2>2 DEF M
<1>4. ASSUME NEW p \in 1 .. Len(s)
      PROVE  s[p].own \in Nat /\ s[p].tree \in S \union {None}
  BY <1>1 DEF Level
<1> QED
  BY <1>3, <1>4

LEMMA WellShapedShaped ==
  ASSUME TrimAssumption, NEW o, WellShaped(o)
  PROVE  Shaped(o)
<1> SUFFICES ASSUME NEW t \in Trees
             PROVE  Shaped(o)!(t)
  BY DEF Shaped
<1>1. CASE t = "event"
  <2> DEFINE s == o["event"]
  <2>1. EventShape(s)
    BY DEF WellShaped
  <2> HIDE DEF s
  <2>2. s \in Seq(Level(Parts)) /\ Len(s) = 4 /\ s[1].own > 0 /\ s[1].tree = None
    BY <2>1 DEF EventShape
  <2>3. Parts \in SUBSET Trees
    BY DEF Trees
  <2>4. /\ s \in Seq(Level(Trees)) /\ Len(s) \in Nat
        /\ \A p \in 1 .. Len(s) : s[p].own \in Nat /\ s[p].tree \in Parts \union {None}
    BY <2>2, <2>3, LevelsTyped
  <2>5. \A p, q \in 1 .. 4 : p # q /\ s[p].tree = s[q].tree => s[p].tree = None
    <3>1. /\ s[1].tree = None /\ s[2].tree \in {None, "text"}
          /\ s[3].tree \in {None, "data"} /\ s[4].tree \in {None, "norm"}
      BY <2>1 DEF EventShape
    <3>2. 1 .. 4 = {1, 2, 3, 4}
      OBVIOUS
    <3> QED
      BY <3>1, <3>2 DEF None
  <2> QED
    BY <1>1, <2>2, <2>4, <2>5, TreesApart DEF s
<1>2. CASE t # "event"
  <2> DEFINE s == o[t]
  <2>1. s \in ShapesOf(Within(t))
    BY <1>2 DEF WellShaped
  <2>2. Within(t) \in SUBSET Trees
    BY TreesApart
  <2> HIDE DEF s
  <2>3. /\ s \in Seq(Level(Within(t))) /\ s # <<>> /\ s[1].own > 0
        /\ \A p \in 1 .. Len(s) : s[p].own > 0 \/ s[p].tree # None
        /\ \A p, q \in 1 .. Len(s) : p # q /\ s[p].tree = s[q].tree => s[p].tree = None
    BY <2>1 DEF ShapesOf
  <2>4. /\ s \in Seq(Level(Trees)) /\ Len(s) \in Nat
        /\ \A p \in 1 .. Len(s) : s[p].own \in Nat /\ s[p].tree \in Within(t) \union {None}
    BY <2>2, <2>3, LevelsTyped
  <2>5. Len(s) >= 1
    BY <2>3
  <2> QED
    BY <1>2, <2>3, <2>4, <2>5 DEF s
<1> QED
  BY <1>1, <1>2

-----------------------------------------------------------------------------
(* Lengths.                                                                *)

LEMMA ForestTyped ==
  ASSUME TrimAssumption, NEW f \in Forest, NEW t \in Trees
  PROVE  /\ f[t].levels \in Seq(Level(Trees)) /\ Len(f[t].levels) \in Nat
         /\ f[t].len \in Nat /\ f[t].atomic \in BOOLEAN
         /\ \A p \in 1 .. Len(f[t].levels) :
              /\ f[t].levels[p].own \in Nat /\ f[t].levels[p].tree \in Trees \union {None}
              /\ LevelLen(f, f[t].levels[p]) \in Nat
<1>1. /\ f[t].levels \in Seq(Level(Trees))
      /\ \A s \in Trees : f[s].len \in Nat /\ f[s].atomic \in BOOLEAN
  BY DEF Forest
<1>2. Trees \in SUBSET Trees
  OBVIOUS
<1> DEFINE s == f[t].levels
<1>3. /\ Len(s) \in Nat
      /\ \A p \in 1 .. Len(s) : s[p].own \in Nat /\ s[p].tree \in Trees \union {None}
  <2> HIDE DEF s
  <2> QED
    BY <1>1, <1>2, LevelsTyped DEF s
<1> HIDE DEF s
<1>4. \A p \in 1 .. Len(s) : LevelLen(f, s[p]) \in Nat
  BY <1>1, <1>3 DEF LevelLen
<1> QED
  BY <1>1, <1>3, <1>4 DEF s

(* The definition of UpTo, as a fact about a function.                     *)
AreLens(f, s, n, g) ==
  g = [k \in 0 .. n |-> IF k = 0 THEN 0 ELSE g[k - 1] + LevelLen(f, s[k])]

LEMMA LensExist ==
  ASSUME NEW f, NEW s, NEW n \in Nat
  PROVE  \E g : AreLens(f, s, n, g)
<1> DEFINE P == {m \in Nat : \E g : AreLens(f, s, m, g)}
           w(k, g) == IF k = 0 THEN 0 ELSE g[k - 1] + LevelLen(f, s[k])
<1>1. 0 \in P
  <2>1. AreLens(f, s, 0, [k \in 0 .. 0 |-> 0])
    BY DEF AreLens
  <2> QED
    BY <2>1
<1>2. ASSUME NEW m \in Nat, m \in P
      PROVE  m + 1 \in P
  <2>1. PICK g : AreLens(f, s, m, g)
    BY <1>2
  <2> DEFINE h == [k \in 0 .. m + 1 |-> IF k = m + 1 THEN w(m + 1, g) ELSE g[k]]
  <2>2. \A k \in 0 .. m : g[k] = w(k, g)
    BY <2>1 DEF AreLens
  <2> HIDE DEF w
  <2>3. \A k \in 0 .. m : h[k] = g[k]
    BY <2>2
  <2>4. \A k \in 0 .. m + 1 : h[k] = w(k, g)
    BY <2>2
  <2>5. \A k \in 0 .. m + 1 : k = 0 \/ h[k - 1] = g[k - 1]
    <3> HIDE DEF h
    <3> QED
      BY <2>3
  <2>6. \A k \in 0 .. m + 1 : w(k, h) = w(k, g)
    <3> HIDE DEF h
    <3> QED
      BY <2>5 DEF w
  <2>7. h = [k \in 0 .. m + 1 |-> w(k, h)]
    BY <2>4, <2>6
  <2>8. AreLens(f, s, m + 1, h)
    BY <2>7 DEF AreLens, w
  <2> QED
    BY <2>8
<1> HIDE DEF P
<1>3. Nat \subseteq P
  BY <1>1, <1>2, SetInduction
<1> QED
  BY <1>3 DEF P

LEMMA UpToSteps ==
  ASSUME NEW f, NEW t, Len(f[t].levels) \in Nat
  PROVE  /\ UpTo(f, t)[0] = 0
         /\ \A n \in 1 .. Len(f[t].levels) :
              UpTo(f, t)[n] = UpTo(f, t)[n - 1] + LevelLen(f, f[t].levels[n])
<1> DEFINE s == f[t].levels
           N == Len(s)
           g == UpTo(f, t)
<1>1. \E h : AreLens(f, s, N, h)
  BY LensExist
<1>2. g = CHOOSE h : AreLens(f, s, N, h)
  BY DEF UpTo, AreLens
<1>3. AreLens(f, s, N, g)
  BY <1>1, <1>2
<1>4. N \in Nat
  OBVIOUS
<1> HIDE DEF g, N, s
<1>5. \A k \in 0 .. N : g[k] = IF k = 0 THEN 0 ELSE g[k - 1] + LevelLen(f, s[k])
  BY <1>3 DEF AreLens
<1>6. 0 \in 0 .. N /\ \A k \in 1 .. N : k \in 0 .. N /\ k # 0
  BY <1>4
<1>7. g[0] = 0 /\ \A n \in 1 .. N : g[n] = g[n - 1] + LevelLen(f, s[n])
  BY <1>5, <1>6
<1> QED
  BY <1>7 DEF g, N, s

(* More levels are not shorter.                                            *)
LEMMA UpToGrows ==
  ASSUME TrimAssumption, NEW f \in Forest, NEW t \in Trees
  PROVE  /\ \A n \in 0 .. Len(f[t].levels) : UpTo(f, t)[n] \in Nat
         /\ \A m, n \in 0 .. Len(f[t].levels) : m <= n => UpTo(f, t)[m] <= UpTo(f, t)[n]
<1> DEFINE N == Len(f[t].levels)
           d(n) == LevelLen(f, f[t].levels[n])
           g == UpTo(f, t)
           P == {n \in Nat : n <= N => \A m \in 0 .. n : g[m] \in Nat /\ g[m] <= g[n]}
<1>1. /\ N \in Nat /\ g[0] = 0
      /\ \A n \in 1 .. N : g[n] = g[n - 1] + d(n)
      /\ \A n \in 1 .. N : d(n) \in Nat
  <2>1. N \in Nat /\ \A n \in 1 .. N : d(n) \in Nat
    BY ForestTyped
  <2>2. g[0] = 0 /\ \A n \in 1 .. N : g[n] = g[n - 1] + d(n)
    BY <2>1, UpToSteps
  <2> HIDE DEF g, N, d
  <2> QED
    BY <2>1, <2>2
<1> HIDE DEF g, N, d
<1>2. 0 \in P
  BY <1>1
<1>3. ASSUME NEW n \in Nat, n \in P
      PROVE  n + 1 \in P
  <2> SUFFICES ASSUME n + 1 <= N
               PROVE  \A m \in 0 .. n + 1 : g[m] \in Nat /\ g[m] <= g[n + 1]
    OBVIOUS
  <2>1. n + 1 \in 1 .. N /\ (n + 1) - 1 = n /\ n \in 0 .. n
    BY <1>1
  <2>2. \A m \in 0 .. n : g[m] \in Nat /\ g[m] <= g[n]
    BY <1>1, <1>3
  <2>3. g[n + 1] = g[n] + d(n + 1) /\ d(n + 1) \in Nat
    BY <1>1, <2>1
  <2>4. g[n + 1] \in Nat /\ g[n] <= g[n + 1]
    BY <2>1, <2>2, <2>3
  <2>5. \A m \in 0 .. n + 1 : m \in 0 .. n \/ m = n + 1
    OBVIOUS
  <2> QED
    BY <2>1, <2>2, <2>4, <2>5
<1> HIDE DEF P
<1>4. Nat \subseteq P
  BY <1>2, <1>3, SetInduction
<1>5. \A n \in 0 .. N : \A m \in 0 .. n : g[m] \in Nat /\ g[m] <= g[n]
  BY <1>1, <1>4 DEF P
<1>6. \A m, n \in 0 .. N : m <= n => m \in 0 .. n
  BY <1>1
<1>7. /\ \A n \in 0 .. N : g[n] \in Nat
      /\ \A m, n \in 0 .. N : m <= n => g[m] <= g[n]
  BY <1>5, <1>6
<1> QED
  BY <1>7 DEF g, N

(* The length of levels depends on them only.                              *)
LEMMA UpToSame ==
  ASSUME TrimAssumption, NEW f \in Forest, NEW g \in Forest, NEW t \in Trees,
         NEW k \in Nat, k <= Len(f[t].levels), k <= Len(g[t].levels),
         \A n \in 1 .. k : LevelLen(f, f[t].levels[n]) = LevelLen(g, g[t].levels[n])
  PROVE  \A n \in 0 .. k : UpTo(f, t)[n] = UpTo(g, t)[n]
<1> DEFINE F == UpTo(f, t)
           G == UpTo(g, t)
           P == {n \in Nat : n <= k => F[n] = G[n]}
           d(n) == LevelLen(f, f[t].levels[n])
           e(n) == LevelLen(g, g[t].levels[n])
           M == Len(f[t].levels)
           N == Len(g[t].levels)
<1>1. /\ M \in Nat /\ N \in Nat /\ k <= M /\ k <= N /\ F[0] = 0 /\ G[0] = 0
      /\ \A n \in 1 .. M : F[n] = F[n - 1] + d(n)
      /\ \A n \in 1 .. N : G[n] = G[n - 1] + e(n)
      /\ \A n \in 1 .. k : d(n) = e(n)
  BY ForestTyped, UpToSteps
<1> HIDE DEF F, G, M, N, d, e
<1>2. 0 \in P
  BY <1>1
<1>3. ASSUME NEW n \in Nat, n \in P
      PROVE  n + 1 \in P
  <2>1. n + 1 <= k => n + 1 \in 1 .. k /\ n + 1 \in 1 .. M /\ n + 1 \in 1 .. N /\ (n + 1) - 1 = n
    BY <1>1
  <2> QED
    BY <1>1, <1>3, <2>1
<1> HIDE DEF P
<1>4. Nat \subseteq P
  BY <1>2, <1>3, SetInduction
<1>5. \A n \in 0 .. k : F[n] = G[n]
  BY <1>4 DEF P
<1> QED
  BY <1>5 DEF F, G

(* The first level that does not fit is found.                             *)
LEMMA FittingIs ==
  ASSUME TrimAssumption, NEW f \in Forest, NEW t \in Trees, NEW max \in Nat
  PROVE  LET n == Fitting(f, t, max)
         IN  /\ n \in 0 .. Len(f[t].levels) /\ UpTo(f, t)[n] <= max
             /\ n < Len(f[t].levels) => UpTo(f, t)[n + 1] > max
<1> DEFINE g == UpTo(f, t)
           N == Len(f[t].levels)
           good(n) == g[n] <= max /\ (n < N => g[n + 1] > max)
           P == {m \in Nat : m <= N => (\E n \in 0 .. N : good(n)) \/ g[m] <= max}
<1>1. N \in Nat /\ g[0] = 0 /\ \A n \in 0 .. N : g[n] \in Nat
  BY ForestTyped, UpToSteps, UpToGrows
<1>2. Fitting(f, t, max) = CHOOSE n \in 0 .. N : good(n)
  BY DEF Fitting
<1> HIDE DEF g, N
<1>3. \E n \in 0 .. N : good(n)
  <2>1. 0 \in P
    BY <1>1
  <2>2. ASSUME NEW m \in Nat, m \in P
        PROVE  m + 1 \in P
    <3> SUFFICES ASSUME m + 1 <= N, ~(\E n \in 0 .. N : good(n))
                 PROVE  g[m + 1] <= max
      OBVIOUS
    <3>1. m \in 0 .. N /\ m < N /\ m + 1 \in 0 .. N
      BY <1>1
    <3>2. g[m] <= max
      BY <2>2, <3>1
    <3>3. ~good(m)
      BY <3>1
    <3> QED
      BY <1>1, <3>1, <3>2, <3>3
  <2>3. N \in P
    <3> HIDE DEF P
    <3>1. Nat \subseteq P
      BY <2>1, <2>2, SetInduction
    <3> QED
      BY <1>1, <3>1
  <2>4. g[N] <= max => good(N)
    BY <1>1
  <2>5. N <= N /\ N \in 0 .. N
    BY <1>1
  <2> QED
    BY <2>3, <2>4, <2>5
<1>4. Fitting(f, t, max) \in 0 .. N /\ good(Fitting(f, t, max))
  <2> DEFINE n == Fitting(f, t, max)
  <2> HIDE DEF good
  <2> QED
    BY <1>2, <1>3
<1> QED
  BY <1>4 DEF g, N

-----------------------------------------------------------------------------
(* What is left of trees.                                                  *)

Cut(f, o) ==
  /\ f \in Forest
  /\ \A t \in Trees :
       /\ Len(f[t].levels) >= 1 /\ Len(f[t].levels) <= Len(o[t])
       /\ \A p \in 1 .. Len(f[t].levels) : f[t].levels[p] = o[t][p]

LEMMA CutLevels ==
  ASSUME TrimAssumption, NEW o, Shaped(o), NEW f, Cut(f, o), NEW t \in Trees
  PROVE  /\ f \in Forest /\ f[t].levels \in Seq(Level(Trees))
         /\ Len(f[t].levels) \in Nat /\ Len(f[t].levels) >= 1
         /\ Len(o[t]) \in Nat /\ Len(f[t].levels) <= Len(o[t])
         /\ \A p \in 1 .. Len(f[t].levels) :
              /\ f[t].levels[p] = o[t][p] /\ p \in 1 .. Len(o[t])
              /\ f[t].levels[p].own \in Nat /\ f[t].levels[p].tree \in Within(t) \union {None}
              /\ LevelLen(f, f[t].levels[p]) \in Nat
         /\ \A p, q \in 1 .. Len(f[t].levels) :
              p # q /\ f[t].levels[p].tree = f[t].levels[q].tree => f[t].levels[p].tree = None
         /\ f[t].levels[1].own > 0
<1> DEFINE s == f[t].levels
           N == Len(s)
<1>1. f \in Forest /\ s \in Seq(Level(Trees)) /\ N \in Nat
  BY ForestTyped DEF Cut
<1>2. N >= 1 /\ N <= Len(o[t]) /\ \A p \in 1 .. N : s[p] = o[t][p]
  BY DEF Cut
<1>3. \A p \in 1 .. N : LevelLen(f, s[p]) \in Nat
  BY <1>1, ForestTyped
<1> HIDE DEF N, s
<1>4. /\ Len(o[t]) \in Nat /\ o[t][1].own > 0
      /\ \A p \in 1 .. Len(o[t]) : o[t][p].own \in Nat /\ o[t][p].tree \in Within(t) \union {None}
      /\ \A p, q \in 1 .. Len(o[t]) : p # q /\ o[t][p].tree = o[t][q].tree => o[t][p].tree = None
  BY DEF Shaped
<1>5. \A p \in 1 .. N : p \in 1 .. Len(o[t])
  BY <1>1, <1>2, <1>4
<1>6. 1 \in 1 .. N
  BY <1>1, <1>2
<1>7. \A p \in 1 .. N : s[p].own \in Nat /\ s[p].tree \in Within(t) \union {None}
  BY <1>2, <1>4, <1>5
<1>8. \A p, q \in 1 .. N : p # q /\ s[p].tree = s[q].tree => s[p].tree = None
  BY <1>2, <1>4, <1>5
<1>9. s[1].own > 0
  BY <1>2, <1>4, <1>6
<1>10. /\ f \in Forest /\ s \in Seq(Level(Trees)) /\ N \in Nat /\ N >= 1
       /\ Len(o[t]) \in Nat /\ N <= Len(o[t])
       /\ \A p \in 1 .. N : /\ s[p] = o[t][p] /\ p \in 1 .. Len(o[t])
                            /\ s[p].own \in Nat /\ s[p].tree \in Within(t) \union {None}
                            /\ LevelLen(f, s[p]) \in Nat
       /\ \A p, q \in 1 .. N : p # q /\ s[p].tree = s[q].tree => s[p].tree = None
       /\ s[1].own > 0
  BY <1>1, <1>2, <1>3, <1>4, <1>5, <1>7, <1>8, <1>9
<1> QED
  BY <1>10 DEF s, N

(* A tree after its other levels are voided.                               *)
LEMMA VoidedIs ==
  ASSUME TrimAssumption, NEW o, Shaped(o), NEW h, Cut(h, o), NEW t \in Trees,
         NEW m \in Nat, NEW k \in 1 .. Len(h[t].levels)
  PROVE  LET g == Voided(h, t, m, k)
         IN  /\ Cut(g, o) /\ Len(g[t].levels) = k
             /\ \A p \in 1 .. k : g[t].levels[p] = h[t].levels[p]
             /\ \A s \in Trees : s # t => g[s] = h[s]
             /\ g[t].len = UpTo(h, t)[k] /\ g[t].len = Total(g, t)
             /\ g[t].atomic <=> UpTo(h, t)[k] > m
             /\ \A n \in 0 .. k : UpTo(g, t)[n] = UpTo(h, t)[n]
<1> DEFINE g == Voided(h, t, m, k)
           s == h[t].levels
           N == Len(s)
           l == UpTo(h, t)[k]
           long == l > m
           new == [levels |-> SubSeq(s, 1, k), len |-> l, atomic |-> long]
<1>1. /\ h \in Forest /\ s \in Seq(Level(Trees)) /\ N \in Nat /\ N <= Len(o[t])
      /\ \A p \in 1 .. N : s[p] = o[t][p] /\ s[p].tree \in Within(t) \union {None}
  BY CutLevels
<1>2. k \in 1 .. N /\ k \in 0 .. N /\ l \in Nat
  <2>1. k \in 1 .. N /\ k \in 0 .. N
    BY <1>1
  <2> QED
    BY <1>1, <2>1, UpToGrows
<1>3. /\ SubSeq(s, 1, k) \in Seq(Level(Trees)) /\ Len(SubSeq(s, 1, k)) = k
      /\ \A p \in 1 .. k : SubSeq(s, 1, k)[p] = s[p]
  <2> DEFINE L == Level(Trees)
  <2>1. s \in Seq(L) /\ N \in Nat /\ k \in 1 .. N
    BY <1>1
  <2> HIDE DEF L, s, l
  <2>2. /\ SubSeq(s, 1, k) \in Seq(L) /\ Len(SubSeq(s, 1, k)) = k
        /\ \A p \in 1 .. k : SubSeq(s, 1, k)[p] = s[p]
    BY <2>1
  <2> QED
    BY <2>2 DEF L
<1>4. g = [h EXCEPT ![t] = new]
  BY DEF Voided
<1>5. DOMAIN h = Trees
  BY <1>1 DEF Forest
<1>6. g[t] = new /\ \A r \in Trees : r # t => g[r] = h[r]
  <2> HIDE DEF new, g
  <2> QED
    BY <1>4, <1>5
<1>7. /\ g[t].levels = SubSeq(s, 1, k) /\ g[t].len = l /\ (g[t].atomic <=> l > m)
  <2>1. g[t] = new
    BY <1>6
  <2> HIDE DEF g, l, s, long
  <2>2. g[t].levels = SubSeq(s, 1, k) /\ g[t].len = l /\ g[t].atomic = long
    BY <2>1 DEF new
  <2>3. long <=> l > m
    BY DEF long
  <2>4. g[t].atomic <=> l > m
    BY <2>2, <2>3
  <2> QED
    BY <2>2, <2>4
<1>8. g \in Forest
  <2>1. new \in [levels : Seq(Level(Trees)), len : Nat, atomic : BOOLEAN]
    <3>1. (l > m) \in BOOLEAN
      OBVIOUS
    <3> HIDE DEF l, s
    <3> QED
      BY <1>2, <1>3, <3>1 DEF new
  <2> HIDE DEF new, g
  <2> QED
    BY <1>1, <1>4, <2>1 DEF Forest
<1> HIDE DEF g, new, l
<1>9. Len(g[t].levels) = k /\ \A p \in 1 .. k : g[t].levels[p] = s[p]
  <2> HIDE DEF s
  <2> QED
    BY <1>3, <1>7
<1>10. Cut(g, o)
  <2> SUFFICES ASSUME NEW r \in Trees
               PROVE  /\ Len(g[r].levels) >= 1 /\ Len(g[r].levels) <= Len(o[r])
                      /\ \A p \in 1 .. Len(g[r].levels) : g[r].levels[p] = o[r][p]
    BY <1>8 DEF Cut
  <2>1. CASE r = t
    <3> HIDE DEF s
    <3>1. \A p \in 1 .. k : p \in 1 .. N
      BY <1>1, <1>2
    <3>2. k <= Len(o[t]) /\ k >= 1
      <4>1. Len(o[t]) \in Nat
        BY DEF Shaped
      <4> QED
        BY <1>1, <1>2, <4>1
    <3> QED
      BY <1>1, <1>9, <2>1, <3>1, <3>2
  <2>2. CASE r # t
    BY <1>6, <2>2 DEF Cut
  <2> QED
    BY <2>1, <2>2
<1>11. \A n \in 0 .. k : UpTo(g, t)[n] = UpTo(h, t)[n]
  <2>1. ASSUME NEW n \in 1 .. k
        PROVE  LevelLen(g, g[t].levels[n]) = LevelLen(h, h[t].levels[n])
    <3>1. g[t].levels[n] = s[n] /\ s[n].tree \in Within(t) \union {None}
      <4>1. n \in 1 .. N
        BY <1>1
      <4> HIDE DEF s
      <4> QED
        BY <1>1, <1>9, <4>1
    <3>2. s[n].tree # None => s[n].tree \in Trees /\ s[n].tree # t
      BY <3>1, TreesApart
    <3>3. s[n].tree # None => g[s[n].tree] = h[s[n].tree]
      BY <1>6, <3>2
    <3> QED
      BY <3>1, <3>3 DEF LevelLen
  <2>2. k \in Nat /\ k <= Len(g[t].levels) /\ k <= Len(h[t].levels)
    BY <1>1, <1>2, <1>9
  <2>3. h \in Forest
    BY <1>1
  <2> HIDE DEF s, N
  <2>4. \A n \in 0 .. k : UpTo(h, t)[n] = UpTo(g, t)[n]
    BY <1>8, <2>1, <2>2, <2>3, UpToSame, SMTT(30)
  <2> QED
    BY <2>4
<1>12. g[t].len = Total(g, t)
  <2>1. k \in 0 .. k
    BY <1>1, <1>2
  <2> QED
    BY <1>7, <1>9, <1>11, <2>1 DEF Total, l
<1> QED
  BY <1>6, <1>7, <1>9, <1>10, <1>11, <1>12 DEF g, l

(* The first level that does not fit, when its tree is trimmed: it is kept *)
(* with what it is then, or voided.                                        *)
LEMMA LevelTrimmed ==
  ASSUME TrimAssumption, NEW o, Shaped(o), NEW f, Cut(f, o), NEW t \in Trees, NEW m \in Nat,
         NEW n \in Nat, n < Len(f[t].levels), UpTo(f, t)[n] <= m, UpTo(f, t)[n + 1] > m,
         NEW h, Cut(h, o), h[t].levels = f[t].levels,
         NEW v, v = f[t].levels[n + 1],
         \A s \in Within(t) : s # v.tree => h[s].len = f[s].len,
         NEW k, k = Kept(n + 1, UpTo(h, t)[n + 1], m),
         NEW g, g = Voided(h, t, m, k)
  PROVE  /\ n + 1 \in 1 .. Len(f[t].levels) /\ UpTo(f, t)[n] \in Nat
         /\ LevelLen(f, v) \in Nat /\ LevelLen(h, v) \in Nat
         /\ UpTo(f, t)[n] + LevelLen(f, v) > m
         /\ k \in 1 .. Len(h[t].levels) /\ k \in {n, n + 1}
         /\ k = n => UpTo(f, t)[n] + LevelLen(h, v) > m /\ g[t].len = UpTo(f, t)[n]
         /\ k = n + 1 => /\ g[t].len = UpTo(f, t)[n] + LevelLen(h, v)
                         /\ n = 0 \/ g[t].len <= m
<1> DEFINE F == UpTo(f, t)
           H == UpTo(h, t)
           N == Len(f[t].levels)
           a == LevelLen(f, v)
           b == LevelLen(h, v)
<1>1. n + 1 \in 1 .. N /\ N \in Nat /\ n \in 0 .. N /\ n + 1 \in 0 .. N /\ (n + 1) - 1 = n
  BY CutLevels
<1>2. f \in Forest /\ h \in Forest
  BY DEF Cut
<1>3. F[n] \in Nat /\ a \in Nat /\ F[n + 1] = F[n] + a
  BY <1>1, <1>2, ForestTyped, UpToSteps, UpToGrows, SMTT(30)
<1>4. b \in Nat /\ H[n + 1] = H[n] + b
  <2>1. /\ n + 1 \in 1 .. Len(h[t].levels) /\ h[t].levels[n + 1] = v
        /\ Len(h[t].levels) \in Nat
    BY <1>1
  <2>2. H[n + 1] = H[(n + 1) - 1] + LevelLen(h, v)
    BY <2>1, UpToSteps
  <2>3. b \in Nat
    BY <1>2, <2>1, ForestTyped
  <2> QED
    BY <1>1, <2>2, <2>3
<1>5. H[n] = F[n]
  <2>1. ASSUME NEW i \in 1 .. n
        PROVE  LevelLen(f, f[t].levels[i]) = LevelLen(h, h[t].levels[i])
    <3> DEFINE w == f[t].levels[i]
    <3>1. i \in 1 .. N /\ i # n + 1
      BY <1>1
    <3>2. w.tree \in Within(t) \union {None}
      BY <3>1, CutLevels
    <3>3. w.tree = None \/ w.tree # v.tree
      BY <1>1, <3>1, CutLevels
    <3>4. w.tree # None => h[w.tree].len = f[w.tree].len
      BY <3>2, <3>3
    <3> HIDE DEF w
    <3>5. LevelLen(f, w) = LevelLen(h, w)
      BY <3>4 DEF LevelLen
    <3> QED
      BY <3>5 DEF w
  <2>2. n <= Len(f[t].levels) /\ n <= Len(h[t].levels) /\ n \in 0 .. n
    BY <1>1
  <2> QED
    BY <1>2, <2>1, <2>2, UpToSame
<1>6. k = IF H[n + 1] <= m \/ n + 1 = 1 THEN n + 1 ELSE n
  BY <1>1 DEF Kept
<1>7. H[0] = 0
  BY <1>2, ForestTyped, UpToSteps
<1>8. k \in 1 .. N /\ k \in {n, n + 1}
  BY <1>1, <1>6
<1>9. g[t].len = H[k]
  <2>1. k \in 1 .. Len(h[t].levels)
    BY <1>8
  <2> QED
    BY <2>1, VoidedIs
<1> HIDE DEF F, H, N, a, b
<1>10. F[n] + a > m
  BY <1>3 DEF F
<1>11. k = n => F[n] + b > m /\ g[t].len = F[n]
  BY <1>3, <1>4, <1>5, <1>6, <1>9
<1>12. k = n + 1 => g[t].len = F[n] + b /\ (n = 0 \/ g[t].len <= m)
  BY <1>3, <1>4, <1>5, <1>6, <1>9
<1> QED
  BY <1>1, <1>3, <1>4, <1>8, <1>10, <1>11, <1>12 DEF F, N, a, b

LEMMA TotalSame ==
  ASSUME TrimAssumption, NEW o, Shaped(o), NEW f, Cut(f, o), NEW g, Cut(g, o), NEW t \in Trees,
         g[t].levels = f[t].levels, \A s \in Within(t) : g[s].len = f[s].len
  PROVE  /\ Total(g, t) = Total(f, t)
         /\ \A n \in 0 .. Len(f[t].levels) : UpTo(g, t)[n] = UpTo(f, t)[n]
<1> DEFINE N == Len(f[t].levels)
<1>1. N \in Nat /\ N \in 0 .. N /\ f \in Forest /\ g \in Forest
  BY CutLevels
<1>2. ASSUME NEW n \in 1 .. N
      PROVE  LevelLen(g, g[t].levels[n]) = LevelLen(f, f[t].levels[n])
  <2> DEFINE v == f[t].levels[n]
  <2>1. v.tree \in Within(t) \union {None}
    BY CutLevels
  <2> HIDE DEF v
  <2>2. LevelLen(g, v) = LevelLen(f, v)
    BY <2>1 DEF LevelLen
  <2> QED
    BY <2>2 DEF v
<1>3. \A n \in 0 .. N : UpTo(g, t)[n] = UpTo(f, t)[n]
  BY <1>1, <1>2, UpToSame
<1> QED
  BY <1>1, <1>3 DEF Total

(* A tree has at least its level zero, which is not empty.                 *)
LEMMA TotalLeast ==
  ASSUME TrimAssumption, NEW o, Shaped(o), NEW f, Cut(f, o), NEW t \in Trees
  PROVE  /\ Total(f, t) \in Nat
         /\ \A n \in 0 .. Len(f[t].levels) : UpTo(f, t)[n] \in Nat /\ UpTo(f, t)[n] <= Total(f, t)
         /\ UpTo(f, t)[1] = LevelLen(f, f[t].levels[1])
         /\ LevelLen(f, f[t].levels[1]) > 0 /\ Total(f, t) > 0
<1> DEFINE N == Len(f[t].levels)
           F == UpTo(f, t)
           v == f[t].levels[1]
<1>1. /\ N \in Nat /\ N >= 1 /\ f \in Forest /\ v.own > 0 /\ v.own \in Nat
      /\ v.tree \in Within(t) \union {None}
  BY CutLevels
<1>2. N \in 0 .. N /\ 1 \in 0 .. N /\ 1 \in 1 .. N /\ 1 - 1 = 0
  BY <1>1
<1>3. F[0] = 0 /\ F[1] = F[0] + LevelLen(f, v)
  BY <1>1, <1>2, UpToSteps
<1>4. /\ \A n \in 0 .. N : F[n] \in Nat
      /\ \A m, n \in 0 .. N : m <= n => F[m] <= F[n]
  BY <1>1, UpToGrows
<1>5. LevelLen(f, v) > 0 /\ LevelLen(f, v) \in Nat
  <2>1. v.tree # None => f[v.tree].len \in Nat
    BY <1>1, TreesApart, ForestTyped
  <2> HIDE DEF v
  <2> QED
    BY <1>1, <2>1 DEF LevelLen
<1>6. Total(f, t) = F[N]
  BY DEF Total
<1> HIDE DEF F, N, v
<1>7. /\ F[N] \in Nat /\ \A n \in 0 .. N : F[n] \in Nat /\ F[n] <= F[N]
      /\ F[1] = LevelLen(f, v) /\ F[N] > 0
  BY <1>1, <1>2, <1>3, <1>4, <1>5
<1> QED
  BY <1>5, <1>6, <1>7 DEF F, N, v

(* The trees in a tree, and whether what is cached of their lengths, and   *)
(* of those of the trees in them, is right.                                *)
Counted(f, o, t) ==
  \A c \in Children(o[t]) :
    f[c].len = Total(f, c) /\ \A d \in Children(o[c]) : f[d].len = Total(f, d)

LEMMA ChildrenAre ==
  ASSUME TrimAssumption, NEW o, Shaped(o), NEW t \in Trees
  PROVE  /\ Children(o[t]) \subseteq Within(t)
         /\ \A p \in 1 .. Len(o[t]) : o[t][p].tree # None => o[t][p].tree \in Children(o[t])
BY DEF Children, Shaped

LEMMA LevelsPositive ==
  ASSUME TrimAssumption, NEW o, Shaped(o), NEW f, Cut(f, o), NEW t \in Trees \ {"event"},
         Counted(f, o, t)
  PROVE  Len(f[t].levels) > 1 => Total(f, t) > UpTo(f, t)[1]
<1> SUFFICES ASSUME Len(f[t].levels) > 1
             PROVE  Total(f, t) > UpTo(f, t)[1]
  OBVIOUS
<1> DEFINE N == Len(f[t].levels)
           F == UpTo(f, t)
           v == f[t].levels[2]
<1>1. /\ N \in Nat /\ f \in Forest /\ 2 \in 1 .. N /\ v = o[t][2] /\ 2 \in 1 .. Len(o[t])
      /\ v.own \in Nat /\ v.tree \in Within(t) \union {None} /\ LevelLen(f, v) \in Nat
  <2>1. N \in Nat /\ f \in Forest
    BY CutLevels
  <2>2. 2 \in 1 .. N
    BY <2>1
  <2> QED
    BY <2>1, <2>2, CutLevels
<1>2. v.own > 0 \/ v.tree # None
  BY <1>1 DEF Shaped
<1>3. v.tree # None => f[v.tree].len \in Nat /\ f[v.tree].len > 0
  <2>1. SUFFICES ASSUME v.tree # None
                 PROVE  f[v.tree].len \in Nat /\ f[v.tree].len > 0
    OBVIOUS
  <2>2. v.tree \in Children(o[t]) /\ v.tree \in Trees
    BY <1>1, <2>1, ChildrenAre, TreesApart
  <2>3. f[v.tree].len = Total(f, v.tree)
    BY <2>2 DEF Counted
  <2> QED
    BY <2>2, <2>3, TotalLeast
<1>4. LevelLen(f, v) > 0
  <2> HIDE DEF v
  <2> QED
    BY <1>1, <1>2, <1>3 DEF LevelLen
<1>5. F[2] = F[1] + LevelLen(f, v) /\ 2 - 1 = 1
  BY <1>1, UpToSteps
<1>6. 1 \in 0 .. N /\ 2 \in 0 .. N
  BY <1>1
<1>7. F[1] \in Nat /\ F[2] \in Nat /\ F[2] <= Total(f, t) /\ Total(f, t) \in Nat
  BY <1>6, TotalLeast
<1> HIDE DEF F, v
<1>8. Total(f, t) > F[1]
  BY <1>1, <1>4, <1>5, <1>7
<1> QED
  BY <1>8 DEF F

(* What is known of the trees f after c, if that is a tree, may have been  *)
(* trimmed: it is shorter if anything is missing.                          *)
Cutting(f, o, c, h) ==
  /\ Cut(h, o)
  /\ \A s \in Trees : s \notin {c} \union Within(c) =>
       h[s].levels = f[s].levels /\ h[s].len = f[s].len
  /\ \A s \in Trees : Len(h[s].levels) <= Len(f[s].levels)
  /\ c # None => h[c].len <= f[c].len /\ h[c].len = Total(h, c) /\ Counted(h, o, c)
  /\ (\E s \in Trees : Len(h[s].levels) # Len(f[s].levels)) => c # None /\ h[c].len < f[c].len

(* What a level has left for its tree.                                     *)
LEMMA LeftOver ==
  ASSUME NEW m \in Nat, NEW u \in Nat, u <= m, NEW w \in Nat
  PROVE  LET r == m - u
             x == IF r > w THEN r - w ELSE 0
         IN  x \in Nat /\ x >= m - u - w /\ (x = 0 \/ x = m - u - w)
OBVIOUS

(* Trees other than the one that is trimmed stay as long as they are.      *)
LEMMA OthersCounted ==
  ASSUME TrimAssumption, NEW o, Shaped(o), NEW f, Cut(f, o), NEW t \in Trees, Counted(f, o, t),
         NEW c \in Within(t) \union {None}, NEW h, Cutting(f, o, c, h),
         NEW g, Cut(g, o), \A s \in Trees : s # t => g[s] = h[s]
  PROVE  Counted(g, o, t)
<1> SUFFICES ASSUME NEW s \in Children(o[t])
             PROVE  g[s].len = Total(g, s) /\ \A d \in Children(o[s]) : g[d].len = Total(g, d)
  BY DEF Counted
<1>1. /\ s \in Within(t) /\ s \in Trees /\ s # t /\ Within(s) \subseteq Trees
      /\ t \notin Within(s)
  BY ChildrenAre, TreesApart
<1>2. ASSUME NEW d \in Children(o[s])
      PROVE  d \in Within(s) /\ d \in Trees /\ d # t /\ Within(d) = {}
  <2>1. Children(o[s]) \subseteq Within(s)
    BY <1>1, ChildrenAre
  <2> QED
    BY <1>1, <2>1, TreesApart DEF Trees
<1>3. \A x \in Within(s) : g[x] = h[x]
  BY <1>1
<1>4. g[s] = h[s] /\ \A d \in Children(o[s]) : g[d] = h[d]
  BY <1>1, <1>2
<1>5. Cut(h, o)
  BY DEF Cutting
<1>6. Total(g, s) = Total(h, s)
  BY <1>1, <1>3, <1>4, <1>5, TotalSame
<1>7. \A d \in Children(o[s]) : Total(g, d) = Total(h, d)
  BY <1>2, <1>4, <1>5, TotalSame
<1>8. CASE s = c
  <2>1. c # None
    BY <1>1, <1>8, TreesApart
  <2>2. h[s].len = Total(h, s) /\ \A d \in Children(o[s]) : h[d].len = Total(h, d)
    BY <1>8, <2>1 DEF Cutting, Counted
  <2> QED
    BY <1>4, <1>6, <1>7, <2>2
<1>9. CASE s # c
  <2>1. Within(None) = {}
    BY DEF Within, None
  <2>2. c = None \/ (c \in Trees /\ Within(s) \intersect Within(c) = {})
    BY <1>1, <1>9, TreesApart
  <2>3. c \notin Within(s)
    <3>1. c # None => Within(s) \intersect Within(t) = {}
      BY <1>1, TreesApart
    <3> QED
      BY <1>1, <3>1, TreesApart
  <2>4. \A x \in {s} \union Within(s) : x \in Trees /\ x \notin {c} \union Within(c)
    <3>1. s \notin Within(c)
      <4>1. c \in Trees /\ c # t => Within(c) \intersect Within(t) = {}
        BY TreesApart
      <4>2. c \in Within(t) => c # t
        BY <1>1, TreesApart
      <4> QED
        BY <1>1, <2>1, <2>2, <4>1, <4>2
    <3> QED
      BY <1>1, <1>9, <2>1, <2>2, <2>3, <3>1
  <2>5. \A x \in {s} \union Within(s) : h[x].levels = f[x].levels /\ h[x].len = f[x].len
    BY <2>4 DEF Cutting
  <2>6. Total(h, s) = Total(f, s)
    BY <1>1, <1>5, <2>5, TotalSame
  <2>7. \A d \in Children(o[s]) : Total(h, d) = Total(f, d)
    BY <1>2, <1>5, <2>5, TotalSame
  <2>8. f[s].len = Total(f, s) /\ \A d \in Children(o[s]) : f[d].len = Total(f, d)
    BY DEF Counted
  <2>9. h[s].len = Total(h, s) /\ \A d \in Children(o[s]) : h[d].len = Total(h, d)
    BY <1>2, <2>5, <2>6, <2>7, <2>8
  <2> QED
    BY <1>4, <1>6, <1>7, <2>9
<1> QED
  BY <1>8, <1>9

LEMMA TreeCut ==
  ASSUME TrimAssumption, NEW o, Shaped(o), NEW f, Cut(f, o), NEW t \in Trees, Counted(f, o, t),
         NEW m \in Nat,
         NEW n \in Nat, n < Len(f[t].levels), UpTo(f, t)[n] <= m, UpTo(f, t)[n + 1] > m,
         NEW v, v = f[t].levels[n + 1],
         NEW h, Cutting(f, o, v.tree, h),
         NEW k, k = Kept(n + 1, UpTo(h, t)[n + 1], m),
         NEW g, g = Voided(h, t, m, k)
  PROVE  /\ Cut(g, o) /\ Counted(g, o, t) /\ g[t].len = Total(g, t)
         /\ \A s \in Trees : s \notin {t, v.tree} \union Within(v.tree) =>
              g[s].levels = f[s].levels /\ g[s].len = f[s].len
         /\ \A s \in Trees : Len(g[s].levels) <= Len(f[s].levels)
         /\ g[t].len <= Total(f, t)
         /\ (Len(f[t].levels) > 1 => Total(f, t) > UpTo(f, t)[1]) =>
              ((\E s \in Trees : Len(g[s].levels) # Len(f[s].levels)) => g[t].len < Total(f, t))
         /\ g[t].len <= m \/ Len(g[t].levels) = 1
<1> DEFINE c == v.tree
           N == Len(f[t].levels)
           x == UpTo(f, t)[n]
           a == LevelLen(f, v)
           b == LevelLen(h, v)
<1>1. /\ Cut(h, o) /\ N \in Nat /\ n + 1 \in 1 .. N /\ c \in Within(t) \union {None}
  <2>1. N \in Nat /\ n + 1 \in 1 .. N
    BY CutLevels
  <2> QED
    BY <2>1, CutLevels DEF Cutting
<1>2. t \notin {c} \union Within(c)
  <2>1. Within(None) = {}
    BY DEF Within, None
  <2> QED
    BY <1>1, <2>1, TreesApart
<1>3. h[t].levels = f[t].levels
  BY <1>2 DEF Cutting
<1>4. \A s \in Within(t) : s # c => h[s].len = f[s].len
  <2> SUFFICES ASSUME NEW s \in Within(t), s # c
               PROVE  h[s].len = f[s].len
    OBVIOUS
  <2>1. s \in Trees /\ s \notin Within(c)
    <3>1. Within(None) = {}
      BY DEF Within, None
    <3>2. c \in Within(t) => c \in Trees /\ c # t
      BY TreesApart
    <3>3. c \in Trees /\ c # t => Within(c) \intersect Within(t) = {}
      BY TreesApart
    <3> QED
      BY <1>1, <3>1, <3>2, <3>3, TreesApart
  <2> QED
    BY <2>1 DEF Cutting
<1>5. /\ x \in Nat /\ a \in Nat /\ b \in Nat /\ x + a > m
      /\ k \in 1 .. Len(h[t].levels) /\ k \in {n, n + 1}
      /\ k = n => x + b > m /\ g[t].len = x
      /\ k = n + 1 => g[t].len = x + b /\ (n = 0 \/ g[t].len <= m)
  BY <1>1, <1>3, <1>4, LevelTrimmed, SMTT(60)
<1>6. /\ Cut(g, o) /\ Len(g[t].levels) = k
      /\ \A s \in Trees : s # t => g[s] = h[s]
      /\ g[t].len = Total(g, t)
  BY <1>1, <1>5, VoidedIs, SMTT(60)
<1>7. Counted(g, o, t)
  BY <1>1, <1>6, OthersCounted
<1>8. \A s \in Trees : s \notin {t, c} \union Within(c) =>
        g[s].levels = f[s].levels /\ g[s].len = f[s].len
  BY <1>6 DEF Cutting
<1>9. k <= N
  BY <1>1, <1>3, <1>5
<1>10. \A s \in Trees : Len(g[s].levels) <= Len(f[s].levels)
  BY <1>6, <1>9 DEF Cutting
<1>11. b <= a /\ (b = a => \A s \in Trees : Len(h[s].levels) = Len(f[s].levels))
  <2>1. v.own \in Nat
    BY <1>1, CutLevels
  <2>2. c # None => f[c].len \in Nat /\ h[c].len \in Nat /\ h[c].len <= f[c].len
    <3>1. c # None => c \in Trees
      BY <1>1, TreesApart
    <3>2. f \in Forest /\ h \in Forest
      BY <1>1 DEF Cut
    <3> QED
      BY <3>1, <3>2, ForestTyped DEF Cutting
  <2> DEFINE shorter == \E s \in Trees : Len(h[s].levels) # Len(f[s].levels)
  <2>3. shorter => c # None /\ h[c].len < f[c].len
    BY DEF Cutting
  <2>4. /\ a = v.own + IF c = None THEN 0 ELSE f[c].len
        /\ b = v.own + IF c = None THEN 0 ELSE h[c].len
    BY DEF LevelLen
  <2>5. b <= a /\ (b = a => ~shorter)
    <3> DEFINE own == v.own
               was == f[c].len
               len == h[c].len
               no  == c = None
    <3>1. own \in Nat /\ (~no => was \in Nat /\ len \in Nat /\ len <= was)
          /\ (shorter => ~no /\ len < was)
          /\ a = own + (IF no THEN 0 ELSE was) /\ b = own + (IF no THEN 0 ELSE len)
      BY <2>1, <2>2, <2>3, <2>4
    <3> HIDE DEF a, b, shorter, own, was, len, no
    <3> QED
      BY <3>1
  <2> QED
    BY <2>5
<1>12. x + a <= Total(f, t) /\ Total(f, t) \in Nat /\ (n = 0 => x = 0 /\ UpTo(f, t)[1] = a)
       /\ x <= m
  <2>1. UpTo(f, t)[n + 1] = x + a /\ UpTo(f, t)[0] = 0
    <3>1. (n + 1) - 1 = n
      OBVIOUS
    <3> QED
      BY <1>1, <3>1, UpToSteps
  <2>2. n + 1 \in 0 .. N
    BY <1>1
  <2>3. n = 0 => UpTo(f, t)[1] = UpTo(f, t)[n + 1]
    OBVIOUS
  <2>4. Total(f, t) \in Nat /\ UpTo(f, t)[n + 1] <= Total(f, t)
    BY <2>2, TotalLeast
  <2> HIDE DEF a, b, c, N
  <2> QED
    BY <1>5, <2>1, <2>3, <2>4
<1> HIDE DEF a, b, x, c, N
<1>13. g[t].len <= Total(f, t)
  BY <1>5, <1>11, <1>12
<1>14. ASSUME N > 1 => Total(f, t) > UpTo(f, t)[1],
              \E s \in Trees : Len(g[s].levels) # Len(f[s].levels)
       PROVE  g[t].len < Total(f, t)
  <2>1. CASE k = n
    BY <1>5, <1>12, <2>1
  <2>2. CASE k = n + 1
    <3>1. CASE n # 0 \/ b < a
      BY <1>5, <1>12, <2>2, <3>1
    <3>2. CASE n = 0 /\ b = a
      <4>1. \A s \in Trees : s # t => Len(g[s].levels) = Len(f[s].levels)
        BY <1>6, <1>11, <3>2
      <4>2. N # k
        BY <1>6, <1>14, <4>1 DEF N
      <4>3. N > 1
        BY <1>1, <1>9, <2>2, <3>2, <4>2
      <4> QED
        BY <1>5, <1>12, <1>14, <2>2, <3>2, <4>3
    <3> QED
      BY <1>5, <1>11, <3>1, <3>2
  <2> QED
    BY <1>5, <2>1, <2>2
<1>15. g[t].len <= m \/ Len(g[t].levels) = 1
  <2>1. Len(g[t].levels) = k
    BY <1>6
  <2>2. CASE k = n
    BY <1>5, <1>12, <2>2
  <2>3. CASE k = n + 1
    <3>1. n = 0 \/ g[t].len <= m
      BY <1>5, <2>3
    <3>2. n = 0 => k = 1
      BY <2>3
    <3> QED
      BY <2>1, <3>1, <3>2
  <2> QED
    BY <1>5, <2>2, <2>3
<1> QED
  BY <1>6, <1>7, <1>8, <1>10, <1>13, <1>14, <1>15 DEF c, N

(* A tree that fits is kept as it is.                                      *)
LEMMA AllKept ==
  ASSUME TrimAssumption, NEW o, Shaped(o), NEW f, Cut(f, o), NEW t \in Trees, Counted(f, o, t),
         NEW m \in Nat, Total(f, t) <= m,
         NEW g, g = Voided(f, t, m, Len(f[t].levels))
  PROVE  /\ Cut(g, o) /\ Counted(g, o, t) /\ g[t].len = Total(g, t)
         /\ \A s \in Trees : Len(g[s].levels) = Len(f[s].levels) /\ (s # t => g[s] = f[s])
         /\ g[t].len = Total(f, t) /\ ~g[t].atomic
<1> DEFINE N == Len(f[t].levels)
<1>1. N \in Nat /\ N \in 1 .. N
  BY CutLevels
<1>2. /\ Cut(g, o) /\ Len(g[t].levels) = N
      /\ \A s \in Trees : s # t => g[s] = f[s]
      /\ g[t].len = Total(f, t) /\ g[t].len = Total(g, t)
      /\ g[t].atomic <=> Total(f, t) > m
  <2>1. /\ Cut(g, o) /\ Len(g[t].levels) = N
        /\ \A s \in Trees : s # t => g[s] = f[s]
        /\ g[t].len = UpTo(f, t)[N] /\ g[t].len = Total(g, t)
        /\ g[t].atomic <=> UpTo(f, t)[N] > m
    BY <1>1, VoidedIs, SMTT(60)
  <2>2. Total(f, t) = UpTo(f, t)[N]
    BY DEF Total
  <2> HIDE DEF N
  <2> QED
    BY <2>1, <2>2
<1>3. ~(Total(f, t) > m)
  BY TotalLeast
<1>4. Cutting(f, o, None, f)
  <2>1. Within(None) = {}
    BY DEF Within, None
  <2>2. \A s \in Trees : Len(f[s].levels) \in Nat
    BY CutLevels
  <2> QED
    BY <2>1, <2>2 DEF Cutting
<1>5. Counted(g, o, t)
  BY <1>2, <1>4, OthersCounted
<1> QED
  BY <1>2, <1>3, <1>5

(* A tree that is left alone.                                              *)
LEMMA NotTrimmed ==
  ASSUME TrimAssumption, NEW o, Shaped(o), NEW f, Cut(f, o), NEW t \in Trees, Counted(f, o, t),
         NEW c \in Children(o[t]) \union {None},
         NEW h, Cut(h, o), \A s \in Trees : h[s].levels = f[s].levels /\ h[s].len = f[s].len
  PROVE  /\ Cutting(f, o, c, h) /\ Counted(h, o, t)
         /\ \A s \in Trees : Total(h, s) = Total(f, s)
         /\ c # None => /\ c \in Within(t) /\ c \in Trees /\ Counted(f, o, c)
                        /\ f[c].len = Total(f, c) /\ Counted(h, o, c)
<1>1. ASSUME NEW s \in Trees
      PROVE  Total(h, s) = Total(f, s)
  <2>1. Within(s) \subseteq Trees
    BY TreesApart
  <2> QED
    BY <2>1, TotalSame
<1>2. ASSUME NEW s \in Children(o[t])
      PROVE  s \in Within(t) /\ s \in Trees /\ \A d \in Children(o[s]) : d \in Trees /\ Children(o[d]) = {}
  <2>1. s \in Within(t) /\ s \in Trees /\ Within(s) \subseteq Trees /\ \A d \in Within(s) : Within(d) = {}
    <3>1. s \in Within(t) /\ s \in Trees
      BY ChildrenAre, TreesApart
    <3>2. s # "event"
      BY <3>1, TreesApart
    <3> QED
      BY <3>1, <3>2, TreesApart
  <2>2. Children(o[s]) \subseteq Within(s)
    BY <2>1, ChildrenAre
  <2>3. \A d \in Children(o[s]) : Children(o[d]) \subseteq Within(d)
    BY <2>1, <2>2, ChildrenAre
  <2> QED
    BY <2>1, <2>2, <2>3
<1>3. Counted(h, o, t)
  BY <1>1, <1>2 DEF Counted
<1>4. c # None => /\ c \in Within(t) /\ c \in Trees /\ f[c].len = Total(f, c) /\ h[c].len = Total(h, c)
                  /\ Counted(f, o, c) /\ Counted(h, o, c)
  BY <1>1, <1>2 DEF Counted
<1>5. c # None => h[c].len <= f[c].len
  BY <1>4, ForestTyped DEF Cut
<1>6. \A s \in Trees : Len(f[s].levels) \in Nat
  BY CutLevels
<1>7. Cutting(f, o, c, h)
  BY <1>4, <1>5, <1>6 DEF Cutting
<1> QED
  BY <1>1, <1>3, <1>4, <1>7

(* A tree that is not the event is trimmed as it should be if the tree of  *)
(* its first level that does not fit is.                                   *)
LEMMA InnerCut ==
  ASSUME TrimAssumption, NEW o, Shaped(o), NEW f, Cut(f, o), NEW t \in Trees \ {"event"},
         Counted(f, o, t), f[t].len = Total(f, t), NEW m \in Nat,
         NEW n \in Nat, n < Len(f[t].levels), UpTo(f, t)[n] <= m, UpTo(f, t)[n + 1] > m,
         NEW h, Cutting(f, o, f[t].levels[n + 1].tree, h)
  PROVE  Cutting(f, o, t, Voided(h, t, m, Kept(n + 1, UpTo(h, t)[n + 1], m)))
<1> DEFINE v == f[t].levels[n + 1]
           k == Kept(n + 1, UpTo(h, t)[n + 1], m)
           g == Voided(h, t, m, k)
<1>1. Len(f[t].levels) > 1 => Total(f, t) > UpTo(f, t)[1]
  BY LevelsPositive
<1>2. v = f[t].levels[n + 1] /\ k = Kept(n + 1, UpTo(h, t)[n + 1], m) /\ g = Voided(h, t, m, k)
      /\ Cutting(f, o, v.tree, h)
  OBVIOUS
<1> HIDE DEF v, k, g
<1>3. /\ Cut(g, o) /\ Counted(g, o, t) /\ g[t].len = Total(g, t)
      /\ \A s \in Trees : s \notin {t, v.tree} \union Within(v.tree) =>
           g[s].levels = f[s].levels /\ g[s].len = f[s].len
      /\ \A s \in Trees : Len(g[s].levels) <= Len(f[s].levels)
      /\ g[t].len <= Total(f, t)
      /\ (\E s \in Trees : Len(g[s].levels) # Len(f[s].levels)) => g[t].len < Total(f, t)
  BY <1>1, <1>2, TreeCut, SMTT(60)
<1>4. {t, v.tree} \union Within(v.tree) \subseteq {t, None} \union Within(t)
  <2>1. v.tree \in Within(t) \union {None}
    <3>1. n + 1 \in 1 .. Len(f[t].levels)
      BY CutLevels
    <3> QED
      BY <1>2, <3>1, CutLevels
  <2>2. Within(None) = {} /\ \A s \in Within(t) : Within(s) = {}
    BY TreesApart DEF Within, None
  <2> QED
    BY <2>1, <2>2
<1>5. None \notin Trees /\ t # None
  BY TreesApart
<1>6. \A s \in Trees : s \notin {t} \union Within(t) =>
        g[s].levels = f[s].levels /\ g[s].len = f[s].len
  BY <1>3, <1>4, <1>5
<1>7. Cutting(f, o, t, g)
  BY <1>3, <1>5, <1>6 DEF Cutting
<1> QED
  BY <1>2, <1>7

(* When everything fits.                                                   *)
LEMMA InnerKept ==
  ASSUME TrimAssumption, NEW o, Shaped(o), NEW f, Cut(f, o), NEW t \in Trees \ {"event"},
         Counted(f, o, t), f[t].len = Total(f, t), NEW m \in Nat, Total(f, t) <= m
  PROVE  Cutting(f, o, t, Voided(f, t, m, Len(f[t].levels)))
<1> DEFINE g == Voided(f, t, m, Len(f[t].levels))
<1>1. g = Voided(f, t, m, Len(f[t].levels))
  OBVIOUS
<1> HIDE DEF g
<1>2. /\ Cut(g, o) /\ Counted(g, o, t) /\ g[t].len = Total(g, t)
      /\ \A s \in Trees : Len(g[s].levels) = Len(f[s].levels) /\ (s # t => g[s] = f[s])
      /\ g[t].len = Total(f, t)
  BY <1>1, AllKept
<1>3. f[t].len \in Nat /\ \A s \in Trees : Len(f[s].levels) \in Nat
  BY ForestTyped DEF Cut
<1>4. t # None
  BY TreesApart
<1>5. Cutting(f, o, t, g)
  BY <1>2, <1>3, <1>4 DEF Cutting
<1> QED
  BY <1>1, <1>5

LEMMA RecordCut ==
  ASSUME TrimAssumption, NEW o, Shaped(o), NEW f, Cut(f, o), NEW t \in Records,
         f[t].len = Total(f, t), NEW m \in Nat
  PROVE  Cutting(f, o, t, RecordTrimmed(f, t, m))
<1> DEFINE n == Fitting(f, t, m)
           N == Len(f[t].levels)
<1>1. /\ t \in Trees \ {"event"} /\ Within(t) = {} /\ f \in Forest /\ N \in Nat /\ N >= 1
  BY TreesApart, CutLevels DEF Trees
<1>2. Counted(f, o, t)
  BY <1>1, ChildrenAre DEF Counted
<1>3. n \in 0 .. N /\ UpTo(f, t)[n] <= m /\ (n < N => UpTo(f, t)[n + 1] > m)
  BY <1>1, FittingIs
<1>4. CASE n = N
  <2>1. RecordTrimmed(f, t, m) = Voided(f, t, m, N)
    BY <1>4 DEF RecordTrimmed, TreeTrimmed
  <2>2. Total(f, t) <= m
    BY <1>3, <1>4 DEF Total
  <2> QED
    BY <1>1, <1>2, <2>1, <2>2, InnerKept
<1>5. CASE n # N
  <2>1. n \in Nat /\ n < N /\ n + 1 \in 1 .. N
    BY <1>1, <1>3, <1>5
  <2>2. f[t].levels[n + 1].tree = None
    BY <1>1, <2>1, CutLevels
  <2>3. RecordTrimmed(f, t, m) = Voided(f, t, m, Kept(n + 1, UpTo(f, t)[n + 1], m))
    BY <1>5, <2>2 DEF RecordTrimmed, TreeTrimmed, PrioTrimmed
  <2>4. Cutting(f, o, None, f)
    BY <1>1, <1>2, NotTrimmed
  <2> HIDE DEF n
  <2> QED
    BY <1>1, <1>2, <1>3, <2>1, <2>2, <2>3, <2>4, InnerCut
<1> QED
  BY <1>4, <1>5

LEMMA PartCut ==
  ASSUME TrimAssumption, NEW o, Shaped(o), NEW f, Cut(f, o), NEW t \in Parts,
         Counted(f, o, t), f[t].len = Total(f, t), NEW m \in Nat
  PROVE  Cutting(f, o, t, PartTrimmed(f, t, m))
<1> DEFINE n == Fitting(f, t, m)
           N == Len(f[t].levels)
           v == f[t].levels[n + 1]
           r == m - UpTo(f, t)[n]
           x == IF r > v.own THEN r - v.own ELSE 0
           h == PrioTrimmed(f, t, TRUE, n + 1, r, RecordTrimmed)
<1>1. t \in Trees \ {"event"} /\ Within(t) \subseteq Records /\ f \in Forest /\ N \in Nat /\ N >= 1
  BY TreesApart, CutLevels DEF Trees
<1>3. n \in 0 .. N /\ UpTo(f, t)[n] <= m /\ (n < N => UpTo(f, t)[n + 1] > m)
  BY <1>1, FittingIs
<1>4. CASE n = N
  <2>1. PartTrimmed(f, t, m) = Voided(f, t, m, N)
    BY <1>4 DEF PartTrimmed, TreeTrimmed
  <2>2. Total(f, t) <= m
    BY <1>3, <1>4 DEF Total
  <2> QED
    BY <1>1, <2>1, <2>2, InnerKept
<1>5. CASE n # N
  <2>1. n \in Nat /\ n < N /\ n + 1 \in 1 .. N
    BY <1>1, <1>3, <1>5
  <2>2. v.own \in Nat /\ v.tree \in Within(t) \union {None}
    <3>1. \A p \in 1 .. N : f[t].levels[p].own \in Nat /\ f[t].levels[p].tree \in Within(t) \union {None}
      BY <1>1, CutLevels
    <3>2. v = f[t].levels[n + 1]
      OBVIOUS
    <3> HIDE DEF n, N, v
    <3> QED
      BY <2>1, <3>1, <3>2
  <2>3. PartTrimmed(f, t, m) = Voided(h, t, m, Kept(n + 1, UpTo(h, t)[n + 1], m))
    BY <1>5 DEF PartTrimmed, TreeTrimmed
  <2>4. h = IF v.tree = None \/ f[v.tree].atomic \/ f[v.tree].len = 0 THEN f
            ELSE RecordTrimmed(f, v.tree, x)
    BY DEF PrioTrimmed
  <2>5. x \in Nat
    <3>1. UpTo(f, t)[n] \in Nat
      BY <1>1, <1>3, UpToGrows
    <3> QED
      BY <1>3, <2>2, <3>1
  <2> HIDE DEF n, v, r, x, h
  <2>6. Cutting(f, o, v.tree, h)
    <3>1. v.tree \in Children(o[t]) \union {None}
      <4>1. v = o[t][n + 1] /\ n + 1 \in 1 .. Len(o[t])
        BY <1>1, <2>1, CutLevels DEF v
      <4> QED
        BY <1>1, <4>1, ChildrenAre
    <3>2. CASE h = f
      BY <1>1, <3>1, <3>2, NotTrimmed
    <3>3. CASE h # f
      <4>1. v.tree # None /\ h = RecordTrimmed(f, v.tree, x)
        BY <2>4, <3>3
      <4>2. v.tree \in Records /\ f[v.tree].len = Total(f, v.tree)
        BY <1>1, <2>2, <3>1, <4>1, NotTrimmed
      <4> QED
        BY <2>5, <4>1, <4>2, RecordCut
    <3> QED
      BY <3>2, <3>3
  <2>7. v = f[t].levels[n + 1]
    BY DEF v
  <2> QED
    BY <1>1, <1>3, <2>1, <2>3, <2>6, <2>7, InnerCut
<1> QED
  BY <1>4, <1>5


(* A tree is only judged: what changes is whether it is taken for atomic.  *)
LEMMA JudgeIs ==
  ASSUME TrimAssumption, NEW o, Shaped(o), NEW f, Cut(f, o), NEW t \in Trees
  PROVE  LET j == Judge(f, t)
         IN  /\ Cut(j, o)
             /\ \A s \in Trees : j[s].levels = f[s].levels /\ j[s].len = f[s].len
             /\ \A s \in Trees : s # t => j[s] = f[s]
             /\ j[t].atomic => /\ f[t].levels[1].tree # None => f[f[t].levels[1].tree].atomic
                               /\ \A p \in 2 .. Len(f[t].levels) : f[t].levels[p] = Absent
<1> DEFINE c == f[t].levels[1].tree
           a == (c = None \/ f[c].atomic) /\ \A p \in 2 .. Len(f[t].levels) : f[t].levels[p] = Absent
           j == Judge(f, t)
<1>1. j = [f EXCEPT ![t].atomic = a]
  BY DEF Judge
<1>2. a \in BOOLEAN
  OBVIOUS
<1>3. a => (c # None => f[c].atomic) /\ \A p \in 2 .. Len(f[t].levels) : f[t].levels[p] = Absent
  OBVIOUS
<1>4. f \in Forest
  BY DEF Cut
<1> HIDE DEF j, a
<1>5. j \in Forest /\ (\A s \in Trees : s # t => j[s] = f[s])
      /\ j[t].levels = f[t].levels /\ j[t].len = f[t].len /\ j[t].atomic = a
  <2> DEFINE L == Seq(Level(Trees))
  <2>1. f \in [Trees -> [levels : L, len : Nat, atomic : BOOLEAN]]
    BY <1>4 DEF Forest
  <2> HIDE DEF L
  <2>2. j \in [Trees -> [levels : L, len : Nat, atomic : BOOLEAN]]
    BY <1>1, <1>2, <2>1
  <2>3. (\A s \in Trees : s # t => j[s] = f[s])
        /\ j[t].levels = f[t].levels /\ j[t].len = f[t].len /\ j[t].atomic = a
    BY <1>1, <1>2, <2>1
  <2> QED
    BY <2>2, <2>3 DEF Forest, L
<1>6. \A s \in Trees : j[s].levels = f[s].levels /\ j[s].len = f[s].len
  BY <1>5
<1>7. Cut(j, o)
  BY <1>5, <1>6 DEF Cut
<1>8. j[t].atomic => (c # None => f[c].atomic) /\ \A p \in 2 .. Len(f[t].levels) : f[t].levels[p] = Absent
  <2>1. j[t].atomic = a
    BY <1>5
  <2> QED
    BY <1>3, <2>1
<1> QED
  BY <1>5, <1>6, <1>7, <1>8 DEF j

LEMMA JudgedIs ==
  ASSUME TrimAssumption, NEW o, Shaped(o), NEW f, Cut(f, o), NEW t \in Parts
  PROVE  LET j == Judged(f, t)
         IN  /\ Cut(j, o)
             /\ \A s \in Trees : j[s].levels = f[s].levels /\ j[s].len = f[s].len
             /\ \A s \in Trees : s \notin {t} \union Within(t) => j[s] = f[s]
<1> DEFINE c == f[t].levels[1].tree
           i == IF c = None THEN f ELSE Judge(f, c)
           j == Judge(i, t)
<1>1. t \in Trees /\ c \in Within(t) \union {None} /\ Within(t) \subseteq Trees
  <2>1. t \in Trees
    BY DEF Trees
  <2>2. 1 \in 1 .. Len(f[t].levels)
    BY <2>1, CutLevels
  <2> QED
    BY <2>1, <2>2, CutLevels, TreesApart
<1> HIDE DEF c
<1>2. /\ Cut(i, o)
      /\ \A s \in Trees : i[s].levels = f[s].levels /\ i[s].len = f[s].len
      /\ \A s \in Trees : s \notin {t} \union Within(t) => i[s] = f[s]
  <2>1. CASE c = None
    BY <2>1
  <2>2. CASE c # None
    <3>1. c \in Trees /\ i = Judge(f, c)
      BY <1>1, <2>2
    <3> HIDE DEF i
    <3> QED
      BY <1>1, <2>2, <3>1, JudgeIs
  <2> QED
    BY <2>1, <2>2
<1>3. Judged(f, t) = j
  BY DEF Judged, c
<1> HIDE DEF i
<1> QED
  BY <1>1, <1>2, <1>3, JudgeIs

(* The event is trimmed as it should be. What is left of it is shorter if  *)
(* anything is missing, if it was longer than its level zero.              *)
LEMMA EventCut ==
  ASSUME TrimAssumption, NEW o, Shaped(o), NEW f, Cut(f, o), Counted(f, o, "event"),
         NEW cached \in BOOLEAN
  PROVE  LET g == Trimmed(f, cached)
         IN  /\ Cut(g, o) /\ Counted(g, o, "event") /\ g["event"].len = Total(g, "event")
             /\ \A s \in Trees : Len(g[s].levels) <= Len(f[s].levels)
             /\ (Len(f["event"].levels) > 1 => Total(f, "event") > UpTo(f, "event")[1]) =>
                  ((\E s \in Trees : Len(g[s].levels) # Len(f[s].levels)) =>
                     g["event"].len < Total(f, "event"))
             /\ g["event"].len <= MaxSize \/ Len(g["event"].levels) = 1
<1> DEFINE t == "event"
           m == MaxSize
           n == Fitting(f, t, m)
           N == Len(f[t].levels)
           v == f[t].levels[n + 1]
           r == m - UpTo(f, t)[n]
           x == IF r > v.own THEN r - v.own ELSE 0
           h == PrioTrimmed(f, t, cached, n + 1, r, PartTrimmed)
           g == Trimmed(f, cached)
<1>1. t \in Trees /\ Within(t) = Parts /\ f \in Forest /\ N \in Nat /\ N >= 1
  BY TreesApart, CutLevels
<1>2. m \in Nat
  BY DEF TrimAssumption
<1>3. n \in 0 .. N /\ UpTo(f, t)[n] <= m /\ (n < N => UpTo(f, t)[n + 1] > m)
  BY <1>1, <1>2, FittingIs
<1>4. CASE n = N
  <2>1. g = Voided(f, t, m, N)
    BY <1>4 DEF Trimmed, TreeTrimmed
  <2>2. Total(f, t) <= m
    BY <1>3, <1>4 DEF Total
  <2> HIDE DEF g, n
  <2>3. /\ Cut(g, o) /\ Counted(g, o, t) /\ g[t].len = Total(g, t)
        /\ \A s \in Trees : Len(g[s].levels) = Len(f[s].levels)
        /\ g[t].len = Total(f, t)
    BY <1>1, <1>2, <2>1, <2>2, AllKept
  <2>4. \A s \in Trees : Len(f[s].levels) \in Nat
    BY CutLevels
  <2> QED
    BY <2>2, <2>3, <2>4 DEF g
<1>5. CASE n # N
  <2>1. n \in Nat /\ n < N /\ n + 1 \in 1 .. N
    BY <1>1, <1>3, <1>5
  <2>2. v.own \in Nat /\ v.tree \in Within(t) \union {None}
    <3>1. \A p \in 1 .. N : f[t].levels[p].own \in Nat /\ f[t].levels[p].tree \in Within(t) \union {None}
      BY <1>1, CutLevels
    <3>2. v = f[t].levels[n + 1]
      OBVIOUS
    <3> HIDE DEF n, N, v
    <3> QED
      BY <2>1, <3>1, <3>2
  <2>3. v.tree \in Children(o[t]) \union {None}
    <3>1. v = o[t][n + 1] /\ n + 1 \in 1 .. Len(o[t])
      <4>1. \A p \in 1 .. N : f[t].levels[p] = o[t][p] /\ p \in 1 .. Len(o[t])
        BY <1>1, CutLevels
      <4>2. v = f[t].levels[n + 1]
        OBVIOUS
      <4> HIDE DEF n, N, v
      <4> QED
        BY <2>1, <4>1, <4>2
    <3> HIDE DEF v, n
    <3> QED
      BY <1>1, <3>1, ChildrenAre
  <2>4. g = Voided(h, t, m, Kept(n + 1, UpTo(h, t)[n + 1], m))
    BY <1>5 DEF Trimmed, TreeTrimmed
  <2> DEFINE i == IF v.tree = None \/ cached THEN f ELSE Judged(f, v.tree)
  <2>5. h = IF v.tree = None \/ i[v.tree].atomic \/ i[v.tree].len = 0 THEN i
            ELSE PartTrimmed(i, v.tree, x)
    BY DEF PrioTrimmed
  <2>6. x \in Nat
    <3>1. UpTo(f, t)[n] \in Nat
      BY <1>1, <1>3, UpToGrows
    <3> HIDE DEF n, N, v, h, g, i
    <3> QED
      BY <1>2, <1>3, <2>2, <3>1, LeftOver
  <2>7. i = f \/ (v.tree # None /\ i = Judged(f, v.tree))
    OBVIOUS
  <2>8. v = f[t].levels[n + 1]
    OBVIOUS
  <2> HIDE DEF n, v, r, x, h, i, g
  <2>9. Cut(i, o) /\ \A s \in Trees : i[s].levels = f[s].levels /\ i[s].len = f[s].len
    <3>1. CASE i = f
      BY <3>1
    <3>2. CASE i # f
      BY <1>1, <2>2, <2>7, <3>2, JudgedIs
    <3> QED
      BY <3>1, <3>2
  <2>10. /\ Cutting(f, o, v.tree, i) /\ Counted(i, o, t)
         /\ v.tree # None => i[v.tree].len = Total(i, v.tree) /\ Counted(i, o, v.tree)
    <3>1. /\ Cutting(f, o, v.tree, i) /\ Counted(i, o, t)
          /\ \A s \in Trees : Total(i, s) = Total(f, s)
          /\ v.tree # None => /\ v.tree \in Trees /\ f[v.tree].len = Total(f, v.tree)
                              /\ Counted(i, o, v.tree)
      BY <1>1, <2>3, <2>9, NotTrimmed
    <3> QED
      BY <2>9, <3>1
  <2>11. Cutting(f, o, v.tree, h)
    <3>1. CASE h = i
      BY <2>10, <3>1
    <3>2. CASE h # i
      <4>1. v.tree # None /\ h = PartTrimmed(i, v.tree, x) /\ v.tree \in Parts
        BY <1>1, <2>2, <2>5, <3>2
      <4>2. Cutting(i, o, v.tree, h)
        BY <2>6, <2>9, <2>10, <4>1, PartCut
      <4> DEFINE c == v.tree
      <4>3. c \in Trees
        BY <1>1, <2>2, <4>1, TreesApart
      <4> HIDE DEF c
      <4>4. Cutting(i, o, c, h) => Cutting(f, o, c, h)
        BY <2>9, <4>3 DEF Cutting
      <4> QED
        BY <4>2, <4>4 DEF c
    <3> QED
      BY <3>1, <3>2
  <2> DEFINE k == Kept(n + 1, UpTo(h, t)[n + 1], m)
  <2>12. k = Kept(n + 1, UpTo(h, t)[n + 1], m) /\ g = Voided(h, t, m, k)
    BY <2>4
  <2> HIDE DEF k, m, t, N
  <2>13. /\ Cut(g, o) /\ Counted(g, o, t) /\ g[t].len = Total(g, t)
         /\ \A s \in Trees : Len(g[s].levels) <= Len(f[s].levels)
         /\ (Len(f[t].levels) > 1 => Total(f, t) > UpTo(f, t)[1]) =>
              ((\E s \in Trees : Len(g[s].levels) # Len(f[s].levels)) => g[t].len < Total(f, t))
         /\ g[t].len <= m \/ Len(g[t].levels) = 1
    <3>1. n < Len(f[t].levels) /\ Counted(f, o, t) /\ t \in Trees /\ n \in Nat
      BY <1>1, <2>1 DEF N, t
    <3>2. UpTo(f, t)[n] <= m /\ UpTo(f, t)[n + 1] > m
      BY <1>3, <2>1
    <3> QED
      BY <1>2, <2>8, <2>11, <2>12, <3>1, <3>2, TreeCut, SMTT(90)
  <2> QED
    BY <2>13 DEF t, m, g
<1> QED
  BY <1>4, <1>5

-----------------------------------------------------------------------------
(* The event is measured.                                                  *)

LEMMA LinkedAre ==
  ASSUME TrimAssumption, NEW o, Shaped(o), NEW f, Cut(f, o)
  PROVE  /\ \A t \in Trees : Children(f[t].levels) \subseteq Children(o[t])
         /\ Children(f["event"].levels) \subseteq Parts
         /\ \A t \in Parts : Children(f[t].levels) \subseteq Records
         /\ Linked(f) \subseteq {"event"} \union Present(o)
         /\ Linked(f) \subseteq Trees
         /\ Present(o) \subseteq Parts \union Records
         /\ (\A t \in Trees : f[t].levels = o[t]) => Linked(f) = {"event"} \union Present(o)
<1>1. ASSUME NEW t \in Trees
      PROVE  Children(f[t].levels) \subseteq Children(o[t])
  <2> SUFFICES ASSUME NEW p \in 1 .. Len(f[t].levels), f[t].levels[p].tree # None
               PROVE  f[t].levels[p].tree \in Children(o[t])
    BY DEF Children
  <2>1. f[t].levels[p] = o[t][p] /\ p \in 1 .. Len(o[t])
    BY CutLevels
  <2> QED
    BY <2>1 DEF Children
<1>2. /\ "event" \in Trees /\ Parts \subseteq Trees /\ Records \subseteq Trees
      /\ Within("event") = Parts /\ \A t \in Parts : Within(t) \subseteq Records
  BY TreesApart DEF Trees
<1>3. Children(o["event"]) \subseteq Parts /\ \A t \in Parts : Children(o[t]) \subseteq Records
  <2>1. \A t \in Trees : Children(o[t]) \subseteq Within(t)
    BY ChildrenAre
  <2> QED
    BY <1>2, <2>1
<1>4. /\ Children(f["event"].levels) \subseteq Children(o["event"])
      /\ \A t \in Parts : Children(f[t].levels) \subseteq Children(o[t])
  BY <1>1, <1>2
<1>5. Present(o) \subseteq Parts \union Records
  BY <1>3 DEF Present
<1>6. Linked(f) \subseteq {"event"} \union Present(o)
  BY <1>3, <1>4 DEF Linked, Present
<1>7. ASSUME \A t \in Trees : f[t].levels = o[t]
      PROVE  Linked(f) = {"event"} \union Present(o)
  <2>1. f["event"].levels = o["event"] /\ \A t \in Parts : f[t].levels = o[t]
    BY <1>2, <1>7
  <2> QED
    BY <1>3, <2>1 DEF Linked, Present
<1> QED
  BY <1>1, <1>2, <1>3, <1>4, <1>5, <1>6, <1>7

(* The length of a tree depends on its levels, and on the trees in them.   *)
LEMMA TotalLinked ==
  ASSUME TrimAssumption, NEW o, Shaped(o), NEW f, Cut(f, o), NEW g, Cut(g, o), NEW t \in Trees,
         Len(g[t].levels) = Len(f[t].levels),
         \A s \in Children(f[t].levels) : g[s].len = f[s].len
  PROVE  Total(g, t) = Total(f, t) /\ Children(g[t].levels) = Children(f[t].levels)
<1> DEFINE N == Len(f[t].levels)
<1>1. N \in Nat /\ N \in 0 .. N /\ f \in Forest /\ g \in Forest /\ N <= Len(g[t].levels)
  BY CutLevels
<1>2. ASSUME NEW n \in 1 .. N
      PROVE  g[t].levels[n] = f[t].levels[n]
  <2>1. \A p \in 1 .. N : f[t].levels[p] = o[t][p]
    BY CutLevels
  <2>2. \A p \in 1 .. N : g[t].levels[p] = o[t][p]
    BY CutLevels
  <2> HIDE DEF N
  <2> QED
    BY <2>1, <2>2
<1>3. ASSUME NEW n \in 1 .. N
      PROVE  LevelLen(g, g[t].levels[n]) = LevelLen(f, f[t].levels[n])
  <2> DEFINE v == f[t].levels[n]
  <2>1. v.tree # None => g[v.tree].len = f[v.tree].len
    BY DEF Children
  <2>2. g[t].levels[n] = v
    BY <1>2
  <2> HIDE DEF v
  <2>3. LevelLen(g, v) = LevelLen(f, v)
    BY <2>1 DEF LevelLen
  <2> QED
    BY <2>2, <2>3 DEF v
<1>4. \A n \in 0 .. N : UpTo(g, t)[n] = UpTo(f, t)[n]
  BY <1>1, <1>3, UpToSame
<1>5. Children(g[t].levels) = Children(f[t].levels)
  BY <1>2 DEF Children
<1> QED
  BY <1>1, <1>4, <1>5 DEF Total

LEMMA SizedIs ==
  ASSUME TrimAssumption, NEW o, Shaped(o), NEW f, Cut(f, o), NEW S
  PROVE  LET g == Sized(f, S)
         IN  /\ Cut(g, o)
             /\ \A t \in Trees : /\ g[t].levels = f[t].levels /\ g[t].atomic = f[t].atomic
                                 /\ t \in S => g[t].len = Total(f, t)
                                 /\ t \notin S => g[t].len = f[t].len
<1> DEFINE g == Sized(f, S)
           L == Seq(Level(Trees))
           l(t) == Total(f, t)
<1>1. f \in [Trees -> [levels : L, len : Nat, atomic : BOOLEAN]]
  BY DEF Cut, Forest
<1>2. \A t \in Trees : l(t) \in Nat
  BY TotalLeast
<1>3. g = [t \in Trees |-> IF t \in S THEN [f[t] EXCEPT !.len = l(t)] ELSE f[t]]
  BY DEF Sized
<1> HIDE DEF g, L, l
<1>4. ASSUME NEW t \in Trees
      PROVE  /\ g[t] \in [levels : L, len : Nat, atomic : BOOLEAN]
             /\ g[t].levels = f[t].levels /\ g[t].atomic = f[t].atomic
             /\ t \in S => g[t].len = l(t)
             /\ t \notin S => g[t].len = f[t].len
  <2>1. f[t] \in [levels : L, len : Nat, atomic : BOOLEAN]
    BY <1>1
  <2> QED
    BY <1>2, <1>3, <2>1
<1>5. g \in Forest
  <2>1. g \in [Trees -> [levels : L, len : Nat, atomic : BOOLEAN]]
    BY <1>3, <1>4
  <2> QED
    BY <2>1 DEF Forest, L
<1>6. Cut(g, o)
  BY <1>4, <1>5 DEF Cut
<1> QED
  BY <1>4, <1>6 DEF g, l

(* What is in the event is measured, and nothing else. If the lengths of   *)
(* all that is in it were right, the lengths stay.                         *)
LEMMA MeasuredIs ==
  ASSUME TrimAssumption, NEW o, Shaped(o), NEW f, Cut(f, o)
  PROVE  LET g == Measured(f)
         IN  /\ Cut(g, o)
             /\ \A t \in Trees : g[t].levels = f[t].levels /\ g[t].atomic = f[t].atomic
             /\ \A t \in Linked(f) : g[t].len = Total(g, t)
             /\ (\A t \in Linked(f) : t # "event" => f[t].len = Total(f, t)) =>
                  g["event"].len = Total(f, "event")
<1> DEFINE L == Linked(f)
           f1 == Sized(f, L \intersect Records)
           f2 == Sized(f1, L \intersect Parts)
           g == Sized(f2, {"event"})
<1>1. g = Measured(f)
  BY DEF Measured
<1>2. /\ L \subseteq Trees /\ "event" \in Trees /\ Parts \subseteq Trees /\ Records \subseteq Trees
      /\ "event" \notin Parts \union Records /\ Parts \intersect Records = {}
      /\ Within("event") = Parts /\ (\A t \in Parts : Within(t) \subseteq Records)
      /\ (\A t \in Records : Within(t) = {}) /\ Trees = {"event"} \union Parts \union Records
  BY LinkedAre, TreesApart DEF Trees
<1>3. /\ Cut(f1, o)
      /\ \A t \in Trees : /\ f1[t].levels = f[t].levels /\ f1[t].atomic = f[t].atomic
                          /\ t \in L \intersect Records => f1[t].len = Total(f, t)
                          /\ t \notin L \intersect Records => f1[t].len = f[t].len
  <2> HIDE DEF L
  <2> QED
    BY SizedIs
<1> HIDE DEF f1
<1>4. /\ Cut(f2, o)
      /\ \A t \in Trees : /\ f2[t].levels = f1[t].levels /\ f2[t].atomic = f1[t].atomic
                          /\ t \in L \intersect Parts => f2[t].len = Total(f1, t)
                          /\ t \notin L \intersect Parts => f2[t].len = f1[t].len
  <2> HIDE DEF L
  <2> QED
    BY <1>3, SizedIs
<1> HIDE DEF f2
<1>5. /\ Cut(g, o)
      /\ \A t \in Trees : /\ g[t].levels = f2[t].levels /\ g[t].atomic = f2[t].atomic
                          /\ t = "event" => g[t].len = Total(f2, t)
                          /\ t # "event" => g[t].len = f2[t].len
  BY <1>4, SizedIs
<1> HIDE DEF g, L
<1>6. \A t \in Trees : g[t].levels = f[t].levels /\ g[t].atomic = f[t].atomic
  BY <1>3, <1>4, <1>5
<1>7. \A t \in Records : g[t].len = f1[t].len /\ f2[t].len = f1[t].len
  BY <1>2, <1>4, <1>5
<1>8. \A t \in Parts : g[t].len = f2[t].len
  BY <1>2, <1>5
<1>9. \A t \in Records : Total(g, t) = Total(f, t)
  BY <1>2, <1>5, <1>6, TotalSame
<1>10. \A t \in Parts : Total(g, t) = Total(f1, t)
  <2>1. ASSUME NEW t \in Parts
        PROVE  Total(g, t) = Total(f1, t)
    <3>1. t \in Trees /\ (\A s \in Within(t) : g[s].len = f1[s].len) /\ g[t].levels = f1[t].levels
      BY <1>2, <1>3, <1>6, <1>7
    <3> QED
      BY <1>3, <1>5, <3>1, TotalSame
  <2> QED
    BY <2>1
<1>11. Total(g, "event") = Total(f2, "event")
  <2>1. (\A s \in Within("event") : g[s].len = f2[s].len) /\ g["event"].levels = f2["event"].levels
    BY <1>2, <1>5, <1>8
  <2> QED
    BY <1>2, <1>4, <1>5, <2>1, TotalSame
<1>12. ASSUME NEW t \in L
       PROVE  g[t].len = Total(g, t)
  <2>1. CASE t = "event"
    BY <1>2, <1>5, <1>11, <2>1
  <2>2. CASE t \in Parts
    BY <1>2, <1>4, <1>8, <1>10, <1>12, <2>2
  <2>3. CASE t \in Records
    BY <1>2, <1>3, <1>7, <1>9, <1>12, <2>3
  <2> QED
    BY <1>2, <2>1, <2>2, <2>3
<1>13. ASSUME \A t \in L : t # "event" => f[t].len = Total(f, t)
       PROVE  g["event"].len = Total(f, "event")
  <2>1. \A t \in Records : f1[t].len = f[t].len
    BY <1>2, <1>3, <1>13
  <2>2. ASSUME NEW t \in Parts
        PROVE  Total(f1, t) = Total(f, t)
    <3>1. t \in Trees /\ (\A s \in Within(t) : f1[s].len = f[s].len) /\ f1[t].levels = f[t].levels
      BY <1>2, <1>3, <2>1
    <3> QED
      BY <1>3, <3>1, TotalSame
  <2>3. ASSUME NEW t \in Parts
        PROVE  f2[t].len = f[t].len
    <3>1. t \in L => f2[t].len = Total(f1, t) /\ f[t].len = Total(f, t)
      BY <1>2, <1>4, <1>13, <2>3
    <3>2. t \notin L => f2[t].len = f1[t].len /\ f1[t].len = f[t].len
      BY <1>2, <1>3, <1>4, <2>3
    <3> QED
      BY <2>2, <3>1, <3>2
  <2>4. Total(f2, "event") = Total(f, "event")
    <3>1. (\A s \in Within("event") : f2[s].len = f[s].len) /\ f2["event"].levels = f["event"].levels
      BY <1>2, <1>3, <1>4, <2>3
    <3> QED
      BY <1>2, <1>4, <3>1, TotalSame
  <2> QED
    BY <1>2, <1>5, <2>4
<1>14. /\ Cut(g, o)
       /\ \A t \in Trees : g[t].levels = f[t].levels /\ g[t].atomic = f[t].atomic
       /\ \A t \in L : g[t].len = Total(g, t)
       /\ (\A t \in L : t # "event" => f[t].len = Total(f, t)) =>
            g["event"].len = Total(f, "event")
  BY <1>5, <1>6, <1>12, <1>13
<1> QED
  BY <1>1, <1>14 DEF L

(* If what was in the event has its levels, it is as long as it was.       *)
LEMMA NothingMissing ==
  ASSUME TrimAssumption, NEW o, Shaped(o), NEW f, Cut(f, o), NEW g, Cut(g, o),
         Counted(f, o, "event"), Counted(g, o, "event"),
         \A t \in Linked(f) : Len(g[t].levels) = Len(f[t].levels)
  PROVE  Total(g, "event") = Total(f, "event") /\ Linked(g) = Linked(f)
<1> DEFINE P == Children(f["event"].levels)
<1>1. /\ P \subseteq Children(o["event"]) /\ P \subseteq Trees /\ "event" \in Trees
      /\ \A t \in P : /\ Children(f[t].levels) \subseteq Children(o[t])
                      /\ Children(f[t].levels) \subseteq Records
                      /\ Children(f[t].levels) \subseteq Linked(f)
      /\ P \subseteq Linked(f) /\ "event" \in Linked(f) /\ Records \subseteq Trees
  <2>1. "event" \in Trees /\ Parts \subseteq Trees /\ Records \subseteq Trees
    BY DEF Trees
  <2>2. /\ P \subseteq Children(o["event"]) /\ P \subseteq Parts
        /\ \A t \in Parts : /\ Children(f[t].levels) \subseteq Children(o[t])
                            /\ Children(f[t].levels) \subseteq Records
    BY <2>1, LinkedAre
  <2>3. Linked(f) = {"event"} \union P \union UNION {Children(f[t].levels) : t \in P}
    BY DEF Linked
  <2> HIDE DEF P
  <2> QED
    BY <2>1, <2>2, <2>3
<1> HIDE DEF P
<1>2. ASSUME NEW t \in P
      PROVE  g[t].len = f[t].len /\ Children(g[t].levels) = Children(f[t].levels)
  <2>1. ASSUME NEW s \in Children(f[t].levels)
        PROVE  g[s].len = f[s].len
    <3>1. s \in Trees /\ Len(g[s].levels) = Len(f[s].levels)
      BY <1>1
    <3>2. Within(s) = {}
      BY <1>1, TreesApart
    <3>3. Children(f[s].levels) = {}
      <4>1. Children(f[s].levels) \subseteq Children(o[s]) /\ Children(o[s]) \subseteq Within(s)
        BY <3>1, LinkedAre, ChildrenAre
      <4> QED
        BY <3>2, <4>1
    <3>4. Total(g, s) = Total(f, s)
      BY <3>1, <3>3, TotalLinked
    <3>5. f[s].len = Total(f, s) /\ g[s].len = Total(g, s)
      BY <1>1 DEF Counted
    <3> QED
      BY <3>4, <3>5
  <2>2. t \in Trees /\ Len(g[t].levels) = Len(f[t].levels)
    BY <1>1
  <2>3. Total(g, t) = Total(f, t) /\ Children(g[t].levels) = Children(f[t].levels)
    BY <2>1, <2>2, TotalLinked
  <2>4. f[t].len = Total(f, t) /\ g[t].len = Total(g, t)
    BY <1>1 DEF Counted
  <2> QED
    BY <2>3, <2>4
<1>3. Total(g, "event") = Total(f, "event") /\ Children(g["event"].levels) = P
  BY <1>1, <1>2, TotalLinked DEF P
<1>4. Linked(g) = Linked(f)
  <2>1. {Children(g[t].levels) : t \in P} = {Children(f[t].levels) : t \in P}
    BY <1>2
  <2> QED
    BY <1>3, <2>1 DEF Linked, P
<1> QED
  BY <1>3, <1>4

-----------------------------------------------------------------------------
(* The first event. What is missing of its trees is what they last lost,   *)
(* and what is taken for atomic is the least that a tree can be: so that   *)
(* no level is voided that would fit when trimmed.                         *)

Below(o, t) == Children(o[t]) \union UNION {Children(o[c]) : c \in Children(o[t])}

Prudent(f, o, t) == AtomicRight(f, o, Below(o, t)) /\ OnlyLast(f, o, {t} \union Below(o, t))

(* The first level missing of any tree, and whether there is one.          *)
Missing(f, o, t) == IF t = "event" THEN FirstMissing(f, o) ELSE MissingIn(f, o, t)

Lacking(f, o, t) == Short(f, o, t) \/ \E c \in Children(f[t].levels) : Incomplete(f, o, c)

There(o, v) == \E s \in Trees : \E p \in 2 .. Len(o[s]) : v = o[s][p]

LEMMA BelowAre ==
  ASSUME TrimAssumption, NEW o, Shaped(o), NEW t \in Trees
  PROVE  /\ Below(o, t) \subseteq Trees \ {t, "event"}
         /\ \A c \in Children(o[t]) : /\ c \in Trees \ {t, "event"} /\ c \in Within(t)
                                      /\ Below(o, c) = Children(o[c]) /\ Below(o, c) \subseteq Within(c)
                                      /\ t \notin Within(c)
         /\ Below(o, t) = UNION {{c} \union Below(o, c) : c \in Children(o[t])}
         /\ \A c, e \in Children(o[t]) : c # e =>
              ({e} \union Within(e)) \intersect ({c} \union Within(c)) = {}
<1>1. \A s \in Trees : Children(o[s]) \subseteq Within(s)
  BY ChildrenAre
<1>2. \A s \in Trees : Within(s) \subseteq Trees \ {s, "event"}
  BY TreesApart
<1>3. ASSUME NEW c \in Children(o[t])
      PROVE  /\ c \in Trees \ {t, "event"} /\ c \in Within(t)
             /\ Below(o, c) = Children(o[c]) /\ Below(o, c) \subseteq Within(c)
             /\ t \notin Within(c)
  <2>1. c \in Within(t) /\ c \in Trees \ {t, "event"}
    BY <1>1, <1>2
  <2>2. \A d \in Within(c) : d \in Trees /\ Within(d) = {}
    BY <2>1, TreesApart
  <2>3. \A d \in Children(o[c]) : Children(o[d]) = {}
    BY <1>1, <2>1, <2>2
  <2>4. Below(o, c) = Children(o[c])
    BY <2>3 DEF Below
  <2>5. t \notin Within(c)
    BY <2>1, TreesApart
  <2> QED
    BY <1>1, <2>1, <2>4, <2>5
<1>4. Below(o, t) = UNION {{c} \union Below(o, c) : c \in Children(o[t])}
  <2>1. \A c \in Children(o[t]) : Below(o, c) = Children(o[c])
    BY <1>3
  <2> QED
    BY <2>1 DEF Below
<1>5. Below(o, t) \subseteq Trees \ {t, "event"}
  BY <1>2, <1>3, <1>4
<1>6. ASSUME NEW c \in Children(o[t]), NEW e \in Children(o[t]), c # e
      PROVE  ({e} \union Within(e)) \intersect ({c} \union Within(c)) = {}
  <2>1. c \in Trees /\ e \in Trees /\ c \in Within(t) /\ e \in Within(t) /\ c # t /\ e # t
    BY <1>3
  <2>2. Within(c) \intersect Within(e) = {} /\ Within(c) \intersect Within(t) = {}
        /\ Within(e) \intersect Within(t) = {}
    BY <1>6, <2>1, TreesApart
  <2> QED
    BY <1>6, <2>1, <2>2
<1> QED
  BY <1>3, <1>4, <1>5, <1>6

(* What depends on the levels of a tree, and of the trees in it, only.     *)
LEMMA SameBelow ==
  ASSUME TrimAssumption, NEW o, Shaped(o), NEW f, Cut(f, o), NEW g, Cut(g, o), NEW t \in Trees,
         \A s \in {t} \union Within(t) : g[s].levels = f[s].levels
  PROVE  /\ Incomplete(g, o, t) = Incomplete(f, o, t)
         /\ t \in Records => MissingIn(g, o, t) = MissingIn(f, o, t)
         /\ t \in Parts => MissingIn(g, o, t) = MissingIn(f, o, t)
<1>1. Children(f[t].levels) \subseteq Within(t) /\ g[t].levels = f[t].levels
  BY LinkedAre, ChildrenAre
<1>2. \A c \in Children(f[t].levels) : g[c].levels = f[c].levels
  BY <1>1
<1>3. (\E c \in Children(g[t].levels) : Short(g, o, c)) = (\E c \in Children(f[t].levels) : Short(f, o, c))
  BY <1>1, <1>2 DEF Short
<1>4. Incomplete(g, o, t) = Incomplete(f, o, t)
  BY <1>1, <1>3 DEF Incomplete, Short
<1>5. ASSUME t \in Records \union Parts
      PROVE  MissingIn(g, o, t) = MissingIn(f, o, t)
  <2> DEFINE c == LastTree(f, t)
  <2>1. LastTree(g, t) = c /\ AfterLast(g, o, t) = AfterLast(f, o, t)
    BY <1>1 DEF LastTree, AfterLast
  <2>2. c \in Within(t) \union {None}
    <3>1. \A p \in 1 .. Len(f[t].levels) : f[t].levels[p].tree \in Within(t) \union {None}
      BY CutLevels
    <3>2. Len(f[t].levels) \in 1 .. Len(f[t].levels)
      BY CutLevels
    <3> QED
      BY <3>1, <3>2 DEF LastTree
  <2> HIDE DEF c
  <2>3. CASE c = None
    BY <2>1, <2>3 DEF MissingIn, c
  <2>4. CASE c # None
    <3>1. c \in Within(t) /\ c \in Trees /\ Within(c) = {}
      BY <1>5, <2>2, <2>4, TreesApart
    <3>2. g[c].levels = f[c].levels
      BY <3>1
    <3>3. Children(f[c].levels) = {}
      BY <3>1, LinkedAre, ChildrenAre
    <3>4. Incomplete(g, o, c) = Incomplete(f, o, c) /\ AfterLast(g, o, c) = AfterLast(f, o, c)
      BY <3>2, <3>3 DEF Incomplete, Short, AfterLast
    <3> QED
      BY <2>1, <3>4 DEF MissingIn, c
  <2> QED
    BY <2>3, <2>4
<1> QED
  BY <1>4, <1>5

LEMMA LastIs ==
  ASSUME TrimAssumption, NEW o, Shaped(o), NEW f, Cut(f, o), NEW t \in Trees
  PROVE  /\ LastTree(f, t) \in Within(t) \union {None}
         /\ LastTree(f, t) # None => /\ LastTree(f, t) \in Children(f[t].levels)
                                     /\ LastTree(f, t) \in Children(o[t])
         /\ LastTree(f, t) = o[t][Len(f[t].levels)].tree
<1> DEFINE N == Len(f[t].levels)
<1>1. N \in 1 .. N /\ \A p \in 1 .. N : f[t].levels[p] = o[t][p] /\ f[t].levels[p].tree \in Within(t) \union {None}
  BY CutLevels
<1>2. Children(f[t].levels) \subseteq Children(o[t])
  BY LinkedAre
<1>3. LastTree(f, t) = f[t].levels[N].tree
  BY DEF LastTree
<1>4. \A p \in 1 .. N : f[t].levels[p].tree # None => f[t].levels[p].tree \in Children(f[t].levels)
  BY DEF Children
<1> HIDE DEF N
<1>5. /\ LastTree(f, t) \in Within(t) \union {None}
      /\ LastTree(f, t) # None => LastTree(f, t) \in Children(f[t].levels)
      /\ LastTree(f, t) = o[t][N].tree
  BY <1>1, <1>3, <1>4
<1> QED
  BY <1>2, <1>5 DEF N

LEMMA LackingIs ==
  ASSUME TrimAssumption, NEW o, Shaped(o), NEW f, Cut(f, o)
  PROVE  /\ \A t \in Records : Lacking(f, o, t) <=> Incomplete(f, o, t)
         /\ \A t \in Parts : Lacking(f, o, t) <=> Incomplete(f, o, t)
         /\ Lacking(f, o, "event") <=> \E t \in Linked(f) : Short(f, o, t)
<1>1. \A t \in Records : Children(f[t].levels) = {}
  <2>1. \A t \in Records : t \in Trees /\ Within(t) = {}
    BY TreesApart DEF Trees
  <2>2. \A t \in Trees : Children(f[t].levels) \subseteq Children(o[t]) /\ Children(o[t]) \subseteq Within(t)
    BY LinkedAre, ChildrenAre
  <2> QED
    BY <2>1, <2>2
<1>2. \A t \in Parts : Children(f[t].levels) \subseteq Records
  BY LinkedAre
<1>3. \A t \in Records : Lacking(f, o, t) <=> Incomplete(f, o, t)
  BY <1>1 DEF Lacking, Incomplete
<1>4. \A t \in Records : Incomplete(f, o, t) <=> Short(f, o, t)
  BY <1>1 DEF Incomplete
<1>5. \A t \in Parts : Lacking(f, o, t) <=> Incomplete(f, o, t)
  BY <1>2, <1>4 DEF Lacking, Incomplete
<1>6. Lacking(f, o, "event") <=> \E t \in Linked(f) : Short(f, o, t)
  BY DEF Lacking, Incomplete, Linked
<1> QED
  BY <1>3, <1>5, <1>6

LEMMA MissingIs ==
  ASSUME TrimAssumption, NEW o, Shaped(o), NEW f, Cut(f, o), NEW t \in Trees
  PROVE  LET c == LastTree(f, t)
         IN  Missing(f, o, t) = IF c # None /\ Incomplete(f, o, c) THEN Missing(f, o, c)
                                ELSE AfterLast(f, o, t)
<1> DEFINE c == LastTree(f, t)
<1>1. c \in Within(t) \union {None}
  BY LastIs
<1>2. c # None => c \in Trees /\ c # "event"
  BY <1>1, TreesApart
<1>3. CASE t = "event"
  BY <1>2, <1>3 DEF Missing, FirstMissing
<1>4. CASE t # "event"
  <2>1. c # None => Within(c) = {}
    BY <1>1, <1>4, TreesApart
  <2>2. c # None => LastTree(f, c) = None
    BY <1>2, <2>1, LastIs
  <2>3. c # None => MissingIn(f, o, c) = AfterLast(f, o, c)
    BY <2>2 DEF MissingIn
  <2>4. Missing(f, o, t) = MissingIn(f, o, t) /\ (c # None => Missing(f, o, c) = AfterLast(f, o, c))
    BY <1>2, <1>4, <2>3 DEF Missing
  <2> QED
    BY <2>4 DEF MissingIn
<1> QED
  BY <1>3, <1>4

(* Of a tree that is not complete, a level is missing, unless its last one *)
(* has a tree that is not complete.                                        *)
LEMMA LackingLast ==
  ASSUME TrimAssumption, NEW o, Shaped(o), NEW f, Cut(f, o), NEW t \in Trees,
         OnlyLast(f, o, {t}), Lacking(f, o, t),
         ~(LastTree(f, t) # None /\ Incomplete(f, o, LastTree(f, t)))
  PROVE  Short(f, o, t) /\ Len(f[t].levels) + 1 \in 2 .. Len(o[t])
<1> DEFINE N == Len(f[t].levels)
<1>1. N \in Nat /\ N >= 1 /\ Len(o[t]) \in Nat
  BY CutLevels
<1>2. ASSUME NEW e \in Children(f[t].levels), Incomplete(f, o, e)
      PROVE  FALSE
  <2>1. PICK p \in 1 .. N : e = f[t].levels[p].tree /\ e # None
    BY DEF Children
  <2>2. p # N
    BY <1>2, <2>1 DEF LastTree
  <2>3. p \in 1 .. N - 1
    BY <1>1, <2>2
  <2> QED
    BY <1>2, <2>1, <2>3 DEF OnlyLast
<1>3. Short(f, o, t)
  BY <1>2 DEF Lacking
<1>4. N + 1 \in 2 .. Len(o[t])
  BY <1>1, <1>3 DEF Short
<1> QED
  BY <1>3, <1>4

(* What is missing is a level that was there.                              *)
LEMMA MissingStep ==
  ASSUME TrimAssumption, NEW o, Shaped(o), NEW f, Cut(f, o), NEW t \in Trees,
         OnlyLast(f, o, {t}), Lacking(f, o, t),
         LastTree(f, t) # None /\ Incomplete(f, o, LastTree(f, t)) => There(o, Missing(f, o, LastTree(f, t)))
  PROVE  There(o, Missing(f, o, t))
<1> DEFINE c == LastTree(f, t)
<1>1. Missing(f, o, t) = IF c # None /\ Incomplete(f, o, c) THEN Missing(f, o, c) ELSE AfterLast(f, o, t)
  BY MissingIs
<1>2. CASE c # None /\ Incomplete(f, o, c)
  BY <1>1, <1>2
<1>3. CASE ~(c # None /\ Incomplete(f, o, c))
  <2>1. Len(f[t].levels) + 1 \in 2 .. Len(o[t])
    BY <1>3, LackingLast
  <2>2. Missing(f, o, t) = o[t][Len(f[t].levels) + 1]
    BY <1>1, <1>3 DEF AfterLast
  <2> QED
    BY <2>1, <2>2 DEF There
<1> QED
  BY <1>2, <1>3

LEMMA MissingThere ==
  ASSUME TrimAssumption, NEW o, Shaped(o), NEW f, Cut(f, o), NEW t \in Trees,
         OnlyLast(f, o, {t} \union Below(o, t)), Lacking(f, o, t)
  PROVE  There(o, Missing(f, o, t))
<1>1. ASSUME NEW r \in Records, Lacking(f, o, r)
      PROVE  There(o, Missing(f, o, r))
  <2>1. r \in Trees /\ Within(r) = {}
    BY TreesApart DEF Trees
  <2>2. LastTree(f, r) = None
    BY <2>1, LastIs
  <2>3. OnlyLast(f, o, {r})
    <3>1. \A p \in 1 .. Len(f[r].levels) : f[r].levels[p].tree \in Within(r) \union {None}
      BY <2>1, CutLevels
    <3>2. Len(f[r].levels) \in Nat
      BY <2>1, CutLevels
    <3>3. \A p \in 1 .. Len(f[r].levels) - 1 : p \in 1 .. Len(f[r].levels)
      BY <3>2
    <3> QED
      BY <2>1, <3>1, <3>3 DEF OnlyLast
  <2> QED
    BY <1>1, <2>1, <2>2, <2>3, MissingStep
<1>2. ASSUME NEW s \in Parts, OnlyLast(f, o, {s}), Lacking(f, o, s)
      PROVE  There(o, Missing(f, o, s))
  <2> DEFINE c == LastTree(f, s)
  <2>1. s \in Trees /\ Within(s) \subseteq Records
    BY TreesApart DEF Trees
  <2>2. c \in Within(s) \union {None}
    BY <2>1, LastIs
  <2>3. c # None /\ Incomplete(f, o, c) => There(o, Missing(f, o, c))
    BY <1>1, <2>1, <2>2, LackingIs
  <2> QED
    BY <1>2, <2>1, <2>3, MissingStep
<1>3. OnlyLast(f, o, {t}) /\ \A c \in Children(o[t]) : OnlyLast(f, o, {c})
  BY DEF OnlyLast, Below
<1>4. CASE t \in Records
  BY <1>1, <1>4
<1>5. CASE t \in Parts
  BY <1>2, <1>3, <1>5
<1>6. CASE t = "event"
  <2> DEFINE c == LastTree(f, t)
  <2>1. c \in Parts \union {None} /\ (c # None => c \in Children(o[t]))
    BY <1>6, LastIs, TreesApart
  <2>2. c # None /\ Incomplete(f, o, c) => There(o, Missing(f, o, c))
    BY <1>2, <1>3, <2>1, LackingIs
  <2> QED
    BY <1>3, <2>2, MissingStep
<1> QED
  BY <1>4, <1>5, <1>6 DEF Trees

LEMMA LeastTyped ==
  ASSUME TrimAssumption, NEW o, Shaped(o), NEW v, There(o, v)
  PROVE  /\ Least(o, v) \in Nat /\ v.own \in Nat
         /\ v.tree \in Parts \union Records \union {None}
<1>1. PICK s \in Trees : \E p \in 2 .. Len(o[s]) : v = o[s][p]
  BY DEF There
<1>2. PICK p \in 2 .. Len(o[s]) : v = o[s][p]
  BY <1>1
<1>3. p \in 1 .. Len(o[s])
  BY DEF Shaped
<1>4. v.own \in Nat /\ v.tree \in Within(s) \union {None}
  BY <1>2, <1>3 DEF Shaped
<1>5. v.tree # None => v.tree \in Trees /\ v.tree # "event"
  BY <1>4, TreesApart
<1>6. ASSUME NEW t \in Trees
      PROVE  LeastPart(o, t) \in Nat
  <2>1. \A r \in Trees : o[r][1].own \in Nat /\ o[r][1].tree \in Within(r) \union {None}
    <3>1. \A r \in Trees : 1 \in 1 .. Len(o[r])
      BY DEF Shaped
    <3> QED
      BY <3>1 DEF Shaped
  <2>2. o[t][1].tree # None => o[t][1].tree \in Trees
    BY <2>1, TreesApart
  <2> QED
    BY <2>1, <2>2 DEF LeastPart, LeastRecord
<1>7. v.tree \in Parts \union Records \union {None}
  BY <1>4, <1>5, TreesApart DEF Trees
<1>8. Least(o, v) \in Nat
  <2>1. v.tree # None => LeastPart(o, v.tree) \in Nat
    BY <1>5, <1>6
  <2> QED
    BY <1>4, <2>1 DEF Least
<1> QED
  BY <1>4, <1>7, <1>8

(* Trees are as they were, except for t: what is known of the trees below  *)
(* it stays.                                                               *)
LEMMA BelowSame ==
  ASSUME TrimAssumption, NEW o, Shaped(o), NEW t \in Trees, NEW h, Cut(h, o), NEW g, Cut(g, o),
         \A s \in Trees : s # t => g[s] = h[s]
  PROVE  /\ AtomicRight(h, o, Below(o, t)) => AtomicRight(g, o, Below(o, t))
         /\ OnlyLast(h, o, Below(o, t)) => OnlyLast(g, o, Below(o, t))
         /\ \A e \in Children(o[t]) : /\ Incomplete(g, o, e) = Incomplete(h, o, e)
                                      /\ Missing(g, o, e) = Missing(h, o, e)
<1>1. ASSUME NEW e \in Trees, e # t, t \notin Within(e), e # "event"
      PROVE  /\ Incomplete(g, o, e) = Incomplete(h, o, e)
             /\ Missing(g, o, e) = Missing(h, o, e)
             /\ Total(g, e) = Total(h, e)
  <2>1. Within(e) \subseteq Trees
    BY TreesApart
  <2>2. \A s \in {e} \union Within(e) : g[s] = h[s]
    BY <1>1, <2>1
  <2>3. e \in Parts \/ e \in Records
    BY <1>1 DEF Trees
  <2>4. Total(g, e) = Total(h, e)
    BY <2>2, TotalSame
  <2>5. Incomplete(g, o, e) = Incomplete(h, o, e) /\ MissingIn(g, o, e) = MissingIn(h, o, e)
    BY <2>2, <2>3, SameBelow
  <2> QED
    BY <1>1, <2>4, <2>5 DEF Missing
<1>2. ASSUME NEW s \in Below(o, t)
      PROVE  /\ s \in Trees /\ s # t /\ s # "event" /\ t \notin Within(s)
             /\ \A d \in Children(o[s]) : d \in Trees /\ d # t /\ d # "event" /\ t \notin Within(d)
  <2>1. PICK c \in Children(o[t]) : s \in {c} \union Below(o, c)
    BY BelowAre
  <2>2. /\ c \in Trees \ {t, "event"} /\ c \in Within(t) /\ Below(o, c) = Children(o[c])
        /\ Below(o, c) \subseteq Within(c) /\ t \notin Within(c)
    BY BelowAre
  <2>3. \A d \in Within(c) : d \in Trees \ {"event"} /\ Within(d) = {}
    BY <2>2, TreesApart
  <2>4. CASE s = c
    BY <2>2, <2>3, <2>4
  <2>5. CASE s # c
    <3>1. s \in Within(c)
      BY <2>1, <2>2, <2>5
    <3>2. s \in Trees \ {"event"} /\ Within(s) = {} /\ s # t
      BY <2>2, <2>3, <3>1
    <3>3. Children(o[s]) = {}
      BY <3>2, ChildrenAre
    <3> QED
      BY <3>2, <3>3
  <2> QED
    BY <2>4, <2>5
<1>3. ASSUME AtomicRight(h, o, Below(o, t))
      PROVE  AtomicRight(g, o, Below(o, t))
  <2>1. \A s \in Below(o, t) : Total(g, s) = Total(h, s) /\ g[s] = h[s]
    BY <1>1, <1>2
  <2> QED
    BY <1>3, <2>1 DEF AtomicRight
<1>4. ASSUME OnlyLast(h, o, Below(o, t))
      PROVE  OnlyLast(g, o, Below(o, t))
  <2> SUFFICES ASSUME NEW s \in Below(o, t), NEW p \in 1 .. Len(g[s].levels) - 1,
                      g[s].levels[p].tree # None
               PROVE  ~Incomplete(g, o, g[s].levels[p].tree)
    BY DEF OnlyLast
  <2> DEFINE e == g[s].levels[p].tree
  <2>1. s \in Trees /\ g[s] = h[s] /\ Len(g[s].levels) \in Nat
    BY <1>2, CutLevels
  <2>2. p \in 1 .. Len(g[s].levels)
    BY <2>1
  <2>3. e \in Children(o[s])
    <3>1. g[s].levels[p] = o[s][p] /\ p \in 1 .. Len(o[s])
      BY <2>1, <2>2, CutLevels
    <3> QED
      BY <2>1, <3>1, ChildrenAre
  <2>4. ~Incomplete(h, o, e)
    BY <1>4, <2>1 DEF OnlyLast
  <2> HIDE DEF e
  <2>5. Incomplete(g, o, e) = Incomplete(h, o, e)
    BY <1>1, <1>2, <2>3
  <2> QED
    BY <2>4, <2>5 DEF e
<1>5. ASSUME NEW e \in Children(o[t])
      PROVE  Incomplete(g, o, e) = Incomplete(h, o, e) /\ Missing(g, o, e) = Missing(h, o, e)
  <2>1. e \in Trees \ {t, "event"} /\ t \notin Within(e)
    BY BelowAre
  <2> QED
    BY <1>1, <2>1
<1> QED
  BY <1>3, <1>4, <1>5

(* What is known of the trees after t is trimmed to m.                     *)
Leaner(f, o, t, m, g) ==
  /\ Prudent(g, o, t) /\ AtomicRight(g, o, {t})
  /\ g[t].len > m => g[t].len = LeastPart(o, t)
  /\ t # "event" => \A s \in Trees : s \notin {t} \union Within(t) => g[s].atomic = f[s].atomic
  /\ (\E s \in Trees : Len(g[s].levels) # Len(f[s].levels)) =>
       Lacking(g, o, t) /\ Total(g, t) + Least(o, Missing(g, o, t)) > m

(* The other trees in a tree are left alone when one of them is trimmed.   *)
LEMMA OthersSame ==
  ASSUME TrimAssumption, NEW o, Shaped(o), NEW f, Cut(f, o), NEW t \in Trees,
         NEW c \in Children(o[t]), NEW x, NEW h, Cutting(f, o, c, h), Leaner(f, o, c, x, h),
         NEW e \in Children(o[t]), e # c
  PROVE  /\ \A s \in {e} \union Within(e) :
              s \in Trees /\ h[s].levels = f[s].levels /\ h[s].len = f[s].len /\ h[s].atomic = f[s].atomic
         /\ Incomplete(h, o, e) = Incomplete(f, o, e)
         /\ \A s \in {e} \union Within(e) : Total(h, s) = Total(f, s)
<1>1. /\ e \in Trees /\ c \in Trees /\ c # "event"
      /\ ({e} \union Within(e)) \intersect ({c} \union Within(c)) = {}
  BY BelowAre
<1>2. \A s \in {e} \union Within(e) : s \in Trees /\ s \notin {c} \union Within(c)
  BY <1>1, TreesApart
<1>3. \A s \in {e} \union Within(e) :
        s \in Trees /\ h[s].levels = f[s].levels /\ h[s].len = f[s].len /\ h[s].atomic = f[s].atomic
  BY <1>1, <1>2 DEF Cutting, Leaner
<1>4. Cut(h, o)
  BY DEF Cutting
<1>5. Incomplete(h, o, e) = Incomplete(f, o, e)
  BY <1>1, <1>3, <1>4, SameBelow
<1>6. ASSUME NEW s \in {e} \union Within(e)
      PROVE  Total(h, s) = Total(f, s)
  <2>1. Within(s) \subseteq {e} \union Within(e)
    <3>1. e \in Within(t)
      BY BelowAre
    <3>2. \A d \in Within(e) : Within(d) = {}
      BY <1>1, <3>1, TreesApart
    <3> QED
      BY <3>2
  <2> QED
    BY <1>3, <1>4, <2>1, TotalSame
<1> QED
  BY <1>3, <1>5, <1>6

LEMMA BelowKept ==
  ASSUME TrimAssumption, NEW o, Shaped(o), NEW f, Cut(f, o), NEW t \in Trees, Prudent(f, o, t),
         NEW c \in Children(o[t]), NEW x, NEW h, Cutting(f, o, c, h), Leaner(f, o, c, x, h)
  PROVE  AtomicRight(h, o, Below(o, t)) /\ OnlyLast(h, o, Below(o, t))
<1>1. Below(o, t) = UNION {{e} \union Below(o, e) : e \in Children(o[t])}
  BY BelowAre
<1>2. \A e \in Children(o[t]) : Below(o, e) \subseteq Within(e) /\ e \in Trees
  BY BelowAre
<1>3. ASSUME NEW e \in Children(o[t])
      PROVE  AtomicRight(h, o, {e} \union Below(o, e)) /\ OnlyLast(h, o, {e} \union Below(o, e))
  <2>1. CASE e = c
    BY <2>1 DEF Leaner, Prudent, AtomicRight
  <2>2. CASE e # c
    <3>1. /\ \A s \in {e} \union Within(e) :
               s \in Trees /\ h[s].levels = f[s].levels /\ h[s].len = f[s].len /\ h[s].atomic = f[s].atomic
          /\ \A s \in {e} \union Within(e) : Total(h, s) = Total(f, s)
      BY <2>2, OthersSame
    <3>2. \A s \in {e} \union Below(o, e) : s \in {e} \union Within(e) /\ s \in Below(o, t)
      BY <1>1, <1>2
    <3>3. AtomicRight(h, o, {e} \union Below(o, e))
      <4>1. AtomicRight(f, o, Below(o, t))
        BY DEF Prudent
      <4>2. \A s \in {e} \union Below(o, e) : h[s].atomic = f[s].atomic /\ Total(h, s) = Total(f, s)
        BY <3>1, <3>2
      <4> QED
        BY <3>2, <4>1, <4>2 DEF AtomicRight
    <3>4. OnlyLast(h, o, {e} \union Below(o, e))
      <4> SUFFICES ASSUME NEW s \in {e} \union Below(o, e), NEW p \in 1 .. Len(h[s].levels) - 1,
                          h[s].levels[p].tree # None
                   PROVE  ~Incomplete(h, o, h[s].levels[p].tree)
        BY DEF OnlyLast
      <4> DEFINE d == h[s].levels[p].tree
      <4>1. s \in Trees /\ h[s].levels = f[s].levels /\ Len(f[s].levels) \in Nat
            /\ s \in {e} \union Within(e) /\ s \in Below(o, t)
        BY <3>1, <3>2, CutLevels
      <4>2. ~Incomplete(f, o, d)
        BY <4>1 DEF Prudent, OnlyLast
      <4>3. d \in Within(s)
        <5>1. p \in 1 .. Len(f[s].levels)
          BY <4>1
        <5> QED
          BY <4>1, <5>1, CutLevels
      <4> HIDE DEF d
      <4>4. d \in Within(e) /\ Within(d) = {} /\ d \in Trees
        <5>1. e \in Within(t) /\ e \in Trees
          BY BelowAre
        <5>2. \A y \in Within(e) : Within(y) = {} /\ y \in Trees
          BY <5>1, TreesApart
        <5> QED
          BY <4>1, <4>3, <5>2
      <4>5. Incomplete(h, o, d) = Incomplete(f, o, d)
        <5>1. Cut(h, o)
          BY DEF Cutting
        <5>2. \A y \in {d} \union Within(d) : h[y].levels = f[y].levels
          BY <3>1, <4>4
        <5> QED
          BY <4>4, <5>1, <5>2, SameBelow
      <4> QED
        BY <4>2, <4>5 DEF d
    <3> QED
      BY <3>3, <3>4
  <2> QED
    BY <2>1, <2>2
<1> QED
  BY <1>1, <1>3 DEF AtomicRight, OnlyLast

(* What TreeCut does not say of a step.                                    *)
StepFacts(f, o, t, m, n, v, h, k, g) ==
  /\ Cut(h, o) /\ Cut(g, o) /\ h[t].levels = f[t].levels
  /\ v.own \in Nat /\ v.tree \in Children(o[t]) \union {None} /\ v = o[t][n + 1]
  /\ UpTo(f, t)[n] \in Nat /\ UpTo(f, t)[0] = 0
  /\ LevelLen(f, v) \in Nat /\ LevelLen(h, v) \in Nat /\ UpTo(f, t)[n] + LevelLen(f, v) > m
  /\ k \in {n, n + 1} /\ k >= 1 /\ Len(g[t].levels) = k
  /\ \A p \in 1 .. k : g[t].levels[p] = f[t].levels[p]
  /\ k = n => UpTo(f, t)[n] + LevelLen(h, v) > m /\ g[t].len = UpTo(f, t)[n]
  /\ k = n + 1 => /\ g[t].len = UpTo(f, t)[n] + LevelLen(h, v)
                  /\ n = 0 \/ g[t].len <= m
  /\ \A s \in Trees : s # t => g[s] = h[s]
  /\ g[t].len = Total(g, t) /\ (g[t].atomic <=> g[t].len > m)

LEMMA StepIs ==
  ASSUME TrimAssumption, NEW o, Shaped(o), NEW f, Cut(f, o), NEW t \in Trees, NEW m \in Nat,
         NEW n \in Nat, n < Len(f[t].levels), UpTo(f, t)[n] <= m, UpTo(f, t)[n + 1] > m,
         NEW v, v = f[t].levels[n + 1],
         NEW h, Cutting(f, o, v.tree, h),
         NEW k, k = Kept(n + 1, UpTo(h, t)[n + 1], m),
         NEW g, g = Voided(h, t, m, k)
  PROVE  StepFacts(f, o, t, m, n, v, h, k, g)
<1> DEFINE c == v.tree
           N == Len(f[t].levels)
<1>0. /\ Cut(h, o) /\ N \in Nat /\ n + 1 \in 1 .. N /\ c \in Within(t) \union {None} /\ v.own \in Nat
      /\ v = o[t][n + 1] /\ n + 1 \in 1 .. Len(o[t]) /\ c \in Children(o[t]) \union {None}
  <2>1. N \in Nat /\ n + 1 \in 1 .. N
    BY CutLevels
  <2>2. \A p \in 1 .. N : /\ f[t].levels[p] = o[t][p] /\ p \in 1 .. Len(o[t])
                          /\ f[t].levels[p].own \in Nat /\ f[t].levels[p].tree \in Within(t) \union {None}
    BY CutLevels
  <2>3. \A p \in 1 .. Len(o[t]) : o[t][p].tree # None => o[t][p].tree \in Children(o[t])
    BY ChildrenAre
  <2>4. Cut(h, o)
    BY DEF Cutting
  <2> HIDE DEF N
  <2> QED
    BY <2>1, <2>2, <2>3, <2>4
<1>1. Cut(h, o) /\ N \in Nat /\ n + 1 \in 1 .. N /\ c \in Within(t) \union {None}
  BY <1>0
<1>2. t \notin {c} \union Within(c)
  <2>1. Within(None) = {}
    BY DEF Within, None
  <2> QED
    BY <1>1, <2>1, TreesApart
<1>3. h[t].levels = f[t].levels
  BY <1>2 DEF Cutting
<1>4. \A s \in Within(t) : s # c => h[s].len = f[s].len
  <2> SUFFICES ASSUME NEW s \in Within(t), s # c
               PROVE  h[s].len = f[s].len
    OBVIOUS
  <2>1. s \in Trees /\ s \notin Within(c)
    <3>1. Within(None) = {}
      BY DEF Within, None
    <3>2. c \in Within(t) => c \in Trees /\ c # t
      BY TreesApart
    <3>3. c \in Trees /\ c # t => Within(c) \intersect Within(t) = {}
      BY TreesApart
    <3> QED
      BY <1>1, <3>1, <3>2, <3>3, TreesApart
  <2> QED
    BY <2>1 DEF Cutting
<1> HIDE DEF c, N
<1>5. /\ UpTo(f, t)[n] \in Nat /\ LevelLen(f, v) \in Nat /\ LevelLen(h, v) \in Nat
      /\ UpTo(f, t)[n] + LevelLen(f, v) > m
      /\ k \in 1 .. Len(h[t].levels) /\ k \in {n, n + 1}
      /\ k = n => UpTo(f, t)[n] + LevelLen(h, v) > m /\ g[t].len = UpTo(f, t)[n]
      /\ k = n + 1 => g[t].len = UpTo(f, t)[n] + LevelLen(h, v) /\ (n = 0 \/ g[t].len <= m)
  <2>1. \A s \in Within(t) : s # v.tree => h[s].len = f[s].len
    BY <1>4 DEF c
  <2> QED
    BY <1>1, <1>3, <2>1, LevelTrimmed, SMTT(60)
<1>6. /\ Cut(g, o) /\ Len(g[t].levels) = k
      /\ \A p \in 1 .. k : g[t].levels[p] = h[t].levels[p]
      /\ \A s \in Trees : s # t => g[s] = h[s]
      /\ g[t].len = UpTo(h, t)[k] /\ g[t].len = Total(g, t)
      /\ g[t].atomic <=> UpTo(h, t)[k] > m
  <2>1. k \in 1 .. Len(h[t].levels) /\ Cut(h, o)
    BY <1>1, <1>5
  <2>2. /\ Cut(g, o) /\ Len(g[t].levels) = k
        /\ \A s \in Trees : s # t => g[s] = h[s]
        /\ g[t].len = Total(g, t)
    BY <2>1, VoidedIs, SMTT(60)
  <2>3. \A p \in 1 .. k : g[t].levels[p] = h[t].levels[p]
    BY <2>1, VoidedIs, SMTT(60)
  <2>4. g[t].len = UpTo(h, t)[k]
    BY <2>1, VoidedIs, SMTT(60)
  <2>5. g[t].atomic <=> UpTo(h, t)[k] > m
    BY <2>1, VoidedIs, SMTT(60)
  <2> QED
    BY <2>2, <2>3, <2>4, <2>5
<1>7. UpTo(f, t)[0] = 0
  BY <1>1, UpToSteps
<1>8. /\ \A p \in 1 .. k : g[t].levels[p] = f[t].levels[p]
      /\ g[t].len = Total(g, t) /\ (g[t].atomic <=> g[t].len > m)
      /\ k >= 1
  BY <1>1, <1>3, <1>5, <1>6
<1> QED
  BY <1>0, <1>3, <1>5, <1>6, <1>7, <1>8 DEF c, StepFacts

(* A tree of which nothing is missing is as long as it was.                *)
LEMMA UnchangedSame ==
  ASSUME TrimAssumption, NEW o, Shaped(o), NEW f, Cut(f, o), NEW t \in Trees, Counted(f, o, t),
         NEW c \in Children(o[t]), NEW h, Cutting(f, o, c, h),
         \A s \in Trees : Len(h[s].levels) = Len(f[s].levels)
  PROVE  h[c].len = f[c].len
<1>1. /\ c \in Trees /\ c \in Within(t) /\ Below(o, c) = Children(o[c])
      /\ Below(o, c) \subseteq Trees \ {c, "event"} /\ c # None
  BY BelowAre, TreesApart
<1>2. Cut(h, o) /\ h[c].len = Total(h, c) /\ \A d \in Children(o[c]) : h[d].len = Total(h, d)
  BY <1>1 DEF Cutting, Counted
<1>3. f[c].len = Total(f, c) /\ \A d \in Children(o[c]) : f[d].len = Total(f, d)
  BY DEF Counted
<1>4. ASSUME NEW d \in Children(o[c])
      PROVE  h[d].len = f[d].len
  <2>1. d \in Trees /\ Within(d) = {}
    BY <1>1, BelowAre, TreesApart
  <2>2. Children(f[d].levels) = {}
    BY <2>1, LinkedAre, ChildrenAre
  <2>3. Total(h, d) = Total(f, d)
    BY <1>2, <2>1, <2>2, TotalLinked
  <2> QED
    BY <1>2, <1>3, <2>3
<1>5. Children(f[c].levels) \subseteq Children(o[c])
  BY <1>1, LinkedAre
<1>6. Total(h, c) = Total(f, c)
  BY <1>1, <1>2, <1>4, <1>5, TotalLinked
<1> QED
  BY <1>2, <1>3, <1>6

(* The tree of the first level that does not fit is trimmed well, to what  *)
(* the text nodes of that level leave, if anything.                        *)
LevelLean(f, o, t, m, n, v, x, h) ==
  /\ Cut(f, o) /\ Counted(f, o, t) /\ Prudent(f, o, t)
  /\ n \in Nat /\ n < Len(f[t].levels) /\ v = f[t].levels[n + 1]
  /\ UpTo(f, t)[n] <= m /\ UpTo(f, t)[n + 1] > m
  /\ x \in Nat /\ x >= m - UpTo(f, t)[n] - v.own /\ (x = 0 \/ x = m - UpTo(f, t)[n] - v.own)
  /\ Cutting(f, o, v.tree, h)
  /\ v.tree = None => h = f
  /\ v.tree # None => Leaner(f, o, v.tree, x, h)

(* Then so is the tree.                                                    *)
LEMMA LeanStep ==
  ASSUME TrimAssumption, NEW o, Shaped(o), NEW t \in Trees, NEW m \in Nat, NEW f, NEW n, NEW v, NEW x,
         NEW h, LevelLean(f, o, t, m, n, v, x, h)
  PROVE  Leaner(f, o, t, m, Voided(h, t, m, Kept(n + 1, UpTo(h, t)[n + 1], m)))
<1> DEFINE c == v.tree
           k == Kept(n + 1, UpTo(h, t)[n + 1], m)
           g == Voided(h, t, m, k)
           F == UpTo(f, t)[n]
           a == LevelLen(f, v)
           b == LevelLen(h, v)
           N == Len(f[t].levels)
<1>30. Cut(f, o) /\ Counted(f, o, t) /\ Prudent(f, o, t) /\ n \in Nat
  BY DEF LevelLean
<1>31. /\ n < N /\ v = f[t].levels[n + 1] /\ F <= m /\ UpTo(f, t)[n + 1] > m
       /\ Cutting(f, o, v.tree, h)
  BY DEF LevelLean
<1>1. /\ Cut(h, o) /\ Cut(g, o) /\ h[t].levels = f[t].levels
      /\ v.own \in Nat /\ c \in Children(o[t]) \union {None} /\ v = o[t][n + 1]
      /\ F \in Nat /\ UpTo(f, t)[0] = 0
      /\ a \in Nat /\ b \in Nat /\ F + a > m
      /\ k \in {n, n + 1} /\ k >= 1 /\ Len(g[t].levels) = k
      /\ \A p \in 1 .. k : g[t].levels[p] = f[t].levels[p]
      /\ k = n => F + b > m /\ g[t].len = F
      /\ k = n + 1 => g[t].len = F + b /\ (n = 0 \/ g[t].len <= m)
      /\ \A s \in Trees : s # t => g[s] = h[s]
      /\ g[t].len = Total(g, t) /\ (g[t].atomic <=> g[t].len > m)
  <2>1. k = Kept(n + 1, UpTo(h, t)[n + 1], m) /\ g = Voided(h, t, m, k)
    OBVIOUS
  <2> HIDE DEF k, g
  <2>2. StepFacts(f, o, t, m, n, v, h, k, g)
    BY <1>30, <1>31, <2>1, StepIs, SMTT(60)
  <2> QED
    BY <2>2 DEF StepFacts, c, F, a, b
<1>2. v = f[t].levels[n + 1]
  BY <1>31
<1>3. n = 0 => F = 0
  BY <1>1
<1>4. x \in Nat /\ x >= m - F - v.own /\ (x = 0 \/ x = m - F - v.own) /\ F <= m
  BY DEF LevelLean
<1>5. N \in Nat /\ n < N /\ Len(o[t]) \in Nat /\ N <= Len(o[t]) /\ n + 1 \in 1 .. Len(o[t])
  <2>1. N \in Nat /\ Len(o[t]) \in Nat /\ N <= Len(o[t])
    BY <1>30, CutLevels
  <2> QED
    BY <1>30, <1>31, <2>1
<1>0. /\ \A q \in 1 .. N : f[t].levels[q] = o[t][q] /\ q \in 1 .. Len(o[t])
      /\ \A q, r \in 1 .. N : q # r /\ f[t].levels[q].tree = f[t].levels[r].tree
                                => f[t].levels[q].tree = None
  BY <1>30, CutLevels
<1> HIDE DEF k, g, F, a, b, N
(* What trimming the tree of the level shows.                              *)
<1>6. c # None => /\ c \in Trees \ {t, "event"} /\ c \in Within(t) /\ c \in Children(o[t])
                  /\ Prudent(h, o, c) /\ AtomicRight(h, o, {c})
                  /\ (h[c].len > x => h[c].len = LeastPart(o, c))
                  /\ h[c].len \in Nat /\ h[c].len > 0 /\ h[c].len = Total(h, c)
                  /\ b = v.own + h[c].len
  <2> SUFFICES ASSUME c # None
               PROVE  /\ c \in Trees \ {t, "event"} /\ c \in Within(t) /\ c \in Children(o[t])
                      /\ Prudent(h, o, c) /\ AtomicRight(h, o, {c})
                      /\ (h[c].len > x => h[c].len = LeastPart(o, c))
                      /\ h[c].len \in Nat /\ h[c].len > 0 /\ h[c].len = Total(h, c)
                      /\ b = v.own + h[c].len
    OBVIOUS
  <2>1. c \in Trees \ {t, "event"} /\ c \in Within(t) /\ c \in Children(o[t])
    BY <1>1, BelowAre
  <2>2. Leaner(f, o, c, x, h) /\ Cutting(f, o, c, h)
    BY DEF LevelLean
  <2>3. b = v.own + h[c].len
    BY DEF b, LevelLen
  <2> HIDE DEF c
  <2>4. Prudent(h, o, c) /\ AtomicRight(h, o, {c}) /\ (h[c].len > x => h[c].len = LeastPart(o, c))
    BY <2>2 DEF Leaner
  <2>5. h[c].len = Total(h, c)
    BY <2>1, <2>2, TreesApart DEF Cutting
  <2>6. Total(h, c) \in Nat /\ Total(h, c) > 0
    BY <1>1, <2>1, TotalLeast
  <2> QED
    BY <2>1, <2>3, <2>4, <2>5, <2>6
<1>7. c = None => h = f /\ b = v.own /\ a = b
  <2>1. c = None => h = f
    BY DEF LevelLean
  <2> QED
    BY <1>1, <2>1 DEF a, b, LevelLen
<1>8. Cutting(f, o, c, h) /\ (c # None => Leaner(f, o, c, x, h))
  BY DEF LevelLean
<1>9. c = v.tree
  OBVIOUS
<1> HIDE DEF c
<1>10. F + b > m => b = Least(o, v)
  <2>1. CASE c = None
    BY <1>1, <1>7, <1>9, <2>1 DEF Least
  <2>2. CASE c # None
    <3> SUFFICES ASSUME F + b > m
                 PROVE  b = Least(o, v)
      OBVIOUS
    <3>1. h[c].len > x
      BY <1>1, <1>4, <1>6, <2>2
    <3> QED
      BY <1>6, <1>9, <2>2, <3>1 DEF Least
  <2> QED
    BY <2>1, <2>2
<1>11. AtomicRight(h, o, Below(o, t)) /\ OnlyLast(h, o, Below(o, t))
  <2>1. CASE c = None
    BY <1>7, <1>30, <2>1 DEF Prudent, OnlyLast
  <2>2. CASE c # None
    BY <1>6, <1>8, <1>30, <2>2, BelowKept
  <2> QED
    BY <2>1, <2>2
<1>12. /\ AtomicRight(g, o, Below(o, t)) /\ OnlyLast(g, o, Below(o, t))
       /\ \A e \in Children(o[t]) : /\ Incomplete(g, o, e) = Incomplete(h, o, e)
                                    /\ Missing(g, o, e) = Missing(h, o, e)
  BY <1>1, <1>11, BelowSame
(* The trees of the levels that fit are complete.                          *)
<1>13. ASSUME NEW p \in 1 .. n, f[t].levels[p].tree # None
       PROVE  ~Incomplete(g, o, f[t].levels[p].tree)
  <2> DEFINE e == f[t].levels[p].tree
  <2>1. p \in 1 .. N - 1 /\ p \in 1 .. N /\ p # n + 1 /\ n + 1 \in 1 .. N
    BY <1>5, <1>30
  <2>2. ~Incomplete(f, o, e)
    BY <1>13, <1>30, <2>1 DEF Prudent, OnlyLast, N
  <2>3. e \in Children(o[t]) /\ e # c
    <3>2. \A q \in 1 .. Len(o[t]) : o[t][q].tree # None => o[t][q].tree \in Children(o[t])
      BY ChildrenAre
    <3>3. e # c
      BY <1>0, <1>2, <1>9, <1>13, <2>1
    <3>4. e \in Children(o[t])
      BY <1>0, <1>13, <2>1, <3>2
    <3> QED
      BY <3>3, <3>4
  <2> HIDE DEF e
  <2>4. Incomplete(h, o, e) = Incomplete(f, o, e)
    <3>1. CASE c = None
      BY <1>7, <3>1
    <3>2. CASE c # None
      <4>1. c \in Children(o[t]) /\ Leaner(f, o, c, x, h) /\ Cutting(f, o, c, h)
        BY <1>6, <1>8, <3>2
      <4> QED
        BY <1>30, <2>3, <4>1, OthersSame
    <3> QED
      BY <3>1, <3>2
  <2> QED
    BY <1>12, <2>2, <2>3, <2>4 DEF e
<1>14. OnlyLast(g, o, {t})
  <2> SUFFICES ASSUME NEW p \in 1 .. k - 1, g[t].levels[p].tree # None
               PROVE  ~Incomplete(g, o, g[t].levels[p].tree)
    BY <1>1 DEF OnlyLast
  <2>1. p \in 1 .. n /\ p \in 1 .. k
    BY <1>1, <1>30
  <2>2. g[t].levels[p] = f[t].levels[p]
    BY <1>1, <2>1
  <2> QED
    BY <1>13, <2>1, <2>2
<1>15. Prudent(g, o, t)
  BY <1>12, <1>14 DEF Prudent, OnlyLast
(* A tree longer than asked for is the least that it can be.               *)
<1>16. ASSUME g[t].len > m
       PROVE  g[t].len = LeastPart(o, t)
  <2>1. n = 0 /\ g[t].len = b /\ v = o[t][1]
    BY <1>1, <1>3, <1>4, <1>16
  <2>2. b = Least(o, v)
    BY <1>1, <1>3, <1>10, <1>16, <2>1
  <2>3. CASE c = None
    BY <1>9, <2>1, <2>2, <2>3 DEF Least, LeastPart
  <2>4. CASE c # None
    <3>1. t # "event"
      BY <1>9, <2>1, <2>4 DEF Shaped
    <3>2. Within(c) = {}
      BY <1>6, <2>4, <3>1, TreesApart
    <3>3. o[c][1].tree = None
      <4>1. 1 \in 1 .. Len(o[c])
        BY <1>6, <2>4 DEF Shaped
      <4> QED
        BY <1>6, <2>4, <3>2, <4>1 DEF Shaped
    <3>4. LeastPart(o, c) = o[c][1].own + 0
      BY <3>3 DEF LeastPart
    <3>5. LeastPart(o, t) = v.own + o[c][1].own
      BY <1>9, <2>1, <2>4 DEF LeastPart, LeastRecord
    <3>6. Least(o, v) = v.own + LeastPart(o, c)
      BY <1>9, <2>4 DEF Least
    <3>7. o[c][1].own \in Nat
      <4>1. 1 \in 1 .. Len(o[c])
        BY <1>6, <2>4 DEF Shaped
      <4> QED
        BY <1>6, <2>4, <4>1 DEF Shaped
    <3> QED
      BY <2>1, <2>2, <3>4, <3>5, <3>6, <3>7
  <2> QED
    BY <2>3, <2>4
<1>17. AtomicRight(g, o, {t})
  BY <1>1, <1>16 DEF AtomicRight
<1>18. ASSUME t # "event", NEW s \in Trees, s \notin {t} \union Within(t)
       PROVE  g[s].atomic = f[s].atomic
  <2>1. CASE c = None
    BY <1>1, <1>7, <1>18, <2>1
  <2>2. CASE c # None
    <3>1. Within(c) = {}
      BY <1>6, <1>18, <2>2, TreesApart
    <3> QED
      BY <1>1, <1>6, <1>8, <1>18, <2>2, <3>1 DEF Leaner
  <2> QED
    BY <2>1, <2>2
(* What is voided would not fit.                                           *)
<1>19. ASSUME \E s \in Trees : Len(g[s].levels) # Len(f[s].levels)
       PROVE  Lacking(g, o, t) /\ Total(g, t) + Least(o, Missing(g, o, t)) > m
  <2> DEFINE e == LastTree(g, t)
  <2>1. Missing(g, o, t) = IF e # None /\ Incomplete(g, o, e) THEN Missing(g, o, e) ELSE AfterLast(g, o, t)
    BY <1>1, MissingIs
  <2>2. e = f[t].levels[k].tree
    <3>1. k \in 1 .. k
      BY <1>1
    <3> QED
      BY <1>1, <3>1 DEF LastTree
  <2> HIDE DEF e
  <2>3. CASE k = n
    <3>1. Short(g, o, t)
      BY <1>1, <1>5, <2>3 DEF Short
    <3>2. ~(e # None /\ Incomplete(g, o, e))
      <4>1. k \in 1 .. n
        BY <1>1, <2>3
      <4> QED
        BY <1>13, <2>2, <4>1
    <3>3. Missing(g, o, t) = v
      BY <1>1, <2>1, <2>3, <3>2 DEF AfterLast
    <3>4. b = Least(o, v)
      BY <1>1, <1>10, <2>3
    <3>5. Total(g, t) + Least(o, v) > m
      BY <1>1, <2>3, <3>4
    <3> QED
      BY <3>1, <3>3, <3>5 DEF Lacking
  <2>4. CASE k = n + 1
    <3>1. e = c
      BY <1>2, <1>9, <2>2, <2>4
    <3>2. CASE \E s \in Trees : Len(h[s].levels) # Len(f[s].levels)
      <4>1. c # None
        BY <1>8, <3>2 DEF Cutting
      <4>2. Lacking(h, o, c) /\ Total(h, c) + Least(o, Missing(h, o, c)) > x
        BY <1>8, <3>2, <4>1 DEF Leaner
      <4>3. Incomplete(h, o, c)
        BY <1>1, <1>6, <4>1, <4>2, LackingIs DEF Trees
      <4>4. Incomplete(g, o, c) /\ Missing(g, o, c) = Missing(h, o, c)
        BY <1>6, <1>12, <4>1, <4>3
      <4>5. Missing(g, o, t) = Missing(h, o, c)
        BY <2>1, <3>1, <4>1, <4>4
      <4>6. Least(o, Missing(h, o, c)) \in Nat
        <5>1. OnlyLast(h, o, {c} \union Below(o, c))
          BY <1>6, <4>1 DEF Prudent
        <5>2. There(o, Missing(h, o, c))
          BY <1>1, <1>6, <4>1, <4>2, <5>1, MissingThere
        <5> QED
          BY <5>2, LeastTyped
      <4>7. c \in Children(g[t].levels)
        BY <1>1, <3>1, <4>1, LastIs DEF e
      <4>8. Total(g, t) = F + v.own + Total(h, c)
        <5>1. g[t].len = F + b /\ g[t].len = Total(g, t)
          BY <1>1, <2>4
        <5>2. b = v.own + Total(h, c) /\ Total(h, c) \in Nat
          BY <1>6, <4>1
        <5>3. F \in Nat /\ v.own \in Nat
          BY <1>1
        <5> QED
          BY <5>1, <5>2, <5>3
      <4>9. Total(h, c) \in Nat
        BY <1>6, <4>1
      <4> DEFINE l == Least(o, Missing(h, o, c))
                 y == Total(h, c)
                 z == Total(g, t)
      <4>10. y + l > x /\ l \in Nat /\ y \in Nat /\ z = F + v.own + y
        BY <4>2, <4>6, <4>8, <4>9
      <4> HIDE DEF l, y, z
      <4>11. z + l > m
        <5>1. F \in Nat /\ v.own \in Nat
          BY <1>1
        <5> QED
          BY <1>4, <4>10, <5>1
      <4> QED
        BY <4>4, <4>5, <4>7, <4>11 DEF Lacking, l, z
    <3>3. CASE \A s \in Trees : Len(h[s].levels) = Len(f[s].levels)
      <4>1. a = b
        <5>1. CASE c = None
          BY <1>7, <5>1
        <5>2. CASE c # None
          <6>1. h[c].len = f[c].len
            BY <1>6, <1>8, <1>30, <3>3, <5>2, UnchangedSame
          <6>2. a = v.own + f[c].len
            BY <1>9, <5>2 DEF a, LevelLen
          <6> QED
            BY <1>6, <5>2, <6>1, <6>2
        <5> QED
          BY <5>1, <5>2
      <4>2. Total(g, t) > m
        BY <1>1, <2>4, <4>1
      <4>3. Short(g, o, t)
        <5>1. Len(g[t].levels) # Len(f[t].levels)
          BY <1>1, <1>19, <3>3
        <5> QED
          BY <1>1, <1>5, <2>4, <5>1 DEF Short, N
      <4>4. Lacking(g, o, t)
        BY <4>3 DEF Lacking
      <4>5. OnlyLast(g, o, {t} \union Below(o, t))
        BY <1>15 DEF Prudent
      <4>6. There(o, Missing(g, o, t))
        BY <1>1, <4>4, <4>5, MissingThere
      <4>7. Least(o, Missing(g, o, t)) \in Nat
        BY <4>6, LeastTyped
      <4>8. Total(g, t) \in Nat
        BY <1>1, TotalLeast
      <4> QED
        BY <4>2, <4>4, <4>7, <4>8
    <3> QED
      BY <3>2, <3>3
  <2> QED
    BY <1>1, <2>3, <2>4
<1>20. Leaner(f, o, t, m, g)
  BY <1>15, <1>16, <1>17, <1>18, <1>19 DEF Leaner
<1> QED
  BY <1>20 DEF g, k

(* A tree that fits, or that is left alone because it is atomic.           *)
LEMMA LeanKept ==
  ASSUME TrimAssumption, NEW o, Shaped(o), NEW f, Cut(f, o), NEW t \in Trees, Counted(f, o, t),
         Prudent(f, o, t), NEW m \in Nat, Total(f, t) <= m
  PROVE  Leaner(f, o, t, m, Voided(f, t, m, Len(f[t].levels)))
<1> DEFINE N == Len(f[t].levels)
           g == Voided(f, t, m, N)
<1>1. g = Voided(f, t, m, Len(f[t].levels))
  OBVIOUS
<1> HIDE DEF g
<1>2. /\ Cut(g, o) /\ g[t].len = Total(g, t)
      /\ \A s \in Trees : Len(g[s].levels) = Len(f[s].levels) /\ (s # t => g[s] = f[s])
      /\ g[t].len = Total(f, t) /\ ~g[t].atomic
  BY <1>1, AllKept
<1>3. ~(g[t].len > m) /\ AtomicRight(g, o, {t})
  BY <1>2, TotalLeast DEF AtomicRight
<1>4. AtomicRight(f, o, Below(o, t)) /\ OnlyLast(f, o, Below(o, t))
  BY DEF Prudent, OnlyLast
<1>5. /\ AtomicRight(g, o, Below(o, t)) /\ OnlyLast(g, o, Below(o, t))
      /\ \A e \in Children(o[t]) : Incomplete(g, o, e) = Incomplete(f, o, e)
  BY <1>2, <1>4, BelowSame
<1>6. OnlyLast(g, o, {t})
  <2> SUFFICES ASSUME NEW p \in 1 .. N - 1, g[t].levels[p].tree # None
               PROVE  ~Incomplete(g, o, g[t].levels[p].tree)
    BY <1>2 DEF OnlyLast
  <2>1. p \in 1 .. N /\ N = Len(g[t].levels)
    BY <1>2, CutLevels
  <2>2. \A q \in 1 .. N : f[t].levels[q] = o[t][q] /\ q \in 1 .. Len(o[t])
    BY CutLevels
  <2>3. \A q \in 1 .. N : g[t].levels[q] = o[t][q]
    BY <1>2, <2>1, CutLevels
  <2> DEFINE e == g[t].levels[p].tree
  <2>4. e = f[t].levels[p].tree /\ e = o[t][p].tree /\ p \in 1 .. Len(o[t])
    BY <2>1, <2>2, <2>3
  <2>5. e \in Children(o[t])
    BY <2>4, ChildrenAre
  <2>6. ~Incomplete(f, o, e)
    BY <2>4 DEF Prudent, OnlyLast
  <2> HIDE DEF e
  <2> QED
    BY <1>5, <2>5, <2>6 DEF e
<1>7. Prudent(g, o, t)
  BY <1>5, <1>6 DEF Prudent, OnlyLast
<1>8. Leaner(f, o, t, m, g)
  BY <1>2, <1>3, <1>7 DEF Leaner
<1> QED
  BY <1>1, <1>8

LEMMA AtomicLean ==
  ASSUME TrimAssumption, NEW o, Shaped(o), NEW f, Cut(f, o), NEW t \in Trees, Prudent(f, o, t),
         NEW c \in Children(o[t]), f[c].len = Total(f, c), f[c].atomic, NEW x
  PROVE  Leaner(f, o, c, x, f)
<1>1. c \in Below(o, t) /\ Below(o, c) \subseteq Below(o, t) /\ c \in Trees
  BY BelowAre
<1>2. Prudent(f, o, c) /\ AtomicRight(f, o, {c})
  BY <1>1 DEF Prudent, AtomicRight, OnlyLast
<1>3. f[c].len = LeastPart(o, c)
  BY <1>2 DEF AtomicRight
<1> QED
  BY <1>2, <1>3 DEF Leaner

LEMMA RecordLean ==
  ASSUME TrimAssumption, NEW o, Shaped(o), NEW f, Cut(f, o), NEW t \in Records,
         f[t].len = Total(f, t), NEW m \in Nat
  PROVE  Leaner(f, o, t, m, RecordTrimmed(f, t, m))
<1> DEFINE n == Fitting(f, t, m)
           N == Len(f[t].levels)
           v == f[t].levels[n + 1]
<1>1. /\ t \in Trees \ {"event"} /\ Within(t) = {} /\ f \in Forest /\ N \in Nat /\ N >= 1
  BY TreesApart, CutLevels DEF Trees
<1>2. Children(o[t]) = {}
  BY <1>1, ChildrenAre
<1>3. Counted(f, o, t) /\ Below(o, t) = {}
  BY <1>2 DEF Counted, Below
<1>4. \A p \in 1 .. N : /\ f[t].levels[p].own \in Nat /\ f[t].levels[p].tree = None
  BY <1>1, CutLevels
<1>5. Prudent(f, o, t)
  <2>1. \A p \in 1 .. N - 1 : p \in 1 .. N
    BY <1>1
  <2> QED
    BY <1>3, <1>4, <2>1 DEF Prudent, AtomicRight, OnlyLast
<1>6. n \in 0 .. N /\ UpTo(f, t)[n] <= m /\ (n < N => UpTo(f, t)[n + 1] > m)
  BY <1>1, FittingIs
<1>7. CASE n = N
  <2>1. RecordTrimmed(f, t, m) = Voided(f, t, m, N)
    BY <1>7 DEF RecordTrimmed, TreeTrimmed
  <2>2. Total(f, t) <= m
    BY <1>6, <1>7 DEF Total
  <2> QED
    BY <1>1, <1>3, <1>5, <2>1, <2>2, LeanKept
<1>8. CASE n # N
  <2>1. n \in Nat /\ n < N /\ n + 1 \in 1 .. N
    BY <1>1, <1>6, <1>8
  <2>2. v.tree = None /\ v.own \in Nat
    BY <1>4, <2>1
  <2>3. RecordTrimmed(f, t, m) = Voided(f, t, m, Kept(n + 1, UpTo(f, t)[n + 1], m))
    BY <1>8, <2>2 DEF RecordTrimmed, TreeTrimmed, PrioTrimmed
  <2>4. Cutting(f, o, v.tree, f)
    BY <1>1, <1>3, <2>2, NotTrimmed
  <2> DEFINE r == m - UpTo(f, t)[n]
             x == IF r > v.own THEN r - v.own ELSE 0
  <2>5. UpTo(f, t)[n] \in Nat
    BY <1>1, <1>6, UpToGrows
  <2>6. v = f[t].levels[n + 1]
    OBVIOUS
  <2> HIDE DEF n, v
  <2>7. x \in Nat /\ x >= m - UpTo(f, t)[n] - v.own /\ (x = 0 \/ x = m - UpTo(f, t)[n] - v.own)
    BY <1>6, <2>2, <2>5
  <2> HIDE DEF x
  <2>8. LevelLean(f, o, t, m, n, v, x, f)
    BY <1>3, <1>5, <1>6, <2>1, <2>2, <2>4, <2>6, <2>7 DEF LevelLean
  <2> QED
    BY <1>1, <2>3, <2>8, LeanStep
<1> QED
  BY <1>7, <1>8

LEMMA PartLean ==
  ASSUME TrimAssumption, NEW o, Shaped(o), NEW f, Cut(f, o), NEW t \in Parts,
         Counted(f, o, t), f[t].len = Total(f, t), Prudent(f, o, t), NEW m \in Nat
  PROVE  Leaner(f, o, t, m, PartTrimmed(f, t, m))
<1> DEFINE n == Fitting(f, t, m)
           N == Len(f[t].levels)
           v == f[t].levels[n + 1]
           r == m - UpTo(f, t)[n]
           x == IF r > v.own THEN r - v.own ELSE 0
           h == PrioTrimmed(f, t, TRUE, n + 1, r, RecordTrimmed)
<1>1. t \in Trees \ {"event"} /\ Within(t) \subseteq Records /\ f \in Forest /\ N \in Nat /\ N >= 1
  BY TreesApart, CutLevels DEF Trees
<1>3. n \in 0 .. N /\ UpTo(f, t)[n] <= m /\ (n < N => UpTo(f, t)[n + 1] > m)
  BY <1>1, FittingIs
<1>4. CASE n = N
  <2>1. PartTrimmed(f, t, m) = Voided(f, t, m, N)
    BY <1>4 DEF PartTrimmed, TreeTrimmed
  <2>2. Total(f, t) <= m
    BY <1>3, <1>4 DEF Total
  <2> QED
    BY <1>1, <2>1, <2>2, LeanKept
<1>5. CASE n # N
  <2>1. n \in Nat /\ n < N /\ n + 1 \in 1 .. N
    BY <1>1, <1>3, <1>5
  <2>2. /\ v.own \in Nat /\ v.tree \in Within(t) \union {None} /\ v.tree \in Children(o[t]) \union {None}
    <3>1. \A p \in 1 .. N : /\ f[t].levels[p].own \in Nat /\ f[t].levels[p].tree \in Within(t) \union {None}
                            /\ f[t].levels[p] = o[t][p] /\ p \in 1 .. Len(o[t])
      BY <1>1, CutLevels
    <3>2. \A p \in 1 .. Len(o[t]) : o[t][p].tree # None => o[t][p].tree \in Children(o[t])
      BY <1>1, ChildrenAre
    <3>3. v = f[t].levels[n + 1]
      OBVIOUS
    <3> HIDE DEF n, N, v
    <3> QED
      BY <2>1, <3>1, <3>2, <3>3
  <2>3. PartTrimmed(f, t, m) = Voided(h, t, m, Kept(n + 1, UpTo(h, t)[n + 1], m))
    BY <1>5 DEF PartTrimmed, TreeTrimmed
  <2>4. h = IF v.tree = None \/ f[v.tree].atomic \/ f[v.tree].len = 0 THEN f
            ELSE RecordTrimmed(f, v.tree, x)
    BY DEF PrioTrimmed
  <2>5. UpTo(f, t)[n] \in Nat
    BY <1>1, <1>3, UpToGrows
  <2>6. x \in Nat /\ x >= m - UpTo(f, t)[n] - v.own /\ (x = 0 \/ x = m - UpTo(f, t)[n] - v.own)
    <3> HIDE DEF n, N, v, h
    <3> QED
      BY <1>3, <2>2, <2>5, LeftOver
  <2>7. v = f[t].levels[n + 1]
    OBVIOUS
  <2> DEFINE c == v.tree
  <2>8. c \in Children(o[t]) \union {None} /\ c \in Within(t) \union {None}
        /\ h = IF c = None \/ f[c].atomic \/ f[c].len = 0 THEN f ELSE RecordTrimmed(f, c, x)
    BY <2>2, <2>4
  <2> HIDE DEF n, v, r, x, h, c
  <2>9. c # None => /\ c \in Records /\ c \in Trees /\ f[c].len = Total(f, c) /\ f[c].len # 0
                    /\ c \in Children(o[t])
    <3> SUFFICES ASSUME c # None
                 PROVE  /\ c \in Records /\ c \in Trees /\ f[c].len = Total(f, c) /\ f[c].len # 0
                        /\ c \in Children(o[t])
      OBVIOUS
    <3>1. c \in Records /\ c \in Children(o[t]) /\ c \in Trees
      BY <1>1, <2>8 DEF Trees
    <3>2. f[c].len = Total(f, c)
      BY <3>1 DEF Counted
    <3>3. Total(f, c) > 0 /\ Total(f, c) \in Nat
      BY <3>1, TotalLeast
    <3> QED
      BY <3>1, <3>2, <3>3
  <2>10. Cutting(f, o, c, h) /\ (c = None => h = f) /\ (c # None => Leaner(f, o, c, x, h))
    <3>1. CASE c = None
      <4>1. Cutting(f, o, c, f)
        BY <1>1, <2>8, <3>1, NotTrimmed
      <4> QED
        BY <2>8, <3>1, <4>1
    <3>2. CASE c # None /\ f[c].atomic
      <4>1. Cutting(f, o, c, f)
        BY <1>1, <2>8, NotTrimmed
      <4>2. Leaner(f, o, c, x, f)
        BY <1>1, <2>9, <3>2, AtomicLean
      <4> QED
        BY <2>8, <3>2, <4>1, <4>2
    <3>3. CASE c # None /\ ~f[c].atomic
      <4>1. h = RecordTrimmed(f, c, x)
        BY <2>8, <2>9, <3>3
      <4> QED
        BY <2>6, <2>9, <3>3, <4>1, RecordCut, RecordLean
    <3> QED
      BY <3>1, <3>2, <3>3
  <2>11. LevelLean(f, o, t, m, n, v, x, h)
    BY <1>3, <2>1, <2>6, <2>7, <2>10 DEF LevelLean, c
  <2> QED
    BY <1>1, <2>3, <2>11, LeanStep
<1> QED
  BY <1>4, <1>5

(* A tree that is judged to be atomic is the least that it can be, if the  *)
(* one in its level zero is.                                               *)
LEMMA JudgeRight ==
  ASSUME TrimAssumption, NEW o, Shaped(o), NEW f, Cut(f, o), NEW t \in Parts \union Records,
         Counted(f, o, t), AtomicRight(f, o, Children(o[t]))
  PROVE  AtomicRight(Judge(f, t), o, {t})
<1> DEFINE j == Judge(f, t)
           v == f[t].levels[1]
           c == v.tree
           N == Len(f[t].levels)
<1>1. t \in Trees /\ t # "event"
  BY TreesApart DEF Trees
<1>2. /\ Cut(j, o)
      /\ \A s \in Trees : j[s].levels = f[s].levels /\ j[s].len = f[s].len
      /\ j[t].atomic => (c # None => f[c].atomic) /\ \A p \in 2 .. N : f[t].levels[p] = Absent
  BY <1>1, JudgeIs
<1>3. Total(j, t) = Total(f, t)
  <2>1. Within(t) \subseteq Trees
    BY <1>1, TreesApart
  <2> HIDE DEF j
  <2> QED
    BY <1>1, <1>2, <2>1, TotalSame
<1> SUFFICES ASSUME j[t].atomic
             PROVE  Total(f, t) = LeastPart(o, t)
  BY <1>3 DEF AtomicRight
<1>4. /\ N \in Nat /\ N >= 1 /\ \A p \in 1 .. N : f[t].levels[p] = o[t][p] /\ p \in 1 .. Len(o[t])
  BY <1>1, CutLevels
<1>5. N = 1
  <2> SUFFICES ASSUME N # 1
               PROVE  FALSE
    OBVIOUS
  <2>1. 2 \in 1 .. N /\ 2 \in 2 .. N
    <3>1. N \in Nat /\ N >= 1 /\ N # 1
      BY <1>4
    <3> HIDE DEF N
    <3> QED
      BY <3>1
  <2>2. o[t][2] = Absent /\ 2 \in 1 .. Len(o[t])
    BY <1>2, <1>4, <2>1
  <2>3. o[t][2].own = 0 /\ o[t][2].tree = None
    BY <2>2 DEF Absent, Leaf
  <2>4. o[t][2].own > 0 \/ o[t][2].tree # None
    BY <1>1, <2>2 DEF Shaped
  <2> QED
    BY <2>3, <2>4
<1>6. Total(f, t) = LevelLen(f, v)
  BY <1>1, <1>5, TotalLeast DEF Total
<1>7. v = o[t][1] /\ 1 \in 1 .. Len(o[t])
  BY <1>4
<1>8. LevelLen(f, v) = v.own + IF c = None THEN 0 ELSE f[c].len
  BY DEF LevelLen
<1>9. ASSUME c # None
      PROVE  f[c].len = LeastRecord(o, c)
  <2>1. c \in Children(o[t]) /\ c \in Within(t)
    BY <1>1, <1>7, <1>9, ChildrenAre
  <2>2. c \in Trees /\ Within(c) = {}
    BY <1>1, <2>1, TreesApart
  <2>3. f[c].len = Total(f, c) /\ f[c].atomic
    BY <1>2, <1>9, <2>1 DEF Counted
  <2>4. Total(f, c) = LeastPart(o, c)
    BY <2>1, <2>3 DEF AtomicRight
  <2>5. 1 \in 1 .. Len(o[c])
    BY <2>2 DEF Shaped
  <2>6. o[c][1].tree = None /\ o[c][1].own \in Nat
    BY <2>2, <2>5 DEF Shaped
  <2> HIDE DEF c
  <2> QED
    BY <2>3, <2>4, <2>6 DEF LeastPart, LeastRecord
<1> HIDE DEF v
<1>10. LevelLen(f, v) = LeastPart(o, t)
  BY <1>7, <1>8, <1>9 DEF LeastPart
<1> QED
  BY <1>6, <1>10

LEMMA JudgedPrudent ==
  ASSUME TrimAssumption, NEW o, Shaped(o), NEW f, Cut(f, o), Counted(f, o, "event"),
         Prudent(f, o, "event"), NEW t \in Children(o["event"])
  PROVE  Prudent(Judged(f, t), o, "event")
<1> DEFINE c == f[t].levels[1].tree
           i == IF c = None THEN f ELSE Judge(f, c)
           j == Judge(i, t)
<1>1. /\ t \in Parts /\ t \in Trees /\ t # "event" /\ "event" \in Trees
      /\ Below(o, t) = Children(o[t]) /\ Children(o[t]) \subseteq Records /\ Records \subseteq Trees
      /\ t \in Below(o, "event") /\ Children(o[t]) \subseteq Below(o, "event")
      /\ Below(o, "event") \subseteq Trees \ {"event"}
  <2>1. "event" \in Trees /\ Within("event") = Parts /\ Records \subseteq Trees
    BY TreesApart DEF Trees
  <2>2. t \in Parts /\ t \in Trees /\ t # "event" /\ Below(o, t) = Children(o[t])
    BY <2>1, BelowAre
  <2>3. Children(o[t]) \subseteq Records
    BY <2>2, ChildrenAre, TreesApart
  <2>4. Below(o, "event") \subseteq Trees \ {"event"}
    BY <2>1, BelowAre
  <2> QED
    BY <2>1, <2>2, <2>3, <2>4 DEF Below
<1>2. c \in Children(o[t]) \union {None}
  <2>1. /\ f[t].levels[1] = o[t][1] /\ 1 \in 1 .. Len(o[t])
    <3>1. 1 \in 1 .. Len(f[t].levels)
      BY <1>1, CutLevels
    <3> QED
      BY <1>1, <3>1, CutLevels
  <2> QED
    BY <1>1, <2>1, ChildrenAre
<1>3. Judged(f, t) = j
  BY DEF Judged
<1>4. Counted(f, o, t) /\ \A d \in Children(o[t]) : Counted(f, o, d)
  <2>1. \A d \in Children(o[t]) : d \in Trees /\ Within(d) = {}
    BY <1>1, TreesApart
  <2>2. \A d \in Children(o[t]) : Children(o[d]) = {}
    BY <2>1, ChildrenAre
  <2> QED
    BY <2>2 DEF Counted
<1>5. AtomicRight(f, o, Below(o, "event"))
  BY DEF Prudent
<1> HIDE DEF c
<1>6. /\ Cut(i, o)
      /\ \A s \in Trees : i[s].levels = f[s].levels /\ i[s].len = f[s].len
      /\ \A s \in Trees : s # c => i[s] = f[s]
      /\ AtomicRight(i, o, Children(o[t])) /\ Counted(i, o, t)
  <2>1. CASE c = None
    BY <1>1, <1>4, <1>5, <2>1 DEF AtomicRight
  <2>2. CASE c # None
    <3>1. c \in Children(o[t]) /\ c \in Trees /\ c \in Records /\ i = Judge(f, c)
      BY <1>1, <1>2, <2>2
    <3> HIDE DEF i
    <3>2. /\ Cut(i, o)
          /\ \A s \in Trees : i[s].levels = f[s].levels /\ i[s].len = f[s].len
          /\ \A s \in Trees : s # c => i[s] = f[s]
      BY <3>1, JudgeIs
    <3>3. Children(o[c]) = {} /\ Counted(f, o, c)
      BY <1>4, <3>1, ChildrenAre, TreesApart
    <3>4. AtomicRight(f, o, Children(o[c]))
      BY <3>3 DEF AtomicRight
    <3>5. AtomicRight(i, o, {c})
      BY <3>1, <3>3, <3>4, JudgeRight
    <3>6. Counted(i, o, t) /\ \A s \in Trees : Total(i, s) = Total(f, s)
      <4>1. None \in Children(o[t]) \union {None}
        OBVIOUS
      <4> QED
        BY <1>1, <1>4, <3>2, <4>1, NotTrimmed
    <3>7. AtomicRight(i, o, Children(o[t]))
      BY <1>1, <1>5, <3>2, <3>5, <3>6 DEF AtomicRight
    <3> QED
      BY <3>2, <3>6, <3>7
  <2> QED
    BY <2>1, <2>2
<1> HIDE DEF i
<1>7. /\ Cut(j, o)
      /\ \A s \in Trees : j[s].levels = i[s].levels /\ j[s].len = i[s].len
      /\ \A s \in Trees : s # t => j[s] = i[s]
  BY <1>1, <1>6, JudgeIs
<1>8. AtomicRight(j, o, {t})
  BY <1>1, <1>6, JudgeRight
<1> HIDE DEF j
<1>9. \A s \in Trees : j[s].levels = f[s].levels /\ j[s].len = f[s].len
  BY <1>6, <1>7
<1>10. \A s \in Trees : Total(j, s) = Total(f, s) /\ Total(i, s) = Total(f, s)
  <2>1. \A s \in Trees : Within(s) \subseteq Trees
    BY TreesApart
  <2>2. \A s \in Trees : Total(j, s) = Total(f, s)
    BY <1>7, <1>9, <2>1, TotalSame
  <2>3. \A s \in Trees : Total(i, s) = Total(f, s)
    BY <1>6, <2>1, TotalSame
  <2> QED
    BY <2>2, <2>3
<1>11. AtomicRight(j, o, Below(o, "event"))
  <2> SUFFICES ASSUME NEW s \in Below(o, "event"), j[s].atomic
               PROVE  Total(j, s) = LeastPart(o, s)
    BY DEF AtomicRight
  <2>1. s \in Trees
    BY <1>1
  <2>2. CASE s = t
    BY <1>8, <2>2 DEF AtomicRight
  <2>3. CASE s # t /\ s = c
    <3>1. c # None
      BY <2>1, <2>3, TreesApart
    <3>2. s \in Children(o[t]) /\ i[s].atomic
      BY <1>2, <1>7, <2>1, <2>3, <3>1
    <3> QED
      BY <1>6, <1>10, <2>1, <3>2 DEF AtomicRight
  <2>4. CASE s # t /\ s # c
    BY <1>5, <1>6, <1>7, <1>10, <2>1, <2>4 DEF AtomicRight
  <2> QED
    BY <2>2, <2>3, <2>4
<1>12. OnlyLast(j, o, {"event"} \union Below(o, "event"))
  <2>1. \A s \in Trees : Incomplete(j, o, s) = Incomplete(f, o, s)
    <3>1. \A s \in Trees : Within(s) \subseteq Trees
      BY TreesApart
    <3> QED
      BY <1>7, <1>9, <3>1, SameBelow
  <2> SUFFICES ASSUME NEW s \in {"event"} \union Below(o, "event"), NEW p \in 1 .. Len(j[s].levels) - 1,
                      j[s].levels[p].tree # None
               PROVE  ~Incomplete(j, o, j[s].levels[p].tree)
    BY DEF OnlyLast
  <2> DEFINE d == j[s].levels[p].tree
  <2>2. s \in Trees /\ j[s].levels = f[s].levels
    BY <1>1, <1>9
  <2>3. ~Incomplete(f, o, d)
    BY <2>2 DEF Prudent, OnlyLast
  <2>4. d \in Trees
    <3>1. p \in 1 .. Len(j[s].levels)
      BY <1>7, <2>2, CutLevels
    <3>2. d \in Within(s)
      BY <1>7, <2>2, <3>1, CutLevels
    <3> QED
      BY <2>2, <3>2, TreesApart
  <2> HIDE DEF d
  <2> QED
    BY <2>1, <2>3, <2>4 DEF d
<1> QED
  BY <1>3, <1>11, <1>12 DEF Prudent

(* The event is trimmed well.                                              *)
LEMMA EventLean ==
  ASSUME TrimAssumption, NEW o, Shaped(o), NEW f, Cut(f, o), Counted(f, o, "event"),
         Prudent(f, o, "event"), NEW cached \in BOOLEAN
  PROVE  Leaner(f, o, "event", MaxSize, Trimmed(f, cached))
<1> DEFINE t == "event"
           m == MaxSize
           n == Fitting(f, t, m)
           N == Len(f[t].levels)
           v == f[t].levels[n + 1]
           r == m - UpTo(f, t)[n]
           x == IF r > v.own THEN r - v.own ELSE 0
           h == PrioTrimmed(f, t, cached, n + 1, r, PartTrimmed)
           g == Trimmed(f, cached)
<1>1. t \in Trees /\ Within(t) = Parts /\ f \in Forest /\ N \in Nat /\ N >= 1
  BY TreesApart, CutLevels
<1>2. m \in Nat
  BY DEF TrimAssumption
<1>3. n \in 0 .. N /\ UpTo(f, t)[n] <= m /\ (n < N => UpTo(f, t)[n + 1] > m)
  BY <1>1, <1>2, FittingIs
<1>4. CASE n = N
  <2>1. g = Voided(f, t, m, N)
    BY <1>4 DEF Trimmed, TreeTrimmed
  <2>2. Total(f, t) <= m
    BY <1>3, <1>4 DEF Total
  <2> HIDE DEF g, n
  <2>3. Leaner(f, o, t, m, g)
    BY <1>1, <1>2, <2>1, <2>2, LeanKept
  <2> QED
    BY <2>3 DEF g
<1>5. CASE n # N
  <2>1. n \in Nat /\ n < N /\ n + 1 \in 1 .. N
    BY <1>1, <1>3, <1>5
  <2>2. v.own \in Nat /\ v.tree \in Within(t) \union {None} /\ v.tree \in Children(o[t]) \union {None}
    <3>1. \A p \in 1 .. N : /\ f[t].levels[p].own \in Nat /\ f[t].levels[p].tree \in Within(t) \union {None}
                            /\ f[t].levels[p] = o[t][p] /\ p \in 1 .. Len(o[t])
      BY <1>1, CutLevels
    <3>2. \A p \in 1 .. Len(o[t]) : o[t][p].tree # None => o[t][p].tree \in Children(o[t])
      BY <1>1, ChildrenAre
    <3>3. v = f[t].levels[n + 1]
      OBVIOUS
    <3> HIDE DEF n, N, v
    <3> QED
      BY <2>1, <3>1, <3>2, <3>3
  <2>3. g = Voided(h, t, m, Kept(n + 1, UpTo(h, t)[n + 1], m))
    BY <1>5 DEF Trimmed, TreeTrimmed
  <2> DEFINE i == IF v.tree = None \/ cached THEN f ELSE Judged(f, v.tree)
  <2>4. h = IF v.tree = None \/ i[v.tree].atomic \/ i[v.tree].len = 0 THEN i
            ELSE PartTrimmed(i, v.tree, x)
    BY DEF PrioTrimmed
  <2>5. UpTo(f, t)[n] \in Nat
    BY <1>1, <1>3, UpToGrows
  <2>6. x \in Nat /\ x >= m - UpTo(f, t)[n] - v.own /\ (x = 0 \/ x = m - UpTo(f, t)[n] - v.own)
    <3> HIDE DEF n, N, v, h, g, i, m
    <3> QED
      BY <1>2, <1>3, <2>2, <2>5, LeftOver
  <2>7. v = f[t].levels[n + 1]
    OBVIOUS
  <2> DEFINE c == v.tree
  <2>8. /\ c \in Children(o[t]) \union {None} /\ c \in Parts \union {None}
        /\ i = IF c = None \/ cached THEN f ELSE Judged(f, c)
        /\ h = IF c = None \/ i[c].atomic \/ i[c].len = 0 THEN i ELSE PartTrimmed(i, c, x)
    BY <1>1, <2>2, <2>4
  <2> HIDE DEF n, v, r, x, h, i, g, c
  <2>9. /\ Cut(i, o) /\ Prudent(i, o, t)
        /\ \A s \in Trees : i[s].levels = f[s].levels /\ i[s].len = f[s].len
    <3>1. CASE i = f
      BY <3>1
    <3>2. CASE i # f
      <4>1. c # None /\ i = Judged(f, c) /\ c \in Children(o[t]) /\ c \in Parts
        BY <2>8, <3>2
      <4> QED
        BY <4>1, JudgedIs, JudgedPrudent
    <3> QED
      BY <3>1, <3>2
  <2>10. Counted(i, o, t)
    <3>1. None \in Children(o[t]) \union {None}
      OBVIOUS
    <3> QED
      BY <1>1, <2>9, <3>1, NotTrimmed
  <2>11. UpTo(i, t)[n] = UpTo(f, t)[n] /\ UpTo(i, t)[n + 1] = UpTo(f, t)[n + 1]
    <3>1. \A k \in 0 .. Len(f[t].levels) : UpTo(i, t)[k] = UpTo(f, t)[k]
      <4>1. Within(t) \subseteq Trees
        BY <1>1, TreesApart
      <4> QED
        BY <1>1, <2>9, <4>1, TotalSame
    <3>2. n \in 0 .. N /\ n + 1 \in 0 .. N
      BY <1>1, <2>1
    <3> HIDE DEF t
    <3> QED
      BY <3>1, <3>2
  <2>12. c # None => /\ c \in Parts /\ c \in Trees /\ i[c].len = Total(i, c) /\ i[c].len # 0
                     /\ c \in Children(o[t]) /\ Counted(i, o, c) /\ Prudent(i, o, c)
    <3> SUFFICES ASSUME c # None
                 PROVE  /\ c \in Parts /\ c \in Trees /\ i[c].len = Total(i, c) /\ i[c].len # 0
                        /\ c \in Children(o[t]) /\ Counted(i, o, c) /\ Prudent(i, o, c)
      OBVIOUS
    <3>1. c \in Parts /\ c \in Children(o[t]) /\ c \in Trees
      BY <2>8 DEF Trees
    <3>2. i[c].len = Total(i, c)
      BY <2>10, <3>1 DEF Counted
    <3>3. Total(i, c) > 0 /\ Total(i, c) \in Nat
      BY <2>9, <3>1, TotalLeast
    <3>4. Counted(i, o, c)
      BY <1>1, <2>9, <2>10, <3>1, NotTrimmed
    <3>5. Prudent(i, o, c)
      <4>1. c \in Below(o, t) /\ Below(o, c) \subseteq Below(o, t)
        BY <1>1, <3>1, BelowAre
      <4> QED
        BY <2>9, <4>1 DEF Prudent, AtomicRight, OnlyLast
    <3> QED
      BY <3>1, <3>2, <3>3, <3>4, <3>5
  <2>13. Cutting(i, o, c, h) /\ (c = None => h = i) /\ (c # None => Leaner(i, o, c, x, h))
    <3>1. CASE c = None
      <4>1. Cutting(i, o, c, i)
        BY <1>1, <2>8, <2>9, <2>10, NotTrimmed
      <4> QED
        BY <2>8, <3>1, <4>1
    <3>2. CASE c # None /\ i[c].atomic
      <4>1. Cutting(i, o, c, i)
        BY <1>1, <2>8, <2>9, <2>10, NotTrimmed
      <4>2. Leaner(i, o, c, x, i)
        BY <1>1, <2>9, <2>12, <3>2, AtomicLean
      <4> QED
        BY <2>8, <3>2, <4>1, <4>2
    <3>3. CASE c # None /\ ~i[c].atomic
      <4>1. h = PartTrimmed(i, c, x)
        BY <2>8, <2>12, <3>3
      <4> QED
        BY <2>6, <2>9, <2>12, <3>3, <4>1, PartCut, PartLean
    <3> QED
      BY <3>1, <3>2, <3>3
  <2>14. LevelLean(i, o, t, m, n, v, x, h)
    <3>1. Len(i[t].levels) = N /\ i[t].levels[n + 1] = v
      BY <1>1, <2>7, <2>9
    <3> QED
      BY <1>3, <2>1, <2>6, <2>9, <2>10, <2>11, <2>13, <3>1 DEF LevelLean, c
  <2>15. Leaner(i, o, t, m, g)
    BY <1>1, <1>2, <2>3, <2>14, LeanStep
  <2>16. Leaner(f, o, t, m, g)
    <3>1. \A s \in Trees : Len(i[s].levels) = Len(f[s].levels)
      BY <2>9
    <3> QED
      BY <2>15, <3>1 DEF Leaner
  <2> QED
    BY <2>16 DEF g
<1> QED
  BY <1>4, <1>5

-----------------------------------------------------------------------------
(* The levels that an event has before it is trimmed, marked or not.       *)

Levels(b, m) == [t \in Trees |-> IF t = "event" /\ m THEN [b[t] EXCEPT ![1].own = @ + MarkLen] ELSE b[t]]

LEMMA PrefixIs ==
  ASSUME NEW S, NEW s \in Seq(S), NEW t \in Seq(S)
  PROVE  IsPrefix(s, t) <=> (Len(s) <= Len(t) /\ \A p \in 1 .. Len(s) : s[p] = t[p])
<1>1. Len(s) \in Nat /\ Len(t) \in Nat
  OBVIOUS
<1>2. SubSeq(s, 1, Len(s)) = s
  OBVIOUS
<1>3. ASSUME Len(s) <= Len(t)
      PROVE  /\ SubSeq(t, 1, Len(s)) \in Seq(S) /\ Len(SubSeq(t, 1, Len(s))) = Len(s)
             /\ \A p \in 1 .. Len(s) : SubSeq(t, 1, Len(s))[p] = t[p]
  BY <1>1, <1>3
<1> DEFINE u == SubSeq(t, 1, Len(s))
<1>4. u \in Seq(S) /\ Len(u) = Len(s) => (s = u <=> \A p \in 1 .. Len(s) : s[p] = u[p])
  OBVIOUS
<1> HIDE DEF u
<1>5. IsPrefix(s, t) <=> (Len(s) <= Len(t) /\ s = u)
  BY <1>2 DEF IsPrefix, u
<1> QED
  BY <1>3, <1>4, <1>5 DEF u

LEMMA MarkedLevels ==
  ASSUME TrimAssumption, NEW b, WellShaped(b), NEW m \in BOOLEAN
  PROVE  LET o == Levels(b, m)
         IN  /\ WellShaped(o)
             /\ \A t \in Trees : /\ t # "event" => o[t] = b[t]
                                 /\ o[t] \in Seq(Level(Trees)) /\ Len(o[t]) = Len(b[t]) /\ Len(b[t]) \in Nat
                                 /\ \A p \in 1 .. Len(b[t]) : /\ o[t][p].tree = b[t][p].tree
                                                              /\ p # 1 \/ t # "event" => o[t][p] = b[t][p]
             /\ ~m => \A t \in Trees : o[t] = b[t]
             /\ m => o["event"][1].own = b["event"][1].own + MarkLen
             /\ b["event"] \in Seq(Level(Parts)) /\ Len(b["event"]) = 4
<1> DEFINE o == Levels(b, m)
           s == b["event"]
           L == Level(Parts)
           M == [s EXCEPT ![1].own = @ + MarkLen]
<1>1. s \in Seq(L) /\ Len(s) = 4 /\ s[1].own > 0 /\ s[1].tree = None
  BY DEF WellShaped, EventShape
<1>2. MarkLen \in Nat /\ "event" \in Trees /\ Parts \subseteq Trees
  BY TreesApart DEF TrimAssumption, Trees
<1>3. \A t \in Trees : t # "event" => o[t] = b[t]
  BY DEF Levels
<1>4. ~m => o["event"] = s
  BY <1>2 DEF Levels
<1>5. m => o["event"] = M
  BY <1>2 DEF Levels
<1>6. s[1] \in [own : Nat, tree : Parts \union {None}]
  <2>1. s[1] \in L
    <3> HIDE DEF s, L
    <3> QED
      BY <1>1
  <2> QED
    BY <2>1 DEF Level
<1> DEFINE z == [s[1] EXCEPT !.own = @ + MarkLen]
<1>7. z \in [own : Nat, tree : Parts \union {None}] /\ z.tree = s[1].tree /\ z.own = s[1].own + MarkLen
  <2> DEFINE w == s[1]
  <2>1. w \in [own : Nat, tree : Parts \union {None}]
    BY <1>6
  <2> HIDE DEF w, s
  <2>2. [w EXCEPT !.own = @ + MarkLen].tree = w.tree
    BY <2>1
  <2>3. [w EXCEPT !.own = @ + MarkLen].own = w.own + MarkLen
    BY <2>1
  <2>4. [w EXCEPT !.own = @ + MarkLen] \in [own : Nat, tree : Parts \union {None}]
    BY <1>2, <2>1
  <2> QED
    BY <2>2, <2>3, <2>4 DEF w
<1>8. M = [s EXCEPT ![1] = z]
  OBVIOUS
<1>9. /\ M \in Seq(L) /\ Len(M) = 4 /\ M[1] = z
      /\ \A p \in 1 .. 4 : p # 1 => M[p] = s[p]
  <2>1. z \in L
    BY <1>7 DEF Level
  <2> HIDE DEF z, M, s, L
  <2> QED
    BY <1>1, <1>8, <2>1
<1>10. o["event"] \in Seq(L) /\ Len(o["event"]) = 4
       /\ o["event"][1].tree = s[1].tree /\ o["event"][1].own >= s[1].own /\ o["event"][1].own \in Nat
       /\ \A p \in 1 .. 4 : p # 1 => o["event"][p] = s[p]
  <2>1. s[1].own \in Nat
    BY <1>6
  <2>2. CASE m
    <3> HIDE DEF z, M, s, L, o
    <3> QED
      BY <1>2, <1>5, <1>7, <1>9, <2>1, <2>2
  <2>3. CASE ~m
    <3> HIDE DEF z, M, s, L, o
    <3> QED
      BY <1>1, <1>4, <2>1, <2>3
  <2> QED
    BY <2>2, <2>3
<1> HIDE DEF o
<1>11. EventShape(o["event"])
  <2> DEFINE e == o["event"]
  <2>1. s[2].tree \in {None, "text"} /\ s[3].tree \in {None, "data"} /\ s[4].tree \in {None, "norm"}
        /\ (s[2].tree # None \/ s[3].tree # None)
    BY DEF WellShaped, EventShape
  <2>2. e[2] = s[2] /\ e[3] = s[3] /\ e[4] = s[4]
    BY <1>10
  <2>3. e[1].own > 0
    BY <1>1, <1>6, <1>10
  <2> HIDE DEF e, s
  <2> QED
    BY <1>1, <1>10, <2>1, <2>2, <2>3 DEF EventShape, e
<1>12. WellShaped(o)
  BY <1>3, <1>11 DEF WellShaped
<1>13. ASSUME NEW t \in Trees
       PROVE  /\ o[t] \in Seq(Level(Trees)) /\ Len(o[t]) = Len(b[t]) /\ Len(b[t]) \in Nat
              /\ \A p \in 1 .. Len(b[t]) : /\ o[t][p].tree = b[t][p].tree
                                           /\ p # 1 \/ t # "event" => o[t][p] = b[t][p]
  <2>1. o[t] \in Seq(Level(Trees)) /\ Len(o[t]) \in Nat
    BY <1>12, WellShapedShaped DEF Shaped
  <2>2. CASE t # "event"
    BY <1>3, <2>1, <2>2
  <2>3. CASE t = "event"
    <3> HIDE DEF s
    <3>1. Len(o[t]) = Len(s) /\ Len(s) \in Nat /\ \A p \in 1 .. Len(s) : o[t][p].tree = s[p].tree /\ (p # 1 => o[t][p] = s[p])
      BY <1>1, <1>10, <2>3
    <3> QED
      BY <2>1, <2>3, <3>1 DEF s
  <2> QED
    BY <2>2, <2>3
<1>14. m => o["event"][1].own = s[1].own + MarkLen
  BY <1>5, <1>7, <1>9
<1>15. ~m => \A t \in Trees : o[t] = b[t]
  BY <1>3, <1>4
<1> QED
  BY <1>1, <1>3, <1>12, <1>13, <1>14, <1>15 DEF o, s

(* The levels of trees that are the same but for the header of the event.  *)
Twin(b, o) ==
  /\ Shaped(o) /\ Shaped(b) /\ Len(b["event"]) = 4
  /\ o["event"][1].own = b["event"][1].own + MarkLen
  /\ \A t \in Trees : /\ t # "event" => o[t] = b[t]
                      /\ o[t] \in Seq(Level(Trees)) /\ Len(o[t]) = Len(b[t])
                      /\ \A p \in 1 .. Len(b[t]) : /\ o[t][p].tree = b[t][p].tree
                                                   /\ p # 1 \/ t # "event" => o[t][p] = b[t][p]
                      /\ Children(o[t]) = Children(b[t])

LEMMA MarkedTwin ==
  ASSUME TrimAssumption, NEW b, WellShaped(b)
  PROVE  Twin(b, Levels(b, TRUE))
<1> DEFINE o == Levels(b, TRUE)
<1>1. /\ WellShaped(o) /\ Len(b["event"]) = 4
      /\ \A t \in Trees : /\ t # "event" => o[t] = b[t]
                          /\ o[t] \in Seq(Level(Trees)) /\ Len(o[t]) = Len(b[t]) /\ Len(b[t]) \in Nat
                          /\ \A p \in 1 .. Len(b[t]) : /\ o[t][p].tree = b[t][p].tree
                                                       /\ p # 1 \/ t # "event" => o[t][p] = b[t][p]
  BY MarkedLevels
<1>2. o["event"][1].own = b["event"][1].own + MarkLen
  BY MarkedLevels
<1> HIDE DEF o
<1>3. Shaped(o) /\ Shaped(b)
  BY <1>1, WellShapedShaped
<1>4. \A t \in Trees : Children(o[t]) = Children(b[t])
  BY <1>1 DEF Children
<1>5. Twin(b, o)
  BY <1>1, <1>2, <1>3, <1>4 DEF Twin
<1> QED
  BY <1>5 DEF o

(* What was in the event is longer than its header.                        *)
LEMMA EventPositive ==
  ASSUME TrimAssumption, NEW o, WellShaped(o), NEW f, Cut(f, o), Counted(f, o, "event"),
         Len(f["event"].levels) = 4
  PROVE  Total(f, "event") > UpTo(f, "event")[1]
<1> DEFINE t == "event"
           F == UpTo(f, t)
           d(p) == LevelLen(f, f[t].levels[p])
<1>1. Shaped(o) /\ t \in Trees
  BY WellShapedShaped, TreesApart
<1>2. /\ f \in Forest
      /\ \A p \in 1 .. 4 : f[t].levels[p] = o[t][p] /\ p \in 1 .. Len(o[t]) /\ d(p) \in Nat
                           /\ f[t].levels[p].own \in Nat
  <2> DEFINE N == Len(f[t].levels)
  <2>1. \A p \in 1 .. N : /\ f[t].levels[p] = o[t][p] /\ p \in 1 .. Len(o[t])
                          /\ LevelLen(f, f[t].levels[p]) \in Nat /\ f[t].levels[p].own \in Nat
    BY <1>1, CutLevels
  <2>2. N = 4 /\ f \in Forest
    BY DEF Cut
  <2> HIDE DEF N
  <2> QED
    BY <2>1, <2>2
<1>3. PICK q \in {2, 3} : o[t][q].tree # None
  BY DEF WellShaped, EventShape
<1>4. d(q) > 0
  <2> DEFINE v == o[t][q]
             c == v.tree
  <2>1. c \in Children(o[t]) /\ c \in Trees
    <3>1. q \in 1 .. Len(o[t])
      BY <1>2
    <3>2. c \in Children(o[t])
      BY <1>1, <1>3, <3>1, ChildrenAre
    <3> QED
      BY <1>1, <3>2, BelowAre
  <2>2. f[c].len = Total(f, c) /\ Total(f, c) > 0 /\ Total(f, c) \in Nat
    BY <1>1, <2>1, TotalLeast DEF Counted
  <2>3. f[t].levels[q] = v /\ v.own \in Nat
    <3>1. q \in 1 .. 4
      OBVIOUS
    <3>2. f[t].levels[q] = o[t][q] /\ f[t].levels[q].own \in Nat
      BY <1>2, <3>1
    <3> QED
      BY <3>2
  <2> HIDE DEF c, v
  <2>4. LevelLen(f, v) = v.own + f[c].len
    BY <1>3 DEF LevelLen, c, v
  <2> QED
    BY <2>2, <2>3, <2>4
<1>5. F[2] = F[1] + d(2) /\ F[3] = F[2] + d(3) /\ F[1] \in Nat /\ F[3] <= Total(f, t) /\ Total(f, t) \in Nat
  <2>1. F[2] = F[2 - 1] + d(2) /\ F[3] = F[3 - 1] + d(3)
    BY UpToSteps
  <2>2. 1 \in 0 .. 4 /\ 3 \in 0 .. 4
    OBVIOUS
  <2>3. F[1] \in Nat /\ F[3] <= Total(f, t) /\ Total(f, t) \in Nat
    BY <1>1, <2>2, TotalLeast
  <2> QED
    BY <2>1, <2>3
<1>6. d(2) \in Nat /\ d(3) \in Nat /\ (d(2) > 0 \/ d(3) > 0)
  BY <1>2, <1>4
<1> HIDE DEF F, d
<1>7. Total(f, t) > F[1]
  BY <1>5, <1>6
<1> QED
  BY <1>7 DEF F, t

(* How the lengths of all that was in the event are cached.                *)
LEMMA PresentCounted ==
  ASSUME NEW o, NEW f
  PROVE  Counted(f, o, "event") <=> \A t \in Present(o) : f[t].len = Total(f, t)
BY DEF Counted, Present

LEMMA FirstTrim ==
  ASSUME TrimAssumption, NEW b, WellShaped(b), NEW f, Cut(f, b), \A t \in Trees : f[t].levels = b[t]
  PROVE  LET m == Measured(f)
             g == Trimmed(m, FALSE)
         IN  /\ Cut(g, b) /\ Counted(g, b, "event") /\ g["event"].len = Total(g, "event")
             /\ g["event"].len <= MaxSize \/ Len(g["event"].levels) = 1
             /\ (g["event"].len < m["event"].len) <=> \E t \in Linked(g) : Short(g, b, t)
             /\ (\A t \in Trees : ~f[t].atomic) =>
                  /\ Prudent(g, b, "event")
                  /\ (\E t \in Linked(g) : Short(g, b, t)) =>
                       Total(g, "event") + Least(b, FirstMissing(g, b)) > MaxSize
<1> DEFINE m == Measured(f)
           g == Trimmed(m, FALSE)
<1>1. Shaped(b) /\ "event" \in Trees
  BY WellShapedShaped, TreesApart
<1>2. /\ Cut(m, b)
      /\ \A t \in Trees : m[t].levels = f[t].levels /\ m[t].atomic = f[t].atomic
      /\ \A t \in Linked(f) : m[t].len = Total(m, t)
  BY <1>1, MeasuredIs
<1>3. Linked(f) = {"event"} \union Present(b)
  BY <1>1, LinkedAre
<1>4. Counted(m, b, "event") /\ m["event"].len = Total(m, "event")
  BY <1>2, <1>3, PresentCounted
<1>5. g = Trimmed(m, FALSE)
  OBVIOUS
<1> HIDE DEF m, g
<1>6. Len(m["event"].levels) = 4 /\ \A t \in Trees : m[t].levels = b[t]
  BY <1>1, <1>2 DEF WellShaped, EventShape
<1>7. Total(m, "event") > UpTo(m, "event")[1]
  BY <1>2, <1>4, <1>6, EventPositive
<1>8. /\ Cut(g, b) /\ Counted(g, b, "event") /\ g["event"].len = Total(g, "event")
      /\ \A s \in Trees : Len(g[s].levels) <= Len(m[s].levels)
      /\ (\E s \in Trees : Len(g[s].levels) # Len(m[s].levels)) => g["event"].len < Total(m, "event")
      /\ g["event"].len <= MaxSize \/ Len(g["event"].levels) = 1
  BY <1>1, <1>2, <1>4, <1>5, <1>7, EventCut
<1>9. \A t \in Trees : Len(m[t].levels) = Len(b[t]) /\ Len(b[t]) \in Nat /\ Len(g[t].levels) \in Nat
  BY <1>1, <1>6, <1>8, CutLevels
<1>10. Linked(g) \subseteq Trees
  BY <1>1, <1>8, LinkedAre
<1>11. ASSUME \E t \in Linked(g) : Short(g, b, t)
       PROVE  \E s \in Trees : Len(g[s].levels) # Len(m[s].levels)
  <2>1. PICK t \in Linked(g) : Len(g[t].levels) < Len(b[t])
    BY <1>11 DEF Short
  <2>2. t \in Trees
    BY <1>10
  <2>3. Len(g[t].levels) # Len(m[t].levels)
    BY <1>9, <2>1, <2>2
  <2> QED
    BY <2>2, <2>3
<1>12. ASSUME ~ \E t \in Linked(g) : Short(g, b, t)
       PROVE  ~(g["event"].len < m["event"].len)
  <2>1. \A t \in Linked(g) : Len(m[t].levels) = Len(g[t].levels)
    BY <1>8, <1>9, <1>10, <1>12 DEF Short
  <2>2. Total(m, "event") = Total(g, "event")
    BY <1>1, <1>2, <1>4, <1>8, <2>1, NothingMissing
  <2>3. Total(m, "event") \in Nat
    BY <1>1, <1>2, TotalLeast
  <2> QED
    BY <1>4, <1>8, <2>2, <2>3
<1>13. (g["event"].len < m["event"].len) <=> \E t \in Linked(g) : Short(g, b, t)
  BY <1>4, <1>8, <1>11, <1>12
<1>14. ASSUME \A t \in Trees : ~f[t].atomic
       PROVE  /\ Prudent(g, b, "event")
              /\ (\E t \in Linked(g) : Short(g, b, t)) =>
                   Total(g, "event") + Least(b, FirstMissing(g, b)) > MaxSize
  <2>1. Below(b, "event") \subseteq Trees
    BY <1>1, BelowAre
  <2>2. AtomicRight(m, b, Below(b, "event"))
    BY <1>2, <1>14, <2>1 DEF AtomicRight
  <2>3. \A t \in Trees : ~Short(m, b, t)
    BY <1>9 DEF Short
  <2>4. \A t \in Trees : ~Incomplete(m, b, t)
    <3>1. \A t \in Trees : Children(m[t].levels) \subseteq Trees
      BY <1>1, <1>2, LinkedAre, ChildrenAre, TreesApart
    <3> QED
      BY <2>3, <3>1 DEF Incomplete
  <2>5. OnlyLast(m, b, {"event"} \union Below(b, "event"))
    <3> SUFFICES ASSUME NEW s \in Trees, NEW p \in 1 .. Len(m[s].levels) - 1, m[s].levels[p].tree # None
                 PROVE  ~Incomplete(m, b, m[s].levels[p].tree)
      BY <1>1, <2>1 DEF OnlyLast
    <3>1. p \in 1 .. Len(m[s].levels)
      BY <1>9
    <3>2. m[s].levels[p].tree \in Within(s)
      BY <1>1, <1>2, <3>1, CutLevels
    <3>3. m[s].levels[p].tree \in Trees
      BY <3>2, TreesApart
    <3> QED
      BY <2>4, <3>3
  <2>6. Prudent(m, b, "event")
    BY <2>2, <2>5 DEF Prudent
  <2>7. Leaner(m, b, "event", MaxSize, g)
    BY <1>1, <1>2, <1>4, <1>5, <2>6, EventLean
  <2> QED
    BY <1>11, <2>7 DEF Leaner, Missing
<1> QED
  BY <1>5, <1>8, <1>13, <1>14 DEF m

(* What is short stays so.                                                 *)
LEMMA ShortStays ==
  ASSUME TrimAssumption, NEW o, Shaped(o), NEW f, Cut(f, o), NEW g, Cut(g, o),
         \A t \in Trees : Len(g[t].levels) <= Len(f[t].levels),
         \E t \in Linked(f) : Short(f, o, t)
  PROVE  \E t \in Linked(g) : Short(g, o, t)
<1> DEFINE P == Children(f["event"].levels)
           Q == Children(g["event"].levels)
<1>1. \A t \in Trees : /\ Len(f[t].levels) \in Nat /\ Len(g[t].levels) \in Nat /\ Len(o[t]) \in Nat
                       /\ Len(g[t].levels) <= Len(f[t].levels) /\ Len(f[t].levels) <= Len(o[t])
  BY CutLevels
<1>2. ASSUME NEW t \in Trees, Len(g[t].levels) = Len(f[t].levels)
      PROVE  Children(g[t].levels) = Children(f[t].levels)
  <2>1. \A p \in 1 .. Len(f[t].levels) : f[t].levels[p] = o[t][p]
    BY CutLevels
  <2>2. \A p \in 1 .. Len(g[t].levels) : g[t].levels[p] = o[t][p]
    BY CutLevels
  <2> QED
    BY <1>2, <2>1, <2>2 DEF Children
<1>3. \A t \in Trees : Len(g[t].levels) # Len(f[t].levels) => Short(g, o, t)
  BY <1>1 DEF Short
<1>4. \A t \in Trees : Short(f, o, t) => Short(g, o, t)
  BY <1>1 DEF Short
<1>5. "event" \in Trees /\ P \subseteq Trees /\ \A t \in P : Children(f[t].levels) \subseteq Trees
  <2>1. Linked(f) \subseteq Trees
    BY LinkedAre
  <2> QED
    BY <2>1, TreesApart DEF Linked
<1>6. "event" \in Linked(g)
  BY DEF Linked
<1>7. Linked(g) = {"event"} \union Q \union UNION {Children(g[t].levels) : t \in Q}
  BY DEF Linked
<1>8. Linked(f) = {"event"} \union P \union UNION {Children(f[t].levels) : t \in P}
  BY DEF Linked
<1>9. CASE Short(g, o, "event")
  BY <1>6, <1>9
<1>10. CASE ~Short(g, o, "event")
  <2>1. Q = P
    BY <1>2, <1>3, <1>5, <1>10
  <2> HIDE DEF P, Q
  <2>2. PICK t \in Linked(f) : Short(f, o, t)
    OBVIOUS
  <2>3. t = "event" \/ t \in P \/ \E s \in P : t \in Children(f[s].levels)
    BY <1>8, <2>2
  <2>4. CASE t = "event"
    BY <1>4, <1>5, <1>10, <2>2, <2>4
  <2>5. CASE t \in P
    BY <1>4, <1>5, <1>7, <2>1, <2>2, <2>5
  <2>6. CASE \E s \in P : t \in Children(f[s].levels)
    <3>1. PICK s \in P : t \in Children(f[s].levels)
      BY <2>6
    <3>2. s \in Linked(g) /\ s \in Trees /\ t \in Trees
      BY <1>5, <1>7, <2>1, <3>1
    <3>3. CASE Short(g, o, s)
      BY <3>2, <3>3
    <3>4. CASE ~Short(g, o, s)
      <4>1. Children(g[s].levels) = Children(f[s].levels)
        BY <1>2, <1>3, <3>2, <3>4
      <4>2. t \in Linked(g)
        BY <1>7, <2>1, <3>1, <4>1
      <4> QED
        BY <1>4, <2>2, <3>2, <4>2
    <3> QED
      BY <3>3, <3>4
  <2> QED
    BY <2>3, <2>4, <2>5, <2>6
<1> QED
  BY <1>9, <1>10

(* The event with the text that says that it was trimmed.                  *)
LEMMA MarkedIs ==
  ASSUME TrimAssumption, NEW b, NEW o, Twin(b, o), NEW f, Cut(f, b), Counted(f, b, "event")
  PROVE  LET h == Marked(f)
         IN  /\ Cut(h, o) /\ Counted(h, o, "event")
             /\ \A t \in Trees : /\ t # "event" => h[t] = f[t] /\ Total(h, t) = Total(f, t)
                                 /\ Len(h[t].levels) = Len(f[t].levels)
                                 /\ \A p \in 1 .. Len(f[t].levels) : h[t].levels[p].tree = f[t].levels[p].tree
             /\ Total(h, "event") = Total(f, "event") + MarkLen
<1> DEFINE h == Marked(f)
           e == f["event"]
           s == e.levels
           w == s[1]
           z == [w EXCEPT !.own = @ + MarkLen]
           M == [s EXCEPT ![1] = z]
           d == [e EXCEPT !.levels = M]
           L == Level(Trees)
           N == Len(s)
<1>1. Shaped(b) /\ "event" \in Trees /\ MarkLen \in Nat
  BY TreesApart DEF TrimAssumption, Twin
<1>2. f \in Forest /\ s \in Seq(L) /\ N \in Nat /\ N >= 1 /\ 1 \in 1 .. N
  BY <1>1, CutLevels
<1>3. h = [f EXCEPT !["event"] = d]
  BY DEF Marked
<1>4. w \in [own : Nat, tree : Trees \union {None}]
  <2>1. w \in L
    <3> HIDE DEF s, L
    <3> QED
      BY <1>2
  <2> QED
    BY <2>1 DEF Level
<1>5. z \in L /\ z.tree = w.tree /\ z.own = w.own + MarkLen
  <2> HIDE DEF w
  <2> QED
    BY <1>1, <1>4 DEF Level
<1>6. M \in Seq(L) /\ Len(M) = N /\ M[1] = z /\ \A p \in 1 .. N : p # 1 => M[p] = s[p]
  <2> HIDE DEF z, s, L
  <2> QED
    BY <1>2, <1>5
<1> DEFINE R == [levels : Seq(L), len : Nat, atomic : BOOLEAN]
<1>7. f \in [Trees -> R]
  BY <1>2 DEF Forest
<1>8. d \in R /\ d.levels = M /\ d.len = e.len
  <2>1. e \in R
    <3> HIDE DEF R
    <3> QED
      BY <1>1, <1>7
  <2> DEFINE S == Seq(L)
  <2> HIDE DEF e, M, S
  <2> QED
    BY <1>6, <2>1 DEF S
<1>9. h \in Forest /\ h["event"] = d /\ \A t \in Trees : t # "event" => h[t] = f[t]
  <2> HIDE DEF h, d, R
  <2>1. h \in [Trees -> R] /\ h["event"] = d /\ \A t \in Trees : t # "event" => h[t] = f[t]
    BY <1>1, <1>3, <1>7, <1>8
  <2> QED
    BY <2>1 DEF Forest, R
<1> HIDE DEF h, d, M
<1>10. /\ \A t \in Trees : h[t].len = f[t].len
       /\ h["event"].levels = M
  BY <1>8, <1>9
<1>11. \A t \in Trees : /\ Len(h[t].levels) = Len(f[t].levels)
                        /\ \A p \in 1 .. Len(f[t].levels) : h[t].levels[p].tree = f[t].levels[p].tree
  <2> SUFFICES ASSUME NEW t \in Trees
               PROVE  /\ Len(h[t].levels) = Len(f[t].levels)
                      /\ \A p \in 1 .. Len(f[t].levels) : h[t].levels[p].tree = f[t].levels[p].tree
    OBVIOUS
  <2>1. CASE t # "event"
    BY <1>9, <2>1
  <2>2. CASE t = "event"
    <3>1. M[1].tree = s[1].tree
      BY <1>5, <1>6
    <3>2. Len(M) = N /\ \A p \in 1 .. N : M[p].tree = s[p].tree
      <4> HIDE DEF N, s, w, z
      <4> QED
        BY <1>6, <3>1
    <3> QED
      BY <1>10, <2>2, <3>2
  <2> QED
    BY <2>1, <2>2
<1>12. Cut(h, o)
  <2>1. /\ \A t \in Trees : /\ t # "event" => o[t] = b[t]
                            /\ Len(o[t]) = Len(b[t])
                            /\ \A p \in 1 .. Len(b[t]) : /\ o[t][p].tree = b[t][p].tree
                                                         /\ p # 1 \/ t # "event" => o[t][p] = b[t][p]
        /\ o["event"][1].own = b["event"][1].own + MarkLen
        /\ o["event"] \in Seq(L) /\ Len(o["event"]) \in Nat
    BY <1>1 DEF Twin
  <2>0. h \in Forest
    BY <1>9
  <2> SUFFICES ASSUME NEW t \in Trees
               PROVE  /\ Len(h[t].levels) >= 1 /\ Len(h[t].levels) <= Len(o[t])
                      /\ \A p \in 1 .. Len(h[t].levels) : h[t].levels[p] = o[t][p]
    BY <2>0 DEF Cut
  <2>2. CASE t # "event"
    BY <1>9, <2>1, <2>2 DEF Cut
  <2>3. CASE t = "event"
    <3>1. N <= Len(b[t]) /\ \A p \in 1 .. N : s[p] = b[t][p] /\ p \in 1 .. Len(b[t])
      BY <1>1, <2>3, CutLevels
    <3>2. \A p \in 1 .. N : p # 1 => M[p] = o[t][p]
      BY <1>6, <2>1, <2>3, <3>1
    <3>3. M[1] = o[t][1]
      <4> DEFINE v == o[t][1]
      <4>1. v.own = w.own + MarkLen /\ v.tree = w.tree
        <5>1. 1 \in 1 .. Len(b["event"]) /\ w = b["event"][1]
          BY <1>2, <2>3, <3>1
        <5>2. o["event"][1].tree = b["event"][1].tree
          BY <1>1, <2>1, <5>1
        <5> HIDE DEF w
        <5> QED
          BY <2>1, <2>3, <5>1, <5>2
      <4>2. v \in L
        <5> DEFINE q == o["event"]
        <5>1. 1 \in 1 .. Len(q)
          BY <1>2, <2>1, <2>3, <3>1
        <5>2. q \in Seq(L)
          BY <2>1
        <5> HIDE DEF q, L
        <5>3. q[1] \in L
          BY <5>1, <5>2
        <5> QED
          BY <2>3, <5>3 DEF q
      <4> HIDE DEF v, w, z
      <4>3. v = z
        BY <1>5, <4>1, <4>2 DEF Level
      <4> QED
        BY <1>6, <4>3 DEF v
    <3>4. Len(M) = N /\ \A p \in 1 .. N : M[p] = o[t][p]
      <4> HIDE DEF N, s
      <4> QED
        BY <1>6, <3>2, <3>3
    <3> QED
      BY <1>2, <1>10, <2>1, <2>3, <3>1, <3>4
  <2> QED
    BY <2>2, <2>3
<1>13. ASSUME NEW t \in Trees, t # "event"
       PROVE  h[t] = f[t] /\ Total(h, t) = Total(f, t)
  <2> DEFINE K == Len(f[t].levels)
  <2>1. h[t] = f[t]
    BY <1>9, <1>13
  <2>2. K \in Nat /\ K \in 0 .. K
    BY <1>1, CutLevels
  <2>3. ASSUME NEW n \in 1 .. K
        PROVE  LevelLen(h, h[t].levels[n]) = LevelLen(f, f[t].levels[n])
    <3> DEFINE v == f[t].levels[n]
    <3>1. v.tree # None => v.tree \in Trees
      <4>1. v.tree \in Within(t) \union {None}
        BY <1>1, CutLevels
      <4>2. Within(t) \subseteq Trees
        BY TreesApart
      <4> QED
        BY <4>1, <4>2
    <3> HIDE DEF v
    <3>2. LevelLen(h, v) = LevelLen(f, v)
      BY <1>10, <3>1 DEF LevelLen
    <3> QED
      BY <2>1, <3>2 DEF v
  <2>4. \A n \in 0 .. K : UpTo(h, t)[n] = UpTo(f, t)[n]
    <3>1. f \in Forest /\ h \in Forest /\ K <= Len(f[t].levels) /\ K <= Len(h[t].levels)
      BY <1>2, <1>9, <2>1, <2>2
    <3> HIDE DEF K
    <3>2. \A n \in 0 .. K : UpTo(h, t)[n] = UpTo(f, t)[n]
      BY <2>2, <2>3, <3>1, UpToSame
    <3> QED
      BY <3>2
  <2> QED
    BY <2>1, <2>2, <2>4 DEF Total
<1>14. Counted(h, o, "event")
  <2>1. Children(o["event"]) = Children(b["event"]) /\ \A t \in Trees : t # "event" => o[t] = b[t]
    BY <1>1 DEF Twin
  <2>2. \A c \in Children(b["event"]) : c \in Trees /\ c # "event" /\ \A y \in Children(b[c]) : y \in Trees /\ y # "event"
    <3>1. \A c \in Children(b["event"]) : c \in Trees /\ c # "event"
      BY <1>1, BelowAre
    <3> QED
      BY <1>1, <3>1, BelowAre
  <2> QED
    BY <1>13, <2>1, <2>2 DEF Counted
<1>15. Total(h, "event") = Total(f, "event") + MarkLen
  <2> DEFINE F == UpTo(f, "event")
             H == UpTo(h, "event")
             a(n) == LevelLen(f, s[n])
             c(n) == LevelLen(h, M[n])
             P == {n \in Nat : n + 1 <= N => H[n + 1] = F[n + 1] + MarkLen}
  <2>1. /\ F[0] = 0 /\ \A n \in 1 .. N : F[n] = F[n - 1] + a(n)
    BY <1>2, UpToSteps
  <2>2. Len(h["event"].levels) = N
    BY <1>6, <1>10
  <2>3. /\ H[0] = 0 /\ \A n \in 1 .. N : H[n] = H[n - 1] + LevelLen(h, h["event"].levels[n])
    BY <1>2, <2>2, UpToSteps
  <2>4. \A n \in 1 .. N : H[n] = H[n - 1] + c(n)
    BY <1>10, <2>3
  <2>5. \A n \in 0 .. N : F[n] \in Nat
    BY <1>1, <1>2, UpToGrows
  <2>6. ASSUME NEW n \in 1 .. N
        PROVE  a(n) \in Nat /\ (n # 1 => c(n) = a(n)) /\ (n = 1 => c(n) = a(n) + MarkLen)
    <3> DEFINE v == s[n]
    <3>1. v.own \in Nat /\ (v.tree # None => v.tree \in Trees) /\ a(n) \in Nat
      BY <1>1, CutLevels, TreesApart
    <3>2. v.tree # None => h[v.tree].len = f[v.tree].len
      BY <1>10, <3>1
    <3>3. n # 1 => M[n] = v
      BY <1>6
    <3>4. n = 1 => M[n].own = v.own + MarkLen /\ M[n].tree = v.tree
      BY <1>5, <1>6
    <3>5. a(n) = v.own + IF v.tree = None THEN 0 ELSE f[v.tree].len
      BY DEF LevelLen
    <3>6. c(n) = M[n].own + IF M[n].tree = None THEN 0 ELSE h[M[n].tree].len
      BY DEF LevelLen
    <3>7. v.tree # None => f[v.tree].len \in Nat
      BY <1>2, <3>1, ForestTyped
    <3> HIDE DEF v, a, c, N, s, w, z
    <3> QED
      BY <1>1, <3>1, <3>2, <3>3, <3>4, <3>5, <3>6, <3>7
  <2> HIDE DEF F, H, a, c, N
  <2>7. 0 \in P
    <3>1. 1 \in 1 .. N /\ 0 + 1 = 1 /\ 1 - 1 = 0
      BY <1>2
    <3> QED
      BY <1>1, <2>1, <2>3, <2>4, <2>6, <3>1
  <2>8. ASSUME NEW n \in Nat, n \in P
        PROVE  n + 1 \in P
    <3> SUFFICES ASSUME (n + 1) + 1 <= N
                 PROVE  H[(n + 1) + 1] = F[(n + 1) + 1] + MarkLen
      OBVIOUS
    <3>1. (n + 1) + 1 \in 1 .. N /\ (n + 1) + 1 # 1 /\ ((n + 1) + 1) - 1 = n + 1 /\ n + 1 <= N /\ n + 1 \in 0 .. N
      BY <1>2
    <3>2. H[n + 1] = F[n + 1] + MarkLen
      BY <2>8, <3>1
    <3> DEFINE k == (n + 1) + 1
    <3>3. k \in 1 .. N /\ k # 1 /\ k - 1 = n + 1
      BY <3>1
    <3> HIDE DEF k
    <3>4. H[k] = H[n + 1] + c(k) /\ F[k] = F[n + 1] + a(k) /\ c(k) = a(k) /\ a(k) \in Nat
      BY <2>1, <2>4, <2>6, <3>3
    <3>5. H[k] = F[k] + MarkLen
      BY <1>1, <2>5, <3>1, <3>2, <3>4
    <3> QED
      BY <3>5 DEF k
  <2> HIDE DEF P
  <2>9. Nat \subseteq P
    BY <2>7, <2>8, SetInduction
  <2>10. N - 1 \in P /\ (N - 1) + 1 = N
    BY <1>2, <2>9
  <2>11. H[N] = F[N] + MarkLen
    BY <1>2, <2>10 DEF P
  <2> QED
    BY <2>2, <2>11 DEF Total, F, H, N
<1> QED
  BY <1>11, <1>12, <1>13, <1>14, <1>15 DEF h

(* What is missing is the same with the other header.                      *)
LEMMA TwinMissing ==
  ASSUME TrimAssumption, NEW b, NEW o, Twin(b, o), NEW f, NEW g, Cut(g, o),
         \A t \in Trees :
           /\ Len(f[t].levels) = Len(g[t].levels)
           /\ \A p \in 1 .. Len(g[t].levels) : f[t].levels[p].tree = g[t].levels[p].tree
  PROVE  /\ \A t \in Trees : /\ Children(f[t].levels) = Children(g[t].levels)
                             /\ Short(g, o, t) <=> Short(f, b, t)
                             /\ Incomplete(g, o, t) <=> Incomplete(f, b, t)
         /\ OnlyLast(g, o, {"event"}) /\ Lacking(g, o, "event") => FirstMissing(g, o) = FirstMissing(f, b)
<1>1. Shaped(o) /\ "event" \in Trees
  BY TreesApart DEF Twin
<1>2. \A t \in Trees : Children(f[t].levels) = Children(g[t].levels) /\ Children(g[t].levels) \subseteq Trees
  <2>1. \A t \in Trees : Children(f[t].levels) = Children(g[t].levels)
    BY DEF Children
  <2>2. \A t \in Trees : Children(g[t].levels) \subseteq Within(t) /\ Within(t) \subseteq Trees
    BY <1>1, LinkedAre, ChildrenAre, TreesApart
  <2> QED
    BY <2>1, <2>2
<1>3. \A t \in Trees : Short(g, o, t) <=> Short(f, b, t)
  BY DEF Short, Twin
<1>4. \A t \in Trees : Incomplete(g, o, t) <=> Incomplete(f, b, t)
  BY <1>2, <1>3 DEF Incomplete
<1>5. ASSUME NEW t \in Trees
      PROVE  LastTree(f, t) = LastTree(g, t) /\ (t # "event" => AfterLast(f, b, t) = AfterLast(g, o, t))
  <2> DEFINE N == Len(g[t].levels)
  <2>1. N \in 1 .. N /\ Len(f[t].levels) = N
    BY <1>1, CutLevels
  <2>2. LastTree(f, t) = LastTree(g, t)
    BY <2>1 DEF LastTree
  <2>3. t # "event" => o[t] = b[t]
    BY DEF Twin
  <2>4. t # "event" => AfterLast(f, b, t) = AfterLast(g, o, t)
    BY <2>1, <2>3 DEF AfterLast
  <2> QED
    BY <2>2, <2>4
<1>6. ASSUME NEW t \in Trees, t # "event"
      PROVE  MissingIn(f, b, t) = MissingIn(g, o, t)
  <2> DEFINE c == LastTree(g, t)
  <2>1. c \in Within(t) \union {None} /\ LastTree(f, t) = c
    BY <1>1, <1>5, LastIs
  <2> HIDE DEF c
  <2>2. c # None => c \in Trees /\ c # "event"
    BY <2>1, TreesApart
  <2>3. AfterLast(f, b, t) = AfterLast(g, o, t)
        /\ (c # None => AfterLast(f, b, c) = AfterLast(g, o, c) /\ (Incomplete(g, o, c) <=> Incomplete(f, b, c)))
    BY <1>4, <1>5, <1>6, <2>2
  <2> QED
    BY <2>1, <2>3 DEF MissingIn, c
<1>7. ASSUME OnlyLast(g, o, {"event"}), Lacking(g, o, "event")
      PROVE  FirstMissing(g, o) = FirstMissing(f, b)
  <2> DEFINE c == LastTree(g, "event")
  <2>1. c \in Within("event") \union {None} /\ LastTree(f, "event") = c
    BY <1>1, <1>5, LastIs
  <2>2. c # None => c \in Trees /\ c # "event"
    BY <1>1, <2>1, TreesApart
  <2>3. CASE c # None /\ Incomplete(g, o, c)
    <3>1. Incomplete(f, b, c)
      BY <1>4, <2>2, <2>3
    <3>2. MissingIn(f, b, c) = MissingIn(g, o, c)
      BY <1>6, <2>2, <2>3
    <3> QED
      BY <2>1, <2>3, <3>1, <3>2 DEF FirstMissing
  <2>4. CASE ~(c # None /\ Incomplete(g, o, c))
    <3> DEFINE k == Len(g["event"].levels) + 1
    <3>1. k \in 2 .. Len(o["event"])
      BY <1>1, <1>7, <2>4, LackingLast
    <3>2. ~(c # None /\ Incomplete(f, b, c))
      BY <1>4, <2>2, <2>4
    <3>3. FirstMissing(g, o) = o["event"][k] /\ FirstMissing(f, b) = b["event"][k]
      BY <1>1, <2>1, <2>4, <3>2 DEF FirstMissing, AfterLast
    <3> HIDE DEF k
    <3>4. k \in 1 .. Len(b["event"]) /\ k # 1
      BY <1>1, <3>1, SMTT(30) DEF Twin
    <3>5. o["event"][k] = b["event"][k]
      BY <1>1, <3>4 DEF Twin
    <3> QED
      BY <3>3, <3>5
  <2> QED
    BY <2>3, <2>4
<1> QED
  BY <1>2, <1>3, <1>4, <1>7

LEMMA TwinLeast ==
  ASSUME TrimAssumption, NEW b, NEW o, Twin(b, o)
  PROVE  /\ \A t \in Trees : t # "event" => LeastPart(o, t) = LeastPart(b, t)
         /\ \A v : There(o, v) => Least(o, v) = Least(b, v) /\ Least(o, v) \in Nat
<1>1. Shaped(o)
  BY DEF Twin
<1>2. ASSUME NEW t \in Trees, t # "event"
      PROVE  LeastPart(o, t) = LeastPart(b, t)
  <2>1. o[t] = b[t] /\ 1 \in 1 .. Len(o[t])
    BY <1>1, <1>2 DEF Twin, Shaped
  <2>2. o[t][1].tree \in Within(t) \union {None}
    BY <1>1, <2>1 DEF Shaped
  <2>3. o[t][1].tree # None => o[t][1].tree \in Trees /\ o[t][1].tree # "event"
    BY <2>2, TreesApart
  <2>4. o[t][1].tree # None => LeastRecord(o, o[t][1].tree) = LeastRecord(b, o[t][1].tree)
    BY <2>3 DEF Twin, LeastRecord
  <2> QED
    BY <2>1, <2>4 DEF LeastPart
<1>3. ASSUME NEW v, There(o, v)
      PROVE  Least(o, v) = Least(b, v) /\ Least(o, v) \in Nat
  <2>1. Least(o, v) \in Nat /\ v.tree \in Parts \union Records \union {None}
    BY <1>1, <1>3, LeastTyped
  <2>2. v.tree # None => v.tree \in Trees /\ v.tree # "event"
    BY <2>1, TreesApart DEF Trees
  <2>3. v.tree # None => LeastPart(o, v.tree) = LeastPart(b, v.tree)
    BY <1>2, <2>2
  <2>4. Least(o, v) = Least(b, v)
    BY <2>3 DEF Least
  <2> QED
    BY <2>1, <2>4
<1> QED
  BY <1>2, <1>3

(* It is as prudent as it was.                                             *)
LEMMA TwinPrudent ==
  ASSUME TrimAssumption, NEW b, NEW o, Twin(b, o), NEW f, Cut(f, b), Counted(f, b, "event"),
         Prudent(f, b, "event")
  PROVE  Prudent(Marked(f), o, "event")
<1> DEFINE h == Marked(f)
<1>1. /\ Cut(h, o)
      /\ \A t \in Trees : /\ t # "event" => h[t] = f[t] /\ Total(h, t) = Total(f, t)
                          /\ Len(h[t].levels) = Len(f[t].levels)
                          /\ \A p \in 1 .. Len(f[t].levels) : h[t].levels[p].tree = f[t].levels[p].tree
  BY MarkedIs
<1> HIDE DEF h
<1>2. Shaped(b) /\ Shaped(o) /\ "event" \in Trees
  BY TreesApart DEF Twin
<1>3. \A t \in Trees : Incomplete(h, o, t) <=> Incomplete(f, b, t)
  BY <1>1, TwinMissing
<1>4. Below(o, "event") = Below(b, "event")
  <2>1. \A t \in Trees : Children(o[t]) = Children(b[t])
    BY DEF Twin
  <2>2. Children(b["event"]) \subseteq Trees
    BY <1>2, BelowAre
  <2> QED
    BY <1>2, <2>1, <2>2 DEF Below
<1>5. Below(b, "event") \subseteq Trees \ {"event"}
  BY <1>2, BelowAre
<1>6. \A t \in Trees : t # "event" => LeastPart(o, t) = LeastPart(b, t)
  BY TwinLeast
<1>7. AtomicRight(h, o, Below(b, "event"))
  BY <1>1, <1>5, <1>6 DEF Prudent, AtomicRight
<1>8. OnlyLast(h, o, {"event"} \union Below(b, "event"))
  <2> SUFFICES ASSUME NEW t \in {"event"} \union Below(b, "event"), NEW p \in 1 .. Len(h[t].levels) - 1,
                      h[t].levels[p].tree # None
               PROVE  ~Incomplete(h, o, h[t].levels[p].tree)
    BY DEF OnlyLast
  <2>1. t \in Trees
    BY <1>2, <1>5
  <2>2. Len(f[t].levels) \in Nat /\ Len(h[t].levels) = Len(f[t].levels)
    BY <1>1, <1>2, <2>1, CutLevels
  <2>3. p \in 1 .. Len(f[t].levels) - 1 /\ p \in 1 .. Len(f[t].levels)
    BY <2>2
  <2>4. h[t].levels[p].tree = f[t].levels[p].tree
    BY <1>1, <2>1, <2>3
  <2>5. f[t].levels[p].tree \in Within(t) \union {None}
    BY <1>2, <2>1, <2>3, CutLevels
  <2>6. f[t].levels[p].tree \in Trees
    BY <2>1, <2>4, <2>5, TreesApart
  <2>7. ~Incomplete(f, b, f[t].levels[p].tree)
    BY <2>3, <2>4 DEF Prudent, OnlyLast
  <2> QED
    BY <1>3, <2>4, <2>6, <2>7
<1>9. Prudent(h, o, "event")
  BY <1>4, <1>7, <1>8 DEF Prudent
<1> QED
  BY <1>9 DEF h

(* The event that says that it was trimmed is trimmed again.               *)
LEMMA SecondTrim ==
  ASSUME TrimAssumption, NEW b, NEW o, Twin(b, o), NEW f, Cut(f, b), Counted(f, b, "event"),
         \E t \in Linked(f) : Short(f, b, t)
  PROVE  LET g == Trimmed(Marked(f), TRUE)
         IN  /\ Cut(g, o) /\ Counted(g, b, "event") /\ g["event"].len = Total(g, "event")
             /\ g["event"].len <= MaxSize \/ Len(g["event"].levels) = 1
             /\ \E t \in Linked(g) : Short(g, b, t)
             /\ /\ Prudent(f, b, "event")
                /\ Total(f, "event") + Least(b, FirstMissing(f, b)) > MaxSize
                => Total(g, "event") + Least(b, FirstMissing(g, b)) > MaxSize
<1> DEFINE h == Marked(f)
           g == Trimmed(h, TRUE)
<1>1. /\ Cut(h, o) /\ Counted(h, o, "event")
      /\ \A t \in Trees : /\ Len(h[t].levels) = Len(f[t].levels)
                          /\ \A p \in 1 .. Len(f[t].levels) : h[t].levels[p].tree = f[t].levels[p].tree
      /\ Total(h, "event") = Total(f, "event") + MarkLen
  BY MarkedIs
<1>2. g = Trimmed(h, TRUE)
  OBVIOUS
<1>3. Prudent(f, b, "event") => Prudent(h, o, "event")
  BY TwinPrudent
<1> HIDE DEF h, g
<1>4. Shaped(b) /\ Shaped(o) /\ "event" \in Trees
  BY TreesApart DEF Twin
<1>5. /\ Cut(g, o) /\ Counted(g, o, "event") /\ g["event"].len = Total(g, "event")
      /\ \A s \in Trees : Len(g[s].levels) <= Len(h[s].levels)
      /\ g["event"].len <= MaxSize \/ Len(g["event"].levels) = 1
  BY <1>1, <1>2, <1>4, EventCut
<1>6. /\ \A t \in Trees : Children(f[t].levels) = Children(h[t].levels)
      /\ \A t \in Trees : Short(h, o, t) <=> Short(f, b, t)
  BY <1>1, TwinMissing
<1>7. \E t \in Linked(h) : Short(h, o, t)
  <2>1. Children(h["event"].levels) \subseteq Trees /\ Linked(f) \subseteq Trees
    BY <1>1, <1>4, <1>6, LinkedAre DEF Linked
  <2>2. Linked(h) = Linked(f)
    BY <1>4, <1>6, <2>1 DEF Linked
  <2> QED
    BY <1>6, <2>1, <2>2
<1>8. \E t \in Linked(g) : Short(g, o, t)
  BY <1>1, <1>4, <1>5, <1>7, ShortStays
<1>9. \A t \in Trees : Short(g, o, t) <=> Short(g, b, t)
  BY DEF Short, Twin
<1>10. \E t \in Linked(g) : Short(g, b, t)
  <2>1. Linked(g) \subseteq Trees
    BY <1>4, <1>5, LinkedAre
  <2> QED
    BY <1>8, <1>9, <2>1
<1>11. Counted(g, b, "event")
  <2>1. \A t \in Trees : Children(o[t]) = Children(b[t])
    BY DEF Twin
  <2>2. Children(b["event"]) \subseteq Trees
    BY <1>4, BelowAre
  <2> QED
    BY <1>4, <1>5, <2>1, <2>2 DEF Counted
<1>12. ASSUME Prudent(f, b, "event"), Total(f, "event") + Least(b, FirstMissing(f, b)) > MaxSize
       PROVE  Total(g, "event") + Least(b, FirstMissing(g, b)) > MaxSize
  <2>1. Leaner(h, o, "event", MaxSize, g)
    BY <1>1, <1>2, <1>3, <1>4, <1>12, EventLean
  <2>2. Lacking(g, o, "event")
    BY <1>4, <1>5, <1>8, LackingIs
  <2>3. OnlyLast(g, o, {"event"} \union Below(o, "event"))
    BY <2>1 DEF Leaner, Prudent
  <2>4. OnlyLast(g, o, {"event"})
    BY <2>3 DEF OnlyLast
  <2>5. There(o, FirstMissing(g, o))
    BY <1>4, <1>5, <2>2, <2>3, MissingThere DEF Missing
  <2>6. Least(o, FirstMissing(g, o)) = Least(b, FirstMissing(g, o)) /\ Least(o, FirstMissing(g, o)) \in Nat
    BY <2>5, TwinLeast
  <2>7. FirstMissing(g, o) = FirstMissing(g, b)
    BY <1>5, <2>2, <2>4, TwinMissing
  <2>8. CASE \E s \in Trees : Len(g[s].levels) # Len(h[s].levels)
    <3>1. Total(g, "event") + Least(o, Missing(g, o, "event")) > MaxSize
      BY <2>1, <2>8 DEF Leaner
    <3> QED
      BY <2>6, <2>7, <3>1 DEF Missing
  <2>9. CASE ~ \E s \in Trees : Len(g[s].levels) # Len(h[s].levels)
    <3>1. Linked(h) \subseteq Trees
      BY <1>1, <1>4, LinkedAre
    <3>2. Total(g, "event") = Total(h, "event")
      BY <1>1, <1>4, <1>5, <2>9, <3>1, NothingMissing
    <3>3. \A t \in Trees : /\ Len(f[t].levels) = Len(g[t].levels)
                           /\ \A p \in 1 .. Len(g[t].levels) : f[t].levels[p].tree = g[t].levels[p].tree
      <4> SUFFICES ASSUME NEW t \in Trees
                   PROVE  /\ Len(f[t].levels) = Len(g[t].levels)
                          /\ \A p \in 1 .. Len(g[t].levels) : f[t].levels[p].tree = g[t].levels[p].tree
        OBVIOUS
      <4>1. Len(g[t].levels) = Len(h[t].levels) /\ Len(h[t].levels) = Len(f[t].levels)
        BY <1>1, <2>9
      <4>2. \A p \in 1 .. Len(g[t].levels) : g[t].levels[p] = o[t][p]
        BY <1>4, <1>5, CutLevels
      <4>3. \A p \in 1 .. Len(h[t].levels) : h[t].levels[p] = o[t][p]
        BY <1>1, <1>4, CutLevels
      <4> QED
        BY <1>1, <4>1, <4>2, <4>3
    <3>4. FirstMissing(g, o) = FirstMissing(f, b)
      BY <1>5, <2>2, <2>4, <3>3, TwinMissing
    <3>5. Least(b, FirstMissing(f, b)) \in Nat
      BY <2>6, <3>4
    <3>6. Total(f, "event") \in Nat /\ MarkLen \in Nat /\ MaxSize \in Nat
      BY <1>4, TotalLeast DEF TrimAssumption
    <3> DEFINE x == Least(b, FirstMissing(f, b))
               y == Total(f, "event")
    <3>7. Total(g, "event") = y + MarkLen /\ Least(b, FirstMissing(g, b)) = x /\ y + x > MaxSize
      BY <1>1, <1>12, <2>7, <3>2, <3>4
    <3> HIDE DEF x, y
    <3> QED
      BY <3>5, <3>6, <3>7 DEF x, y
  <2> QED
    BY <2>8, <2>9
<1> QED
  BY <1>5, <1>10, <1>11, <1>12 DEF g, h

-----------------------------------------------------------------------------
(* The invariant.                                                          *)

LEMMA CutIs ==
  ASSUME TrimAssumption, NEW b, WellShaped(b), NEW m \in BOOLEAN, NEW f \in Forest
  PROVE  (\A t \in Trees : /\ f[t].levels # <<>>
                           /\ IsPrefix(f[t].levels, IF t = "event" /\ m
                                                    THEN [b[t] EXCEPT ![1].own = @ + MarkLen]
                                                    ELSE b[t]))
         <=> Cut(f, Levels(b, m))
<1> DEFINE o == Levels(b, m)
           L == Level(Trees)
<1>1. \A t \in Trees : o[t] = IF t = "event" /\ m THEN [b[t] EXCEPT ![1].own = @ + MarkLen] ELSE b[t]
  BY DEF Levels
<1>2. \A t \in Trees : o[t] \in Seq(L)
  BY MarkedLevels
<1> HIDE DEF o
<1>3. ASSUME NEW t \in Trees
      PROVE  f[t].levels \in Seq(L)
  BY DEF Forest
<1> HIDE DEF L
<1>4. ASSUME NEW t \in Trees
      PROVE  (f[t].levels # <<>> /\ IsPrefix(f[t].levels, o[t]))
             <=> (/\ Len(f[t].levels) >= 1 /\ Len(f[t].levels) <= Len(o[t])
                  /\ \A p \in 1 .. Len(f[t].levels) : f[t].levels[p] = o[t][p])
  <2> DEFINE s == f[t].levels
             z == o[t]
  <2>1. s \in Seq(L) /\ z \in Seq(L)
    BY <1>2, <1>3
  <2> HIDE DEF s, z
  <2>2. IsPrefix(s, z) <=> (Len(s) <= Len(z) /\ \A p \in 1 .. Len(s) : s[p] = z[p])
    BY <2>1, PrefixIs
  <2>3. s # <<>> <=> Len(s) >= 1
    BY <2>1
  <2>4. (s # <<>> /\ IsPrefix(s, z))
        <=> (Len(s) >= 1 /\ Len(s) <= Len(z) /\ \A p \in 1 .. Len(s) : s[p] = z[p])
    BY <2>2, <2>3
  <2> QED
    BY <2>4 DEF s, z
<1>5. (\A t \in Trees : f[t].levels # <<>> /\ IsPrefix(f[t].levels, o[t])) <=> Cut(f, o)
  BY <1>4 DEF Cut
<1> QED
  BY <1>1, <1>5 DEF o

(* The trees, in every state that is not "ready".                          *)
LEMMA StateIs ==
  ASSUME TrimAssumption, TypeOK, LevelsOK, pc # "ready"
  PROVE  /\ WellShaped(built) /\ Shaped(built) /\ Shaped(Levels(built, marked))
         /\ Cut(tree, Levels(built, marked))
         /\ Present(Levels(built, marked)) = Present(built)
         /\ ~marked => Cut(tree, built)
         /\ \A t \in Trees : Short(tree, Levels(built, marked), t) <=> Short(tree, built, t)
<1> DEFINE o == Levels(built, marked)
<1>1. WellShaped(built) /\ tree \in Forest /\ marked \in BOOLEAN
  BY DEF TypeOK, LevelsOK
<1>2. Cut(tree, o)
  <2>1. \A t \in Trees : /\ tree[t].levels # <<>>
                         /\ IsPrefix(tree[t].levels, IF t = "event" /\ marked
                                                     THEN [built[t] EXCEPT ![1].own = @ + MarkLen]
                                                     ELSE built[t])
    BY DEF LevelsOK, Original
  <2> QED
    BY <1>1, <2>1, CutIs
<1>3. /\ WellShaped(o)
      /\ \A t \in Trees : Len(o[t]) = Len(built[t]) /\ \A p \in 1 .. Len(built[t]) : o[t][p].tree = built[t][p].tree
      /\ ~marked => \A t \in Trees : o[t] = built[t]
  BY <1>1, MarkedLevels
<1>4. Shaped(built) /\ Shaped(o)
  BY <1>1, <1>3, WellShapedShaped
<1> HIDE DEF o
<1>5. \A t \in Trees : Children(o[t]) = Children(built[t])
  BY <1>3, SMTT(30) DEF Children
<1>6. Present(o) = Present(built)
  <2>1. "event" \in Trees /\ Children(built["event"]) \subseteq Trees
    BY <1>4, ChildrenAre, TreesApart
  <2> QED
    BY <1>5, <2>1 DEF Present
<1>7. ~marked => Cut(tree, built)
  BY <1>2, <1>3 DEF Cut
<1>8. \A t \in Trees : Short(tree, o, t) <=> Short(tree, built, t)
  BY <1>3 DEF Short
<1> QED
  BY <1>1, <1>2, <1>4, <1>6, <1>7, <1>8 DEF o

(* When only the header is left, it is the length of the event.            *)
LEMMA HeaderLeft ==
  ASSUME TrimAssumption, NEW o, Shaped(o), NEW f, Cut(f, o),
         Total(f, "event") <= MaxSize \/ Len(f["event"].levels) = 1
  PROVE  \/ Total(f, "event") <= MaxSize
         \/ Len(f["event"].levels) = 1 /\ f["event"].levels[1].own > MaxSize
<1>1. "event" \in Trees
  BY TreesApart
<1>2. CASE Total(f, "event") <= MaxSize
  BY <1>2
<1>3. CASE ~(Total(f, "event") <= MaxSize)
  <2>1. Len(f["event"].levels) = 1
    BY <1>3
  <2>2. Total(f, "event") = LevelLen(f, f["event"].levels[1]) /\ Total(f, "event") \in Nat
    BY <1>1, <2>1, TotalLeast DEF Total
  <2>3. f["event"].levels[1] = o["event"][1] /\ f["event"].levels[1].own \in Nat
    BY <1>1, <2>1, CutLevels
  <2>4. o["event"][1].tree = None
    BY <1>1 DEF Shaped
  <2>5. LevelLen(f, f["event"].levels[1]) = f["event"].levels[1].own
    BY <2>3, <2>4 DEF LevelLen
  <2>6. MaxSize \in Nat
    BY DEF TrimAssumption
  <2> QED
    BY <1>3, <2>1, <2>2, <2>5, <2>6
<1> QED
  BY <1>2, <1>3

(* The program begins in it.                                               *)
LEMMA InitInv ==
  ASSUME TrimAssumption, Init
  PROVE  TrimInv
<1>1. TypeOK
  <2> DEFINE S == Seq(Level(Trees))
  <2>1. <<>> \in S
    OBVIOUS
  <2> HIDE DEF S
  <2>2. /\ tree \in [Trees -> [levels : S, len : Nat, atomic : BOOLEAN]]
        /\ built \in [Trees -> S]
    BY <2>1 DEF Init
  <2> QED
    BY <2>2 DEF Init, TypeOK, Forest, S
<1>2. LevelsOK /\ LengthsOK /\ MarkOK
  BY DEF Init, LevelsOK, LengthsOK, MarkOK
<1>3. FreshOK
  BY DEF Init, FreshOK
<1> QED
  BY <1>1, <1>2, <1>3 DEF TrimInv

(* What is built is well shaped.                                           *)
LEMMA BuiltIs ==
  ASSUME TrimAssumption, NEW h \in HeaderLens, NEW text \in TextShapes, NEW data \in DataShapes,
         NEW record \in [Records -> RecordShapes], NEW norm \in NormShapes,
         NEW present \in {{"text", "data"}, {"text"}, {"data"}}, NEW with_norm \in BOOLEAN,
         NEW at, at = [t \in {"text", "data"} |-> IF t \in present THEN Node(0, t) ELSE Absent],
         NEW event, event = <<Leaf(h), at["text"], at["data"],
                              IF with_norm THEN Node(0, "norm") ELSE Absent>>,
         NEW b, b = [t \in Trees |-> CASE t = "event" -> event [] t = "text" -> text
                                       [] t = "data" -> data [] t = "norm" -> norm
                                       [] OTHER -> record[t]]
  PROVE  WellShaped(b)
<1>1. /\ h \in Nat /\ h > 0
      /\ text \in ShapesOf({}) /\ norm \in ShapesOf({}) /\ data \in ShapesOf(Records)
      /\ \A t \in Records : record[t] \in ShapesOf({})
  <2> HIDE DEF ShapesOf
  <2> QED
    BY DEF TrimAssumption
<1>2. /\ Leaf(h) \in Level(Parts) /\ Absent \in Level(Parts)
      /\ at["text"] \in Level(Parts) /\ at["data"] \in Level(Parts) /\ Node(0, "norm") \in Level(Parts)
  BY <1>1 DEF Leaf, Node, Absent, Level, Parts
<1>3. event \in Seq(Level(Parts)) /\ Len(event) = 4
  <2> DEFINE L == Level(Parts)
             x == IF with_norm THEN Node(0, "norm") ELSE Absent
             u == at["text"]
             v == at["data"]
             w == Leaf(h)
  <2>1. u \in L /\ v \in L /\ w \in L /\ x \in L
    BY <1>2
  <2>2. event = <<w, u, v, x>>
    OBVIOUS
  <2> HIDE DEF L, x, u, v, w
  <2>3. event \in Seq(L) /\ Len(event) = 4
    BY <2>1, <2>2
  <2> QED
    BY <2>3 DEF L
<1>4. /\ event[1].own = h /\ event[1].tree = None
      /\ event[2].tree = IF "text" \in present THEN "text" ELSE None
      /\ event[3].tree = IF "data" \in present THEN "data" ELSE None
      /\ event[4].tree \in {None, "norm"}
  BY DEF Leaf, Node, Absent
<1>5. "text" \in present \/ "data" \in present
  OBVIOUS
<1>6. EventShape(event)
  BY <1>1, <1>3, <1>4, <1>5 DEF EventShape, None
<1>7. "event" \in Trees /\ b["event"] = event
  BY TreesApart
<1>8. ASSUME NEW t \in Trees \ {"event"}
      PROVE  b[t] \in ShapesOf(Within(t))
  <2>1. "event" # "text" /\ "event" # "data" /\ "event" # "norm" /\ "text" # "data" /\ "text" # "norm"
        /\ "data" # "norm"
    OBVIOUS
  <2>2. CASE t = "text"
    BY <1>1, <2>2 DEF Within
  <2>3. CASE t = "data"
    BY <1>1, <2>3 DEF Within
  <2>4. CASE t = "norm"
    BY <1>1, <2>4 DEF Within
  <2>5. CASE t \notin Parts
    <3>1. t \in Records /\ t # "text" /\ t # "data" /\ t # "norm"
      BY <2>5 DEF Trees, Parts
    <3>2. b[t] = record[t] /\ Within(t) = {}
      BY <3>1 DEF Within
    <3> QED
      BY <1>1, <3>1, <3>2
  <2> QED
    BY <2>2, <2>3, <2>4, <2>5 DEF Parts
<1> QED
  BY <1>6, <1>7, <1>8 DEF WellShaped

LEMMA WellShapedTyped ==
  ASSUME TrimAssumption, NEW b, WellShaped(b), NEW t \in Trees
  PROVE  b[t] \in Seq(Level(Trees)) /\ b[t] # <<>> /\ IsPrefix(b[t], b[t])
<1>1. b[t] \in Seq(Level(Trees)) /\ Len(b[t]) >= 1
  BY WellShapedShaped DEF Shaped
<1> DEFINE L == Level(Trees)
           s == b[t]
<1>2. s \in Seq(L) /\ Len(s) >= 1
  BY <1>1
<1> HIDE DEF L, s
<1>3. s # <<>> /\ IsPrefix(s, s)
  BY <1>2, PrefixIs
<1> QED
  BY <1>1, <1>3 DEF s

LEMMA BuildInv ==
  ASSUME TrimAssumption, TrimInv, Build
  PROVE  TrimInv'
<1>1. WellShaped(built')
  <2>1. PICK h \in HeaderLens, text \in TextShapes, data \in DataShapes,
             record \in [Records -> RecordShapes], norm \in NormShapes,
             present \in {{"text", "data"}, {"text"}, {"data"}}, with_norm \in BOOLEAN :
          LET at(t) == IF t \in present THEN Node(0, t) ELSE Absent
              event == <<Leaf(h), at("text"), at("data"),
                         IF with_norm THEN Node(0, "norm") ELSE Absent>>
          IN  built' = [t \in Trees |-> CASE t = "event" -> event [] t = "text" -> text
                                          [] t = "data" -> data [] t = "norm" -> norm
                                          [] OTHER -> record[t]]
    BY DEF Build
  <2> DEFINE at == [t \in {"text", "data"} |-> IF t \in present THEN Node(0, t) ELSE Absent]
             event == <<Leaf(h), at["text"], at["data"],
                        IF with_norm THEN Node(0, "norm") ELSE Absent>>
  <2>2. built' = [t \in Trees |-> CASE t = "event" -> event [] t = "text" -> text
                                    [] t = "data" -> data [] t = "norm" -> norm
                                    [] OTHER -> record[t]]
    BY <2>1
  <2> HIDE DEF event, at
  <2>3. at = [t \in {"text", "data"} |-> IF t \in present THEN Node(0, t) ELSE Absent]
    BY DEF at
  <2>4. event = <<Leaf(h), at["text"], at["data"], IF with_norm THEN Node(0, "norm") ELSE Absent>>
    BY DEF event
  <2> QED
    BY <2>2, <2>3, <2>4, BuiltIs, SMTT(60)
<1>2. /\ pc = "ready" /\ pc' = "built" /\ marked' = FALSE /\ fresh' = fresh
      /\ tree' = [t \in Trees |-> [tree[t] EXCEPT !.levels = built'[t]]]
  BY DEF Build
<1>3. \A t \in Trees : built'[t] \in Seq(Level(Trees)) /\ built'[t] # <<>> /\ IsPrefix(built'[t], built'[t])
  BY <1>1, WellShapedTyped
<1> DEFINE L == Level(Trees)
           S == Seq(L)
           R == [levels : S, len : Nat, atomic : BOOLEAN]
<1>4. tree \in [Trees -> R]
  BY DEF TrimInv, TypeOK, Forest
<1>5. \A t \in Trees : tree'[t] \in R /\ tree'[t].levels = built'[t] /\ tree'[t].atomic = tree[t].atomic
  <2>1. \A t \in Trees : tree'[t] = [tree[t] EXCEPT !.levels = built'[t]]
    BY <1>2
  <2> HIDE DEF S
  <2>2. ASSUME NEW t \in Trees
        PROVE  tree[t] \in R /\ built'[t] \in S
    <3> HIDE DEF R
    <3> QED
      BY <1>3, <1>4 DEF S
  <2>3. ASSUME NEW r \in R, NEW z \in S, NEW u, u = [r EXCEPT !.levels = z]
        PROVE  u \in R /\ u.levels = z /\ u.atomic = r.atomic
    BY <2>3
  <2> HIDE DEF R
  <2> SUFFICES ASSUME NEW t \in Trees
               PROVE  tree'[t] \in R /\ tree'[t].levels = built'[t] /\ tree'[t].atomic = tree[t].atomic
    OBVIOUS
  <2> DEFINE r == tree[t]
             z == built'[t]
             u == tree'[t]
  <2>4. r \in R /\ z \in S /\ u = [r EXCEPT !.levels = z]
    BY <2>1, <2>2
  <2> HIDE DEF r, z, u
  <2>5. u \in R /\ u.levels = z /\ u.atomic = r.atomic
    BY <2>3, <2>4
  <2> QED
    BY <2>5 DEF r, z, u
<1>6. tree' \in Forest
  <2>1. tree' \in [Trees -> R]
    <3> HIDE DEF R
    <3> QED
      BY <1>2, <1>5
  <2> QED
    BY <2>1 DEF Forest
<1>7. built' \in [Trees -> Seq(Level(Trees))]
  <2>1. built' = [t \in Trees |-> built'[t]]
    BY DEF Build
  <2> QED
    BY <1>3, <2>1
<1>8. TypeOK'
  BY <1>2, <1>6, <1>7 DEF TrimInv, TypeOK
<1>9. LevelsOK'
  BY <1>1, <1>2, <1>3, <1>5 DEF LevelsOK, Original
<1>10. LengthsOK' /\ MarkOK'
  BY <1>2 DEF LengthsOK, MarkOK
<1>11. FreshOK'
  BY <1>2, <1>5 DEF TrimInv, FreshOK
<1> QED
  BY <1>8, <1>9, <1>10, <1>11 DEF TrimInv

LEMMA TrimEventInv ==
  ASSUME TrimAssumption, TrimInv, TrimEvent
  PROVE  TrimInv'
<1> DEFINE m == Measured(tree)
           g == Trimmed(m, FALSE)
<1>1. /\ TypeOK /\ LevelsOK /\ MarkOK /\ FreshOK
      /\ pc = "built" /\ ~marked /\ marked' = FALSE /\ built' = built /\ fresh' = fresh
      /\ tree' = g
      /\ pc' \in AssertFits(g, IF g["event"].len < m["event"].len THEN "trimmed" ELSE "done")
  <2>1. pc = "built" /\ UNCHANGED <<marked, built, fresh>> /\ tree' = g
        /\ pc' \in AssertFits(g, IF g["event"].len < m["event"].len THEN "trimmed" ELSE "done")
    BY DEF TrimEvent
  <2>2. marked = FALSE
    BY <2>1 DEF TrimInv, MarkOK, TypeOK
  <2> HIDE DEF g, m
  <2> QED
    BY <2>1, <2>2 DEF TrimInv
<1>2. WellShaped(built) /\ Cut(tree, built) /\ \A t \in Trees : tree[t].levels = built[t]
  BY <1>1, StateIs DEF LevelsOK
<1>3. /\ Cut(g, built) /\ Counted(g, built, "event") /\ g["event"].len = Total(g, "event")
      /\ g["event"].len <= MaxSize \/ Len(g["event"].levels) = 1
      /\ (g["event"].len < m["event"].len) <=> \E t \in Linked(g) : Short(g, built, t)
  BY <1>2, FirstTrim
<1>4. (\A t \in Trees : ~tree[t].atomic) =>
         /\ Prudent(g, built, "event")
         /\ (\E t \in Linked(g) : Short(g, built, t)) =>
              Total(g, "event") + Least(built, FirstMissing(g, built)) > MaxSize
  BY <1>2, FirstTrim
<1> HIDE DEF g, m
<1> DEFINE trimmed == g["event"].len < m["event"].len
<1>5. pc' \in {"trimmed", "done", "aborted"} /\ (pc' = "trimmed" => trimmed) /\ (pc' = "done" => ~trimmed)
  BY <1>1 DEF AssertFits
<1>6. TypeOK'
  <2>1. g \in Forest
    BY <1>3 DEF Cut
  <2> QED
    BY <1>1, <1>5, <2>1 DEF TypeOK
<1>7. LevelsOK'
  <2>1. \A t \in Trees : Levels(built, FALSE)[t] = built[t]
    BY DEF Levels
  <2>2. Cut(g, Levels(built, FALSE)) /\ g \in Forest
    BY <1>3, <2>1 DEF Cut
  <2>3. \A t \in Trees : g[t].levels # <<>> /\ IsPrefix(g[t].levels, built[t])
    BY <1>2, <2>2, CutIs
  <2> QED
    BY <1>1, <1>2, <1>5, <2>3 DEF LevelsOK, Original
<1>8. LengthsOK'
  <2>1. \A t \in Present(built) : g[t].len = Total(g, t)
    BY <1>3, PresentCounted
  <2>2. \/ Total(g, "event") <= MaxSize
        \/ Len(g["event"].levels) = 1 /\ g["event"].levels[1].own > MaxSize
    BY <1>2, <1>3, WellShapedShaped, HeaderLeft
  <2> QED
    BY <1>1, <2>1, <2>2 DEF LengthsOK
<1>9. MarkOK'
  BY <1>1, <1>3, <1>5 DEF MarkOK
<1>10. FreshOK'
  <2> SUFFICES ASSUME fresh
               PROVE  FreshOK'
    BY <1>1 DEF FreshOK
  <2>1. \A t \in Trees : ~tree[t].atomic
    BY <1>1 DEF FreshOK
  <2>2. Present(built) = Below(built, "event")
    BY DEF Present, Below
  <2>3. AtomicRight(g, built, Present(built)) /\ OnlyLast(g, built, Present(built) \union {"event"})
    BY <1>4, <2>1, <2>2 DEF Prudent, OnlyLast
  <2>4. trimmed => Total(g, "event") + Least(built, FirstMissing(g, built)) > MaxSize
    BY <1>3, <1>4, <2>1
  <2> HIDE DEF trimmed
  <2> QED
    BY <1>1, <1>5, <2>3, <2>4 DEF FreshOK
<1> QED
  BY <1>6, <1>7, <1>8, <1>9, <1>10 DEF TrimInv

LEMMA MarkAndTrimInv ==
  ASSUME TrimAssumption, TrimInv, MarkAndTrim
  PROVE  TrimInv'
<1> DEFINE g == Trimmed(Marked(tree), TRUE)
           o == Levels(built, TRUE)
<1>1. /\ TypeOK /\ LevelsOK /\ LengthsOK /\ MarkOK /\ FreshOK
      /\ pc = "trimmed" /\ ~marked /\ marked' = TRUE /\ built' = built /\ fresh' = fresh
      /\ tree' = g /\ pc' \in AssertFits(g, "done")
  <2>1. pc = "trimmed" /\ UNCHANGED <<built, fresh>> /\ tree' = g /\ marked' = TRUE
        /\ pc' \in AssertFits(g, "done")
    BY DEF MarkAndTrim
  <2>2. marked = FALSE
    BY <2>1 DEF TrimInv, MarkOK, TypeOK
  <2> HIDE DEF g
  <2> QED
    BY <2>1, <2>2 DEF TrimInv
<1>2. WellShaped(built) /\ Cut(tree, built)
  BY <1>1, StateIs
<1>3. Twin(built, o)
  BY <1>2, MarkedTwin
<1>4. Counted(tree, built, "event") /\ \E t \in Linked(tree) : Short(tree, built, t)
  BY <1>1, PresentCounted DEF LengthsOK, MarkOK
<1> HIDE DEF o
<1>5. /\ Cut(g, o) /\ Counted(g, built, "event") /\ g["event"].len = Total(g, "event")
      /\ g["event"].len <= MaxSize \/ Len(g["event"].levels) = 1
      /\ \E t \in Linked(g) : Short(g, built, t)
      /\ /\ Prudent(tree, built, "event")
         /\ Total(tree, "event") + Least(built, FirstMissing(tree, built)) > MaxSize
         => Total(g, "event") + Least(built, FirstMissing(g, built)) > MaxSize
  BY <1>2, <1>3, <1>4, SecondTrim
<1> HIDE DEF g
<1>6. pc' \in {"done", "aborted"}
  BY <1>1 DEF AssertFits
<1>7. TypeOK'
  <2>1. g \in Forest
    BY <1>5 DEF Cut
  <2> QED
    BY <1>1, <1>6, <2>1 DEF TypeOK
<1>8. LevelsOK'
  <2>1. g \in Forest
    BY <1>5 DEF Cut
  <2>2. \A t \in Trees : /\ g[t].levels # <<>>
                         /\ IsPrefix(g[t].levels, IF t = "event"
                                                  THEN [built[t] EXCEPT ![1].own = @ + MarkLen]
                                                  ELSE built[t])
    BY <1>2, <1>5, <2>1, CutIs DEF o
  <2> QED
    BY <1>1, <1>2, <1>6, <2>2 DEF LevelsOK, Original
<1>9. LengthsOK'
  <2>1. \A t \in Present(built) : g[t].len = Total(g, t)
    BY <1>5, PresentCounted
  <2>2. \/ Total(g, "event") <= MaxSize
        \/ Len(g["event"].levels) = 1 /\ g["event"].levels[1].own > MaxSize
    BY <1>3, <1>5, HeaderLeft DEF Twin
  <2> QED
    BY <1>1, <2>1, <2>2 DEF LengthsOK
<1>10. MarkOK'
  BY <1>1, <1>5, <1>6 DEF MarkOK
<1>11. FreshOK'
  <2> SUFFICES ASSUME fresh
               PROVE  FreshOK'
    BY <1>1 DEF FreshOK
  <2>1. Present(built) = Below(built, "event")
    BY DEF Present, Below
  <2>2. /\ AtomicRight(tree, built, Present(built)) /\ OnlyLast(tree, built, Present(built) \union {"event"})
        /\ Total(tree, "event") + Least(built, FirstMissing(tree, built)) > MaxSize
    BY <1>1 DEF FreshOK
  <2>3. Prudent(tree, built, "event")
    BY <2>1, <2>2 DEF Prudent, OnlyLast
  <2>4. Total(g, "event") + Least(built, FirstMissing(g, built)) > MaxSize
    BY <1>5, <2>2, <2>3
  <2> QED
    BY <1>1, <1>6, <2>4 DEF FreshOK
<1> QED
  BY <1>7, <1>8, <1>9, <1>10, <1>11 DEF TrimInv

LEMMA RenderInv ==
  ASSUME TrimInv, Render
  PROVE  TrimInv'
<1>1. /\ pc' = "ready" /\ fresh' = FALSE /\ marked' = FALSE
      /\ tree' = [t \in Trees |-> [tree[t] EXCEPT !.levels = <<>>]]
      /\ built' = [t \in Trees |-> <<>>]
  BY DEF Render
<1> DEFINE S == Seq(Level(Trees))
           R == [levels : S, len : Nat, atomic : BOOLEAN]
<1>2. tree \in [Trees -> R]
  BY DEF TrimInv, TypeOK, Forest
<1>3. <<>> \in S
  OBVIOUS
<1>4. tree' \in [Trees -> R]
  <2> HIDE DEF S
  <2>1. \A t \in Trees : [tree[t] EXCEPT !.levels = <<>>] \in R
    BY <1>2, <1>3
  <2> HIDE DEF R
  <2> QED
    BY <1>1, <2>1
<1>5. built' \in [Trees -> S]
  BY <1>1, <1>3
<1>6. TypeOK'
  BY <1>1, <1>4, <1>5 DEF TypeOK, Forest
<1> QED
  BY <1>1, <1>6 DEF TrimInv, LevelsOK, LengthsOK, MarkOK, FreshOK

LEMMA UnchangedInv ==
  ASSUME TrimInv, UNCHANGED vars
  PROVE  TrimInv'
BY DEF TrimInv, vars, TypeOK, LevelsOK, LengthsOK, MarkOK, FreshOK, Original, Present

LEMMA StepInv ==
  ASSUME TrimAssumption, TrimInv, [Next]_vars
  PROVE  TrimInv'
<1>1. CASE Build
  BY <1>1, BuildInv
<1>2. CASE TrimEvent
  BY <1>2, TrimEventInv
<1>3. CASE MarkAndTrim
  BY <1>3, MarkAndTrimInv
<1>4. CASE Render
  BY <1>4, RenderInv
<1>5. CASE UNCHANGED vars
  BY <1>5, UnchangedInv
<1> QED
  BY <1>1, <1>2, <1>3, <1>4, <1>5 DEF Next

(* In every state that the trees can be in, whatever their shapes, however *)
(* many collectors have trees, and whatever the size that is asked for:    *)
(* levels go from the end only, the cached lengths of what was in the      *)
(* event are right once it was trimmed, it says that it was trimmed only   *)
(* when something is missing, and in the first event what counts as atomic *)
(* is no longer than it has to be.                                         *)
THEOREM TrimInvariant == Spec => []TrimInv
<1>1. Init => TrimInv
  BY TrimAssumption, InitInv
<1>2. TrimInv /\ [Next]_vars => TrimInv'
  BY TrimAssumption, StepInv
<1> QED
  BY <1>1, <1>2, PTL DEF Spec

(* What aushape_conv_buf_add_event renders never has a level without all   *)
(* the levels of a higher priority that were built in the same tree, and   *)
(* every tree that is rendered has its level zero: aushape_gbtree_trim     *)
(* takes levels from the end only, and never all of them.                  *)
THEOREM TrimKeptDownward == Spec => []KeptDownward
<1>1. TrimInv => KeptDownward
  <2> SUFFICES ASSUME TrimInv, pc = "done"
               PROVE  \A t \in Linked(tree) :
                        tree[t].levels # <<>> /\ IsPrefix(tree[t].levels, Original(t))
    BY DEF KeptDownward
  <2>1. TypeOK /\ LevelsOK
    BY DEF TrimInv
  <2>2. Linked(tree) \subseteq Trees
    BY <2>1, TrimAssumption, StateIs, LinkedAre
  <2> QED
    BY <2>1, <2>2 DEF LevelsOK
<1> QED
  BY <1>1, TrimInvariant, PTL

(* The event that is rendered is no longer than max_event_size, measured   *)
(* anew, also when it was marked after trimming; unless its header alone   *)
(* is longer, and then only that is left. That is when the assertion in    *)
(* aushape_conv_buf_add_event fails, and never otherwise.                  *)
THEOREM TrimFits == Spec => []Fits
<1>1. TrimInv => Fits
  <2> SUFFICES ASSUME TrimInv, pc \in {"done", "aborted"}
               PROVE  \/ Measured(tree)["event"].len <= MaxSize
                      \/ Len(tree["event"].levels) = 1 /\ tree["event"].levels[1].own > MaxSize
    BY DEF Fits
  <2> DEFINE o == Levels(built, marked)
  <2>1. TypeOK /\ LevelsOK /\ LengthsOK
    BY DEF TrimInv
  <2>2. Shaped(o) /\ Cut(tree, o) /\ Present(o) = Present(built)
    BY <2>1, TrimAssumption, StateIs
  <2> HIDE DEF o
  <2>3. \A t \in Linked(tree) : t # "event" => tree[t].len = Total(tree, t)
    <3>1. Linked(tree) \subseteq {"event"} \union Present(built)
      BY <2>2, TrimAssumption, LinkedAre
    <3> QED
      BY <2>1, <3>1 DEF LengthsOK
  <2>4. Measured(tree)["event"].len = Total(tree, "event")
    BY <2>2, <2>3, TrimAssumption, MeasuredIs
  <2> QED
    BY <2>1, <2>4 DEF LengthsOK
<1> QED
  BY <1>1, TrimInvariant, PTL

(* The comparison of the length before and after, by which                 *)
(* aushape_conv_buf_add_event decides on the mark, is right: the event has *)
(* it if, and only if, some tree that is rendered lacks a level.           *)
THEOREM TrimMarkedRight == Spec => []MarkedRight
<1>1. TrimInv => MarkedRight
  BY DEF TrimInv, MarkOK, MarkedRight
<1> QED
  BY <1>1, TrimInvariant, PTL

(* In the first event, nothing is voided that could have been kept: with   *)
(* the least that is left of the first level missing, when that is trimmed *)
(* as much as it can be, the event would be too long. Later events trust   *)
(* what the caches say of the trees of earlier ones, and are excluded.     *)
THEOREM TrimFirstVoidsLowestPriority == Spec => []FirstVoidsLowestPriority
<1>1. TrimInv => FirstVoidsLowestPriority
  <2> SUFFICES ASSUME TrimInv, fresh, pc = "done", marked
               PROVE  Measured(tree)["event"].len + Least(built, FirstMissing(tree, built)) > MaxSize
    BY DEF FirstVoidsLowestPriority, VoidsLowestPriority
  <2> DEFINE o == Levels(built, marked)
  <2>1. TypeOK /\ LevelsOK /\ LengthsOK /\ FreshOK
    BY DEF TrimInv
  <2>2. Shaped(o) /\ Cut(tree, o) /\ Present(o) = Present(built)
    BY <2>1, TrimAssumption, StateIs
  <2> HIDE DEF o
  <2>3. \A t \in Linked(tree) : t # "event" => tree[t].len = Total(tree, t)
    <3>1. Linked(tree) \subseteq {"event"} \union Present(built)
      BY <2>2, TrimAssumption, LinkedAre
    <3> QED
      BY <2>1, <3>1 DEF LengthsOK
  <2>4. Measured(tree)["event"].len = Total(tree, "event")
    BY <2>2, <2>3, TrimAssumption, MeasuredIs
  <2>5. Total(tree, "event") + Least(built, FirstMissing(tree, built)) > MaxSize
    BY <2>1 DEF FreshOK
  <2> QED
    BY <2>4, <2>5
<1> QED
  BY <1>1, TrimInvariant, PTL
=============================================================================
