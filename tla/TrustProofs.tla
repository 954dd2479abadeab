---------------------------- MODULE TrustProofs ----------------------------
(***************************************************************************)
(* The trust of any number of nodes, for any transactions.  Trust computes *)
(* it with folds: sums over the pairs of a node, a product of denominators,*)
(* and two folds over allNodes in the order in which the nodes were built. *)
(* A fold is a function defined by recursion on sets, so that there is one *)
(* has to be shown first (FoldExists); from then on a sum is what IsSum    *)
(* says of it, and a fold over allNodes is a function on 0..NUM_NODES that *)
(* takes one turn after the other (DirectSteps, GlobalSteps).  Every proof *)
(* about a round of trust is then an induction over the turns, and every   *)
(* proof about a run takes the round as one step.                          *)
(***************************************************************************)
EXTENDS Trust, FiniteSetTheorems, TLAPS

----------------------------------------------------------------------------
(* Induction, for sets instead of predicates.                              *)

\* The numbers that are not in the set would have a least one.
LEMMA NaturalsInSet ==
  ASSUME NEW S, 0 \in S, \A k \in Nat : k \in S => k + 1 \in S
  PROVE  Nat \subseteq S
<1> DEFINE R == OpToRel(<, Nat)
           T == Nat \ S
<1>1. SUFFICES ASSUME T # {} PROVE FALSE
  OBVIOUS
<1>2. IsWellFoundedOn(R, Nat)
  BY NatLessThanWellFounded
<1>3. T \subseteq Nat
  OBVIOUS
<1> HIDE DEF R, T
<1>4. PICK k \in T : \A j \in T : <<j, k>> \notin R
  BY <1>1, <1>2, <1>3, WFMin
<1>5. k \in Nat /\ k \notin S /\ k # 0
  BY <1>4 DEF T
<1>6. k - 1 \in Nat /\ k = (k - 1) + 1
  BY <1>5
<1>7. k - 1 \in T
  BY <1>5, <1>6 DEF T
<1>8. <<k - 1, k>> \in R
  BY <1>5, <1>6 DEF R, OpToRel
<1> QED BY <1>4, <1>7, <1>8

\* A set of numbers has a least one.
LEMMA LeastExists ==
  ASSUME NEW T \in SUBSET Nat, T # {}
  PROVE  /\ Min(T) \in T
         /\ \A k \in T : Min(T) <= k
<1> DEFINE R == OpToRel(<, Nat)
<1>1. IsWellFoundedOn(R, Nat)
  BY NatLessThanWellFounded
<1> HIDE DEF R
<1>2. PICK k \in T : \A j \in T : <<j, k>> \notin R
  BY <1>1, WFMin
<1>3. ASSUME NEW j \in T PROVE k <= j
  <2>1. j \in Nat /\ k \in Nat /\ <<j, k>> \notin R
    BY <1>2
  <2> QED BY <2>1 DEF R, OpToRel
<1> QED BY <1>3 DEF Min

\* A set that holds every subset of S whose smaller subsets it holds, holds
\* all subsets of S.
LEMMA SubsetsInSet ==
  ASSUME NEW S, IsFiniteSet(S), NEW P,
         \A s \in SUBSET S : (\A t \in SUBSET s : t # s => t \in P) => s \in P
  PROVE  SUBSET S \subseteq P
<1> DEFINE K == {k \in Nat : \A s \in SUBSET S : Cardinality(s) <= k => s \in P}
<1>1. ASSUME NEW s \in SUBSET S
      PROVE  /\ IsFiniteSet(s) /\ Cardinality(s) \in Nat
             /\ \A t \in SUBSET s : /\ t \in SUBSET S /\ IsFiniteSet(t) /\ Cardinality(t) \in Nat
                                    /\ t # s => Cardinality(t) < Cardinality(s)
  <2>1. IsFiniteSet(s) /\ Cardinality(s) \in Nat
    BY FS_Subset, FS_CardinalityType
  <2>2. ASSUME NEW t \in SUBSET s
        PROVE  /\ t \in SUBSET S /\ IsFiniteSet(t) /\ Cardinality(t) \in Nat
               /\ t # s => Cardinality(t) < Cardinality(s)
    BY <2>1, FS_Subset, FS_CardinalityType
  <2> QED BY <2>1, <2>2
<1>2. 0 \in K
  <2> SUFFICES ASSUME NEW s \in SUBSET S, Cardinality(s) <= 0 PROVE s \in P
    OBVIOUS
  <2>1. ASSUME NEW t \in SUBSET s PROVE t = s
    <3>1. /\ Cardinality(s) \in Nat /\ Cardinality(t) \in Nat
          /\ t # s => Cardinality(t) < Cardinality(s)
      BY <1>1
    <3> QED BY <3>1
  <2>2. \A t \in SUBSET s : t # s => t \in P
    BY <2>1
  <2> QED BY <2>2
<1>3. ASSUME NEW k \in Nat, k \in K PROVE k + 1 \in K
  <2> SUFFICES ASSUME NEW s \in SUBSET S, Cardinality(s) <= k + 1 PROVE s \in P
    OBVIOUS
  <2>1. ASSUME NEW t \in SUBSET s, t # s PROVE t \in P
    <3>1. /\ Cardinality(s) \in Nat /\ Cardinality(t) \in Nat /\ t \in SUBSET S
          /\ Cardinality(t) < Cardinality(s)
      BY <1>1, <2>1
    <3>2. Cardinality(t) <= k
      BY <3>1
    <3> QED BY <1>3, <3>1, <3>2
  <2> QED BY <2>1
<1>4. Nat \subseteq K
  <2> HIDE DEF K
  <2> QED BY <1>2, <1>3, NaturalsInSet
<1>5. ASSUME NEW s \in SUBSET S PROVE s \in P
  <2>1. Cardinality(s) \in Nat
    BY <1>1
  <2>2. Cardinality(s) \in K
    BY <1>4, <2>1
  <2> QED BY <2>1, <2>2
<1> QED BY <1>5

----------------------------------------------------------------------------
(* Folds.  A fold over the finite set S is a recursive function on its     *)
(* subsets; that there is one must be shown.  Values are drawn from V, pick *)
(* says which element goes next and step what it does to the value.        *)

IsFold(S, V, pick, base, step, g) ==
    /\ g \in [SUBSET S -> V]
    /\ \A s \in SUBSET S :
          g[s] = IF s = {} THEN base ELSE step[<<pick[s], g[s \ {pick[s]}]>>]

\* There is such a function: it is built up by the size of the subsets.
LEMMA FoldExists ==
  ASSUME NEW S, IsFiniteSet(S), NEW V, NEW base \in V, NEW pick,
         \A s \in SUBSET S : s # {} => pick[s] \in s,
         NEW step \in [S \X V -> V]
  PROVE  \E g : IsFold(S, V, pick, base, step, g)
<1> DEFINE Upto(g, k) == \A s \in SUBSET S : Cardinality(s) <= k =>
              g[s] = IF s = {} THEN base ELSE step[<<pick[s], g[s \ {pick[s]}]>>]
           K == {k \in Nat : \E g \in [SUBSET S -> V] : Upto(g, k)}
<1>1. ASSUME NEW s \in SUBSET S
      PROVE  /\ IsFiniteSet(s) /\ Cardinality(s) \in Nat /\ Cardinality(s) <= Cardinality(S)
             /\ Cardinality(s) = 0 => s = {}
             /\ s # {} => /\ pick[s] \in S
                          /\ s \ {pick[s]} \in SUBSET S
                          /\ Cardinality(s \ {pick[s]}) = Cardinality(s) - 1
  BY FS_Subset, FS_CardinalityType, FS_EmptySet, FS_RemoveElement
<1>2. 0 \in K
  <2> DEFINE g == [s \in SUBSET S |-> base]
  <2>1. g \in [SUBSET S -> V] /\ Upto(g, 0)
    BY <1>1
  <2> QED BY <2>1
<1>3. ASSUME NEW k \in Nat, k \in K PROVE k + 1 \in K
  <2>1. PICK g \in [SUBSET S -> V] : Upto(g, k)
    BY <1>3
  <2> DEFINE h == [s \in SUBSET S |-> IF Cardinality(s) <= k THEN g[s]
                                      ELSE step[<<pick[s], g[s \ {pick[s]}]>>]]
  <2>2. h \in [SUBSET S -> V]
    <3> SUFFICES ASSUME NEW s \in SUBSET S, ~(Cardinality(s) <= k)
                 PROVE  step[<<pick[s], g[s \ {pick[s]}]>>] \in V
      OBVIOUS
    <3>1. s # {}
      <4> SUFFICES ASSUME s = {} PROVE Cardinality(s) <= k
        OBVIOUS
      <4>1. Cardinality(s) = 0
        BY FS_EmptySet
      <4> QED BY <4>1
    <3> QED BY <1>1, <3>1
  <2>3. Upto(h, k + 1)
    <3> SUFFICES ASSUME NEW s \in SUBSET S, Cardinality(s) <= k + 1
                 PROVE  h[s] = IF s = {} THEN base ELSE step[<<pick[s], h[s \ {pick[s]}]>>]
      OBVIOUS
    <3>1. CASE s = {}
      <4>1. Cardinality(s) = 0
        BY <3>1, FS_EmptySet
      <4> QED BY <2>1, <3>1, <4>1
    <3>2. CASE s # {}
      <4> DEFINE r == s \ {pick[s]}
      <4>1. r \in SUBSET S /\ Cardinality(r) <= k /\ Cardinality(r) \in Nat
        <5>1. /\ Cardinality(s) \in Nat /\ r \in SUBSET S
              /\ Cardinality(r) = Cardinality(s) - 1
          BY <1>1, <3>2
        <5>2. Cardinality(r) \in Nat
          BY <1>1, <5>1
        <5> QED BY <5>1, <5>2
      <4>2. h[r] = g[r]
        BY <4>1
      <4>3. h[s] = step[<<pick[s], g[r]>>]
        BY <2>1, <3>2
      <4> QED BY <3>2, <4>2, <4>3
    <3> QED BY <3>1, <3>2
  <2>4. k + 1 \in Nat
    OBVIOUS
  <2> HIDE DEF h, Upto
  <2> QED BY <2>2, <2>3, <2>4
<1>4. Nat \subseteq K
  <2> HIDE DEF K
  <2> QED BY <1>2, <1>3, NaturalsInSet
<1>5. Cardinality(S) \in K
  BY <1>4, FS_CardinalityType
<1>6. PICK g \in [SUBSET S -> V] : Upto(g, Cardinality(S))
  BY <1>5
<1>7. IsFold(S, V, pick, base, step, g)
  BY <1>1, <1>6 DEF IsFold
<1> QED BY <1>7

----------------------------------------------------------------------------
(* Sums.                                                                   *)

\* g adds up the values of f over each subset of S, whichever comes first.
IsSum(f, S, g) ==
    /\ g \in [SUBSET S -> Int]
    /\ g[{}] = 0
    /\ \A s \in SUBSET S : \A x \in s : g[s] = f[x] + g[s \ {x}]

\* What MapThenSumSet adds up, element by element.
Adding(f, S, g) ==
    g = [s \in SUBSET S |->
            IF s = {} THEN 0
            ELSE f[CHOOSE x \in s : TRUE] + g[s \ {CHOOSE x \in s : TRUE}]]

\* There is such a function: it is a fold.
LEMMA AddingExists ==
  ASSUME NEW S, IsFiniteSet(S), NEW f \in [S -> Int]
  PROVE  \E g : Adding(f, S, g)
<1> DEFINE pick == [s \in SUBSET S |-> CHOOSE x \in s : TRUE]
           step == [p \in S \X Int |-> f[p[1]] + p[2]]
<1>1. \A s \in SUBSET S : s # {} => pick[s] \in s
  OBVIOUS
<1>2. step \in [S \X Int -> Int]
  OBVIOUS
<1>3. \A x \in S, v \in Int : step[<<x, v>>] = f[x] + v
  OBVIOUS
<1> HIDE DEF step
<1>4. \E g : IsFold(S, Int, pick, 0, step, g)
  <2> HIDE DEF pick
  <2>1. 0 \in Int
    OBVIOUS
  <2> QED BY <1>1, <1>2, <2>1, FoldExists
<1>5. PICK g : IsFold(S, Int, pick, 0, step, g)
  BY <1>4
<1>6. ASSUME NEW s \in SUBSET S
      PROVE  g[s] = IF s = {} THEN 0
                    ELSE f[CHOOSE x \in s : TRUE] + g[s \ {CHOOSE x \in s : TRUE}]
  <2>1. CASE s = {}
    BY <1>5, <2>1 DEF IsFold
  <2>2. CASE s # {}
    <3>1. pick[s] \in S /\ s \ {pick[s]} \in SUBSET S /\ pick[s] = CHOOSE x \in s : TRUE
      BY <1>1, <2>2
    <3> HIDE DEF pick
    <3>2. g[s \ {pick[s]}] \in Int
      BY <1>5, <3>1 DEF IsFold
    <3>3. g[s] = step[<<pick[s], g[s \ {pick[s]}]>>]
      BY <1>5, <2>2 DEF IsFold
    <3>4. g[s] = f[pick[s]] + g[s \ {pick[s]}]
      BY <1>3, <3>1, <3>2, <3>3
    <3> QED BY <2>2, <3>1, <3>4
  <2> QED BY <2>1, <2>2
<1>7. g = [s \in SUBSET S |-> g[s]]
  BY <1>5 DEF IsFold
<1>8. g = [s \in SUBSET S |->
              IF s = {} THEN 0
              ELSE f[CHOOSE x \in s : TRUE] + g[s \ {CHOOSE x \in s : TRUE}]]
  <2> HIDE DEF pick
  <2> QED BY <1>6, <1>7, Zenon
<1> QED BY <1>8 DEF Adding

\* It does not matter in which order the values are added.
LEMMA AddingIsSum ==
  ASSUME NEW S, IsFiniteSet(S), NEW f \in [S -> Int], NEW g, Adding(f, S, g)
  PROVE  IsSum(f, S, g)
<1> DEFINE P == {s \in SUBSET S : /\ g[s] \in Int
                                  /\ \A x \in s : g[s] = f[x] + g[s \ {x}]}
<1>1. /\ g[{}] = 0
      /\ \A s \in SUBSET S : s # {} =>
            g[s] = f[CHOOSE x \in s : TRUE] + g[s \ {CHOOSE x \in s : TRUE}]
  BY DEF Adding
<1>2. ASSUME NEW s \in SUBSET S, \A t \in SUBSET s : t # s => t \in P
      PROVE  s \in P
  <2>1. CASE s = {}
    BY <1>1, <2>1
  <2>2. CASE s # {}
    <3>1. PICK c \in s : g[s] = f[c] + g[s \ {c}]
      BY <1>1, <2>2
    <3>2. s \ {c} \in P /\ f[c] \in Int
      BY <1>2
    <3>3. g[s] \in Int
      BY <3>1, <3>2
    <3>4. ASSUME NEW x \in s, x # c PROVE g[s] = f[x] + g[s \ {x}]
      <4>1. s \ {x} \in P /\ f[x] \in Int
        BY <1>2
      <4>2. g[s \ {c}] = f[x] + g[(s \ {c}) \ {x}]
        BY <3>2, <3>4
      <4>3. g[s \ {x}] = f[c] + g[(s \ {x}) \ {c}]
        BY <4>1, <3>4
      <4>4. PICK r \in P : r = (s \ {c}) \ {x} /\ r = (s \ {x}) \ {c}
        BY <1>2
      <4>5. g[s] = f[c] + (f[x] + g[r]) /\ g[s \ {x}] = f[c] + g[r]
        BY <3>1, <4>2, <4>3, <4>4
      <4>6. g[r] \in Int
        BY <4>4
      <4> HIDE DEF P
      <4> QED BY <3>2, <4>1, <4>5, <4>6
    <3> QED BY <3>1, <3>3, <3>4
  <2> QED BY <2>1, <2>2
<1>3. SUBSET S \subseteq P
  <2> HIDE DEF P
  <2> QED BY <1>2, SubsetsInSet
<1> QED BY <1>1, <1>3 DEF IsSum, Adding

\* Every function on a finite set has a sum.
LEMMA SumExists ==
  ASSUME NEW S, IsFiniteSet(S), NEW f \in [S -> Int]
  PROVE  \E g : IsSum(f, S, g)
BY AddingExists, AddingIsSum

\* A sum of terms that are not negative is not below any of them.
LEMMA SumOfNaturals ==
  ASSUME NEW S, IsFiniteSet(S), NEW f \in [S -> Nat], NEW g, IsSum(f, S, g)
  PROVE  \A s \in SUBSET S : g[s] \in Nat /\ \A x \in s : f[x] <= g[s]
<1> DEFINE P == {s \in SUBSET S : g[s] \in Nat}
<1>1. ASSUME NEW s \in SUBSET S, \A t \in SUBSET s : t # s => t \in P
      PROVE  s \in P
  <2>1. CASE s = {}
    BY <2>1 DEF IsSum
  <2>2. CASE s # {}
    <3>1. PICK x \in s : TRUE
      BY <2>2
    <3>2. s \ {x} \in P /\ f[x] \in Nat
      BY <1>1
    <3> QED BY <3>2 DEF IsSum
  <2> QED BY <2>1, <2>2
<1>2. SUBSET S \subseteq P
  <2> HIDE DEF P
  <2> QED BY <1>1, SubsetsInSet
<1>3. ASSUME NEW s \in SUBSET S, NEW x \in s PROVE f[x] <= g[s]
  <2>1. g[s \ {x}] \in Nat /\ f[x] \in Nat
    BY <1>2
  <2> QED BY <2>1 DEF IsSum
<1> QED BY <1>2, <1>3

\* A sum of zeroes is zero.
LEMMA SumOfZeroes ==
  ASSUME NEW S, IsFiniteSet(S), NEW f \in [S -> Int], NEW g, IsSum(f, S, g),
         \A x \in S : f[x] = 0
  PROVE  g[S] = 0
<1> DEFINE P == {s \in SUBSET S : g[s] = 0}
<1>1. ASSUME NEW s \in SUBSET S, \A t \in SUBSET s : t # s => t \in P
      PROVE  s \in P
  <2>1. CASE s = {}
    BY <2>1 DEF IsSum
  <2>2. CASE s # {}
    <3>1. PICK x \in s : TRUE
      BY <2>2
    <3>2. s \ {x} \in P /\ f[x] = 0
      BY <1>1
    <3> QED BY <3>2 DEF IsSum
  <2> QED BY <2>1, <2>2
<1>2. SUBSET S \subseteq P
  <2> HIDE DEF P
  <2> QED BY <1>1, SubsetsInSet
<1> QED BY <1>2

----------------------------------------------------------------------------
(* Nodes and pairs.                                                        *)

\* The nodes are numbered from 1 to NUM_NODES, each once.
LEMMA NodesNumbered ==
  /\ NUM_NODES \in Nat /\ NUM_NODES >= 2
  /\ allNodes \in [1..NUM_NODES -> Nodes]
  /\ \A n \in Nodes : \E i \in 1..NUM_NODES : n = allNodes[i]
  /\ IsFiniteSet(Nodes)
  /\ \A i, j \in 1..NUM_NODES : allNodes[i] = allNodes[j] => i = j
<1>1. NUM_NODES \in Nat /\ NUM_NODES >= 2 /\ allNodes \in [1..NUM_NODES -> Nodes]
  BY NodesAssumption DEF NUM_NODES
<1>2. \A n \in Nodes : \E i \in 1..NUM_NODES : allNodes[i] = n
  BY <1>1 DEF Nodes, ToSet
<1>3. allNodes \in Surjection(1..NUM_NODES, Nodes)
  BY <1>1, <1>2 DEF Surjection
<1>4. IsFiniteSet(1..NUM_NODES) /\ Cardinality(1..NUM_NODES) = NUM_NODES
  BY <1>1, FS_Interval
<1>5. IsFiniteSet(Nodes) /\ allNodes \in Injection(1..NUM_NODES, Nodes)
  BY <1>3, <1>4, FS_Surjection, NodesAssumption
<1> QED BY <1>1, <1>2, <1>5 DEF Injection, IsInjective

\* A pair of n is n and another node.
LEMMA PairsOfNode ==
  ASSUME NEW n \in Nodes
  PROVE  /\ \A m \in Nodes \ {n} : {m, n} \in PairsOf(n) /\ Remote({m, n}, n) = m
         /\ \A pair \in PairsOf(n) : /\ Remote(pair, n) \in Nodes \ {n}
                                     /\ pair = {Remote(pair, n), n}
         /\ PairsOf(n) \subseteq Pairs
         /\ PairsOf(n) # {}
         /\ IsFiniteSet(PairsOf(n))
<1>1. ASSUME NEW m \in Nodes \ {n} PROVE {m, n} \in PairsOf(n) /\ Remote({m, n}, n) = m
  <2>1. {m, n} \in Pairs
    BY DEF Pairs
  <2> QED BY <2>1 DEF PairsOf, Remote
<1>2. ASSUME NEW pair \in PairsOf(n) PROVE \E m \in Nodes \ {n} : pair = {m, n}
  BY DEF PairsOf, Pairs
<1>3. \E m \in Nodes : m # n
  <2>1. 1 \in 1..NUM_NODES /\ 2 \in 1..NUM_NODES
    BY NodesNumbered
  <2> QED BY <2>1, NodesNumbered
<1>4. IsFiniteSet(PairsOf(n))
  <2> DEFINE f == [m \in Nodes \ {n} |-> {m, n}]
  <2>1. f \in Surjection(Nodes \ {n}, PairsOf(n))
    BY <1>1, <1>2 DEF Surjection
  <2>2. IsFiniteSet(Nodes \ {n})
    BY NodesNumbered, FS_RemoveElement
  <2> HIDE DEF f
  <2> QED BY <2>1, <2>2, FS_Surjection
<1> QED BY <1>1, <1>2, <1>3, <1>4 DEF PairsOf

\* Every pair is a pair of one of the nodes.
LEMMA PairOfSome ==
  ASSUME NEW pair \in Pairs
  PROVE  \E k \in 1..NUM_NODES : pair \in PairsOf(allNodes[k])
<1>1. PICK n \in Nodes : n \in pair
  BY DEF Pairs
<1>2. PICK k \in 1..NUM_NODES : n = allNodes[k]
  BY NodesNumbered
<1> QED BY <1>1, <1>2 DEF PairsOf

\* Stotal adds up what the pairs of n are in credit.
LEMMA StotalIsSum ==
  ASSUME NEW n \in Nodes, balance \in [Pairs -> Int]
  PROVE  \E g : /\ IsSum([pair \in PairsOf(n) |-> Positive(balance[pair])], PairsOf(n), g)
                /\ Stotal(n) = g[PairsOf(n)]
<1> DEFINE S == PairsOf(n)
           f == [pair \in S |-> Positive(balance[pair])]
           Raw(g) == g = [s \in SUBSET S |-> IF s = {} THEN 0
                            ELSE Positive(balance[CHOOSE x \in s : TRUE])
                                    + g[s \ {CHOOSE x \in s : TRUE}]]
<1>1. Stotal(n) = (CHOOSE g : Raw(g))[S]
  BY DEF Stotal, MapThenSumSet, MapThenFoldSet
<1>2. IsFiniteSet(S) /\ S \subseteq Pairs
  BY PairsOfNode
<1>3. f \in [S -> Int]
  BY <1>2 DEF Positive
<1>4. ASSUME NEW g PROVE Raw(g) <=> Adding(f, S, g)
  <2>1. \A s \in SUBSET S : s # {} =>
            f[CHOOSE x \in s : TRUE] = Positive(balance[CHOOSE x \in s : TRUE])
    OBVIOUS
  <2> HIDE DEF f, S
  <2>2. [s \in SUBSET S |-> IF s = {} THEN 0
                            ELSE Positive(balance[CHOOSE x \in s : TRUE])
                                    + g[s \ {CHOOSE x \in s : TRUE}]]
        = [s \in SUBSET S |-> IF s = {} THEN 0
                            ELSE f[CHOOSE x \in s : TRUE]
                                    + g[s \ {CHOOSE x \in s : TRUE}]]
    BY <2>1
  <2> QED BY <2>2 DEF Adding
<1> HIDE DEF S, f
<1>5. \E g : Raw(g)
  <2> HIDE DEF Raw
  <2> QED BY <1>2, <1>3, <1>4, AddingExists
<1> HIDE DEF Raw
<1>6. Raw(CHOOSE g : Raw(g))
  BY <1>5
<1>7. IsSum(f, S, CHOOSE g : Raw(g))
  BY <1>2, <1>3, <1>4, <1>6, AddingIsSum
<1> QED BY <1>1, <1>7 DEF f, S

\* It is not below any of them, and zero if no pair is in credit.
LEMMA StotalBounds ==
  ASSUME NEW n \in Nodes, balance \in [Pairs -> Int]
  PROVE  /\ Stotal(n) \in Nat
         /\ \A pair \in PairsOf(n) : Positive(balance[pair]) \in 0..Stotal(n)
         /\ (\A pair \in Pairs : balance[pair] <= 0) => Stotal(n) = 0
<1> DEFINE S == PairsOf(n)
           f == [pair \in S |-> Positive(balance[pair])]
<1>1. IsFiniteSet(S) /\ S \subseteq Pairs
  BY PairsOfNode
<1>2. f \in [S -> Nat] /\ \A pair \in S : f[pair] = Positive(balance[pair])
  BY <1>1 DEF Positive
<1>3. (\A pair \in Pairs : balance[pair] <= 0) => \A pair \in S : f[pair] = 0
  BY <1>1 DEF Positive
<1>4. PICK g : IsSum(f, S, g) /\ Stotal(n) = g[S]
  BY StotalIsSum
<1> HIDE DEF f, S
<1>5. f \in [S -> Int]
  BY <1>2
<1>6. \A s \in SUBSET S : g[s] \in Nat /\ \A x \in s : f[x] <= g[s]
  BY <1>1, <1>2, <1>4, SumOfNaturals
<1>7. g[S] \in Nat /\ \A x \in S : f[x] <= g[S] /\ f[x] \in Nat
  BY <1>2, <1>6
<1>8. (\A pair \in Pairs : balance[pair] <= 0) => g[S] = 0
  BY <1>1, <1>3, <1>4, <1>5, SumOfZeroes
<1> QED BY <1>2, <1>4, <1>7, <1>8 DEF S

\* v has for each other node what f has for its pair with n.
NodeByNode(n, f, v) ==
    /\ f \in [PairsOf(n) -> Int]
    /\ v \in [Nodes -> Int]
    /\ \A m \in Nodes \ {n} : f[{m, n}] = v[m]

\* What is added up over the pairs of n may be added up over the other nodes.
LEMMA PairSumIsNodeSum ==
  ASSUME NEW n \in Nodes, NEW f, NEW v, NodeByNode(n, f, v),
         NEW h, IsSum(f, PairsOf(n), h), NEW t, IsSum(v, Nodes, t)
  PROVE  h[PairsOf(n)] = t[Nodes \ {n}]
<1> DEFINE S == PairsOf(n)
           O == Nodes \ {n}
<1>1. /\ IsFiniteSet(S)
      /\ \A pair \in S : Remote(pair, n) \in O /\ pair = {Remote(pair, n), n}
      /\ \A m \in O : {m, n} \in S /\ Remote({m, n}, n) = m
  BY PairsOfNode
<1>2. \A m \in O : f[{m, n}] = v[m]
  BY DEF NodeByNode
<1>3. IsFiniteSet(O) /\ O \subseteq Nodes
  BY NodesNumbered, FS_RemoveElement
<1>4. IsSum(f, S, h)
  OBVIOUS
<1> HIDE DEF S, O
<1> DEFINE With(M) == {{m, n} : m \in M}
           P == {M \in SUBSET O : h[With(M)] = t[M]}
<1>5. ASSUME NEW M \in SUBSET O, \A L \in SUBSET M : L # M => L \in P
       PROVE  M \in P
  <2>1. CASE M = {}
    <3>1. With(M) = {}
      BY <2>1
    <3> HIDE DEF With
    <3> QED BY <1>4, <2>1, <3>1 DEF IsSum
  <2>2. CASE M # {}
    <3>1. PICK m \in M : TRUE
      BY <2>2
    <3>2. M \ {m} \in P
      BY <1>5
    <3>3. {m, n} \in With(M) /\ With(M) \in SUBSET S
      BY <1>1
    <3>4. With(M) \ {{m, n}} = With(M \ {m})
      <4>1. ASSUME NEW l \in M, {l, n} = {m, n} PROVE l = m
        BY <1>1, <4>1
      <4> QED BY <4>1
    <3>5. t[M] = v[m] + t[M \ {m}]
      BY <1>3 DEF IsSum
    <3>6. f[{m, n}] = v[m]
      BY <1>2
    <3>7. h[With(M \ {m})] = t[M \ {m}]
      BY <3>2
    <3> HIDE DEF With, P
    <3>8. h[With(M)] = f[{m, n}] + h[With(M) \ {{m, n}}]
      BY <1>4, <3>3 DEF IsSum
    <3>9. h[With(M)] = t[M]
      BY <3>4, <3>5, <3>6, <3>7, <3>8
    <3> QED BY <3>9 DEF P
  <2> QED BY <2>1, <2>2
<1>6. SUBSET O \subseteq P
  <2> HIDE DEF P
  <2> QED BY <1>3, <1>5, SubsetsInSet
<1>7. With(O) = S
  BY <1>1
<1>8. O \in P
  <2> HIDE DEF P
  <2> QED BY <1>6
<1>9. h[S] = t[O]
  BY <1>7, <1>8
<1> QED BY <1>9 DEF S, O

\* v is what each other node contributes to the trust of n.
Contributing(n, g, direct, v) ==
    /\ v \in [Nodes -> Int]
    /\ \A m \in Nodes \ {n} :
          v[m] = (g.of[m] * direct[{m, n}].num) \div direct[{m, n}].den

\* What the peers of n contribute is a sum over the other nodes.
LEMMA ContributionIsSum ==
  ASSUME NEW n \in Nodes, NEW g, NEW direct,
         NEW v, Contributing(n, g, direct, v), NEW t, IsSum(v, Nodes, t)
  PROVE  Contribution(n, g, direct) = t[Nodes \ {n}]
<1> DEFINE S == PairsOf(n)
           O == Nodes \ {n}
           f == [pair \in S |-> v[Remote(pair, n)]]
           term(pair) == (g.of[Remote(pair, n)] * direct[pair].num) \div direct[pair].den
           Raw(h) == h = [s \in SUBSET S |-> IF s = {} THEN 0
                            ELSE term(CHOOSE x \in s : TRUE)
                                    + h[s \ {CHOOSE x \in s : TRUE}]]
<1> USE DEF Contributing
<1>1. Contribution(n, g, direct) = (CHOOSE h : Raw(h))[S]
  BY DEF Contribution, MapThenSumSet, MapThenFoldSet
<1>2. /\ IsFiniteSet(S)
      /\ \A pair \in S : Remote(pair, n) \in O /\ pair = {Remote(pair, n), n}
      /\ \A m \in O : {m, n} \in S /\ Remote({m, n}, n) = m
  BY PairsOfNode
<1>3. ASSUME NEW pair \in S PROVE f[pair] = term(pair)
  <2>1. PICK m \in O : m = Remote(pair, n) /\ pair = {m, n}
    BY <1>2
  <2>2. v[m] = (g.of[m] * direct[{m, n}].num) \div direct[{m, n}].den
    OBVIOUS
  <2> QED BY <2>1, <2>2
<1>4. f \in [S -> Int]
  BY <1>2
<1>5. \A m \in O : f[{m, n}] = v[m]
  BY <1>2
<1>6. IsFiniteSet(O) /\ O \subseteq Nodes
  BY NodesNumbered, FS_RemoveElement
<1> HIDE DEF f, S, term, O
<1>7. ASSUME NEW h PROVE Raw(h) <=> Adding(f, S, h)
  <2>1. \A s \in SUBSET S : s # {} =>
            f[CHOOSE x \in s : TRUE] = term(CHOOSE x \in s : TRUE)
    BY <1>3
  <2>2. [s \in SUBSET S |-> IF s = {} THEN 0
                            ELSE term(CHOOSE x \in s : TRUE)
                                    + h[s \ {CHOOSE x \in s : TRUE}]]
        = [s \in SUBSET S |-> IF s = {} THEN 0
                            ELSE f[CHOOSE x \in s : TRUE]
                                    + h[s \ {CHOOSE x \in s : TRUE}]]
    BY <2>1
  <2> QED BY <2>2 DEF Adding
<1>8. \E h : Raw(h)
  <2> HIDE DEF Raw
  <2> QED BY <1>2, <1>4, <1>7, AddingExists
<1> HIDE DEF Raw
<1> DEFINE h == CHOOSE h : Raw(h)
<1>9. IsSum(f, S, h)
  <2>1. Raw(h)
    BY <1>8
  <2> HIDE DEF h
  <2> QED BY <1>2, <1>4, <1>7, <2>1, AddingIsSum
<1>10. NodeByNode(n, f, v)
  BY <1>4, <1>5 DEF NodeByNode, O, S
<1>11. h[S] = t[Nodes \ {n}]
  <2> HIDE DEF h, Contributing
  <2> QED BY <1>9, <1>10, PairSumIsNodeSum DEF S
<1> QED BY <1>1, <1>11 DEF h

----------------------------------------------------------------------------
(* Common denominators.                                                    *)

\* Denominators, units and trust are positive.
Positives == Nat \ {0}

\* What ProductSet multiplies, element by element.
Multiplying(S, g) ==
    g = [s \in SUBSET S |->
            IF s = {} THEN 1
            ELSE (CHOOSE x \in s : TRUE) * g[s \ {CHOOSE x \in s : TRUE}]]

\* There is such a function: it is a fold.
LEMMA MultiplyingExists ==
  ASSUME NEW S \in SUBSET Positives, IsFiniteSet(S)
  PROVE  \E g : Multiplying(S, g)
<1> DEFINE pick == [s \in SUBSET S |-> CHOOSE x \in s : TRUE]
           step == [p \in S \X Positives |-> p[1] * p[2]]
<1>1. \A s \in SUBSET S : s # {} => pick[s] \in s
  OBVIOUS
<1>2. \A x \in S, v \in Positives : x * v \in Positives
  BY DEF Positives
<1>3. step \in [S \X Positives -> Positives]
  BY <1>2
<1>4. \A x \in S, v \in Positives : step[<<x, v>>] = x * v
  OBVIOUS
<1> HIDE DEF step
<1>5. PICK g : IsFold(S, Positives, pick, 1, step, g)
  <2>1. 1 \in Positives
    BY DEF Positives
  <2> HIDE DEF pick
  <2> QED BY <1>1, <1>3, <2>1, FoldExists
<1>6. ASSUME NEW s \in SUBSET S
      PROVE  g[s] = IF s = {} THEN 1
                    ELSE (CHOOSE x \in s : TRUE) * g[s \ {CHOOSE x \in s : TRUE}]
  <2>1. CASE s = {}
    BY <1>5, <2>1 DEF IsFold
  <2>2. CASE s # {}
    <3>1. pick[s] \in S /\ s \ {pick[s]} \in SUBSET S /\ pick[s] = CHOOSE x \in s : TRUE
      BY <1>1, <2>2
    <3> HIDE DEF pick
    <3>2. g[s \ {pick[s]}] \in Positives
      BY <1>5, <3>1 DEF IsFold
    <3>3. g[s] = step[<<pick[s], g[s \ {pick[s]}]>>]
      BY <1>5, <2>2 DEF IsFold
    <3>4. g[s] = pick[s] * g[s \ {pick[s]}]
      BY <1>4, <3>1, <3>2, <3>3
    <3> QED BY <2>2, <3>1, <3>4
  <2> QED BY <2>1, <2>2
<1>7. g = [s \in SUBSET S |-> g[s]]
  BY <1>5 DEF IsFold
<1> HIDE DEF pick
<1>8. [s \in SUBSET S |-> g[s]]
      = [s \in SUBSET S |->
            IF s = {} THEN 1
            ELSE (CHOOSE x \in s : TRUE) * g[s \ {CHOOSE x \in s : TRUE}]]
  BY <1>6, Zenon
<1> QED BY <1>7, <1>8 DEF Multiplying

\* A number divides its multiples, and the quotient gives them back.
LEMMA Divides ==
  ASSUME NEW d \in Positives
  PROVE  /\ \A q \in Nat : (d * q) % d = 0 /\ (d * q) \div d = q
         /\ \A k \in Nat : k % d = 0 => k = d * (k \div d) /\ k \div d \in Nat
BY DEF Positives

\* What divides a number divides its multiples.
LEMMA DividesMultiple ==
  ASSUME NEW d \in Positives, NEW e \in Nat, NEW k \in Nat, k % d = 0
  PROVE  (e * k) % d = 0
<1>1. PICK q \in Nat : k = d * q
  BY Divides
<1>2. e * k = d * (e * q) /\ e * q \in Nat
  BY <1>1 DEF Positives
<1> HIDE <1>1
<1> QED BY <1>2, Divides

\* All the factors of a product divide it.
LEMMA ProductIsMultiple ==
  ASSUME NEW S \in SUBSET Positives, IsFiniteSet(S)
  PROVE  ProductSet(S) \in Positives /\ \A d \in S : ProductSet(S) % d = 0
<1> DEFINE g == CHOOSE g : Multiplying(S, g)
<1>1. ProductSet(S) = g[S]
  BY DEF ProductSet, FoldSet, MapThenFoldSet, Multiplying
<1>2. Multiplying(S, g)
  BY MultiplyingExists
<1> HIDE DEF g
<1> DEFINE P == {s \in SUBSET S : g[s] \in Positives /\ \A d \in s : g[s] % d = 0}
<1>3. ASSUME NEW s \in SUBSET S, \A t \in SUBSET s : t # s => t \in P
      PROVE  s \in P
  <2>1. CASE s = {}
    BY <1>2, <2>1 DEF Multiplying, Positives
  <2>2. CASE s # {}
    <3>1. PICK c \in s : g[s] = c * g[s \ {c}]
      BY <1>2, <2>2 DEF Multiplying
    <3>2. /\ c \in Positives
          /\ g[s \ {c}] \in Positives /\ \A d \in s \ {c} : g[s \ {c}] % d = 0
      BY <1>3
    <3>3. g[s] \in Positives
      BY <3>1, <3>2 DEF Positives
    <3>4. g[s] % c = 0
      BY <3>1, <3>2, Divides DEF Positives
    <3>5. ASSUME NEW d \in s \ {c} PROVE g[s] % d = 0
      <4>1. d \in Positives /\ c \in Nat /\ g[s \ {c}] \in Nat /\ g[s \ {c}] % d = 0
        BY <3>2 DEF Positives
      <4>2. (c * g[s \ {c}]) % d = 0
        BY <4>1, DividesMultiple
      <4> QED BY <3>1, <4>2
    <3> QED BY <3>3, <3>4, <3>5
  <2> QED BY <2>1, <2>2
<1>4. SUBSET S \subseteq P
  <2> HIDE DEF P
  <2> QED BY <1>3, SubsetsInSet
<1> QED BY <1>1, <1>4

\* Common finds a number that all the given ones divide, and if they are all
\* the same it is that one.
LEMMA CommonDivides ==
  ASSUME NEW S \in SUBSET Positives, IsFiniteSet(S)
  PROVE  /\ Common(S) \in Positives
         /\ \A d \in S : Common(S) % d = 0
         /\ \A e : S = {e} => Common(S) = e
<1> DEFINE T == {k \in 1..ProductSet(S) : \A d \in S : k % d = 0}
<1>1. ProductSet(S) \in Positives /\ \A d \in S : ProductSet(S) % d = 0
  BY ProductIsMultiple
<1>2. ProductSet(S) \in T /\ T \in SUBSET Nat
  BY <1>1 DEF Positives
<1>3. Common(S) = Min(T)
  BY DEF Common
<1>4. Common(S) \in T /\ \A k \in T : Common(S) <= k
  <2> HIDE DEF T
  <2> QED BY <1>2, <1>3, LeastExists
<1>5. Common(S) \in Positives /\ \A d \in S : Common(S) % d = 0
  BY <1>1, <1>4 DEF Positives
<1>6. ASSUME NEW e, S = {e} PROVE Common(S) = e
  <2>1. e \in Positives
    BY <1>6
  <2>2. ASSUME NEW k \in Positives, k % e = 0 PROVE e <= k
    <3>1. PICK q \in Nat : k = e * q
      BY <2>1, <2>2, Divides DEF Positives
    <3>2. q # 0
      BY <2>1, <3>1 DEF Positives
    <3> QED BY <2>1, <3>1, <3>2 DEF Positives
  <2>3. e <= ProductSet(S)
    BY <1>1, <1>6, <2>2
  <2>4. e % e = 0
    BY <2>1 DEF Positives
  <2>5. e \in T
    BY <1>1, <1>6, <2>1, <2>3, <2>4 DEF Positives
  <2>6. e <= Common(S)
    BY <1>5, <1>6, <2>2
  <2> QED BY <1>4, <1>5, <2>1, <2>5, <2>6 DEF Positives
<1> QED BY <1>5, <1>6

----------------------------------------------------------------------------
(* Folds over allNodes, node by node.                                      *)

\* The places in allNodes.
Numbers == 1..NUM_NODES

\* The greatest of some of the numbers.
LEMMA MaxOfNumbers ==
  /\ IsFiniteSet(Numbers) /\ Numbers = DOMAIN allNodes
  /\ \A s \in SUBSET Numbers : s # {} => Max(s) \in s
  /\ \A k \in Numbers : /\ Max(1..k) = k /\ 1..k \in SUBSET Numbers /\ 1..k # {}
                        /\ (1..k) \ {k} = 1..(k - 1)
<1>1. NUM_NODES \in Nat /\ DOMAIN allNodes = 1..NUM_NODES
  BY NodesNumbered
<1>2. ASSUME NEW s \in SUBSET Numbers, s # {} PROVE Max(s) \in s
  <2> DEFINE T == {NUM_NODES - x : x \in s}
  <2>1. T \in SUBSET Nat /\ T # {}
    <3>1. ASSUME NEW x \in s PROVE NUM_NODES - x \in Nat
      <4>1. x \in 1..NUM_NODES
        BY <1>2 DEF Numbers
      <4> QED BY <1>1, <4>1
    <3> QED BY <1>2, <3>1
  <2>2. Min(T) \in T /\ \A k \in T : Min(T) <= k
    <3> HIDE DEF T
    <3> QED BY <2>1, LeastExists
  <2>3. PICK x \in s : Min(T) = NUM_NODES - x
    BY <2>2
  <2>4. ASSUME NEW y \in s PROVE x >= y
    <3>1. x \in 1..NUM_NODES /\ y \in 1..NUM_NODES
      BY <1>2 DEF Numbers
    <3>2. Min(T) <= NUM_NODES - y
      BY <2>2
    <3>3. NUM_NODES - x <= NUM_NODES - y
      BY <2>3, <3>2
    <3> QED BY <1>1, <3>1, <3>3
  <2> QED BY <2>4 DEF Max
<1>3. ASSUME NEW k \in Numbers
      PROVE  Max(1..k) = k /\ 1..k \in SUBSET Numbers /\ 1..k # {} /\ (1..k) \ {k} = 1..(k - 1)
  <2>1. k \in Nat /\ k >= 1 /\ k <= NUM_NODES
    BY <1>1 DEF Numbers
  <2>2. k \in 1..k /\ \A y \in 1..k : k >= y
    BY <2>1
  <2>3. \A x \in 1..k : (\A y \in 1..k : x >= y) => x = k
    BY <2>1, <2>2
  <2>4. Max(1..k) = k
    BY <2>2, <2>3 DEF Max
  <2>5. 1..k \in SUBSET Numbers /\ 1..k # {}
    BY <1>1, <2>1, <2>2 DEF Numbers
  <2>6. (1..k) \ {k} = 1..(k - 1)
    BY <2>1
  <2> QED BY <2>4, <2>5, <2>6
<1>4. IsFiniteSet(Numbers) /\ Numbers = DOMAIN allNodes
  BY <1>1, FS_Interval DEF Numbers
<1> QED BY <1>2, <1>3, <1>4

\* g does to the value what step does, number by number.
Stepwise(V, step, g) ==
    \A k \in Numbers : g[1..(k - 1)] \in V => g[1..k] = step[<<k, g[1..(k - 1)]>>]

\* D[k] is the value after the first k numbers.
IsSteps(V, base, step, D) ==
    /\ D \in [0..NUM_NODES -> V]
    /\ D[0] = base
    /\ \A k \in Numbers : D[k] = step[<<k, D[k - 1]>>]

\* What such a fold makes of the first nodes is what it makes of the last of
\* them, given what it makes of those before.
LEMMA LeftSteps ==
  ASSUME NEW V, NEW base \in V, NEW step \in [Numbers \X V -> V],
         NEW g, g[{}] = base, Stepwise(V, step, g)
  PROVE  \E D : IsSteps(V, base, step, D) /\ D[NUM_NODES] = g[Numbers]
<1> USE DEF Stepwise
<1> DEFINE K == {k \in Nat : k <= NUM_NODES => g[1..k] \in V}
<1>1. NUM_NODES \in Nat
  BY NodesNumbered
<1>2. 0 \in K
  <2>1. 1..0 = {}
    OBVIOUS
  <2> QED BY <2>1
<1>3. ASSUME NEW k \in Nat, k \in K PROVE k + 1 \in K
  <2> SUFFICES ASSUME k + 1 <= NUM_NODES PROVE g[1..(k + 1)] \in V
    OBVIOUS
  <2>1. k + 1 \in Numbers /\ (k + 1) - 1 = k /\ k <= NUM_NODES
    BY <1>1 DEF Numbers
  <2>2. g[1..k] \in V
    BY <1>3, <2>1
  <2>3. g[1..(k + 1)] = step[<<k + 1, g[1..k]>>]
    BY <2>1, <2>2
  <2> QED BY <2>1, <2>2, <2>3
<1>4. Nat \subseteq K
  <2> HIDE DEF K
  <2> QED BY <1>2, <1>3, NaturalsInSet
<1>5. \A k \in 0..NUM_NODES : g[1..k] \in V
  BY <1>1, <1>4
<1> DEFINE D == [k \in 0..NUM_NODES |-> g[1..k]]
<1>6. D \in [0..NUM_NODES -> V]
  BY <1>5
<1>7. D[0] = base
  <2>1. 0 \in 0..NUM_NODES /\ 1..0 = {}
    BY <1>1
  <2> QED BY <2>1
<1>8. ASSUME NEW k \in Numbers PROVE D[k] = step[<<k, D[k - 1]>>]
  <2>1. k \in 0..NUM_NODES /\ k - 1 \in 0..NUM_NODES
    BY <1>1 DEF Numbers
  <2> QED BY <1>5, <2>1
<1>9. D[NUM_NODES] = g[Numbers]
  BY <1>1 DEF Numbers
<1> HIDE DEF D
<1> QED BY <1>6, <1>7, <1>8, <1>9 DEF IsSteps

----------------------------------------------------------------------------
(* Direct trust.                                                           *)

\* What Direct_Trust holds, and what it holds before the first turn.
Fraction == [num : Nat, den : Positives]
Untold == [pair \in Pairs |-> [num |-> 0, den |-> 1]]

\* updateDirectTrust writes fractions.
LEMMA DirectTypes ==
  ASSUME balance \in [Pairs -> Int], NEW n \in Nodes, NEW direct \in [Pairs -> Fraction]
  PROVE  /\ updateDirectTrust(n, direct) \in [Pairs -> Fraction]
         /\ \A pair \in PairsOf(n) :
              updateDirectTrust(n, direct)[pair].num \in 0..updateDirectTrust(n, direct)[pair].den
<1>1. /\ Stotal(n) \in Nat
      /\ \A pair \in PairsOf(n) : Positive(balance[pair]) \in 0..Stotal(n)
      /\ NUM_NODES \in Nat /\ NUM_NODES >= 2
  BY StotalBounds, NodesNumbered
<1>2. PairsOf(n) \subseteq Pairs
  BY PairsOfNode
<1> DEFINE d == updateDirectTrust(n, direct)
<1>3. ASSUME NEW pair \in Pairs
      PROVE  d[pair] \in Fraction /\ (pair \in PairsOf(n) => d[pair].num \in 0..d[pair].den)
  <2>1. CASE pair \notin PairsOf(n)
    BY <2>1 DEF updateDirectTrust
  <2>2. CASE pair \in PairsOf(n) /\ Stotal(n) = 0
    <3>1. d[pair] = [num |-> 1, den |-> NUM_NODES]
      BY <2>2 DEF updateDirectTrust
    <3> QED BY <1>1, <3>1 DEF Fraction, Positives
  <2>3. CASE pair \in PairsOf(n) /\ Stotal(n) # 0
    <3>1. d[pair] = [num |-> Positive(balance[pair]), den |-> Stotal(n)]
      BY <2>3 DEF updateDirectTrust
    <3>2. Positive(balance[pair]) \in Nat /\ Positive(balance[pair]) \in 0..Stotal(n)
      BY <1>1, <2>3
    <3> HIDE DEF d
    <3> QED BY <1>1, <2>3, <3>1, <3>2 DEF Fraction, Positives
  <2> QED BY <2>1, <2>2, <2>3
<1>4. d = [pair \in Pairs |-> d[pair]]
  BY DEF updateDirectTrust
<1> HIDE DEF d
<1>5. d \in [Pairs -> Fraction]
  BY <1>3, <1>4
<1> QED BY <1>2, <1>3, <1>5 DEF d

\* DirectTrust, node by node.
LEMMA DirectSteps ==
  ASSUME balance \in [Pairs -> Int]
  PROVE  \E D \in [0..NUM_NODES -> [Pairs -> Fraction]] :
            /\ D[0] = Untold
            /\ \A k \in Numbers : D[k] = updateDirectTrust(allNodes[k], D[k - 1])
            /\ D[NUM_NODES] = DirectTrust
<1> DEFINE V == [Pairs -> Fraction]
           step == [p \in Numbers \X V |-> updateDirectTrust(allNodes[p[1]], p[2])]
           pick == [s \in SUBSET Numbers |-> Max(s)]
           next(s, g) == IF s = {} THEN Untold
                         ELSE updateDirectTrust(allNodes[Max(s)], g[s \ {Max(s)}])
           Raw(g) == g = [s \in SUBSET Numbers |-> next(s, g)]
<1>1. DirectTrust = (CHOOSE g : Raw(g))[Numbers]
  <2>1. Numbers = DOMAIN allNodes
    BY MaxOfNumbers
  <2> HIDE DEF Numbers
  <2> QED BY <2>1 DEF DirectTrust, FoldLeft, MapThenFoldSet, Untold
<1>2. Untold \in V
  BY DEF Untold, Fraction, Positives
<1>3. \A k \in Numbers, v \in V : step[<<k, v>>] = updateDirectTrust(allNodes[k], v)
  OBVIOUS
<1>4. \A k \in Numbers : allNodes[k] \in Nodes
  BY NodesNumbered DEF Numbers
<1>5. step \in [Numbers \X V -> V]
  BY <1>4, DirectTypes
<1>6. \A s \in SUBSET Numbers : s # {} => pick[s] \in s
  BY MaxOfNumbers
<1>7. \A s \in SUBSET Numbers : pick[s] = Max(s)
  OBVIOUS
<1> HIDE DEF V, step, pick
<1>8. \E g : Raw(g)
  <2>1. PICK g : IsFold(Numbers, V, pick, Untold, step, g)
    BY <1>2, <1>5, <1>6, FoldExists, MaxOfNumbers
  <2>2. ASSUME NEW s \in SUBSET Numbers PROVE g[s] = next(s, g)
    <3>1. CASE s = {}
      BY <2>1, <3>1 DEF IsFold
    <3>2. CASE s # {}
      <4>1. Max(s) \in Numbers /\ s \ {Max(s)} \in SUBSET Numbers /\ pick[s] = Max(s)
        BY <1>6, <1>7, <3>2
      <4>2. g[s \ {Max(s)}] \in V
        BY <2>1, <4>1 DEF IsFold
      <4>3. g[s] = step[<<Max(s), g[s \ {Max(s)}]>>]
        BY <2>1, <3>2, <4>1 DEF IsFold
      <4> QED BY <1>3, <3>2, <4>1, <4>2, <4>3
    <3> QED BY <3>1, <3>2
  <2>3. g = [s \in SUBSET Numbers |-> g[s]]
    BY <2>1 DEF IsFold
  <2> HIDE DEF next
  <2> QED BY <2>2, <2>3
<1> DEFINE h == CHOOSE g : Raw(g)
<1>9. Raw(h)
  <2> HIDE DEF Raw
  <2> QED BY <1>8
<1> HIDE DEF h
<1>10. h[{}] = Untold
  BY <1>9
<1>11. Stepwise(V, step, h)
  <2> SUFFICES ASSUME NEW k \in Numbers, h[1..(k - 1)] \in V
               PROVE  h[1..k] = step[<<k, h[1..(k - 1)]>>]
    BY DEF Stepwise
  <2>1. 1..k \in SUBSET Numbers /\ 1..k # {} /\ Max(1..k) = k /\ (1..k) \ {k} = 1..(k - 1)
    BY MaxOfNumbers
  <2>2. h[1..k] = next(1..k, h)
    <3> HIDE DEF next
    <3> QED BY <1>9, <2>1
  <2>3. h[1..k] = updateDirectTrust(allNodes[k], h[1..(k - 1)])
    BY <2>1, <2>2
  <2> QED BY <1>3, <2>3
<1> HIDE DEF Raw
<1>12. PICK D : IsSteps(V, Untold, step, D) /\ D[NUM_NODES] = h[Numbers]
  BY <1>2, <1>5, <1>10, <1>11, LeftSteps
<1>13. ASSUME NEW k \in Numbers PROVE D[k] = updateDirectTrust(allNodes[k], D[k - 1])
  <2>1. k - 1 \in 0..NUM_NODES
    BY NodesNumbered DEF Numbers
  <2>2. D[k - 1] \in V
    BY <1>12, <2>1 DEF IsSteps
  <2> QED BY <1>3, <1>12, <2>2 DEF IsSteps
<1> QED BY <1>1, <1>12, <1>13 DEF V, h, IsSteps

----------------------------------------------------------------------------
(* Global trust.                                                           *)

\* What GlobalTrust takes and returns.
Trusts == [unit : Positives, of : [Nodes -> Positives]]

\* The unit in which updateGlobalTrust computes the trust of n.
Factor(n, direct) == Common({direct[pair].den : pair \in PairsOf(n)})

\* It is a multiple of all the denominators, and if they are all the same it is
\* that one.
LEMMA FactorDivides ==
  ASSUME NEW n \in Nodes, NEW direct \in [Pairs -> Fraction]
  PROVE  /\ Factor(n, direct) \in Positives
         /\ \A pair \in PairsOf(n) : Factor(n, direct) % direct[pair].den = 0
         /\ \A e : (\A pair \in PairsOf(n) : direct[pair].den = e) => Factor(n, direct) = e
<1> DEFINE S == {direct[pair].den : pair \in PairsOf(n)}
           f == [pair \in PairsOf(n) |-> direct[pair].den]
<1>1. /\ IsFiniteSet(PairsOf(n)) /\ PairsOf(n) # {}
      /\ \A pair \in PairsOf(n) : direct[pair] \in Fraction
  BY PairsOfNode
<1>2. S \in SUBSET Positives
  BY <1>1 DEF Fraction
<1>3. IsFiniteSet(S)
  <2>1. f \in Surjection(PairsOf(n), S)
    BY DEF Surjection
  <2> HIDE DEF f, S
  <2> QED BY <1>1, <2>1, FS_Surjection
<1>4. ASSUME NEW e, \A pair \in PairsOf(n) : direct[pair].den = e PROVE S = {e}
  BY <1>1, <1>4
<1>5. \A pair \in PairsOf(n) : direct[pair].den \in S
  OBVIOUS
<1>6. Factor(n, direct) = Common(S)
  BY DEF Factor
<1> HIDE DEF S
<1> QED BY <1>2, <1>3, <1>4, <1>5, <1>6, CommonDivides

\* updateGlobalTrust makes the unit finer and adds to the trust of n alone.
LEMMA GlobalTypes ==
  ASSUME NEW n \in Nodes, NEW g \in Trusts, NEW direct \in [Pairs -> Fraction]
  PROVE  LET c == Factor(n, direct)
             h == updateGlobalTrust(n, g, direct)
             added == Contribution(n, Finer(g, c), direct)
         IN  /\ h \in Trusts
             /\ added \in Nat
             /\ h.unit = c * g.unit
             /\ h.of[n] = c * g.of[n] + added
             /\ \A m \in Nodes \ {n} : h.of[m] = c * g.of[m]
<1> DEFINE c == Factor(n, direct)
           h == updateGlobalTrust(n, g, direct)
           fine == Finer(g, c)
           added == Contribution(n, fine, direct)
           v == [m \in Nodes |-> IF m = n THEN 0
                    ELSE (fine.of[m] * direct[{m, n}].num) \div direct[{m, n}].den]
<1>1. c \in Positives
  BY FactorDivides
<1>2. g.unit \in Positives /\ g.of \in [Nodes -> Positives]
  BY DEF Trusts
<1> HIDE DEF c
<1>3. fine.unit = c * g.unit /\ fine.of = [m \in Nodes |-> c * g.of[m]]
  BY DEF Finer
<1>4. \A x, y \in Positives : x * y \in Positives
  BY DEF Positives
<1>5. fine.unit \in Positives /\ fine.of \in [Nodes -> Positives]
  BY <1>1, <1>2, <1>3, <1>4
<1> HIDE DEF fine
<1>6. v \in [Nodes -> Nat]
  <2> SUFFICES ASSUME NEW m \in Nodes, m # n
               PROVE  (fine.of[m] * direct[{m, n}].num) \div direct[{m, n}].den \in Nat
    OBVIOUS
  <2>1. direct[{m, n}] \in Fraction
    BY PairsOfNode
  <2>2. /\ direct[{m, n}].num \in Nat /\ direct[{m, n}].den \in Positives
        /\ fine.of[m] \in Nat
    BY <1>5, <2>1 DEF Fraction, Positives
  <2>3. \A x, y \in Nat, z \in Positives : (x * y) \div z \in Nat
    BY DEF Positives
  <2> QED BY <2>2, <2>3
<1>7. v \in [Nodes -> Int]
  BY <1>6
<1>8. Contributing(n, fine, direct, v)
  BY <1>7 DEF Contributing
<1> HIDE DEF v
<1>9. PICK t : IsSum(v, Nodes, t)
  BY <1>7, NodesNumbered, SumExists
<1>10. added = t[Nodes \ {n}]
  BY <1>8, <1>9, ContributionIsSum
<1>11. added \in Nat
  BY <1>6, <1>9, <1>10, NodesNumbered, SumOfNaturals
<1> HIDE DEF added
<1>12. h = [fine EXCEPT !.of[n] = @ + added]
  BY DEF updateGlobalTrust, Factor, c, fine, added
<1>13. fine = [unit |-> c * g.unit, of |-> [m \in Nodes |-> c * g.of[m]]]
  BY DEF fine, Finer
<1> HIDE DEF h
<1>14. h = [unit |-> c * g.unit,
            of |-> [m \in Nodes |-> IF m = n THEN c * g.of[m] + added ELSE c * g.of[m]]]
  BY <1>12, <1>13
<1>15. /\ h.unit = c * g.unit /\ h.of[n] = c * g.of[n] + added
       /\ \A m \in Nodes \ {n} : h.of[m] = c * g.of[m]
  BY <1>14
<1>16. h \in Trusts
  <2>1. c * g.unit \in Positives /\ \A m \in Nodes : c * g.of[m] \in Positives
    BY <1>1, <1>2, <1>4
  <2>2. \A m \in Nodes : c * g.of[m] + added \in Positives
    BY <1>11, <2>1 DEF Positives
  <2> QED BY <1>14, <2>1, <2>2 DEF Trusts
<1> QED BY <1>11, <1>15, <1>16 DEF c, h, added, fine

\* GlobalTrust, node by node.
LEMMA GlobalSteps ==
  ASSUME NEW direct \in [Pairs -> Fraction], NEW start \in Trusts
  PROVE  \E D \in [0..NUM_NODES -> Trusts] :
            /\ D[0] = start
            /\ \A k \in Numbers : D[k] = updateGlobalTrust(allNodes[k], D[k - 1], direct)
            /\ D[NUM_NODES] = GlobalTrust(start, direct)
<1> DEFINE V == Trusts
           step == [p \in Numbers \X V |-> updateGlobalTrust(allNodes[p[1]], p[2], direct)]
           pick == [s \in SUBSET Numbers |-> Max(s)]
           next(s, g) == IF s = {} THEN start
                         ELSE updateGlobalTrust(allNodes[Max(s)], g[s \ {Max(s)}], direct)
           Raw(g) == g = [s \in SUBSET Numbers |-> next(s, g)]
<1>1. GlobalTrust(start, direct) = (CHOOSE g : Raw(g))[Numbers]
  <2>1. Numbers = DOMAIN allNodes
    BY MaxOfNumbers
  <2> HIDE DEF Numbers
  <2> QED BY <2>1 DEF GlobalTrust, FoldLeft, MapThenFoldSet
<1>2. start \in V
  OBVIOUS
<1>3. \A k \in Numbers, v \in V : step[<<k, v>>] = updateGlobalTrust(allNodes[k], v, direct)
  OBVIOUS
<1>4. \A k \in Numbers : allNodes[k] \in Nodes
  BY NodesNumbered DEF Numbers
<1>5. step \in [Numbers \X V -> V]
  BY <1>4, GlobalTypes
<1>6. \A s \in SUBSET Numbers : s # {} => pick[s] \in s
  BY MaxOfNumbers
<1>7. \A s \in SUBSET Numbers : pick[s] = Max(s)
  OBVIOUS
<1> HIDE DEF V, step, pick
<1>8. \E g : Raw(g)
  <2>1. PICK g : IsFold(Numbers, V, pick, start, step, g)
    BY <1>2, <1>5, <1>6, FoldExists, MaxOfNumbers
  <2>2. ASSUME NEW s \in SUBSET Numbers PROVE g[s] = next(s, g)
    <3>1. CASE s = {}
      BY <2>1, <3>1 DEF IsFold
    <3>2. CASE s # {}
      <4>1. Max(s) \in Numbers /\ s \ {Max(s)} \in SUBSET Numbers /\ pick[s] = Max(s)
        BY <1>6, <1>7, <3>2
      <4>2. g[s \ {Max(s)}] \in V
        BY <2>1, <4>1 DEF IsFold
      <4>3. g[s] = step[<<Max(s), g[s \ {Max(s)}]>>]
        BY <2>1, <3>2, <4>1 DEF IsFold
      <4> QED BY <1>3, <3>2, <4>1, <4>2, <4>3
    <3> QED BY <3>1, <3>2
  <2>3. g = [s \in SUBSET Numbers |-> g[s]]
    BY <2>1 DEF IsFold
  <2> HIDE DEF next
  <2> QED BY <2>2, <2>3
<1> DEFINE h == CHOOSE g : Raw(g)
<1>9. Raw(h)
  <2> HIDE DEF Raw
  <2> QED BY <1>8
<1> HIDE DEF h
<1>10. h[{}] = start
  BY <1>9
<1>11. Stepwise(V, step, h)
  <2> SUFFICES ASSUME NEW k \in Numbers, h[1..(k - 1)] \in V
               PROVE  h[1..k] = step[<<k, h[1..(k - 1)]>>]
    BY DEF Stepwise
  <2>1. 1..k \in SUBSET Numbers /\ 1..k # {} /\ Max(1..k) = k /\ (1..k) \ {k} = 1..(k - 1)
    BY MaxOfNumbers
  <2>2. h[1..k] = next(1..k, h)
    <3> HIDE DEF next
    <3> QED BY <1>9, <2>1
  <2>3. h[1..k] = updateGlobalTrust(allNodes[k], h[1..(k - 1)], direct)
    BY <2>1, <2>2
  <2> QED BY <1>3, <2>3
<1> HIDE DEF Raw
<1>12. PICK D : IsSteps(V, start, step, D) /\ D[NUM_NODES] = h[Numbers]
  BY <1>2, <1>5, <1>10, <1>11, LeftSteps
<1>13. ASSUME NEW k \in Numbers PROVE D[k] = updateGlobalTrust(allNodes[k], D[k - 1], direct)
  <2>1. k - 1 \in 0..NUM_NODES
    BY NodesNumbered DEF Numbers
  <2>2. D[k - 1] \in V
    BY <1>12, <2>1 DEF IsSteps
  <2> QED BY <1>3, <1>12, <2>2 DEF IsSteps
<1> QED BY <1>1, <1>12, <1>13 DEF V, h, IsSteps

----------------------------------------------------------------------------
(* Types, groups, and what they are cut from.                              *)

\* The trust there is, as GlobalTrust takes it.
TrustNow == [unit |-> unit, of |-> globalTrust]

\* A proper fraction for each pair.
Proper(direct) ==
    /\ direct \in [Pairs -> Fraction]
    /\ \A pair \in Pairs : direct[pair].num \in 0..direct[pair].den

\* TypeOK without the order, and with the types it leaves out.
Types ==
    /\ balance \in [Pairs -> Int]
    /\ Proper(Direct_Trust)
    /\ TrustNow \in Trusts

\* The groups are cut from the nodes in the order of the trust of this moment.
Sorted ==
    /\ trustVector \in Orders
    /\ Descending(trustVector, globalTrust)
    /\ consensusGroup = SubSeq(trustVector, 1, ConsensusSize)
    /\ primaryGroup = SubSeq(consensusGroup, 1, PrimarySize)

\* DirectTrust writes nothing but proper fractions: each turn does.
LEMMA DirectIsProper ==
  ASSUME balance \in [Pairs -> Int]
  PROVE  Proper(DirectTrust)
<1>1. PICK D \in [0..NUM_NODES -> [Pairs -> Fraction]] :
         /\ D[0] = Untold
         /\ \A k \in Numbers : D[k] = updateDirectTrust(allNodes[k], D[k - 1])
         /\ D[NUM_NODES] = DirectTrust
  BY DirectSteps
<1> DEFINE K == {k \in Nat : k <= NUM_NODES => Proper(D[k])}
<1>2. NUM_NODES \in Nat /\ NUM_NODES >= 2
  BY NodesNumbered
<1>3. 0 \in K
  <2>1. D[0] \in [Pairs -> Fraction]
    BY <1>1, <1>2
  <2>2. \A pair \in Pairs : D[0][pair].num = 0 /\ D[0][pair].den = 1
    BY <1>1 DEF Untold
  <2> QED BY <2>1, <2>2 DEF Proper
<1>4. ASSUME NEW k \in Nat, k \in K PROVE k + 1 \in K
  <2> SUFFICES ASSUME k + 1 <= NUM_NODES PROVE Proper(D[k + 1])
    OBVIOUS
  <2> DEFINE n == allNodes[k + 1]
  <2>1. k + 1 \in Numbers /\ (k + 1) - 1 = k /\ k <= NUM_NODES /\ n \in Nodes
    BY <1>2, NodesNumbered DEF Numbers
  <2>2. Proper(D[k]) /\ D[k + 1] = updateDirectTrust(n, D[k])
    BY <1>1, <1>4, <2>1
  <2>3. /\ D[k + 1] \in [Pairs -> Fraction]
        /\ \A pair \in PairsOf(n) : D[k + 1][pair].num \in 0..D[k + 1][pair].den
    <3>1. D[k] \in [Pairs -> Fraction]
      BY <2>2 DEF Proper
    <3> HIDE DEF n
    <3> QED BY <2>1, <2>2, <3>1, DirectTypes
  <2>4. \A pair \in Pairs \ PairsOf(n) : D[k + 1][pair] = D[k][pair]
    BY <2>2 DEF updateDirectTrust
  <2> HIDE DEF n
  <2> QED BY <2>2, <2>3, <2>4 DEF Proper
<1>5. Nat \subseteq K
  <2> HIDE DEF K
  <2> QED BY <1>3, <1>4, NaturalsInSet
<1> QED BY <1>1, <1>2, <1>5

\* GlobalTrust keeps trust positive: each turn does.
LEMMA GlobalIsTrust ==
  ASSUME NEW direct \in [Pairs -> Fraction], NEW start \in Trusts
  PROVE  GlobalTrust(start, direct) \in Trusts
<1>1. NUM_NODES \in 0..NUM_NODES
  BY NodesNumbered
<1> QED BY <1>1, GlobalSteps

\* What the constructor starts from.
LEMMA UniformIsTrust == Uniform \in Trusts
BY NodesNumbered DEF Uniform, Trusts, Positives

\* The inductive invariant: types, and groups cut from an order by the trust
\* there is.  Rewards change balances only, acknowledgements sort after trust.
LEMMA TypesInvariant == Spec => [](Types /\ Sorted)
<1>1. Init => Types /\ Sorted
  <2> SUFFICES ASSUME Init PROVE Types /\ Sorted
    OBVIOUS
  <2>1. balance \in [Pairs -> Int]
    BY NodesAssumption DEF Init
  <2>2. Proper(Direct_Trust)
    BY <2>1, DirectIsProper DEF Init
  <2>3. GlobalTrust(Uniform, Direct_Trust) \in Trusts
    BY <2>2, UniformIsTrust, GlobalIsTrust DEF Proper
  <2>4. TrustNow = GlobalTrust(Uniform, Direct_Trust)
    BY <2>3 DEF Init, TrustNow, Trusts
  <2> QED BY <2>1, <2>2, <2>3, <2>4 DEF Init, Types, Sorted
<1>2. Types /\ Sorted /\ [Next]_vars => (Types /\ Sorted)'
  <2> SUFFICES ASSUME Types, Sorted, [Next]_vars PROVE (Types /\ Sorted)'
    OBVIOUS
  <2>1. CASE ack_handler
    <3>1. balance' = balance /\ Direct_Trust' = DirectTrust
      BY <2>1 DEF ack_handler
    <3>2. Proper(Direct_Trust)'
      BY <3>1, DirectIsProper DEF Types, Proper
    <3>3. GlobalTrust(TrustNow, Direct_Trust') \in Trusts
      BY <3>2, GlobalIsTrust DEF Types, Proper
    <3>4. TrustNow' = GlobalTrust(TrustNow, Direct_Trust')
      BY <2>1, <3>3 DEF ack_handler, TrustNow, Trusts
    <3>5. Types'
      BY <3>1, <3>2, <3>3, <3>4 DEF Types
    <3>6. Sorted'
      BY <2>1 DEF ack_handler, getConsensusGroup, getPrimaryGroup, Sorted
    <3> QED BY <3>5, <3>6
  <2>2. ASSUME NEW m \in Nodes, NEW n \in Nodes, updateTrust(m, n)
        PROVE  (Types /\ Sorted)'
    <3>1. balance' \in [Pairs -> Int]
      <4>1. PICK p : p = {m, n}
        OBVIOUS
      <4>2. balance \in [Pairs -> Int] /\ balance' = [balance EXCEPT ![p] = @ + 1]
        BY <2>2, <4>1 DEF updateTrust, Types
      <4>3. balance' = [pair \in Pairs |-> IF pair = p THEN balance[pair] + 1 ELSE balance[pair]]
        BY <4>2, Zenon
      <4>4. \A pair \in Pairs : balance[pair] \in Int
        BY <4>2
      <4> QED BY <4>3, <4>4
    <3>2. UNCHANGED <<trustVars, groupVars>>
      BY <2>2 DEF updateTrust
    <3> QED BY <3>1, <3>2 DEF trustVars, groupVars, Types, Sorted, Proper, TrustNow, Descending
  <2>3. CASE UNCHANGED vars
    BY <2>3 DEF vars, trustVars, groupVars, Types, Sorted, Proper, TrustNow, Descending
  <2> QED BY <2>1, <2>2, <2>3 DEF Next
<1> QED BY <1>1, <1>2, PTL DEF Spec

\* Every entry is a proper fraction, trust is positive, groups hold nodes.
THEOREM TrustTypes == Spec => []TypeOK
<1>1. Types /\ Sorted => TypeOK
  BY DEF Types, Sorted, Proper, TypeOK, TrustNow, Trusts, Positives
<1> QED BY <1>1, TypesInvariant, PTL

\* The groups are the first nodes of the order.
LEMMA GroupsAreFirst ==
  ASSUME Sorted
  PROVE  /\ trustVector \in [Numbers -> Nodes]
         /\ \A n \in Nodes : \E i \in Numbers : n = trustVector[i]
         /\ ConsensusSize \in Numbers /\ PrimarySize \in 1..ConsensusSize
         /\ ToSet(consensusGroup) = {trustVector[i] : i \in 1..ConsensusSize}
         /\ ToSet(primaryGroup) = {trustVector[i] : i \in 1..PrimarySize}
<1>1. /\ trustVector \in [Numbers -> Nodes]
      /\ \A n \in Nodes : \E i \in Numbers : n = trustVector[i]
  BY DEF Sorted, Orders, ToSet, Numbers
<1>2. /\ NUM_NODES \in Nat /\ ConsensusSize \in 1..NUM_NODES /\ PrimarySize \in 1..ConsensusSize
  BY NodesNumbered, NodesAssumption
<1>3. consensusGroup = [i \in 1..ConsensusSize |-> trustVector[i]]
  <2>1. trustVector \in Seq(Nodes) /\ Len(trustVector) = NUM_NODES
    BY <1>1, <1>2 DEF Numbers
  <2>2. SubSeq(trustVector, 1, ConsensusSize) = [i \in 1..ConsensusSize |-> trustVector[i]]
    BY <1>2, <2>1
  <2> QED BY <2>2 DEF Sorted
<1>4. primaryGroup = [i \in 1..PrimarySize |-> trustVector[i]]
  <2>1. consensusGroup \in Seq(Nodes) /\ Len(consensusGroup) = ConsensusSize
    BY <1>1, <1>2, <1>3 DEF Numbers
  <2>2. SubSeq(consensusGroup, 1, PrimarySize) = [i \in 1..PrimarySize |-> consensusGroup[i]]
    BY <1>2, <2>1
  <2>3. \A i \in 1..PrimarySize : consensusGroup[i] = trustVector[i]
    BY <1>2, <1>3
  <2>4. primaryGroup = [i \in 1..PrimarySize |-> consensusGroup[i]]
    BY <2>2 DEF Sorted
  <2> QED BY <2>3, <2>4
<1>5. ToSet(consensusGroup) = {trustVector[i] : i \in 1..ConsensusSize}
  BY <1>3 DEF ToSet
<1>6. ToSet(primaryGroup) = {trustVector[i] : i \in 1..PrimarySize}
  BY <1>4 DEF ToSet
<1> QED BY <1>1, <1>2, <1>5, <1>6 DEF Numbers

\* Nobody outside a group is trusted more than a node in it.
THEOREM BestGroups == Spec => []GroupsAreBest
<1>1. ASSUME Sorted PROVE GroupsAreBest
  <2>1. /\ trustVector \in [Numbers -> Nodes]
        /\ \A n \in Nodes : \E i \in Numbers : n = trustVector[i]
        /\ ConsensusSize \in Numbers /\ PrimarySize \in 1..ConsensusSize
        /\ ToSet(consensusGroup) = {trustVector[i] : i \in 1..ConsensusSize}
        /\ ToSet(primaryGroup) = {trustVector[i] : i \in 1..PrimarySize}
    BY <1>1, GroupsAreFirst
  <2>2. \A i, j \in Numbers : i < j => globalTrust[trustVector[i]] >= globalTrust[trustVector[j]]
    BY <1>1, <2>1 DEF Sorted, Descending
  <2>3. ASSUME NEW k \in Numbers, NEW G, G = {trustVector[i] : i \in 1..k},
               NEW m \in G, NEW n \in Nodes \ G
        PROVE  globalTrust[m] >= globalTrust[n]
    <3>1. PICK i \in 1..k : m = trustVector[i]
      BY <2>3
    <3>2. PICK j \in Numbers : n = trustVector[j]
      BY <2>1
    <3>3. j \notin 1..k
      BY <2>3, <3>2
    <3>4. i \in Numbers /\ i < j
      BY <3>3, NodesNumbered DEF Numbers
    <3> QED BY <2>2, <3>1, <3>2, <3>4
  <2>4. PrimarySize \in Numbers
    BY <2>1, NodesNumbered DEF Numbers
  <2> QED BY <2>1, <2>3, <2>4 DEF GroupsAreBest
<1> QED BY <1>1, TypesInvariant, PTL

----------------------------------------------------------------------------
(* Nobody in credit.                                                       *)

\* The hypothesis of NobodyInCreditReverses.
NobodyInCredit == \A pair \in Pairs : balance[pair] <= 0

\* Then each node trusts each other one the same.
LEMMA EvenWithoutCredit ==
  ASSUME balance \in [Pairs -> Int], NobodyInCredit
  PROVE  \A pair \in Pairs : DirectTrust[pair] = [num |-> 1, den |-> NUM_NODES]
<1>1. PICK D \in [0..NUM_NODES -> [Pairs -> Fraction]] :
         /\ D[0] = Untold
         /\ \A k \in Numbers : D[k] = updateDirectTrust(allNodes[k], D[k - 1])
         /\ D[NUM_NODES] = DirectTrust
  BY DirectSteps
<1> DEFINE even == [num |-> 1, den |-> NUM_NODES]
           K == {k \in Nat : k <= NUM_NODES =>
                    \A i \in 1..k : \A pair \in PairsOf(allNodes[i]) : D[k][pair] = even}
<1> HIDE DEF even
<1>2. NUM_NODES \in Nat
  BY NodesNumbered
<1>3. 0 \in K
  OBVIOUS
<1>4. ASSUME NEW k \in Nat, k \in K PROVE k + 1 \in K
  <2> SUFFICES ASSUME k + 1 <= NUM_NODES, NEW i \in 1..(k + 1), NEW pair \in PairsOf(allNodes[i])
               PROVE  D[k + 1][pair] = even
    OBVIOUS
  <2>1. /\ k + 1 \in Numbers /\ (k + 1) - 1 = k /\ k <= NUM_NODES
        /\ allNodes[k + 1] \in Nodes /\ allNodes[i] \in Nodes
    BY <1>2, NodesNumbered DEF Numbers
  <2>2. Stotal(allNodes[k + 1]) = 0
    BY <2>1, StotalBounds DEF NobodyInCredit
  <2>3. pair \in Pairs
    BY <2>1, PairsOfNode
  <2>4. D[k + 1] = updateDirectTrust(allNodes[k + 1], D[k])
    BY <1>1, <2>1
  <2>5. CASE pair \in PairsOf(allNodes[k + 1])
    BY <2>2, <2>3, <2>4, <2>5 DEF updateDirectTrust, even
  <2>6. CASE pair \notin PairsOf(allNodes[k + 1])
    <3>1. i \in 1..k
      BY <2>6
    <3>2. D[k][pair] = even
      BY <1>4, <2>1, <3>1
    <3> QED BY <2>3, <2>4, <2>6, <3>2 DEF updateDirectTrust
  <2> QED BY <2>5, <2>6
<1>5. Nat \subseteq K
  <2> HIDE DEF K
  <2> QED BY <1>3, <1>4, NaturalsInSet
<1>6. NUM_NODES \in K
  <2> HIDE DEF K
  <2> QED BY <1>2, <1>5
<1>7. ASSUME NEW pair \in Pairs PROVE DirectTrust[pair] = even
  <2>1. PICK i \in 1..NUM_NODES : pair \in PairsOf(allNodes[i])
    BY PairOfSome
  <2> QED BY <1>1, <1>2, <1>6, <2>1
<1> QED BY <1>7 DEF even

\* Terms scaled, their sum is scaled.
LEMMA SumScales ==
  ASSUME NEW S, IsFiniteSet(S), NEW a \in [S -> Int], NEW b \in [S -> Int], NEW c \in Int,
         NEW t, IsSum(a, S, t), NEW u, IsSum(b, S, u)
  PROVE  \A s \in SUBSET S : (\A x \in s : b[x] = c * a[x]) => u[s] = c * t[s]
<1> DEFINE P == {s \in SUBSET S : (\A x \in s : b[x] = c * a[x]) => u[s] = c * t[s]}
<1>1. ASSUME NEW s \in SUBSET S, \A r \in SUBSET s : r # s => r \in P
      PROVE  s \in P
  <2> SUFFICES ASSUME \A x \in s : b[x] = c * a[x] PROVE u[s] = c * t[s]
    OBVIOUS
  <2>1. CASE s = {}
    BY <2>1 DEF IsSum
  <2>2. CASE s # {}
    <3>1. PICK x \in s : TRUE
      BY <2>2
    <3>2. s \ {x} \in P
      BY <1>1
    <3>3. u[s \ {x}] = c * t[s \ {x}]
      BY <3>2
    <3>4. t[s] = a[x] + t[s \ {x}] /\ u[s] = b[x] + u[s \ {x}]
      BY DEF IsSum
    <3>5. t[s \ {x}] \in Int /\ a[x] \in Int /\ b[x] = c * a[x]
      BY DEF IsSum
    <3>6. \A y, z \in Int : c * (y + z) = c * y + c * z
      OBVIOUS
    <3> QED BY <3>3, <3>4, <3>5, <3>6
  <2> QED BY <2>1, <2>2
<1>2. SUBSET S \subseteq P
  <2> HIDE DEF P
  <2> QED BY <1>1, SubsetsInSet
<1> QED BY <1>2

\* One node's turn when everyone trusts everyone the same: its trust grows by
\* that of all the others.
LEMMA EvenTurn ==
  ASSUME NEW n \in Nodes, NEW g \in Trusts, NEW direct \in [Pairs -> Fraction],
         \A pair \in Pairs : direct[pair] = [num |-> 1, den |-> NUM_NODES],
         NEW t, IsSum(g.of, Nodes, t)
  PROVE  LET h == updateGlobalTrust(n, g, direct)
         IN  /\ h.of[n] = NUM_NODES * g.of[n] + t[Nodes \ {n}]
             /\ \A m \in Nodes \ {n} : h.of[m] = NUM_NODES * g.of[m]
<1>1. NUM_NODES \in Positives
  BY NodesNumbered DEF Positives
<1>2. Factor(n, direct) = NUM_NODES
  BY FactorDivides, PairsOfNode
<1> DEFINE fine == Finer(g, NUM_NODES)
<1>3. Contributing(n, fine, direct, g.of)
  <2>1. g.of \in [Nodes -> Int]
    BY DEF Trusts, Positives
  <2>2. ASSUME NEW m \in Nodes \ {n}
        PROVE  g.of[m] = (fine.of[m] * direct[{m, n}].num) \div direct[{m, n}].den
    <3>1. {m, n} \in Pairs
      BY PairsOfNode
    <3>2. direct[{m, n}].num = 1 /\ direct[{m, n}].den = NUM_NODES
      BY <3>1
    <3>3. fine.of[m] = NUM_NODES * g.of[m]
      BY DEF Finer
    <3>4. g.of[m] \in Nat
      BY DEF Trusts, Positives
    <3>5. NUM_NODES * g.of[m] \in Nat
      BY <1>1, <3>4 DEF Positives
    <3>6. (fine.of[m] * 1) \div NUM_NODES = g.of[m]
      BY <1>1, <3>3, <3>4, <3>5, Divides
    <3> QED BY <3>2, <3>6
  <2> QED BY <2>1, <2>2 DEF Contributing
<1>4. Contribution(n, fine, direct) = t[Nodes \ {n}]
  BY <1>3, ContributionIsSum
<1> HIDE DEF fine
<1>5. LET c == Factor(n, direct)
          h == updateGlobalTrust(n, g, direct)
      IN  /\ h.of[n] = c * g.of[n] + Contribution(n, Finer(g, c), direct)
          /\ \A m \in Nodes \ {n} : h.of[m] = c * g.of[m]
  BY GlobalTypes
<1> QED BY <1>2, <1>4, <1>5 DEF fine

\* When the first k nodes had their turn they are in strict order, those to
\* come still in the order they were in, and the next will overtake the last.
Rising(k, of) ==
    /\ \A i, j \in Numbers : i < j /\ j <= k => of[allNodes[i]] < of[allNodes[j]]
    /\ \A i, j \in Numbers : k < i /\ i < j => of[allNodes[i]] <= of[allNodes[j]]
    /\ k \in Numbers /\ k + 1 \in Numbers =>
         \A t : IsSum(of, Nodes, t) =>
            NUM_NODES * of[allNodes[k]]
               < NUM_NODES * of[allNodes[k + 1]] + t[Nodes \ {allNodes[k + 1]}]

\* The arithmetic of the last of these.
LEMMA NextOvertakes ==
  ASSUME NEW c \in Positives, NEW a \in Nat, NEW b \in Nat, a <= b, NEW r \in Positives
  PROVE  c * (c * a + r) < c * (c * b) + ((c * a + r) + c * (r - b))
<1> DEFINE d == b - a
<1>1. d \in Nat /\ b = a + d /\ r - b \in Int
  BY DEF Positives
<1> HIDE DEF d
<1>2. \A x, y \in Int : c * (x + y) = c * x + c * y /\ c * (x - y) = c * x - c * y /\ c * x \in Int
  BY DEF Positives
<1>3. \A x \in Nat : c * x >= x /\ c * x \in Nat
  BY DEF Positives
<1>4. c * (c * a + r) = c * (c * a) + c * r /\ c * (r - b) = c * r - c * b
  BY <1>2 DEF Positives
<1>5. c * b = c * a + c * d
  BY <1>1, <1>2
<1>6. c * (c * b) = c * (c * a) + c * (c * d)
  <2>1. c * a \in Int /\ c * d \in Int
    <3>1. c * a \in Nat /\ c * d \in Nat
      BY <1>1, <1>3
    <3> QED BY <3>1
  <2>2. c * (c * a + c * d) = c * (c * a) + c * (c * d)
    BY <1>2, <2>1
  <2> QED BY <1>5, <2>2
<1>7. c * (c * d) >= c * d /\ c * d \in Nat /\ c * (c * d) \in Nat
  BY <1>1, <1>3
<1>8. c * a \in Nat /\ c * (c * a) \in Nat /\ c * r \in Nat /\ r > 0 /\ r \in Nat
  BY <1>3 DEF Positives
<1> HIDE <1>1, <1>2, <1>3
<1> QED BY <1>4, <1>5, <1>6, <1>7, <1>8

\* A finer unit keeps what is more and what is less.
LEMMA ScaleOrder ==
  ASSUME NEW c \in Positives, NEW x \in Nat, NEW y \in Nat
  PROVE  /\ c * x \in Nat /\ c * x >= x
         /\ x < y => c * x < c * y
         /\ x <= y => c * x <= c * y
BY DEF Positives

\* Each turn keeps this up.
LEMMA EvenTurnRises ==
  ASSUME NEW k \in Nat, k + 1 \in Numbers, NEW g \in Trusts, Rising(k, g.of),
         NEW direct \in [Pairs -> Fraction],
         \A pair \in Pairs : direct[pair] = [num |-> 1, den |-> NUM_NODES]
  PROVE  Rising(k + 1, updateGlobalTrust(allNodes[k + 1], g, direct).of)
<1> DEFINE n == allNodes[k + 1]
           h == updateGlobalTrust(n, g, direct)
           of(i) == g.of[allNodes[i]]
           to(i) == h.of[allNodes[i]]
<1>1. /\ \A i \in Numbers : allNodes[i] \in Nodes
      /\ \A i, j \in Numbers : allNodes[i] = allNodes[j] => i = j
      /\ n \in Nodes /\ IsFiniteSet(Nodes) /\ NUM_NODES \in Nat /\ NUM_NODES >= 2
  BY NodesNumbered DEF Numbers
<1>2. g.of \in [Nodes -> Int] /\ g.of \in [Nodes -> Nat] /\ g.of \in [Nodes -> Positives]
  BY DEF Trusts, Positives
<1>3. PICK t : IsSum(g.of, Nodes, t)
  BY <1>1, <1>2, SumExists
<1> HIDE DEF n
<1>4. /\ h.of[n] = NUM_NODES * g.of[n] + t[Nodes \ {n}]
      /\ \A m \in Nodes \ {n} : h.of[m] = NUM_NODES * g.of[m]
  BY <1>1, <1>3, EvenTurn
<1>5. h \in Trusts
  BY <1>1, GlobalTypes
<1> HIDE DEF h
<1>6. h.of \in [Nodes -> Int]
  BY <1>5 DEF Trusts, Positives
<1>7. NUM_NODES \in Positives /\ NUM_NODES \in Int
  BY <1>1 DEF Positives
<1>8. /\ \A i \in Numbers : of(i) \in Nat /\ of(i) \in Int
      /\ \A i \in Numbers \ {k + 1} : to(i) = NUM_NODES * of(i)
      /\ to(k + 1) = NUM_NODES * of(k + 1) + t[Nodes \ {n}]
  <2>1. \A i \in Numbers : of(i) \in Nat
    BY <1>1, <1>2
  <2>2. \A i \in Numbers \ {k + 1} : allNodes[i] \in Nodes \ {n}
    BY <1>1 DEF n
  <2> QED BY <1>4, <2>1, <2>2 DEF n
<1>9. t[Nodes \ {n}] \in Positives
  <2>1. \A s \in SUBSET Nodes : t[s] \in Nat /\ \A x \in s : g.of[x] <= t[s]
    BY <1>1, <1>2, <1>3, SumOfNaturals
  <2>2. PICK m \in Nodes : m # n
    <3>1. 1 \in Numbers /\ 2 \in Numbers
      BY <1>1 DEF Numbers
    <3> QED BY <1>1, <3>1
  <2>3. m \in Nodes \ {n} /\ Nodes \ {n} \in SUBSET Nodes /\ g.of[m] \in Positives
    BY <1>2, <2>2
  <2> QED BY <2>1, <2>3 DEF Positives
<1>10. ASSUME NEW i \in Numbers, NEW j \in Numbers, i < j, j <= k + 1 PROVE to(i) < to(j)
  <2>1. /\ i \in Numbers \ {k + 1} /\ i \in Nat /\ j \in Nat /\ i <= k /\ i >= 1
    BY <1>1, <1>10 DEF Numbers
  <2>2. to(i) = NUM_NODES * of(i) /\ of(i) \in Nat /\ of(j) \in Nat
    BY <1>8, <2>1
  <2>3. CASE j <= k
    <3>1. of(i) < of(j)
      BY <1>10, <2>3 DEF Rising
    <3>2. j \in Numbers \ {k + 1}
      BY <2>1, <2>3
    <3>3. to(j) = NUM_NODES * of(j)
      BY <1>8, <3>2
    <3> QED BY <1>7, <2>2, <3>1, <3>3, ScaleOrder
  <2>4. CASE j = k + 1
    <3>1. k \in Numbers
      BY <1>1, <2>1, <2>4 DEF Numbers
    <3>2. NUM_NODES * of(k) < to(k + 1)
      BY <1>3, <1>8, <3>1 DEF Rising, n
    <3>3. of(i) <= of(k)
      <4>1. i < k \/ i = k
        BY <2>1
      <4>2. CASE i < k
        <5>1. of(i) < of(k)
          BY <2>1, <3>1, <4>2 DEF Rising
        <5> QED BY <1>8, <3>1, <5>1
      <4>3. CASE i = k
        BY <1>8, <3>1, <4>3
      <4> QED BY <4>1, <4>2, <4>3
    <3>4. /\ NUM_NODES * of(i) <= NUM_NODES * of(k)
          /\ NUM_NODES * of(i) \in Nat /\ NUM_NODES * of(k) \in Nat
      BY <1>7, <1>8, <2>2, <3>1, <3>3, ScaleOrder
    <3>5. to(k + 1) \in Int
      BY <1>1, <1>6
    <3> HIDE DEF of, to
    <3> QED BY <2>2, <2>4, <3>2, <3>4, <3>5
  <2> QED BY <1>10, <2>1, <2>3, <2>4
<1>11. ASSUME NEW i \in Numbers, NEW j \in Numbers, k + 1 < i, i < j PROVE to(i) <= to(j)
  <2>1. i \in Nat /\ j \in Nat
    BY <1>1 DEF Numbers
  <2>2. i \in Numbers \ {k + 1} /\ j \in Numbers \ {k + 1} /\ k < i
    BY <1>11, <2>1
  <2>3. of(i) <= of(j)
    BY <1>11, <2>2 DEF Rising
  <2> QED BY <1>7, <1>8, <2>2, <2>3, ScaleOrder
<1>12. ASSUME (k + 1) + 1 \in Numbers, NEW u, IsSum(h.of, Nodes, u)
       PROVE  NUM_NODES * to(k + 1)
                 < NUM_NODES * to((k + 1) + 1) + u[Nodes \ {allNodes[(k + 1) + 1]}]
  <2> DEFINE l == k + 2
             m == allNodes[l]
             O == (Nodes \ {m}) \ {n}
  <2>1. l = (k + 1) + 1 /\ l \in Numbers /\ l # k + 1 /\ k < k + 1 /\ k + 1 < l
    BY <1>12
  <2>2. m \in Nodes /\ m # n /\ O \in SUBSET Nodes /\ O = (Nodes \ {n}) \ {m}
    BY <1>1, <2>1 DEF n
  <2> HIDE DEF l, m, O
  <2>3. of(k + 1) <= of(l)
    BY <2>1 DEF Rising
  <2>4. to(l) = NUM_NODES * of(l) /\ of(l) = g.of[m]
    BY <1>8, <2>1 DEF m
  <2>5. u[Nodes \ {m}] = to(k + 1) + u[O]
    <3>1. n \in Nodes \ {m} /\ Nodes \ {m} \in SUBSET Nodes
      BY <1>1, <2>2
    <3>2. u[Nodes \ {m}] = h.of[n] + u[(Nodes \ {m}) \ {n}]
      BY <1>12, <3>1 DEF IsSum
    <3> QED BY <3>2 DEF O, n
  <2>6. t[Nodes \ {n}] = of(l) + t[O]
    BY <1>3, <2>2, <2>4 DEF IsSum
  <2>7. u[O] = NUM_NODES * t[O]
    <3>1. \A x \in O : h.of[x] = NUM_NODES * g.of[x]
      BY <1>4, <2>2 DEF O
    <3> QED BY <1>1, <1>2, <1>3, <1>6, <1>7, <1>12, <2>2, <3>1, SumScales
  <2> DEFINE r == t[Nodes \ {n}]
  <2>8. r \in Positives /\ of(k + 1) \in Nat /\ of(l) \in Nat /\ t[O] \in Int
    BY <1>3, <1>8, <1>9, <2>1, <2>2 DEF IsSum
  <2>9. t[O] = r - of(l)
    BY <2>6, <2>8 DEF Positives
  <2>10. to(k + 1) = NUM_NODES * of(k + 1) + r
    BY <1>8
  <2> HIDE DEF r, of, to
  <2>11. NUM_NODES * to(k + 1) < NUM_NODES * to(l) + (to(k + 1) + NUM_NODES * (r - of(l)))
    BY <1>7, <2>3, <2>4, <2>8, <2>10, NextOvertakes
  <2> QED BY <2>1, <2>5, <2>7, <2>9, <2>11 DEF m
<1>13. (k + 1) \in Numbers /\ n = allNodes[k + 1]
  BY DEF n
<1> QED BY <1>10, <1>11, <1>12 DEF Rising, h, n

\* The nodes are trusted the more the later they were built.
Increasing(of) ==
    \A i, j \in Numbers : i < j => of[allNodes[i]] < of[allNodes[j]]

\* After all the turns they are, if it was not the other way before.
LEMMA EvenRound ==
  ASSUME NEW direct \in [Pairs -> Fraction],
         \A pair \in Pairs : direct[pair] = [num |-> 1, den |-> NUM_NODES],
         NEW start \in Trusts, Rising(0, start.of)
  PROVE  Increasing(GlobalTrust(start, direct).of)
<1>1. PICK D \in [0..NUM_NODES -> Trusts] :
         /\ D[0] = start
         /\ \A k \in Numbers : D[k] = updateGlobalTrust(allNodes[k], D[k - 1], direct)
         /\ D[NUM_NODES] = GlobalTrust(start, direct)
  BY GlobalSteps
<1> DEFINE K == {k \in Nat : k <= NUM_NODES => Rising(k, D[k].of)}
<1>2. NUM_NODES \in Nat
  BY NodesNumbered
<1>3. 0 \in K
  BY <1>1
<1>4. ASSUME NEW k \in Nat, k \in K PROVE k + 1 \in K
  <2> SUFFICES ASSUME k + 1 <= NUM_NODES PROVE Rising(k + 1, D[k + 1].of)
    OBVIOUS
  <2>1. k + 1 \in Numbers /\ (k + 1) - 1 = k /\ k <= NUM_NODES /\ k \in 0..NUM_NODES
    BY <1>2 DEF Numbers
  <2>2. Rising(k, D[k].of) /\ D[k] \in Trusts
    BY <1>4, <2>1
  <2>3. D[k + 1] = updateGlobalTrust(allNodes[k + 1], D[k], direct)
    BY <1>1, <2>1
  <2> QED BY <2>1, <2>2, <2>3, EvenTurnRises
<1>5. Nat \subseteq K
  <2> HIDE DEF K
  <2> QED BY <1>3, <1>4, NaturalsInSet
<1>6. Rising(NUM_NODES, D[NUM_NODES].of)
  BY <1>2, <1>5
<1>7. \A j \in Numbers : j <= NUM_NODES
  BY <1>2 DEF Numbers
<1> QED BY <1>1, <1>6, <1>7 DEF Rising, Increasing

\* The only way down through the numbers is one by one.
LEMMA WayDown ==
  ASSUME NEW p \in [Numbers -> Numbers], \A i, j \in Numbers : i < j => p[i] > p[j]
  PROVE  \A i \in Numbers : p[i] = NUM_NODES - i + 1
<1> DEFINE A == {k \in Nat : k < NUM_NODES => p[k + 1] <= NUM_NODES - k}
           B == {k \in Nat : k < NUM_NODES => p[NUM_NODES - k] >= k + 1}
<1>1. NUM_NODES \in Nat /\ NUM_NODES >= 2
  BY NodesNumbered
<1>2. \A i \in Numbers : p[i] \in Nat /\ p[i] >= 1 /\ p[i] <= NUM_NODES
  BY <1>1 DEF Numbers
<1>3. Nat \subseteq A
  <2>1. 0 \in A
    <3>1. 1 \in Numbers
      BY <1>1 DEF Numbers
    <3> QED BY <1>1, <1>2, <3>1
  <2>2. ASSUME NEW k \in Nat, k \in A PROVE k + 1 \in A
    <3> SUFFICES ASSUME k + 1 < NUM_NODES PROVE p[(k + 1) + 1] <= NUM_NODES - (k + 1)
      OBVIOUS
    <3>1. k + 1 \in Numbers /\ (k + 1) + 1 \in Numbers /\ k + 1 < (k + 1) + 1 /\ k < NUM_NODES
      BY <1>1 DEF Numbers
    <3>2. p[k + 1] > p[(k + 1) + 1] /\ p[k + 1] <= NUM_NODES - k
      BY <2>2, <3>1
    <3> QED BY <1>1, <1>2, <3>1, <3>2
  <2> HIDE DEF A
  <2> QED BY <2>1, <2>2, NaturalsInSet
<1>4. Nat \subseteq B
  <2>1. 0 \in B
    <3>1. NUM_NODES \in Numbers /\ NUM_NODES - 0 = NUM_NODES
      BY <1>1 DEF Numbers
    <3> QED BY <1>1, <1>2, <3>1
  <2>2. ASSUME NEW k \in Nat, k \in B PROVE k + 1 \in B
    <3> SUFFICES ASSUME k + 1 < NUM_NODES PROVE p[NUM_NODES - (k + 1)] >= (k + 1) + 1
      OBVIOUS
    <3>1. /\ NUM_NODES - (k + 1) \in Numbers /\ NUM_NODES - k \in Numbers
          /\ NUM_NODES - (k + 1) < NUM_NODES - k /\ k < NUM_NODES
      BY <1>1 DEF Numbers
    <3>2. p[NUM_NODES - (k + 1)] > p[NUM_NODES - k] /\ p[NUM_NODES - k] >= k + 1
      BY <2>2, <3>1
    <3> QED BY <1>1, <1>2, <3>1, <3>2
  <2> HIDE DEF B
  <2> QED BY <2>1, <2>2, NaturalsInSet
<1>5. ASSUME NEW i \in Numbers PROVE p[i] = NUM_NODES - i + 1
  <2>1. /\ i - 1 \in Nat /\ i - 1 < NUM_NODES /\ (i - 1) + 1 = i
        /\ NUM_NODES - i \in Nat /\ NUM_NODES - i < NUM_NODES
        /\ NUM_NODES - (NUM_NODES - i) = i
    BY <1>1 DEF Numbers
  <2>2. p[i] <= NUM_NODES - (i - 1)
    BY <1>3, <2>1
  <2>3. p[i] >= (NUM_NODES - i) + 1
    BY <1>4, <2>1
  <2> QED BY <1>1, <1>2, <2>1, <2>2, <2>3
<1> QED BY <1>5

\* The order by trust is then the reverse of that in which they were built.
LEMMA IncreasingReverses ==
  ASSUME Types, Sorted, Increasing(globalTrust)
  PROVE  trustVector = Reverse(allNodes)
<1> DEFINE at(n) == CHOOSE k \in Numbers : allNodes[k] = n
           p == [i \in Numbers |-> at(trustVector[i])]
<1>1. /\ NUM_NODES \in Nat /\ allNodes \in [Numbers -> Nodes] /\ Len(allNodes) = NUM_NODES
      /\ \A n \in Nodes : \E i \in Numbers : n = allNodes[i]
  BY NodesNumbered DEF Numbers, NUM_NODES
<1>2. /\ trustVector \in [Numbers -> Nodes]
      /\ \A n \in Nodes : \E i \in Numbers : n = trustVector[i]
  BY GroupsAreFirst
<1>3. \A i, j \in Numbers : trustVector[i] = trustVector[j] => i = j
  <2>1. trustVector \in Surjection(Numbers, Nodes)
    BY <1>2 DEF Surjection
  <2>2. IsFiniteSet(Numbers) /\ Cardinality(Numbers) = NUM_NODES
    BY <1>1, FS_Interval, NodesNumbered DEF Numbers
  <2>3. trustVector \in Injection(Numbers, Nodes)
    BY <2>1, <2>2, FS_Surjection, NodesAssumption
  <2> QED BY <1>2, <2>3 DEF Injection, IsInjective
<1>4. \A i \in Numbers : p[i] \in Numbers /\ allNodes[p[i]] = trustVector[i]
  BY <1>1, <1>2
<1>5. p \in [Numbers -> Numbers]
  BY <1>4
<1> HIDE DEF p
<1>6. \A n \in Nodes : globalTrust[n] \in Nat
  BY DEF Types, TrustNow, Trusts, Positives
<1>7. ASSUME NEW i \in Numbers, NEW j \in Numbers, i < j PROVE p[i] > p[j]
  <2>1. i # j /\ p[i] # p[j] /\ p[i] \in Nat /\ p[j] \in Nat
    BY <1>1, <1>3, <1>4, <1>7 DEF Numbers
  <2>2. globalTrust[trustVector[i]] >= globalTrust[trustVector[j]]
    BY <1>2, <1>7 DEF Sorted, Descending
  <2>3. p[i] < p[j] => globalTrust[trustVector[i]] < globalTrust[trustVector[j]]
    BY <1>4 DEF Increasing
  <2>4. globalTrust[trustVector[i]] \in Nat /\ globalTrust[trustVector[j]] \in Nat
    BY <1>2, <1>6
  <2>5. ~(p[i] < p[j])
    BY <2>2, <2>3, <2>4
  <2> QED BY <2>1, <2>5
<1>8. \A i \in Numbers : p[i] = NUM_NODES - i + 1
  BY <1>5, <1>7, WayDown
<1>9. \A i \in Numbers : trustVector[i] = allNodes[(NUM_NODES - i) + 1]
  BY <1>4, <1>8
<1>10. trustVector = [i \in Numbers |-> allNodes[(NUM_NODES - i) + 1]]
  BY <1>2, <1>9
<1> QED BY <1>1, <1>10 DEF Reverse, Numbers

\* With no pair in credit the order in which the nodes were built decides
\* alone, and in reverse.  A pair that is not in credit now never was, so
\* trust has risen along that order from the start.
THEOREM ReversesWithoutCredit == Spec => []NobodyInCreditReverses
<1> DEFINE Inv == NobodyInCredit => Increasing(globalTrust)
<1>1. Init /\ Types => Inv
  <2> SUFFICES ASSUME Init, Types, NobodyInCredit PROVE Increasing(globalTrust)
    OBVIOUS
  <2>1. Direct_Trust = DirectTrust /\ Direct_Trust \in [Pairs -> Fraction]
    BY DEF Init, Types, Proper
  <2>2. \A pair \in Pairs : Direct_Trust[pair] = [num |-> 1, den |-> NUM_NODES]
    BY <2>1, EvenWithoutCredit DEF Types
  <2>3. Rising(0, Uniform.of)
    <3>1. \A i \in Numbers : Uniform.of[allNodes[i]] = 1 /\ i > 0
      BY NodesNumbered DEF Uniform, Numbers
    <3> QED BY <3>1 DEF Rising, Numbers
  <2>4. Increasing(GlobalTrust(Uniform, Direct_Trust).of)
    BY <2>1, <2>2, <2>3, EvenRound, UniformIsTrust
  <2> QED BY <2>4 DEF Init
<1>2. Types /\ Types' /\ Inv /\ [Next]_vars => Inv'
  <2> SUFFICES ASSUME Types, Types', Inv, [Next]_vars, NobodyInCredit'
               PROVE  Increasing(globalTrust')
    BY DEF Increasing
  <2>1. CASE ack_handler
    <3>1. balance' = balance /\ Direct_Trust' = DirectTrust /\ Direct_Trust' \in [Pairs -> Fraction]
      BY <2>1 DEF ack_handler, Types, Proper
    <3>2. NobodyInCredit
      BY <3>1 DEF NobodyInCredit
    <3>3. \A pair \in Pairs : Direct_Trust'[pair] = [num |-> 1, den |-> NUM_NODES]
      BY <3>1, <3>2, EvenWithoutCredit DEF Types
    <3>4. TrustNow \in Trusts /\ TrustNow.of = globalTrust
      BY DEF Types, TrustNow
    <3>5. Rising(0, TrustNow.of)
      <4>1. \A i \in Numbers : /\ allNodes[i] \in Nodes /\ globalTrust[allNodes[i]] \in Nat
                               /\ i \in Nat /\ i > 0
        BY <3>4, NodesNumbered DEF Trusts, Positives, Numbers
      <4>2. \A i, j \in Numbers : i < j => globalTrust[allNodes[i]] < globalTrust[allNodes[j]]
        BY <3>2 DEF Increasing
      <4> QED BY <3>4, <4>1, <4>2 DEF Rising
    <3>6. Increasing(GlobalTrust(TrustNow, Direct_Trust').of)
      BY <3>1, <3>3, <3>4, <3>5, EvenRound
    <3> QED BY <2>1, <3>6 DEF ack_handler, TrustNow
  <2>2. ASSUME NEW m \in Nodes, NEW n \in Nodes, updateTrust(m, n)
        PROVE  Increasing(globalTrust')
    <3>1. PICK p : p = {m, n}
      OBVIOUS
    <3>2. /\ balance \in [Pairs -> Int] /\ balance' = [balance EXCEPT ![p] = @ + 1]
          /\ globalTrust' = globalTrust
      BY <2>2, <3>1 DEF updateTrust, Types, trustVars
    <3>3. ASSUME NEW pair \in Pairs PROVE balance[pair] <= 0
      <4>1. balance'[pair] <= 0 /\ balance[pair] \in Int
        BY <3>2 DEF NobodyInCredit
      <4>2. balance'[pair] = balance[pair] + 1 \/ balance'[pair] = balance[pair]
        BY <3>2
      <4> QED BY <4>1, <4>2
    <3> QED BY <3>2, <3>3 DEF NobodyInCredit
  <2>3. CASE UNCHANGED vars
    BY <2>3 DEF vars, trustVars, NobodyInCredit
  <2> QED BY <2>1, <2>2, <2>3 DEF Next
<1>3. Types /\ Sorted /\ Inv => NobodyInCreditReverses
  BY IncreasingReverses DEF NobodyInCredit, NobodyInCreditReverses
<1> QED BY <1>1, <1>2, <1>3, TypesInvariant, PTL DEF Spec

----------------------------------------------------------------------------
(* The last node.                                                          *)

\* A sum of ones counts.
LEMMA SumOfOnes ==
  ASSUME NEW S, IsFiniteSet(S), NEW f \in [S -> Int], NEW g, IsSum(f, S, g)
  PROVE  \A s \in SUBSET S : (\A x \in s : f[x] = 1) => g[s] = Cardinality(s)
<1> DEFINE P == {s \in SUBSET S : (\A x \in s : f[x] = 1) => g[s] = Cardinality(s)}
<1>1. ASSUME NEW s \in SUBSET S, \A t \in SUBSET s : t # s => t \in P
      PROVE  s \in P
  <2> SUFFICES ASSUME \A x \in s : f[x] = 1 PROVE g[s] = Cardinality(s)
    OBVIOUS
  <2>1. CASE s = {}
    BY <2>1, FS_EmptySet DEF IsSum
  <2>2. CASE s # {}
    <3>1. PICK x \in s : TRUE
      BY <2>2
    <3>2. s \ {x} \in P
      BY <1>1
    <3>3. g[s \ {x}] = Cardinality(s \ {x}) /\ g[s] = 1 + g[s \ {x}]
      BY <3>2 DEF IsSum
    <3>4. IsFiniteSet(s) /\ Cardinality(s) \in Nat
      BY FS_Subset, FS_CardinalityType
    <3>5. Cardinality(s \ {x}) = Cardinality(s) - 1
      BY <3>4, FS_RemoveElement
    <3> QED BY <3>3, <3>4, <3>5
  <2> QED BY <2>1, <2>2
<1>2. SUBSET S \subseteq P
  <2> HIDE DEF P
  <2> QED BY <1>1, SubsetsInSet
<1> QED BY <1>2

\* A weighted sum is not below the least value times the weights.
LEMMA SumOfWeighted ==
  ASSUME NEW S, IsFiniteSet(S), NEW v \in [S -> Int], NEW w \in [S -> Int], NEW c \in Int,
         NEW t, IsSum(v, S, t), NEW u, IsSum(w, S, u)
  PROVE  \A s \in SUBSET S : (\A x \in s : v[x] >= c * w[x]) => t[s] >= c * u[s]
<1> DEFINE P == {s \in SUBSET S : (\A x \in s : v[x] >= c * w[x]) => t[s] >= c * u[s]}
<1>1. ASSUME NEW s \in SUBSET S, \A r \in SUBSET s : r # s => r \in P
      PROVE  s \in P
  <2> SUFFICES ASSUME \A x \in s : v[x] >= c * w[x] PROVE t[s] >= c * u[s]
    OBVIOUS
  <2>1. CASE s = {}
    BY <2>1 DEF IsSum
  <2>2. CASE s # {}
    <3>1. PICK x \in s : TRUE
      BY <2>2
    <3>2. s \ {x} \in P
      BY <1>1
    <3>3. t[s \ {x}] >= c * u[s \ {x}]
      BY <3>2
    <3>4. t[s] = v[x] + t[s \ {x}] /\ u[s] = w[x] + u[s \ {x}]
      BY DEF IsSum
    <3>5. /\ t[s \ {x}] \in Int /\ u[s \ {x}] \in Int /\ v[x] \in Int /\ w[x] \in Int
          /\ v[x] >= c * w[x]
      BY DEF IsSum
    <3>6. \A y, z \in Int : c * (y + z) = c * y + c * z /\ c * y \in Int
      OBVIOUS
    <3> QED BY <3>3, <3>4, <3>5, <3>6
  <2> QED BY <2>1, <2>2
<1>2. SUBSET S \subseteq P
  <2> HIDE DEF P
  <2> QED BY <1>1, SubsetsInSet
<1> QED BY <1>2

\* The pairs of the last node are told of by the last node: their entries have
\* one denominator, and add up to one, or all but one of the nodes share alike.
LEMMA LastEntries ==
  ASSUME balance \in [Pairs -> Int]
  PROVE  \E w \in [Nodes -> Nat], c \in Positives :
            /\ \A m \in Nodes \ {Last_Node} :
                  /\ DirectTrust[{m, Last_Node}].num = w[m]
                  /\ DirectTrust[{m, Last_Node}].den = c
            /\ \A u : IsSum(w, Nodes, u) =>
                  NUM_NODES * u[Nodes \ {Last_Node}] >= (NUM_NODES - 1) * c
<1> DEFINE L == Last_Node
           O == Nodes \ {L}
<1>1. PICK D \in [0..NUM_NODES -> [Pairs -> Fraction]] :
         /\ D[0] = Untold
         /\ \A k \in Numbers : D[k] = updateDirectTrust(allNodes[k], D[k - 1])
         /\ D[NUM_NODES] = DirectTrust
  BY DirectSteps
<1>2. NUM_NODES \in Nat /\ NUM_NODES >= 2 /\ NUM_NODES \in Numbers /\ L \in Nodes
  BY NodesNumbered DEF Numbers, Last_Node
<1>3. PICK before : DirectTrust = updateDirectTrust(L, before)
  BY <1>1, <1>2 DEF Last_Node
<1> HIDE DEF L
<1>4. /\ \A m \in O : {m, L} \in PairsOf(L) /\ {m, L} \in Pairs
      /\ IsFiniteSet(Nodes) /\ Cardinality(Nodes) = NUM_NODES
      /\ O \in SUBSET Nodes
  BY <1>2, PairsOfNode, NodesNumbered, NodesAssumption
<1>5. /\ Stotal(L) \in Nat
      /\ \A pair \in PairsOf(L) : Positive(balance[pair]) \in 0..Stotal(L)
  BY <1>2, StotalBounds
<1>6. CASE Stotal(L) = 0
  <2> DEFINE w == [m \in Nodes |-> 1]
  <2>1. w \in [Nodes -> Nat] /\ w \in [Nodes -> Int] /\ \A m \in O : w[m] = 1
    OBVIOUS
  <2> HIDE DEF w
  <2>2. \A m \in O : DirectTrust[{m, L}] = [num |-> w[m], den |-> NUM_NODES]
    BY <1>3, <1>4, <1>6, <2>1 DEF updateDirectTrust
  <2>3. ASSUME NEW u, IsSum(w, Nodes, u)
        PROVE  NUM_NODES * u[O] >= (NUM_NODES - 1) * NUM_NODES
    <3>1. u[O] = Cardinality(O)
      BY <1>4, <2>1, <2>3, SumOfOnes
    <3>2. Cardinality(O) = NUM_NODES - 1
      BY <1>2, <1>4, FS_RemoveElement
    <3>3. NUM_NODES * (NUM_NODES - 1) = (NUM_NODES - 1) * NUM_NODES
          /\ NUM_NODES * (NUM_NODES - 1) \in Int
      BY <1>2
    <3> QED BY <3>1, <3>2, <3>3
  <2>4. NUM_NODES \in Positives
    BY <1>2 DEF Positives
  <2>5. ASSUME NEW m \in O
        PROVE  DirectTrust[{m, L}].num = w[m] /\ DirectTrust[{m, L}].den = NUM_NODES
    <3>1. PICK r : r = DirectTrust[{m, L}]
      OBVIOUS
    <3>2. r = [num |-> w[m], den |-> NUM_NODES]
      BY <2>2, <3>1
    <3>3. r.num = w[m] /\ r.den = NUM_NODES
      BY <3>2
    <3> QED BY <3>1, <3>3
  <2> QED BY <2>1, <2>3, <2>4, <2>5 DEF L
<1>7. CASE Stotal(L) # 0
  <2> DEFINE w == [m \in Nodes |-> IF m = L THEN 0 ELSE Positive(balance[{m, L}])]
             f == [pair \in PairsOf(L) |-> Positive(balance[pair])]
             c == Stotal(L)
  <2>1. w \in [Nodes -> Nat]
    BY <1>4, <1>5
  <2>2. \A m \in O : w[m] = Positive(balance[{m, L}]) /\ f[{m, L}] = Positive(balance[{m, L}])
    BY <1>4
  <2>3. f \in [PairsOf(L) -> Int]
    BY <1>5
  <2>4. PICK g : IsSum(f, PairsOf(L), g) /\ c = g[PairsOf(L)]
    BY <1>2, StotalIsSum
  <2> HIDE DEF w, f
  <2>5. \A m \in O : DirectTrust[{m, L}] = [num |-> w[m], den |-> c]
    BY <1>3, <1>4, <1>7, <2>2 DEF updateDirectTrust
  <2>6. c \in Positives
    BY <1>5, <1>7 DEF Positives
  <2>7. NodeByNode(L, f, w)
    <3>1. w \in [Nodes -> Int]
      BY <2>1
    <3> QED BY <2>2, <2>3, <3>1 DEF NodeByNode
  <2> HIDE DEF c
  <2>8. ASSUME NEW u, IsSum(w, Nodes, u)
        PROVE  NUM_NODES * u[O] >= (NUM_NODES - 1) * c
    <3>1. u[O] = c
      BY <1>2, <2>4, <2>7, <2>8, PairSumIsNodeSum
    <3>2. \A k \in Nat : NUM_NODES * k >= (NUM_NODES - 1) * k
      BY <1>2
    <3> QED BY <2>6, <3>1, <3>2 DEF Positives
  <2>9. ASSUME NEW m \in O
        PROVE  DirectTrust[{m, L}].num = w[m] /\ DirectTrust[{m, L}].den = c
    <3>1. PICK r : r = DirectTrust[{m, L}]
      OBVIOUS
    <3>2. r = [num |-> w[m], den |-> c]
      BY <2>5, <3>1
    <3>3. r.num = w[m] /\ r.den = c
      BY <3>2
    <3> QED BY <3>1, <3>3
  <2> QED BY <2>1, <2>6, <2>8, <2>9 DEF L
<1> QED BY <1>6, <1>7

\* g is start in a unit f times as fine, and nobody lost anything.
FinerGain(f, start, g) ==
    /\ g.unit = f * start.unit
    /\ \A m \in Nodes : g.of[m] >= f * start.of[m]

\* So it is after each turn.
LEMMA TurnsGain ==
  ASSUME NEW direct \in [Pairs -> Fraction], NEW start \in Trusts,
         NEW D \in [0..NUM_NODES -> Trusts], D[0] = start,
         \A k \in Numbers : D[k] = updateGlobalTrust(allNodes[k], D[k - 1], direct)
  PROVE  \A k \in 0..NUM_NODES : \E f \in Positives : FinerGain(f, start, D[k])
<1> DEFINE K == {k \in Nat : k <= NUM_NODES => \E f \in Positives : FinerGain(f, start, D[k])}
<1>1. NUM_NODES \in Nat
  BY NodesNumbered
<1>2. 0 \in K
  <2>1. 1 \in Positives /\ start.unit \in Positives /\ \A m \in Nodes : start.of[m] \in Positives
    BY DEF Trusts, Positives
  <2>2. FinerGain(1, start, D[0])
    BY <2>1 DEF FinerGain, Positives
  <2> QED BY <2>1, <2>2
<1>3. ASSUME NEW k \in Nat, k \in K PROVE k + 1 \in K
  <2> SUFFICES ASSUME k + 1 <= NUM_NODES
               PROVE  \E f \in Positives : FinerGain(f, start, D[k + 1])
    OBVIOUS
  <2> DEFINE n == allNodes[k + 1]
             g == D[k]
             h == D[k + 1]
             c == Factor(n, direct)
             added == Contribution(n, Finer(g, c), direct)
  <2>1. k + 1 \in Numbers /\ (k + 1) - 1 = k /\ k \in 0..NUM_NODES /\ k <= NUM_NODES /\ n \in Nodes
    BY <1>1, NodesNumbered DEF Numbers
  <2>2. PICK f \in Positives : FinerGain(f, start, g)
    BY <1>3, <2>1
  <2>3. g \in Trusts /\ h = updateGlobalTrust(n, g, direct)
    BY <2>1
  <2>4. c \in Positives
    BY <2>1, FactorDivides
  <2>5. added \in Nat /\ h.unit = c * g.unit /\ h.of[n] = c * g.of[n] + added
        /\ \A m \in Nodes \ {n} : h.of[m] = c * g.of[m]
    <3> HIDE DEF n, g, h
    <3> QED BY <2>1, <2>3, GlobalTypes
  <2> HIDE DEF n, g, h, c, added
  <2>6. /\ g.unit \in Nat /\ start.unit \in Nat
        /\ \A m \in Nodes : g.of[m] \in Nat /\ start.of[m] \in Nat
    BY <2>3 DEF Trusts, Positives
  <2>7. \A x \in Nat : c * (f * x) = (c * f) * x
    BY <2>2, <2>4 DEF Positives
  <2>8. c * f \in Positives
    BY <2>2, <2>4 DEF Positives
  <2>9. h.unit = (c * f) * start.unit
    BY <2>2, <2>5, <2>6, <2>7 DEF FinerGain
  <2>10. ASSUME NEW m \in Nodes PROVE h.of[m] >= (c * f) * start.of[m]
    <3>1. g.of[m] >= f * start.of[m]
      BY <2>2 DEF FinerGain
    <3>2. f * start.of[m] \in Nat
      BY <2>2, <2>6, ScaleOrder
    <3>3. /\ c * (f * start.of[m]) <= c * g.of[m]
          /\ c * (f * start.of[m]) \in Nat /\ c * g.of[m] \in Nat
      BY <2>4, <2>6, <3>1, <3>2, ScaleOrder
    <3>4. h.of[m] = c * g.of[m] + added \/ h.of[m] = c * g.of[m]
      BY <2>5
    <3>5. c * (f * start.of[m]) = (c * f) * start.of[m]
      BY <2>6, <2>7
    <3> QED BY <2>5, <3>3, <3>4, <3>5
  <2>11. FinerGain(c * f, start, h)
    BY <2>9, <2>10 DEF FinerGain
  <2> QED BY <2>8, <2>11 DEF h
<1>4. Nat \subseteq K
  <2> HIDE DEF K
  <2> QED BY <1>2, <1>3, NaturalsInSet
<1> QED BY <1>1, <1>4

\* What the last turn adds.
LEMMA LastTurn ==
  ASSUME balance \in [Pairs -> Int], NEW start \in Trusts, NEW g \in Trusts,
         NEW f \in Positives, FinerGain(f, start, g),
         NEW least \in Nat, \A m \in Nodes : start.of[m] >= least
  PROVE  LET h == updateGlobalTrust(Last_Node, g, DirectTrust)
         IN  \E e \in Positives :
               /\ h.unit = e * start.unit
               /\ NUM_NODES * (h.of[Last_Node] - e * start.of[Last_Node])
                     >= (NUM_NODES - 1) * e * least
<1> DEFINE L == Last_Node
           O == Nodes \ {L}
           h == updateGlobalTrust(L, g, DirectTrust)
<1>1. PICK w \in [Nodes -> Nat], c \in Positives :
         /\ \A m \in O : DirectTrust[{m, L}].num = w[m] /\ DirectTrust[{m, L}].den = c
         /\ \A u : IsSum(w, Nodes, u) => NUM_NODES * u[O] >= (NUM_NODES - 1) * c
  BY LastEntries
<1>2. /\ NUM_NODES \in Nat /\ NUM_NODES >= 2 /\ L \in Nodes /\ O \in SUBSET Nodes
      /\ IsFiniteSet(Nodes)
  BY NodesNumbered DEF Last_Node
<1>3. DirectTrust \in [Pairs -> Fraction]
  BY DirectIsProper DEF Proper
<1> HIDE DEF L
<1>4. Factor(L, DirectTrust) = c
  <2>1. \A pair \in PairsOf(L) : DirectTrust[pair].den = c
    <3> SUFFICES ASSUME NEW pair \in PairsOf(L) PROVE DirectTrust[pair].den = c
      OBVIOUS
    <3>1. PICK m \in O : pair = {m, L}
      BY <1>2, PairsOfNode
    <3> QED BY <1>1, <3>1
  <2> QED BY <1>2, <1>3, <2>1, FactorDivides
<1> DEFINE fine == Finer(g, c)
           added == Contribution(L, fine, DirectTrust)
<1>5. added \in Nat /\ h.unit = c * g.unit /\ h.of[L] = c * g.of[L] + added
  <2> HIDE DEF h, fine, added
  <2>1. LET d == Factor(L, DirectTrust)
            more == Contribution(L, Finer(g, d), DirectTrust)
        IN  more \in Nat /\ h.unit = d * g.unit /\ h.of[L] = d * g.of[L] + more
    BY <1>2, <1>3, GlobalTypes DEF h
  <2> QED BY <1>4, <2>1 DEF fine, added
<1>6. \A m \in Nodes : g.of[m] \in Nat /\ start.of[m] \in Nat /\ w[m] \in Nat
  BY DEF Trusts, Positives
<1>7. /\ \A x, y \in Nat : x * y \in Nat
      /\ c \in Nat /\ f \in Nat /\ start.unit \in Nat
  BY DEF Positives, Trusts
<1> DEFINE v == [m \in Nodes |-> g.of[m] * w[m]]
<1>8. v \in [Nodes -> Nat] /\ v \in [Nodes -> Int]
  BY <1>6, <1>7
<1>9. Contributing(L, fine, DirectTrust, v)
  <2>1. ASSUME NEW m \in O
        PROVE  v[m] = (fine.of[m] * DirectTrust[{m, L}].num) \div DirectTrust[{m, L}].den
    <3>1. DirectTrust[{m, L}].num = w[m] /\ DirectTrust[{m, L}].den = c
      BY <1>1
    <3>2. fine.of[m] = c * g.of[m]
      BY DEF Finer
    <3>3. (c * g.of[m]) * w[m] = c * (g.of[m] * w[m])
      BY <1>6, <1>7
    <3>4. (c * (g.of[m] * w[m])) \div c = g.of[m] * w[m]
      BY <1>6, <1>7, Divides
    <3>5. v[m] = g.of[m] * w[m]
      OBVIOUS
    <3> HIDE DEF v, fine
    <3> QED BY <3>1, <3>2, <3>3, <3>4, <3>5
  <2> HIDE DEF v, fine
  <2> QED BY <1>8, <2>1 DEF Contributing
<1>10. PICK t : IsSum(v, Nodes, t)
  <2> HIDE DEF v
  <2> QED BY <1>2, <1>8, SumExists
<1>11. added = t[O]
  <2> HIDE DEF v, fine
  <2> QED BY <1>2, <1>9, <1>10, ContributionIsSum DEF O, added
<1>12. w \in [Nodes -> Int]
  OBVIOUS
<1>13. PICK u : IsSum(w, Nodes, u)
  BY <1>2, <1>12, SumExists
<1> DEFINE k == f * least
<1>14. k \in Nat
  BY <1>7
<1>15. \A m \in O : v[m] >= k * w[m]
  <2> SUFFICES ASSUME NEW m \in O PROVE g.of[m] * w[m] >= k * w[m]
    OBVIOUS
  <2>1. g.of[m] >= f * start.of[m] /\ f * least <= f * start.of[m] /\ f * start.of[m] \in Nat
    BY <1>6, ScaleOrder DEF FinerGain
  <2>2. g.of[m] >= k
    BY <1>6, <1>7, <2>1
  <2> HIDE DEF k
  <2>3. \A x, y, z \in Nat : x >= y => x * z >= y * z
    OBVIOUS
  <2> QED BY <1>6, <1>14, <2>2, <2>3
<1> HIDE DEF v, fine, h, added, k
<1>16. t[O] >= k * u[O]
  BY <1>2, <1>8, <1>10, <1>12, <1>13, <1>14, <1>15, SumOfWeighted
<1>17. u[O] \in Nat /\ NUM_NODES * u[O] >= (NUM_NODES - 1) * c
  BY <1>1, <1>2, <1>13, SumOfNaturals
<1> DEFINE e == c * f
<1>18. e \in Positives /\ e \in Nat
  BY DEF Positives
<1>19. h.unit = e * start.unit
  <2>1. c * (f * start.unit) = (c * f) * start.unit
    BY <1>7
  <2> QED BY <1>5, <2>1 DEF FinerGain
<1> DEFINE x == h.of[L] - e * start.of[L]
<1>20. x \in Int /\ x >= k * u[O]
  <2>1. f * start.of[L] \in Nat /\ g.of[L] >= f * start.of[L] /\ g.of[L] \in Nat
    BY <1>2, <1>6, <1>7 DEF FinerGain
  <2>2. c * (f * start.of[L]) <= c * g.of[L] /\ c * (f * start.of[L]) \in Nat /\ c * g.of[L] \in Nat
    BY <2>1, ScaleOrder
  <2>3. c * (f * start.of[L]) = e * start.of[L]
    BY <1>2, <1>6, <1>7
  <2>4. k * u[O] \in Nat
    BY <1>7, <1>14, <1>17
  <2> HIDE DEF e
  <2> QED BY <1>5, <1>11, <1>16, <2>2, <2>3, <2>4
<1> HIDE DEF x
<1>21. NUM_NODES * x >= NUM_NODES * (k * u[O])
  <2>1. k * u[O] \in Nat /\ x \in Nat
    BY <1>7, <1>14, <1>17, <1>20
  <2> QED BY <1>2, <1>20, <2>1, ScaleOrder DEF Positives
<1>22. NUM_NODES * (k * u[O]) = k * (NUM_NODES * u[O])
  BY <1>2, <1>14, <1>17
<1>23. k * ((NUM_NODES - 1) * c) <= k * (NUM_NODES * u[O])
  <2>1. (NUM_NODES - 1) * c \in Nat /\ NUM_NODES * u[O] \in Nat
    BY <1>2, <1>7, <1>17
  <2>2. \A y, z \in Nat : y <= z => k * y <= k * z
    BY <1>14
  <2> QED BY <1>17, <2>1, <2>2
<1>24. k * ((NUM_NODES - 1) * c) = (NUM_NODES - 1) * e * least
  <2>1. NUM_NODES - 1 \in Nat
    BY <1>2
  <2>2. \A n, y, z, q \in Nat : (y * z) * (n * q) = (n * (q * y)) * z
    OBVIOUS
  <2> QED BY <1>7, <2>1, <2>2 DEF k
<1>25. NUM_NODES * x >= (NUM_NODES - 1) * e * least
  <2>1. /\ k * ((NUM_NODES - 1) * c) \in Int /\ k * (NUM_NODES * u[O]) \in Int
        /\ NUM_NODES * x \in Int
    BY <1>2, <1>7, <1>14, <1>17, <1>20
  <2> HIDE DEF e
  <2> QED BY <1>21, <1>22, <1>23, <1>24, <2>1
<1> QED BY <1>18, <1>19, <1>25 DEF x, h, L

\* The node built last gains with every acknowledgement, at least
\* (NUM_NODES - 1) / NUM_NODES of the least trust there is: nobody loses before
\* its turn, and its turn is the last.
THEOREM LastNodeGains == Spec => LastNodeAlwaysGains
<1> DEFINE least == Min({globalTrust[n] : n \in Nodes})
           Gain == acks' # acks =>
                     NUM_NODES * (globalTrust'[Last_Node] - Finer_by * globalTrust[Last_Node])
                        >= (NUM_NODES - 1) * Finer_by * least
<1>1. ASSUME Types, [Next]_vars PROVE Gain
  <2>1. CASE ack_handler
    <3>1. least \in Nat /\ \A n \in Nodes : globalTrust[n] >= least
      <4> DEFINE T == {globalTrust[n] : n \in Nodes}
      <4>1. T \in SUBSET Nat
        BY <1>1 DEF Types, TrustNow, Trusts, Positives
      <4>2. T # {}
        <5>1. Last_Node \in Nodes
          BY NodesNumbered DEF Last_Node
        <5> QED BY <5>1
      <4>3. Min(T) \in T /\ \A k \in T : Min(T) <= k
        <5> HIDE DEF T
        <5> QED BY <4>1, <4>2, LeastExists
      <4>4. \A n \in Nodes : globalTrust[n] \in T
        OBVIOUS
      <4> QED BY <4>1, <4>3, <4>4
    <3>2. /\ balance \in [Pairs -> Int] /\ TrustNow \in Trusts
          /\ Direct_Trust' = DirectTrust /\ DirectTrust \in [Pairs -> Fraction]
      BY <1>1, <2>1, DirectIsProper DEF Types, ack_handler, Proper
    <3>3. PICK D \in [0..NUM_NODES -> Trusts] :
             /\ D[0] = TrustNow
             /\ \A k \in Numbers : D[k] = updateGlobalTrust(allNodes[k], D[k - 1], DirectTrust)
             /\ D[NUM_NODES] = GlobalTrust(TrustNow, DirectTrust)
      BY <3>2, GlobalSteps
    <3>4. /\ NUM_NODES - 1 \in 0..NUM_NODES /\ NUM_NODES \in Numbers /\ Last_Node \in Nodes
          /\ Last_Node = allNodes[NUM_NODES]
      BY NodesNumbered DEF Numbers, Last_Node
    <3> DEFINE g == D[NUM_NODES - 1]
               h == D[NUM_NODES]
    <3>5. PICK f \in Positives : FinerGain(f, TrustNow, g)
      BY <3>2, <3>3, <3>4, TurnsGain
    <3>6. g \in Trusts /\ h = updateGlobalTrust(Last_Node, g, DirectTrust)
      BY <3>3, <3>4
    <3> HIDE DEF g, h, least
    <3>7. PICK e \in Positives :
             /\ h.unit = e * TrustNow.unit
             /\ NUM_NODES * (h.of[Last_Node] - e * TrustNow.of[Last_Node])
                   >= (NUM_NODES - 1) * e * least
      <4>1. \A m \in Nodes : TrustNow.of[m] >= least
        BY <3>1 DEF TrustNow
      <4> QED BY <3>1, <3>2, <3>5, <3>6, <4>1, LastTurn
    <3>8. globalTrust' = h.of /\ unit' = h.unit
      BY <2>1, <3>2, <3>3 DEF ack_handler, TrustNow, h
    <3>9. unit \in Positives /\ TrustNow.unit = unit /\ TrustNow.of = globalTrust
      BY <3>2 DEF TrustNow, Trusts
    <3>10. Finer_by = e
      <4>1. unit' = e * unit
        BY <3>7, <3>8, <3>9
      <4>2. e * unit = unit * e /\ e \in Nat
        BY <3>9 DEF Positives
      <4>3. (unit * e) \div unit = e
        BY <3>9, <4>2, Divides
      <4> QED BY <4>1, <4>2, <4>3 DEF Finer_by
    <3> QED BY <3>7, <3>8, <3>9, <3>10
  <2>2. ASSUME NEW m \in Nodes, NEW n \in Nodes, updateTrust(m, n) PROVE Gain
    BY <2>2 DEF updateTrust
  <2>3. CASE UNCHANGED vars
    BY <2>3 DEF vars
  <2> QED BY <1>1, <2>1, <2>2, <2>3 DEF Next
<1>2. ASSUME Types, [Next]_vars PROVE [Gain]_vars
  BY <1>1, <1>2
<1> QED BY <1>2, TypesInvariant, PTL DEF Spec, LastNodeAlwaysGains
============================================================================
