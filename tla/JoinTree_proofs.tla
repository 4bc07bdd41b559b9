---------------------------- MODULE JoinTree_proofs ----------------------------
(***************************************************************************)
(* What Component computes: the least set that holds the vertex and is     *)
(* closed under adjacency in the part of the mesh it is asked for.  It is  *)
(* found by as many rounds of spreading as the part has vertices; that     *)
(* these are enough is shown by counting.                                  *)
(***************************************************************************)
EXTENDS JoinTree, FiniteSetTheorems, WellFoundedInduction, TLAPS

Spread(mesh, S, near) == near \cup {u \in S : \E w \in near : {u, w} \in mesh}

(* f holds the vertices reached from v in S after 0, 1, ..., n rounds.     *)
Rounds(mesh, v, S, n, f) ==
    f = [k \in 0..n |->
            IF k = 0 THEN {v}
            ELSE UNION {Spread(mesh, S, near) : near \in {f[k - 1]}}]

Closed(mesh, S, X) == \A x \in X, y \in S : {y, x} \in mesh => y \in X
-------------------------------------------------------------------------------
(* A set of numbers has a least one.                                       *)
LEMMA LeastNumber ==
    ASSUME NEW S \in SUBSET Nat, S # {}
    PROVE  \E m \in S : \A x \in S : m <= x
<1> DEFINE less == {p \in Nat \X Nat : p[1] < p[2]}
<1>1. IsWellFoundedOn(less, Nat)
  BY NatLessThanWellFounded DEF OpToRel
<1>2. PICK m \in S : \A x \in S : ~(<<x, m>> \in less)
  <2> HIDE DEF less
  <2> QED BY <1>1, WFMin
<1>3. \A x \in S : m <= x
  <2> SUFFICES ASSUME NEW x \in S, x < m PROVE FALSE
    OBVIOUS
  <2>1. <<x, m>> \in Nat \X Nat
    OBVIOUS
  <2>2. <<x, m>> \in less
    BY <2>1
  <2> QED BY <1>2, <2>2
<1> QED BY <1>3

(* The rounds are well defined.                                            *)
LEMMA RoundsExist ==
    ASSUME NEW mesh, NEW S, NEW v, NEW n \in Nat
    PROVE  \E f : Rounds(mesh, v, S, n, f)
<1> DEFINE bad == {k \in Nat : ~\E f : Rounds(mesh, v, S, k, f)}
<1> SUFFICES ASSUME bad # {} PROVE FALSE
  OBVIOUS
<1>1. PICK m \in bad : \A x \in bad : m <= x
  BY LeastNumber
<1>2. m # 0
  <2>1. Rounds(mesh, v, S, 0, [k \in 0..0 |-> {v}])
    BY DEF Rounds
  <2> QED BY <2>1
<1>3. m - 1 \in Nat /\ ~(m <= m - 1)
  BY <1>2
<1>4. PICK f : Rounds(mesh, v, S, m - 1, f)
  BY <1>1, <1>3
<1> DEFINE g == [k \in 0..m |-> IF k = m THEN Spread(mesh, S, f[m - 1]) ELSE f[k]]
<1>5. Rounds(mesh, v, S, m, g)
  <2>1. \A k \in 0..(m - 1) : g[k] = f[k]
    BY <1>3
  <2>2. g[m] = Spread(mesh, S, g[m - 1])
    BY <1>2, <1>3, <2>1
  <2>3. \A k \in 0..(m - 1) :
            f[k] = IF k = 0 THEN {v}
                   ELSE UNION {Spread(mesh, S, near) : near \in {f[k - 1]}}
    BY <1>3, <1>4 DEF Rounds
  <2>4. \A k \in 0..m :
            g[k] = IF k = 0 THEN {v}
                   ELSE UNION {Spread(mesh, S, near) : near \in {g[k - 1]}}
    <3> SUFFICES ASSUME NEW k \in 0..m
                 PROVE  g[k] = IF k = 0 THEN {v}
                               ELSE UNION {Spread(mesh, S, near) : near \in {g[k - 1]}}
      OBVIOUS
    <3> HIDE DEF g
    <3>1. UNION {Spread(mesh, S, near) : near \in {g[k - 1]}} = Spread(mesh, S, g[k - 1])
      OBVIOUS
    <3>2. CASE k = m
      BY <1>2, <2>2, <3>1, <3>2
    <3>3. CASE k # m /\ k = 0
      BY <1>3, <2>1, <2>3, <3>3
    <3>4. CASE k # m /\ k # 0
      <4>1. k \in 0..(m - 1) /\ k - 1 \in 0..(m - 1)
        BY <1>3, <3>4
      <4> QED BY <2>1, <2>3, <3>4, <4>1
    <3> QED BY <3>2, <3>3, <3>4
  <2>5. DOMAIN g = 0..m /\ g = [k \in 0..m |-> g[k]]
    OBVIOUS
  <2> HIDE DEF g
  <2> QED BY <2>4, <2>5 DEF Rounds
<1> QED BY <1>1, <1>5

(* Rounds spread from round to round.                                      *)
LEMMA RoundStep ==
    ASSUME NEW mesh, NEW S, NEW v, NEW n \in Nat, NEW f, Rounds(mesh, v, S, n, f)
    PROVE  /\ f[0] = {v}
           /\ \A k \in 0..n : k + 1 <= n => f[k + 1] = Spread(mesh, S, f[k])
<1>1. \A k \in 0..n : f[k] = IF k = 0 THEN {v}
                             ELSE UNION {Spread(mesh, S, near) : near \in {f[k - 1]}}
  BY DEF Rounds
<1>2. f[0] = {v}
  <2>1. 0 \in 0..n
    OBVIOUS
  <2> QED BY <1>1, <2>1
<1>3. ASSUME NEW k \in 0..n, k + 1 <= n PROVE f[k + 1] = Spread(mesh, S, f[k])
  <2>1. k + 1 \in 0..n /\ k + 1 # 0 /\ (k + 1) - 1 = k
    BY <1>3
  <2>2. f[k + 1] = UNION {Spread(mesh, S, near) : near \in {f[k]}}
    BY <1>1, <2>1
  <2>3. UNION {Spread(mesh, S, near) : near \in {f[k]}} = Spread(mesh, S, f[k])
    OBVIOUS
  <2> QED BY <2>2, <2>3
<1> QED BY <1>2, <1>3

(* A property of the first round that spreading keeps is one of the last.  *)
LEMMA LastRound ==
    ASSUME NEW mesh, NEW S, NEW v, NEW n \in Nat, NEW f, Rounds(mesh, v, S, n, f),
           NEW X, v \in X, Closed(mesh, S, X)
    PROVE  \A k \in 0..n : f[k] \subseteq X
<1>0. f[0] = {v}
  BY RoundStep
<1> DEFINE bad == {k \in 0..n : ~(f[k] \subseteq X)}
<1> SUFFICES ASSUME bad # {} PROVE FALSE
  OBVIOUS
<1>1. PICK m \in bad : \A x \in bad : m <= x
  <2>1. bad \in SUBSET Nat
    OBVIOUS
  <2> QED BY <2>1, LeastNumber
<1>2. m # 0
  BY <1>0, <1>1
<1>3. m - 1 \in 0..n /\ (m - 1) + 1 = m /\ m <= n /\ ~(m <= m - 1)
  BY <1>1, <1>2
<1>4. f[m - 1] \subseteq X
  BY <1>1, <1>3
<1>5. f[m] = Spread(mesh, S, f[m - 1])
  <2>1. \A k \in 0..n : k + 1 <= n => f[k + 1] = Spread(mesh, S, f[k])
    BY RoundStep
  <2> QED BY <1>3, <2>1
<1>6. f[m] \subseteq X
  BY <1>4, <1>5 DEF Spread, Closed
<1> QED BY <1>1, <1>6

(* Every round but the last reaches something new, or nothing is left.     *)
LEMMA RoundsGrow ==
    ASSUME NEW mesh, NEW S, IsFiniteSet(S), NEW v \in S, NEW n \in Nat, NEW f,
           Rounds(mesh, v, S, n, f)
    PROVE  \A k \in 0..n :
              /\ v \in f[k] /\ f[k] \subseteq S
              /\ Closed(mesh, S, f[k]) \/ Cardinality(f[k]) >= k + 1
<1> DEFINE P(k) == /\ v \in f[k] /\ f[k] \subseteq S
                   /\ Closed(mesh, S, f[k]) \/ Cardinality(f[k]) >= k + 1
           bad == {k \in 0..n : ~P(k)}
<1> SUFFICES ASSUME bad # {} PROVE FALSE
  OBVIOUS
<1>1. PICK m \in bad : \A x \in bad : m <= x
  <2>1. bad \in SUBSET Nat
    OBVIOUS
  <2> HIDE DEF bad
  <2> QED BY <2>1, LeastNumber
<1>2. m # 0
  <2>1. Cardinality({v}) = 1
    BY FS_Singleton
  <2>2. f[0] = {v}
    BY RoundStep
  <2>3. P(0)
    BY <2>1, <2>2
  <2> QED BY <1>1, <2>3
<1> DEFINE p == m - 1
<1>3. p \in 0..n /\ p + 1 = m /\ m <= n /\ ~(m <= p)
  BY <1>1, <1>2
<1>4. P(p)
  BY <1>1, <1>3
<1>5. f[m] = Spread(mesh, S, f[p])
  <2>1. \A k \in 0..n : k + 1 <= n => f[k + 1] = Spread(mesh, S, f[k])
    BY RoundStep
  <2> QED BY <1>3, <2>1
<1>6. v \in f[m] /\ f[m] \subseteq S /\ f[p] \subseteq f[m]
  BY <1>4, <1>5 DEF Spread
<1>7. CASE Closed(mesh, S, f[p])
  <2>1. f[m] = f[p]
    BY <1>4, <1>5, <1>7 DEF Spread, Closed
  <2> QED BY <1>1, <1>6, <1>7, <2>1
<1>8. CASE ~Closed(mesh, S, f[p])
  <2>1. PICK y \in f[m] : y \notin f[p]
    BY <1>5, <1>8 DEF Spread, Closed
  <2>2. IsFiniteSet(f[m]) /\ IsFiniteSet(f[p])
    BY <1>4, <1>6, FS_Subset
  <2>3. Cardinality(f[p]) < Cardinality(f[m])
    <3>1. f[p] \in SUBSET f[m] /\ f[p] # f[m]
      BY <1>6, <2>1
    <3> DEFINE a == Cardinality(f[p])
               b == Cardinality(f[m])
    <3>2. a <= b /\ a # b
      BY <2>2, <3>1, FS_Subset
    <3>3. a \in Nat /\ b \in Nat
      BY <2>2, FS_CardinalityType
    <3> HIDE DEF a, b
    <3>4. a < b
      BY <3>2, <3>3
    <3> QED BY <3>4 DEF a, b
  <2>4. Cardinality(f[p]) \in Nat /\ Cardinality(f[m]) \in Nat
    BY <2>2, FS_CardinalityType
  <2>5. Cardinality(f[p]) >= p + 1
    BY <1>4, <1>8
  <2>6. Cardinality(f[m]) >= m + 1
    <3> DEFINE a == Cardinality(f[p])
               b == Cardinality(f[m])
    <3>1. a \in Nat /\ b \in Nat /\ a < b /\ a >= p + 1 /\ p + 1 = m /\ m \in Nat /\ p \in Nat
      BY <1>3, <2>3, <2>4, <2>5
    <3> HIDE DEF a, b, p
    <3>2. b >= m + 1
      BY <3>1
    <3> QED BY <3>2 DEF b
  <2> QED BY <1>1, <1>6, <2>6
<1> QED BY <1>7, <1>8

(* Component(mesh, v, S) is the least part of S that holds v and all that  *)
(* is adjacent to it in S.                                                 *)
THEOREM ComponentFacts ==
    ASSUME NEW mesh, NEW S, IsFiniteSet(S), NEW v \in S
    PROVE  /\ v \in Component(mesh, v, S)
           /\ Component(mesh, v, S) \subseteq S
           /\ Closed(mesh, S, Component(mesh, v, S))
           /\ \A X : v \in X /\ Closed(mesh, S, X) => Component(mesh, v, S) \subseteq X
<1> DEFINE n == Cardinality(S)
           f == CHOOSE g : Rounds(mesh, v, S, n, g)
<1>1. n \in Nat
  BY FS_CardinalityType
<1>2. Component(mesh, v, S) = f[n]
  BY DEF Component, Rounds, Spread
<1>3. Rounds(mesh, v, S, n, f)
  BY <1>1, RoundsExist
<1> HIDE DEF f
<1>4. /\ v \in f[n] /\ f[n] \subseteq S
      /\ Closed(mesh, S, f[n]) \/ Cardinality(f[n]) >= n + 1
  <2>1. \A k \in 0..n :
              /\ v \in f[k] /\ f[k] \subseteq S
              /\ Closed(mesh, S, f[k]) \/ Cardinality(f[k]) >= k + 1
    BY <1>1, <1>3, RoundsGrow
  <2>2. n \in 0..n
    BY <1>1
  <2> QED BY <2>1, <2>2
<1>5. Closed(mesh, S, f[n])
  <2> SUFFICES ASSUME Cardinality(f[n]) >= n + 1 PROVE FALSE
    BY <1>4
  <2>1. Cardinality(f[n]) <= n /\ Cardinality(f[n]) \in Nat
    BY <1>4, FS_Subset, FS_CardinalityType
  <2> DEFINE c == Cardinality(f[n])
  <2>2. c \in Nat /\ n \in Nat /\ c <= n /\ c >= n + 1
    BY <1>1, <2>1
  <2> HIDE DEF c, n
  <2> QED BY <2>2
<1>6. ASSUME NEW X, v \in X, Closed(mesh, S, X) PROVE f[n] \subseteq X
  <2>1. n \in 0..n
    BY <1>1
  <2> QED BY <1>1, <1>3, <1>6, <2>1, LastRound
<1> QED BY <1>2, <1>4, <1>5, <1>6
===============================================================================
