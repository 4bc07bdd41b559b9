------------------------- MODULE LocalizedOrders_proofs -------------------------
(***************************************************************************)
(* Proofs about the extrema LocalizedSimplification leaves: which maxima   *)
(* the hills of a pass are those of, that the floods give each hill a      *)
(* local order without extrema, and what the passes make of the extrema of *)
(* the field.                                                              *)
(***************************************************************************)
EXTENDS LocalizedSimplification_proofs

(* What is to stay of the maxima.                                          *)
Staying == IF Persistent THEN Exceeding(order, scalars) ELSE request.authorized

(* The hills are those of the maxima that are to go.                       *)
Chosen == \A m \in Maxima : m \in Staying <=> \A p \in Parents : m \notin Dome(p)

(* The flood of a hill leaves its number there, and nowhere else.          *)
Filled ==
    \A p \in Parents : /\ \A v \in Vert : segmentation[v] = p => v \in Dome(p)
                       /\ pc[p] # "segment" => \A v \in Dome(p) : segmentation[v] = p

(* How far the local order of the hill of p has come: its floods run down  *)
(* from the saddle or up from the boundary, and number its vertices, until *)
(* none of them is an extremum.                                            *)
OrderOf(p) ==
    LET D == Dome(p)
        n == Size(p)
    IN
    /\ pc[p] \in {"order", "ordered"} =>
          Segmented /\ \A v \in D : localOrder[v] \in (-N)..(-1)
    /\ pc[p] = "order" =>
          IF performSuperlevel[p] THEN boundary[p] \in {{}, OnBoundary(p)}
          ELSE /\ boundary[p] = OnBoundary(p)
               /\ \A v \in D : localOrder[v] \in (-n)..(-1)
    /\ pc[p] = "ordered" =>
          \/ n = 1
          \/ /\ \A u, v \in D : localOrder[u] = localOrder[v] => u = v
             /\ ResidualMaxima(p, localOrder) = {}
             /\ ResidualMinima(p, localOrder) = {}

LInv == Chosen /\ Filled /\ \A p \in Parents : OrderOf(p)

(* The locals of the tasks that order the hills.                           *)
Buffers ==
    /\ performSuperlevel \in [Vert -> BOOLEAN]
    /\ boundary \in [Vert -> SUBSET Vert]
    /\ sequence \in [Vert -> Seq(Vert)]

LocalInv == Buffers /\ (step = "hills" => LInv)

(* No mesh falls apart without one of its vertices, as none does that      *)
(* triangulates a manifold of two dimensions or more.                      *)
NoCutVertices ==
    \A r \in Requests : \A v \in DOMAIN r.scalar :
        Connected(r.mesh, DOMAIN r.scalar \ {v})
-------------------------------------------------------------------------------
(* A vertex that is flattened lower, or to the same level with a lower     *)
(* local order, comes before in the rank.                                  *)
LEMMA RankBelow ==
    ASSUME request \in Requests, NEW flat \in [Vert -> Int],
           NEW local \in [Vert -> Int], NEW u \in Vert, NEW v \in Vert,
           flat[u] < flat[v] \/ (flat[u] = flat[v] /\ local[u] < local[v])
    PROVE  Rank(flat, local)[u] < Rank(flat, local)[v]
<1> DEFINE Before(w) == {x \in Vert :
                \/ flat[x] < flat[w]
                \/ flat[x] = flat[w] /\ (local[x] < local[w]
                                         \/ (local[x] = local[w] /\ x < w))}
<1>1. /\ IsFiniteSet(Vert)
      /\ \A x \in Vert : flat[x] \in Int /\ local[x] \in Int
  BY VertFacts
<1>2. Before(u) \in SUBSET Before(v)
  BY <1>1
<1>3. /\ Rank(flat, local)[u] = Cardinality(Before(u))
      /\ Rank(flat, local)[v] = Cardinality(Before(v))
  BY DEF Rank
<1>4. Before(u) \in SUBSET Vert /\ Before(v) \in SUBSET Vert
  OBVIOUS
<1> HIDE DEF Before
<1>5. /\ IsFiniteSet(Before(v)) /\ Cardinality(Before(u)) \in Nat
      /\ Cardinality(Before(v)) \in Nat
  BY <1>1, <1>4, FS_Subset, FS_CardinalityType
<1>6. Cardinality(Before(u)) <= Cardinality(Before(v))
  BY <1>2, <1>5, FS_Subset
<1>7. u # v
  BY <1>1
<1>8. Rank(flat, local)[u] # Rank(flat, local)[v]
  BY <1>7, RankNumbers DEF Numbers
<1> QED BY <1>3, <1>5, <1>6, <1>8

(* What the flood that finds a hill makes of it.                           *)
LEMMA HillFacts ==
    ASSUME Base, Between, GInv, NEW p \in Parents
    PROVE  /\ p \in Vert /\ Saddle(p) \in Vert /\ p \in Dome(p)
           /\ Dome(p) \in SUBSET Vert /\ Dome(p) \subseteq Above(Saddle(p))
           /\ Saddle(p) \notin Dome(p)
           /\ \A v \in Dome(p) : order[v] > order[Saddle(p)]
           /\ \A v \in Dome(p) : \A u \in Neighbors(v) :
                 /\ u \in Vert
                 /\ order[u] > order[Saddle(p)] => u \in Dome(p)
                 /\ u \notin Dome(p) /\ u # Saddle(p) => order[u] < order[Saddle(p)]
           /\ Connected(request.mesh, Dome(p))
           /\ \E u \in Neighbors(Saddle(p)) : u \in Dome(p)
<1>1. PICK s : s = Saddle(p)
  OBVIOUS
<1>2. p \in Vert /\ s \in Vert /\ \A v \in Vert : order[v] \in Int
  BY <1>1, ParentFacts DEF Between, Base
<1>3. p \in Dome(p) /\ Dome(p) \subseteq Above(s) /\ Above(s) \in SUBSET Vert
  BY <1>1, FloodFills DEF Above
<1>4. p \in Above(s)
  BY <1>3
<1>5. /\ Connected(request.mesh, Dome(p))
      /\ \A x \in Dome(p), y \in Above(s) : y \in Neighbors(x) => y \in Dome(p)
  BY <1>1, <1>3, <1>4, ComponentIs DEF Dome, Base
<1>6. \A v \in Dome(p) : v \in Vert /\ order[v] > order[s]
  BY <1>3 DEF Above
<1>7. s \notin Dome(p)
  BY <1>2, <1>6
<1>8. ASSUME NEW v \in Dome(p), NEW u \in Neighbors(v)
      PROVE  /\ u \in Vert
             /\ order[u] > order[s] => u \in Dome(p)
             /\ u \notin Dome(p) /\ u # s => order[u] < order[s]
  <2>1. u \in Vert
    BY <1>6, NeighborFacts DEF Base
  <2>2. order[u] > order[s] => u \in Dome(p)
    BY <1>5, <2>1 DEF Above
  <2>3. u # s => order[u] # order[s]
    BY <1>2, <2>1 DEF Base
  <2> QED BY <1>2, <2>1, <2>2, <2>3
<1>9. \E u \in Neighbors(s) : u \in Dome(p)
  BY <1>1 DEF GInv, Hill, Meets, Larger
<1>10. Dome(p) \in SUBSET Vert
  BY <1>3
<1> HIDE DEF Dome
<1> QED BY <1>1, <1>2, <1>3, <1>5, <1>6, <1>7, <1>8, <1>9, <1>10

(* A saddle is flattened by no other hill.                                 *)
LEMMA SaddleOutside ==
    ASSUME Base, Between, GInv, NEW p \in Parents, NEW q \in Parents
    PROVE  Saddle(p) \notin Dome(q)
<1> SUFFICES ASSUME Saddle(p) \in Dome(q) PROVE FALSE
  OBVIOUS
<1>1. PICK s, z : s = Saddle(p) /\ z = Saddle(q)
  OBVIOUS
<1>2. PICK u \in Neighbors(s) : u \in Dome(p)
  BY <1>1, HillFacts
<1>3. /\ s \in Vert /\ u \in Vert /\ z \in Vert /\ s \notin Dome(p)
      /\ order[u] > order[s] /\ order[s] > order[z]
      /\ order[u] > order[z] => u \in Dome(q)
  BY <1>1, <1>2, HillFacts
<1>4. order[u] \in Int /\ order[s] \in Int /\ order[z] \in Int
  BY <1>3 DEF Base
<1>5. u \in Dome(q)
  BY <1>3, <1>4
<1>6. p = q
  BY <1>2, <1>5 DEF GInv, Apart
<1> QED BY <1>1, <1>3, <1>6

(* The keys a pass ranks the vertices by.                                  *)
LEMMA LevelFacts ==
    ASSUME Base, Between, GInv, LInv, \A p \in Parents : pc[p] = "ordered"
    PROVE  /\ FlatOrder \in [Vert -> Int] /\ FinalLocalOrder \in [Vert -> Int]
           /\ \A p \in Parents : \A v \in Dome(p) :
                 /\ FlatOrder[v] = order[Saddle(p)]
                 /\ FinalLocalOrder[v] = localOrder[v]
                 /\ localOrder[v] \in Int /\ localOrder[v] < N + 1
           /\ \A p \in Parents : /\ FlatOrder[Saddle(p)] = order[Saddle(p)]
                                 /\ FinalLocalOrder[Saddle(p)] = N + 1
           /\ \A v \in Vert : \/ FlatOrder[v] = order[v]
                              \/ \E p \in Parents : v \in Dome(p)
           /\ \A v \in Vert : FlatOrder[v] <= order[v]
<1>1. N \in Nat /\ \A v \in Vert : order[v] \in Int /\ localOrder[v] \in Int
  BY VertFacts DEF Base
<1>2. \A p \in Parents : segment[p] = Dome(p) /\ Saddle(p) \in Vert
  BY ParentFacts DEF GInv, Hill
<1>3. ASSUME NEW p \in Parents, NEW v \in Dome(p)
      PROVE  /\ v \in Vert /\ FlatOrder[v] = order[Saddle(p)]
             /\ FinalLocalOrder[v] = localOrder[v]
             /\ localOrder[v] \in Int /\ localOrder[v] < N + 1
  <2>1. v \in Vert
    BY HillFacts
  <2>2. PICK q : q = CHOOSE o \in Parents : v \in segment[o]
    OBVIOUS
  <2>3. q \in Parents /\ v \in segment[q]
    BY <1>2, <2>2
  <2>4. q = p
    BY <1>2, <2>3 DEF GInv, Apart
  <2>5. FlatOrder[v] = order[Saddle(p)]
    BY <2>1, <2>2, <2>3, <2>4 DEF FlatOrder
  <2>6. FinalLocalOrder[v] = localOrder[v]
    BY <2>1, SaddleOutside DEF FinalLocalOrder
  <2>7. localOrder[v] \in (-N)..(-1)
    BY DEF LInv, OrderOf
  <2> QED BY <1>1, <2>1, <2>5, <2>6, <2>7
<1>4. ASSUME NEW v \in Vert, \A p \in Parents : v \notin Dome(p)
      PROVE  FlatOrder[v] = order[v]
  BY <1>2, <1>4 DEF FlatOrder
<1>5. ASSUME NEW p \in Parents
      PROVE  /\ FlatOrder[Saddle(p)] = order[Saddle(p)]
             /\ FinalLocalOrder[Saddle(p)] = N + 1
  BY <1>2, <1>4, SaddleOutside DEF FinalLocalOrder
<1>6. ASSUME NEW v \in Vert PROVE FlatOrder[v] \in Int /\ FlatOrder[v] <= order[v]
  <2>1. CASE \A p \in Parents : v \notin Dome(p)
    BY <1>1, <1>4, <2>1
  <2>2. ASSUME NEW p \in Parents, v \in Dome(p)
        PROVE  FlatOrder[v] \in Int /\ FlatOrder[v] <= order[v]
    <3>1. order[v] > order[Saddle(p)] /\ Saddle(p) \in Vert
      BY <2>2, HillFacts
    <3> QED BY <1>1, <1>3, <2>2, <3>1
  <2> QED BY <2>1, <2>2
<1>7. FlatOrder \in [Vert -> Int]
  BY <1>6 DEF FlatOrder
<1>8. FinalLocalOrder \in [Vert -> Int]
  BY <1>1 DEF FinalLocalOrder
<1> QED BY <1>3, <1>4, <1>5, <1>6, <1>7, <1>8

(* Where a hill was filled, its number tells who is in it.                 *)
LEMMA FilledFacts ==
    ASSUME Base, Between, GInv, Filled, NEW p \in Parents, pc[p] # "segment"
    PROVE  /\ segment[p] = Dome(p)
           /\ \A v \in Vert : segmentation[v] = p <=> v \in Dome(p)
           /\ \A v \in Vert :
                 /\ InsideNeighbors(p, v) = Neighbors(v) \cap Dome(p)
                 /\ OutsideNeighbors(p, v) = Neighbors(v) \ (Dome(p) \cup {Saddle(p)})
<1>1. segment[p] = Dome(p) /\ Dome(p) \subseteq Vert /\ Saddle(p) \notin Dome(p)
  BY HillFacts DEF GInv, Hill
<1>2. \A v \in Vert : segmentation[v] = p <=> v \in Dome(p)
  BY DEF Filled
<1>3. \A v \in Vert : Neighbors(v) \subseteq Vert
  BY NeighborFacts DEF Base
<1> QED BY <1>1, <1>2, <1>3 DEF InsideNeighbors, OutsideNeighbors

(* Something else than its saddle is next to a hill.                       *)
LEMMA BoundaryThere ==
    ASSUME NoCutVertices, Base, Between, GInv, Filled, NEW p \in Parents,
           pc[p] # "segment"
    PROVE  OnBoundary(p) # {}
<1>1. PICK s, D : s = Saddle(p) /\ D = Dome(p)
  OBVIOUS
<1>2. /\ s \in Vert /\ p \in D /\ D \subseteq Vert /\ s \notin D
  BY <1>1, HillFacts
<1>3. PICK w \in Larger(s) : w \notin D
  BY <1>1 DEF GInv, Escape
<1>4. w \in Vert /\ w # s
  BY <1>2, <1>3, LargerFacts
<1>5. Connected(request.mesh, Vert \ {s})
  BY <1>2 DEF NoCutVertices, Base, Vert
<1>6. D \in SUBSET (Vert \ {s}) /\ D # {} /\ D # Vert \ {s}
  BY <1>2, <1>3, <1>4
<1>7. PICK a \in D, b \in (Vert \ {s}) \ D : {a, b} \in request.mesh
  BY <1>5, <1>6 DEF Connected
<1>8. b \in Neighbors(a)
  BY <1>2, <1>7, EdgeFacts DEF Base
<1>9. b \in OutsideNeighbors(p, a) /\ a \in segment[p]
  BY <1>1, <1>2, <1>7, <1>8, FilledFacts
<1> QED BY <1>9 DEF OnBoundary

(* The hills a pass flattens have no extremum left in them, and outside of *)
(* them no extremum comes up.                                              *)
LEMMA PassExtrema ==
    ASSUME NoCutVertices, Base, Between, GInv, LInv,
           \A p \in Parents : pc[p] = "ordered",
           NEW after, after = Rank(FlatOrder, FinalLocalOrder), NEW v \in Vert
    PROVE  /\ IsMaximum(v, after) <=>
                 IsMaximum(v, order) /\ \A p \in Parents : v \notin Dome(p)
           /\ IsMinimum(v, after) => IsMinimum(v, order)
           /\ \A p \in Parents : v \in Dome(p) => ~IsMinimum(v, after)
<1>1. /\ FlatOrder \in [Vert -> Int] /\ FinalLocalOrder \in [Vert -> Int]
      /\ Numbers(after) /\ request \in Requests
  BY LevelFacts, RankNumbers DEF Base
<1>2. ASSUME NEW x \in Vert, NEW y \in Vert,
             \/ FlatOrder[x] < FlatOrder[y]
             \/ /\ FlatOrder[x] = FlatOrder[y]
                /\ FinalLocalOrder[x] < FinalLocalOrder[y]
      PROVE  after[x] < after[y] /\ ~(after[y] < after[x])
  <2>1. after[x] < after[y]
    BY <1>1, <1>2, RankBelow
  <2>2. after[x] \in Int /\ after[y] \in Int
    BY <1>1 DEF Numbers
  <2> QED BY <2>1, <2>2
<1>3. /\ \A u \in Vert : order[u] \in Int /\ FlatOrder[u] \in Int
      /\ \A u \in Vert : order[u] = order[v] => u = v
      /\ \A u \in Vert : FlatOrder[u] <= order[u]
      /\ Neighbors(v) \subseteq Vert /\ v \notin Neighbors(v)
  BY <1>1, LevelFacts, NeighborFacts DEF Base
<1>4. ASSUME NEW p \in Parents, v \in Dome(p)
      PROVE  ~IsMaximum(v, after) /\ ~IsMinimum(v, after)
  <2>1. PICK s, D : s = Saddle(p) /\ D = Dome(p)
    OBVIOUS
  <2>2. /\ s \in Vert /\ s \notin D /\ p \in D /\ D \in SUBSET Vert
        /\ \A u \in Neighbors(v) : u \notin D /\ u # s => order[u] < order[s]
        /\ \E u \in Neighbors(s) : u \in D
    BY <1>4, <2>1, HillFacts
  <2>3. /\ FlatOrder[s] = order[s] /\ FinalLocalOrder[s] = N + 1
        /\ \A u \in D : /\ FlatOrder[u] = order[s]
                        /\ FinalLocalOrder[u] = localOrder[u]
                        /\ localOrder[u] \in Int /\ localOrder[u] < N + 1
    BY <2>1, LevelFacts
  <2>4. /\ segment[p] = D
        /\ InsideNeighbors(p, v) = Neighbors(v) \cap D
        /\ OutsideNeighbors(p, v) = Neighbors(v) \ (D \cup {s})
    <3>1. Filled /\ pc[p] # "segment"
      BY DEF LInv
    <3> QED BY <2>1, <3>1, FilledFacts
  <2>5. Size(p) = Cardinality(D)
    BY <2>1 DEF GInv, Hill, Size
  <2>6. \/ Size(p) = 1
        \/ /\ \A x, y \in D : localOrder[x] = localOrder[y] => x = y
           /\ ResidualMaxima(p, localOrder) = {}
           /\ ResidualMinima(p, localOrder) = {}
    BY <2>1 DEF LInv, OrderOf
  <2>7. ASSUME s \in Neighbors(v) PROVE ~IsMaximum(v, after)
    <3>1. after[v] < after[s] /\ ~(after[s] < after[v])
      BY <1>2, <1>4, <2>1, <2>2, <2>3
    <3> QED BY <2>7, <3>1 DEF IsMaximum
  <2>8. D = {p} => s \in Neighbors(v)
    BY <1>4, <2>1, <2>2, NeighborFacts DEF Base
  <2>9. Size(p) = 1 => D = {p}
    <3>1. IsFiniteSet(D)
      BY <2>2, VertFacts, FS_Subset DEF Base
    <3> HAVE Size(p) = 1
    <3>2. PICK e : D = {e}
      BY <2>5, <3>1, FS_Singleton
    <3> QED BY <2>2, <3>2
  <2>10. ASSUME s \notin Neighbors(v) PROVE ~IsMaximum(v, after)
    <3>1. ResidualMaxima(p, localOrder) = {}
      BY <2>6, <2>8, <2>9, <2>10
    <3>2. ~\A u \in InsideNeighbors(p, v) : localOrder[u] <= localOrder[v]
      BY <1>4, <2>1, <2>4, <2>10, <3>1 DEF ResidualMaxima
    <3>3. PICK u \in Neighbors(v) \cap D : ~(localOrder[u] <= localOrder[v])
      BY <2>4, <3>2
    <3>4. after[v] < after[u] /\ ~(after[u] < after[v])
      BY <1>2, <1>4, <2>1, <2>2, <2>3, <3>3
    <3> QED BY <3>3, <3>4 DEF IsMaximum
  <2>11. ASSUME OutsideNeighbors(p, v) # {} PROVE ~IsMinimum(v, after)
    <3>1. PICK u \in Neighbors(v) : u \notin D /\ u # s
      BY <2>4, <2>11
    <3>2. order[u] < order[s] /\ u \in Vert /\ FlatOrder[u] <= order[u]
      BY <1>3, <2>2, <3>1
    <3>3. FlatOrder[u] < FlatOrder[v]
      BY <1>3, <1>4, <2>1, <2>2, <2>3, <3>2
    <3>4. ~(after[u] > after[v])
      BY <1>2, <3>2, <3>3
    <3> QED BY <3>1, <3>4 DEF IsMinimum
  <2>12. ASSUME OutsideNeighbors(p, v) = {} PROVE ~IsMinimum(v, after)
    <3>1. v \in segment[p] \ OnBoundary(p)
      BY <1>4, <2>1, <2>4, <2>12 DEF OnBoundary
    <3>2. Size(p) # 1
      <4> SUFFICES ASSUME D = {p} PROVE FALSE
        BY <2>9
      <4>1. p = v
        BY <1>4, <2>1
      <4>2. OnBoundary(p) # {}
        BY BoundaryThere DEF LInv
      <4> QED BY <2>4, <3>1, <4>1, <4>2 DEF OnBoundary
    <3>3. /\ ResidualMinima(p, localOrder) = {}
          /\ \A x, y \in D : localOrder[x] = localOrder[y] => x = y
      BY <2>6, <3>2
    <3>4. ~\A u \in InsideNeighbors(p, v) : localOrder[u] > localOrder[v]
      BY <3>1, <3>3 DEF ResidualMinima
    <3>5. PICK u \in Neighbors(v) \cap D : ~(localOrder[u] > localOrder[v])
      BY <2>4, <3>4
    <3>6. localOrder[u] # localOrder[v]
      BY <1>3, <1>4, <2>1, <3>3, <3>5
    <3>7. localOrder[u] < localOrder[v]
      BY <1>4, <2>1, <2>3, <3>5, <3>6
    <3>8. ~(after[u] > after[v])
      BY <1>2, <1>4, <2>1, <2>2, <2>3, <3>5, <3>7
    <3> QED BY <3>5, <3>8 DEF IsMinimum
  <2> QED BY <2>7, <2>10, <2>11, <2>12
<1>5. ASSUME \A p \in Parents : v \notin Dome(p)
      PROVE  /\ IsMaximum(v, after) <=> IsMaximum(v, order)
             /\ IsMinimum(v, after) => IsMinimum(v, order)
  <2>1. FlatOrder[v] = order[v]
    BY <1>5, LevelFacts
  <2>2. ASSUME NEW u \in Neighbors(v), order[u] < order[v]
        PROVE  after[u] < after[v] /\ ~(after[u] > after[v])
    <3>1. FlatOrder[u] < FlatOrder[v]
      BY <1>3, <2>1, <2>2
    <3> QED BY <1>2, <1>3, <3>1
  <2>3. ASSUME NEW q \in Parents, NEW u \in Neighbors(v), u \in Dome(q),
               v # Saddle(q)
        PROVE  order[Saddle(q)] > order[v]
    <3>1. /\ Saddle(q) \in Vert
          /\ \A x \in Neighbors(u) :
                x \notin Dome(q) /\ x # Saddle(q) => order[x] < order[Saddle(q)]
      BY <2>3, HillFacts
    <3>2. v \in Neighbors(u)
      BY NeighborFacts DEF Base
    <3> QED BY <1>3, <1>5, <2>3, <3>1, <3>2
  <2>4. ASSUME NEW u \in Neighbors(v), order[u] > order[v]
        PROVE  ~IsMaximum(v, after)
    <3>1. ASSUME NEW x \in Neighbors(v), order[x] > order[v],
                 \A q \in Parents : x \in Dome(q) => v # Saddle(q)
          PROVE  ~IsMaximum(v, after)
      <4>1. FlatOrder[v] < FlatOrder[x]
        <5>1. CASE FlatOrder[x] = order[x]
          BY <1>3, <2>1, <3>1, <5>1
        <5>2. ASSUME NEW q \in Parents, x \in Dome(q)
              PROVE  FlatOrder[v] < FlatOrder[x]
          <6>1. order[Saddle(q)] > order[v] /\ FlatOrder[x] = order[Saddle(q)]
            BY <2>3, <3>1, <5>2, LevelFacts
          <6>2. Saddle(q) \in Vert
            BY HillFacts
          <6> QED BY <1>3, <2>1, <6>1, <6>2
        <5> QED BY <1>3, <5>1, <5>2, LevelFacts
      <4>2. ~(after[x] < after[v])
        BY <1>2, <1>3, <4>1
      <4> QED BY <4>2 DEF IsMaximum
    <3>2. ASSUME NEW q \in Parents, u \in Dome(q), v = Saddle(q)
          PROVE  ~IsMaximum(v, after)
      <4>1. PICK w \in Larger(v) :
                    \A o \in Parents : Saddle(o) = v => w \notin Dome(o)
        BY <3>2 DEF GInv, Escape
      <4>2. w \in Neighbors(v) /\ order[w] > order[v]
        BY DEF Larger
      <4> QED BY <3>1, <4>1, <4>2
    <3> QED BY <2>4, <3>1, <3>2
  <2>5. IsMaximum(v, order) => IsMaximum(v, after)
    BY <2>2 DEF IsMaximum
  <2>6. IsMaximum(v, after) => IsMaximum(v, order)
    <3> SUFFICES ASSUME IsMaximum(v, after), NEW u \in Neighbors(v)
                 PROVE  order[u] < order[v]
      BY DEF IsMaximum
    <3>1. order[u] # order[v] /\ ~(order[u] > order[v])
      BY <1>3, <2>4
    <3> QED BY <1>3, <3>1
  <2>7. IsMinimum(v, after) => IsMinimum(v, order)
    <3> SUFFICES ASSUME IsMinimum(v, after), NEW u \in Neighbors(v)
                 PROVE  order[u] > order[v]
      BY DEF IsMinimum
    <3>1. order[u] # order[v] /\ ~(order[u] < order[v])
      BY <1>3, <2>2 DEF IsMinimum
    <3> QED BY <1>3, <3>1
  <2> QED BY <2>5, <2>6, <2>7
<1> QED BY <1>4, <1>5
-------------------------------------------------------------------------------
(***************************************************************************)
(* The floods that order a hill.                                           *)
(***************************************************************************)
(* f holds the states of the flood of p after 0, 1, ..., n vertices.       *)
FloodStep(p, S) == {IF st.queue = {} THEN st ELSE FloodPop(p, st) : st \in S}
FloodRounds(p, n, f) ==
    f = [k \in 0..n |-> IF k = 0 THEN {FloodStart(p)} ELSE FloodStep(p, f[k - 1])]

LEMMA FloodRoundsExist ==
    ASSUME NEW p, NEW n \in Nat
    PROVE  \E f : FloodRounds(p, n, f)
<1> DEFINE bad == {k \in Nat : ~\E f : FloodRounds(p, k, f)}
<1> SUFFICES ASSUME bad # {} PROVE FALSE
  OBVIOUS
<1>1. PICK m \in bad : \A x \in bad : m <= x
  BY JP!LeastNumber
<1>2. m # 0
  <2>1. FloodRounds(p, 0, [k \in 0..0 |-> {FloodStart(p)}])
    BY DEF FloodRounds
  <2> QED BY <2>1
<1>3. m \in Nat /\ m - 1 \in Nat /\ ~(m <= m - 1)
  BY <1>2
<1>4. PICK f : FloodRounds(p, m - 1, f)
  BY <1>1, <1>3
<1> DEFINE g == [k \in 0..m |-> IF k = m THEN FloodStep(p, f[m - 1]) ELSE f[k]]
<1>5. FloodRounds(p, m, g)
  <2>1. \A k \in 0..(m - 1) : k \in 0..m /\ k # m /\ g[k] = f[k]
    BY <1>3
  <2>2. m - 1 \in 0..(m - 1) /\ m \in 0..m
    BY <1>3
  <2>3. g[m] = FloodStep(p, g[m - 1])
    BY <2>1, <2>2
  <2>4. \A k \in 0..(m - 1) : f[k] = IF k = 0 THEN {FloodStart(p)}
                                     ELSE FloodStep(p, f[k - 1])
    BY <1>3, <1>4 DEF FloodRounds
  <2>5. DOMAIN g = 0..m /\ g = [k \in 0..m |-> g[k]]
    OBVIOUS
  <2> HIDE DEF g
  <2>6. ASSUME NEW k \in 0..m
        PROVE  g[k] = IF k = 0 THEN {FloodStart(p)} ELSE FloodStep(p, g[k - 1])
    <3>1. CASE k = m
      BY <1>2, <2>3, <3>1
    <3>2. CASE k # m
      <4>1. k \in 0..(m - 1) /\ (k # 0 => k - 1 \in 0..(m - 1))
        BY <1>3, <3>2
      <4> QED BY <2>1, <2>4, <4>1
    <3> QED BY <3>1, <3>2
  <2> QED BY <2>5, <2>6 DEF FloodRounds
<1> QED BY <1>1, <1>5

(* The key of a vertex in the queue.                                       *)
KeyOf(p, v) == IF v = Saddle(p)
               THEN IF performSuperlevel[p] THEN N + 1 ELSE -(2 * N) - 2
               ELSE Keys(p)[v]

Popped(st) == {st.popped[i] : i \in DOMAIN st.popped}
Waiting(p, st) == (st.queued \cup {Saddle(p)}) \ Popped(st)

(* What is known of the flood after k vertices.                            *)
FloodOf(p, k, st) ==
    LET D == Dome(p)
        s == Saddle(p)
    IN
    /\ st.popped \in Seq(D \cup {s})
    /\ \A i, j \in DOMAIN st.popped : st.popped[i] = st.popped[j] => i = j
    /\ st.queued \subseteq D /\ Popped(st) \subseteq st.queued \cup {s}
    /\ st.queue = {<<KeyOf(p, v), v>> : v \in Waiting(p, st)}
    /\ \A x \in Popped(st) : Neighbors(x) \cap D \subseteq st.queued
    /\ Len(st.popped) = k \/ st.queue = {}
    /\ IF performSuperlevel[p]
       THEN /\ st.popped = <<>> => st.queued = {}
            /\ st.popped # <<>> => st.popped[1] = s
       ELSE /\ OnBoundary(p) \subseteq st.queued
            /\ \A i \in DOMAIN st.popped :
                  st.popped[i] = s => i = Len(st.popped) /\ D \subseteq Popped(st)

(* The hills whose floods run.                                             *)
Flooding(p) == /\ NoCutVertices /\ Base /\ Between /\ GInv /\ Filled
               /\ p \in Parents /\ pc[p] = "order" /\ OrderOf(p)

(* The keys of the hill lie between those of the saddle.                   *)
LEMMA KeyFacts ==
    ASSUME NEW p, Flooding(p)
    PROVE  /\ p \in Vert /\ Saddle(p) \in Vert /\ Saddle(p) \notin Dome(p)
           /\ Dome(p) \in SUBSET Vert /\ segment[p] = Dome(p)
           /\ \A v \in Dome(p) : /\ KeyOf(p, v) = Keys(p)[v]
                                 /\ Keys(p)[v] \in (-N)..(-1)
           /\ \A v \in Vert \ Dome(p) : Keys(p)[v] = localOrder[v]
           /\ KeyOf(p, Saddle(p)) = IF performSuperlevel[p] THEN N + 1
                                    ELSE -(2 * N) - 2
           /\ IsFiniteSet(Dome(p)) /\ Size(p) = Cardinality(Dome(p))
           /\ Size(p) \in Nat /\ Size(p) <= N /\ N \in Nat
<1>1. /\ p \in Parents /\ pc[p] = "order" /\ GInv /\ Base /\ Between
      /\ OrderOf(p) /\ Filled
  BY DEF Flooding
<1>2. /\ p \in Vert /\ Saddle(p) \in Vert /\ Saddle(p) \notin Dome(p)
      /\ Dome(p) \in SUBSET Vert
  BY <1>1, HillFacts
<1>3. segment[p] = Dome(p)
  BY <1>1, FilledFacts
<1>4. N \in Nat /\ Vert = 1..N /\ IsFiniteSet(Vert)
  BY <1>1, VertFacts DEF Base
<1>5. IsFiniteSet(Dome(p)) /\ Size(p) = Cardinality(Dome(p)) /\ Size(p) \in Nat
      /\ Size(p) <= N
  <2>1. Size(p) = Cardinality(Dome(p))
    BY <1>1 DEF GInv, Hill, Size
  <2>2. Cardinality(Vert) = N
    BY <1>4, FS_Interval
  <2>3. IsFiniteSet(Dome(p)) /\ Cardinality(Dome(p)) <= Cardinality(Vert)
    BY <1>2, <1>4, FS_Subset
  <2>4. Cardinality(Dome(p)) \in Nat
    BY <2>3, FS_CardinalityType
  <2> QED BY <2>1, <2>2, <2>3, <2>4
<1>6. ASSUME NEW v \in Dome(p) PROVE Keys(p)[v] \in (-N)..(-1)
  <2>1. v \in Vert /\ v \in segment[p]
    BY <1>2, <1>3
  <2>2. PICK lo, n : lo = localOrder[v] /\ n = Size(p)
    OBVIOUS
  <2>3. lo \in (-N)..(-1) /\ (~performSuperlevel[p] => lo \in (-n)..(-1))
    BY <1>1, <2>2 DEF OrderOf
  <2>4. Keys(p)[v] = IF performSuperlevel[p] THEN lo ELSE -n - 1 - lo
    BY <2>1, <2>2 DEF Keys
  <2>5. n \in Nat /\ n <= N
    BY <1>5, <2>2
  <2>6. -n - 1 - lo \in (-n)..(-1) \/ performSuperlevel[p]
    BY <2>3, <2>5
  <2> QED BY <1>4, <2>3, <2>4, <2>5, <2>6
<1>7. \A v \in Vert \ Dome(p) : Keys(p)[v] = localOrder[v]
  BY <1>3 DEF Keys
<1> QED BY <1>2, <1>3, <1>4, <1>5, <1>6, <1>7 DEF KeyOf

(* A queue that is not empty has a highest entry.                          *)
LEMMA TopEntry ==
    ASSUME request \in Requests, NEW W \in SUBSET Vert, W # {}, NEW key,
           \A w \in W : key[w] \in Int /\ key[w] <= N + 1,
           NEW q, q = {<<key[w], w>> : w \in W}
    PROVE  \E v \in W : /\ Highest2(q) = <<key[v], v>>
                        /\ \A w \in W : key[w] <= key[v]
<1>1. N \in Nat /\ Vert = 1..N
  BY VertFacts
<1>2. PICK m \in W : \A w \in W : key[w] <= key[m]
  <2> DEFINE S == {N + 1 - key[w] : w \in W}
  <2>1. S \in SUBSET Nat /\ S # {}
    <3>1. ASSUME NEW x \in W PROVE N + 1 - key[x] \in Nat
      <4>1. PICK a : a = key[x]
        OBVIOUS
      <4>2. a \in Int /\ a <= N + 1
        BY <4>1
      <4> QED BY <1>1, <4>1, <4>2
    <3> QED BY <3>1
  <2>2. PICK d \in S : \A x \in S : d <= x
    <3> HIDE DEF S
    <3> QED BY <2>1, JP!LeastNumber
  <2>3. PICK w \in W : d = N + 1 - key[w]
    OBVIOUS
  <2>4. \A x \in W : N + 1 - key[w] <= N + 1 - key[x]
    <3>1. \A x \in W : N + 1 - key[x] \in S
      OBVIOUS
    <3> HIDE DEF S
    <3> QED BY <2>2, <2>3, <3>1
  <2>5. ASSUME NEW x \in W PROVE key[x] <= key[w]
    <3>1. PICK a, b : a = key[w] /\ b = key[x]
      OBVIOUS
    <3>2. a \in Int /\ b \in Int /\ N + 1 - a <= N + 1 - b
      BY <2>4, <3>1
    <3>3. b <= a
      BY <1>1, <3>2
    <3> QED BY <3>1, <3>3
  <2> QED BY <2>5
<1>3. PICK v \in W : key[v] = key[m] /\ \A w \in W : key[w] = key[m] => w <= v
  <2> DEFINE S == {N - w : w \in {x \in W : key[x] = key[m]}}
  <2>1. S \in SUBSET Nat /\ S # {}
    BY <1>1
  <2>2. PICK d \in S : \A x \in S : d <= x
    <3> HIDE DEF S
    <3> QED BY <2>1, JP!LeastNumber
  <2>3. PICK w \in W : key[w] = key[m] /\ d = N - w
    OBVIOUS
  <2>4. \A x \in W : key[x] = key[m] => N - w <= N - x
    <3>1. \A x \in W : key[x] = key[m] => N - x \in S
      OBVIOUS
    <3> HIDE DEF S
    <3> QED BY <2>2, <2>3, <3>1
  <2> QED BY <1>1, <2>3, <2>4
<1>4. \A w \in W : /\ key[w] < key[v] \/ (key[w] = key[v] /\ w <= v)
                   /\ key[w] <= key[v]
  BY <1>2, <1>3
<1>5. PICK e : e = <<key[v], v>>
  OBVIOUS
<1>6. e \in q /\ e[1] = key[v] /\ e[2] = v
  BY <1>5
<1>7. \A f \in q : f[1] < e[1] \/ (f[1] = e[1] /\ f[2] <= e[2])
  BY <1>4, <1>6
<1>8. ASSUME NEW f \in q, \A g \in q : g[1] < f[1] \/ (g[1] = f[1] /\ g[2] <= f[2])
      PROVE  f = e
  <2>1. PICK w \in W : f = <<key[w], w>>
    OBVIOUS
  <2>2. f[1] = key[w] /\ f[2] = w
    BY <2>1
  <2>3. key[v] < key[w] \/ (key[v] = key[w] /\ v <= w)
    BY <1>6, <1>8, <2>2
  <2>4. v = w
    BY <1>1, <1>4, <2>3
  <2> QED BY <1>5, <2>1, <2>4
<1>9. Highest2(q) = e
  BY <1>6, <1>7, <1>8 DEF Highest2
<1> QED BY <1>4, <1>5, <1>9

LEMMA FloodBegins ==
    ASSUME NEW p, Flooding(p)
    PROVE  FloodOf(p, 0, FloodStart(p))
<1>1. /\ segment[p] = Dome(p) /\ Saddle(p) \notin Dome(p)
      /\ \A v \in Dome(p) : KeyOf(p, v) = Keys(p)[v]
      /\ KeyOf(p, Saddle(p)) = IF performSuperlevel[p] THEN N + 1
                               ELSE -(2 * N) - 2
  BY KeyFacts
<1>2. OnBoundary(p) \subseteq Dome(p)
  BY <1>1 DEF OnBoundary
<1>3. ~performSuperlevel[p] => boundary[p] = OnBoundary(p)
  BY DEF Flooding, OrderOf
<1>4. PICK st : st = FloodStart(p)
  OBVIOUS
<1> SUFFICES FloodOf(p, 0, st)
  BY <1>4
<1>5. st.popped = <<>> /\ Len(st.popped) = 0 /\ Popped(st) = {}
  BY <1>4 DEF FloodStart, Popped
<1>6. Waiting(p, st) = st.queued \cup {Saddle(p)}
  BY <1>5 DEF Waiting
<1>7. /\ st.popped \in Seq(Dome(p) \cup {Saddle(p)}) /\ DOMAIN st.popped = {}
  BY <1>5
<1>8. CASE performSuperlevel[p]
  <2>1. st.queued = {} /\ st.queue = {<<N + 1, Saddle(p)>>}
    BY <1>8, <1>4 DEF FloodStart
  <2>2. st.queue = {<<KeyOf(p, v), v>> : v \in Waiting(p, st)}
    BY <1>1, <1>6, <1>8, <2>1
  <2>3. /\ st.queued \subseteq Dome(p) /\ Popped(st) \subseteq st.queued
        /\ ~performSuperlevel[p] => OnBoundary(p) \subseteq st.queued
    BY <1>5, <1>8, <2>1
  <2> QED BY <1>8, <1>5, <1>7, <2>1, <2>2, <2>3 DEF FloodOf
<1>9. CASE ~performSuperlevel[p]
  <2>1. /\ st.queued = boundary[p]
        /\ st.queue = {<<Keys(p)[v], v>> : v \in boundary[p]}
                         \cup {<<-(2 * N) - 2, Saddle(p)>>}
    BY <1>9, <1>4 DEF FloodStart
  <2>2. st.queue = {<<KeyOf(p, v), v>> : v \in Waiting(p, st)}
    BY <1>1, <1>2, <1>3, <1>6, <1>9, <2>1
  <2>3. /\ st.queued \subseteq Dome(p) /\ Popped(st) \subseteq st.queued
        /\ ~performSuperlevel[p] => OnBoundary(p) \subseteq st.queued
    BY <1>2, <1>3, <1>5, <1>9, <2>1
  <2> QED BY <1>9, <1>5, <1>7, <2>1, <2>2, <2>3 DEF FloodOf
<1> QED BY <1>8, <1>9

(* A flood goes on: what is next to the vertex it pops comes into the      *)
(* queue, and the saddle is popped first, or last and after all others.    *)
LEMMA FloodGoesOn ==
    ASSUME NEW p, Flooding(p), NEW k \in Nat, NEW st, FloodOf(p, k, st),
           st.queue # {}
    PROVE  FloodOf(p, k + 1, FloodPop(p, st))
<1> DEFINE D == Dome(p)
           s == Saddle(p)
           W == Waiting(p, st)
<1>1. /\ p \in Vert /\ s \in Vert /\ s \notin D /\ D \in SUBSET Vert
      /\ \A v \in D : KeyOf(p, v) = Keys(p)[v] /\ Keys(p)[v] \in (-N)..(-1)
      /\ KeyOf(p, s) = IF performSuperlevel[p] THEN N + 1 ELSE -(2 * N) - 2
      /\ N \in Nat /\ segment[p] = D
  BY KeyFacts
<1>2. /\ Base /\ Between /\ GInv /\ Filled /\ NoCutVertices /\ p \in Parents
      /\ pc[p] # "segment" /\ request \in Requests
  BY DEF Flooding, Base
<1>3. /\ st.popped \in Seq(D \cup {s})
      /\ \A i, j \in DOMAIN st.popped : st.popped[i] = st.popped[j] => i = j
      /\ st.queued \subseteq D /\ Popped(st) \subseteq st.queued \cup {s}
      /\ st.queue = {<<KeyOf(p, v), v>> : v \in W}
      /\ \A x \in Popped(st) : Neighbors(x) \cap D \subseteq st.queued
      /\ Len(st.popped) = k
  BY DEF FloodOf
<1>4. IF performSuperlevel[p]
      THEN /\ st.popped = <<>> => st.queued = {}
           /\ st.popped # <<>> => st.popped[1] = s
      ELSE /\ OnBoundary(p) \subseteq st.queued
           /\ \A i \in DOMAIN st.popped :
                 st.popped[i] = s => i = Len(st.popped) /\ D \subseteq Popped(st)
  BY DEF FloodOf
<1>5. W \subseteq D \cup {s} /\ W \in SUBSET Vert /\ W # {}
      /\ W = (st.queued \cup {s}) \ Popped(st)
  BY <1>1, <1>3 DEF Waiting
<1> HIDE DEF D, s, W
<1>6. PICK v \in W : /\ Highest2(st.queue) = <<KeyOf(p, v), v>>
                     /\ \A w \in W : KeyOf(p, w) <= KeyOf(p, v)
  <2>1. PICK key : key = [w \in W |-> KeyOf(p, w)]
    OBVIOUS
  <2>2. ASSUME NEW w \in W PROVE key[w] \in Int /\ key[w] <= N + 1
    <3>1. PICK a : a = key[w]
      OBVIOUS
    <3>2. \/ a \in (-N)..(-1)
          \/ a = N + 1
          \/ a = -(2 * N) - 2
      BY <1>1, <1>5, <2>1, <3>1
    <3>3. a \in Int /\ a <= N + 1
      BY <1>1, <3>2
    <3> QED BY <3>1, <3>3
  <2>3. st.queue = {<<key[w], w>> : w \in W}
    BY <1>3, <2>1
  <2>4. \E v \in W : /\ Highest2(st.queue) = <<key[v], v>>
                     /\ \A w \in W : key[w] <= key[v]
    BY <1>2, <1>5, <2>2, <2>3, TopEntry
  <2> QED BY <2>1, <2>4
<1>7. v \in D \cup {s} /\ v \in Vert /\ v \notin Popped(st)
      /\ v \in st.queued \cup {s}
  BY <1>5
<1>8. PICK near : near = (Neighbors(v) \cap D) \ st.queued
  OBVIOUS
<1>9. near = {u \in Neighbors(v) \ st.queued :
                 segmentation[u] = p /\ Keys(p)[u] < 0}
  <2>1. Neighbors(v) \subseteq Vert
    BY <1>2, <1>7, NeighborFacts
  <2>2. \A u \in Vert : segmentation[u] = p <=> u \in D
    BY <1>2, FilledFacts DEF D
  <2>3. \A u \in D : Keys(p)[u] < 0
    <3> SUFFICES ASSUME NEW u \in D PROVE Keys(p)[u] < 0
      OBVIOUS
    <3>1. PICK a : a = Keys(p)[u]
      OBVIOUS
    <3>2. a \in (-N)..(-1)
      BY <1>1, <3>1
    <3>3. a < 0
      BY <1>1, <3>2
    <3> QED BY <3>1, <3>3
  <2> QED BY <1>8, <2>1, <2>2, <2>3
<1>10. PICK new : new = FloodPop(p, st)
  OBVIOUS
<1>11. PICK top : top = Highest2(st.queue)
  OBVIOUS
<1>12. top = <<KeyOf(p, v), v>> /\ top[2] = v
  BY <1>6, <1>11
<1>13. /\ new.queue = (st.queue \ {top}) \cup {<<Keys(p)[u], u>> : u \in near}
       /\ new.queued = st.queued \cup near
       /\ new.popped = Append(st.popped, v)
  BY <1>9, <1>10, <1>11, <1>12 DEF FloodPop
<1>14. PICK n \in Nat : n = Len(st.popped) /\ n = k
  BY <1>3
<1>15. /\ DOMAIN st.popped = 1..n
       /\ new.popped \in Seq(D \cup {s}) /\ Len(new.popped) = n + 1
       /\ DOMAIN new.popped = 1..(n + 1)
       /\ \A i \in 1..n : new.popped[i] = st.popped[i]
       /\ new.popped[n + 1] = v
  BY <1>3, <1>7, <1>13, <1>14
<1>16. Popped(new) = Popped(st) \cup {v}
  <2>1. \A i : i \in 1..(n + 1) <=> i \in 1..n \/ i = n + 1
    OBVIOUS
  <2>2. \A x : x \in Popped(st) <=> \E i \in 1..n : st.popped[i] = x
    BY <1>15 DEF Popped
  <2>3. \A x : x \in Popped(new) <=> \E i \in 1..(n + 1) : new.popped[i] = x
    BY <1>15 DEF Popped
  <2>4. \A x : x \in Popped(new) <=> x \in Popped(st) \/ x = v
    BY <1>15, <2>1, <2>2, <2>3
  <2> QED BY <2>4
<1>17. \A i, j \in DOMAIN new.popped : new.popped[i] = new.popped[j] => i = j
  <2>1. \A i \in 1..n : st.popped[i] # v
    BY <1>7, <1>15 DEF Popped
  <2>2. \A i \in 1..(n + 1) : i \in 1..n \/ i = n + 1
    OBVIOUS
  <2> QED BY <1>3, <1>15, <2>1, <2>2
<1>18. /\ new.queued \subseteq D
       /\ Popped(new) \subseteq new.queued \cup {s}
       /\ st.queued \subseteq new.queued
  BY <1>3, <1>7, <1>8, <1>13, <1>16
<1>19. Waiting(p, new) = (W \ {v}) \cup near
  <2>1. v \notin near
    BY <1>2, <1>7, <1>8, NeighborFacts
  <2>2. near \cap Popped(st) = {}
    BY <1>1, <1>3, <1>8
  <2>3. Waiting(p, new) = (new.queued \cup {s}) \ Popped(new)
    BY DEF Waiting, s
  <2> QED BY <1>5, <1>13, <1>16, <2>1, <2>2, <2>3
<1>20. new.queue = {<<KeyOf(p, w), w>> : w \in Waiting(p, new)}
  <2>1. near \subseteq D /\ \A u \in near : KeyOf(p, u) = Keys(p)[u]
    BY <1>1, <1>8
  <2>2. st.queue \ {top} = {<<KeyOf(p, w), w>> : w \in W \ {v}}
    BY <1>3, <1>12
  <2>3. {<<Keys(p)[u], u>> : u \in near} = {<<KeyOf(p, u), u>> : u \in near}
    BY <2>1
  <2> QED BY <1>13, <1>19, <2>2, <2>3
<1>21. \A x \in Popped(new) : Neighbors(x) \cap D \subseteq new.queued
  BY <1>3, <1>8, <1>13, <1>16
<1>22. Len(new.popped) = k + 1
  BY <1>14, <1>15
<1>23. new.popped # <<>>
  BY <1>14, <1>15
<1>24. ASSUME performSuperlevel[p] PROVE new.popped[1] = s
  <2>1. CASE n = 0
    <3>1. st.popped = <<>>
      BY <1>3, <1>14, <2>1
    <3>2. W = {s}
      BY <1>4, <1>5, <1>24, <3>1
    <3> QED BY <1>15, <2>1, <3>2
  <2>2. CASE n # 0
    <3>1. 1 \in 1..n /\ st.popped # <<>>
      BY <1>14, <1>15, <2>2
    <3> QED BY <1>4, <1>15, <1>24, <3>1
  <2> QED BY <2>1, <2>2
<1>25. ASSUME ~performSuperlevel[p], NEW i \in DOMAIN new.popped,
              new.popped[i] = s
       PROVE  i = Len(new.popped) /\ D \subseteq Popped(new)
  <2>1. ASSUME i \in 1..n PROVE FALSE
    <3>1. D \subseteq Popped(st) /\ s \in Popped(st)
      BY <1>4, <1>15, <1>25, <2>1 DEF Popped
    <3> QED BY <1>3, <1>5, <3>1
  <2>2. i = n + 1 /\ v = s
    BY <1>15, <1>25, <2>1
  <2>3. ASSUME NEW w \in W, w # s PROVE FALSE
    <3>1. PICK a, b : a = KeyOf(p, w) /\ b = KeyOf(p, s)
      OBVIOUS
    <3>2. a \in (-N)..(-1) /\ b = -(2 * N) - 2
      BY <1>1, <1>5, <1>25, <2>3, <3>1
    <3>3. a <= b
      BY <1>6, <2>2, <2>3, <3>1
    <3> QED BY <1>1, <3>2, <3>3
  <2>4. st.queued \subseteq Popped(st)
    BY <1>1, <1>3, <1>5, <2>3
  <2>5. PICK x \in OnBoundary(p) : TRUE
    BY <1>2, BoundaryThere
  <2>6. x \in D /\ x \in Popped(st)
    BY <1>1, <1>4, <1>25, <2>4, <2>5 DEF OnBoundary
  <2>7. \A u \in Popped(st) \cap D, y \in D : y \in Neighbors(u) => y \in Popped(st)
    BY <1>3, <2>4
  <2>8. Connected(request.mesh, D)
    BY <1>2, HillFacts DEF D
  <2>9. D \in SUBSET D
    OBVIOUS
  <2>10. D \subseteq Popped(st)
    <3>1. D \in SUBSET Vert /\ request \in Requests
      BY <1>1, <1>2
    <3> QED BY <2>6, <2>7, <2>8, <2>9, <3>1, ConnectedInside
  <2> QED BY <1>15, <1>16, <2>2, <2>10
<1>26. OnBoundary(p) \subseteq new.queued \/ performSuperlevel[p]
  BY <1>4, <1>18
<1>27. FloodOf(p, k + 1, new)
  BY <1>15, <1>17, <1>18, <1>20, <1>21, <1>22, <1>23, <1>24, <1>25, <1>26
     DEF FloodOf, D, s
<1> QED BY <1>10, <1>27

(* A sequence without repetition is as long as the set it fills.           *)
LEMMA SequenceFills ==
    ASSUME NEW T, IsFiniteSet(T), NEW q \in Seq(T),
           \A i, j \in DOMAIN q : q[i] = q[j] => i = j
    PROVE  Len(q) = Cardinality(T) <=> \A x \in T : \E i \in DOMAIN q : q[i] = x
<1>1. PICK m \in Nat : m = Len(q)
  OBVIOUS
<1>2. DOMAIN q = 1..m /\ q \in [1..m -> T]
  BY <1>1
<1>3. q \in Injection(1..m, T)
  BY <1>2, Fun_IsInj
<1>4. IsFiniteSet(1..m) /\ Cardinality(1..m) = m
  <2>1. /\ IsFiniteSet(1..m)
        /\ Cardinality(1..m) = IF 1 > m THEN 0 ELSE m - 1 + 1
    <3>1. 1 \in Int /\ m \in Int
      BY <1>1
    <3> QED BY <3>1, FS_Interval
  <2> QED BY <1>1, <2>1
<1>5. m = Cardinality(T) <=> q \in Surjection(1..m, T)
  BY <1>3, <1>4, FS_Injection
<1>6. q \in Surjection(1..m, T) <=> \A x \in T : \E i \in 1..m : q[i] = x
  BY <1>2 DEF Surjection
<1> QED BY <1>1, <1>2, <1>5, <1>6

(* The flood of a hill pops each of its vertices and the saddle, once.     *)
LEMMA FloodResult ==
    ASSUME NEW p, Flooding(p), NEW flood \in FloodEnds(p)
    PROVE  /\ flood.popped \in Seq(Dome(p) \cup {Saddle(p)})
           /\ Len(flood.popped) = Size(p) + 1
           /\ \A i, j \in DOMAIN flood.popped :
                 flood.popped[i] = flood.popped[j] => i = j
           /\ \A v \in Dome(p) : \E i \in DOMAIN flood.popped :
                 flood.popped[i] = v
           /\ flood.popped[IF performSuperlevel[p] THEN 1 ELSE Size(p) + 1]
                 = Saddle(p)
           /\ flood.queued \subseteq Dome(p)
<1> DEFINE D == Dome(p)
           s == Saddle(p)
<1>1. /\ p \in Vert /\ s \in Vert /\ s \notin D /\ D \in SUBSET Vert
      /\ IsFiniteSet(D) /\ Size(p) = Cardinality(D) /\ Size(p) \in Nat
  BY KeyFacts
<1>2. /\ Base /\ Between /\ GInv /\ Filled /\ NoCutVertices /\ p \in Parents
      /\ pc[p] # "segment" /\ request \in Requests
  BY DEF Flooding, Base
<1> HIDE DEF D, s
<1>3. PICK n \in Nat : n = Size(p) + 1
  BY <1>1
<1>4. \A st \in FloodEnds(p) : FloodOf(p, n, st)
  <2>1. PICK f : f = CHOOSE g : FloodRounds(p, n, g)
    OBVIOUS
  <2>2. FloodRounds(p, n, f)
    BY <2>1, FloodRoundsExist
  <2>3. FloodEnds(p) = f[n]
    BY <1>3, <2>1 DEF FloodEnds, FloodRounds, FloodStep
  <2> DEFINE bad == {k \in 0..n : ~\A st \in f[k] : FloodOf(p, k, st)}
  <2> SUFFICES ASSUME bad # {} PROVE FALSE
    BY <2>3
  <2>4. PICK m \in bad : \A x \in bad : m <= x
    <3>1. bad \in SUBSET Nat
      OBVIOUS
    <3> HIDE DEF bad
    <3> QED BY <3>1, JP!LeastNumber
  <2>5. m # 0
    <3>1. f[0] = {FloodStart(p)}
      BY <2>2 DEF FloodRounds
    <3> QED BY <2>4, <3>1, FloodBegins
  <2>6. m \in 0..n /\ m - 1 \in 0..n /\ ~(m <= m - 1) /\ m - 1 \in Nat
        /\ (m - 1) + 1 = m
    BY <2>4, <2>5
  <2>7. f[m] = {IF st.queue = {} THEN st ELSE FloodPop(p, st) : st \in f[m - 1]}
    BY <2>2, <2>5, <2>6 DEF FloodRounds, FloodStep
  <2>8. \A st \in f[m - 1] : FloodOf(p, m - 1, st)
    BY <2>4, <2>6
  <2>9. ASSUME NEW st \in f[m - 1]
        PROVE  FloodOf(p, m, IF st.queue = {} THEN st ELSE FloodPop(p, st))
    <3>1. CASE st.queue = {}
      <4>1. FloodOf(p, m, st)
        BY <2>8, <3>1 DEF FloodOf
      <4> QED BY <3>1, <4>1
    <3>2. CASE st.queue # {}
      <4>1. FloodOf(p, (m - 1) + 1, FloodPop(p, st))
        BY <2>6, <2>8, <3>2, FloodGoesOn
      <4> QED BY <2>6, <3>2, <4>1
    <3> QED BY <3>1, <3>2
  <2> QED BY <2>4, <2>7, <2>9
<1>5. /\ flood.popped \in Seq(D \cup {s})
      /\ \A i, j \in DOMAIN flood.popped :
            flood.popped[i] = flood.popped[j] => i = j
      /\ flood.queued \subseteq D /\ Popped(flood) \subseteq flood.queued \cup {s}
      /\ flood.queue = {<<KeyOf(p, v), v>> : v \in Waiting(p, flood)}
      /\ \A x \in Popped(flood) : Neighbors(x) \cap D \subseteq flood.queued
      /\ Len(flood.popped) = n \/ flood.queue = {}
  BY <1>4 DEF FloodOf, D, s
<1>6. IF performSuperlevel[p]
      THEN flood.popped # <<>> => flood.popped[1] = s
      ELSE /\ OnBoundary(p) \subseteq flood.queued
           /\ \A i \in DOMAIN flood.popped :
                 flood.popped[i] = s => i = Len(flood.popped)
  BY <1>4 DEF FloodOf, D, s
<1>7. IsFiniteSet(D \cup {s}) /\ Cardinality(D \cup {s}) = n
  BY <1>1, <1>3, FS_AddElement
<1>8. ASSUME flood.queue = {} PROVE D \cup {s} \subseteq Popped(flood)
  <2>1. flood.queued \cup {s} \subseteq Popped(flood)
    <3>1. Waiting(p, flood) = {}
      BY <1>5, <1>8
    <3> QED BY <3>1 DEF Waiting, s
  <2>2. PICK x : x \in D /\ x \in Popped(flood)
    <3>1. PICK u : u \in Neighbors(s) /\ u \in D
      BY <1>2, HillFacts DEF D, s
    <3> QED BY <1>5, <2>1, <3>1
  <2>3. \A u \in Popped(flood) \cap D, y \in D :
           y \in Neighbors(u) => y \in Popped(flood)
    BY <1>5, <2>1
  <2>4. Connected(request.mesh, D) /\ D \in SUBSET D
    BY <1>2, HillFacts DEF D
  <2>5. D \subseteq Popped(flood)
    <3>1. D \in SUBSET Vert /\ request \in Requests
      BY <1>1, <1>2
    <3> QED BY <2>2, <2>3, <2>4, <3>1, ConnectedInside
  <2> QED BY <2>1, <2>5
<1>9. Len(flood.popped) = n
  <2>1. CASE flood.queue = {}
    <3>1. \A x \in D \cup {s} : \E i \in DOMAIN flood.popped : flood.popped[i] = x
      BY <1>8, <2>1 DEF Popped
    <3> QED BY <1>5, <1>7, <3>1, SequenceFills
  <2> QED BY <1>5, <2>1
<1>10. \A x \in D \cup {s} : \E i \in DOMAIN flood.popped : flood.popped[i] = x
  BY <1>5, <1>7, <1>9, SequenceFills
<1>11. flood.popped[IF performSuperlevel[p] THEN 1 ELSE n] = s
  <2>1. flood.popped # <<>>
    BY <1>10
  <2>2. PICK i \in DOMAIN flood.popped : flood.popped[i] = s
    BY <1>10
  <2> QED BY <1>6, <1>9, <2>1, <2>2
<1> QED BY <1>3, <1>5, <1>9, <1>10, <1>11 DEF D, s

(* A flood of a hill gives each of its vertices another number, and leaves *)
(* the others alone.                                                       *)
LEMMA RenumberedHill ==
    ASSUME NEW p, Flooding(p), NEW flood \in FloodEnds(p), NEW lo,
           lo = Renumbered(p, Refilled(p, flood.popped), flood.queued)
    PROVE  /\ \A v \in Dome(p) : lo[v] \in (-Size(p))..(-1)
           /\ \A u, v \in Dome(p) : lo[u] = lo[v] => u = v
           /\ \A v \in Vert \ Dome(p) : lo[v] = localOrder[v]
<1> DEFINE D == Dome(p)
           s == Saddle(p)
<1>1. /\ s \notin D /\ D \in SUBSET Vert /\ Size(p) \in Nat
      /\ \A v \in Vert \ D : Keys(p)[v] = localOrder[v]
  BY KeyFacts
<1>2. PICK n \in Nat : n = Size(p)
  BY <1>1
<1> DEFINE at(i) == flood.popped[IF performSuperlevel[p] THEN i + 1 ELSE i]
           places(v) == {i \in 1..n : at(i) = v}
<1>3. /\ \A i \in 1..n : at(i) \in D
      /\ \A i, j \in 1..n : at(i) = at(j) => i = j
      /\ \A v \in D : \E i \in 1..n : at(i) = v
      /\ flood.queued \subseteq D
  <2>1. PICK q : q = flood.popped
    OBVIOUS
  <2>2. /\ q \in Seq(D \cup {s}) /\ Len(q) = n + 1
        /\ \A i, j \in DOMAIN q : q[i] = q[j] => i = j
        /\ \A v \in D : \E i \in DOMAIN q : q[i] = v
        /\ q[IF performSuperlevel[p] THEN 1 ELSE n + 1] = s
        /\ flood.queued \subseteq D
    BY <1>2, <2>1, FloodResult
  <2>3. DOMAIN q = 1..(n + 1) /\ \A i \in 1..(n + 1) : q[i] \in D \cup {s}
    BY <2>2
  <2> HIDE DEF D, s
  <2>4. CASE performSuperlevel[p]
    <3>1. \A i : at(i) = q[i + 1]
      BY <2>1, <2>4
    <3>2. \A i \in 1..n : i + 1 \in 1..(n + 1) /\ i + 1 # 1
      OBVIOUS
    <3>3. \A i \in 2..(n + 1) : i - 1 \in 1..n /\ (i - 1) + 1 = i
      OBVIOUS
    <3>4. 1 \in 1..(n + 1) /\ \A i \in 1..(n + 1) : i = 1 \/ i \in 2..(n + 1)
      OBVIOUS
    <3>5. q[1] = s
      BY <2>2, <2>4
    <3>6. \A i \in 1..n : at(i) \in D
      <4> SUFFICES ASSUME NEW i \in 1..n PROVE q[i + 1] \in D
        BY <3>1
      <4>1. i + 1 \in 1..(n + 1) /\ i + 1 # 1
        BY <3>2
      <4>2. q[i + 1] # s
        BY <2>2, <2>3, <3>4, <3>5, <4>1
      <4> QED BY <2>3, <4>1, <4>2
    <3>7. \A i, j \in 1..n : at(i) = at(j) => i = j
      <4> SUFFICES ASSUME NEW i \in 1..n, NEW j \in 1..n, q[i + 1] = q[j + 1]
                   PROVE  i = j
        BY <3>1
      <4>1. i + 1 \in 1..(n + 1) /\ j + 1 \in 1..(n + 1)
        BY <3>2
      <4>2. i + 1 = j + 1
        BY <2>2, <2>3, <4>1
      <4> QED BY <4>2
    <3>8. \A v \in D : \E i \in 1..n : at(i) = v
      <4> SUFFICES ASSUME NEW v \in D PROVE \E i \in 1..n : q[i + 1] = v
        BY <3>1
      <4>1. PICK j \in 1..(n + 1) : q[j] = v
        BY <2>2, <2>3
      <4>2. j # 1
        BY <1>1, <3>5, <4>1 DEF D, s
      <4>3. j - 1 \in 1..n /\ (j - 1) + 1 = j
        BY <3>3, <3>4, <4>2
      <4> QED BY <4>1, <4>3
    <3> QED BY <2>2, <3>6, <3>7, <3>8
  <2>5. CASE ~performSuperlevel[p]
    <3>1. \A i : at(i) = q[i]
      BY <2>1, <2>5
    <3>2. \A i \in 1..(n + 1) : i = n + 1 \/ i \in 1..n
      OBVIOUS
    <3>3. n + 1 \in 1..(n + 1) /\ \A i \in 1..n : i \in 1..(n + 1) /\ i # n + 1
      OBVIOUS
    <3>4. q[n + 1] = s
      BY <2>2, <2>5
    <3>5. \A i \in 1..n : q[i] # s
      BY <2>2, <2>3, <3>3, <3>4
    <3>6. \A v \in D : \E i \in 1..n : q[i] = v
      BY <1>1, <2>2, <2>3, <3>2, <3>4 DEF D, s
    <3> HIDE DEF at
    <3> QED BY <2>2, <2>3, <3>1, <3>3, <3>5, <3>6
  <2> QED BY <2>4, <2>5
<1>4. ASSUME NEW i \in 1..n
      PROVE  Refilled(p, flood.popped)[IF performSuperlevel[p] THEN i + 1 ELSE i]
                = at(i)
  <2>1. PICK j : j = IF performSuperlevel[p] THEN i + 1 ELSE i
    OBVIOUS
  <2>2. j \in 1..(n + 1)
    BY <2>1
  <2>3. Len(flood.popped) = n + 1
    BY <1>2, FloodResult
  <2>4. j <= Len(flood.popped)
    BY <2>2, <2>3
  <2> QED BY <1>2, <2>1, <2>2, <2>4 DEF Refilled
<1>5. \A v \in Vert : lo[v] = IF places(v) = {}
                              THEN IF v \in flood.queued THEN 0 ELSE Keys(p)[v]
                              ELSE IF performSuperlevel[p] THEN -Max(places(v))
                              ELSE Max(places(v)) - 1 - n
  <2> SUFFICES ASSUME NEW v \in Vert
               PROVE  lo[v] = IF places(v) = {}
                              THEN IF v \in flood.queued THEN 0 ELSE Keys(p)[v]
                              ELSE IF performSuperlevel[p] THEN -Max(places(v))
                              ELSE Max(places(v)) - 1 - n
    OBVIOUS
  <2>1. {i \in 1..Size(p) : Refilled(p, flood.popped)[
                IF performSuperlevel[p] THEN i + 1 ELSE i] = v} = places(v)
    BY <1>2, <1>4
  <2> QED BY <1>2, <2>1 DEF Renumbered
<1> HIDE DEF D, s, at
<1>6. ASSUME NEW v \in D
      PROVE  \E m \in 1..n : /\ at(m) = v
                             /\ lo[v] = IF performSuperlevel[p] THEN -m
                                        ELSE m - 1 - n
  <2>1. places(v) \in SUBSET (1..n) /\ places(v) # {}
    BY <1>3
  <2>2. Max(places(v)) \in places(v)
    <3> HIDE DEF places
    <3> QED BY <1>2, <2>1, LastPlace
  <2>3. v \in Vert
    BY <1>1 DEF D
  <2> QED BY <1>5, <2>1, <2>2, <2>3
<1>7. \A v \in D : lo[v] \in (-n)..(-1)
  <2> SUFFICES ASSUME NEW v \in D PROVE lo[v] \in (-n)..(-1)
    OBVIOUS
  <2>1. PICK m \in 1..n : lo[v] = IF performSuperlevel[p] THEN -m ELSE m - 1 - n
    BY <1>6
  <2>2. -m \in (-n)..(-1) /\ m - 1 - n \in (-n)..(-1)
    OBVIOUS
  <2> QED BY <2>1, <2>2
<1>8. \A u, v \in D : lo[u] = lo[v] => u = v
  <2> SUFFICES ASSUME NEW u \in D, NEW v \in D, lo[u] = lo[v] PROVE u = v
    OBVIOUS
  <2>1. PICK i \in 1..n : at(i) = u /\ lo[u] = IF performSuperlevel[p] THEN -i
                                               ELSE i - 1 - n
    BY <1>6
  <2>2. PICK j \in 1..n : at(j) = v /\ lo[v] = IF performSuperlevel[p] THEN -j
                                               ELSE j - 1 - n
    BY <1>6
  <2>3. PICK a, b : a = lo[u] /\ b = lo[v]
    OBVIOUS
  <2>4. /\ performSuperlevel[p] => a = -i /\ b = -j
        /\ ~performSuperlevel[p] => a = i - 1 - n /\ b = j - 1 - n
    BY <2>1, <2>2, <2>3
  <2>5. a = b
    BY <2>3
  <2>6. i = j
    BY <2>4, <2>5
  <2> QED BY <2>1, <2>2, <2>6
<1>9. \A v \in Vert \ D : lo[v] = localOrder[v]
  <2> SUFFICES ASSUME NEW v \in Vert \ D PROVE lo[v] = localOrder[v]
    OBVIOUS
  <2>1. places(v) = {} /\ v \notin flood.queued
    BY <1>3
  <2> QED BY <1>1, <1>5, <2>1 DEF D
<1> QED BY <1>2, <1>7, <1>8, <1>9 DEF D
-------------------------------------------------------------------------------
(***************************************************************************)
(* The local orders while the hills are worked on.                         *)
(***************************************************************************)
(* A local order is what it is in the hill.                                *)
LEMMA ResidualSame ==
    ASSUME Base, Between, GInv, Filled, NEW q \in Parents, pc[q] # "segment",
           NEW a, NEW b, \A v \in Dome(q) : a[v] = b[v]
    PROVE  /\ ResidualMaxima(q, a) = ResidualMaxima(q, b)
           /\ ResidualMinima(q, a) = ResidualMinima(q, b)
<1>1. segment[q] = Dome(q) /\ Dome(q) \in SUBSET Vert
  BY FilledFacts, HillFacts
<1>2. \A v \in Dome(q) : InsideNeighbors(q, v) \subseteq Dome(q)
  BY <1>1, FilledFacts
<1> QED BY <1>1, <1>2 DEF ResidualMaxima, ResidualMinima

(* What a hill is does not depend on the local orders.                     *)
LEMMA HillUnmoved ==
    ASSUME UNCHANGED <<request, order, criticalPoints, segmentation, segment,
                       segmentSize>>, NEW q
    PROVE  /\ Vert' = Vert /\ N' = N
           /\ Saddle(q)' = Saddle(q) /\ Dome(q)' = Dome(q) /\ Size(q)' = Size(q)
           /\ OnBoundary(q)' = OnBoundary(q)
           /\ ResidualMaxima(q, localOrder)' = ResidualMaxima(q, localOrder')
           /\ ResidualMinima(q, localOrder)' = ResidualMinima(q, localOrder')
<1>1. Saddle(q)' = Saddle(q) /\ Vert' = Vert /\ N' = N
  BY DEF Saddle, Vert, N
<1>2. \A v : Neighbors(v)' = Neighbors(v)
  BY DEF Neighbors
<1>3. Dome(q)' = Dome(q)
  BY <1>1 DEF Dome, Above
<1>4. \A v : /\ OutsideNeighbors(q, v)' = OutsideNeighbors(q, v)
             /\ InsideNeighbors(q, v)' = InsideNeighbors(q, v)
  BY <1>1, <1>2 DEF OutsideNeighbors, InsideNeighbors
<1>5. OnBoundary(q)' = OnBoundary(q)
  BY <1>4 DEF OnBoundary
<1>6. ResidualMaxima(q, localOrder)' = ResidualMaxima(q, localOrder')
  BY <1>1, <1>2, <1>4 DEF ResidualMaxima
<1>7. ResidualMinima(q, localOrder)' = ResidualMinima(q, localOrder')
  BY <1>4, <1>5 DEF ResidualMinima
<1> QED BY <1>1, <1>3, <1>5, <1>6, <1>7 DEF Size

(* The local order of a hill nobody works on.                              *)
LEMMA OrderStays ==
    ASSUME Base, Between, GInv, Filled, NEW q \in Parents, pc[q] # "segment",
           UNCHANGED <<request, order, criticalPoints, segmentation, segment,
                       segmentSize>>,
           Segmented', pc'[q] = pc[q],
           performSuperlevel'[q] = performSuperlevel[q],
           boundary'[q] = boundary[q],
           \A v \in Dome(q) : localOrder'[v] = localOrder[v],
           OrderOf(q)
    PROVE  OrderOf(q)'
<1>1. /\ Vert' = Vert /\ N' = N
      /\ Saddle(q)' = Saddle(q) /\ Dome(q)' = Dome(q) /\ Size(q)' = Size(q)
      /\ OnBoundary(q)' = OnBoundary(q)
      /\ ResidualMaxima(q, localOrder)' = ResidualMaxima(q, localOrder')
      /\ ResidualMinima(q, localOrder)' = ResidualMinima(q, localOrder')
  BY HillUnmoved
<1>2. /\ ResidualMaxima(q, localOrder') = ResidualMaxima(q, localOrder)
      /\ ResidualMinima(q, localOrder') = ResidualMinima(q, localOrder)
  <2>1. PICK lo : lo = localOrder'
    OBVIOUS
  <2>2. \A v \in Dome(q) : lo[v] = localOrder[v]
    BY <2>1
  <2>3. /\ ResidualMaxima(q, lo) = ResidualMaxima(q, localOrder)
        /\ ResidualMinima(q, lo) = ResidualMinima(q, localOrder)
    BY <2>2, ResidualSame
  <2> QED BY <2>1, <2>3
<1> QED BY <1>1, <1>2 DEF OrderOf

(* When the propagations end, no flood has begun.                          *)
LEMMA FinalizeOrders ==
    ASSUME Base, Types, PInv, SInv, HInv, FinalizePropagations
    PROVE  Filled' /\ \A p \in Parents' : OrderOf(p)'
<1>1. /\ Propagated /\ status
      /\ pc' = [p \in Vert |-> IF p \in Parents THEN "segment" ELSE "none"]
      /\ UNCHANGED <<request, scalars, order, segmentation, status, propagations,
                     comp, parent, aborted, criticalPoints, segmentSize>>
  BY DEF FinalizePropagations, fields, arrays, props
<1>2. /\ Vert' = Vert /\ Parents' = Parents
      /\ \A p : Dome(p)' = Dome(p)
  <2>1. UNCHANGED <<request, order, scalars, propagations, parent, aborted,
                    criticalPoints>>
    BY <1>1
  <2> QED BY <2>1, HillsStay
<1>3. \A p \in Parents : p \in Vert /\ pc'[p] = "segment"
  <2>1. \A p \in Parents : p \in Vert
    BY <1>1, ParentDome
  <2> QED BY <1>1, <2>1
<1>4. ASSUME NEW p \in Parents, NEW v \in Vert, segmentation[v] = p
      PROVE  v \in Dome(p)
  <2>1. p \in Vert /\ \A u \in Vert : u > 0 /\ u \in Int
    BY <1>3, VertFacts DEF Base
  <2>2. Marked(v)
    <3>1. SUFFICES ASSUME ~Marked(v) PROVE FALSE
      OBVIOUS
    <3>2. segmentation[v] = -1 - Cardinality(Shares(v))
      BY <3>1 DEF PInv, CountOf
    <3>3. Cardinality(Shares(v)) \in Nat
      <4>1. Shares(v) \in SUBSET Larger(v)
        BY DEF Shares
      <4>2. IsFiniteSet(Shares(v))
        BY <4>1, LargerFacts, FS_Subset
      <4> QED BY <4>2, FS_CardinalityType
    <3>4. PICK n \in Nat : n = Cardinality(Shares(v))
      BY <3>3
    <3>5. p = -1 - n /\ p > 0 /\ p \in Int
      BY <1>4, <2>1, <3>2, <3>4
    <3> QED BY <3>5
  <2>3. propagationMask[v] = p
    BY <1>4, <2>2 DEF HInv
  <2>4. \/ parent[p] = p /\ Dome(p) = Held(p)
        \/ Frozen(p)
    BY <1>1, ParentDome
  <2>5. CASE Frozen(p)
    BY <2>3, <2>5 DEF Frozen
  <2>6. CASE parent[p] = p /\ Dome(p) = Held(p)
    <3>1. comp[p] = p
      BY <1>1, <2>6, ParentDome, RootHill
    <3>2. Holder(v) = p
      BY <2>2, <2>3, <3>1 DEF Holder, Marked
    <3> QED BY <2>6, <3>2 DEF Held
  <2> QED BY <2>4, <2>5, <2>6
<1>5. Filled'
  BY <1>1, <1>2, <1>3, <1>4 DEF Filled
<1>6. \A p \in Parents' : OrderOf(p)'
  BY <1>2, <1>3 DEF OrderOf
<1> QED BY <1>5, <1>6

(* What stays of the maxima depends on the field and the hills alone.      *)
LEMMA ChosenStays ==
    ASSUME Chosen,
           UNCHANGED <<request, order, scalars, propagations, parent, aborted,
                       criticalPoints>>
    PROVE  Chosen'
<1>1. /\ Vert' = Vert /\ Parents' = Parents /\ Maxima' = Maxima
      /\ \A p : Dome(p)' = Dome(p)
  BY HillsStay
<1>2. Staying' = Staying
  BY <1>1 DEF Staying, Persistent, Exceeding, IsMaximum, Neighbors
<1> QED BY <1>1, <1>2 DEF Chosen

(* A hill is filled.                                                       *)
LEMMA SegmentOrders ==
    ASSUME Base, Between, Segments, GInv, LInv, NEW p \in Vert,
           ComputeSegment(p)
    PROVE  LInv'
<1>1. /\ pc[p] = "segment" /\ Goto(p, "segmented")
      /\ UNCHANGED <<request, order, scalars, propagations, parent, aborted,
                     criticalPoints, segmentSize>>
  BY DEF ComputeSegment, fields, props
<1>2. p \in Parents
  BY <1>1 DEF GInv
<1>3. Flood(p) = Dome(p)
  BY <1>2, FloodFills
<1>4. Cardinality(Flood(p)) = segmentSize[p]
  BY <1>2, <1>3 DEF GInv, Hill
<1>5. segmentation' = [v \in Vert |-> IF v \in Dome(p) THEN p
                                      ELSE segmentation[v]]
  BY <1>3, <1>4 DEF ComputeSegment
<1>6. /\ Vert' = Vert /\ Parents' = Parents
      /\ \A q : Saddle(q)' = Saddle(q) /\ Dome(q)' = Dome(q)
  BY <1>1, HillsStay
<1>7. pc' = [pc EXCEPT ![p] = "segmented"] /\ DOMAIN pc = Vert
  BY <1>1 DEF Goto, Base
<1>8. Parents \subseteq Vert
  BY ParentFacts DEF Between
<1>9. Filled'
  <2>1. ASSUME NEW q \in Parents, NEW v \in Vert, segmentation'[v] = q
        PROVE  v \in Dome(q)
    BY <1>5, <2>1 DEF LInv, Filled
  <2>2. ASSUME NEW q \in Parents, pc'[q] # "segment", NEW v \in Dome(q)
        PROVE  segmentation'[v] = q
    <3>1. v \in Vert
      BY HillFacts
    <3>2. CASE q = p
      BY <1>5, <2>2, <3>1, <3>2
    <3>3. CASE q # p
      <4>1. v \notin Dome(p)
        BY <1>2, <2>2, <3>3 DEF GInv, Apart
      <4>2. pc[q] # "segment"
        BY <1>7, <1>8, <2>2, <3>3
      <4>3. segmentation[v] = q
        BY <2>2, <4>2 DEF LInv, Filled
      <4> QED BY <1>5, <3>1, <4>1, <4>3
    <3> QED BY <3>2, <3>3
  <2> QED BY <1>6, <2>1, <2>2 DEF Filled
<1>10. ASSUME NEW q \in Parents PROVE OrderOf(q)'
  <2>1. ~Segmented
    BY <1>1, <1>2 DEF Segmented
  <2>2. pc[q] \notin {"order", "ordered"}
    BY <2>1 DEF LInv, OrderOf
  <2>3. pc'[q] \notin {"order", "ordered"}
    BY <1>7, <1>8, <2>2
  <2> QED BY <2>3 DEF OrderOf
<1>11. Chosen'
  BY <1>1, ChosenStays DEF LInv
<1> QED BY <1>6, <1>9, <1>10, <1>11 DEF LInv

(* What the floods of p leave alone of the other hills.                    *)
LEMMA OthersOrders ==
    ASSUME Base, Between, GInv, LInv, NEW p \in Parents,
           UNCHANGED <<request, order, scalars, propagations, parent, aborted,
                       criticalPoints, segmentation, segment, segmentSize>>,
           Segmented, Segmented', OrderOf(p)',
           \A q \in Parents \ {p} : /\ pc'[q] = pc[q]
                                    /\ performSuperlevel'[q] = performSuperlevel[q]
                                    /\ boundary'[q] = boundary[q],
           \A v \in Vert \ Dome(p) : localOrder'[v] = localOrder[v]
    PROVE  LInv'
<1>1. /\ Vert' = Vert /\ Parents' = Parents
      /\ \A q : Dome(q)' = Dome(q)
  BY HillsStay
<1>2. \A q \in Parents : pc[q] # "segment"
  BY DEF Segmented
<1>3. Filled'
  BY <1>1, <1>2 DEF LInv, Filled
<1>4. ASSUME NEW q \in Parents, q # p PROVE OrderOf(q)'
  <2>1. \A v \in Dome(q) : localOrder'[v] = localOrder[v]
    <3>1. Dome(q) \in SUBSET Vert /\ Dome(q) \cap Dome(p) = {}
      BY <1>4, HillFacts DEF GInv, Apart
    <3> QED BY <3>1
  <2>2. OrderOf(q) /\ Filled
    BY DEF LInv
  <2> QED BY <1>2, <1>4, <2>1, <2>2, OrderStays
<1>5. Chosen'
  BY ChosenStays DEF LInv
<1> QED BY <1>1, <1>3, <1>4, <1>5 DEF LInv

(* The first local order of a hill is that of its field.                   *)
LEMMA InitOrders ==
    ASSUME Base, Between, GInv, Buffers, LInv, NEW p \in Vert,
           InitLocalOrder(p)
    PROVE  LInv' /\ Buffers'
<1>1. /\ pc[p] = "segmented" /\ Segmented
      /\ localOrder' = [v \in Vert |->
             IF v \notin segment[p] THEN localOrder[v]
             ELSE IF Size(p) = 1 THEN -2 ELSE order[v] - N]
      /\ Goto(p, IF Size(p) = 1 THEN "ordered" ELSE "order")
      /\ UNCHANGED <<request, order, scalars, propagations, parent, aborted,
                     criticalPoints, segmentation, segment, segmentSize, step>>
  BY DEF InitLocalOrder, ordering, fields, props
<1>2. p \in Parents
  BY <1>1 DEF GInv
<1>3. Parents \subseteq Vert /\ Parents' = Parents
  <2>1. Parents \subseteq Vert
    BY ParentFacts DEF Between
  <2> QED BY <1>1, <2>1, HillsStay
<1>4. pc' = [pc EXCEPT ![p] = IF Size(p) = 1 THEN "ordered" ELSE "order"]
      /\ DOMAIN pc = Vert
  BY <1>1 DEF Goto, Base
<1>5. Segmented'
  <2>1. \A q \in Parents : pc'[q] # "segment"
    BY <1>1, <1>3, <1>4 DEF Segmented
  <2> QED BY <1>1, <1>3, <2>1 DEF Segmented
<1>6. segment[p] = Dome(p) /\ Dome(p) \in SUBSET Vert
  BY <1>1, <1>2, FilledFacts, HillFacts DEF LInv
<1>7. N \in Nat /\ N >= 2
  BY VertFacts DEF Base
<1>8. ASSUME NEW v \in Dome(p) PROVE localOrder'[v] \in (-N)..(-1)
  <2>1. PICK o : o = order[v]
    OBVIOUS
  <2>2. o \in 0..(N - 1) /\ v \in Vert
    BY <1>6, <2>1 DEF Base
  <2>3. localOrder'[v] = -2 \/ localOrder'[v] = o - N
    BY <1>1, <1>6, <2>1, <2>2
  <2>4. -2 \in (-N)..(-1) /\ o - N \in (-N)..(-1)
    BY <1>7, <2>2
  <2> QED BY <2>3, <2>4
<1>9. OrderOf(p)'
  <2>1. performSuperlevel'[p] = TRUE /\ boundary'[p] = {}
    BY DEF InitLocalOrder, Buffers
  <2>2. pc'[p] = IF Size(p) = 1 THEN "ordered" ELSE "order"
    BY <1>4
  <2>3. Dome(p)' = Dome(p) /\ N' = N /\ Size(p)' = Size(p)
    BY <1>1, HillUnmoved
  <2> QED BY <1>5, <1>8, <2>1, <2>2, <2>3 DEF OrderOf
<1>10. \A q \in Parents \ {p} : /\ pc'[q] = pc[q]
                                /\ performSuperlevel'[q] = performSuperlevel[q]
                                /\ boundary'[q] = boundary[q]
  BY <1>3, <1>4 DEF InitLocalOrder, Buffers
<1>11. \A v \in Vert \ Dome(p) : localOrder'[v] = localOrder[v]
  BY <1>1, <1>6
<1>12. LInv'
  BY <1>1, <1>2, <1>5, <1>9, <1>10, <1>11, OthersOrders
<1>13. Buffers'
  <2>1. Vert' = Vert
    BY <1>1 DEF Vert
  <2>2. [i \in 1..(Size(p) + 1) |-> 1] \in Seq(Vert)
    <3>1. Size(p) + 1 \in Nat /\ 1 \in Vert
      BY VertFacts DEF Base, Size
    <3> QED BY <3>1
  <2> QED BY <2>1, <2>2 DEF InitLocalOrder, Buffers
<1> QED BY <1>12, <1>13

(* A flood numbers the vertices of a hill from another side.               *)
LEMMA IterateOrders ==
    ASSUME NoCutVertices, Base, Between, Segments, GInv, Buffers, LInv,
           NEW p \in Vert, Iterate(p)
    PROVE  LInv' /\ Buffers'
<1>1. /\ pc[p] = "order"
      /\ UNCHANGED <<request, order, scalars, propagations, parent, aborted,
                     criticalPoints, segmentation, segment, segmentSize, step>>
  BY DEF Iterate, ordering, fields, props
<1>2. p \in Parents
  BY <1>1 DEF GInv
<1>3. Parents \subseteq Vert /\ Parents' = Parents /\ Vert' = Vert
  <2>1. Parents \subseteq Vert
    BY ParentFacts DEF Between
  <2> QED BY <1>1, <2>1, HillsStay
<1>4. Flooding(p)
  BY <1>1, <1>2 DEF Flooding, LInv
<1>5. /\ Segmented /\ Dome(p) \in SUBSET Vert
      /\ IF performSuperlevel[p] THEN boundary[p] \in {{}, OnBoundary(p)}
         ELSE boundary[p] = OnBoundary(p)
  BY <1>1, <1>2, HillFacts DEF LInv, OrderOf
<1>6. PICK flood \in FloodEnds(p) :
        LET seq == Refilled(p, flood.popped)
            edge == Ascending(OnBoundary(p))
            residual == ResidualMaxima(p, localOrder')
                            \cup ResidualMinima(p, localOrder')
        IN  /\ localOrder' = Renumbered(p, seq, flood.queued)
            /\ performSuperlevel' = [performSuperlevel EXCEPT ![p] = ~@]
            /\ sequence' = [sequence EXCEPT ![p] =
                  [i \in 1..(Size(p) + 1) |-> IF i <= Len(edge) THEN edge[i]
                                              ELSE seq[i]]]
            /\ IF residual = {}
               THEN Goto(p, "ordered") /\ UNCHANGED boundary
               ELSE /\ boundary' = [boundary EXCEPT ![p] =
                          IF @ = {} THEN OnBoundary(p) ELSE @]
                    /\ UNCHANGED pc
  BY DEF Iterate
<1>7. /\ \A v \in Dome(p) : localOrder'[v] \in (-Size(p))..(-1)
      /\ \A u, v \in Dome(p) : localOrder'[u] = localOrder'[v] => u = v
      /\ \A v \in Vert \ Dome(p) : localOrder'[v] = localOrder[v]
  <2>1. PICK lo : lo = localOrder'
    OBVIOUS
  <2>2. lo = Renumbered(p, Refilled(p, flood.popped), flood.queued)
    BY <1>6, <2>1
  <2> QED BY <1>4, <2>1, <2>2, RenumberedHill
<1>8. \A v \in Dome(p) : localOrder'[v] \in (-N)..(-1)
  <2> SUFFICES ASSUME NEW v \in Dome(p) PROVE localOrder'[v] \in (-N)..(-1)
    OBVIOUS
  <2>1. PICK a, n : a = localOrder'[v] /\ n = Size(p)
    OBVIOUS
  <2>2. a \in (-n)..(-1) /\ n \in Nat /\ N \in Nat /\ n <= N
    BY <1>4, <1>7, <2>1, KeyFacts
  <2>3. a \in (-N)..(-1)
    BY <2>2
  <2> QED BY <2>1, <2>3
<1>9. /\ performSuperlevel'[p] = ~performSuperlevel[p]
      /\ \A q \in Parents \ {p} : performSuperlevel'[q] = performSuperlevel[q]
      /\ performSuperlevel' \in [Vert -> BOOLEAN]
  BY <1>3, <1>6 DEF Buffers
<1>10. OnBoundary(p) \in SUBSET Vert
  BY DEF OnBoundary, Segments
<1>11. /\ \/ /\ ResidualMaxima(p, localOrder') = {}
             /\ ResidualMinima(p, localOrder') = {}
             /\ pc'[p] = "ordered"
          \/ /\ pc'[p] = "order"
             /\ boundary'[p] = IF boundary[p] = {} THEN OnBoundary(p)
                               ELSE boundary[p]
       /\ \A q \in Parents \ {p} : pc'[q] = pc[q] /\ boundary'[q] = boundary[q]
       /\ boundary' \in [Vert -> SUBSET Vert]
  <2>1. DOMAIN pc = Vert
    BY DEF Base
  <2>2. CASE ResidualMaxima(p, localOrder')
                \cup ResidualMinima(p, localOrder') = {}
    <3>1. Goto(p, "ordered") /\ UNCHANGED boundary
      BY <1>6, <2>2
    <3>2. /\ ResidualMaxima(p, localOrder') = {}
          /\ ResidualMinima(p, localOrder') = {}
      BY <2>2
    <3> QED BY <1>3, <2>1, <3>1, <3>2 DEF Goto, Buffers
  <2>3. CASE ResidualMaxima(p, localOrder')
                \cup ResidualMinima(p, localOrder') # {}
    <3>1. /\ boundary' = [boundary EXCEPT ![p] =
                 IF @ = {} THEN OnBoundary(p) ELSE @]
          /\ UNCHANGED pc
      BY <1>6, <2>3
    <3> QED BY <1>1, <1>3, <1>10, <3>1 DEF Buffers
  <2> QED BY <2>2, <2>3
<1>12. Segmented'
  <2>1. \A q \in Parents : pc'[q] # "segment"
    BY <1>3, <1>5, <1>11 DEF Segmented
  <2> QED BY <1>1, <1>3, <1>5, <2>1 DEF Segmented
<1>13. OrderOf(p)'
  <2>1. /\ Dome(p)' = Dome(p) /\ N' = N /\ Size(p)' = Size(p)
        /\ OnBoundary(p)' = OnBoundary(p)
        /\ ResidualMaxima(p, localOrder)' = ResidualMaxima(p, localOrder')
        /\ ResidualMinima(p, localOrder)' = ResidualMinima(p, localOrder')
    BY <1>1, HillUnmoved
  <2>2. pc'[p] = "ordered" => /\ ResidualMaxima(p, localOrder') = {}
                              /\ ResidualMinima(p, localOrder') = {}
    BY <1>11
  <2>3. pc'[p] = "order" =>
           boundary'[p] = IF boundary[p] = {} THEN OnBoundary(p) ELSE boundary[p]
    BY <1>11
  <2>4. pc'[p] = "order" => boundary'[p] = OnBoundary(p)
    BY <1>5, <2>3
  <2> QED BY <1>7, <1>8, <1>12, <2>1, <2>2, <2>4 DEF OrderOf
<1>14. LInv'
  <2>1. \A q \in Parents \ {p} : /\ pc'[q] = pc[q]
                                 /\ performSuperlevel'[q] = performSuperlevel[q]
                                 /\ boundary'[q] = boundary[q]
    BY <1>9, <1>11
  <2> QED BY <1>1, <1>2, <1>5, <1>7, <1>12, <1>13, <2>1, OthersOrders
<1>15. Buffers'
  <2>1. PICK seq : seq = [i \in 1..(Size(p) + 1) |->
                             IF i <= Len(Ascending(OnBoundary(p)))
                             THEN Ascending(OnBoundary(p))[i]
                             ELSE Refilled(p, flood.popped)[i]]
    OBVIOUS
  <2>2. PICK n \in Nat : n = Size(p)
    BY <1>4, KeyFacts
  <2>3. /\ flood.popped \in Seq(Dome(p) \cup {Saddle(p)})
        /\ Len(flood.popped) = n + 1
    BY <1>4, <2>2, FloodResult
  <2>4. Dome(p) \cup {Saddle(p)} \subseteq Vert
    BY <1>2, <1>5, HillFacts
  <2>5. \A i \in 1..(n + 1) : flood.popped[i] \in Vert
    BY <2>3, <2>4
  <2>6. \A i \in 1..(n + 1) : Refilled(p, flood.popped)[i] \in Vert
    BY <2>2, <2>3, <2>5 DEF Refilled
  <2>7. Ascending(OnBoundary(p)) \in Seq(Vert)
    <3>1. Ascending(OnBoundary(p)) \in Seq(OnBoundary(p))
      BY <1>10, AscendingFacts
    <3> QED BY <1>10, <3>1
  <2>8. \A i \in 1..(n + 1) : seq[i] \in Vert
    <3> SUFFICES ASSUME NEW i \in 1..(n + 1) PROVE seq[i] \in Vert
      OBVIOUS
    <3>1. PICK edge : edge = Ascending(OnBoundary(p))
      OBVIOUS
    <3>2. edge \in Seq(Vert)
      BY <2>7, <3>1
    <3>3. i <= Len(edge) => edge[i] \in Vert
      BY <3>2
    <3>4. seq[i] = IF i <= Len(edge) THEN edge[i] ELSE Refilled(p, flood.popped)[i]
      BY <2>1, <2>2, <3>1
    <3> QED BY <2>6, <3>3, <3>4
  <2>9. seq \in Seq(Vert)
    <3>1. seq \in [1..(n + 1) -> Vert]
      BY <2>1, <2>2, <2>8
    <3> QED BY <3>1
  <2>10. sequence' = [sequence EXCEPT ![p] = seq]
    BY <1>6, <2>1
  <2>11. sequence' \in [Vert -> Seq(Vert)]
    BY <2>9, <2>10 DEF Buffers
  <2> QED BY <1>3, <1>9, <1>11, <2>11 DEF Buffers
<1> QED BY <1>14, <1>15
-------------------------------------------------------------------------------
(***************************************************************************)
(* Which maxima the hills are those of.                                    *)
(***************************************************************************)
(* Where a propagation came to an end: at a saddle, or where it gave up.   *)
EndsAt(c, z) ==
    /\ ~Marked(z) /\ Held(c) \subseteq Above(z)
    /\ \A x \in Held(c), y \in Above(z) : y \in Neighbors(x) => y \in Held(c)
    /\ \E u \in Larger(z) : u \in Held(c)
    /\ Connected(request.mesh, Held(c))
    /\ IF aborted[c]
       THEN Persistent /\ Dist(scalars[c], scalars[z]) > request.threshold
       ELSE z = Saddle(c)

LEMMA StopsAt ==
    ASSUME Base, Types, PInv, SInv, HInv, Propagated, status,
           NEW c \in propagations, comp[c] = c
    PROVE  /\ c \in Vert /\ Marked(c) /\ c \in Held(c) /\ Holder(c) = c
           /\ Held(c) \in SUBSET Vert
           /\ \E z \in Vert : EndsAt(c, z)
<1>1. c \in Vert /\ Held(c) \in SUBSET Vert
  BY DEF Types, Held
<1>2. Held(c) # {} => Marked(c) /\ Connected(request.mesh, Held(c))
  BY AtRest DEF SInv, HillOf
<1>3. Marked(c) => c \in Held(c) /\ Holder(c) = c
  BY <1>1 DEF HInv, Family, Held, Holder, Marked
<1>4. CASE aborted[c]
  <2>1. PICK z \in Vert : /\ ~Marked(z) /\ Bounds(c, z)
                          /\ \E u \in Larger(z) : Holder(u) = c
                          /\ Dist(scalars[c], scalars[z]) > request.threshold
    BY <1>4 DEF HInv, Sunk
  <2>2. Persistent
    BY <1>4 DEF HInv, Sunk
  <2>3. \E u \in Larger(z) : u \in Held(c)
    <3>1. Larger(z) \subseteq Vert
      BY LargerFacts
    <3> QED BY <2>1, <3>1 DEF Held
  <2>4. Held(c) \subseteq Above(z)
    BY <1>1, <2>1 DEF Bounds, Above
  <2>5. EndsAt(c, z)
    BY <1>2, <1>4, <2>1, <2>2, <2>3, <2>4 DEF EndsAt, Bounds
  <2> QED BY <1>1, <1>2, <1>3, <2>3, <2>5
<1>5. CASE ~aborted[c]
  <2>1. parent[c] = c
    BY DEF HInv, Family
  <2>2. PICK z : z = Saddle(c)
    OBVIOUS
  <2>3. /\ ~Marked(z) /\ z \in Vert /\ Dome(c) = Held(c) /\ c \in Held(c)
        /\ Held(c) \subseteq Above(z) /\ Meets(c)
    BY <1>5, <2>1, <2>2, RootHill
  <2>4. c \in Above(z) /\ Above(z) \in SUBSET Vert
    BY <2>3 DEF Above
  <2>5. \A x \in Held(c), y \in Above(z) : y \in Neighbors(x) => y \in Held(c)
    <3>1. Held(c) = J!Component(request.mesh, c, Above(z))
      BY <2>2, <2>3 DEF Dome
    <3> QED BY <2>4, <3>1, ComponentIs DEF Base
  <2>6. \E u \in Larger(z) : u \in Held(c)
    BY <2>2, <2>3 DEF Meets
  <2>7. EndsAt(c, z)
    BY <1>2, <1>5, <2>2, <2>3, <2>5, <2>6 DEF EndsAt
  <2> QED BY <1>1, <1>2, <1>3, <2>3, <2>7
<1> QED BY <1>4, <1>5

(* Every propagation took in its own maximum.                              *)
LEMMA AllMarked ==
    ASSUME Base, Types, PInv, SInv, HInv, Propagated, status,
           NEW c \in propagations
    PROVE  /\ c \in Vert /\ Marked(c) /\ Holder(c) = comp[c]
           /\ comp[c] \in propagations /\ comp[comp[c]] = comp[c]
           /\ comp[c] # c => /\ parent[c] # c /\ Frozen(c) /\ c \in Dome(c)
                             /\ parent[c] \in propagations /\ ~aborted[c]
                             /\ comp[parent[c]] = comp[c]
                             /\ Saddle(c) \in Vert /\ c \in Above(Saddle(c))
<1>1. c \in Vert /\ comp[c] \in propagations /\ comp[comp[c]] = comp[c]
  BY DEF Types, PInv, Representatives
<1>2. CASE comp[c] = c
  BY <1>1, <1>2, StopsAt
<1>3. CASE comp[c] # c
  <2>1. /\ parent[c] # c /\ Frozen(c) /\ parent[c] \in propagations
        /\ comp[parent[c]] = comp[c]
    BY <1>3 DEF HInv, Family
  <2>2. ~aborted[c]
    BY <1>3 DEF HInv, Sunk
  <2>3. Saddle(c) \in Vert
    BY <1>1, SaddleFacts
  <2>4. c \in Above(Saddle(c)) /\ Above(Saddle(c)) \in SUBSET Vert
    BY <1>1, <2>1 DEF Frozen, Above
  <2>5. c \in Dome(c)
    BY <2>4, ComponentIs DEF Dome, Base
  <2>6. Holder(c) = comp[c]
    BY <2>1, <2>5 DEF Frozen
  <2>7. Marked(c)
    BY <1>1, <2>6, VertFacts, HolderFacts DEF Types, Base
  <2> QED BY <1>1, <2>1, <2>2, <2>3, <2>4, <2>5, <2>6, <2>7
<1> QED BY <1>2, <1>3

(* The scalars go up with the order, or down with it.                      *)
Monotone == \E up \in BOOLEAN : \A u, v \in Vert : order[u] < order[v] =>
               IF up THEN scalars[u] <= scalars[v] ELSE scalars[v] <= scalars[u]

(* Vertices further apart in the order are no nearer in the field.         *)
LEMMA FurtherApart ==
    ASSUME Base, Field, Monotone, NEW a \in Vert, NEW b \in Vert, NEW c \in Vert,
           NEW d \in Vert, order[a] <= order[b], order[b] <= order[c],
           order[c] <= order[d]
    PROVE  Dist(scalars[c], scalars[b]) <= Dist(scalars[d], scalars[a])
<1>1. PICK up \in BOOLEAN : \A u, v \in Vert : order[u] < order[v] =>
               IF up THEN scalars[u] <= scalars[v] ELSE scalars[v] <= scalars[u]
  BY DEF Monotone
<1>2. \A v \in Vert : scalars[v] \in Int /\ order[v] \in Int
  BY DEF Field, Base
<1>3. ASSUME NEW u \in Vert, NEW v \in Vert, order[u] <= order[v]
      PROVE  IF up THEN scalars[u] <= scalars[v] ELSE scalars[v] <= scalars[u]
  <2>1. CASE u = v
    BY <1>2, <2>1
  <2>2. CASE u # v
    <3>1. order[u] # order[v]
      BY <2>2 DEF Base
    <3>2. order[u] < order[v]
      BY <1>2, <1>3, <3>1
    <3> QED BY <1>1, <3>2
  <2> QED BY <2>1, <2>2
<1>4. PICK w, x, y, z : /\ w = scalars[a] /\ x = scalars[b] /\ y = scalars[c]
                        /\ z = scalars[d]
  OBVIOUS
<1>5. w \in Int /\ x \in Int /\ y \in Int /\ z \in Int
  BY <1>2, <1>4
<1>6. \/ w <= x /\ x <= y /\ y <= z
      \/ x <= w /\ y <= x /\ z <= y
  BY <1>3, <1>4
<1>7. Dist(y, x) <= Dist(z, w)
  BY <1>5, <1>6 DEF Dist
<1> QED BY <1>4, <1>7

(* Where extrema are removed by their persistence every maximum but the    *)
(* highest vertex is to go.                                                *)
LEMMA LowerMaxima ==
    ASSUME Base, propagations = SimplifiedMaxima, Persistent, NEW x \in Maxima
    PROVE  /\ x \in Vert
           /\ (\E y \in Vert : order[y] > order[x]) => x \in propagations
           /\ x \in propagations => \E y \in Vert : order[y] > order[x]
<1>1. request.authorized = {}
  BY RequestsAssumption DEF Base, Persistent
<1>2. Discarded = Maxima /\ Maxima \in SUBSET Vert /\ x \in Vert
  BY <1>1 DEF Discarded, Maxima
<1>3. PICK h : h = Highest(Maxima)
  OBVIOUS
<1>4. propagations = Maxima \ {h}
  BY <1>1, <1>2, <1>3 DEF SimplifiedMaxima
<1>5. h \in Maxima /\ \A u \in Maxima : order[u] <= order[h]
  BY <1>2, <1>3, HighestFacts
<1>6. PICK top : top = Highest(Vert)
  OBVIOUS
<1>7. top \in Vert /\ \A u \in Vert : order[u] <= order[top]
  BY <1>2, <1>6, HighestFacts
<1>8. \A v \in Vert : order[v] \in Int
  BY DEF Base
<1>9. top \in Maxima
  <2>1. \A u \in Larger(top) : u \in Vert /\ order[u] > order[top]
    BY <1>7, LargerFacts DEF Larger
  <2> QED BY <1>7, <1>8, <2>1 DEF Maxima
<1>10. h = top
  <2>1. order[h] <= order[top] /\ order[top] <= order[h] /\ h \in Vert
    BY <1>2, <1>5, <1>7, <1>9
  <2> QED BY <1>7, <1>8, <2>1 DEF Base
<1>11. ASSUME NEW y \in Vert, order[y] > order[x] PROVE x # h
  BY <1>7, <1>8, <1>10, <1>11
<1>12. ASSUME x # h PROVE order[h] > order[x]
  <2>1. order[x] <= order[h] /\ h \in Vert /\ order[x] # order[h]
    BY <1>2, <1>5, <1>12 DEF Base
  <2> QED BY <1>2, <1>8, <2>1
<1> QED BY <1>2, <1>4, <1>7, <1>10, <1>11, <1>12

(* Across its saddle a hill meets what is higher.                          *)
LEMMA Across ==
    ASSUME Base, Types, PInv, SInv, HInv, Field, Monotone, Propagated, status,
           Persistent, NEW p \in Parents
    PROVE  \E w \in Larger(Saddle(p)) :
              \E h \in J!Component(request.mesh, w, Above(Saddle(p))) :
                 order[h] > order[p]
<1>1. PICK v : v = Saddle(p)
  OBVIOUS
<1>2. /\ p \in propagations /\ p \in Vert /\ v \in Vert /\ p \in Above(v)
      /\ Low(p, v) /\ ~aborted[p] /\ order[v] < order[p]
      /\ \E u \in Larger(v) : u \in Dome(p)
      /\ \/ parent[p] = p /\ ~Marked(v) /\ Dome(p) = Held(p)
         \/ parent[p] # p /\ Frozen(p)
  BY <1>1, ParentDome DEF Meets
<1>3. CASE parent[p] # p
  BY <1>1, <1>2, <1>3 DEF Frozen
<1>4. CASE parent[p] = p
  <2>1. ~Marked(v) /\ Dome(p) = Held(p) /\ comp[p] = p
    BY <1>2, <1>4, RootHill
  <2>2. /\ Above(v) \in SUBSET Vert /\ Larger(v) \subseteq Above(v)
        /\ \A x \in Vert : order[x] \in Int
        /\ \A x \in Vert : Larger(x) \subseteq Vert /\ Neighbors(x) \subseteq Vert
        /\ request \in Requests
    BY <1>2, NeighborFacts, LargerFacts DEF Above, Larger, Base
  <2>3. ASSUME NEW x \in Vert, ~Marked(x), Larger(x) # {}
        PROVE  \E y \in Larger(x) : y \notin Shares(x)
    BY <2>3 DEF HInv, Claimed, Shares, Propagated
  <2>4. PICK u \in Larger(v) : u \notin Shares(v)
    BY <1>2, <2>1, <2>3
  <2>5. PICK D : D = J!Component(request.mesh, u, Above(v))
    OBVIOUS
  <2>6. /\ u \in D /\ D \in SUBSET Above(v) /\ D \in SUBSET Vert
        /\ \A x \in D, y \in Above(v) : y \in Neighbors(x) => y \in D
    BY <2>2, <2>5, ComponentIs
  <2> SUFFICES ASSUME \A h \in D : ~(order[h] > order[p]) PROVE FALSE
    BY <1>1, <2>5
  \* what is connected above v and meets D lies in it
  <2>7. ASSUME NEW H \in SUBSET Above(v), Connected(request.mesh, H),
               NEW y \in H, y \in D
        PROVE  H \subseteq D
    <3>1. \A x \in D \cap Above(v), z \in Above(v) : z \in Neighbors(x) => z \in D
      BY <2>6
    <3> QED BY <2>2, <2>7, <3>1, ConnectedInside
  <2>8. ASSUME NEW h \in D PROVE order[h] < order[p]
    <3>1. p \notin D
      <4> SUFFICES ASSUME p \in D PROVE FALSE
        OBVIOUS
      <4>1. p \in Held(p) /\ Connected(request.mesh, D)
        <5>1. p \in Held(p)
          BY <1>2, <2>1, StopsAt
        <5>2. u \in Above(v)
          BY <2>2
        <5> QED BY <2>2, <2>5, <5>1, <5>2, ComponentIs
      <4>2. \A x \in Held(p), y \in Above(v) : y \in Neighbors(x) => y \in Held(p)
        BY <1>1, <1>2, <2>1, <2>2, ComponentIs DEF Dome
      <4>3. D \subseteq Held(p)
        <5>1. \A x \in Held(p) \cap Above(v), y \in Above(v) :
                 y \in Neighbors(x) => y \in Held(p)
          BY <4>2
        <5> QED BY <2>2, <2>6, <4>1, <5>1, ConnectedInside
      <4>4. Holder(u) = p
        BY <2>6, <4>3 DEF Held
      <4>5. Marked(u)
        BY <1>2, <2>2, <4>4, VertFacts, HolderFacts
      <4> QED BY <1>1, <2>4, <4>4, <4>5 DEF Shares
    <3>2. h \in Vert /\ order[h] # order[p]
      BY <1>2, <2>6, <3>1 DEF Base
    <3> QED BY <1>2, <2>2, <3>2
  \* the highest vertex of v and D that was left open
  <2>9. PICK x : /\ x \in D \cup {v} /\ ~Marked(x)
                 /\ \A y \in D \cup {v} : ~Marked(y) => order[y] <= order[x]
    <3> DEFINE X == {x \in D \cup {v} : ~Marked(x)}
    <3>1. X \in SUBSET Vert /\ X # {}
      BY <1>2, <2>1, <2>6
    <3>2. Highest(X) \in X /\ \A y \in X : order[y] <= order[Highest(X)]
      <4> HIDE DEF X
      <4> QED BY <3>1, HighestFacts
    <3>3. PICK x : x = Highest(X)
      OBVIOUS
    <3> QED BY <3>2, <3>3
  <2>10. x \in Vert /\ order[v] <= order[x]
    BY <1>2, <2>2, <2>6, <2>9 DEF Above
  <2>11. Larger(x) # {}
    <3>1. CASE x = v
      BY <2>4, <3>1
    <3>2. CASE x \in D
      <4> SUFFICES ASSUME Larger(x) = {} PROVE FALSE
        OBVIOUS
      <4>1. x \in Maxima /\ order[p] > order[x]
        BY <1>2, <2>2, <2>8, <2>10, <3>2 DEF Maxima
      <4>2. x \in propagations
        BY <1>2, <4>1, LowerMaxima DEF HInv
      <4> QED BY <2>9, <4>2, AllMarked
    <3> QED BY <2>9, <3>1, <3>2
  <2>12. PICK y \in Larger(x) : y \notin Shares(x) /\ y \in D
    <3>1. CASE x = v
      BY <2>4, <2>6, <3>1
    <3>2. CASE x \in D
      <4>1. PICK y \in Larger(x) : y \notin Shares(x)
        BY <2>3, <2>9, <2>10, <2>11
      <4>2. y \in Neighbors(x) /\ y \in Vert /\ order[y] > order[x]
        BY <2>2, <2>10, <4>1 DEF Larger
      <4>3. y \in Above(v)
        BY <1>2, <2>2, <2>10, <4>2 DEF Above
      <4> QED BY <2>6, <3>2, <4>1, <4>2, <4>3
    <3> QED BY <2>9, <3>1, <3>2
  <2>13. y \in Vert /\ order[y] > order[x] /\ x \in Neighbors(y)
    BY <2>2, <2>10, <2>12, NeighborFacts DEF Larger
  <2>14. Marked(y)
    BY <2>2, <2>9, <2>10, <2>12, <2>13
  <2>15. PICK c : c = Holder(y)
    OBVIOUS
  <2>16. c \in propagations /\ comp[c] = c /\ y \in Held(c)
    BY <2>13, <2>14, <2>15, HolderFacts DEF Held
  <2>17. PICK z \in Vert : EndsAt(c, z)
    BY <2>16, StopsAt
  <2>18. c \in Held(c) /\ c \in Vert
    BY <2>16, StopsAt
  <2>19. /\ ~Marked(z) /\ Held(c) \subseteq Above(z)
         /\ \A a \in Held(c), b \in Above(z) : b \in Neighbors(a) => b \in Held(c)
         /\ \E a \in Larger(z) : a \in Held(c)
         /\ Connected(request.mesh, Held(c))
         /\ IF aborted[c]
            THEN Dist(scalars[c], scalars[z]) > request.threshold
            ELSE z = Saddle(c)
    BY <2>17 DEF EndsAt
  <2>20. ~(order[z] < order[x])
    <3> SUFFICES ASSUME order[z] < order[x] PROVE FALSE
      OBVIOUS
    <3>1. x \in Above(z)
      BY <2>10 DEF Above
    <3>2. x \in Held(c)
      BY <2>13, <2>16, <2>19, <3>1
    <3>3. Holder(x) = c
      BY <3>2 DEF Held
    <3> QED BY <2>9, <2>10, <2>18, <3>3, VertFacts, HolderFacts, <2>2
  <2>21. Held(c) \subseteq D
    <3>1. Held(c) \in SUBSET Above(v)
      <4> SUFFICES ASSUME NEW a \in Held(c) PROVE a \in Above(v)
        OBVIOUS
      <4>1. a \in Vert /\ order[a] > order[z]
        BY <2>19 DEF Above
      <4>2. order[a] > order[v]
        BY <1>2, <2>2, <2>10, <2>20, <4>1
      <4> QED BY <4>1, <4>2 DEF Above
    <3> QED BY <2>7, <2>12, <2>16, <2>19, <3>1
  <2>22. z = x
    <3> SUFFICES ASSUME z # x PROVE FALSE
      OBVIOUS
    <3>1. order[z] # order[x]
      BY <2>10 DEF Base
    <3>2. order[z] > order[x]
      BY <2>2, <2>10, <2>20, <3>1
    <3>3. z \in Above(v)
      BY <1>2, <2>2, <2>10, <3>2 DEF Above
    <3>4. PICK a \in Larger(z) : a \in Held(c)
      BY <2>19
    <3>5. z \in Neighbors(a)
      BY <2>2, <3>4, NeighborFacts DEF Larger
    <3>6. z \in D
      BY <2>6, <2>21, <3>3, <3>4, <3>5
    <3>7. order[z] <= order[x]
      BY <2>9, <2>19, <3>6
    <3> QED BY <2>2, <2>10, <3>2, <3>7
  <2>23. aborted[c]
    <3> SUFFICES ASSUME ~aborted[c] PROVE FALSE
      OBVIOUS
    <3>1. Saddle(c) = x
      BY <2>19, <2>22
    <3> QED BY <2>12, <2>14, <2>15, <3>1 DEF Shares
  <2>24. Dist(scalars[c], scalars[x]) > request.threshold
    BY <2>19, <2>22, <2>23
  <2>25. order[x] < order[c] /\ order[c] < order[p]
    <3>1. order[c] > order[z]
      BY <2>18, <2>19 DEF Above
    <3> QED BY <2>2, <2>8, <2>10, <2>18, <2>21, <2>22, <3>1
  <2>26. Dist(scalars[c], scalars[x]) <= Dist(scalars[p], scalars[v])
    <3>1. order[x] <= order[c] /\ order[c] <= order[p]
      BY <1>2, <2>2, <2>10, <2>18, <2>25
    <3> QED BY <1>2, <2>10, <2>18, <3>1, FurtherApart
  <2>27. Dist(scalars[p], scalars[v]) <= request.threshold
    BY <1>2 DEF Low
  <2>28. PICK d, e, th : /\ d = Dist(scalars[c], scalars[x])
                         /\ e = Dist(scalars[p], scalars[v])
                         /\ th = request.threshold
    OBVIOUS
  <2>29. d \in Int /\ e \in Int /\ th \in Int
    <3>1. PICK i, j, k, l : /\ i = scalars[c] /\ j = scalars[x]
                            /\ k = scalars[p] /\ l = scalars[v]
      OBVIOUS
    <3>2. i \in Int /\ j \in Int /\ k \in Int /\ l \in Int
      BY <1>2, <2>10, <2>18, <3>1 DEF Field
    <3>3. d \in Int /\ e \in Int
      BY <2>28, <3>1, <3>2 DEF Dist
    <3>4. th \in Nat
      BY <2>28, RequestsAssumption DEF Persistent, Base
    <3> QED BY <3>3, <3>4
  <2> QED BY <2>24, <2>26, <2>27, <2>28, <2>29
<1> QED BY <1>2, <1>3, <1>4

(* A vertex with no neighbour in S is connected to nothing there.          *)
LEMMA ComponentAlone ==
    ASSUME request \in Requests, NEW S \in SUBSET Vert, NEW m \in Vert, m \notin S,
           \A x \in S : x \notin Neighbors(m)
    PROVE  J!Component(request.mesh, m, S) \subseteq {m}
<1> DEFINE n == JP!Cardinality(S)
           f == CHOOSE g : JP!Rounds(request.mesh, m, S, n, g)
<1>1. n \in Nat
  <2>1. Cardinality(S) \in Nat
    BY VertFacts, FS_Subset, FS_CardinalityType
  <2>2. Cardinality(S) = n
    BY DEF Cardinality, JP!Cardinality
  <2> QED BY <2>1, <2>2
<1>2. J!Component(request.mesh, m, S) = f[n]
  BY SameCardinality DEF J!Component, JP!Rounds, JP!Spread
<1>3. JP!Rounds(request.mesh, m, S, n, f)
  BY <1>1, JP!RoundsExist
<1>4. JP!Closed(request.mesh, S, {m})
  <2> SUFFICES ASSUME NEW y \in S, {y, m} \in request.mesh PROVE FALSE
    BY DEF JP!Closed
  <2>1. {m, y} = {y, m} /\ y \in Vert
    OBVIOUS
  <2>2. y \in Neighbors(m)
    BY <2>1, EdgeFacts
  <2> QED BY <2>2
<1> HIDE DEF f, n
<1>5. n \in 0..n
  BY <1>1
<1>6. m \in {m}
  OBVIOUS
<1>7. \A k \in 0..n : f[k] \subseteq {m}
  BY <1>1, <1>3, <1>4, <1>6, JP!LastRound
<1> QED BY <1>2, <1>5, <1>7

(* Distances in the field are numbers.                                     *)
LEMMA DistNumber ==
    ASSUME Field, NEW a \in Vert, NEW b \in Vert
    PROVE  Dist(scalars[a], scalars[b]) \in Int
<1>1. PICK i, j : i = scalars[a] /\ j = scalars[b]
  OBVIOUS
<1>2. i \in Int /\ j \in Int
  BY <1>1 DEF Field
<1>3. Dist(i, j) \in Int
  BY <1>2 DEF Dist
<1> QED BY <1>1, <1>3

(* The maxima are the vertices without a higher neighbour.                 *)
LEMMA MaximumMeans ==
    ASSUME Base, NEW v \in Vert
    PROVE  IsMaximum(v, order) <=> v \in Maxima
<1>1. /\ Neighbors(v) \subseteq Vert /\ v \notin Neighbors(v)
      /\ \A u \in Vert : order[u] \in Int
  BY NeighborFacts DEF Base
<1>2. \A u \in Neighbors(v) : order[u] # order[v]
  BY <1>1 DEF Base
<1>3. \A u \in Neighbors(v) : order[u] < order[v] <=> ~(order[u] > order[v])
  BY <1>1, <1>2
<1> QED BY <1>3 DEF IsMaximum, Maxima, Larger

(* What is persistent, in these words.                                     *)
LEMMA ExceedingMeans ==
    ASSUME Base, NEW m \in Vert
    PROVE  m \in Exceeding(order, scalars) <=>
              /\ m \in Maxima
              /\ \A v \in Vert : \A h \in J!Component(request.mesh, m,
                                      {u \in Vert : order[u] >= order[v]}) :
                    order[h] > order[m] =>
                       Dist(scalars[m], scalars[v]) > request.threshold
<1>1. IsMaximum(m, order) <=> m \in Maxima
  BY MaximumMeans
<1> QED BY <1>1 DEF Exceeding

(* The maxima of a hill are not more persistent than the threshold.        *)
LEMMA DomeFalls ==
    ASSUME Base, Types, PInv, SInv, HInv, Field, Monotone, Propagated, status,
           Persistent, NEW p \in Parents, NEW m \in Maxima, m \in Dome(p)
    PROVE  m \notin Exceeding(order, scalars)
<1>1. PICK v : v = Saddle(p)
  OBVIOUS
<1>2. /\ p \in Vert /\ v \in Vert /\ p \in Above(v) /\ p \in Dome(p)
      /\ Dome(p) \subseteq Above(v) /\ order[m] <= order[p] /\ Low(p, v)
      /\ \E u \in Larger(v) : u \in Dome(p)
  BY <1>1, ParentDome DEF Meets
<1>3. PICK S : S = {u \in Vert : order[u] >= order[v]}
  OBVIOUS
<1>4. PICK C : C = J!Component(request.mesh, m, S)
  OBVIOUS
<1>5. /\ \A u \in Vert : /\ order[u] \in Int
                         /\ Larger(u) \subseteq Vert /\ Neighbors(u) \subseteq Vert
      /\ request \in Requests
  BY NeighborFacts, LargerFacts DEF Base
<1>6. /\ m \in Vert /\ order[m] > order[v]
      /\ S \in SUBSET Vert /\ Above(v) \in SUBSET Vert /\ Above(v) \subseteq S
      /\ m \in S /\ v \in S /\ Larger(v) \subseteq Above(v)
  BY <1>2, <1>3, <1>5 DEF Above, Larger
<1>7. m \in C /\ \A x \in C, y \in S : y \in Neighbors(x) => y \in C
  BY <1>4, <1>5, <1>6, ComponentIs
<1>8. \A x \in C \cap S, y \in S : y \in Neighbors(x) => y \in C
  BY <1>7
<1>9. Dome(p) \subseteq C
  <2>1. Connected(request.mesh, Dome(p))
    BY <1>1, <1>2, <1>5, <1>6, ComponentIs DEF Dome
  <2>2. Dome(p) \in SUBSET S
    BY <1>2, <1>6
  <2> QED BY <1>5, <1>6, <1>7, <1>8, <2>1, <2>2, ConnectedInside
<1>10. \E h \in C : order[h] > order[m]
  <2>1. CASE m # p
    <3>1. order[m] # order[p]
      BY <1>2, <1>6, <2>1 DEF Base
    <3>2. order[p] > order[m] /\ p \in C
      BY <1>2, <1>5, <1>6, <1>9, <3>1
    <3> QED BY <3>2
  <2>2. CASE m = p
    <3>1. PICK u \in Larger(v) : u \in Dome(p)
      BY <1>2
    <3>2. v \in Neighbors(u) /\ u \in C
      BY <1>2, <1>5, <1>9, <3>1, NeighborFacts DEF Larger
    <3>3. v \in C
      BY <1>6, <1>7, <3>2
    <3>4. PICK w \in Larger(v) :
              \E h \in J!Component(request.mesh, w, Above(v)) : order[h] > order[p]
      BY <1>1, Across
    <3>5. PICK W : W = J!Component(request.mesh, w, Above(v))
      OBVIOUS
    <3>6. w \in Above(v) /\ w \in Neighbors(v)
      BY <1>6, <3>4 DEF Larger
    <3>7. w \in C
      BY <1>6, <1>7, <3>3, <3>6
    <3>8. w \in W /\ W \subseteq Above(v) /\ Connected(request.mesh, W)
      BY <1>5, <1>6, <3>5, <3>6, ComponentIs
    <3>9. W \in SUBSET S
      BY <1>6, <3>8
    <3>10. W \subseteq C
      BY <1>5, <1>6, <1>8, <3>7, <3>8, <3>9, ConnectedInside
    <3> QED BY <2>2, <3>4, <3>5, <3>10
  <2> QED BY <2>1, <2>2
<1>11. Dist(scalars[m], scalars[v]) <= request.threshold
  <2>1. order[v] <= order[v] /\ order[v] <= order[m]
    BY <1>2, <1>5, <1>6
  <2>2. Dist(scalars[m], scalars[v]) <= Dist(scalars[p], scalars[v])
    BY <1>2, <1>6, <2>1, FurtherApart
  <2>3. Dist(scalars[p], scalars[v]) <= request.threshold
    BY <1>2 DEF Low
  <2>4. PICK d, e, th : /\ d = Dist(scalars[m], scalars[v])
                        /\ e = Dist(scalars[p], scalars[v])
                        /\ th = request.threshold
    OBVIOUS
  <2>5. d \in Int /\ e \in Int
    BY <1>2, <1>6, <2>4, DistNumber
  <2>6. th \in Nat
    BY <2>4, RequestsAssumption DEF Persistent, Base
  <2>7. d <= th
    BY <2>2, <2>3, <2>4, <2>5, <2>6
  <2> QED BY <2>4, <2>7
<1>12. PICK d, th : d = Dist(scalars[m], scalars[v]) /\ th = request.threshold
  OBVIOUS
<1>13. ~(d > th)
  <2>1. d \in Int
    BY <1>2, <1>6, <1>12, DistNumber
  <2>2. th \in Nat
    BY <1>12, RequestsAssumption DEF Persistent, Base
  <2> QED BY <1>11, <1>12, <2>1, <2>2
<1> QED BY <1>2, <1>3, <1>4, <1>6, <1>10, <1>12, <1>13, ExceedingMeans

(* What merged into a propagation that gave up lies in a hill.             *)
LEMMA MergedFalls ==
    ASSUME Base, Types, PInv, SInv, HInv, Propagated, status,
           NEW m \in propagations, comp[m] # m
    PROVE  \E p \in Parents : m \in Dome(p)
<1>1. PICK r : r = comp[m]
  OBVIOUS
<1>2. r \in propagations /\ comp[r] = r /\ r \in Vert /\ r # m
  BY <1>1, AllMarked
<1>3. CASE ~aborted[r]
  <2>1. parent[r] = r
    BY <1>2 DEF HInv, Family
  <2>2. r \in Parents
    BY <1>2, <1>3, <2>1 DEF Parents, IsParent
  <2>3. m \in Held(r)
    BY <1>1, AllMarked DEF Held
  <2> QED BY <1>2, <1>3, <2>1, <2>2, <2>3, RootHill
<1>4. CASE aborted[r]
  <2> DEFINE Q == {q \in propagations : comp[q] = r /\ q # r /\ m \in Dome(q)}
  <2>1. m \in Q
    BY <1>1, <1>2, AllMarked
  <2>2. Q \in SUBSET Vert
    BY DEF Types
  <2>3. PICK q : q \in Q /\ \A x \in Q : order[x] <= order[q]
    <3> HIDE DEF Q
    <3> QED BY <2>1, <2>2, HighestFacts
  <2>4. q \in propagations /\ q \in Vert /\ comp[q] = r /\ q # r /\ m \in Dome(q)
    BY <2>2, <2>3
  <2>5. PICK b : b = parent[q]
    OBVIOUS
  <2>6. /\ b # q /\ Frozen(q) /\ b \in propagations /\ ~aborted[q] /\ comp[b] = r
        /\ q \in Dome(q) /\ Saddle(q) \in Vert /\ q \in Above(Saddle(q))
    BY <2>4, <2>5, AllMarked
  <2>7. order[b] > order[q] /\ \A v \in Dome(q) : order[v] <= order[q]
    BY <2>5, <2>6 DEF Frozen
  <2>8. \A v \in Vert : order[v] \in Int
    BY DEF Base
  <2>9. CASE b = r
    <3>1. q \in Parents
      BY <1>4, <2>4, <2>5, <2>6, <2>9 DEF Parents, IsParent
    <3> QED BY <2>4, <3>1
  <2>10. CASE b # r
    <3>1. comp[b] # b
      BY <2>6, <2>10
    <3>2. /\ b \in Vert /\ parent[b] # b /\ b \in Dome(b) /\ Saddle(b) \in Vert
          /\ b \in Above(Saddle(b))
      BY <2>6, <3>1, AllMarked
    <3>3. q \in Dome(b)
      BY <2>5, <2>6, <3>2 DEF Frozen
    <3>4. CASE order[Saddle(q)] >= order[Saddle(b)]
      <4>1. Dome(q) \subseteq Dome(b)
        BY <2>6, <3>2, <3>3, <3>4, Nested DEF Dome
      <4>2. b \in Q
        BY <2>4, <2>6, <2>10, <4>1
      <4>3. order[b] <= order[q]
        BY <2>3, <4>2
      <4> QED BY <2>4, <2>7, <2>8, <3>2, <4>3
    <3>5. CASE order[Saddle(b)] >= order[Saddle(q)]
      <4>1. Dome(b) \subseteq Dome(q)
        BY <2>6, <3>2, <3>3, <3>5, Nested DEF Dome
      <4>2. order[b] <= order[q]
        BY <2>7, <3>2, <4>1
      <4> QED BY <2>4, <2>7, <2>8, <3>2, <4>2
    <3>6. order[Saddle(q)] >= order[Saddle(b)] \/ order[Saddle(b)] >= order[Saddle(q)]
      BY <2>6, <2>8, <3>2
    <3> QED BY <3>4, <3>5, <3>6
  <2> QED BY <2>9, <2>10
<1> QED BY <1>3, <1>4

(* A maximum that lies in no hill is more persistent than the threshold.   *)
LEMMA OthersExceed ==
    ASSUME Base, Types, PInv, SInv, HInv, Field, Monotone, Propagated, status,
           Persistent, NEW m \in Maxima, \A p \in Parents : m \notin Dome(p)
    PROVE  m \in Exceeding(order, scalars)
<1>1. /\ m \in Vert /\ Larger(m) = {} /\ request \in Requests
      /\ Neighbors(m) \subseteq Vert
      /\ \A u \in Vert : order[u] \in Int
  BY NeighborFacts DEF Maxima, Base
<1> SUFFICES ASSUME NEW v \in Vert,
                    NEW h \in J!Component(request.mesh, m,
                                          {u \in Vert : order[u] >= order[v]}),
                    order[h] > order[m]
             PROVE  Dist(scalars[m], scalars[v]) > request.threshold
  BY <1>1, ExceedingMeans
<1>2. PICK S : S = {u \in Vert : order[u] >= order[v]}
  OBVIOUS
<1>3. PICK C : C = J!Component(request.mesh, m, S)
  OBVIOUS
<1>4. S \in SUBSET Vert /\ h \in C
  BY <1>2, <1>3
<1>5. m \in S
  <2> SUFFICES ASSUME m \notin S PROVE FALSE
    OBVIOUS
  <2>1. order[m] < order[v]
    BY <1>1, <1>2
  <2>2. \A x \in S : x \notin Neighbors(m)
    <3> SUFFICES ASSUME NEW x \in S, x \in Neighbors(m) PROVE FALSE
      OBVIOUS
    <3>1. x \in Vert /\ order[x] >= order[v] /\ ~(order[x] > order[m])
      BY <1>1, <1>2 DEF Larger
    <3> QED BY <1>1, <2>1, <3>1
  <2>3. C \subseteq {m}
    BY <1>1, <1>3, <1>4, <2>2, ComponentAlone
  <2>4. h = m
    BY <1>4, <2>3
  <2> QED BY <1>1, <2>4
<1>6. m \in C /\ C \subseteq S /\ Connected(request.mesh, C)
  BY <1>1, <1>3, <1>4, <1>5, ComponentIs
<1>7. h \in Vert
  BY <1>4, <1>6
<1>8. m \in propagations
  BY <1>7, LowerMaxima DEF HInv
<1>9. comp[m] = m
  BY <1>8, MergedFalls
<1>10. aborted[m]
  <2> SUFFICES ASSUME ~aborted[m] PROVE FALSE
    OBVIOUS
  <2>1. parent[m] = m
    BY <1>8, <1>9 DEF HInv, Family
  <2>2. m \in Parents
    BY <1>8, <2>1 DEF Parents, IsParent
  <2>3. m \in Dome(m)
    BY <2>2, ParentDome
  <2> QED BY <2>2, <2>3
<1>11. m \in Held(m) /\ Held(m) \in SUBSET Vert
  BY <1>8, <1>9, StopsAt
<1>12. PICK z \in Vert : EndsAt(m, z)
  BY <1>8, <1>9, StopsAt
<1>13. /\ Held(m) \subseteq Above(z)
       /\ \A x \in Held(m), y \in Above(z) : y \in Neighbors(x) => y \in Held(m)
       /\ Dist(scalars[m], scalars[z]) > request.threshold
  BY <1>10, <1>12 DEF EndsAt
<1>14. order[v] <= order[z]
  <2> SUFFICES ASSUME ~(order[v] <= order[z]) PROVE FALSE
    OBVIOUS
  <2>1. S \subseteq Above(z)
    BY <1>1, <1>2 DEF Above
  <2>2. \A x \in Held(m) \cap S, y \in S : y \in Neighbors(x) => y \in Held(m)
    BY <1>13, <2>1
  <2>3. C \in SUBSET S
    BY <1>6
  <2>4. C \subseteq Held(m)
    BY <1>1, <1>4, <1>6, <1>11, <2>2, <2>3, ConnectedInside
  <2>5. Holder(h) = m
    BY <1>4, <2>4 DEF Held
  <2>6. Marked(h)
    BY <1>1, <1>7, <2>5, VertFacts, HolderFacts
  <2>7. order[h] <= order[m]
    BY <1>7, <2>5, <2>6 DEF HInv
  <2> QED BY <1>1, <1>7, <2>7
<1>15. Dist(scalars[m], scalars[z]) <= Dist(scalars[m], scalars[v])
  <2>1. order[z] <= order[m] /\ order[m] <= order[m]
    BY <1>1, <1>11, <1>13 DEF Above
  <2> QED BY <1>1, <1>14, <2>1, FurtherApart
<1>16. PICK d, e, th : /\ d = Dist(scalars[m], scalars[z])
                       /\ e = Dist(scalars[m], scalars[v])
                       /\ th = request.threshold
  OBVIOUS
<1>17. d \in Int /\ e \in Int
  BY <1>1, <1>16, DistNumber
<1>18. th \in Nat
  BY <1>16, RequestsAssumption DEF Persistent, Base
<1>19. e > th
  BY <1>13, <1>15, <1>16, <1>17, <1>18
<1> QED BY <1>16, <1>19

(* When the propagations end, the hills are those of the maxima that are   *)
(* to go.                                                                  *)
LEMMA RestChosen ==
    ASSUME Base, Types, PInv, SInv, HInv, Field, Monotone, Propagated, status,
           Persistent
    PROVE  Chosen
  BY DomeFalls, OthersExceed DEF Chosen, Staying

(* The same where the maxima that stay are named.                          *)
LEMMA AuthorizedChosen ==
    ASSUME Base, Types, PInv, SInv, HInv, Propagated, status, ~Persistent
    PROVE  Chosen
<1> SUFFICES ASSUME NEW m \in Maxima
             PROVE  m \in request.authorized <=> \A p \in Parents : m \notin Dome(p)
  BY DEF Chosen, Staying
<1>1. request.authorized # {} /\ m \in Vert
  BY RequestsAssumption DEF Persistent, Base, Maxima
<1>2. propagations = Maxima \ request.authorized
  BY <1>1 DEF HInv, SimplifiedMaxima, Discarded
<1>3. ASSUME NEW p \in Parents, m \in Dome(p) PROVE m \notin request.authorized
  <2>1. Marked(m)
    BY <1>3, ParentDome
  <2> QED BY <1>1, <1>2, <2>1 DEF HInv
<1>4. ASSUME m \notin request.authorized PROVE \E p \in Parents : m \in Dome(p)
  <2>1. m \in propagations
    BY <1>2, <1>4
  <2>2. CASE comp[m] # m
    BY <2>1, <2>2, MergedFalls
  <2>3. CASE comp[m] = m
    <3>1. parent[m] = m /\ ~aborted[m]
      BY <2>1, <2>3 DEF HInv, Family, Sunk
    <3>2. m \in Parents
      BY <2>1, <3>1 DEF Parents, IsParent
    <3> QED BY <3>2, ParentDome
  <2> QED BY <2>2, <2>3
<1> QED BY <1>3, <1>4

(* Within a pass the scalars follow the order, up or down.                 *)
LEMMA LevelMonotone ==
    ASSUME LevelInv, Persistent, step = "propagate"
    PROVE  Monotone
<1>1. FollowsOrder /\ Flat = scalars
  BY DEF LevelInv, Flat
<1>2. CASE pass = "minima"
  BY <1>1, <1>2 DEF FollowsOrder, Monotone
<1>3. CASE pass # "minima"
  BY <1>1, <1>3 DEF FollowsOrder, Monotone
<1> QED BY <1>2, <1>3
-------------------------------------------------------------------------------
(***************************************************************************)
(* What a pass leaves of the extrema.                                      *)
(***************************************************************************)
(* The hills are chosen when the propagations end.                         *)
LEMMA FinalizeChosen ==
    ASSUME Base, Types, PInv, SInv, HInv, Field, LevelInv, FinalizePropagations
    PROVE  LInv'
<1>1. /\ Propagated /\ status /\ step = "propagate"
      /\ UNCHANGED <<request, order, scalars, propagations, parent, aborted,
                     criticalPoints>>
  BY DEF FinalizePropagations, Propagated, fields, props
<1>2. Chosen
  <2>1. CASE Persistent
    BY <1>1, <2>1, LevelMonotone, RestChosen
  <2>2. CASE ~Persistent
    BY <1>1, <2>2, AuthorizedChosen
  <2> QED BY <2>1, <2>2
<1>3. Chosen'
  BY <1>1, <1>2, ChosenStays
<1> QED BY <1>3, FinalizeOrders DEF LInv

(* Every step keeps what is known of the local orders.                     *)
LEMMA NextLocal ==
    ASSUME NoCutVertices, IInv, SweepInv, HillInv, LevelInv, LocalInv, [Next]_vars
    PROVE  LocalInv'
<1>1. Base /\ Between /\ Buffers
  BY DEF IInv, LocalInv
<1>2. ASSUME UNCHANGED <<request, orders>> PROVE Buffers'
  <2>1. Vert' = Vert
    BY <1>2 DEF Vert
  <2> QED BY <1>1, <1>2, <2>1 DEF Buffers, orders
<1>3. ASSUME NEW t \in Vert, Propagate(t) PROVE LocalInv'
  <2>1. step = "propagate"
    BY <1>3, PropagateKeeps
  <2>2. step' = step /\ UNCHANGED <<request, orders>>
    BY <1>3 DEF Propagate, Start, OutOfVertices, Abort, Visit, Capture,
                RegisterWith, Dominant, Unify, Mark, propagating
  <2> QED BY <1>2, <2>1, <2>2 DEF LocalInv
<1>4. ASSUME NEW p \in Vert, Simplify(p) PROVE LocalInv'
  <2>1. pc[p] \in {"segment", "segmented", "order"}
    BY <1>4 DEF Simplify, ComputeSegment, InitLocalOrder, Iterate
  <2>2. step = "hills"
    BY <2>1 DEF HillInv, StatusOf
  <2>3. Segments /\ GInv /\ LInv
    BY <2>2 DEF HillInv, LocalInv
  <2>4. CASE ComputeSegment(p)
    <3>1. UNCHANGED <<request, orders>>
      BY <2>4 DEF ComputeSegment
    <3> QED BY <1>1, <1>2, <2>3, <2>4, <3>1, SegmentOrders DEF LocalInv
  <2> QED BY <1>1, <1>4, <2>3, <2>4, InitOrders, IterateOrders
          DEF Simplify, LocalInv
<1>5. CASE FinalizePropagations
  <2>1. step = "propagate" /\ UNCHANGED <<request, orders>>
    BY <1>5 DEF FinalizePropagations, Propagated
  <2>2. Types /\ PInv /\ SInv /\ HInv /\ Field
    BY <2>1 DEF IInv, SweepInv, HillInv
  <2> QED BY <1>1, <1>2, <1>5, <2>1, <2>2, FinalizeChosen DEF LocalInv
<1>6. CASE UNCHANGED vars
  <2>1. UNCHANGED <<request, orders, step>>
    BY <1>6 DEF vars
  <2>2. ASSUME LInv, step = "hills" PROVE LInv'
    <3>1. UNCHANGED <<request, order, scalars, propagations, parent, aborted,
                      criticalPoints, segmentation, segment, segmentSize,
                      localOrder, pc, step, orders>>
      BY <1>6 DEF vars, fields, props, arrays
    <3>2. Chosen'
      BY <2>2, <3>1, ChosenStays DEF LInv
    <3>3. /\ Vert' = Vert /\ Parents' = Parents
          /\ \A q : Saddle(q)' = Saddle(q) /\ Dome(q)' = Dome(q)
      BY <3>1, HillsStay
    <3>4. Filled'
      BY <2>2, <3>1, <3>3 DEF LInv, Filled
    <3>5. ASSUME NEW q \in Parents PROVE OrderOf(q)'
      <4>1. OrderOf(q)
        BY <2>2 DEF LInv
      <4>2. /\ N' = N /\ Dome(q)' = Dome(q) /\ Size(q)' = Size(q)
            /\ OnBoundary(q)' = OnBoundary(q)
            /\ ResidualMaxima(q, localOrder)' = ResidualMaxima(q, localOrder)
            /\ ResidualMinima(q, localOrder)' = ResidualMinima(q, localOrder)
        BY <3>1, HillUnmoved
      <4>3. Segmented' <=> Segmented
        BY <3>1, <3>3 DEF Segmented
      <4>4. /\ pc'[q] = pc[q] /\ performSuperlevel'[q] = performSuperlevel[q]
            /\ boundary'[q] = boundary[q] /\ localOrder' = localOrder
        BY <3>1 DEF orders
      <4> QED BY <4>1, <4>2, <4>3, <4>4 DEF OrderOf
    <3> QED BY <3>2, <3>3, <3>4, <3>5 DEF LInv
  <2> QED BY <1>2, <2>1, <2>2 DEF LocalInv
<1>7. CASE BeginPasses
  <2>1. pass = "start" /\ step' = step /\ UNCHANGED <<request, orders>>
    BY <1>7 DEF BeginPasses
  <2>2. step = "begin"
    BY <1>1, <2>1 DEF Between
  <2> QED BY <1>2, <2>1, <2>2 DEF LocalInv
<1>8. CASE InitializePropagations \/ Fail \/ EndPass \/ Finish
  <2>1. step' # "hills" /\ UNCHANGED <<request, orders>>
    BY <1>8 DEF InitializePropagations, Fail, EndPass, Finish
  <2> QED BY <1>2, <2>1 DEF LocalInv
<1> QED BY <1>3, <1>4, <1>5, <1>6, <1>7, <1>8 DEF Next, Returned

LEMMA InitLocal ==
    ASSUME Init
    PROVE  LocalInv
<1>1. step = "begin"
  BY DEF Init
<1>2. Buffers
  BY DEF Init, Buffers
<1> QED BY <1>1, <1>2 DEF LocalInv

(* On a mesh without cut vertices, of every state: which hills a pass      *)
(* flattens, and that the floods give each a local order without extrema.  *)
THEOREM LocalInvAlways ==
    ASSUME NoCutVertices
    PROVE  Spec => []LocalInv
<1>1. IInv /\ SweepInv /\ HillInv /\ LevelInv /\ LocalInv /\ [Next]_vars => LocalInv'
  BY NextLocal
<1>2. Init => LocalInv
  BY InitLocal
<1> QED BY <1>1, <1>2, IInvAlways, SweepInvAlways, HillInvAlways,
           LevelInvAlways, PTL DEF Spec

(* Turned around twice an order is what it was.                            *)
LEMMA InvertTwice ==
    ASSUME request \in Requests, NEW o, Numbers(o)
    PROVE  Invert(Invert(o)) = o
<1>1. N \in Nat
  BY VertFacts
<1>2. ASSUME NEW v \in Vert PROVE Invert(Invert(o))[v] = o[v]
  <2>1. PICK i : i = o[v]
    OBVIOUS
  <2>2. i \in Int
    BY <2>1 DEF Numbers
  <2>3. Invert(o)[v] = N - 1 - i
    BY <2>1 DEF Invert
  <2>4. Invert(Invert(o))[v] = N - 1 - (N - 1 - i)
    BY <2>3 DEF Invert
  <2> QED BY <1>1, <2>1, <2>2, <2>4
<1> QED BY <1>2 DEF Numbers, Invert

(* The end of a pass.                                                      *)
LEMMA PassEnds ==
    ASSUME NoCutVertices, IInv, HillInv, LevelInv, LocalInv, EndPass
    PROVE  LET after == IF "minima" \in {pass, pass'} THEN Invert(order')
                        ELSE order'
           IN  /\ {v \in Vert : IsMaximum(v, after)} =
                     IF Persistent THEN Exceeding(order, scalars)
                     ELSE {v \in request.authorized : IsMaximum(v, order)}
               /\ \A v \in Vert : IsMinimum(v, after) => IsMinimum(v, order)
<1> DEFINE R == Rank(FlatOrder, FinalLocalOrder)
           after == IF "minima" \in {pass, pass'} THEN Invert(order') ELSE order'
<1>1. /\ step = "hills" /\ \A p \in Parents : pc[p] = "ordered"
      /\ pass' = NextPass(pass)
      /\ order' = IF pass' = "minima" THEN Invert(Restored(R)) ELSE Restored(R)
  BY DEF EndPass, Segmented
<1>2. Base /\ Between /\ GInv /\ LInv /\ pass \in {"maxima", "minima"}
  BY <1>1 DEF IInv, HillInv, LocalInv, LevelInv, PassOf
<1>3. Numbers(R) /\ request \in Requests
  BY <1>1, <1>2, LevelFacts, RankNumbers DEF Base
<1>4. after = R
  <2> HIDE DEF R
  <2>1. /\ pass = "minima" => pass' = "end" /\ order' = Invert(R)
        /\ pass = "maxima" => \/ pass' = "minima" /\ order' = Invert(R)
                              \/ pass' = "end" /\ order' = R
    BY <1>1, <1>2 DEF NextPass, Restored
  <2>2. Invert(Invert(R)) = R
    BY <1>3, InvertTwice
  <2> QED BY <1>2, <2>1, <2>2
<1>5. PICK x : x = R
  OBVIOUS
<1>6. ASSUME NEW v \in Vert
      PROVE  /\ IsMaximum(v, x) <=>
                   IsMaximum(v, order) /\ \A p \in Parents : v \notin Dome(p)
             /\ IsMinimum(v, x) => IsMinimum(v, order)
  BY <1>1, <1>2, <1>5, PassExtrema
<1>7. ASSUME NEW v \in Vert
      PROVE  IsMaximum(v, x) <=> v \in Maxima /\ v \in Staying
  BY <1>2, <1>6, MaximumMeans DEF LInv, Chosen
<1>8. {v \in Vert : IsMaximum(v, x)} =
         IF Persistent THEN Exceeding(order, scalars)
         ELSE {v \in request.authorized : IsMaximum(v, order)}
  <2>1. CASE Persistent
    <3>1. \A v \in Exceeding(order, scalars) : v \in Vert /\ v \in Maxima
      BY <1>2, ExceedingMeans DEF Exceeding
    <3>2. Staying = Exceeding(order, scalars)
      BY <2>1 DEF Staying
    <3> QED BY <1>7, <2>1, <3>1, <3>2
  <2>2. CASE ~Persistent
    <3>1. request.authorized \subseteq Vert
      BY <1>3, RequestsAssumption DEF Vert
    <3>2. Staying = request.authorized
      BY <2>2 DEF Staying
    <3>3. \A v \in Vert : IsMaximum(v, order) <=> v \in Maxima
      BY <1>2, MaximumMeans
    <3> QED BY <1>7, <2>2, <3>1, <3>2, <3>3
  <2> QED BY <2>1, <2>2
<1>9. after = x
  BY <1>4, <1>5
<1> HIDE DEF after, R
<1>10. /\ {v \in Vert : IsMaximum(v, after)} =
             IF Persistent THEN Exceeding(order, scalars)
             ELSE {v \in request.authorized : IsMaximum(v, order)}
       /\ \A v \in Vert : IsMinimum(v, after) => IsMinimum(v, order)
  BY <1>6, <1>8, <1>9
<1> QED BY <1>10 DEF after

(* Nothing else goes from the hills to the next pass.                      *)
LEMMA OnlyEndPass ==
    ASSUME IInv, HillInv, [Next]_vars, step = "hills", step' = "begin"
    PROVE  EndPass
<1>1. ASSUME NEW t \in Vert, Propagate(t) PROVE FALSE
  BY <1>1, PropagateKeeps
<1>2. ASSUME NEW t \in Vert, Simplify(t) PROVE step' = step
  BY <1>2 DEF Simplify, ComputeSegment, InitLocalOrder, Iterate, ordering
<1>3. ~BeginPasses /\ ~InitializePropagations /\ ~FinalizePropagations /\ ~Fail
      /\ ~Finish
  BY DEF BeginPasses, InitializePropagations, FinalizePropagations, Fail, Finish
<1>4. UNCHANGED vars => step' = step
  BY DEF vars
<1> QED BY <1>1, <1>2, <1>3, <1>4 DEF Next, Returned

(* Whatever the mesh, as long as it has no cut vertex, whatever the field  *)
(* and the interleaving of the tasks: a pass removes exactly the maxima    *)
(* that are not authorized, or those that are not more persistent than the *)
(* threshold, and makes no new minimum.                                    *)
THEOREM PassSimplifiesAlways ==
    ASSUME NoCutVertices
    PROVE  Spec => PassSimplifies
<1>1. ASSUME IInv, HillInv, LevelInv, LocalInv, [Next]_vars
      PROVE  [step = "hills" /\ step' = "begin" =>
                 LET after == IF "minima" \in {pass, pass'} THEN Invert(order')
                              ELSE order'
                 IN  /\ {v \in Vert : IsMaximum(v, after)} =
                           IF Persistent THEN Exceeding(order, scalars)
                           ELSE {v \in request.authorized : IsMaximum(v, order)}
                     /\ \A v \in Vert : IsMinimum(v, after) => IsMinimum(v, order)]_vars
  BY <1>1, OnlyEndPass, PassEnds
<1> QED BY <1>1, IInvAlways, HillInvAlways, LevelInvAlways, LocalInvAlways, PTL
        DEF Spec, PassSimplifies
-------------------------------------------------------------------------------
(***************************************************************************)
(* What all passes leave of the extrema.                                   *)
(***************************************************************************)
(* The neighbours of a vertex are connected with each other, as they are   *)
(* around it, or on its side of the boundary, in a triangulated manifold   *)
(* of two dimensions or more.                                              *)
LinksConnected ==
    \A r \in Requests : \A v \in DOMAIN r.scalar :
        Connected(r.mesh, J!Neighbors(r.mesh, v))

(* What a request authorizes are extrema of its field.                     *)
AuthorizedExtrema ==
    \A r \in Requests : \A e \in r.authorized :
        \/ \A u \in J!Neighbors(r.mesh, e) :
              InputOrder(r.scalar)[u] < InputOrder(r.scalar)[e]
        \/ \A u \in J!Neighbors(r.mesh, e) :
              InputOrder(r.scalar)[u] > InputOrder(r.scalar)[e]

(* The order as it is between two passes.                                  *)
Upright == IF pass = "minima" THEN Invert(order) ELSE order

(* Of a kind that was asked for only what is authorized is left.           *)
MaximaOf(o) == Wanted("maxima") => \A v \in Vert \ request.authorized : ~IsMaximum(v, o)
MinimaOf(o) == Wanted("minima") => \A v \in Vert \ request.authorized : ~IsMinimum(v, o)

(* The vertex lay in a hill that was removed.                              *)
Removed(e, passes) == \E i \in DOMAIN passes : \E h \in passes[i] : e \in h.segment

RemainInv ==
    ~Persistent =>
        /\ pass \in {"minima", "end"} => MaximaOf(Upright)
        /\ pass = "end" => MinimaOf(Upright)
        /\ \A e \in request.authorized : \/ IsMaximum(e, Upright)
                                         \/ IsMinimum(e, Upright)
                                         \/ Removed(e, removed)

(* A minimum in no hill stays one.                                         *)
LEMMA MinimaStay ==
    ASSUME LinksConnected, Base, Between, GInv, LInv,
           \A p \in Parents : pc[p] = "ordered",
           NEW after, after = Rank(FlatOrder, FinalLocalOrder), NEW v \in Vert,
           IsMinimum(v, order), \A p \in Parents : v \notin Dome(p)
    PROVE  IsMinimum(v, after)
<1>1. /\ FlatOrder \in [Vert -> Int] /\ FinalLocalOrder \in [Vert -> Int]
      /\ request \in Requests /\ Neighbors(v) \subseteq Vert
      /\ \A u \in Vert : order[u] \in Int
  BY LevelFacts, NeighborFacts DEF Base
<1>2. FlatOrder[v] = order[v]
  BY LevelFacts
<1>3. ASSUME NEW p \in Parents PROVE v # Saddle(p)
  <2> SUFFICES ASSUME v = Saddle(p) PROVE FALSE
    OBVIOUS
  <2>1. PICK w \in Larger(v) : w \notin Dome(p)
    BY DEF GInv, Escape
  <2>2. PICK u \in Neighbors(v) : u \in Dome(p)
    BY HillFacts
  <2>3. Neighbors(v) \in SUBSET Above(v) /\ Above(v) \in SUBSET Vert
    BY <1>1 DEF IsMinimum, Above
  <2>4. \A x \in Dome(p) \cap Above(v), y \in Above(v) :
           y \in Neighbors(x) => y \in Dome(p)
    BY HillFacts DEF Above
  <2>5. Connected(request.mesh, Neighbors(v))
    BY <1>1 DEF LinksConnected, Neighbors, Vert
  <2>6. Neighbors(v) \subseteq Dome(p)
    BY <1>1, <2>2, <2>3, <2>4, <2>5, ConnectedInside
  <2> QED BY <2>1, <2>6 DEF Larger
<1> SUFFICES ASSUME NEW u \in Neighbors(v) PROVE after[u] > after[v]
  BY DEF IsMinimum
<1>4. u \in Vert /\ order[u] > order[v] /\ v \in Neighbors(u)
  BY <1>1, NeighborFacts DEF IsMinimum
<1>5. FlatOrder[v] < FlatOrder[u]
  <2>1. ASSUME NEW p \in Parents, u \in Dome(p) PROVE FlatOrder[v] < FlatOrder[u]
    <3>1. v \notin Dome(p) /\ v # Saddle(p)
      BY <1>3
    <3>2. order[v] < order[Saddle(p)]
      BY <1>4, <2>1, <3>1, HillFacts
    <3>3. FlatOrder[u] = order[Saddle(p)]
      BY <2>1, LevelFacts
    <3> QED BY <1>2, <3>2, <3>3
  <2>2. CASE \A p \in Parents : u \notin Dome(p)
    <3>1. FlatOrder[u] = order[u]
      BY <1>4, <2>2, LevelFacts
    <3> QED BY <1>1, <1>2, <1>4, <3>1
  <2> QED BY <2>1, <2>2
<1>6. after[v] < after[u]
  BY <1>1, <1>4, <1>5, RankBelow
<1>7. Numbers(after)
  BY <1>1, RankNumbers
<1>8. after[v] \in Int /\ after[u] \in Int
  BY <1>4, <1>7 DEF Numbers
<1> QED BY <1>6, <1>8

(* Turned around, minima are maxima.                                       *)
LEMMA InvertExtrema ==
    ASSUME request \in Requests, NEW o, Numbers(o), NEW v \in Vert
    PROVE  /\ IsMaximum(v, Invert(o)) <=> IsMinimum(v, o)
           /\ IsMinimum(v, Invert(o)) <=> IsMaximum(v, o)
<1>1. /\ Neighbors(v) \subseteq Vert
      /\ \A u \in Vert : o[u] \in Int /\ Invert(o)[u] \in Int
  BY NeighborFacts, InvertNumbers DEF Numbers
<1>2. \A u \in Neighbors(v) : /\ Invert(o)[u] < Invert(o)[v] <=> o[v] < o[u]
                              /\ Invert(o)[v] < Invert(o)[u] <=> o[u] < o[v]
  BY <1>1, InvertTurns
<1> QED BY <1>1, <1>2 DEF IsMaximum, IsMinimum

(* What is wanted does not change.                                         *)
LEMMA SameWanted ==
    ASSUME request' = request
    PROVE  /\ Wanted("maxima")' <=> Wanted("maxima")
           /\ Wanted("minima")' <=> Wanted("minima")
BY DEF Wanted, IsAuthorized, ShowsMinimum, Persistent, Neighbors, InputOrder

(* What a pass makes of the extrema, where some are authorized.            *)
LEMMA PassKeeps ==
    ASSUME NoCutVertices, LinksConnected, Base, Between, GInv, LInv, ~Persistent,
           \A p \in Parents : pc[p] = "ordered",
           NEW after, after = Rank(FlatOrder, FinalLocalOrder)
    PROVE  /\ \A v \in Vert : IsMaximum(v, after) => v \in request.authorized
           /\ \A v \in Vert : IsMinimum(v, after) => IsMinimum(v, order)
           /\ \A e \in request.authorized :
                 IsMaximum(e, order) => IsMaximum(e, after)
           /\ \A v \in Vert : IsMinimum(v, order) =>
                 IsMinimum(v, after) \/ \E h \in Hills : v \in h.segment
<1>1. ASSUME NEW v \in Vert
      PROVE  /\ IsMaximum(v, after) <=>
                   IsMaximum(v, order) /\ \A p \in Parents : v \notin Dome(p)
             /\ IsMinimum(v, after) => IsMinimum(v, order)
  BY PassExtrema
<1>2. ASSUME NEW v \in Vert
      PROVE  IsMaximum(v, after) <=> v \in Maxima /\ v \in request.authorized
  BY <1>1, MaximumMeans DEF LInv, Chosen, Staying
<1>3. request.authorized \subseteq Vert
  BY RequestsAssumption DEF Base, Vert
<1>4. ASSUME NEW e \in request.authorized, IsMaximum(e, order)
      PROVE  IsMaximum(e, after)
  BY <1>2, <1>3, <1>4, MaximumMeans
<1>5. ASSUME NEW v \in Vert, IsMinimum(v, order), ~IsMinimum(v, after)
      PROVE  \E h \in Hills : v \in h.segment
  <2>1. PICK p \in Parents : v \in Dome(p)
    BY <1>5, MinimaStay
  <2>2. segment[p] = Dome(p)
    BY DEF GInv, Hill
  <2>3. PICK h : h = [segment |-> segment[p], saddle |-> Saddle(p)]
    OBVIOUS
  <2>4. h \in Hills /\ v \in h.segment
    BY <2>1, <2>2, <2>3 DEF Hills
  <2> QED BY <2>4
<1> QED BY <1>1, <1>2, <1>4, <1>5

(* A pass adds its hills to what was removed.                              *)
LEMMA RemovedMore ==
    ASSUME NEW r, r = <<>> \/ r = <<r[1]>>, NEW H, NEW e
    PROVE  /\ Removed(e, r) => Removed(e, Append(r, H))
           /\ (\E h \in H : e \in h.segment) => Removed(e, Append(r, H))
<1>1. CASE r = <<>>
  <2>1. Append(r, H) = <<H>>
    BY <1>1
  <2>2. DOMAIN <<H>> = {1} /\ <<H>>[1] = H
    OBVIOUS
  <2> QED BY <1>1, <2>1, <2>2 DEF Removed
<1>2. CASE r = <<r[1]>>
  <2>1. PICK a : a = r[1]
    OBVIOUS
  <2>2. r = <<a>> /\ Append(<<a>>, H) = <<a, H>>
    BY <1>2, <2>1, AppendSecond
  <2>3. /\ DOMAIN <<a>> = {1} /\ <<a>>[1] = a
        /\ DOMAIN <<a, H>> = {1, 2} /\ <<a, H>>[1] = a /\ <<a, H>>[2] = H
    OBVIOUS
  <2> QED BY <2>2, <2>3 DEF Removed
<1> QED BY <1>1, <1>2

LEMMA BeginPassesRemain ==
    ASSUME Base, LevelInv, RemainInv, BeginPasses
    PROVE  RemainInv'
<1>1. /\ pass = "start" /\ pass' = NextPass("start")
      /\ order' = IF pass' = "minima" THEN Invert(order) ELSE order
      /\ request' = request /\ removed' = removed
  BY DEF BeginPasses
<1> SUFFICES ASSUME ~Persistent PROVE RemainInv'
  BY <1>1 DEF RemainInv, Persistent
<1>2. Numbers(order) /\ request \in Requests
  BY OrderNumbers DEF Base
<1>3. Vert' = Vert /\ \A v : Neighbors(v)' = Neighbors(v)
  BY <1>1 DEF Vert, Neighbors
<1>4. Upright = order /\ Upright' = order
  <2>1. Upright = order
    BY <1>1 DEF Upright
  <2>2. CASE pass' = "minima"
    <3>1. Upright' = Invert(Invert(order))
      BY <1>1, <1>3, <2>2 DEF Upright, Invert, N
    <3> QED BY <1>2, <2>1, <3>1, InvertTwice
  <2>3. CASE pass' # "minima"
    BY <1>1, <2>1, <2>3 DEF Upright
  <2> QED BY <2>1, <2>2, <2>3
<1>5. /\ pass' \in {"minima", "end"} => ~Wanted("maxima")
      /\ pass' = "end" => ~Wanted("minima")
  BY <1>1 DEF NextPass
<1>6. pass' \in {"minima", "end"} => MaximaOf(order)
  BY <1>5 DEF MaximaOf
<1>7. pass' = "end" => MinimaOf(order)
  BY <1>5 DEF MinimaOf
<1> QED BY <1>1, <1>3, <1>4, <1>6, <1>7, SameWanted
        DEF RemainInv, MaximaOf, MinimaOf, IsMaximum, IsMinimum

LEMMA EndPassRemain ==
    ASSUME NoCutVertices, LinksConnected, IInv, HillInv, LevelInv, LocalInv,
           RemainInv, EndPass
    PROVE  RemainInv'
<1>1. PICK R : R = Rank(FlatOrder, FinalLocalOrder)
  OBVIOUS
<1>2. /\ step = "hills" /\ \A p \in Parents : pc[p] = "ordered"
      /\ pass' = NextPass(pass)
      /\ order' = IF pass' = "minima" THEN Invert(Restored(R)) ELSE Restored(R)
      /\ request' = request /\ removed' = Append(removed, Hills)
  BY <1>1 DEF EndPass, Segmented
<1>3. /\ Base /\ Between /\ GInv /\ LInv /\ pass \in {"maxima", "minima"}
      /\ removed = <<>> \/ removed = <<removed[1]>>
  BY <1>2 DEF IInv, HillInv, LocalInv, LevelInv, PassOf
<1> SUFFICES ASSUME ~Persistent PROVE RemainInv'
  BY <1>2 DEF RemainInv, Persistent
<1>4. Numbers(R) /\ Numbers(order) /\ request \in Requests
  BY <1>1, <1>2, <1>3, LevelFacts, RankNumbers, OrderNumbers DEF Base
<1>5. /\ Vert' = Vert /\ N' = N /\ \A v : Neighbors(v)' = Neighbors(v)
      /\ request.authorized \subseteq Vert
  BY <1>2, <1>4, RequestsAssumption DEF Vert, N, Neighbors
<1>6. /\ \A v \in Vert : IsMaximum(v, R) => v \in request.authorized
      /\ \A v \in Vert : IsMinimum(v, R) => IsMinimum(v, order)
      /\ \A e \in request.authorized : IsMaximum(e, order) => IsMaximum(e, R)
      /\ \A v \in Vert : IsMinimum(v, order) =>
            IsMinimum(v, R) \/ \E h \in Hills : v \in h.segment
  BY <1>1, <1>2, <1>3, PassKeeps
<1>7. \A e : /\ Removed(e, removed) => Removed(e, removed')
             /\ (\E h \in Hills : e \in h.segment) => Removed(e, removed')
  BY <1>2, <1>3, RemovedMore
\* it is enough to speak of the field upright after the pass
<1>8. ASSUME NEW o, Upright' = o, MaximaOf(o), pass' = "end" => MinimaOf(o),
             \A e \in request.authorized : \/ IsMaximum(e, o) \/ IsMinimum(e, o)
                                           \/ Removed(e, removed')
      PROVE  RemainInv'
  <2>1. MaximaOf(Upright)'
    BY <1>2, <1>5, <1>8, SameWanted DEF MaximaOf, IsMaximum, IsMinimum
  <2>2. pass' = "end" => MinimaOf(Upright)'
    BY <1>2, <1>5, <1>8, SameWanted DEF MinimaOf, IsMaximum, IsMinimum
  <2>3. \A e \in request'.authorized :
           \/ IsMaximum(e, Upright)' \/ IsMinimum(e, Upright)'
           \/ Removed(e, removed)'
    BY <1>2, <1>5, <1>8 DEF IsMaximum, IsMinimum, Removed
  <2> QED BY <2>1, <2>2, <2>3 DEF RemainInv
<1>9. CASE pass = "maxima"
  <2>1. Upright = order /\ Restored(R) = R
    BY <1>9 DEF Upright, Restored
  <2>2. Upright' = R
    <3>1. CASE pass' = "minima"
      <4>1. Upright' = Invert(Invert(R))
        BY <1>2, <1>5, <2>1, <3>1 DEF Upright, Invert
      <4> QED BY <1>4, <4>1, InvertTwice
    <3>2. CASE pass' # "minima"
      BY <1>2, <2>1, <3>2 DEF Upright
    <3> QED BY <3>1, <3>2
  <2>3. MaximaOf(R)
    BY <1>6 DEF MaximaOf
  <2>4. ASSUME pass' = "end" PROVE MinimaOf(R)
    <3>1. ~Wanted("minima")
      BY <1>2, <1>9, <2>4 DEF NextPass
    <3> QED BY <3>1 DEF MinimaOf
  <2>5. ASSUME NEW e \in request.authorized
        PROVE  IsMaximum(e, R) \/ IsMinimum(e, R) \/ Removed(e, removed')
    <3>1. IsMaximum(e, order) \/ IsMinimum(e, order) \/ Removed(e, removed)
      BY <2>1 DEF RemainInv
    <3> QED BY <1>5, <1>6, <1>7, <3>1
  <2> QED BY <1>8, <2>2, <2>3, <2>4, <2>5
<1>10. CASE pass = "minima"
  <2>1. PICK up : up = Invert(order)
    OBVIOUS
  <2>2. Upright = up /\ pass' = "end" /\ Upright' = Invert(R)
    BY <1>2, <1>10, <2>1 DEF Upright, Restored, NextPass
  <2>3. /\ \A v \in Vert : /\ IsMaximum(v, up) <=> IsMinimum(v, order)
                           /\ IsMinimum(v, up) <=> IsMaximum(v, order)
        /\ \A v \in Vert : /\ IsMaximum(v, Invert(R)) <=> IsMinimum(v, R)
                           /\ IsMinimum(v, Invert(R)) <=> IsMaximum(v, R)
    BY <1>4, <2>1, InvertExtrema
  <2>4. MinimaOf(Invert(R))
    BY <1>6, <2>3 DEF MinimaOf
  <2>5. MaximaOf(Invert(R))
    <3>1. MaximaOf(up)
      BY <1>10, <2>2 DEF RemainInv
    <3> QED BY <1>5, <1>6, <2>3, <3>1 DEF MaximaOf
  <2>6. ASSUME NEW e \in request.authorized
        PROVE  \/ IsMaximum(e, Invert(R)) \/ IsMinimum(e, Invert(R))
               \/ Removed(e, removed')
    <3>1. IsMaximum(e, up) \/ IsMinimum(e, up) \/ Removed(e, removed)
      BY <2>2 DEF RemainInv
    <3> QED BY <1>5, <1>6, <1>7, <2>3, <3>1
  <2> QED BY <1>8, <2>2, <2>4, <2>5, <2>6
<1> QED BY <1>3, <1>9, <1>10

(* Every step keeps what is known of the extrema that remain.              *)
LEMMA NextRemain ==
    ASSUME NoCutVertices, LinksConnected, IInv, HillInv, LevelInv, LocalInv,
           RemainInv, [Next]_vars
    PROVE  RemainInv'
<1>1. CASE UNCHANGED <<request, order, pass, removed>>
  <2>1. Upright' = Upright
    BY <1>1 DEF Upright, Invert, Vert, N
  <2>2. Vert' = Vert /\ \A v : Neighbors(v)' = Neighbors(v)
    BY <1>1 DEF Vert, Neighbors
  <2> QED BY <1>1, <2>1, <2>2, SameWanted
          DEF RemainInv, Persistent, MaximaOf, MinimaOf, IsMaximum, IsMinimum,
              Removed
<1>2. ASSUME NEW t \in Vert, Propagate(t)
      PROVE  UNCHANGED <<request, order, pass, removed>>
  BY <1>2 DEF Propagate, Start, OutOfVertices, Abort, Visit, Capture,
              RegisterWith, Dominant, Unify, Mark, propagating, fields
<1>3. ASSUME NEW t \in Vert, Simplify(t)
      PROVE  UNCHANGED <<request, order, pass, removed>>
  BY <1>3 DEF Simplify, ComputeSegment, InitLocalOrder, Iterate, ordering, fields
<1>4. CASE InitializePropagations \/ FinalizePropagations \/ Fail \/ Finish
  BY <1>1, <1>4 DEF InitializePropagations, FinalizePropagations, Fail, Finish, fields
<1>5. CASE UNCHANGED vars
  BY <1>1, <1>5 DEF vars, fields
<1>6. Base
  BY DEF IInv
<1> QED BY <1>1, <1>2, <1>3, <1>4, <1>5, <1>6, BeginPassesRemain, EndPassRemain
        DEF Next, Returned

LEMMA InitRemain ==
    ASSUME AuthorizedExtrema, Init
    PROVE  RemainInv
<1>1. /\ pass = "start" /\ order = InputOrder(request.scalar)
      /\ request \in Requests
  BY DEF Init
<1>2. Upright = order
  BY <1>1 DEF Upright
<1>3. \A e \in request.authorized : IsMaximum(e, order) \/ IsMinimum(e, order)
  BY <1>1 DEF AuthorizedExtrema, IsMaximum, IsMinimum, Neighbors
<1> QED BY <1>1, <1>2, <1>3 DEF RemainInv

(* What is authorized is left in the end, and nothing else of a kind that  *)
(* was asked for: whatever the field and the interleaving of the tasks, on *)
(* a mesh like that of a triangulated manifold of two dimensions or more,  *)
(* and if what is authorized are extrema of the field.                     *)
THEOREM AuthorizedRemainAlways ==
    ASSUME NoCutVertices, LinksConnected, AuthorizedExtrema
    PROVE  Spec => []AuthorizedRemain
<1>1. /\ IInv /\ HillInv /\ LevelInv /\ LocalInv /\ RemainInv /\ [Next]_vars
            => RemainInv'
      /\ Init => RemainInv
  BY NextRemain, InitRemain
<1>2. IInv /\ LevelInv /\ RemainInv => AuthorizedRemain
  <2> SUFFICES ASSUME IInv, LevelInv, RemainInv, step = "done", ~Persistent
               PROVE  AuthorizedRemain
    BY DEF AuthorizedRemain
  <2>1. Base /\ pass = "end" /\ Upright = order
    BY DEF IInv, LevelInv, PassOf, Upright
  <2>2. /\ MaximaOf(order) /\ MinimaOf(order)
        /\ \A e \in request.authorized : \/ IsMaximum(e, order)
                                         \/ IsMinimum(e, order)
                                         \/ Removed(e, removed)
    BY <2>1 DEF RemainInv
  <2>3. ASSUME NEW v \in Vert \ request.authorized
        PROVE  /\ Wanted("maxima") => ~IsMaximum(v, order)
               /\ Wanted("minima") => ~IsMinimum(v, order)
    BY <2>2 DEF MaximaOf, MinimaOf
  <2> QED BY <2>2, <2>3 DEF AuthorizedRemain, Removed
<1> QED BY <1>1, <1>2, IInvAlways, HillInvAlways, LevelInvAlways, LocalInvAlways,
           PTL DEF Spec
-------------------------------------------------------------------------------
(***************************************************************************)
(* Types and bounds.                                                       *)
(***************************************************************************)
(* In the propagations: a counter never falls below the number of the      *)
(* neighbours, and no size exceeds the number of the vertices.             *)
PropagationTypes ==
    /\ segmentation \in [Vert -> -(N + 1)..N]
    /\ propagationMask \in [Vert -> propagations \cup {Null}]
    /\ status \in BOOLEAN /\ propagations \subseteq Vert
    /\ comp \in [Vert -> Vert] /\ parent \in [Vert -> Vert]
    /\ aborted \in [Vert -> BOOLEAN]
    /\ criticalPoints \in [Vert -> Seq(Vert)]
    /\ queue \in [Vert -> SUBSET Vert]
    /\ current \in [Vert -> Vert] /\ cur \in [Vert -> Vert]
    /\ todo \in [Vert -> SUBSET Vert]
    /\ \A p \in propagations : segmentSize[p] \in 0..N

PropagationsTyped == step = "propagate" => PropagationTypes

(* What TypeOK says of the variables no other invariant types.             *)
FieldTypes == scalars \in [Vert -> Int] /\ sortedIndices \in Seq(Vert)

ArrayTypes ==
    /\ segmentation \in [Vert -> {-1000} \cup -(N + 1)..N]
    /\ queueMask \in [Vert -> -2..N]
    /\ localOrder \in [Vert -> -N..(N + 1)]
    /\ propagationMask \in [Vert -> propagations \cup {Null}]

HillTypes ==
    /\ status \in BOOLEAN
    /\ propagations \subseteq Vert
    /\ comp \in [Vert -> Vert] /\ parent \in [Vert -> Vert]
    /\ aborted \in [Vert -> BOOLEAN]
    /\ criticalPoints \in [Vert -> Seq(Vert)]
    /\ queue \in [Vert -> SUBSET Vert]
    /\ segmentSize \in [Vert -> 0..N]

TaskTypes ==
    /\ current \in [Vert -> Vert] /\ cur \in [Vert -> Vert]
    /\ registered \in [Vert -> 0..N] /\ todo \in [Vert -> SUBSET Vert]

(* The local orders of a hill, whichever way its next flood runs.          *)
Turning(p) ==
    /\ Len(sequence[p]) = Size(p) + 1
    /\ \A v \in segment[p] : localOrder[v] \in -N..(N - 1 - Size(p))

(* The perturbation meets each vertex.                                     *)
Permuted ==
    /\ sortedIndices \in [1..N -> Vert]
    /\ \A v \in Vert : \E i \in 1..N : sortedIndices[i] = v

TypeInv ==
    /\ FieldTypes /\ ArrayTypes /\ HillTypes /\ TaskTypes /\ Buffers
    /\ step = "hills" => \A p \in Parents : pc[p] = "order" => Turning(p)
    /\ pass = "end" => Permuted

(* A set of vertices has at most N.                                        *)
LEMMA AtMostAll ==
    ASSUME request \in Requests, NEW S \in SUBSET Vert
    PROVE  Cardinality(S) \in 0..N /\ IsFiniteSet(S)
<1>1. N \in Nat /\ Vert = 1..N /\ IsFiniteSet(Vert)
  BY VertFacts
<1>2. Cardinality(Vert) = N
  BY <1>1, FS_Interval
<1>3. IsFiniteSet(S) /\ Cardinality(S) <= N /\ Cardinality(S) \in Nat
  BY <1>1, <1>2, FS_Subset, FS_CardinalityType
<1> QED BY <1>1, <1>3

LEMMA PropagationsHaveTypes ==
    ASSUME IInv, SweepInv, HillInv
    PROVE  PropagationsTyped
<1> SUFFICES ASSUME step = "propagate" PROVE PropagationTypes
  BY DEF PropagationsTyped
<1>1. Base /\ Types /\ PInv /\ SInv /\ HInv /\ request \in Requests
  BY DEF IInv, SweepInv, HillInv, Base
<1>2. N \in Nat /\ Vert = 1..N /\ propagations \subseteq Vert
  BY <1>1, VertFacts DEF Types
<1>3. ASSUME NEW v \in Vert PROVE segmentation[v] \in -(N + 1)..N
  <2>1. CASE Marked(v)
    <3>1. segmentation[v] = propagationMask[v]
      BY <1>1, <2>1 DEF HInv
    <3>2. propagationMask[v] \in Vert
      BY <1>1, <1>2, <2>1 DEF Marked, Types
    <3> QED BY <1>2, <3>1, <3>2
  <2>2. CASE ~Marked(v)
    <3>1. PICK k : k = Cardinality(Shares(v))
      OBVIOUS
    <3>2. segmentation[v] = -1 - k
      BY <1>1, <2>2, <3>1 DEF PInv, CountOf
    <3>3. Shares(v) \in SUBSET Vert
      BY <1>1, LargerFacts DEF Shares
    <3>4. k \in 0..N
      BY <1>1, <3>1, <3>3, AtMostAll
    <3> QED BY <1>2, <3>2, <3>4
  <2> QED BY <2>1, <2>2
<1>4. ASSUME NEW p \in propagations PROVE segmentSize[p] \in 0..N
  <2>1. CASE comp[p] = p
    <3>1. segmentSize[p] = Cardinality(Held(p))
      BY <1>1, <2>1 DEF SInv, HillOf
    <3>2. Held(p) \in SUBSET Vert
      BY DEF Held
    <3> QED BY <1>1, <3>1, <3>2, AtMostAll
  <2>2. CASE comp[p] # p
    <3>1. Frozen(p)
      BY <1>1, <2>2 DEF HInv, Family
    <3>2. Saddle(p) \in Vert /\ p \in Vert
      BY <1>1, <1>2, SaddleFacts
    <3>3. p \in Above(Saddle(p)) /\ Above(Saddle(p)) \in SUBSET Vert
      BY <3>1, <3>2 DEF Frozen, Above
    <3>4. Dome(p) \subseteq Above(Saddle(p))
      BY <1>1, <3>3, ComponentIs DEF Dome
    <3>5. Dome(p) \in SUBSET Vert
      BY <3>3, <3>4
    <3>6. segmentSize[p] = Cardinality(Dome(p))
      BY <3>1 DEF Frozen
    <3> QED BY <1>1, <3>5, <3>6, AtMostAll
  <2> QED BY <2>1, <2>2
<1>5. segmentation \in [Vert -> -(N + 1)..N]
  BY <1>1, <1>3 DEF Types
<1>6. criticalPoints \in [Vert -> Seq(Vert)]
  BY <1>1 DEF Types
<1> QED BY <1>1, <1>4, <1>5, <1>6 DEF PropagationTypes, Types, HInv

(* The invariants together type every variable.                            *)
LEMMA TypesTogether ==
    ASSUME IInv, HillInv, LevelInv, TypeInv
    PROVE  TypeOK
<1>1. /\ order \in [Vert -> 0..(N - 1)] /\ IsInjective(order)
      /\ step \in {"begin", "propagate", "hills", "done", "failed"}
  BY DEF IInv, Base, IsInjective
<1>2. pc \in [Vert -> {"none", "start", "pop", "capture", "merge", "unify",
                       "mark", "stopped", "segment", "segmented", "order",
                       "ordered"}]
  BY DEF IInv, Base, AtWork
<1>3. pass \in {"start", "maxima", "minima", "end"} /\ Len(removed) <= 2
  <2>1. \/ removed = <<>> \/ removed = <<removed[1]>>
        \/ removed = <<removed[1], removed[2]>>
    BY DEF LevelInv, PassOf
  <2>2. Len(<<>>) = 0 /\ \A a, b : Len(<<a>>) = 1 /\ Len(<<a, b>>) = 2
    OBVIOUS
  <2>3. PICK n : n = Len(removed)
    OBVIOUS
  <2>4. n = 0 \/ n = 1 \/ n = 2
    BY <2>1, <2>2, <2>3
  <2>5. n <= 2
    BY <2>4
  <2> QED BY <2>3, <2>5 DEF LevelInv, PassOf
<1>4. segment \in [Vert -> SUBSET Vert]
  BY DEF HillInv, Segments
<1> QED BY <1>1, <1>2, <1>3, <1>4 DEF TypeInv, FieldTypes, ArrayTypes, HillTypes,
           TaskTypes, Buffers, TypeOK

(* A task that propagates: no step of it goes out of bounds.               *)
LEMMA PropagateTypes ==
    ASSUME IInv, IInv', HillInv, TypeInv, PropagationsTyped', NEW t \in Vert,
           Propagate(t)
    PROVE  TypeInv'
<1>1. /\ UNCHANGED <<request, scalars, sortedIndices, order, pass, step,
                     localOrder, propagations, orders>>
      /\ pc[t] \in AtWork
  BY DEF Propagate, Start, OutOfVertices, Abort, Visit, Capture, RegisterWith,
         Dominant, Unify, Mark, propagating, fields, AtWork
<1>2. step = "propagate"
  BY <1>1 DEF IInv, Base, AtWork
<1>3. /\ Base /\ Types /\ PInv /\ HInv /\ request \in Requests
      /\ PropagationTypes' /\ Vert' = Vert /\ N' = N
      /\ N \in Nat /\ Vert = 1..N
  BY <1>1, <1>2, VertFacts DEF IInv, HillInv, Base, PropagationsTyped, Vert, N
<1>4. StepOf(t) /\ current[t] \in propagations /\ current[t] \in Vert
  BY <1>3, StepFacts, StepKeeps
<1>5. queueMask' \in [Vert -> -2..N]
  <2>1. queueMask \in [Vert -> -2..N]
    BY DEF TypeInv, ArrayTypes
  <2>2. current[t] \in -2..N /\ t \in -2..N
    BY <1>3, <1>4
  <2>3. \/ queueMask' = queueMask
        \/ queueMask' = [queueMask EXCEPT ![t] = t]
        \/ \E new : queueMask' = [u \in Vert |-> IF u \in new THEN current[t]
                                                 ELSE queueMask[u]]
    BY DEF Propagate, Start, OutOfVertices, Abort, Visit, Capture, RegisterWith,
           Dominant, Unify, Mark
  <2> QED BY <2>1, <2>2, <2>3
<1>6. registered' \in [Vert -> 0..N]
  <2>1. registered \in [Vert -> 0..N]
    BY DEF TypeInv, TaskTypes
  <2>2. CASE Visit(t)
    <3>1. PICK v : v = Highest(Ahead(t))
      OBVIOUS
    <3>2. PICK own : own = {u \in Larger(v) : Holder(u) = current[t]}
      OBVIOUS
    <3>3. registered' = [registered EXCEPT ![t] = Cardinality(own)]
      BY <2>2, <3>1, <3>2 DEF Visit
    <3>4. v \in Vert
      <4>1. Ahead(t) \in SUBSET Vert /\ Ahead(t) # {}
        BY <1>3, <1>4, <2>2 DEF Visit, Ahead, Types
      <4>2. v \in Ahead(t)
        BY <1>3, <3>1, <4>1, HighestFacts
      <4> QED BY <4>1, <4>2
    <3>5. Cardinality(own) \in 0..N
      BY <1>3, <3>2, <3>4, LargerFacts, AtMostAll
    <3> QED BY <2>1, <3>3, <3>5
  <2>3. CASE ~Visit(t)
    <3>1. registered' = registered
      BY <2>3 DEF Propagate, Start, OutOfVertices, Abort, Capture, RegisterWith,
                  Dominant, Unify, Mark, locals
    <3> QED BY <2>1, <3>1
  <2> QED BY <2>2, <2>3
<1>7. segmentSize' \in [Vert -> 0..N]
  <2>1. segmentSize' \in [Vert -> Nat] /\ segmentSize \in [Vert -> 0..N]
    BY <1>3 DEF IInv, Base, TypeInv, HillTypes
  <2>2. ASSUME NEW v \in Vert PROVE segmentSize'[v] \in 0..N
    <3>1. CASE v \in propagations
      BY <1>1, <1>3, <3>1 DEF PropagationTypes
    <3>2. CASE v \notin propagations
      <4>1. segmentSize'[v] = segmentSize[v]
        BY <1>4, <3>2 DEF StepOf
      <4> QED BY <2>1, <4>1
    <3> QED BY <3>1, <3>2
  <2> QED BY <2>1, <2>2
<1>8. FieldTypes' /\ Buffers' /\ (pass = "end" => Permuted)'
  BY <1>1, <1>3 DEF TypeInv, FieldTypes, Buffers, Permuted, orders
<1>9. ArrayTypes'
  <2>1. localOrder' \in [Vert -> -N..(N + 1)]
    BY <1>1 DEF TypeInv, ArrayTypes
  <2>2. /\ segmentation' \in [Vert -> -(N + 1)..N]
        /\ propagationMask' \in [Vert -> propagations' \cup {Null}]
    BY <1>3 DEF PropagationTypes
  <2>3. segmentation' \in [Vert -> {-1000} \cup -(N + 1)..N]
    BY <2>2
  <2>4. Null' = Null
    BY DEF Null
  <2> QED BY <1>3, <1>5, <2>1, <2>2, <2>3, <2>4 DEF ArrayTypes
<1>10. HillTypes' /\ TaskTypes'
  BY <1>3, <1>6, <1>7 DEF HillTypes, TaskTypes, PropagationTypes
<1>11. step' # "hills"
  BY <1>1, <1>2
<1> QED BY <1>8, <1>9, <1>10, <1>11 DEF TypeInv

(* The arrays a pass begins with.                                          *)
LEMMA InitializeTypes ==
    ASSUME IInv, IInv', TypeInv, PropagationsTyped', InitializePropagations
    PROVE  TypeInv'
<1> DEFINE found == Ascending(Discarded)
<1>1. /\ UNCHANGED <<request, scalars, sortedIndices, order, pass, status,
                     registered, todo, orders>>
      /\ step' = "propagate"
      /\ queueMask' = [v \in Vert |-> IF v \in request.authorized THEN -2 ELSE -1]
      /\ localOrder' = [v \in Vert |-> IF v <= Len(found) THEN found[v] ELSE -1]
      /\ segmentSize' = [v \in Vert |-> 0]
  BY DEF InitializePropagations, fields
<1>2. /\ Base /\ request \in Requests /\ PropagationTypes'
      /\ Vert' = Vert /\ N' = N /\ N \in Nat /\ Vert = 1..N
  BY <1>1, VertFacts DEF IInv, Base, PropagationsTyped, Vert, N
<1>3. queueMask' \in [Vert -> -2..N]
  <2>1. -2 \in -2..N /\ -1 \in -2..N
    BY <1>2
  <2> QED BY <1>1, <2>1
<1>4. localOrder' \in [Vert -> -N..(N + 1)]
  <2>1. Discarded \in SUBSET Vert
    BY DEF Discarded, Maxima
  <2>2. found \in Seq(Discarded)
    BY <1>2, <2>1, AscendingFacts
  <2> HIDE DEF found
  <2>3. ASSUME NEW v \in Vert, v <= Len(found) PROVE found[v] \in -N..(N + 1)
    <3>1. v \in 1..Len(found)
      BY <1>2, <2>2, <2>3
    <3>2. found[v] \in Discarded
      BY <2>2, <3>1
    <3>3. found[v] \in 1..N
      BY <1>2, <2>1, <3>2
    <3> QED BY <1>2, <3>3
  <2>4. -1 \in -N..(N + 1)
    <3>1. N >= 2
      BY <1>2, VertFacts
    <3> QED BY <1>2, <3>1
  <2> QED BY <1>1, <2>3, <2>4
<1>5. segmentSize' \in [Vert -> 0..N] /\ registered' \in [Vert -> 0..N]
  BY <1>1, <1>2 DEF TypeInv, TaskTypes
<1>6. FieldTypes' /\ Buffers' /\ (pass = "end" => Permuted)'
  BY <1>1, <1>2 DEF TypeInv, FieldTypes, Buffers, Permuted, orders
<1>7. ArrayTypes'
  <2>1. /\ segmentation' \in [Vert -> -(N + 1)..N]
        /\ propagationMask' \in [Vert -> propagations' \cup {Null}]
    BY <1>2 DEF PropagationTypes
  <2>2. segmentation' \in [Vert -> {-1000} \cup -(N + 1)..N]
    BY <2>1
  <2>3. Null' = Null
    BY DEF Null
  <2> QED BY <1>2, <1>3, <1>4, <2>1, <2>2, <2>3 DEF ArrayTypes
<1>8. HillTypes' /\ TaskTypes'
  BY <1>2, <1>5 DEF HillTypes, TaskTypes, PropagationTypes
<1> QED BY <1>1, <1>6, <1>7, <1>8 DEF TypeInv

(* The local order of a hill has no more numbers than there are vertices   *)
(* besides its saddle.                                                     *)
LEMMA SizeBound ==
    ASSUME Base, Between, GInv, NEW p \in Parents
    PROVE  Size(p) \in Nat /\ Size(p) <= N - 1
<1>1. /\ Saddle(p) \in Vert /\ Saddle(p) \notin Dome(p) /\ Dome(p) \in SUBSET Vert
      /\ Size(p) = Cardinality(Dome(p))
  BY HillFacts DEF GInv, Hill, Size
<1>2. N \in Nat /\ Vert = 1..N /\ IsFiniteSet(Vert)
  BY VertFacts DEF Base
<1>3. Cardinality(Vert) = N
  BY <1>2, FS_Interval
<1>4. PICK R : R = Vert \ {Saddle(p)}
  OBVIOUS
<1>5. IsFiniteSet(R) /\ Cardinality(R) = N - 1
  <2>1. PICK s \in Vert : s = Saddle(p)
    BY <1>1
  <2>2. IsFiniteSet(Vert \ {s}) /\ Cardinality(Vert \ {s}) = Cardinality(Vert) - 1
    BY <1>2, FS_RemoveElement
  <2> QED BY <1>3, <1>4, <2>1, <2>2
<1>6. Dome(p) \in SUBSET R
  BY <1>1, <1>4
<1>7. Cardinality(Dome(p)) <= N - 1 /\ Cardinality(Dome(p)) \in Nat
  BY <1>5, <1>6, FS_Subset, FS_CardinalityType
<1> QED BY <1>1, <1>7

(* Of a queue that is not empty Highest2 takes an entry.                   *)
LEMMA TopIsThere ==
    ASSUME request \in Requests, NEW q \in SUBSET (Int \X Vert), IsFiniteSet(q),
           q # {}
    PROVE  Highest2(q) \in q
<1> DEFINE Under(f, e) == f[1] < e[1] \/ (f[1] = e[1] /\ f[2] <= e[2])
           Over(e) == {f \in q : ~Under(f, e)}
           counts == {Cardinality(Over(e)) : e \in q}
<1>1. \A e \in q : e[1] \in Int /\ e[2] \in Int
  BY VertFacts
<1>2. ASSUME NEW e \in q
      PROVE  IsFiniteSet(Over(e)) /\ Cardinality(Over(e)) \in Nat
  <2>1. Over(e) \in SUBSET q
    OBVIOUS
  <2> HIDE DEF Over
  <2> QED BY <2>1, FS_Subset, FS_CardinalityType
<1>3. PICK c \in counts : \A d \in counts : c <= d
  <2> HIDE DEF Over
  <2>1. counts \subseteq Nat /\ counts # {}
    BY <1>2
  <2> HIDE DEF counts
  <2> QED BY <2>1, JP!LeastNumber
<1>4. PICK e \in q : c = Cardinality(Over(e))
  OBVIOUS
<1>5. ASSUME NEW f \in q, ~Under(f, e) PROVE FALSE
  <2>1. \A g \in q : ~Under(g, f) => ~Under(g, e)
    BY <1>1, <1>5
  <2>2. Under(f, f)
    BY <1>1
  <2>3. Over(f) \in SUBSET Over(e) /\ f \in Over(e) /\ f \notin Over(f)
    BY <1>5, <2>1, <2>2
  <2>4. Cardinality(Over(e)) <= Cardinality(Over(f))
    BY <1>3, <1>4
  <2> HIDE DEF Over
  <2>5. Over(f) # Over(e)
    BY <2>3
  <2>6. Cardinality(Over(f)) < Cardinality(Over(e))
    BY <1>2, <2>3, <2>5, FS_Subset
  <2> QED BY <1>2, <2>4, <2>6
<1>6. \A f \in q : Under(f, e)
  BY <1>5
<1> QED BY <1>6 DEF Highest2

(* What a flood goes through are vertices.                                 *)
FloodTyped(st) == /\ st.queue \in SUBSET (Int \X Vert) /\ IsFiniteSet(st.queue)
                  /\ st.popped \in Seq(Vert)

LEMMA KeysAreNumbers ==
    ASSUME Base, NEW p \in Vert, NEW W \in SUBSET Vert, NEW e \in Int \X Vert
    PROVE  /\ {<<Keys(p)[v], v>> : v \in W} \cup {e} \in SUBSET (Int \X Vert)
           /\ IsFiniteSet({<<Keys(p)[v], v>> : v \in W})
<1>1. \A v \in Vert : Keys(p)[v] \in Int
  <2>1. Size(p) \in Int /\ \A v \in Vert : localOrder[v] \in Int
    BY DEF Base, Size
  <2> QED BY <2>1 DEF Keys
<1> DEFINE f == [v \in W |-> <<Keys(p)[v], v>>]
<1>2. IsFiniteSet(W)
  BY AtMostAll DEF Base
<1>3. PICK T : T = {<<Keys(p)[v], v>> : v \in W}
  OBVIOUS
<1>4. f \in [W -> T] /\ \A x \in T : \E v \in W : f[v] = x
  BY <1>3
<1> HIDE DEF f
<1>5. f \in Surjection(W, T)
  BY <1>4, Fun_IsSurj
<1>6. IsFiniteSet(T)
  BY <1>2, <1>5, FS_Surjection
<1> QED BY <1>1, <1>3, <1>6

LEMMA FloodTypes ==
    ASSUME Base, Buffers, NEW p \in Vert, Saddle(p) \in Vert,
           NEW flood \in FloodEnds(p)
    PROVE  flood.popped \in Seq(Vert)
<1>1. PICK n \in Nat : n = Size(p) + 1
  BY DEF Base, Size
<1>2. PICK f : f = CHOOSE g : FloodRounds(p, n, g)
  OBVIOUS
<1>3. FloodRounds(p, n, f)
  BY <1>2, FloodRoundsExist
<1>4. FloodEnds(p) = f[n]
  BY <1>1, <1>2 DEF FloodEnds, FloodRounds, FloodStep
<1>5. FloodTyped(FloodStart(p))
  <2>1. N \in Nat /\ <<>> \in Seq(Vert) /\ boundary[p] \in SUBSET Vert
    BY VertFacts DEF Base, Buffers
  <2>2. PICK e : e = <<IF performSuperlevel[p] THEN N + 1 ELSE -(2 * N) - 2,
                       Saddle(p)>>
    OBVIOUS
  <2>3. e \in Int \X Vert
    BY <2>1, <2>2
  <2>4. PICK W : W = {<<Keys(p)[v], v>> : v \in boundary[p]}
    OBVIOUS
  <2>5. W \cup {e} \in SUBSET (Int \X Vert) /\ IsFiniteSet(W)
    BY <2>1, <2>3, <2>4, KeysAreNumbers
  <2>6. IsFiniteSet({e}) /\ IsFiniteSet(W \cup {e})
    BY <2>5, FS_Singleton, FS_Union
  <2>7. /\ FloodStart(p).popped = <<>>
        /\ FloodStart(p).queue = IF performSuperlevel[p] THEN {e} ELSE W \cup {e}
    BY <2>2, <2>4 DEF FloodStart
  <2> QED BY <2>1, <2>3, <2>5, <2>6, <2>7 DEF FloodTyped
<1>6. ASSUME NEW st, FloodTyped(st), st.queue # {}
      PROVE  FloodTyped(FloodPop(p, st))
  <2>1. PICK top : top = Highest2(st.queue)
    OBVIOUS
  <2>2. top \in st.queue /\ top \in Int \X Vert /\ top[2] \in Vert
    BY <1>6, <2>1, TopIsThere DEF FloodTyped, Base
  <2>3. PICK near : near = {u \in Neighbors(top[2]) \ st.queued :
                               segmentation[u] = p /\ Keys(p)[u] < 0}
    OBVIOUS
  <2>4. near \in SUBSET Vert
    BY <2>2, <2>3, NeighborFacts DEF Base
  <2>5. PICK W : W = {<<Keys(p)[u], u>> : u \in near}
    OBVIOUS
  <2>6. W \in SUBSET (Int \X Vert) /\ IsFiniteSet(W)
    BY <2>2, <2>4, <2>5, KeysAreNumbers
  <2>7. IsFiniteSet(st.queue \ {top})
    BY <1>6, FS_Difference DEF FloodTyped
  <2>8. /\ FloodPop(p, st).queue = (st.queue \ {top}) \cup W
        /\ FloodPop(p, st).popped = Append(st.popped, top[2])
    BY <2>1, <2>3, <2>5 DEF FloodPop
  <2>9. IsFiniteSet((st.queue \ {top}) \cup W)
    BY <2>6, <2>7, FS_Union
  <2>10. Append(st.popped, top[2]) \in Seq(Vert)
    BY <1>6, <2>2 DEF FloodTyped
  <2>11. (st.queue \ {top}) \cup W \in SUBSET (Int \X Vert)
    BY <1>6, <2>6 DEF FloodTyped
  <2> QED BY <2>8, <2>9, <2>10, <2>11 DEF FloodTyped
<1> DEFINE bad == {k \in 0..n : ~\A st \in f[k] : FloodTyped(st)}
<1>7. ASSUME bad # {} PROVE FALSE
  <2>1. PICK m \in bad : \A x \in bad : m <= x
    <3>1. bad \in SUBSET Nat
      OBVIOUS
    <3> HIDE DEF bad
    <3> QED BY <1>7, <3>1, JP!LeastNumber
  <2>2. m # 0
    <3>1. f[0] = {FloodStart(p)}
      BY <1>3 DEF FloodRounds
    <3> QED BY <1>5, <2>1, <3>1
  <2>3. m \in 0..n /\ m - 1 \in 0..n /\ ~(m <= m - 1)
    BY <2>1, <2>2
  <2>4. f[m] = {IF st.queue = {} THEN st ELSE FloodPop(p, st) : st \in f[m - 1]}
    BY <1>3, <2>2, <2>3 DEF FloodRounds, FloodStep
  <2>5. \A st \in f[m - 1] : FloodTyped(st)
    BY <2>1, <2>3
  <2>6. \A st \in f[m - 1] :
           FloodTyped(IF st.queue = {} THEN st ELSE FloodPop(p, st))
    BY <1>6, <2>5
  <2> QED BY <2>1, <2>4, <2>6
<1>8. n \in 0..n
  OBVIOUS
<1> QED BY <1>4, <1>7, <1>8 DEF FloodTyped

(* The numbers a flood gives lie within the same bounds, whatever it has   *)
(* reached.                                                                *)
LEMMA RenumberedBounds ==
    ASSUME Base, Between, GInv, ArrayTypes, NEW p \in Parents,
           pc[p] # "segment", Turning(p), NEW seq, NEW queued
    PROVE  LET lo == Renumbered(p, seq, queued) IN
           /\ lo \in [Vert -> -N..(N + 1)]
           /\ \A v \in segment[p] : lo[v] \in -N..(N - 1 - Size(p))
           /\ \A v \in Vert \ segment[p] : lo[v] = localOrder[v]
                                           \/ lo[v] \in -N..0
<1> DEFINE n == Size(p)
           places(v) == {i \in 1..n : seq[IF performSuperlevel[p] THEN i + 1
                                          ELSE i] = v}
           value(v) == IF places(v) = {}
                       THEN IF v \in queued THEN 0 ELSE Keys(p)[v]
                       ELSE IF performSuperlevel[p] THEN -Max(places(v))
                       ELSE Max(places(v)) - 1 - n
<1>1. n \in Nat /\ n <= N - 1 /\ N \in Nat
  BY SizeBound, VertFacts DEF Base
<1>2. Renumbered(p, seq, queued) = [v \in Vert |-> value(v)]
  BY DEF Renumbered
<1>3. ASSUME NEW v \in Vert
      PROVE  value(v) \in -N..0 \/ value(v) = Keys(p)[v]
  <2>1. CASE places(v) = {}
    BY <1>1, <2>1
  <2>2. CASE places(v) # {}
    <3>1. places(v) \in SUBSET (1..n)
      OBVIOUS
    <3>2. PICK m : m = Max(places(v))
      OBVIOUS
    <3> HIDE DEF places, n
    <3>3. m \in places(v)
      BY <1>1, <2>2, <3>1, <3>2, LastPlace
    <3>4. m \in 1..n
      BY <3>1, <3>3
    <3>5. value(v) = IF performSuperlevel[p] THEN -m ELSE m - 1 - n
      BY <2>2, <3>2
    <3>6. -m \in -N..0 /\ m - 1 - n \in -N..0
      BY <1>1, <3>4
    <3> QED BY <3>5, <3>6
  <2> QED BY <2>1, <2>2
<1>4. segment[p] = Dome(p) /\ Dome(p) \in SUBSET Vert
  BY HillFacts DEF GInv, Hill
<1>5. \A v \in Vert \ segment[p] : Keys(p)[v] = localOrder[v]
  BY DEF Keys
<1>6. ASSUME NEW v \in segment[p] PROVE Keys(p)[v] \in -N..(N - 1 - n)
  <2>1. PICK lo : lo = localOrder[v]
    OBVIOUS
  <2>2. lo \in -N..(N - 1 - n)
    BY <2>1 DEF Turning
  <2>3. Keys(p)[v] = lo \/ Keys(p)[v] = -n - 1 - lo
    BY <1>4, <2>1 DEF Keys
  <2> HIDE DEF n
  <2>4. -n - 1 - lo \in -N..(N - 1 - n)
    BY <1>1, <2>2
  <2> QED BY <2>2, <2>3, <2>4
<1>7. \A v \in Vert : localOrder[v] \in -N..(N + 1)
  BY DEF ArrayTypes
<1> HIDE DEF value, n
<1>8. \A v \in segment[p] : value(v) \in -N..(N - 1 - n)
  BY <1>1, <1>3, <1>4, <1>6
<1>9. \A v \in Vert \ segment[p] : value(v) = localOrder[v] \/ value(v) \in -N..0
  BY <1>3, <1>5
<1>10. ASSUME NEW v \in Vert PROVE value(v) \in -N..(N + 1)
  <2>1. value(v) \in -N..(N - 1 - n) \/ value(v) \in -N..0
        \/ value(v) \in -N..(N + 1)
    BY <1>7, <1>8, <1>9
  <2> QED BY <1>1, <2>1
<1> QED BY <1>2, <1>4, <1>8, <1>9, <1>10 DEF n

(* The other hills keep their bounds.                                      *)
LEMMA OthersTurn ==
    ASSUME Base, Between, GInv, TypeInv, step = "hills", NEW p \in Parents,
           pc[p] # "segment",
           UNCHANGED <<request, order, scalars, propagations, parent, aborted,
                       criticalPoints, segment, segmentSize>>,
           \A q \in Parents \ {p} : pc'[q] = pc[q] /\ sequence'[q] = sequence[q],
           \A v \in Vert \ segment[p] : localOrder'[v] = localOrder[v]
                                        \/ localOrder'[v] \in -N..0
    PROVE  /\ Parents' = Parents
           /\ \A q \in Parents \ {p} : pc'[q] = "order" => Turning(q)'
<1>1. Parents' = Parents
  BY HillsStay
<1>2. ASSUME NEW q \in Parents \ {p}, pc'[q] = "order" PROVE Turning(q)'
  <2>1. pc[q] = "order" /\ Turning(q)
    BY <1>2 DEF TypeInv
  <2>2. segment[q] = Dome(q) /\ segment[p] = Dome(p) /\ Dome(q) \in SUBSET Vert
    BY <2>1, HillFacts DEF GInv, Hill
  <2>3. segment[q] \cap segment[p] = {}
    BY <2>2 DEF GInv, Apart
  <2>4. PICK k : k = N - 1 - Size(q)
    OBVIOUS
  <2>5. k \in Nat /\ N \in Nat
    BY <2>4, SizeBound, VertFacts DEF Base
  <2>6. \A v \in segment[q] : localOrder[v] \in -N..k
    BY <2>1, <2>4 DEF Turning
  <2>7. ASSUME NEW v \in segment[q] PROVE localOrder'[v] \in -N..k
    <3>1. v \in Vert \ segment[p]
      BY <2>2, <2>3
    <3>2. -N..0 \subseteq -N..k
      BY <2>5
    <3> QED BY <2>6, <3>1, <3>2
  <2>8. N' = N /\ Size(q)' = Size(q) /\ segment'[q] = segment[q]
        /\ sequence'[q] = sequence[q]
    BY <1>2 DEF N, Size
  <2> QED BY <2>1, <2>4, <2>7, <2>8 DEF Turning
<1> QED BY <1>1, <1>2

(* The first numbers of a hill are those of its order.                     *)
LEMMA InitLocalTypes ==
    ASSUME IInv, GInv, TypeInv, NEW p \in Vert, InitLocalOrder(p)
    PROVE  TypeInv'
<1>1. /\ pc[p] = "segmented" /\ Segmented
      /\ localOrder' = [v \in Vert |->
             IF v \notin segment[p] THEN localOrder[v]
             ELSE IF Size(p) = 1 THEN -2 ELSE order[v] - N]
      /\ performSuperlevel' = [performSuperlevel EXCEPT ![p] = TRUE]
      /\ boundary' = [boundary EXCEPT ![p] = {}]
      /\ sequence' = [sequence EXCEPT ![p] = [i \in 1..(Size(p) + 1) |-> 1]]
      /\ Goto(p, IF Size(p) = 1 THEN "ordered" ELSE "order")
      /\ UNCHANGED <<request, order, scalars, sortedIndices, pass, segmentation,
                     queueMask, propagationMask, propagations, comp, parent,
                     aborted, criticalPoints, queue, segmentSize, segment, status,
                     step, current, cur, registered, todo>>
  BY DEF InitLocalOrder, ordering, fields, props, locals
<1>2. /\ Base /\ Between /\ step = "hills" /\ p \in Parents /\ pc[p] # "segment"
      /\ Vert' = Vert /\ N' = N /\ DOMAIN pc = Vert /\ Parents \subseteq Vert
  BY <1>1, ParentFacts DEF IInv, GInv, Base, Between, Segmented, Vert, N
<1>3. /\ N \in Nat /\ N >= 2 /\ Vert = 1..N /\ Size(p) \in Nat /\ Size(p) <= N - 1
      /\ 1 \in Vert
  BY <1>2, VertFacts, SizeBound DEF Base
<1>4. ASSUME NEW v \in segment[p] PROVE localOrder'[v] \in -N..-1
  <2>1. v \in Vert
    BY <1>2, HillFacts DEF GInv, Hill
  <2>2. PICK o : o = order[v]
    OBVIOUS
  <2>3. o \in 0..(N - 1)
    BY <1>2, <2>1, <2>2 DEF Base
  <2>4. localOrder'[v] = -2 \/ localOrder'[v] = o - N
    BY <1>1, <2>1, <2>2
  <2>5. -2 \in -N..-1 /\ o - N \in -N..-1
    BY <1>3, <2>3
  <2> QED BY <2>4, <2>5
<1>5. /\ \A v \in Vert \ segment[p] : localOrder'[v] = localOrder[v]
      /\ localOrder' \in [Vert -> -N..(N + 1)]
  <2>1. \A v \in Vert \ segment[p] : localOrder'[v] = localOrder[v]
    BY <1>1
  <2>2. \A v \in Vert : localOrder[v] \in -N..(N + 1)
    BY DEF TypeInv, ArrayTypes
  <2>3. -N..-1 \subseteq -N..(N + 1)
    BY <1>3
  <2>4. \A v \in Vert : localOrder'[v] \in -N..(N + 1)
    BY <1>4, <2>1, <2>2, <2>3
  <2>5. localOrder' = [v \in Vert |-> localOrder'[v]]
    BY <1>1
  <2> QED BY <2>1, <2>4, <2>5
<1>6. PICK ones : ones = [i \in 1..(Size(p) + 1) |-> 1]
  OBVIOUS
<1>7. ones \in Seq(Vert) /\ Len(ones) = Size(p) + 1
  BY <1>3, <1>6
<1>8. sequence'[p] = ones /\ \A q \in Parents \ {p} : sequence'[q] = sequence[q]
  BY <1>1, <1>2, <1>6 DEF TypeInv, Buffers
<1>9. Buffers'
  BY <1>1, <1>2, <1>6, <1>7 DEF TypeInv, Buffers
<1>10. \A q \in Parents \ {p} : pc'[q] = pc[q]
  BY <1>1, <1>2 DEF Goto
<1>11. Parents' = Parents /\ \A q \in Parents \ {p} : pc'[q] = "order" => Turning(q)'
  <2>1. UNCHANGED <<request, order, scalars, propagations, parent, aborted,
                    criticalPoints, segment, segmentSize>>
    BY <1>1
  <2> QED BY <1>2, <1>5, <1>8, <1>10, <2>1, OthersTurn
<1>12. Turning(p)'
  <2>1. Size(p)' = Size(p) /\ segment'[p] = segment[p]
    BY <1>1 DEF Size
  <2>2. -N..-1 \subseteq -N..(N - 1 - Size(p))
    BY <1>3
  <2>3. \A v \in segment[p] : localOrder'[v] \in -N..(N - 1 - Size(p))
    BY <1>4, <2>2
  <2> QED BY <1>2, <1>7, <1>8, <2>1, <2>3 DEF Turning
<1>13. \A q \in Parents' : pc'[q] = "order" => Turning(q)'
  BY <1>11, <1>12
<1>14. FieldTypes' /\ HillTypes' /\ TaskTypes' /\ (pass = "end" => Permuted)'
  BY <1>1, <1>2 DEF TypeInv, FieldTypes, HillTypes, TaskTypes, Permuted
<1>15. ArrayTypes'
  BY <1>1, <1>2, <1>5 DEF TypeInv, ArrayTypes
<1> QED BY <1>9, <1>13, <1>14, <1>15 DEF TypeInv

LEMMA IterateTypes ==
    ASSUME IInv, GInv, HillInv, TypeInv, NEW p \in Vert, Iterate(p)
    PROVE  TypeInv'
<1>1. PICK flood \in FloodEnds(p) :
        LET seq == Refilled(p, flood.popped)
            edge == Ascending(OnBoundary(p))
            residual == ResidualMaxima(p, localOrder')
                            \cup ResidualMinima(p, localOrder')
        IN  /\ localOrder' = Renumbered(p, seq, flood.queued)
            /\ performSuperlevel' = [performSuperlevel EXCEPT ![p] = ~@]
            /\ sequence' = [sequence EXCEPT ![p] =
                  [i \in 1..(Size(p) + 1) |-> IF i <= Len(edge) THEN edge[i]
                                              ELSE seq[i]]]
            /\ IF residual = {}
               THEN Goto(p, "ordered") /\ UNCHANGED boundary
               ELSE /\ boundary' = [boundary EXCEPT ![p] =
                          IF @ = {} THEN OnBoundary(p) ELSE @]
                    /\ UNCHANGED pc
  BY DEF Iterate
<1>2. /\ pc[p] = "order"
      /\ UNCHANGED <<request, order, scalars, sortedIndices, pass, segmentation,
                     queueMask, propagationMask, propagations, comp, parent,
                     aborted, criticalPoints, queue, segmentSize, segment, status,
                     step, current, cur, registered, todo>>
  BY DEF Iterate, ordering, fields, props, locals
<1>3. /\ Base /\ Between /\ step = "hills" /\ p \in Parents
      /\ Vert' = Vert /\ N' = N /\ DOMAIN pc = Vert /\ Parents \subseteq Vert
      /\ Saddle(p) \in Vert
  <2>1. Base /\ Between /\ p \in Parents
    BY <1>2 DEF IInv, GInv
  <2>2. step = "hills"
    BY <1>2 DEF HillInv, StatusOf
  <2> QED BY <1>2, <2>1, <2>2, ParentFacts DEF Base, Between, Vert, N
<1>4. Turning(p) /\ Buffers /\ ArrayTypes
  BY <1>2, <1>3 DEF TypeInv
<1>5. PICK n \in Nat : n = Size(p)
  BY <1>3, SizeBound
<1>6. PICK lo : lo = Renumbered(p, Refilled(p, flood.popped), flood.queued)
  OBVIOUS
<1>7. /\ localOrder' = lo /\ lo \in [Vert -> -N..(N + 1)]
      /\ \A v \in segment[p] : lo[v] \in -N..(N - 1 - Size(p))
      /\ \A v \in Vert \ segment[p] : lo[v] = localOrder[v] \/ lo[v] \in -N..0
  <2>1. localOrder' = lo
    BY <1>1, <1>6
  <2>2. pc[p] # "segment"
    BY <1>2
  <2> QED BY <1>3, <1>4, <1>6, <2>1, <2>2, RenumberedBounds
<1>8. OnBoundary(p) \in SUBSET Vert
  BY <1>3 DEF OnBoundary, HillInv, Segments
<1>9. PICK seq : seq = [i \in 1..(Size(p) + 1) |->
                           IF i <= Len(Ascending(OnBoundary(p)))
                           THEN Ascending(OnBoundary(p))[i]
                           ELSE Refilled(p, flood.popped)[i]]
  OBVIOUS
<1>10. seq \in Seq(Vert) /\ Len(seq) = Size(p) + 1
  <2>1. flood.popped \in Seq(Vert)
    BY <1>3, <1>4, FloodTypes
  <2>2. sequence[p] \in Seq(Vert) /\ Len(sequence[p]) = n + 1
    BY <1>4, <1>5 DEF Buffers, Turning
  <2>3. PICK popped, old : popped = flood.popped /\ old = sequence[p]
    OBVIOUS
  <2>4. Refilled(p, flood.popped) = [i \in 1..(n + 1) |->
           IF i <= Len(popped) THEN popped[i] ELSE old[i]]
    BY <1>5, <2>3 DEF Refilled
  <2>5. popped \in Seq(Vert) /\ old \in Seq(Vert) /\ Len(old) = n + 1
    BY <2>1, <2>2, <2>3
  <2>6. \A i \in 1..(n + 1) : Refilled(p, flood.popped)[i] \in Vert
    <3>1. \A i \in 1..(n + 1) : /\ i <= Len(popped) => popped[i] \in Vert
                                /\ old[i] \in Vert
      BY <2>5
    <3> QED BY <2>4, <3>1
  <2>7. PICK edge : edge = Ascending(OnBoundary(p))
    OBVIOUS
  <2>8. edge \in Seq(Vert)
    <3>1. edge \in Seq(OnBoundary(p))
      BY <1>3, <1>8, <2>7, AscendingFacts
    <3> QED BY <1>8, <3>1
  <2>9. \A i \in 1..(n + 1) : i <= Len(edge) => edge[i] \in Vert
    BY <2>8
  <2>10. seq \in [1..(n + 1) -> Vert]
    BY <1>5, <1>9, <2>6, <2>7, <2>9
  <2> QED BY <1>5, <2>10
<1>11. sequence' = [sequence EXCEPT ![p] = seq]
  BY <1>1, <1>9
<1>12. sequence'[p] = seq /\ \A q \in Parents \ {p} : sequence'[q] = sequence[q]
  BY <1>3, <1>4, <1>11 DEF Buffers
<1>13. /\ boundary' \in [Vert -> SUBSET Vert]
       /\ \A q \in Parents \ {p} : pc'[q] = pc[q]
  <2>1. \/ Goto(p, "ordered") /\ boundary' = boundary
        \/ \E B \in {boundary[p], OnBoundary(p)} :
              boundary' = [boundary EXCEPT ![p] = B] /\ pc' = pc
    BY <1>1
  <2>2. boundary \in [Vert -> SUBSET Vert] /\ p \in Vert /\ p \in Parents
    BY <1>3, <1>4 DEF Buffers
  <2>3. CASE Goto(p, "ordered") /\ boundary' = boundary
    BY <1>3, <2>2, <2>3 DEF Goto
  <2>4. CASE \E B \in {boundary[p], OnBoundary(p)} :
                boundary' = [boundary EXCEPT ![p] = B] /\ pc' = pc
    <3>1. boundary[p] \in SUBSET Vert /\ OnBoundary(p) \in SUBSET Vert
      BY <1>8, <2>2
    <3> QED BY <2>2, <2>4, <3>1
  <2> QED BY <2>1, <2>3, <2>4
<1>14. Buffers'
  <2>1. performSuperlevel' \in [Vert -> BOOLEAN]
    BY <1>1, <1>4 DEF Buffers
  <2>2. sequence' \in [Vert -> Seq(Vert)]
    BY <1>4, <1>10, <1>11 DEF Buffers
  <2> QED BY <1>3, <1>13, <2>1, <2>2 DEF Buffers
<1>15. Parents' = Parents /\ \A q \in Parents \ {p} : pc'[q] = "order" => Turning(q)'
  <2>1. UNCHANGED <<request, order, scalars, propagations, parent, aborted,
                    criticalPoints, segment, segmentSize>>
    BY <1>2
  <2>2. pc[p] # "segment"
    BY <1>2
  <2> QED BY <1>3, <1>7, <1>12, <1>13, <2>1, <2>2, OthersTurn
<1>16. Turning(p)'
  <2>1. Size(p)' = Size(p) /\ segment'[p] = segment[p]
    BY <1>2 DEF Size
  <2> QED BY <1>3, <1>7, <1>10, <1>12, <2>1 DEF Turning
<1>17. \A q \in Parents' : pc'[q] = "order" => Turning(q)'
  BY <1>15, <1>16
<1>18. FieldTypes' /\ HillTypes' /\ TaskTypes' /\ (pass = "end" => Permuted)'
  BY <1>2, <1>3 DEF TypeInv, FieldTypes, HillTypes, TaskTypes, Permuted
<1>19. ArrayTypes'
  BY <1>2, <1>3, <1>7 DEF TypeInv, ArrayTypes
<1> QED BY <1>14, <1>17, <1>18, <1>19 DEF TypeInv

LEMMA SegmentTypes ==
    ASSUME IInv, GInv, HillInv, TypeInv, NEW p \in Vert, ComputeSegment(p)
    PROVE  TypeInv'
<1>1. /\ pc[p] = "segment" /\ Goto(p, "segmented")
      /\ segment' = [segment EXCEPT ![p] = Flood(p)]
      /\ \/ status' = status
         \/ status' = FALSE
      /\ \E k \in {p, -1000} :
            segmentation' = [v \in Vert |-> IF v \in Flood(p) THEN k
                                            ELSE segmentation[v]]
      /\ UNCHANGED <<request, order, scalars, sortedIndices, pass, localOrder,
                     queueMask, propagationMask, propagations, comp, parent,
                     aborted, criticalPoints, queue, segmentSize,
                     step, current, cur, registered, todo, performSuperlevel,
                     boundary, sequence>>
  BY DEF ComputeSegment, fields, props, locals, orders
<1>2. /\ Base /\ Between /\ step = "hills" /\ p \in Parents
      /\ Vert' = Vert /\ N' = N /\ DOMAIN pc = Vert /\ Parents \subseteq Vert
      /\ N \in Nat /\ Vert = 1..N
  <2>1. Base /\ Between /\ p \in Parents
    BY <1>1 DEF IInv, GInv
  <2>2. step = "hills"
    BY <1>1 DEF HillInv, StatusOf
  <2> QED BY <1>1, <2>1, <2>2, ParentFacts, VertFacts DEF Base, Between, Vert, N
<1>3. ArrayTypes'
  <2>1. segmentation' \in [Vert -> {-1000} \cup -(N + 1)..N]
    <3>1. p \in -(N + 1)..N
      BY <1>2
    <3>2. PICK k \in {p, -1000} :
             segmentation' = [v \in Vert |-> IF v \in Flood(p) THEN k
                                             ELSE segmentation[v]]
      BY <1>1
    <3>3. \A v \in Vert : segmentation[v] \in {-1000} \cup -(N + 1)..N
      BY DEF TypeInv, ArrayTypes
    <3>4. k \in {-1000} \cup -(N + 1)..N
      BY <3>1
    <3> QED BY <3>2, <3>3, <3>4
  <2> QED BY <1>1, <1>2, <2>1 DEF TypeInv, ArrayTypes
<1>4. ASSUME NEW q \in Parents', pc'[q] = "order" PROVE Turning(q)'
  <2>1. q \in Parents
    BY <1>1, <1>4, HillsStay
  <2>2. q # p /\ pc[q] = "order"
    BY <1>1, <1>2, <1>4, <2>1 DEF Goto
  <2>3. Turning(q)
    BY <1>2, <2>1, <2>2 DEF TypeInv
  <2>4. segment'[q] = segment[q] /\ Size(q)' = Size(q)
    BY <1>1, <1>2, <2>1, <2>2 DEF HillInv, Segments, Size
  <2> QED BY <1>1, <1>2, <2>3, <2>4 DEF Turning
<1>5. FieldTypes' /\ HillTypes' /\ TaskTypes' /\ Buffers' /\ (pass = "end" => Permuted)'
  <2>1. status' \in BOOLEAN
    BY <1>1 DEF TypeInv, HillTypes
  <2> QED BY <1>1, <1>2, <2>1
          DEF TypeInv, FieldTypes, HillTypes, TaskTypes, Buffers, Permuted
<1> QED BY <1>3, <1>4, <1>5 DEF TypeInv

(* Whatever sortedIndices is a permutation of, the perturbation computes   *)
(* numbers.                                                                *)
LEMMA PerturbedTyped ==
    ASSUME request \in Requests, NEW s \in [Vert -> Int],
           NEW descending \in BOOLEAN, Permuted
    PROVE  Perturbed(s, descending) \in [Vert -> Int]
<1> DEFINE seq == IF descending THEN sortedIndices ELSE Reverse(sortedIndices)
           place(v) == CHOOSE i \in 1..N : seq[i] = v
           Lifted(v) == {s[seq[j]] + (place(v) - j) : j \in 1..place(v)}
<1>1. N \in Nat /\ Vert = 1..N
  BY VertFacts
<1>2. /\ \A i \in 1..N : seq[i] \in Vert
      /\ \A v \in Vert : \E i \in 1..N : seq[i] = v
  <2>1. CASE descending
    BY <2>1 DEF Permuted
  <2>2. CASE ~descending
    <3>1. Len(sortedIndices) = N
      BY <1>1 DEF Permuted
    <3>2. \A i \in 1..N : N - i + 1 \in 1..N /\ seq[i] = sortedIndices[N - i + 1]
      BY <1>1, <2>2, <3>1 DEF Reverse
    <3>3. \A i \in 1..N : N - (N - i + 1) + 1 = i
      BY <1>1
    <3> HIDE DEF seq
    <3>4. \A i \in 1..N : seq[i] \in Vert
      BY <3>2 DEF Permuted
    <3>5. ASSUME NEW v \in Vert PROVE \E i \in 1..N : seq[i] = v
      <4>1. PICK j \in 1..N : sortedIndices[j] = v
        BY DEF Permuted
      <4>2. seq[N - j + 1] = v /\ N - j + 1 \in 1..N
        BY <3>2, <3>3, <4>1
      <4> QED BY <4>2
    <3> QED BY <3>4, <3>5
  <2> QED BY <2>1, <2>2
<1> HIDE DEF seq
<1>3. \A v \in Vert : place(v) \in 1..N
  BY <1>2
<1> HIDE DEF place
<1>4. ASSUME NEW v \in Vert PROVE Max(Lifted(v)) \in Int
  <2> DEFINE n == place(v)
             a == [j \in 1..n |-> s[seq[j]] + (n - j)]
  <2>1. n \in Nat /\ n > 0 /\ n \in 1..N
    BY <1>1, <1>3
  <2> HIDE DEF n
  <2>2. ASSUME NEW j \in 1..n PROVE s[seq[j]] \in Int
    <3>1. j \in 1..N
      BY <1>1, <2>1
    <3>2. seq[j] \in Vert
      BY <1>2, <3>1
    <3> QED BY <3>2
  <2>3. a \in [1..n -> Int]
    BY <2>1, <2>2
  <2>4. Lifted(v) = {a[j] : j \in 1..n}
    BY DEF n
  <2> HIDE DEF a, Lifted
  <2>5. PICK m \in 1..n : \A j \in 1..n : a[j] <= a[m]
    BY <2>1, <2>3, GreatestNumber
  <2>6. a[m] \in Lifted(v) /\ \A x \in Lifted(v) : x \in Int /\ a[m] >= x
    <3>1. \A j \in 1..n : a[j] \in Int
      BY <2>3
    <3> QED BY <2>4, <2>5, <3>1
  <2>7. Max(Lifted(v)) \in Lifted(v)
    BY <2>6 DEF Max
  <2> QED BY <2>6, <2>7
<1>5. Perturbed(s, descending) = [v \in Vert |-> Max(Lifted(v))]
  BY DEF Perturbed, seq, place
<1> HIDE DEF Lifted
<1> QED BY <1>4, <1>5

(* Each request examines one kind of extrema at least.                     *)
LEMMA SomePass ==
    ASSUME ConnectedMeshes, Base
    PROVE  NextPass("start") # "end"
<1> SUFFICES ASSUME ~Wanted("maxima"), ~Wanted("minima") PROVE FALSE
  BY DEF NextPass
<1>1. CASE Persistent
  BY <1>1, RequestsAssumption DEF Wanted, Base
<1>2. CASE ~Persistent
  <2>1. PICK e \in request.authorized : e \in Vert
    BY <1>2, RequestsAssumption DEF Persistent, Base, Vert
  <2>2. PICK u \in Neighbors(e) : u \in Vert /\ u # e
    <3>1. 1 \in Vert /\ 2 \in Vert
      BY VertFacts DEF Base
    <3>2. {e} # Vert /\ {e} \in SUBSET Vert
      BY <2>1, <3>1
    <3>3. Connected(request.mesh, Vert)
      BY DEF ConnectedMeshes, Base, Vert
    <3>4. PICK a \in {e}, u \in Vert \ {e} : {a, u} \in request.mesh
      BY <3>2, <3>3 DEF Connected
    <3>5. u \in Neighbors(e)
      BY <2>1, <3>4, EdgeFacts DEF Base
    <3> QED BY <3>4, <3>5
  <2>3. Neighbors(e) # {} /\ "maxima" # "minima"
    BY <2>2
  <2>4. IsAuthorized("maxima") \/ IsAuthorized("minima")
    BY <2>1, <2>3 DEF IsAuthorized
  <2> QED BY <1>2, <2>4 DEF Wanted
<1> QED BY <1>1, <1>2

LEMMA EndPassTypes ==
    ASSUME IInv, GInv, HillInv, TypeInv, EndPass
    PROVE  TypeInv'
<1> DEFINE R == Rank(FlatOrder, FinalLocalOrder)
<1>1. /\ step = "hills" /\ step' = "begin" /\ \A p \in Parents : pc[p] = "ordered"
      /\ localOrder' = FinalLocalOrder
      /\ sortedIndices' = [i \in 1..N |-> CHOOSE v \in Vert : R[v] = i - 1]
      /\ scalars' = IF Persistent THEN Flattened(scalars, Hills) ELSE scalars
      /\ UNCHANGED <<request, segmentation, queueMask, propagationMask,
                     propagations, status, comp, parent, aborted,
                     criticalPoints, queue, segmentSize, current, cur,
                     registered, todo, performSuperlevel, boundary, sequence>>
  BY DEF EndPass, Segmented, props, locals, orders
<1>2. /\ Base /\ Between /\ Field /\ request \in Requests
      /\ Vert' = Vert /\ N' = N /\ N \in Nat /\ Vert = 1..N
  BY <1>1, VertFacts DEF IInv, HillInv, Base, Vert, N
<1>3. PICK top \in [Vert -> Vert] :
         /\ FlatOrder = [v \in Vert |-> order[top[v]]]
         /\ Flattened(scalars, Hills) = [v \in Vert |-> scalars[top[v]]]
  <2>1. scalars \in [Vert -> Int]
    BY <1>2 DEF Field
  <2> QED BY <1>1, <1>2, <2>1, TopOf
<1>4. scalars' \in [Vert -> Int]
  BY <1>1, <1>2, <1>3 DEF Field
<1>5. localOrder' \in [Vert -> -N..(N + 1)]
  <2>1. localOrder \in [Vert -> -N..(N + 1)]
    BY DEF TypeInv, ArrayTypes
  <2>2. N + 1 \in -N..(N + 1)
    BY <1>2
  <2> QED BY <1>1, <2>1, <2>2 DEF FinalLocalOrder
<1>6. Numbers(R)
  <2>1. \A v \in Vert : order[v] \in Int
    BY <1>2 DEF Base
  <2>2. FlatOrder \in [Vert -> Int]
    BY <1>3, <2>1
  <2>3. FinalLocalOrder \in [Vert -> Int]
    BY <1>1, <1>2, <1>5
  <2> QED BY <1>2, <2>2, <2>3, RankNumbers
<1> HIDE DEF R
<1>7. Permuted'
  <2>1. \A i \in 1..N : /\ sortedIndices'[i] \in Vert
                        /\ R[sortedIndices'[i]] = i - 1
    <3> SUFFICES ASSUME NEW i \in 1..N
                 PROVE  sortedIndices'[i] \in Vert /\ R[sortedIndices'[i]] = i - 1
      OBVIOUS
    <3>1. PICK w : w = CHOOSE v \in Vert : R[v] = i - 1
      OBVIOUS
    <3>2. sortedIndices'[i] = w
      BY <1>1, <3>1
    <3>3. w \in Vert /\ R[w] = i - 1
      BY <1>2, <1>6, <3>1, SortedByRank
    <3> QED BY <3>2, <3>3
  <2>2. sortedIndices' \in [1..N -> Vert]
    BY <1>1, <2>1
  <2>3. ASSUME NEW v \in Vert PROVE \E i \in 1..N : sortedIndices'[i] = v
    <3>1. R[v] \in 0..(N - 1)
      BY <1>6 DEF Numbers
    <3>2. PICK i \in 1..N : i = R[v] + 1
      BY <1>2, <3>1
    <3>3. i - 1 = R[v]
      BY <3>1, <3>2
    <3>4. R[sortedIndices'[i]] = R[v] /\ sortedIndices'[i] \in Vert
      BY <2>1, <3>3
    <3>5. sortedIndices'[i] = v
      BY <1>6, <3>4 DEF Numbers
    <3> QED BY <3>5
  <2> QED BY <1>2, <2>2, <2>3 DEF Permuted
<1>8. sortedIndices' \in Seq(Vert)
  BY <1>2, <1>7 DEF Permuted
<1>9. FieldTypes' /\ ArrayTypes'
  <2>1. FieldTypes'
    BY <1>2, <1>4, <1>8 DEF FieldTypes
  <2>2. ArrayTypes'
    <3>1. Null' = Null
      BY DEF Null
    <3>2. ArrayTypes
      BY DEF TypeInv
    <3>3. segmentation' \in [Vert' -> {-1000} \cup -(N' + 1)..N']
      BY <1>1, <1>2, <3>2 DEF ArrayTypes
    <3>4. queueMask' \in [Vert' -> -2..N']
      BY <1>1, <1>2, <3>2 DEF ArrayTypes
    <3>5. localOrder' \in [Vert' -> -N'..(N' + 1)]
      BY <1>2, <1>5
    <3>6. propagationMask' \in [Vert' -> propagations' \cup {Null'}]
      BY <1>1, <1>2, <3>1, <3>2 DEF ArrayTypes
    <3> QED BY <3>3, <3>4, <3>5, <3>6 DEF ArrayTypes
  <2> QED BY <2>1, <2>2
<1>10. HillTypes' /\ TaskTypes' /\ Buffers'
  BY <1>1, <1>2 DEF TypeInv, HillTypes, TaskTypes, Buffers
<1>11. step' # "hills"
  BY <1>1
<1> QED BY <1>7, <1>9, <1>10, <1>11 DEF TypeInv

LEMMA FinishTypes ==
    ASSUME IInv, LevelInv, TypeInv, Finish
    PROVE  TypeInv'
<1>1. /\ pass = "end" /\ step = "begin" /\ step' = "done"
      /\ UNCHANGED <<request, order, sortedIndices, pass, segmentation, queueMask,
                     localOrder, propagationMask, propagations, status, comp,
                     parent, aborted, criticalPoints, queue, segmentSize,
                     current, cur, registered, todo, performSuperlevel,
                     boundary, sequence>>
  BY DEF Finish, arrays, props, locals, orders
<1>2. /\ Flat \in [Vert -> Int] /\ PassOf /\ Permuted
      /\ Vert' = Vert /\ N' = N /\ request \in Requests
  BY <1>1 DEF LevelInv, TypeInv, IInv, Base, Vert, N
<1>3. scalars' = IF ~request.perturb THEN Flat ELSE Perturbed(Flat, Descending)
  <2>1. FoldLeft(Flattened, scalars, removed) = Flattenings(scalars, removed)
    <3>1. \/ removed = <<>>
          \/ \E a : removed = <<a>>
          \/ \E a, b : removed = <<a, b>>
      BY <1>2 DEF PassOf
    <3> QED BY <3>1, FoldedFlattened
  <2> QED BY <2>1 DEF Finish, Flat, Descending
<1>4. scalars' \in [Vert -> Int]
  <2>1. Descending \in BOOLEAN
    BY DEF Descending
  <2> QED BY <1>2, <1>3, <2>1, PerturbedTyped
<1>5. FieldTypes' /\ ArrayTypes' /\ HillTypes' /\ TaskTypes' /\ Buffers' /\ Permuted'
  BY <1>1, <1>2, <1>4
     DEF TypeInv, FieldTypes, ArrayTypes, HillTypes, TaskTypes, Buffers, Permuted
<1> QED BY <1>1, <1>5 DEF TypeInv

(* Every step keeps the types.                                             *)
LEMMA NextTypes ==
    ASSUME ConnectedMeshes, IInv, IInv', HillInv, LevelInv, PropagationsTyped',
           TypeInv, [Next]_vars
    PROVE  TypeInv'
<1>1. Base /\ Between
  BY DEF IInv
<1>2. CASE \E t \in Vert : Propagate(t)
  BY <1>2, PropagateTypes
<1>3. CASE \E p \in Vert : Simplify(p)
  <2>1. PICK p \in Vert : Simplify(p)
    BY <1>3
  <2>2. step = "hills"
    BY <2>1 DEF Simplify, ComputeSegment, InitLocalOrder, Iterate, HillInv,
                StatusOf, Segmented
  <2>3. GInv
    BY <2>2 DEF HillInv
  <2> QED BY <2>1, <2>3, SegmentTypes, InitLocalTypes, IterateTypes DEF Simplify
<1>4. CASE EndPass
  <2>1. GInv
    BY <1>4 DEF EndPass, Segmented, HillInv
  <2> QED BY <1>4, <2>1, EndPassTypes
<1>5. ASSUME UNCHANGED <<request, scalars, sortedIndices, arrays, status,
                         propagations, props, locals, orders>>,
             step' = "hills" => \A p \in Parents' : pc'[p] = "order" => Turning(p)',
             pass' = "end" => pass = "end"
      PROVE  TypeInv'
  <2>1. Vert' = Vert /\ N' = N
    BY <1>5 DEF Vert, N
  <2>2. FieldTypes' /\ ArrayTypes' /\ HillTypes' /\ TaskTypes' /\ Buffers'
    BY <1>5, <2>1 DEF TypeInv, FieldTypes, ArrayTypes, HillTypes, TaskTypes,
                      Buffers, arrays, props, locals, orders
  <2>3. Permuted => Permuted'
    BY <1>5, <2>1 DEF Permuted
  <2> QED BY <1>5, <2>2, <2>3 DEF TypeInv
<1>6. CASE BeginPasses
  <2>1. /\ pass = "start" /\ pass' = NextPass("start") /\ step' = step
        /\ UNCHANGED <<request, scalars, sortedIndices, arrays, status,
                       propagations, props, locals, orders>>
    BY <1>6 DEF BeginPasses
  <2>2. step = "begin" /\ pass' # "end"
    BY <1>1, <2>1, SomePass DEF Between
  <2> QED BY <1>5, <2>1, <2>2
<1>7. CASE FinalizePropagations
  <2>1. /\ UNCHANGED <<request, scalars, sortedIndices, arrays, status, pass,
                       propagations, props, locals, orders>>
        /\ pc' = [p \in Vert |-> IF p \in Parents THEN "segment" ELSE "none"]
    BY <1>7 DEF FinalizePropagations, fields
  <2>2. \A p \in Parents' : p \in Vert
    BY <1>1, <2>1 DEF Parents, Between
  <2>3. \A p \in Parents' : pc'[p] # "order"
    BY <2>1, <2>2
  <2> QED BY <1>5, <2>1, <2>3
<1>8. CASE Fail
  <2>1. step' = "failed" /\ UNCHANGED <<request, scalars, sortedIndices, arrays,
             status, pass, propagations, props, locals, orders>>
    BY <1>8 DEF Fail, fields
  <2> QED BY <1>5, <2>1
<1>9. CASE UNCHANGED vars
  <2>1. UNCHANGED <<request, scalars, order, sortedIndices, arrays, status, pass,
             step, pc, segment, propagations, props, locals, orders>>
    BY <1>9 DEF vars, fields
  <2>2. step = "hills" => \A p \in Parents : pc[p] = "order" => Turning(p)
    BY DEF TypeInv
  <2>3. Parents' = Parents /\ pc' = pc /\ step' = step
    BY <2>1 DEF Parents, IsParent, props
  <2>4. \A p : Turning(p)' <=> Turning(p)
    BY <2>1 DEF Turning, Size, N, arrays, props, orders
  <2> QED BY <1>5, <2>1, <2>2, <2>3, <2>4
<1> QED BY <1>2, <1>3, <1>4, <1>6, <1>7, <1>8, <1>9, InitializeTypes,
           FinishTypes DEF Next, Returned

LEMMA InitTypes ==
    ASSUME Init
    PROVE  TypeInv
<1>1. /\ request \in Requests /\ scalars = request.scalar
      /\ pass = "start" /\ step = "begin"
  BY DEF Init
<1>2. request.scalar \in [Vert -> Int] /\ N \in Nat /\ Vert = 1..N
  BY <1>1, RequestsAssumption, VertFacts DEF Vert
<1>3. FieldTypes
  BY <1>1, <1>2 DEF Init, FieldTypes
<1>4. ArrayTypes
  <2>1. 0 \in -(N + 1)..N /\ 0 \in -2..N /\ 0 \in -N..(N + 1)
    BY <1>2
  <2> QED BY <2>1 DEF Init, ArrayTypes
<1>5. HillTypes /\ TaskTypes /\ Buffers
  <2>1. 0 \in 0..N /\ <<>> \in Seq(Vert) /\ \A v \in Vert : <<v>> \in Seq(Vert)
    BY <1>2
  <2> QED BY <2>1 DEF Init, HillTypes, TaskTypes, Buffers
<1> QED BY <1>1, <1>3, <1>4, <1>5 DEF TypeInv

(* Every variable keeps its type, and its bounds: counters are above       *)
(* -(N + 1), sizes and registered neighbours at most N, local orders       *)
(* between -N and N + 1 whatever the floods of a hill reach, and the call  *)
(* makes two passes at most.                                               *)
THEOREM TypeOKAlways ==
    ASSUME ConnectedMeshes
    PROVE  Spec => []TypeOK
<1>1. IInv /\ SweepInv /\ HillInv => PropagationsTyped
  BY PropagationsHaveTypes
<1>2. /\ IInv /\ IInv' /\ HillInv /\ LevelInv /\ PropagationsTyped' /\ TypeInv
            /\ [Next]_vars => TypeInv'
      /\ Init => TypeInv
      /\ IInv /\ HillInv /\ LevelInv /\ TypeInv => TypeOK
  BY NextTypes, InitTypes, TypesTogether
<1> QED BY <1>1, <1>2, IInvAlways, SweepInvAlways, HillInvAlways, LevelInvAlways,
           PTL DEF Spec
===============================================================================
