--------------------------- MODULE FTMTree_proofs -----------------------------
(***************************************************************************)
(* Proofs about the tree FTMGrowth computes.  First what is counted while  *)
(* it grows and in the sequential trunk: the types, and that the segments  *)
(* of the arcs are filled.  The rest shows that on a mesh in one piece     *)
(* whose greatest vertex is not a saddle the result is the join tree: the  *)
(* components of sublevel sets and the nodes and arcs they define; then    *)
(* the invariant of the tree, which says what is built of it while the     *)
(* tasks grow (Growing), when they have come to the root (Full), and when  *)
(* the last one has left the rest to the trunk (End); then what each step  *)
(* makes of it.  Last, that two states whose queues a task merges at a     *)
(* saddle come from two components that meet there (Apart), which is why   *)
(* the queue whose top mergeStates reads is not empty.                     *)
(***************************************************************************)
EXTENDS FTMGrowth_proofs

(***************************************************************************)
(* What the tasks and the trunk count of the arcs, and the types.          *)
(***************************************************************************)
(* The places of the regular vertices of arc a, and how many were seen.    *)
PlacedOf(a) ==
    LET k == Cardinality(Regular(a)) IN
    /\ {visitOrder[v] : v \in Regular(a)} = 0..(k - 1)
    /\ \A u, v \in Regular(a) : visitOrder[u] = visitOrder[v] => u = v
    /\ verticesSeen[a] = k + 1 \/ (Regular(a) = {} /\ verticesSeen[a] = 0)

(* An arc is opened once, above a node, and seen after that.               *)
OpenedOf(a) ==
    /\ nbUp[a] \in {0, 1}
    /\ vert2tree[a] # IsNode => nbUp[a] = 0
    /\ nbUp[a] = 0 => Regular(a) = {} /\ verticesSeen[a] = 0

(* t works on the arc from its start vertex.                               *)
OnItsArc(t) == \/ pc[t] \in {"pop", "capture"}
               \/ pc[t] = "publish" /\ ~isSaddle[t]

(* The place t gives the next vertex, and what it gave the last one.       *)
GrowsOf(t) ==
    LET a == startVert[t]
        k == Cardinality(Regular(a))
    IN  /\ OnItsArc(t) => nbUp[a] = 1
        /\ pc[t] = "pop" =>
              IF seenFirst[t]
              THEN /\ localOrder[t] = k /\ verticesSeen[a] = k + 1
                   /\ IF cur[t] = a THEN Regular(a) = {}
                      ELSE vert2tree[cur[t]] = a /\ visitOrder[cur[t]] = k - 1
              ELSE localOrder[t] = -1 /\ Regular(a) = {} /\ verticesSeen[a] = 0
        /\ pc[t] \in {"capture", "publish"} /\ ~isSaddle[t] =>
              IF cur[t] = a
              THEN localOrder[t] = 0 /\ Regular(a) = {} /\ verticesSeen[a] = 0
              ELSE /\ localOrder[t] = k + 1 /\ verticesSeen[a] = k + 1
                   /\ visitOrder[cur[t]] = k

(* Where the arc of t starts, or the next one will.                        *)
Anchor(t) == IF pc[t] \in {"merge", "decide"} THEN cur[t] ELSE startVert[t]
Anchored(t) == OnItsArc(t) \/ pc[t] \in {"waiting", "start", "merge", "decide"}

(* Before the next arc: none starts there, and the valence is spent once.  *)
FreshOf(t) ==
    /\ pc[t] \in {"waiting", "start", "merge", "decide"} => nbUp[Anchor(t)] = 0
    /\ \/ pc[t] \in {"waiting", "start", "merge", "decide"}
       \/ pc[t] = "pop" /\ ~seenFirst[t]
       \/ pc[t] = "capture" /\ cur[t] = startVert[t]
       => valences[Anchor(t)] = 0

(* A vertex that is visited and left open is in openedNodes or will be.    *)
MetOpen == \A v \in Vert : vert2tree[v] = Null /\ visitOrder[v] # NoOrder =>
               \/ v \in openedNodes
               \/ \E t \in Leaves : cur[t] = v /\ pc[t] \in {"capture", "publish", "open"}

(* What is in openedNodes, or where a task stopped, is on no arc.          *)
OpenedNodes ==
    /\ \A v \in openedNodes : v \in Vert /\ ~OnArc(v) /\ ufs[v] # Null
    /\ \A t \in Leaves : Parked(t) => ~OnArc(cur[t])

(* The greatest vertex is on an arc only until its task ends there.        *)
LastVertex == OnArc(N) => \E t \in Leaves : pc[t] = "pop" /\ seenFirst[t] /\ cur[t] = N

SpentOf(v) == vert2tree[v] # Null =>
                  valences[v] = 0 \/ valences[v] = -Cardinality(Lower(v))

Placed == \A a \in Vert : PlacedOf(a)
Opening == \A a \in Vert : OpenedOf(a)
Grows == \A t \in Leaves : GrowsOf(t)
Fresh == \A t \in Leaves : FreshOf(t)
Spent == \A v \in Vert : SpentOf(v)

ArcInv == /\ Placed /\ Opening /\ Grows /\ Fresh
          /\ MetOpen /\ OpenedNodes /\ LastVertex /\ Spent

(* The leaves of set u; the rank is less than their number.                *)
ClassOf(u) == {x \in Vert : comp[x] = u}
SizeOf(u) == /\ rank[u] \in 0..N
             /\ comp[u] = u => rank[u] <= Cardinality(ClassOf(u)) - 1

TreeTypes ==
    /\ openedArcs \in [Vert -> SUBSET Vert]
    /\ vert2tree \in [Vert -> Vert \cup {Null, IsNode}]
    /\ visitOrder \in [Vert -> {NoOrder} \cup (-1)..N]
    /\ nodes \subseteq Vert /\ roots \subseteq Vert
    /\ nbUp \in [Vert -> Int] /\ verticesSeen \in [Vert -> Int]
    /\ upNode \in [Vert -> Vert \cup {Null}]
    /\ lastVisited \in [Vert -> Vert \cup {Null}]
    /\ openedNodes \subseteq Vert
    /\ localOrder \in [Vert -> (-1)..N] /\ decr \in [Vert -> 0..N]
    /\ rank \in [Vert -> 0..N]

GrowthTypes == /\ TreeTypes /\ ArcInv /\ \A u \in Vert : SizeOf(u)
               /\ trunkVerts = <<>> /\ trunkClosed = 0

(* After the growth, in the trunk: its vertices, which no arc holds, get   *)
(* an arc each.                                                            *)
TrunkSet == ToSet(trunkVerts)
TrunkInv ==
    /\ \A a \in Vert \ TrunkSet : PlacedOf(a)
    /\ \A a \in Vert : nbUp[a] \in {0, 1}
    /\ \A a \in TrunkSet :
          /\ Regular(a) = {} /\ ~OnArc(a) /\ ufs[a] # Null
          /\ IF phase = "trunk" THEN verticesSeen[a] = 0 /\ nbUp[a] = 0
             ELSE verticesSeen[a] = 1
    /\ trunkVerts # <<>>
    /\ ~OnArc(N)
    /\ \A i \in 1..trunkClosed : vert2tree[trunkVerts[i]] = IsNode
    /\ phase = "segment" => trunkClosed = Len(trunkVerts)
    /\ \A v \in Vert : vert2tree[v] = Null /\ visitOrder[v] # NoOrder => v \in TrunkSet

(* The segment of arc a is filled.                                         *)
FilledOf(a) ==
    LET visited == {visitOrder[v] : v \in Visited(a)}
        counted == 0..(Cardinality(Regular(a) \ Visited(a)) - 1)
    IN  /\ visited \cup counted = 0..(SegmentSize(a) - 1)
        /\ Cardinality(Regular(a)) = SegmentSize(a)

(* What no step of the trunk changes, and bounds.                          *)
RestTypes ==
    /\ states \in Listed
    /\ comp \in [Vert -> Vert]
    /\ ufs \in [Vert -> Vert \cup {Null}]
    /\ propagation \in [Vert -> Vert \cup {Null}]
    /\ \A v \in Vert : LET k == Cardinality(Lower(v)) IN valences[v] \in (-k)..k
    /\ activeTasks \in 0..N
    /\ trunkVerts \in Seq(Vert) /\ trunkClosed \in 0..Len(trunkVerts)
    /\ nbUp \in [Vert -> 0..N] /\ verticesSeen \in [Vert -> 0..N]
    /\ pc \in [Vert -> {"none", "waiting", "start", "pop", "capture", "publish",
                       "open", "retire", "merge", "decide", "stopped"}]
    /\ startVert \in [Vert -> Vert] /\ startUF \in [Vert -> Vert]
    /\ seenFirst \in [Vert -> BOOLEAN]
    /\ cur \in [Vert -> Vert \cup {Null}]
    /\ isSaddle \in [Vert -> BOOLEAN] /\ isLast \in [Vert -> BOOLEAN]
    /\ todo \in [Vert -> SUBSET Vert]

CountInv ==
    CASE phase = "growth" -> GrowthTypes
      [] phase \in {"trunk", "segment"} -> TreeTypes /\ RestTypes /\ TrunkInv
      [] phase = "done" -> TreeTypes /\ RestTypes /\ \A a \in Vert : FilledOf(a)
      [] OTHER -> FALSE
-------------------------------------------------------------------------------
(* The regular vertices of an arc: fewer than there are vertices.          *)
LEMMA RegularFacts ==
    ASSUME NEW a \in Vert
    PROVE  /\ Regular(a) \in SUBSET Vert /\ IsFiniteSet(Regular(a))
           /\ Cardinality(Regular(a)) \in 0..N
           /\ vert2tree[a] # a => Cardinality(Regular(a)) \in 0..(N - 1)
<1>1. Regular(a) \in SUBSET Vert
  BY DEF Regular
<1>2. N \in Nat /\ IsFiniteSet(Vert) /\ Cardinality(Vert) = N
  BY NAssumption, FS_Interval DEF Vert
<1>3. IsFiniteSet(Regular(a)) /\ Cardinality(Regular(a)) <= N
      /\ Cardinality(Regular(a)) \in Nat
  BY <1>1, <1>2, FS_Subset, FS_CardinalityType
<1>4. ASSUME vert2tree[a] # a PROVE Cardinality(Regular(a)) <= N - 1
  <2>1. IsFiniteSet(Vert \ {a}) /\ Cardinality(Vert \ {a}) = N - 1
    BY <1>2, FS_RemoveElement
  <2>2. Regular(a) \in SUBSET (Vert \ {a})
    BY <1>4 DEF Regular
  <2> QED BY <2>1, <2>2, FS_Subset
<1> QED BY <1>1, <1>2, <1>3, <1>4

(* An arc starts, or will, at a node in one of the sets of its task.       *)
LEMMA AnchorFacts ==
    ASSUME Types, GInv, NEW t \in Leaves, Anchored(t)
    PROVE  /\ t \in Vert /\ ~Absorbed(t)
           /\ Anchor(t) \in Vert /\ vert2tree[Anchor(t)] = IsNode
           /\ pc[t] # "waiting" => /\ ufs[Anchor(t)] # Null
                                   /\ comp[ufs[Anchor(t)]] \in Holds(t)
           /\ pc[t] = "waiting" => Anchor(t) = t /\ ufs[t] = Null
<1>1. t \in Vert /\ startVert[t] \in Vert
  BY LeavesFacts DEF Types
<1>2. ~Absorbed(t) /\ pc[t] # "stopped"
  BY DEF Anchored, OnItsArc, Absorbed, Parked
<1>3. CASE pc[t] = "merge"
  BY <1>1, <1>2, <1>3, HoldsFacts DEF Anchor, GInv, AtSaddle, SaddleOf
<1>4. CASE pc[t] = "decide"
  BY <1>1, <1>2, <1>4, HoldsFacts DEF Anchor, GInv, AtSaddle, SaddleOf, Belongs
<1>5. CASE pc[t] \notin {"merge", "decide"}
  <2>1. Anchor(t) = startVert[t] /\ vert2tree[startVert[t]] = IsNode
    BY <1>5 DEF Anchor, GInv, Arcs, ArcOf
  <2>2. pc[t] # "waiting" => Belongs(startVert[t], Rep(t))
    BY <1>2 DEF GInv, Arcs, ArcOf, Sweeping
  <2>3. pc[t] = "waiting" => startVert[t] = t /\ ufs[t] = Null
    BY DEF GInv, Arcs, ArcOf
  <2> QED BY <1>1, <1>2, <2>1, <2>2, <2>3, HoldsFacts DEF Belongs
<1> QED BY <1>3, <1>4, <1>5

(* No two tasks start an arc at the same vertex.                           *)
LEMMA AnchorsApart ==
    ASSUME Types, GInv, NEW t \in Leaves, NEW o \in Leaves, t # o,
           Anchored(t), Anchored(o)
    PROVE  Anchor(t) # Anchor(o)
<1>1. CASE pc[t] # "waiting" /\ pc[o] # "waiting"
  <2> SUFFICES ASSUME Anchor(t) = Anchor(o) PROVE FALSE
    OBVIOUS
  <2>1. Holds(t) \cap Holds(o) # {}
    BY <1>1, AnchorFacts
  <2> QED BY <2>1, AnchorFacts, Sole
<1>2. CASE pc[t] = "waiting" \/ pc[o] = "waiting"
  BY <1>2, AnchorFacts
<1> QED BY <1>1, <1>2

(* A task that finds nothing ahead has seen its start vertex.              *)
LEMMA RootSeen ==
    ASSUME Types, GInv, NEW t \in Leaves, pc[t] = "pop", Ahead(t) = {}
    PROVE  seenFirst[t]
<1> SUFFICES ASSUME ~seenFirst[t] PROVE FALSE
  OBVIOUS
<1>1. t \in Vert
  BY LeavesFacts
<1>2. startVert[t] \in Vert /\ vert2tree[startVert[t]] = IsNode
      /\ heap[startUF[t]][startVert[t]] > 0
  BY <1>1 DEF GInv, Arcs, ArcOf, Types
<1>3. startVert[t] \in Ahead(t)
  BY <1>1, <1>2, AheadFacts DEF Seen, OnArc
<1> QED BY <1>3

(* What t takes next: its start vertex, or one that is open and nobody     *)
(* holds all the lower neighbours of.                                      *)
LEMMA VisitFacts ==
    ASSUME Types, GInv, NEW t \in Leaves, Visit(t)
    PROVE  LET v == Min(Ahead(t)) IN
           /\ v \in Vert /\ t \in Vert /\ pc[t] = "pop"
           /\ visitOrder' = [visitOrder EXCEPT ![v] = localOrder[t]]
           /\ localOrder' = [localOrder EXCEPT ![t] = localOrder[t] + 1]
           /\ cur' = [cur EXCEPT ![t] = v]
           /\ pc' = [pc EXCEPT ![t] = "capture"]
           /\ seenFirst' = [seenFirst EXCEPT ![t] = seenFirst[t] \/ v = startVert[t]]
           /\ ~seenFirst[t] => v = startVert[t] /\ vert2tree[v] = IsNode
           /\ seenFirst[t] => v # startVert[t] /\ v > cur[t] /\ vert2tree[v] = Null
           /\ seenFirst[t] => \A o \in Leaves :
                 o # t /\ cur[o] = v /\ pc[o] \in {"capture", "publish"} => isSaddle[o]
<1> DEFINE v == Min(Ahead(t))
<1>1. t \in Vert /\ pc[t] = "pop" /\ Ahead(t) # {} /\ Ahead(t) \in SUBSET Vert
  BY LeavesFacts, AheadFacts DEF Visit
<1>2. v \in Ahead(t) /\ \A x \in Ahead(t) : v <= x
  BY <1>1, MinFacts
<1>3. /\ v \in Vert /\ v >= Top(t) /\ startVert[t] <= v
      /\ ~seenFirst[t] => v = startVert[t]
      /\ seenFirst[t] => /\ v > cur[t] /\ v > startVert[t] /\ vert2tree[v] = Null
                         /\ \E n \in Lower(v) : Belongs(n, Rep(t))
  <2> HIDE DEF v
  <2> QED BY <1>1, <1>2, NextVertex
<1>4. vert2tree[startVert[t]] = IsNode /\ startVert[t] \in Nat
  <2>1. startVert[t] \in Vert
    BY <1>1 DEF Types
  <2> QED BY <2>1, VertFacts DEF GInv, Arcs, ArcOf
<1>5. ASSUME seenFirst[t], NEW o \in Leaves, o # t, cur[o] = v,
             pc[o] \in {"capture", "publish"}, ~isSaddle[o]
      PROVE  FALSE
  <2> HIDE DEF v
  <2>1. ~Absorbed(o) /\ ~Absorbed(t) /\ (pc[o] = "capture" \/ Captured(o))
    BY <1>1, <1>5 DEF Absorbed, Parked, Captured
  <2>2. Own(o) = Lower(v)
    BY <1>5, <2>1 DEF GInv, Visits, VisitOf, Captured
  <2>3. PICK n \in Lower(v) : Belongs(n, Rep(t))
    BY <1>3, <1>5
  <2>4. Rep(o) = Rep(t)
    BY <2>2, <2>3 DEF Own, Belongs
  <2>5. ~Absorbed(o) /\ ~Absorbed(t)
    BY <1>1, <1>5 DEF Absorbed, Parked
  <2> QED BY <1>5, <2>4, <2>5, SoleRep, HoldsFacts
<1>6. /\ visitOrder' = [visitOrder EXCEPT ![v] = localOrder[t]]
      /\ localOrder' = [localOrder EXCEPT ![t] = localOrder[t] + 1]
      /\ cur' = [cur EXCEPT ![t] = v]
      /\ pc' = [pc EXCEPT ![t] = "capture"]
      /\ seenFirst' = [seenFirst EXCEPT ![t] = seenFirst[t] \/ v = startVert[t]]
  BY DEF Visit, Goto
<1>7. seenFirst[t] => v # startVert[t]
  BY <1>3, <1>4
<1> HIDE DEF v
<1> QED BY <1>1, <1>3, <1>4, <1>5, <1>6, <1>7 DEF v

(* The vertex that is put on an arc, and the one that is taken off it.     *)
LEMMA PublishFacts ==
    ASSUME Types, GInv, NEW t \in Leaves, Publish(t), ~isSaddle[t]
    PROVE  LET a == startVert[t]
               v == cur[t]
           IN  /\ t \in Vert /\ v \in Vert /\ a \in Vert /\ a # Null /\ a # IsNode
               /\ OnItsArc(t) /\ seenFirst[t] /\ vert2tree[a] = IsNode
               /\ pc' = [pc EXCEPT ![t] = "pop"]
               /\ verticesSeen' = [verticesSeen EXCEPT ![a] = verticesSeen[a] + 1]
               /\ v = a => vert2tree' = vert2tree
               /\ v # a => /\ vert2tree[v] = Null /\ Own(t) = Lower(v)
                           /\ vert2tree' = [vert2tree EXCEPT ![v] = a]
<1>1. t \in Vert /\ pc[t] = "publish" /\ startVert[t] \in Vert
  BY LeavesFacts DEF Publish, Types
<1>2. ~Absorbed(t) /\ Captured(t) /\ OnItsArc(t)
  BY <1>1 DEF Absorbed, Parked, Captured, OnItsArc
<1>3. /\ cur[t] \in Vert /\ seenFirst[t]
      /\ cur[t] # startVert[t] => vert2tree[cur[t]] = Null /\ Own(t) = Lower(cur[t])
  BY <1>1, <1>2 DEF GInv, Visits, VisitOf
<1>4. vert2tree[startVert[t]] = IsNode
  BY DEF GInv, Arcs, ArcOf
<1>5. /\ pc' = [pc EXCEPT ![t] = "pop"]
      /\ verticesSeen' = [verticesSeen EXCEPT
                             ![startVert[t]] = verticesSeen[startVert[t]] + 1]
      /\ vert2tree' = IF cur[t] = startVert[t] THEN vert2tree
                      ELSE [vert2tree EXCEPT ![cur[t]] = startVert[t]]
  BY DEF Publish, Goto
<1> QED BY <1>1, <1>2, <1>3, <1>4, <1>5, VertFacts

LEMMA RootFacts ==
    ASSUME Types, GInv, NEW t \in Leaves, CloseRoot(t)
    PROVE  LET a == startVert[t]
               v == cur[t]
           IN  /\ t \in Vert /\ v \in Vert /\ a \in Vert /\ a # Null /\ a # IsNode
               /\ pc[t] = "pop" /\ OnItsArc(t) /\ seenFirst[t]
               /\ vert2tree[a] = IsNode /\ vert2tree[v] # Null
               /\ pc' = [pc EXCEPT ![t] = "stopped"]
               /\ verticesSeen' = [verticesSeen EXCEPT ![a] = verticesSeen[a] - 1]
               /\ vert2tree' = [vert2tree EXCEPT ![v] = IsNode]
<1>1. t \in Vert /\ pc[t] = "pop" /\ startVert[t] \in Vert /\ Ahead(t) = {}
  BY LeavesFacts DEF CloseRoot, Types
<1>2. seenFirst[t] /\ OnItsArc(t) /\ vert2tree[startVert[t]] = IsNode
  BY <1>1, RootSeen DEF OnItsArc, GInv, Arcs, ArcOf
<1>3. cur[t] \in Vert /\ vert2tree[cur[t]] # Null /\ lastVisited[startVert[t]] = cur[t]
  BY RootSettled
<1>4. /\ pc' = [pc EXCEPT ![t] = "stopped"]
      /\ verticesSeen' = [verticesSeen EXCEPT
                             ![startVert[t]] = verticesSeen[startVert[t]] - 1]
      /\ vert2tree' = [vert2tree EXCEPT ![cur[t]] = IsNode]
  BY <1>3 DEF CloseRoot, Goto
<1> QED BY <1>1, <1>2, <1>3, <1>4, VertFacts

(* The node at a saddle.                                                   *)
LEMMA NodeFacts ==
    ASSUME Types, GInv, OpenedNodes, NEW t \in Leaves, OpenNode(t)
    PROVE  /\ t \in Vert /\ cur[t] \in Vert /\ ufs[cur[t]] # Null
           /\ ~isLast[t] => /\ vert2tree' = vert2tree /\ ~OnArc(cur[t])
                            /\ pc' = [pc EXCEPT ![t] = "retire"]
           /\ isLast[t] => /\ vert2tree[cur[t]] = Null /\ valences[cur[t]] = 0
                           /\ vert2tree' = [vert2tree EXCEPT ![cur[t]] = IsNode]
                           /\ pc' = [pc EXCEPT ![t] = "merge"]
<1>1. /\ t \in Vert /\ pc[t] = "open" /\ Captured(t)
      /\ ~isLast[t] => vert2tree' = vert2tree /\ pc' = [pc EXCEPT ![t] = "retire"]
      /\ isLast[t] => /\ vert2tree' = [vert2tree EXCEPT ![cur[t]] = IsNode]
                      /\ pc' = [pc EXCEPT ![t] = "merge"]
  BY LeavesFacts DEF OpenNode, Captured, Goto
<1>2. CASE Absorbed(t)
  <2>1. Parked(t) /\ vert2tree[cur[t]] # Null /\ ~isLast[t]
    BY <1>2 DEF Absorbed, Parked
  <2>2. cur[t] \in Vert /\ \E n \in Lower(cur[t]) : Belongs(n, Rep(t))
    BY <2>1 DEF GInv, AtSaddle, SaddleOf
  <2>3. ufs[cur[t]] # Null
    BY <2>1, <2>2 DEF GInv, LowerClosed
  <2>4. ~OnArc(cur[t])
    BY <2>1 DEF OpenedNodes
  <2> QED BY <1>1, <2>1, <2>2, <2>3, <2>4
<1>3. CASE ~Absorbed(t)
  <2>1. cur[t] \in Vert /\ ufs[cur[t]] # Null /\ isSaddle[t]
    BY <1>1, <1>3 DEF GInv, Visits, VisitOf
  <2>2. ~isLast[t] => ~OnArc(cur[t])
    BY <1>1, <2>1 DEF OpenedNodes, Parked
  <2>3. isLast[t] => vert2tree[cur[t]] = Null /\ valences[cur[t]] = 0
    <3> SUFFICES ASSUME isLast[t] PROVE vert2tree[cur[t]] = Null /\ valences[cur[t]] = 0
      OBVIOUS
    <3>1. Claims(t)
      BY <1>1, <2>1 DEF Claims
    <3> QED BY <3>1, ClaimFacts DEF GInv, Counts
  <2> QED BY <1>1, <2>1, <2>2, <2>3
<1> QED BY <1>2, <1>3
-------------------------------------------------------------------------------
(* What a step may change of the arcs and their vertices: one is opened by *)
(* Start, a vertex gets its place by Visit, is put on an arc by Publish    *)
(* and taken off it again by CloseRoot.                                    *)
TreeChange(t) ==
    \A v \in Vert : \/ vert2tree'[v] = vert2tree[v]
                    \/ /\ Publish(t) /\ ~isSaddle[t] /\ v = cur[t] /\ v # startVert[t]
                       /\ vert2tree[v] = Null /\ vert2tree'[v] = startVert[t]
                    \/ /\ OpenNode(t) /\ isLast[t] /\ v = cur[t]
                       /\ vert2tree[v] = Null /\ vert2tree'[v] = IsNode
                    \/ /\ CloseRoot(t) /\ v = cur[t] /\ v # startVert[t]
                       /\ vert2tree[v] = startVert[t] /\ vert2tree'[v] = IsNode
OrderChange(t) ==
    \A v \in Vert : \/ visitOrder'[v] = visitOrder[v]
                    \/ /\ Visit(t) /\ v = cur'[t] /\ visitOrder'[v] = localOrder[t]
                       /\ ~OnArc(v)
SeenChange(t) ==
    \A a \in Vert : \/ verticesSeen'[a] = verticesSeen[a]
                    \/ /\ Publish(t) /\ ~isSaddle[t] /\ a = startVert[t]
                       /\ verticesSeen'[a] = verticesSeen[a] + 1
                    \/ /\ CloseRoot(t) /\ a = startVert[t]
                       /\ verticesSeen'[a] = verticesSeen[a] - 1
UpChange(t) ==
    \A a \in Vert : \/ nbUp'[a] = nbUp[a]
                    \/ Start(t) /\ a = startVert[t] /\ nbUp'[a] = nbUp[a] + 1
ValenceChange(t) ==
    \A v \in Vert : \/ valences'[v] = valences[v]
                    \/ /\ Capture(t) /\ v = cur[t]
                       /\ valences'[v] = valences[v] - decr[t]
ArcChange(t) == /\ TreeChange(t) /\ OrderChange(t) /\ SeenChange(t)
                /\ UpChange(t) /\ ValenceChange(t)

LEMMA ArcStep ==
    ASSUME Types, GInv, TreeTypes, ArcInv, NEW t \in Leaves, TaskStep(t)
    PROVE  ArcChange(t)
<1>0. /\ vert2tree \in [Vert -> Vert \cup {Null, IsNode}] /\ valences \in [Vert -> Int]
      /\ visitOrder \in [Vert -> {NoOrder} \cup (-1)..N]
      /\ verticesSeen \in [Vert -> Int] /\ nbUp \in [Vert -> Int] /\ t \in Vert
  BY LeavesFacts DEF Types, TreeTypes
<1>1. ASSUME \/ OnlyLeaf(t) \/ Launch(t) \/ Retire(t)
             \/ \E n \in Vert : MergeNeighbor(t, n)
             \/ CloseArcs(t) \/ Restart(t)
      PROVE  ArcChange(t)
  <2>1. UNCHANGED <<vert2tree, visitOrder, verticesSeen, nbUp, valences>>
    BY <1>1 DEF OnlyLeaf, Launch, Retire, MergeNeighbor, CloseArcs, Restart, segmVars, treeVars
  <2> QED BY <2>1 DEF ArcChange, TreeChange, OrderChange, SeenChange, UpChange,
                               ValenceChange
<1>2. CASE Start(t)
  <2>1. /\ UNCHANGED <<vert2tree, visitOrder, verticesSeen, valences>>
        /\ nbUp' = [nbUp EXCEPT ![startVert[t]] = @ + 1]
    BY <1>2 DEF Start, segmVars
  <2> QED BY <1>0, <1>2, <2>1 DEF ArcChange, TreeChange, OrderChange, SeenChange, UpChange,
                               ValenceChange
<1>3. CASE Capture(t)
  <2>1. /\ UNCHANGED <<vert2tree, visitOrder, verticesSeen, nbUp>>
        /\ valences' = [valences EXCEPT ![cur[t]] = @ - decr[t]]
    BY <1>3 DEF Capture, CaptureWith, segmVars, treeVars
  <2> QED BY <1>0, <1>3, <2>1 DEF ArcChange, TreeChange, OrderChange, SeenChange, UpChange,
                               ValenceChange
<1>4. CASE Visit(t)
  <2>1. UNCHANGED <<vert2tree, verticesSeen, nbUp, valences>>
    BY <1>4 DEF Visit, treeVars
  <2> DEFINE v == Min(Ahead(t))
  <2>2. /\ v \in Vert /\ vert2tree[v] \in {Null, IsNode}
        /\ visitOrder' = [visitOrder EXCEPT ![v] = localOrder[t]]
        /\ cur' = [cur EXCEPT ![t] = v]
    <3> HIDE DEF v
    <3> QED BY <1>4, VisitFacts DEF v
  <2> HIDE DEF v
  <2>3. cur'[t] = v
    BY <1>0, <2>2 DEF Types
  <2> QED BY <1>0, <1>4, <2>1, <2>2, <2>3 DEF ArcChange, TreeChange, OrderChange, SeenChange, UpChange,
                               ValenceChange, OnArc
<1>5. CASE Publish(t)
  <2>1. UNCHANGED <<visitOrder, nbUp, valences>>
    BY <1>5 DEF Publish, treeVars
  <2>2. CASE isSaddle[t]
    <3>1. UNCHANGED <<vert2tree, verticesSeen>>
      BY <1>5, <2>2 DEF Publish
    <3> QED BY <2>1, <3>1 DEF ArcChange, TreeChange, OrderChange, SeenChange, UpChange,
                               ValenceChange
  <2>3. CASE ~isSaddle[t]
    <3> DEFINE a == startVert[t]
               v == cur[t]
    <3>1. /\ v \in Vert /\ a \in Vert
          /\ verticesSeen' = [verticesSeen EXCEPT ![a] = verticesSeen[a] + 1]
          /\ v = a => vert2tree' = vert2tree
          /\ v # a => /\ vert2tree[v] = Null
                      /\ vert2tree' = [vert2tree EXCEPT ![v] = a]
      BY <1>5, <2>3, PublishFacts
    <3> QED BY <1>0, <1>5, <2>1, <2>3, <3>1 DEF ArcChange, TreeChange, OrderChange, SeenChange, UpChange,
                               ValenceChange
  <2> QED BY <2>2, <2>3
<1>6. CASE OpenNode(t)
  <2>1. UNCHANGED <<visitOrder, verticesSeen, nbUp, valences>>
    BY <1>6 DEF OpenNode
  <2>2. /\ cur[t] \in Vert
        /\ ~isLast[t] => vert2tree' = vert2tree
        /\ isLast[t] => /\ vert2tree[cur[t]] = Null
                        /\ vert2tree' = [vert2tree EXCEPT ![cur[t]] = IsNode]
    BY <1>6, NodeFacts DEF ArcInv
  <2> QED BY <1>0, <1>6, <2>1, <2>2 DEF ArcChange, TreeChange, OrderChange, SeenChange, UpChange,
                               ValenceChange
<1>7. CASE CloseRoot(t)
  <2>1. UNCHANGED <<visitOrder, nbUp, valences>>
    BY <1>7 DEF CloseRoot
  <2> DEFINE a == startVert[t]
             v == cur[t]
  <2>2. /\ v \in Vert /\ a \in Vert /\ pc[t] = "pop" /\ seenFirst[t]
        /\ vert2tree[a] = IsNode
        /\ verticesSeen' = [verticesSeen EXCEPT ![a] = verticesSeen[a] - 1]
        /\ vert2tree' = [vert2tree EXCEPT ![v] = IsNode]
    BY <1>7, RootFacts
  <2>3. v # a => vert2tree[v] = a
    BY <2>2 DEF ArcInv, Grows, GrowsOf
  <2> QED BY <1>0, <1>7, <2>1, <2>2, <2>3 DEF ArcChange, TreeChange, OrderChange, SeenChange, UpChange,
                               ValenceChange
<1> QED BY <1>1, <1>2, <1>3, <1>4, <1>5, <1>6, <1>7 DEF TaskStep

(* Hence the regular vertices of an arc: Publish adds one, CloseRoot takes *)
(* it away.                                                                *)
LEMMA RegularStep ==
    ASSUME Types, GInv, TreeTypes, ArcInv, NEW t \in Leaves, ArcChange(t), NEW a \in Vert
    PROVE  LET v == cur[t] IN
           \/ /\ Regular(a)' = Regular(a)
              /\ \A x \in Regular(a) : visitOrder'[x] = visitOrder[x]
              /\ \/ verticesSeen'[a] = verticesSeen[a]
                 \/ a = startVert[t] /\ v = a
           \/ /\ Publish(t) /\ ~isSaddle[t] /\ a = startVert[t] /\ v # a
              /\ v \in Vert /\ v \notin Regular(a) /\ Regular(a)' = Regular(a) \cup {v}
              /\ \A x \in Vert : visitOrder'[x] = visitOrder[x]
              /\ verticesSeen'[a] = verticesSeen[a] + 1
           \/ /\ CloseRoot(t) /\ a = startVert[t] /\ v # a
              /\ v \in Regular(a) /\ Regular(a)' = Regular(a) \ {v}
              /\ \A x \in Vert : visitOrder'[x] = visitOrder[x]
              /\ verticesSeen'[a] = verticesSeen[a] - 1
<1>0. a # Null /\ a # IsNode /\ startVert[t] # Null /\ startVert[t] # IsNode
  BY VertFacts, LeavesFacts DEF Types
<1>t. /\ vert2tree \in [Vert -> Vert \cup {Null, IsNode}] /\ startVert[t] \in Vert
      /\ verticesSeen \in [Vert -> Int]
  BY LeavesFacts DEF Types, TreeTypes
<1>c. TreeChange(t) /\ OrderChange(t) /\ SeenChange(t)
  BY DEF ArcChange
<1>1. CASE Publish(t) /\ ~isSaddle[t]
  <2>1. /\ visitOrder' = visitOrder /\ ~Visit(t) /\ ~CloseRoot(t) /\ ~OpenNode(t)
    BY <1>1 DEF Publish, Visit, CloseRoot, OpenNode
  <2>2. cur[t] \in Vert /\ (cur[t] # startVert[t] =>
            vert2tree[cur[t]] = Null /\ vert2tree'[cur[t]] = startVert[t])
        /\ verticesSeen'[startVert[t]] = verticesSeen[startVert[t]] + 1
    <3>1. /\ verticesSeen' = [verticesSeen EXCEPT
                                  ![startVert[t]] = verticesSeen[startVert[t]] + 1]
          /\ cur[t] # startVert[t] =>
                vert2tree' = [vert2tree EXCEPT ![cur[t]] = startVert[t]]
      BY <1>1, PublishFacts
    <3>2. /\ cur[t] \in Vert /\ startVert[t] \in Vert
          /\ cur[t] # startVert[t] => vert2tree[cur[t]] = Null
      BY <1>1, PublishFacts
    <3> QED BY <1>t, <3>1, <3>2
  <2>3. \A x \in Vert : \/ vert2tree'[x] = vert2tree[x]
                        \/ x = cur[t] /\ x # startVert[t]
    BY <1>c, <2>1 DEF TreeChange
  <2>4. a # startVert[t] \/ cur[t] = a => Regular(a)' = Regular(a)
    BY <1>0, <2>2, <2>3 DEF Regular
  <2>5. a = startVert[t] /\ cur[t] # a =>
            cur[t] \notin Regular(a) /\ Regular(a)' = Regular(a) \cup {cur[t]}
    BY <1>0, <2>2, <2>3 DEF Regular
  <2>6. a # startVert[t] => verticesSeen'[a] = verticesSeen[a]
    BY <1>c, <2>1 DEF SeenChange
  <2> QED BY <1>1, <2>1, <2>2, <2>4, <2>5, <2>6
<1>2. CASE CloseRoot(t)
  <2>1. /\ visitOrder' = visitOrder /\ ~Visit(t) /\ ~Publish(t) /\ ~OpenNode(t)
    BY <1>2 DEF Publish, Visit, CloseRoot, OpenNode
  <2>2. /\ cur[t] \in Vert /\ vert2tree'[cur[t]] = IsNode
        /\ verticesSeen'[startVert[t]] = verticesSeen[startVert[t]] - 1
    <3>1. /\ cur[t] \in Vert /\ startVert[t] \in Vert
          /\ verticesSeen' = [verticesSeen EXCEPT
                                  ![startVert[t]] = verticesSeen[startVert[t]] - 1]
          /\ vert2tree' = [vert2tree EXCEPT ![cur[t]] = IsNode]
      BY <1>2, RootFacts
    <3> QED BY <1>t, <3>1
  <2>3. \A x \in Vert : \/ vert2tree'[x] = vert2tree[x]
                        \/ x = cur[t] /\ x # startVert[t] /\ vert2tree[x] = startVert[t]
    BY <1>c, <2>1 DEF TreeChange
  <2>4. a # startVert[t] \/ cur[t] = a => Regular(a)' = Regular(a)
    BY <1>0, <2>2, <2>3 DEF Regular
  <2>5. a = startVert[t] /\ cur[t] # a =>
            cur[t] \in Regular(a) /\ Regular(a)' = Regular(a) \ {cur[t]}
    <3>0. SUFFICES ASSUME a = startVert[t], cur[t] # a
                  PROVE  cur[t] \in Regular(a) /\ Regular(a)' = Regular(a) \ {cur[t]}
      OBVIOUS
    <3>1. vert2tree[cur[t]] = a
      <4>1. pc[t] = "pop" /\ seenFirst[t] /\ GrowsOf(t)
        BY <1>2, RootFacts DEF ArcInv, Grows
      <4> QED BY <3>0, <4>1 DEF GrowsOf
    <3> QED BY <1>0, <2>2, <2>3, <3>1 DEF Regular
  <2>6. a # startVert[t] => verticesSeen'[a] = verticesSeen[a]
    BY <1>c, <2>1 DEF SeenChange
  <2> QED BY <1>2, <2>1, <2>2, <2>4, <2>5, <2>6
<1>3. CASE ~(Publish(t) /\ ~isSaddle[t]) /\ ~CloseRoot(t)
  <2>1. \A x \in Vert : \/ vert2tree'[x] = vert2tree[x]
                        \/ vert2tree[x] = Null /\ vert2tree'[x] = IsNode
    BY <1>c, <1>3 DEF TreeChange
  <2>2. Regular(a)' = Regular(a)
    BY <1>0, <2>1 DEF Regular
  <2>3. \A x \in Regular(a) : visitOrder'[x] = visitOrder[x]
    BY <1>0, <1>c DEF OrderChange, OnArc, Regular
  <2>4. verticesSeen'[a] = verticesSeen[a]
    BY <1>c, <1>3 DEF SeenChange
  <2> QED BY <2>2, <2>3, <2>4
<1> QED BY <1>1, <1>2, <1>3

(* The places of the vertices of an arc are filled without a gap.          *)
LEMMA PlacedStep ==
    ASSUME Types, GInv, TreeTypes, ArcInv, NEW t \in Leaves, TaskStep(t), NEW a \in Vert
    PROVE  PlacedOf(a)'
<1> DEFINE R == Regular(a)
           k == Cardinality(R)
           v == cur[t]
<1>1. /\ {visitOrder[x] : x \in R} = 0..(k - 1)
      /\ \A x, y \in R : visitOrder[x] = visitOrder[y] => x = y
      /\ verticesSeen[a] = k + 1 \/ (R = {} /\ verticesSeen[a] = 0)
  BY DEF ArcInv, Placed, PlacedOf
<1>2. IsFiniteSet(R) /\ k \in Nat /\ R \subseteq Vert
  BY RegularFacts
<1>3. ArcChange(t) /\ GrowsOf(t) /\ t \in Vert
  BY ArcStep, LeavesFacts DEF ArcInv, Grows
<1>4. CASE /\ R' = R /\ \A x \in R : visitOrder'[x] = visitOrder[x]
           /\ verticesSeen'[a] = verticesSeen[a]
  <2>1. {visitOrder'[x] : x \in R} = {visitOrder[x] : x \in R}
    BY <1>4
  <2> QED BY <1>1, <1>4, <2>1 DEF PlacedOf
<1>5. CASE /\ R' = R /\ \A x \in R : visitOrder'[x] = visitOrder[x]
           /\ verticesSeen'[a] # verticesSeen[a]
           /\ a = startVert[t] /\ v = a
  <2>1. SeenChange(t)
    BY <1>3 DEF ArcChange
  <2>2. R = {} /\ (verticesSeen'[a] = 0 \/ verticesSeen'[a] = 1)
    <3>1. CASE Publish(t) /\ ~isSaddle[t] /\ verticesSeen'[a] = verticesSeen[a] + 1
      <4>1. pc[t] = "publish"
        BY <3>1 DEF Publish
      <4> QED BY <1>3, <1>5, <3>1, <4>1 DEF GrowsOf
    <3>2. CASE CloseRoot(t) /\ verticesSeen'[a] = verticesSeen[a] - 1
      <4>1. pc[t] = "pop" /\ seenFirst[t]
        BY <3>2, RootFacts
      <4>2. R = {} /\ verticesSeen[a] = k + 1
        BY <1>3, <1>5, <4>1 DEF GrowsOf
      <4> QED BY <3>2, <4>2, FS_EmptySet
    <3> QED BY <1>5, <2>1, <3>1, <3>2 DEF SeenChange
  <2>3. R' = {}
    BY <1>5, <2>2
  <2>4. Cardinality({}) = 0
    BY FS_EmptySet
  <2>5. Regular(a)' = {}
    BY <2>3
  <2> HIDE DEF R
  <2>6. {visitOrder'[x] : x \in {}} = 0..(0 - 1)
    OBVIOUS
  <2> QED BY <2>2, <2>4, <2>5, <2>6 DEF PlacedOf
<1>6. CASE /\ Publish(t) /\ ~isSaddle[t] /\ a = startVert[t] /\ v # a
           /\ v \in Vert /\ v \notin R /\ R' = R \cup {v}
           /\ \A x \in Vert : visitOrder'[x] = visitOrder[x]
           /\ verticesSeen'[a] = verticesSeen[a] + 1
  <2>1. pc[t] = "publish"
    BY <1>6 DEF Publish
  <2>2. verticesSeen[a] = k + 1 /\ visitOrder[v] = k
    BY <1>3, <1>6, <2>1 DEF GrowsOf
  <2>3. /\ {visitOrder[x] : x \in R \cup {v}} = 0..k
        /\ \A x, y \in R \cup {v} : visitOrder[x] = visitOrder[y] => x = y
    <3> HIDE DEF R, k, v
    <3>1. \A x \in R : visitOrder[x] \in 0..(k - 1)
      BY <1>1
    <3>2. 0..k = (0..(k - 1)) \cup {k} /\ k \notin 0..(k - 1)
      BY <1>2
    <3>3. {visitOrder[x] : x \in R \cup {v}} = {visitOrder[x] : x \in R} \cup {visitOrder[v]}
      OBVIOUS
    <3>4. ASSUME NEW x \in R \cup {v}, NEW y \in R \cup {v}, visitOrder[x] = visitOrder[y]
          PROVE  x = y
      BY <1>1, <2>2, <3>1, <3>2, <3>4
    <3> QED BY <1>1, <2>2, <3>2, <3>3, <3>4
  <2>4. Cardinality(R \cup {v}) = k + 1
    BY <1>2, <1>6, FS_AddElement
  <2>5. {visitOrder'[x] : x \in R \cup {v}} = {visitOrder[x] : x \in R \cup {v}}
    BY <1>2, <1>6
  <2>6. Regular(a)' = R \cup {v}
    BY <1>6
  <2> HIDE DEF R, v
  <2>7. /\ {visitOrder'[x] : x \in R \cup {v}} = 0..((k + 1) - 1)
        /\ \A x, y \in R \cup {v} : visitOrder'[x] = visitOrder'[y] => x = y
        /\ verticesSeen'[a] = (k + 1) + 1
    BY <1>2, <1>6, <2>2, <2>3, <2>5
  <2> HIDE DEF k
  <2> QED BY <2>4, <2>6, <2>7 DEF PlacedOf
<1>7. CASE /\ CloseRoot(t) /\ a = startVert[t] /\ v # a
           /\ v \in R /\ R' = R \ {v}
           /\ \A x \in Vert : visitOrder'[x] = visitOrder[x]
           /\ verticesSeen'[a] = verticesSeen[a] - 1
  <2>1. pc[t] = "pop" /\ seenFirst[t]
    BY <1>7, RootFacts
  <2>2. verticesSeen[a] = k + 1 /\ visitOrder[v] = k - 1
    BY <1>3, <1>7, <2>1 DEF GrowsOf
  <2>3. /\ {visitOrder[x] : x \in R \ {v}} = 0..(k - 2)
        /\ \A x, y \in R \ {v} : visitOrder[x] = visitOrder[y] => x = y
    <3> HIDE DEF R, k, v
    <3>1. \A x \in R \ {v} : visitOrder[x] \in 0..(k - 1) /\ visitOrder[x] # k - 1
      BY <1>1, <1>7, <2>2
    <3>2. ASSUME NEW i \in 0..(k - 2) PROVE \E x \in R \ {v} : visitOrder[x] = i
      <4>1. i \in 0..(k - 1) /\ i # k - 1
        BY <1>2
      <4>2. PICK x \in R : visitOrder[x] = i
        BY <1>1, <4>1
      <4> QED BY <2>2, <4>1, <4>2
    <3>3. \A x \in R \ {v} : visitOrder[x] \in 0..(k - 2)
      BY <1>2, <3>1
    <3> QED BY <1>1, <3>2, <3>3
  <2>4. Cardinality(R \ {v}) = k - 1
    BY <1>2, <1>7, FS_RemoveElement
  <2>5. {visitOrder'[x] : x \in R \ {v}} = {visitOrder[x] : x \in R \ {v}}
    BY <1>2, <1>7
  <2>6. Regular(a)' = R \ {v}
    BY <1>7
  <2> HIDE DEF R, v
  <2>7. /\ {visitOrder'[x] : x \in R \ {v}} = 0..((k - 1) - 1)
        /\ \A x, y \in R \ {v} : visitOrder'[x] = visitOrder'[y] => x = y
        /\ verticesSeen'[a] = (k - 1) + 1
    BY <1>2, <1>7, <2>2, <2>3, <2>5
  <2> HIDE DEF k
  <2> QED BY <2>4, <2>6, <2>7 DEF PlacedOf
<1>8. \/ /\ R' = R /\ \A x \in R : visitOrder'[x] = visitOrder[x]
         /\ verticesSeen'[a] = verticesSeen[a] \/ (a = startVert[t] /\ v = a)
      \/ /\ Publish(t) /\ ~isSaddle[t] /\ a = startVert[t] /\ v # a
         /\ v \in Vert /\ v \notin R /\ R' = R \cup {v}
         /\ \A x \in Vert : visitOrder'[x] = visitOrder[x]
         /\ verticesSeen'[a] = verticesSeen[a] + 1
      \/ /\ CloseRoot(t) /\ a = startVert[t] /\ v # a
         /\ v \in R /\ R' = R \ {v}
         /\ \A x \in Vert : visitOrder'[x] = visitOrder[x]
         /\ verticesSeen'[a] = verticesSeen[a] - 1
  BY <1>3, RegularStep
<1> QED BY <1>4, <1>5, <1>6, <1>7, <1>8

(* The place the next vertex of an arc gets is the task's own.             *)
LEMMA LocalsFrame ==
    ASSUME Types, GInv, TreeTypes, NEW t \in Leaves, TaskStep(t), NEW o \in Vert, o # t
    PROVE  seenFirst'[o] = seenFirst[o] /\ localOrder'[o] = localOrder[o]
<1>0. t \in Vert /\ seenFirst \in [Vert -> BOOLEAN] /\ localOrder \in [Vert -> (-1)..N]
  BY LeavesFacts DEF Types, TreeTypes
<1>1. CASE Start(t)
  BY <1>0, <1>1 DEF Start
<1>2. CASE Visit(t)
  <2>1. /\ localOrder' = [localOrder EXCEPT ![t] = localOrder[t] + 1]
        /\ seenFirst' = [seenFirst EXCEPT ![t] = seenFirst[t] \/ Min(Ahead(t)) = startVert[t]]
    BY <1>2, VisitFacts
  <2> QED BY <1>0, <2>1
<1>3. CASE ~Start(t) /\ ~Visit(t)
  <2>1. UNCHANGED <<seenFirst, localOrder>>
    BY <1>3 DEF TaskStep, OnlyLeaf, Launch, Capture, CaptureWith, Publish, OpenNode, Retire,
                MergeNeighbor, CloseArcs, Restart, CloseRoot, callVars
  <2> QED BY <2>1
<1> QED BY <1>1, <1>2, <1>3

(* A node stays a node.                                                    *)
LEMMA NodesStay ==
    ASSUME Types, NEW t \in Leaves, ArcChange(t), NEW v \in Vert, vert2tree[v] = IsNode
    PROVE  vert2tree'[v] = IsNode
<1>1. IsNode # Null /\ startVert[t] # IsNode
  BY VertFacts, LeavesFacts DEF Types
<1> QED BY <1>1 DEF ArcChange, TreeChange

(* Where an arc starts no vertex is put on an arc, and no valence changes  *)
(* but by the task of the arc.                                             *)
LEMMA AnchorValence ==
    ASSUME Types, GInv, NEW t \in Leaves, ArcChange(t),
           NEW o \in Leaves, o # t, Anchored(o)
    PROVE  valences'[Anchor(o)] = valences[Anchor(o)]
<1>1. Anchor(o) \in Vert /\ vert2tree[Anchor(o)] = IsNode /\ IsNode # Null
  BY AnchorFacts, VertFacts
<1>2. ASSUME Capture(t), Anchor(o) = cur[t] PROVE FALSE
  <2>1. pc[t] = "capture" /\ Anchored(t) /\ Anchor(t) = startVert[t] /\ ~Absorbed(t)
    BY <1>2 DEF Capture, CaptureWith, Anchored, OnItsArc, Anchor, Absorbed, Parked
  <2>2. cur[t] = startVert[t] \/ vert2tree[cur[t]] = Null
    BY <2>1 DEF GInv, Visits, VisitOf
  <2> QED BY <1>1, <1>2, <2>1, <2>2, AnchorsApart
<1> QED BY <1>1, <1>2 DEF ArcChange, ValenceChange

(* Nor does another task open the arc or count its vertices.               *)
LEMMA AnchorArc ==
    ASSUME Types, GInv, TreeTypes, ArcInv, NEW t \in Leaves, ArcChange(t),
           NEW o \in Leaves, o # t, Anchored(o), NEW a \in Vert, a = Anchor(o)
    PROVE  /\ nbUp'[a] = nbUp[a]
           /\ Regular(a)' = Regular(a) /\ verticesSeen'[a] = verticesSeen[a]
           /\ \A x \in Regular(a) : visitOrder'[x] = visitOrder[x]
<1>2. ASSUME Start(t) \/ (Publish(t) /\ ~isSaddle[t]) \/ CloseRoot(t)
      PROVE  Anchored(t) /\ Anchor(t) = startVert[t]
  <2>1. pc[t] \in {"start", "publish", "pop"} /\ (pc[t] = "publish" => ~isSaddle[t])
    BY <1>2 DEF Start, Publish, CloseRoot
  <2> QED BY <2>1 DEF Anchored, Anchor, OnItsArc
<1>3. Start(t) \/ (Publish(t) /\ ~isSaddle[t]) \/ CloseRoot(t) => a # startVert[t]
  BY <1>2, AnchorsApart
<1>4. nbUp'[a] = nbUp[a]
  BY <1>3 DEF ArcChange, UpChange
<1>5. verticesSeen'[a] = verticesSeen[a]
  BY <1>3 DEF ArcChange, SeenChange
<1>6. /\ Regular(a)' = Regular(a)
      /\ \A x \in Regular(a) : visitOrder'[x] = visitOrder[x]
  BY <1>3, RegularStep
<1> QED BY <1>4, <1>5, <1>6

(* Each arc is opened once, before anything is put on it.                  *)
LEMMA OpeningStep ==
    ASSUME Types, GInv, TreeTypes, ArcInv, NEW t \in Leaves, TaskStep(t), NEW a \in Vert
    PROVE  OpenedOf(a)'
<1>1. OpenedOf(a) /\ ArcChange(t)
  BY ArcStep DEF ArcInv, Opening
<1>2. vert2tree'[a] # IsNode => vert2tree[a] # IsNode
  BY <1>1, NodesStay
<1>3. CASE nbUp'[a] = nbUp[a]
  <2>1. ASSUME nbUp[a] = 0 PROVE Regular(a)' = Regular(a) /\ verticesSeen'[a] = verticesSeen[a]
    <3>1. ASSUME (Publish(t) /\ ~isSaddle[t]) \/ CloseRoot(t), a = startVert[t] PROVE FALSE
      <4>1. OnItsArc(t)
        BY <3>1, PublishFacts, RootFacts
      <4> QED BY <2>1, <3>1, <4>1 DEF ArcInv, Grows, GrowsOf
    <3>2. verticesSeen'[a] = verticesSeen[a]
      BY <1>1, <3>1 DEF ArcChange, SeenChange
    <3> QED BY <1>1, <3>1, <3>2, RegularStep
  <2> QED BY <1>1, <1>2, <1>3, <2>1 DEF OpenedOf
<1>4. CASE Start(t) /\ a = startVert[t] /\ nbUp'[a] = nbUp[a] + 1
  <2>1. pc[t] = "start" /\ Anchor(t) = a /\ vert2tree[a] = IsNode
    BY <1>4 DEF Start, Anchor, GInv, Arcs, ArcOf
  <2>2. nbUp[a] = 0
    BY <2>1 DEF ArcInv, Fresh, FreshOf
  <2> QED BY <1>1, <1>2, <1>4, <2>1, <2>2 DEF OpenedOf
<1> QED BY <1>1, <1>3, <1>4 DEF ArcChange, UpChange

(* The task that works on an arc counts its vertices: another task's step  *)
(* leaves the count alone,                                                 *)
LEMMA OthersGrow ==
    ASSUME Types, GInv, TreeTypes, ArcInv, NEW t \in Leaves, TaskStep(t),
           NEW o \in Leaves, o # t
    PROVE  GrowsOf(o)'
<1>0. t \in Vert /\ o \in Vert /\ GrowsOf(o) /\ ArcChange(t) /\ startVert[o] \in Vert
  BY LeavesFacts, ArcStep DEF ArcInv, Grows, Types
<1>1. /\ pc'[o] = pc[o] /\ cur'[o] = cur[o] /\ isSaddle'[o] = isSaddle[o]
      /\ startVert'[o] = startVert[o]
      /\ seenFirst'[o] = seenFirst[o] /\ localOrder'[o] = localOrder[o]
  BY <1>0, StepFrame, LocalsFrame
<1>2. OnItsArc(o)' = OnItsArc(o)
  BY <1>1 DEF OnItsArc
<1>3. CASE ~OnItsArc(o)
  <2>1. pc[o] \notin {"pop", "capture"} /\ (pc[o] = "publish" => isSaddle[o])
    BY <1>3 DEF OnItsArc
  <2> QED BY <1>1, <1>2, <1>3, <2>1 DEF GrowsOf
<1>4. CASE OnItsArc(o)
  <2>0. PICK a \in Vert : a = startVert[o]
    BY <1>0
  <2>1. Anchor(o) = a /\ Anchored(o)
    BY <1>4, <2>0 DEF Anchor, Anchored, OnItsArc
  <2>2. /\ nbUp'[a] = nbUp[a] /\ Regular(a)' = Regular(a)
        /\ verticesSeen'[a] = verticesSeen[a]
        /\ \A x \in Regular(a) : visitOrder'[x] = visitOrder[x]
    BY <1>0, <2>1, AnchorArc
  <2>3. ASSUME pc[o] = "pop", seenFirst[o], cur[o] # a
        PROVE  vert2tree'[cur[o]] = a /\ visitOrder'[cur[o]] = visitOrder[cur[o]]
    <3>1. cur[o] \in Vert /\ vert2tree[cur[o]] = a
      BY <1>0, <2>0, <2>3 DEF GrowsOf, GInv, Arcs, ArcOf
    <3>2. cur[o] \in Regular(a)
      BY <3>1 DEF Regular
    <3>3. cur[o] \in Regular(a)'
      BY <2>2, <3>2
    <3> QED BY <2>2, <3>2, <3>3 DEF Regular
  <2>4. ASSUME pc[o] \in {"capture", "publish"}, ~isSaddle[o], cur[o] # a
        PROVE  visitOrder'[cur[o]] = visitOrder[cur[o]]
    <3>1. ~Absorbed(o) /\ (pc[o] = "capture" \/ Captured(o))
      BY <2>4 DEF Absorbed, Parked, Captured
    <3>2. cur[o] \in Vert /\ vert2tree[cur[o]] = Null
      BY <2>0, <2>4, <3>1 DEF GInv, Visits, VisitOf
    <3> SUFFICES ASSUME Visit(t), cur[o] = cur'[t] PROVE FALSE
      BY <1>0, <3>2 DEF ArcChange, OrderChange
    <3>3. cur'[t] = Min(Ahead(t))
      <4>1. cur' = [cur EXCEPT ![t] = Min(Ahead(t))]
        BY VisitFacts
      <4> QED BY <1>0, <4>1 DEF Types
    <3>4. seenFirst[t] => isSaddle[o]
      BY <2>4, <3>3, VisitFacts
    <3>5. ~seenFirst[t] => vert2tree[cur[o]] = IsNode
      BY <3>3, VisitFacts
    <3> QED BY <2>4, <3>2, <3>4, <3>5, VertFacts
  <2>5. Cardinality(Regular(a))' = Cardinality(Regular(a))
    BY <2>2
  <2>6. startVert'[o] = a
    BY <1>1, <2>0
  <2>7. pc[o] = "pop" =>
              IF seenFirst[o]
              THEN /\ localOrder[o] = Cardinality(Regular(a))
                   /\ verticesSeen[a] = Cardinality(Regular(a)) + 1
                   /\ IF cur[o] = a THEN Regular(a) = {}
                      ELSE /\ vert2tree[cur[o]] = a
                           /\ visitOrder[cur[o]] = Cardinality(Regular(a)) - 1
              ELSE localOrder[o] = -1 /\ Regular(a) = {} /\ verticesSeen[a] = 0
    BY <1>0, <2>0 DEF GrowsOf
  <2>8. pc[o] \in {"capture", "publish"} /\ ~isSaddle[o] =>
              IF cur[o] = a
              THEN localOrder[o] = 0 /\ Regular(a) = {} /\ verticesSeen[a] = 0
              ELSE /\ localOrder[o] = Cardinality(Regular(a)) + 1
                   /\ verticesSeen[a] = Cardinality(Regular(a)) + 1
                   /\ visitOrder[cur[o]] = Cardinality(Regular(a))
    BY <1>0, <2>0 DEF GrowsOf
  <2>9. nbUp[a] = 1
    BY <1>0, <1>4, <2>0 DEF GrowsOf
  <2> QED BY <1>1, <1>2, <2>2, <2>3, <2>4, <2>5, <2>6, <2>7, <2>8, <2>9 DEF GrowsOf
<1> QED BY <1>3, <1>4

(* its own step keeps it.                                                  *)
LEMMA OwnGrows ==
    ASSUME Types, GInv, TreeTypes, ArcInv, NEW t \in Leaves, TaskStep(t)
    PROVE  GrowsOf(t)'
<1>0. /\ t \in Vert /\ GrowsOf(t) /\ FreshOf(t) /\ ArcChange(t) /\ startVert[t] \in Vert
      /\ pc \in [Vert -> {"none", "waiting", "start", "pop", "capture", "publish",
                          "open", "retire", "merge", "decide", "stopped"}]
      /\ startVert \in [Vert -> Vert] /\ seenFirst \in [Vert -> BOOLEAN]
      /\ cur \in [Vert -> Vert \cup {Null}] /\ isSaddle \in [Vert -> BOOLEAN]
      /\ localOrder \in [Vert -> (-1)..N]
  BY LeavesFacts, ArcStep DEF ArcInv, Grows, Fresh, Types, TreeTypes
<1>1. PICK a \in Vert : a = startVert[t]
  BY <1>0
<1> DEFINE k == Cardinality(Regular(a))
<1>2. ASSUME ~Start(t), ~Visit(t), ~Capture(t), ~(Publish(t) /\ ~isSaddle[t])
      PROVE  pc'[t] \notin {"pop", "capture", "publish"}
  BY <1>0, <1>2 DEF TaskStep, OnlyLeaf, Launch, Publish, OpenNode, Retire, MergeNeighbor,
                    CloseArcs, Restart, CloseRoot, Goto
<1>3. ASSUME pc'[t] \notin {"pop", "capture", "publish"} PROVE GrowsOf(t)'
  BY <1>3 DEF GrowsOf, OnItsArc
<1>4. CASE Start(t)
  <2>1. /\ pc[t] = "start" /\ pc'[t] = "pop" /\ startVert' = startVert
        /\ ~seenFirst'[t] /\ localOrder'[t] = -1
        /\ nbUp' = [nbUp EXCEPT ![a] = @ + 1]
        /\ UNCHANGED <<vert2tree, verticesSeen>>
    BY <1>0, <1>1, <1>4 DEF Start, Goto, segmVars
  <2>2. nbUp[a] = 0
    BY <1>0, <1>1, <2>1 DEF FreshOf, Anchor
  <2>3. Regular(a) = {} /\ verticesSeen[a] = 0
    BY <2>2 DEF ArcInv, Opening, OpenedOf
  <2>4. Regular(a)' = {} /\ verticesSeen'[a] = 0
    BY <2>1, <2>3 DEF Regular
  <2>5. nbUp'[a] = 1
    BY <2>1, <2>2 DEF TreeTypes
  <2> QED BY <1>1, <2>1, <2>4, <2>5 DEF GrowsOf
<1>5. CASE Visit(t)
  <2>1. PICK v \in Vert : v = Min(Ahead(t))
    BY <1>5, VisitFacts
  <2>2. /\ pc[t] = "pop" /\ pc'[t] = "capture" /\ startVert' = startVert
        /\ cur'[t] = v /\ localOrder'[t] = localOrder[t] + 1
        /\ visitOrder'[v] = localOrder[t]
        /\ UNCHANGED <<vert2tree, verticesSeen, nbUp>>
        /\ ~seenFirst[t] => v = a
        /\ seenFirst[t] => v # a
    <3>1. /\ pc[t] = "pop"
          /\ visitOrder' = [visitOrder EXCEPT ![v] = localOrder[t]]
          /\ localOrder' = [localOrder EXCEPT ![t] = localOrder[t] + 1]
          /\ cur' = [cur EXCEPT ![t] = v]
          /\ pc' = [pc EXCEPT ![t] = "capture"]
          /\ ~seenFirst[t] => v = a
          /\ seenFirst[t] => v # a
      BY <1>1, <1>5, <2>1, VisitFacts
    <3>2. /\ startVert' = startVert /\ UNCHANGED <<vert2tree, verticesSeen, nbUp>>
      BY <1>5 DEF Visit, treeVars
    <3> QED BY <1>0, <3>1, <3>2 DEF TreeTypes
  <2>3. Regular(a)' = Regular(a)
    BY <2>2 DEF Regular
  <2>4. nbUp'[a] = 1
    BY <1>0, <1>1, <2>2 DEF GrowsOf, OnItsArc
  <2>5. CASE seenFirst[t]
    <3>1. localOrder[t] = k /\ verticesSeen[a] = k + 1
      BY <1>0, <1>1, <2>2, <2>5 DEF GrowsOf
    <3>2. localOrder'[t] = k + 1 /\ verticesSeen'[a] = k + 1 /\ visitOrder'[v] = k
      BY <2>2, <3>1
    <3> QED BY <1>1, <2>2, <2>3, <2>4, <2>5, <3>2 DEF GrowsOf
  <2>6. CASE ~seenFirst[t]
    <3>1. localOrder[t] = -1 /\ Regular(a) = {} /\ verticesSeen[a] = 0
      BY <1>0, <1>1, <2>2, <2>6 DEF GrowsOf
    <3>2. localOrder'[t] = 0 /\ Regular(a)' = {} /\ verticesSeen'[a] = 0
      BY <2>2, <2>3, <3>1
    <3> QED BY <1>1, <2>2, <2>4, <2>6, <3>2 DEF GrowsOf
  <2> QED BY <2>5, <2>6
<1>6. CASE Capture(t)
  <2>1. /\ pc[t] = "capture" /\ pc'[t] = "publish"
        /\ UNCHANGED <<startVert, cur, localOrder, isSaddle, vert2tree, verticesSeen, nbUp, visitOrder>>
    BY <1>0, <1>6 DEF Capture, CaptureWith, Goto, callVars, segmVars, treeVars
  <2>2. Regular(a)' = Regular(a)
    BY <2>1 DEF Regular
  <2>3. nbUp[a] = 1
    BY <1>0, <1>1, <2>1 DEF GrowsOf, OnItsArc
  <2>4. ~isSaddle[t] =>
              IF cur[t] = a
              THEN localOrder[t] = 0 /\ Regular(a) = {} /\ verticesSeen[a] = 0
              ELSE localOrder[t] = k + 1 /\ verticesSeen[a] = k + 1 /\ visitOrder[cur[t]] = k
    BY <1>0, <1>1, <2>1 DEF GrowsOf
  <2> QED BY <1>1, <2>1, <2>2, <2>3, <2>4 DEF GrowsOf
<1>7. CASE Publish(t) /\ ~isSaddle[t]
  <2>1. /\ pc[t] = "publish" /\ pc'[t] = "pop" /\ seenFirst[t] /\ cur[t] \in Vert
        /\ verticesSeen'[a] = verticesSeen[a] + 1
        /\ cur[t] = a => vert2tree' = vert2tree
        /\ cur[t] # a => vert2tree'[cur[t]] = a
        /\ UNCHANGED <<startVert, cur, localOrder, seenFirst, nbUp, visitOrder>>
    <3>1. /\ pc' = [pc EXCEPT ![t] = "pop"] /\ seenFirst[t] /\ cur[t] \in Vert
          /\ verticesSeen' = [verticesSeen EXCEPT ![a] = verticesSeen[a] + 1]
          /\ cur[t] = a => vert2tree' = vert2tree
          /\ cur[t] # a => vert2tree' = [vert2tree EXCEPT ![cur[t]] = a]
      BY <1>1, <1>7, PublishFacts
    <3>2. pc[t] = "publish"
          /\ UNCHANGED <<startVert, cur, localOrder, seenFirst, nbUp, visitOrder>>
      BY <1>7 DEF Publish, callVars, treeVars
    <3> QED BY <1>0, <3>1, <3>2 DEF Types, TreeTypes
  <2>2. nbUp[a] = 1 /\
              IF cur[t] = a
              THEN localOrder[t] = 0 /\ Regular(a) = {} /\ verticesSeen[a] = 0
              ELSE localOrder[t] = k + 1 /\ verticesSeen[a] = k + 1 /\ visitOrder[cur[t]] = k
    BY <1>0, <1>1, <1>7, <2>1 DEF GrowsOf, OnItsArc
  <2>3. k \in Nat /\ IsFiniteSet(Regular(a))
    BY RegularFacts
  <2>4. CASE cur[t] = a
    <3>1. Regular(a)' = {} /\ verticesSeen'[a] = 1
      BY <2>1, <2>2, <2>4 DEF Regular
    <3>2. Cardinality(Regular(a))' = 0
      BY <3>1, FS_EmptySet
    <3> QED BY <1>1, <2>1, <2>2, <2>4, <3>1, <3>2 DEF GrowsOf
  <2>5. CASE cur[t] # a
    <3>1. cur[t] \notin Regular(a) /\ Regular(a)' = Regular(a) \cup {cur[t]}
      <4>1. vert2tree'[cur[t]] # vert2tree[cur[t]] /\ a # Null
        BY <1>1, <1>7, <2>1, <2>5, PublishFacts
      <4>2. Regular(a)' # Regular(a)
        BY <2>1, <2>5, <4>1 DEF Regular
      <4>3. ~CloseRoot(t)
        BY <2>1 DEF CloseRoot
      <4> QED BY <1>0, <4>2, <4>3, RegularStep
    <3>2. Cardinality(Regular(a))' = k + 1
      BY <2>3, <3>1, FS_AddElement
    <3>3. /\ localOrder'[t] = k + 1 /\ verticesSeen'[a] = (k + 1) + 1
          /\ visitOrder'[cur[t]] = (k + 1) - 1
      BY <2>1, <2>2, <2>3, <2>5
    <3> HIDE DEF k
    <3> QED BY <1>1, <2>1, <2>2, <2>5, <3>2, <3>3 DEF GrowsOf
  <2> QED BY <2>4, <2>5
<1> QED BY <1>2, <1>3, <1>4, <1>5, <1>6, <1>7

(* Before its first vertex an arc is not open, and the valence of the node *)
(* where it starts is used up.                                             *)
LEMMA FreshStep ==
    ASSUME Types, GInv, TreeTypes, ArcInv, NEW t \in Leaves, TaskStep(t), NEW o \in Leaves
    PROVE  FreshOf(o)'
<1>0. /\ t \in Vert /\ o \in Vert /\ ArcChange(t) /\ FreshOf(o) /\ startVert[t] \in Vert
      /\ pc \in [Vert -> {"none", "waiting", "start", "pop", "capture", "publish",
                          "open", "retire", "merge", "decide", "stopped"}]
      /\ startVert \in [Vert -> Vert] /\ seenFirst \in [Vert -> BOOLEAN]
      /\ cur \in [Vert -> Vert \cup {Null}]
  BY LeavesFacts, ArcStep DEF ArcInv, Fresh, Types
<1>1. CASE o # t
  <2>1. /\ pc'[o] = pc[o] /\ cur'[o] = cur[o] /\ startVert'[o] = startVert[o]
        /\ seenFirst'[o] = seenFirst[o]
    BY <1>0, <1>1, StepFrame, LocalsFrame
  <2>3. ASSUME Anchored(o) PROVE nbUp'[Anchor(o)] = nbUp[Anchor(o)]
    <3>1. PICK a \in Vert : a = Anchor(o)
      BY <2>3, AnchorFacts
    <3> QED BY <1>0, <1>1, <2>3, <3>1, AnchorArc
  <2>4. Anchored(o) => valences'[Anchor(o)] = valences[Anchor(o)]
    BY <1>0, <1>1, AnchorValence
  <2>5. Anchor(o)' = Anchor(o)
    BY <2>1 DEF Anchor
  <2>6. \/ pc[o] \in {"waiting", "start", "merge", "decide"}
        \/ pc[o] = "pop" /\ ~seenFirst[o]
        \/ pc[o] = "capture" /\ cur[o] = startVert[o]
        => Anchored(o)
    BY DEF Anchored, OnItsArc
  <2> QED BY <1>0, <2>1, <2>3, <2>4, <2>5, <2>6 DEF FreshOf
<1>2. CASE o = t
  <2>1. CASE Visit(t)
    <3>1. /\ pc[t] = "pop" /\ pc'[t] = "capture" /\ startVert' = startVert
          /\ seenFirst[t] => cur'[t] # startVert[t]
          /\ valences' = valences
      <4>1. /\ pc[t] = "pop"
            /\ cur' = [cur EXCEPT ![t] = Min(Ahead(t))]
            /\ pc' = [pc EXCEPT ![t] = "capture"]
            /\ seenFirst[t] => Min(Ahead(t)) # startVert[t]
        BY <2>1, VisitFacts
      <4>2. startVert' = startVert /\ valences' = valences
        BY <2>1 DEF Visit
      <4> QED BY <1>0, <4>1, <4>2
    <3> QED BY <1>0, <1>2, <3>1 DEF FreshOf, Anchor
  <2>2. CASE OpenNode(t)
    <3>1. /\ ~isLast[t] => pc'[t] = "retire"
          /\ isLast[t] => /\ cur[t] \in Vert /\ vert2tree[cur[t]] = Null
                          /\ valences[cur[t]] = 0 /\ pc'[t] = "merge"
      BY <1>0, <2>2, NodeFacts DEF ArcInv
    <3>2. UNCHANGED <<valences, nbUp, cur>>
      BY <2>2 DEF OpenNode, callVars
    <3>3. isLast[t] => nbUp[cur[t]] = 0
      BY <3>1, VertFacts DEF ArcInv, Opening, OpenedOf
    <3> QED BY <1>2, <3>1, <3>2, <3>3 DEF FreshOf, Anchor
  <2>3. CASE Publish(t)
    <3>1. pc'[t] = "pop" => seenFirst'[t]
      <4>1. isSaddle[t] => pc'[t] = "open"
        BY <1>0, <2>3 DEF Publish, Goto
      <4>2. ~isSaddle[t] => seenFirst[t]
        BY <2>3, PublishFacts
      <4>3. seenFirst' = seenFirst
        BY <2>3 DEF Publish, callVars
      <4> QED BY <4>1, <4>2, <4>3
    <3>2. pc'[t] \in {"pop", "open"}
      BY <1>0, <2>3 DEF Publish, Goto
    <3> QED BY <1>2, <3>1, <3>2 DEF FreshOf
  <2>4. CASE Start(t)
    <3>1. pc[t] = "start" /\ pc'[t] = "pop" /\ startVert' = startVert /\ valences' = valences
      BY <1>0, <2>4 DEF Start, Goto
    <3> QED BY <1>0, <1>2, <3>1 DEF FreshOf, Anchor
  <2>5. CASE Restart(t)
    <3>1. /\ pc[t] = "decide" /\ UNCHANGED <<valences, nbUp, cur>>
          /\ \/ pc'[t] = "stopped"
             \/ pc'[t] = "start" /\ startVert'[t] = cur[t]
      BY <1>0, <2>5 DEF Restart, Goto, treeVars
    <3> QED BY <1>0, <1>2, <3>1 DEF FreshOf, Anchor
  <2>6. CASE Launch(t)
    <3>1. pc[t] = "waiting" /\ pc'[t] = "start" /\ UNCHANGED <<valences, nbUp, startVert>>
      BY <1>0, <2>6 DEF Launch, Goto, treeVars, callVars
    <3> QED BY <1>0, <1>2, <3>1 DEF FreshOf, Anchor
  <2>7. CASE CloseArcs(t) \/ \E n \in Vert : MergeNeighbor(t, n)
    <3>1. pc[t] = "merge" /\ pc'[t] \in {"merge", "decide"} /\ UNCHANGED <<valences, nbUp, cur>>
      BY <1>0, <2>7 DEF CloseArcs, MergeNeighbor, Goto, treeVars, callVars
    <3> QED BY <1>0, <1>2, <3>1 DEF FreshOf, Anchor
  <2>8. CASE OnlyLeaf(t) \/ Capture(t) \/ Retire(t) \/ CloseRoot(t)
    <3>1. pc'[t] \in {"stopped", "publish"}
      BY <1>0, <2>8 DEF OnlyLeaf, Capture, CaptureWith, Retire, CloseRoot, Goto
    <3> QED BY <1>2, <3>1 DEF FreshOf
  <2> QED BY <2>1, <2>2, <2>3, <2>4, <2>5, <2>6, <2>7, <2>8 DEF TaskStep
<1> QED BY <1>1, <1>2

(* What is visited and left open stays in sight.                           *)
LEMMA MetOpenStep ==
    ASSUME Types, GInv, TreeTypes, ArcInv, NEW t \in Leaves, TaskStep(t)
    PROVE  MetOpen'
<1>0. /\ t \in Vert /\ ArcChange(t) /\ Leaves' = Leaves
      /\ pc \in [Vert -> {"none", "waiting", "start", "pop", "capture", "publish",
                          "open", "retire", "merge", "decide", "stopped"}]
      /\ cur \in [Vert -> Vert \cup {Null}]
  BY LeavesFacts, ArcStep, StepFrame DEF Types
<1> SUFFICES ASSUME NEW v \in Vert, vert2tree'[v] = Null, visitOrder'[v] # NoOrder,
                    v \notin openedNodes'
             PROVE  \E o \in Leaves : cur'[o] = v /\ pc'[o] \in {"capture", "publish", "open"}
  BY <1>0 DEF MetOpen
<1>1. vert2tree[v] = Null
  BY <1>0, StepFrame
<1>2. CASE visitOrder[v] = NoOrder
  <2>1. Visit(t) /\ v = cur'[t]
    BY <1>0, <1>2 DEF ArcChange, OrderChange
  <2>2. pc'[t] = "capture"
    BY <1>0, <2>1 DEF Visit, Goto
  <2> QED BY <2>1, <2>2
<1>3. CASE v \in openedNodes
  <2>1. CASE Restart(t)
    <3>1. v = cur[t] /\ pc[t] = "decide"
      BY <1>3, <2>1 DEF Restart
    <3> QED BY <1>1, <3>1, VertFacts DEF GInv, AtSaddle, SaddleOf
  <2>2. CASE OnlyLeaf(t)
    <3>1. ufs[v] # Null
      BY <1>3 DEF ArcInv, OpenedNodes
    <3>2. PICK p \in Leaves : Parked(p) \/ Claims(p)
      BY <1>1, <3>1 DEF GInv, Published
    <3>3. p = t /\ pc[t] = "waiting"
      BY <2>2 DEF OnlyLeaf
    <3> QED BY <3>2, <3>3 DEF Parked, Claims
  <2>3. CASE OpenNode(t)
    BY <1>3, <2>3 DEF OpenNode
  <2>4. CASE ~Restart(t) /\ ~OnlyLeaf(t) /\ ~OpenNode(t)
    <3>1. openedNodes' = openedNodes
      BY <2>4 DEF TaskStep, Launch, Start, Visit, Capture, CaptureWith, Publish, Retire,
                  MergeNeighbor, CloseArcs, CloseRoot
    <3> QED BY <1>3, <3>1
  <2> QED BY <2>1, <2>2, <2>3, <2>4
<1>4. CASE visitOrder[v] # NoOrder /\ v \notin openedNodes
  <2>1. PICK o \in Leaves : cur[o] = v /\ pc[o] \in {"capture", "publish", "open"}
    BY <1>1, <1>4 DEF ArcInv, MetOpen
  <2>2. CASE o # t
    <3>1. pc'[o] = pc[o] /\ cur'[o] = cur[o]
      BY <2>2, StepFrame, LeavesFacts
    <3> QED BY <2>1, <3>1
  <2>3. CASE o = t
    <3>1. CASE Capture(t)
      <4>1. pc'[t] = "publish" /\ cur' = cur
        BY <1>0, <3>1 DEF Capture, CaptureWith, Goto, callVars
      <4> QED BY <2>1, <2>3, <4>1
    <3>2. CASE OpenNode(t)
      BY <2>1, <2>3, <3>2 DEF OpenNode
    <3>3. CASE Publish(t) /\ isSaddle[t]
      <4>1. pc'[t] = "open" /\ cur' = cur
        BY <1>0, <3>3 DEF Publish, Goto, callVars
      <4> QED BY <2>1, <2>3, <4>1
    <3>4. CASE Publish(t) /\ ~isSaddle[t]
      <4>1. /\ vert2tree[startVert[t]] = IsNode /\ startVert[t] # Null
            /\ v # startVert[t] => vert2tree' = [vert2tree EXCEPT ![v] = startVert[t]]
        BY <2>1, <2>3, <3>4, PublishFacts
      <4>2. v # startVert[t]
        BY <1>1, <4>1, VertFacts
      <4> QED BY <4>1, <4>2 DEF Types
    <3> QED BY <2>1, <2>3, <3>1, <3>2, <3>3, <3>4
         DEF TaskStep, OnlyLeaf, Launch, Start, Visit, Retire, MergeNeighbor, CloseArcs,
             Restart, CloseRoot
  <2> QED BY <2>2, <2>3
<1> QED BY <1>2, <1>3, <1>4

(* A vertex that comes to be on an arc is the task's own, and alone.       *)
LEMMA NewOnArc ==
    ASSUME Types, GInv, NEW t \in Leaves, ArcChange(t), NEW v \in Vert, OnArc(v)', ~OnArc(v)
    PROVE  /\ Publish(t) /\ ~isSaddle[t] /\ v = cur[t] /\ v # startVert[t]
           /\ vert2tree[v] = Null
           /\ \A o \in Leaves : cur[o] = v => ~Parked(o) /\ ~Claims(o)
<1>1. /\ Publish(t) /\ ~isSaddle[t] /\ v = cur[t] /\ v # startVert[t]
      /\ vert2tree[v] = Null /\ pc[t] = "publish"
  <2>1. TreeChange(t)
    BY DEF ArcChange
  <2>2. vert2tree'[v] \notin {Null, IsNode} /\ vert2tree[v] \in {Null, IsNode}
    BY DEF OnArc
  <2>3. Publish(t) /\ ~isSaddle[t] /\ v = cur[t] /\ v # startVert[t] /\ vert2tree[v] = Null
    BY <2>1, <2>2 DEF TreeChange
  <2> QED BY <2>3 DEF Publish
<1>2. ASSUME NEW o \in Leaves, cur[o] = v, Parked(o) \/ Claims(o) PROVE FALSE
  <2>1. Captured(o) /\ isSaddle[o]
    BY <1>2 DEF Captured, Claims, Parked
  <2> QED BY <1>1, <1>2, <2>1, RegularAlone
<1> QED BY <1>1, <1>2

(* Tasks stop at nodes and at open vertices only.                          *)
LEMMA OpenedNodesStep ==
    ASSUME Types, GInv, TreeTypes, ArcInv, NEW t \in Leaves, TaskStep(t)
    PROVE  OpenedNodes'
<1>0. /\ t \in Vert /\ ArcChange(t) /\ Leaves' = Leaves
      /\ pc \in [Vert -> {"none", "waiting", "start", "pop", "capture", "publish",
                          "open", "retire", "merge", "decide", "stopped"}]
      /\ cur \in [Vert -> Vert \cup {Null}] /\ ufs \in [Vert -> Vert \cup {Null}]
  BY LeavesFacts, ArcStep, StepFrame DEF Types
<1>1. ASSUME NEW v \in openedNodes' PROVE v \in Vert /\ ~OnArc(v)' /\ ufs'[v] # Null
  <2>1. CASE v \in openedNodes
    <3>1. v \in Vert /\ ~OnArc(v) /\ ufs[v] # Null
      BY <2>1 DEF ArcInv, OpenedNodes
    <3>2. ufs'[v] # Null
      BY <3>1, UfsKept
    <3>3. ASSUME OnArc(v)' PROVE FALSE
      <4>1. /\ vert2tree[v] = Null
            /\ \A o \in Leaves : cur[o] = v => ~Parked(o) /\ ~Claims(o)
        BY <1>0, <3>1, <3>3, NewOnArc
      <4> QED BY <3>1, <4>1 DEF GInv, Published
    <3> QED BY <3>1, <3>2, <3>3
  <2>2. CASE OpenNode(t) /\ v = cur[t]
    <3>1. v \in Vert /\ ufs[v] # Null /\ (~isLast[t] => vert2tree' = vert2tree /\ ~OnArc(v))
          /\ (isLast[t] => vert2tree' = [vert2tree EXCEPT ![v] = IsNode])
      BY <2>2, NodeFacts DEF ArcInv
    <3>2. ufs'[v] # Null
      BY <3>1, UfsKept
    <3>3. ~OnArc(v)'
      BY <3>1 DEF OnArc, Types
    <3> QED BY <3>1, <3>2, <3>3
  <2>3. CASE OnlyLeaf(t) /\ v = t
    <3>1. pc[t] = "waiting" /\ ufs'[t] = t /\ vert2tree' = vert2tree
      BY <1>0, <2>3 DEF OnlyLeaf, segmVars
    <3>2. vert2tree[t] = IsNode
      BY <3>1 DEF GInv, Arcs, ArcOf
    <3> QED BY <1>0, <2>3, <3>1, <3>2, VertFacts DEF OnArc
  <2> QED BY <2>1, <2>2, <2>3 DEF TaskStep, OnlyLeaf, Launch, Start, Visit, Capture,
             CaptureWith, Publish, OpenNode, Retire, MergeNeighbor, CloseArcs, Restart, CloseRoot
<1>2. ASSUME NEW o \in Leaves, Parked(o)', OnArc(cur[o])' PROVE FALSE
  <2>1. CASE Parked(o) /\ cur'[o] = cur[o]
    <3>1. PICK v \in Vert : v = cur[o] /\ ~OnArc(v)
      BY <2>1 DEF GInv, AtSaddle, SaddleOf, ArcInv, OpenedNodes
    <3>2. OnArc(v)'
      BY <1>2, <2>1, <3>1 DEF OnArc
    <3> QED BY <1>0, <2>1, <3>1, <3>2, NewOnArc
  <2>2. CASE ~(Parked(o) /\ cur'[o] = cur[o])
    <3>1. o = t
      BY <1>2, <2>2, StepFrame, LeavesFacts DEF Parked
    <3>2. Capture(t)
      <4>1. pc'[t] \in {"publish", "open", "retire", "stopped"} /\ isSaddle'[t] /\ ~isLast'[t]
        BY <1>2, <3>1 DEF Parked
      <4>2. CASE OnlyLeaf(t) \/ Launch(t) \/ Start(t) \/ Visit(t)
        <5>1. pc[t] = "waiting" => ~isSaddle[t]
          BY DEF GInv, Arcs, ArcOf
        <5> QED BY <1>0, <4>1, <4>2, <5>1 DEF OnlyLeaf, Launch, Start, Visit, Goto, visitVars
      <4>3. CASE Publish(t) \/ OpenNode(t) \/ Retire(t)
        BY <1>0, <2>2, <3>1, <4>1, <4>3
           DEF Publish, OpenNode, Retire, Goto, visitVars, callVars, Parked
      <4>4. CASE CloseRoot(t)
        <5>1. pc[t] = "pop" /\ seenFirst[t] /\ isSaddle' = isSaddle
          BY <4>4, RootFacts DEF CloseRoot, visitVars
        <5> QED BY <4>1, <5>1 DEF GInv, Arcs, ArcOf
      <4>5. CASE CloseArcs(t) \/ Restart(t) \/ \E n \in Vert : MergeNeighbor(t, n)
        <5>1. pc[t] \in {"merge", "decide"} /\ isLast' = isLast
          BY <4>5 DEF CloseArcs, Restart, MergeNeighbor, visitVars
        <5> QED BY <4>1, <5>1 DEF GInv, AtSaddle, SaddleOf
      <4> QED BY <4>2, <4>3, <4>4, <4>5 DEF TaskStep
    <3>3. pc[t] = "capture" /\ isSaddle[t] /\ UNCHANGED <<vert2tree, cur>>
      BY <1>2, <3>1, <3>2 DEF Capture, CaptureWith, Parked, segmVars, callVars
    <3>4. ~Absorbed(t)
      BY <3>3 DEF Absorbed, Parked
    <3>5. vert2tree[cur[t]] = Null
      BY <3>3, <3>4 DEF GInv, Visits, VisitOf
    <3> QED BY <1>2, <3>1, <3>3, <3>5 DEF OnArc
  <2> QED BY <2>1, <2>2
<1> QED BY <1>0, <1>1, <1>2 DEF OpenedNodes

(* The greatest vertex is on an arc only at the end of it.                 *)
LEMMA LastVertexStep ==
    ASSUME Types, GInv, TreeTypes, ArcInv, NEW t \in Leaves, TaskStep(t)
    PROVE  LastVertex'
<1>0. /\ t \in Vert /\ ArcChange(t) /\ Leaves' = Leaves
      /\ pc \in [Vert -> {"none", "waiting", "start", "pop", "capture", "publish",
                          "open", "retire", "merge", "decide", "stopped"}]
  BY LeavesFacts, ArcStep, StepFrame DEF Types
<1>n. N \in Vert
  BY NAssumption DEF Vert
<1> SUFFICES ASSUME OnArc(N)'
             PROVE  \E o \in Leaves : pc'[o] = "pop" /\ seenFirst'[o] /\ cur'[o] = N
  BY <1>0 DEF LastVertex
<1>1. CASE OnArc(N)
  <2>1. PICK o \in Leaves : pc[o] = "pop" /\ seenFirst[o] /\ cur[o] = N
    BY <1>1 DEF ArcInv, LastVertex
  <2>2. CASE o # t
    <3>1. o \in Vert /\ pc'[o] = pc[o] /\ cur'[o] = cur[o] /\ seenFirst'[o] = seenFirst[o]
      BY <2>2, StepFrame, LocalsFrame, LeavesFacts
    <3> QED BY <2>1, <3>1
  <2>3. CASE o = t
    <3>1. CASE Visit(t)
      <4>1. PICK v \in Vert : v = Min(Ahead(t)) /\ v > N
        BY <2>1, <2>3, <3>1, VisitFacts
      <4> QED BY <4>1, NAssumption DEF Vert
    <3>2. CASE CloseRoot(t)
      <4>1. vert2tree' = [vert2tree EXCEPT ![N] = IsNode]
        BY <2>1, <2>3, <3>2, RootFacts
      <4> QED BY <1>0, <1>n, <4>1 DEF OnArc, Types
    <3> QED BY <2>1, <2>3, <3>1, <3>2
         DEF TaskStep, OnlyLeaf, Launch, Start, Capture, CaptureWith, Publish, OpenNode,
             Retire, MergeNeighbor, CloseArcs, Restart
  <2> QED BY <2>2, <2>3
<1>2. CASE ~OnArc(N)
  <2>1. Publish(t) /\ ~isSaddle[t] /\ cur[t] = N
    BY <1>0, <1>n, <1>2, NewOnArc
  <2>2. pc' = [pc EXCEPT ![t] = "pop"] /\ seenFirst[t] /\ UNCHANGED <<cur, seenFirst>>
    BY <2>1, PublishFacts DEF Publish, callVars
  <2> QED BY <1>0, <2>1, <2>2
<1> QED BY <1>1, <1>2

(* A vertex is settled with the valence used up, and a saddle's is taken   *)
(* off a second time when its task restarts there.                         *)
LEMMA SpentStep ==
    ASSUME Types, GInv, TreeTypes, ArcInv, NEW t \in Leaves, TaskStep(t), NEW v \in Vert
    PROVE  SpentOf(v)'
<1>0. /\ t \in Vert /\ ArcChange(t) /\ Lower(v)' = Lower(v) /\ SpentOf(v)
      /\ vert2tree[v] # Null => vert2tree'[v] # Null
  BY LeavesFacts, ArcStep, StepFrame DEF ArcInv, Spent
<1>1. IsFiniteSet(Lower(v)) /\ Cardinality(Lower(v)) \in Nat
  BY AccountedFacts
<1> SUFFICES ASSUME vert2tree'[v] # Null
             PROVE  valences'[v] = 0 \/ valences'[v] = -Cardinality(Lower(v))
  BY <1>0 DEF SpentOf
<1>2. CASE vert2tree[v] # Null /\ valences'[v] = valences[v]
  BY <1>0, <1>2 DEF SpentOf
<1>3. CASE vert2tree[v] # Null /\ valences'[v] # valences[v]
  <2>1. Capture(t) /\ v = cur[t] /\ valences'[v] = valences[v] - decr[t]
    BY <1>0, <1>3 DEF ArcChange, ValenceChange
  <2>2. pc[t] = "capture" /\ ~Absorbed(t)
    BY <2>1 DEF Capture, CaptureWith, Absorbed, Parked
  <2>3. v = startVert[t] /\ ~isSaddle[t] /\ decr[t] = Cardinality(Own(t))
        /\ Own(t) = Lower(v)
    BY <1>3, <2>1, <2>2 DEF GInv, Visits, VisitOf
  <2>4. valences[v] = 0
    BY <2>1, <2>2, <2>3 DEF ArcInv, Fresh, FreshOf, Anchor
  <2> QED BY <1>1, <2>1, <2>3, <2>4
<1>4. CASE vert2tree[v] = Null
  <2>1. ~Capture(t)
    BY <1>4 DEF Capture, CaptureWith, segmVars
  <2>2. valences'[v] = valences[v]
    BY <1>0, <2>1 DEF ArcChange, ValenceChange
  <2>3. CASE Publish(t) /\ ~isSaddle[t] /\ v = cur[t] /\ v # startVert[t]
    <3>1. Own(t) = Lower(v) /\ pc[t] = "publish"
      BY <2>3, PublishFacts DEF Publish
    <3>2. Lower(v) \subseteq Accounted(v)
      BY <2>3, <3>1 DEF Own, Accounted, Captured
    <3>3. Accounted(v) = Lower(v)
      BY <3>2, AccountedFacts
    <3>4. valences[v] + Cardinality(Lower(v)) = Cardinality(Lower(v)) /\ valences[v] \in Int
      BY <1>4, <3>3 DEF GInv, Counts, Types
    <3> QED BY <1>1, <2>2, <3>4
  <2>4. CASE OpenNode(t) /\ isLast[t] /\ v = cur[t]
    BY <2>2, <2>4, NodeFacts DEF ArcInv
  <2>5. CASE CloseRoot(t) /\ v = cur[t]
    BY <1>4, <2>5, RootFacts
  <2> QED BY <1>0, <1>4, <2>3, <2>4, <2>5 DEF ArcChange, TreeChange
<1> QED BY <1>2, <1>3, <1>4

LEMMA ArcInvStep ==
    ASSUME Types, GInv, TreeTypes, ArcInv, NEW t \in Leaves, TaskStep(t)
    PROVE  ArcInv'
<1>1. Leaves' = Leaves
  BY StepFrame
<1>2. Placed' /\ Opening' /\ Spent'
  BY PlacedStep, OpeningStep, SpentStep DEF Placed, Opening, Spent
<1>3. \A o \in Leaves : GrowsOf(o)'
  BY OthersGrow, OwnGrows
<1>4. Grows' /\ Fresh'
  BY <1>1, <1>3, FreshStep DEF Grows, Fresh
<1> QED BY <1>2, <1>4, MetOpenStep, OpenedNodesStep, LastVertexStep DEF ArcInv
-------------------------------------------------------------------------------
(* The leaves of a set: one at least, if it is named by one of them.       *)
LEMMA ClassFacts ==
    ASSUME NEW u \in Vert
    PROVE  /\ ClassOf(u) \in SUBSET Vert /\ IsFiniteSet(ClassOf(u))
           /\ Cardinality(ClassOf(u)) \in 0..N
           /\ comp[u] = u => Cardinality(ClassOf(u)) >= 1
<1>1. N \in Nat /\ IsFiniteSet(Vert) /\ Cardinality(Vert) = N
  BY NAssumption, FS_Interval DEF Vert
<1>2. ClassOf(u) \in SUBSET Vert
  BY DEF ClassOf
<1>3. /\ IsFiniteSet(ClassOf(u)) /\ Cardinality(ClassOf(u)) <= N
      /\ Cardinality(ClassOf(u)) \in Nat
  BY <1>1, <1>2, FS_Subset, FS_CardinalityType
<1>4. ASSUME comp[u] = u PROVE Cardinality(ClassOf(u)) >= 1
  <2>1. u \in ClassOf(u)
    BY <1>4 DEF ClassOf
  <2>2. Cardinality(ClassOf(u)) # 0
    BY <1>3, <2>1, FS_EmptySet
  <2> QED BY <1>3, <2>2
<1> QED BY <1>1, <1>2, <1>3, <1>4

(* Two sets are united: the rank grows by one if the ranks are equal, the  *)
(* leaves add up.                                                          *)
LEMMA UniteSize ==
    ASSUME comp \in [Vert -> Vert], NEW w \in Vert, NEW l \in Vert, w # l,
           comp[w] = w, comp[l] = l, \A x \in Vert : SizeOf(x),
           comp' = [x \in Vert |-> IF comp[x] = l THEN w ELSE comp[x]],
           \A x \in Vert : x # w => rank'[x] = rank[x],
           \/ rank'[w] = rank[w]
           \/ rank'[w] = rank[w] + 1 /\ rank[w] = rank[l],
           NEW u \in Vert
    PROVE  SizeOf(u)'
<1>1. N \in Nat
  BY NAssumption
<1>2. CASE u # w
  <2>1. rank'[u] = rank[u]
    BY <1>2
  <2>2. ASSUME comp'[u] = u PROVE comp[u] = u /\ ClassOf(u)' = ClassOf(u)
    <3>1. comp[u] = u
      BY <1>2, <2>2
    <3>2. u # l
      BY <1>2, <2>2
    <3>3. \A x \in Vert : comp'[x] = u <=> comp[x] = u
      BY <1>2, <3>2
    <3> QED BY <3>1, <3>3 DEF ClassOf
  <2> QED BY <2>1, <2>2 DEF SizeOf
<1>3. CASE u = w
  <2>1. ClassOf(w)' = ClassOf(w) \cup ClassOf(l)
    BY DEF ClassOf
  <2>2. ClassOf(w) \cap ClassOf(l) = {}
    BY DEF ClassOf
  <2>3. Cardinality({}) = 0
    BY FS_EmptySet
  <2> DEFINE c == Cardinality(ClassOf(w))
             d == Cardinality(ClassOf(l))
  <2>4. Cardinality(ClassOf(w) \cup ClassOf(l)) = c + d
    <3>1. Cardinality(ClassOf(w) \cup ClassOf(l)) =
              c + d - Cardinality(ClassOf(w) \cap ClassOf(l))
      BY ClassFacts, FS_Union
    <3>2. c \in Nat /\ d \in Nat
      BY ClassFacts
    <3> HIDE DEF c, d
    <3> QED BY <2>2, <2>3, <3>1, <3>2
  <2>5. /\ ClassOf(w) \cup ClassOf(l) \in SUBSET Vert
        /\ Cardinality(ClassOf(w) \cup ClassOf(l)) <= N
    <3>1. ClassOf(w) \cup ClassOf(l) \in SUBSET Vert
      BY DEF ClassOf
    <3>2. IsFiniteSet(Vert) /\ Cardinality(Vert) = N
      BY NAssumption, FS_Interval DEF Vert
    <3> QED BY <3>1, <3>2, FS_Subset
  <2>6. c \in Nat /\ d \in Nat /\ c >= 1 /\ d >= 1
    BY ClassFacts
  <2>7. /\ rank[w] \in 0..N /\ rank[l] \in 0..N
        /\ rank[w] <= c - 1 /\ rank[l] <= d - 1
    BY DEF SizeOf
  <2>8. c + d <= N
    BY <2>4, <2>5
  <2> HIDE DEF c, d
  <2>9. rank'[w] \in 0..N /\ rank'[w] <= c + d - 1
    BY <1>1, <2>6, <2>7, <2>8
  <2>10. Cardinality(ClassOf(w))' = c + d
    BY <2>1, <2>4
  <2>11. SizeOf(w)'
    <3>1. rank'[w] <= Cardinality(ClassOf(w))' - 1
      BY <2>6, <2>9, <2>10
    <3> QED BY <2>9, <3>1 DEF SizeOf
  <2> QED BY <1>3, <2>11
<1> QED BY <1>2, <1>3

(* The ranks of the sets stay below the number of leaves.                  *)
LEMMA SizeStep ==
    ASSUME Types, GInv, TreeTypes, \A x \in Vert : SizeOf(x),
           NEW t \in Leaves, TaskStep(t), NEW u \in Vert
    PROVE  SizeOf(u)'
<1>0. /\ comp \in [Vert -> Vert] /\ rank \in [Vert -> 0..N]
      /\ ufs \in [Vert -> Vert \cup {Null}] /\ N \in Nat /\ N >= 1 /\ t \in Vert
      /\ startVert[t] \in Vert /\ SizeOf(u)
  BY NAssumption, LeavesFacts DEF Types, TreeTypes
<1>1. CASE UNCHANGED <<comp, rank>>
  BY <1>0, <1>1 DEF SizeOf, ClassOf
<1>2. ASSUME NEW n \in Vert, MergeNeighbor(t, n) PROVE SizeOf(u)'
  <2> DEFINE a == comp[ufs[cur[t]]]
             b == comp[ufs[n]]
  <2>1. /\ cur[t] \in Vert /\ ufs[cur[t]] # Null /\ ufs[n] # Null
    <3>1. pc[t] = "merge" /\ n \in todo[t]
      BY <1>2 DEF MergeNeighbor
    <3>2. cur[t] \in Vert /\ n \in Lower(cur[t]) /\ ufs[cur[t]] # Null
      BY <3>1 DEF GInv, AtSaddle, SaddleOf
    <3> QED BY <3>1, <3>2, HoldsFacts
  <2>2. a \in Vert /\ b \in Vert /\ comp[a] = a /\ comp[b] = b
    BY <1>0, <2>1 DEF GInv, Representatives
  <2>3. CASE a = b
    <3>1. UNCHANGED <<comp, rank>>
      BY <1>2, <2>3 DEF MergeNeighbor, find, ufVars
    <3> QED BY <1>1, <3>1
  <2>4. CASE a # b
    <3>1. Unite(a, b)
      BY <1>2, <2>4 DEF MergeNeighbor, find
    <3> HIDE DEF a, b
    <3>2. PICK w \in Vert, l \in Vert :
             /\ w # l /\ comp[w] = w /\ comp[l] = l
             /\ comp' = [x \in Vert |-> IF comp[x] = l THEN w ELSE comp[x]]
             /\ rank' = IF rank[w] = rank[l] THEN [rank EXCEPT ![w] = rank[w] + 1] ELSE rank
      <4>1. CASE Winner(a, b) = a
        BY <2>2, <2>4, <3>1, <4>1 DEF Unite
      <4>2. CASE Winner(a, b) = b
        BY <2>2, <2>4, <3>1, <4>2 DEF Unite
      <4> QED BY <4>1, <4>2 DEF Winner
    <3>3. /\ \A x \in Vert : x # w => rank'[x] = rank[x]
          /\ \/ rank'[w] = rank[w]
             \/ rank'[w] = rank[w] + 1 /\ rank[w] = rank[l]
      BY <1>0, <3>2
    <3> QED BY <1>0, <3>2, <3>3, UniteSize
  <2> QED BY <2>3, <2>4
<1>3. CASE ~\E n \in Vert : MergeNeighbor(t, n)
  <2>1. UNCHANGED <<comp, rank>>
    BY <1>3 DEF TaskStep, OnlyLeaf, Launch, Start, Visit, Capture, CaptureWith, Publish,
                OpenNode, Retire, CloseArcs, Restart, CloseRoot, ufVars
  <2> QED BY <1>1, <2>1
<1> QED BY <1>2, <1>3

(* Types of what the invariant of the growth leaves out.                   *)
LEMMA TreeTypesStep ==
    ASSUME Types, GInv, TreeTypes, ArcInv, Types', ArcInv', \A x \in Vert : SizeOf(x)',
           NEW t \in Leaves, TaskStep(t)
    PROVE  TreeTypes'
<1>0. /\ t \in Vert /\ startVert[t] \in Vert /\ TreeTypes /\ ArcChange(t)
      /\ comp \in [Vert -> Vert] /\ ufs \in [Vert -> Vert \cup {Null}]
      /\ N \in Nat /\ N >= 1
  BY LeavesFacts, ArcStep, NAssumption DEF Types
<1>1. /\ vert2tree' \in [Vert -> Vert \cup {Null, IsNode}]
      /\ lastVisited' \in [Vert -> Vert \cup {Null}]
  BY DEF Types
<1>2. openedNodes' \subseteq Vert
  BY DEF ArcInv, OpenedNodes
<1>3. openedArcs' \in [Vert -> SUBSET Vert]
  <2>1. CASE Start(t)
    BY <1>0, <2>1 DEF Start, TreeTypes
  <2>2. CASE CloseArcs(t)
    BY <1>0, <2>2 DEF CloseArcs, TreeTypes
  <2>3. ASSUME NEW n \in Vert, MergeNeighbor(t, n) PROVE openedArcs' \in [Vert -> SUBSET Vert]
    <3> DEFINE a == comp[ufs[cur[t]]]
               b == comp[ufs[n]]
    <3>1. CASE a = b
      BY <2>3, <3>1 DEF MergeNeighbor, find, ufVars, TreeTypes
    <3>2. CASE a # b
      <4>1. a \in Vert /\ b \in Vert
        <5>1. pc[t] = "merge" /\ n \in todo[t]
          BY <2>3 DEF MergeNeighbor
        <5>2. cur[t] \in Vert /\ n \in Lower(cur[t]) /\ ufs[cur[t]] # Null
          BY <5>1 DEF GInv, AtSaddle, SaddleOf
        <5>3. ufs[n] # Null
          BY <5>1, <5>2, HoldsFacts
        <5> QED BY <1>0, <5>2, <5>3
      <4>2. Unite(a, b)
        BY <2>3, <3>2 DEF MergeNeighbor, find
      <4> HIDE DEF a, b
      <4>3. PICK w \in Vert, l \in Vert :
               openedArcs' = [openedArcs EXCEPT ![w] = openedArcs[w] \cup openedArcs[l]]
        BY <4>1, <4>2 DEF Unite, Winner
      <4> QED BY <4>3 DEF TreeTypes
    <3> QED BY <3>1, <3>2
  <2>4. CASE ~Start(t) /\ ~CloseArcs(t) /\ ~\E n \in Vert : MergeNeighbor(t, n)
    <3>1. openedArcs' = openedArcs
      BY <2>4 DEF TaskStep, OnlyLeaf, Launch, Visit, Capture, CaptureWith, Publish, OpenNode,
                  Retire, Restart, CloseRoot, ufVars
    <3> QED BY <3>1 DEF TreeTypes
  <2> QED BY <2>1, <2>2, <2>3, <2>4
<1>4. CASE Visit(t)
  <2> DEFINE v == Min(Ahead(t))
  <2>1. /\ v \in Vert /\ visitOrder' = [visitOrder EXCEPT ![v] = localOrder[t]]
        /\ localOrder' = [localOrder EXCEPT ![t] = localOrder[t] + 1]
        /\ pc[t] = "pop"
    BY <1>4, VisitFacts
  <2>2. \E S \in SUBSET Lower(v) : decr' = [decr EXCEPT ![t] = Cardinality(S)]
    <3>1. {n \in Lower(v) : ufs[n] # Null /\ find(ufs[n]) = find(startUF[t])}
             \in SUBSET Lower(v)
      OBVIOUS
    <3> QED BY <1>4, <3>1 DEF Visit
  <2>3. /\ UNCHANGED <<rank, nodes, nbUp, verticesSeen, upNode, roots>>
    BY <1>4 DEF Visit, ufVars, treeVars
  <2> HIDE DEF v
  <2>4. \A S \in SUBSET Lower(v) : Cardinality(S) \in 0..N
    <3>1. Lower(v) \subseteq Vert
      BY <2>1, LowerFacts DEF Types
    <3>2. IsFiniteSet(Vert) /\ Cardinality(Vert) = N
      BY <1>0, FS_Interval DEF Vert
    <3> QED BY <1>0, <3>1, <3>2, FS_Subset, FS_CardinalityType
  <2>5. localOrder[t] + 1 \in (-1)..N
    <3>1. PICK a \in Vert : a = startVert[t]
      BY <1>0
    <3>2. Cardinality(Regular(a)) \in 0..(N - 1)
      <4>1. vert2tree[a] = IsNode /\ a # IsNode
        BY <3>1, VertFacts DEF GInv, Arcs, ArcOf
      <4> QED BY <4>1, RegularFacts
    <3>3. localOrder[t] = Cardinality(Regular(a)) \/ localOrder[t] = -1
      BY <2>1, <3>1 DEF ArcInv, Grows, GrowsOf
    <3> QED BY <1>0, <3>2, <3>3
  <2>6. localOrder' \in [Vert -> (-1)..N]
    BY <2>1, <2>5 DEF TreeTypes
  <2>7. decr' \in [Vert -> 0..N]
    BY <2>2, <2>4 DEF TreeTypes
  <2>8. visitOrder' \in [Vert -> {NoOrder} \cup (-1)..N]
    BY <1>0, <2>1 DEF TreeTypes
  <2> QED BY <1>1, <1>2, <1>3, <2>3, <2>6, <2>7, <2>8 DEF TreeTypes
<1>5. CASE ~Visit(t)
  <2>1. visitOrder' = visitOrder /\ decr' = decr
    BY <1>5 DEF TaskStep, OnlyLeaf, Launch, Start, Capture, CaptureWith, Publish, OpenNode,
                Retire, MergeNeighbor, CloseArcs, Restart, CloseRoot, segmVars, visitVars
  <2>2. rank' \in [Vert -> 0..N]
    <3>1. rank = [x \in Vert |-> rank[x]]
      BY <1>0 DEF TreeTypes
    <3>2. rank' = [x \in Vert |-> rank'[x]]
      <4>1. CASE rank' = rank
        BY <3>1, <4>1
      <4>2. ASSUME NEW n \in Vert, MergeNeighbor(t, n) PROVE rank' = [x \in Vert |-> rank'[x]]
        BY <3>1, <4>2 DEF MergeNeighbor, Unite, ufVars
      <4>3. rank' = rank \/ \E n \in Vert : MergeNeighbor(t, n)
        BY DEF TaskStep, OnlyLeaf, Launch, Start, Visit, Capture, CaptureWith, Publish,
               OpenNode, Retire, CloseArcs, Restart, CloseRoot, ufVars
      <4> QED BY <4>1, <4>2, <4>3
    <3> QED BY <3>2 DEF SizeOf
  <2>3. localOrder' \in [Vert -> (-1)..N]
    <3>1. CASE Start(t)
      BY <1>0, <3>1 DEF Start, TreeTypes
    <3>2. CASE ~Start(t)
      <4>1. localOrder' = localOrder
        BY <1>5, <3>2 DEF TaskStep, OnlyLeaf, Launch, Capture, CaptureWith, Publish, OpenNode,
                Retire, MergeNeighbor, CloseArcs, Restart, CloseRoot, callVars
      <4> QED BY <4>1 DEF TreeTypes
    <3> QED BY <3>1, <3>2
  <2>4. nbUp' \in [Vert -> Int]
    <3>1. CASE Start(t)
      BY <1>0, <3>1 DEF Start, TreeTypes
    <3>2. CASE ~Start(t)
      <4>1. nbUp' = nbUp
        BY <1>5, <3>2 DEF TaskStep, OnlyLeaf, Launch, Capture, CaptureWith, Publish, OpenNode,
                Retire, MergeNeighbor, CloseArcs, Restart, CloseRoot, treeVars
      <4> QED BY <4>1 DEF TreeTypes
    <3> QED BY <3>1, <3>2
  <2>5. CASE CloseRoot(t)
    <3>1. /\ cur[t] \in Vert /\ lastVisited[startVert[t]] = cur[t]
      BY <2>5, RootSettled
    <3>2. nodes' = nodes \cup {cur[t]} /\ roots' = roots \cup {cur[t]}
          /\ upNode' = [upNode EXCEPT ![startVert[t]] = cur[t]]
          /\ verticesSeen' = [verticesSeen EXCEPT ![startVert[t]] = verticesSeen[startVert[t]] - 1]
      BY <2>5, <3>1 DEF CloseRoot
    <3>3. nodes' \subseteq Vert /\ roots' \subseteq Vert
      BY <3>1, <3>2 DEF TreeTypes
    <3>4. upNode' \in [Vert -> Vert \cup {Null}] /\ verticesSeen' \in [Vert -> Int]
      BY <1>0, <3>1, <3>2 DEF TreeTypes
    <3> QED BY <1>0, <1>1, <1>2, <1>3, <2>1, <2>2, <2>3, <2>4, <3>3, <3>4 DEF TreeTypes
  <2>6. CASE ~CloseRoot(t)
    <3>1. nodes' \subseteq Vert
      <4>1. CASE OpenNode(t)
        <5>1. cur[t] \in Vert
          BY <4>1, NodeFacts DEF ArcInv
        <5> QED BY <4>1, <5>1 DEF OpenNode, TreeTypes
      <4>2. CASE ~OpenNode(t)
        <5>1. nodes' = nodes
          BY <1>5, <2>6, <4>2 DEF TaskStep, OnlyLeaf, Launch, Start, Capture, CaptureWith,
             Publish, Retire, MergeNeighbor, CloseArcs, Restart, treeVars
        <5> QED BY <5>1 DEF TreeTypes
      <4> QED BY <4>1, <4>2
    <3>2. roots' = roots
      BY <1>5, <2>6 DEF TaskStep, OnlyLeaf, Launch, Start, Capture, CaptureWith,
         Publish, OpenNode, Retire, MergeNeighbor, CloseArcs, Restart, treeVars
    <3>3. upNode' \in [Vert -> Vert \cup {Null}]
      <4>1. CASE CloseArcs(t)
        <5>1. cur[t] \in Vert
          <6>1. pc[t] = "merge"
            BY <4>1 DEF CloseArcs
          <6> QED BY <6>1 DEF GInv, AtSaddle, SaddleOf
        <5>2. \E S : upNode' = [a \in Vert |-> IF a \in S THEN cur[t] ELSE upNode[a]]
          BY <4>1 DEF CloseArcs
        <5> QED BY <5>1, <5>2 DEF TreeTypes
      <4>2. CASE ~CloseArcs(t)
        <5>1. upNode' = upNode
          BY <1>5, <2>6, <4>2 DEF TaskStep, OnlyLeaf, Launch, Start, Capture, CaptureWith,
             Publish, OpenNode, Retire, MergeNeighbor, Restart, treeVars
        <5> QED BY <5>1 DEF TreeTypes
      <4> QED BY <4>1, <4>2
    <3>4. verticesSeen' \in [Vert -> Int]
      <4>1. CASE Publish(t)
        <5>1. verticesSeen' = verticesSeen \/
              verticesSeen' = [verticesSeen EXCEPT ![startVert[t]] = verticesSeen[startVert[t]] + 1]
          BY <4>1 DEF Publish
        <5> QED BY <1>0, <5>1 DEF TreeTypes
      <4>2. CASE ~Publish(t)
        <5>1. verticesSeen' = verticesSeen
          BY <1>5, <2>6, <4>2 DEF TaskStep, OnlyLeaf, Launch, Start, Capture, CaptureWith,
             OpenNode, Retire, MergeNeighbor, CloseArcs, Restart, segmVars
        <5> QED BY <5>1 DEF TreeTypes
      <4> QED BY <4>1, <4>2
    <3> QED BY <1>0, <1>1, <1>2, <1>3, <2>1, <2>2, <2>3, <2>4, <3>1, <3>2, <3>3, <3>4 DEF TreeTypes
  <2> QED BY <2>5, <2>6
<1> QED BY <1>4, <1>5

(* A step of the growth keeps what it counts, and leaves the trunk empty.  *)
LEMMA GrowthTypesStep ==
    ASSUME Types, GInv, GrowthTypes, NEW t \in Leaves, TaskStep(t), ~Overtake
    PROVE  GrowthTypes'
<1>1. TreeTypes /\ ArcInv /\ \A u \in Vert : SizeOf(u)
  BY DEF GrowthTypes
<1>2. ArcInv' /\ \A u \in Vert : SizeOf(u)'
  BY <1>1, ArcInvStep, SizeStep
<1>3. Types'
  BY TaskKeeps, LeavesFacts
<1>4. TreeTypes'
  BY <1>1, <1>2, <1>3, TreeTypesStep
<1>5. trunkVerts' = trunkVerts /\ trunkClosed' = trunkClosed
  BY DEF TaskStep, OnlyLeaf, Launch, Start, Visit, Capture, CaptureWith, Publish, OpenNode,
     Retire, MergeNeighbor, CloseArcs, Restart, CloseRoot, trunkVars
<1> QED BY <1>2, <1>4, <1>5 DEF GrowthTypes

(* Nothing is counted before the tasks start.                              *)
LEMMA InitCounts == Init => GrowthTypes
<1> SUFFICES ASSUME Init PROVE GrowthTypes
  OBVIOUS
<1>1. /\ Types /\ GInv /\ N \in Nat /\ N >= 2
      /\ Leaves = {v \in Vert : Lower(v) = {}} /\ IsNode # Null
  BY InitGrowth, NAssumption, LeavesFacts, VertFacts
<1>2. /\ openedArcs = [v \in Vert |-> {}] /\ rank = [v \in Vert |-> 0]
      /\ openedNodes = {} /\ roots = {}
      /\ vert2tree = [v \in Vert |-> IF v \in Leaves THEN IsNode ELSE Null]
      /\ visitOrder = [v \in Vert |-> NoOrder] /\ nodes = Leaves
      /\ nbUp = [v \in Vert |-> 0] /\ verticesSeen = [v \in Vert |-> 0]
      /\ upNode = [v \in Vert |-> Null] /\ lastVisited = [v \in Vert |-> Null]
      /\ localOrder = [v \in Vert |-> -1] /\ decr = [v \in Vert |-> 0]
      /\ trunkVerts = <<>> /\ trunkClosed = 0
  BY DEF Init
<1>3. /\ \A t \in Leaves : t \in Vert /\ pc[t] = "waiting" /\ startVert[t] = t
      /\ valences = [v \in Vert |-> Cardinality(Lower(v))]
      /\ comp = [v \in Vert |-> v]
  BY <1>1 DEF Init
<1>4. TreeTypes
  <2>1. visitOrder \in [Vert -> {NoOrder} \cup (-1)..N] /\ nodes \subseteq Vert
        /\ vert2tree \in [Vert -> Vert \cup {Null, IsNode}]
        /\ openedArcs \in [Vert -> SUBSET Vert]
    BY <1>1, <1>2
  <2>2. /\ upNode \in [Vert -> Vert \cup {Null}] /\ lastVisited \in [Vert -> Vert \cup {Null}]
        /\ nbUp \in [Vert -> Int] /\ verticesSeen \in [Vert -> Int]
        /\ localOrder \in [Vert -> (-1)..N] /\ decr \in [Vert -> 0..N]
        /\ rank \in [Vert -> 0..N]
    BY <1>1, <1>2
  <2> QED BY <1>2, <2>1, <2>2 DEF TreeTypes
<1>5. \A v \in Vert : ~OnArc(v)
  BY <1>2 DEF OnArc
<1>6. \A a \in Vert : Regular(a) = {}
  BY <1>2, VertFacts DEF Regular
<1>7. Placed
  <2>1. Cardinality({}) = 0 /\ 0..(0 - 1) = {}
    BY FS_EmptySet
  <2>2. ASSUME NEW a \in Vert PROVE PlacedOf(a)
    <3>1. Regular(a) = {} /\ verticesSeen[a] = 0
      BY <1>2, <1>6
    <3>2. {visitOrder[v] : v \in {}} = {}
      OBVIOUS
    <3> QED BY <2>1, <3>1, <3>2 DEF PlacedOf
  <2> QED BY <2>2 DEF Placed
<1>8. Opening
  BY <1>2, <1>6 DEF Opening, OpenedOf
<1>9. Grows
  BY <1>3 DEF Grows, GrowsOf, OnItsArc
<1>10. Fresh
  <2> SUFFICES ASSUME NEW t \in Leaves PROVE FreshOf(t)
    BY DEF Fresh
  <2>1. Anchor(t) = t /\ t \in Vert /\ Lower(t) = {}
    BY <1>1, <1>3 DEF Anchor
  <2>2. valences[t] = 0 /\ nbUp[t] = 0
    BY <1>2, <1>3, <2>1, FS_EmptySet
  <2> QED BY <2>1, <2>2 DEF FreshOf
<1>11. MetOpen
  BY <1>2 DEF MetOpen
<1>12. OpenedNodes
  BY <1>2, <1>3 DEF OpenedNodes, Parked
<1>13. LastVertex
  BY <1>1, <1>5 DEF LastVertex, Vert
<1>14. Spent
  <2> SUFFICES ASSUME NEW v \in Vert, vert2tree[v] # Null PROVE valences[v] = 0
    BY DEF Spent, SpentOf
  <2>1. Lower(v) = {}
    BY <1>1, <1>2
  <2> QED BY <1>3, <2>1, FS_EmptySet
<1>15. \A u \in Vert : SizeOf(u)
  <2> SUFFICES ASSUME NEW u \in Vert PROVE SizeOf(u)
    OBVIOUS
  <2>1. Cardinality(ClassOf(u)) >= 1 /\ Cardinality(ClassOf(u)) \in 0..N
    BY <1>3, ClassFacts
  <2> QED BY <1>1, <1>2, <2>1 DEF SizeOf
<1> QED BY <1>2, <1>4, <1>7, <1>8, <1>9, <1>10, <1>11, <1>12, <1>13, <1>14, <1>15
        DEF GrowthTypes, ArcInv

(* The arcs that are not open have no vertex.                              *)
LEMMA NotOpened ==
    ASSUME Types, Opening, NEW a \in Vert
    PROVE  vert2tree[a] # IsNode \/ nbUp[a] = 0 => Regular(a) = {} /\ verticesSeen[a] = 0
  BY DEF Opening, OpenedOf

(* Of all the counters: a valence stays within the number of lower         *)
(* neighbours, the others within the number of vertices.                   *)
LEMMA GrowthRest ==
    ASSUME Types, GInv, SInv, CountsOut, GrowthTypes
    PROVE  RestTypes
<1>1. /\ N \in Nat /\ N >= 2 /\ IsFiniteSet(Vert) /\ Cardinality(Vert) = N
      /\ TreeTypes /\ Placed /\ Opening /\ Spent /\ trunkVerts = <<>> /\ trunkClosed = 0
  BY NAssumption, FS_Interval DEF Vert, GrowthTypes, ArcInv
<1>2. ASSUME NEW v \in Vert
      PROVE  LET k == Cardinality(Lower(v)) IN valences[v] \in (-k)..k
  <2>1. /\ Cardinality(Lower(v)) \in Nat /\ Cardinality(Accounted(v)) \in Nat
        /\ Accounted(v) \subseteq Lower(v) /\ IsFiniteSet(Lower(v)) /\ valences[v] \in Int
    BY AccountedFacts DEF Types
  <2>2. Cardinality(Accounted(v)) <= Cardinality(Lower(v))
    BY <2>1, FS_Subset
  <2>3. CASE vert2tree[v] = Null
    <3>1. valences[v] + Cardinality(Accounted(v)) = Cardinality(Lower(v))
      BY <2>3 DEF GInv, Counts
    <3> QED BY <2>1, <2>2, <3>1
  <2>4. CASE vert2tree[v] # Null
    <3>1. valences[v] = 0 \/ valences[v] = -Cardinality(Lower(v))
      BY <1>1, <2>4 DEF Spent, SpentOf
    <3> QED BY <2>1, <3>1
  <2> QED BY <2>3, <2>4
<1>3. activeTasks \in 0..N
  <2>1. IsFiniteSet(Leaves) /\ Leaves \subseteq Vert /\ Out \subseteq Leaves
    BY LeavesFacts DEF Out
  <2>2. /\ Cardinality(Leaves) \in Nat /\ Cardinality(Out) \in Nat
        /\ Cardinality(Out) <= Cardinality(Leaves) /\ Cardinality(Leaves) <= N
    BY <1>1, <2>1, FS_Subset, FS_CardinalityType
  <2> QED BY <1>1, <2>2 DEF CountsOut
<1>4. nbUp \in [Vert -> 0..N] /\ verticesSeen \in [Vert -> 0..N]
  <2>1. nbUp \in [Vert -> Int] /\ verticesSeen \in [Vert -> Int]
    BY <1>1 DEF TreeTypes
  <2>2. \A a \in Vert : nbUp[a] \in 0..N
    BY <1>1 DEF Opening, OpenedOf
  <2>3. ASSUME NEW a \in Vert PROVE verticesSeen[a] \in 0..N
    <3>1. CASE vert2tree[a] # IsNode
      BY <1>1, <3>1, NotOpened
    <3>2. CASE vert2tree[a] = IsNode
      <4>1. Cardinality(Regular(a)) \in 0..(N - 1)
        <5>1. a # IsNode
          BY VertFacts
        <5> QED BY <3>2, <5>1, RegularFacts
      <4>2. verticesSeen[a] = Cardinality(Regular(a)) + 1 \/ verticesSeen[a] = 0
        BY <1>1 DEF Placed, PlacedOf
      <4> QED BY <1>1, <4>1, <4>2
    <3> QED BY <3>1, <3>2
  <2> QED BY <2>1, <2>2, <2>3
<1>5. trunkVerts \in Seq(Vert) /\ trunkClosed \in 0..Len(trunkVerts)
  BY <1>1
<1> QED BY <1>2, <1>3, <1>4, <1>5 DEF RestTypes, Types, SInv
-------------------------------------------------------------------------------
(***************************************************************************)
(* The trunk.                                                              *)
(***************************************************************************)
(* The vertices of S in order are those of S, each of them once.           *)
LEMMA InOrderFacts ==
    ASSUME NEW S \in SUBSET Vert, NEW s \in InOrder(S)
    PROVE  /\ s \in Seq(S) /\ Len(s) = Cardinality(S)
           /\ ToSet(s) = S
           /\ s = <<>> <=> S = {}
           /\ \A i, j \in 1..Len(s) : i < j => s[i] < s[j]
<1> DEFINE n == Cardinality(S)
<1>1. IsFiniteSet(S) /\ n \in Nat
  BY VertFacts, FS_Subset, FS_CardinalityType
<1>2. s \in [1..n -> S] /\ \A i, j \in 1..n : i < j => s[i] < s[j]
  BY DEF InOrder
<1>3. s \in Seq(S) /\ Len(s) = n
  <2> HIDE DEF n
  <2> QED BY <1>1, <1>2
<1>4. \A i, j \in 1..n : s[i] = s[j] => i = j
  <2> SUFFICES ASSUME NEW i \in 1..n, NEW j \in 1..n, s[i] = s[j], i # j PROVE FALSE
    OBVIOUS
  <2>1. i \in Int /\ j \in Int /\ s[i] \in Nat /\ s[j] \in Nat
    <3>1. s[i] \in S /\ s[j] \in S
      BY <1>2
    <3>2. s[i] \in Nat /\ s[j] \in Nat
      BY <3>1, VertFacts
    <3> HIDE DEF n
    <3> QED BY <1>1, <3>2
  <2>2. i < j \/ j < i
    BY <2>1
  <2>3. s[i] < s[j] \/ s[j] < s[i]
    BY <1>2, <2>2
  <2> QED BY <2>1, <2>3
<1>5. s \in Injection(1..n, S)
  <2> HIDE DEF n
  <2> QED BY <1>2, <1>4 DEF Injection, IsInjective
<1>6. IsFiniteSet(1..n) /\ Cardinality(1..n) = n
  <2>1. IsFiniteSet(1..n) /\ Cardinality(1..n) = IF 1 > n THEN 0 ELSE n - 1 + 1
    <3> HIDE DEF n
    <3> QED BY <1>1, FS_Interval
  <2> HIDE DEF n
  <2> QED BY <1>1, <2>1
<1>7. s \in Surjection(1..n, S)
  BY <1>1, <1>5, <1>6, FS_Injection
<1>8. \A x \in S : \E i \in 1..n : s[i] = x
  BY <1>7 DEF Surjection
<1>9. ToSet(s) = S
  <2>1. DOMAIN s = 1..n
    BY <1>2
  <2> QED BY <1>2, <1>8, <2>1 DEF ToSet
<1>10. s = <<>> <=> S = {}
  <2>1. n = 0 <=> S = {}
    BY <1>1, FS_EmptySet
  <2> HIDE DEF n
  <2> QED BY <1>3, <2>1
<1> QED BY <1>2, <1>3, <1>9, <1>10

(* The greater of two numbers.                                             *)
LEMMA MaxPair ==
    ASSUME NEW x \in Int
    PROVE  Max({0, x}) = IF x >= 0 THEN x ELSE 0
<1>1. ASSUME NEW m \in {0, x}, m >= 0, m >= x PROVE Max({0, x}) = m
  <2>1. \A y \in {0, x} : m >= y
    BY <1>1
  <2>2. ASSUME NEW z \in {0, x}, \A y \in {0, x} : z >= y PROVE z = m
    BY <1>1, <2>2
  <2> QED BY <1>1, <2>1, <2>2 DEF Max
<1> QED BY <1>1

(* Where every place of an arc is taken, its segment is filled.            *)
LEMMA PlacedFilled ==
    ASSUME NEW a \in Vert, PlacedOf(a)
    PROVE  FilledOf(a)
<1> DEFINE R == Regular(a)
           k == Cardinality(R)
<1>1. /\ {visitOrder[x] : x \in R} = 0..(k - 1)
      /\ verticesSeen[a] = k + 1 \/ (R = {} /\ verticesSeen[a] = 0)
  BY DEF PlacedOf
<1>2. k \in Nat
  BY RegularFacts
<1>3. Visited(a) = R
  <2>1. \A x \in R : visitOrder[x] \in 0..(k - 1)
    BY <1>1
  <2>2. \A x \in R : visitOrder[x] # NoOrder
    BY <1>2, <2>1 DEF NoOrder
  <2> QED BY <2>2 DEF Visited
<1>4. SegmentSize(a) = k
  <2>1. R = {} => k = 0
    BY FS_EmptySet
  <2> HIDE DEF k
  <2>2. verticesSeen[a] - 1 \in Int /\ (verticesSeen[a] - 1 = k \/ (verticesSeen[a] - 1 = -1 /\ k = 0))
    BY <1>1, <1>2, <2>1
  <2>3. Max({0, verticesSeen[a] - 1}) = k
    BY <1>2, <2>2, MaxPair
  <2> QED BY <2>3 DEF SegmentSize
<1>5. R \ Visited(a) = {} /\ Cardinality({}) = 0 /\ 0..(0 - 1) = {}
  BY <1>3, FS_EmptySet
<1> QED BY <1>1, <1>3, <1>4, <1>5 DEF FilledOf

(* The greatest of a nonempty set of vertices.                             *)
LEMMA MaxFacts ==
    ASSUME NEW S \in SUBSET Vert, S # {}
    PROVE  Max(S) \in S /\ \A x \in S : x <= Max(S)
<1>1. N \in Nat /\ S \subseteq 1..N
  BY NAssumption DEF Vert
<1> DEFINE T == {v \in Vert : N + 1 - v \in S}
<1>2. T \in SUBSET Vert /\ T # {}
  <2>1. PICK x \in S : TRUE
    OBVIOUS
  <2>2. x \in 1..N /\ N + 1 - x \in Vert /\ N + 1 - (N + 1 - x) = x
    BY <1>1 DEF Vert
  <2>3. N + 1 - x \in T
    BY <2>1, <2>2
  <2> QED BY <2>3
<1> DEFINE m == Min(T)
<1> HIDE DEF T
<1>3. m \in T /\ \A y \in T : m <= y
  BY <1>2, MinFacts
<1>4. N + 1 - m \in S /\ m \in 1..N
  BY <1>2, <1>3 DEF T, Vert
<1>5. ASSUME NEW x \in S PROVE x <= N + 1 - m
  <2>1. x \in 1..N /\ N + 1 - x \in Vert /\ N + 1 - (N + 1 - x) = x
    BY <1>1 DEF Vert
  <2>2. N + 1 - x \in T
    BY <2>1 DEF T
  <2> HIDE DEF m
  <2>3. m <= N + 1 - x
    BY <1>3, <2>2
  <2> QED BY <1>1, <1>4, <2>1, <2>3
<1> HIDE DEF m
<1>6. \E z \in S : \A x \in S : x <= z
  BY <1>4, <1>5
<1> QED BY <1>6 DEF Max

(* Nothing changes but, at most, the states that are listed.               *)
OnlyStates ==
    /\ states' = states \/ states' \in Listed
    /\ UNCHANGED <<mesh, phase, comp, rank, openedArcs, ufs, propagation, valences,
                   openedNodes, segmVars, treeVars, activeTasks, trunkVars, pc, callVars,
                   visitVars>>

(* So it is in a turn of mergeStates, and in a step that is none.          *)
LEMMA StatesOnly ==
    ASSUME UNCHANGED vars \/ (Types /\ GInv /\ \E t \in Vert : MergeStates(t))
    PROVE  OnlyStates
<1>1. CASE UNCHANGED vars
  BY <1>1 DEF vars, ufVars, OnlyStates
<1>2. ASSUME Types, GInv, NEW t \in Vert, MergeStates(t) PROVE OnlyStates
  <2>1. states' \in Listed
    BY <1>2, MergeStatesFrame
  <2> QED BY <1>2, <2>1, MergeStatesFrame DEF OnlyStates
<1> QED BY <1>1, <1>2

(* Such a step keeps the counts.                                           *)
LEMMA CountsStay ==
    ASSUME CountInv, OnlyStates
    PROVE  CountInv'
<1>1. /\ mesh' = mesh /\ phase' = phase /\ comp' = comp /\ rank' = rank
      /\ openedArcs' = openedArcs /\ ufs' = ufs /\ propagation' = propagation
      /\ valences' = valences /\ openedNodes' = openedNodes /\ vert2tree' = vert2tree
      /\ visitOrder' = visitOrder /\ nodes' = nodes /\ nbUp' = nbUp /\ upNode' = upNode
      /\ lastVisited' = lastVisited /\ verticesSeen' = verticesSeen /\ roots' = roots
      /\ activeTasks' = activeTasks /\ trunkVerts' = trunkVerts /\ trunkClosed' = trunkClosed
      /\ pc' = pc /\ startVert' = startVert /\ startUF' = startUF /\ seenFirst' = seenFirst
      /\ localOrder' = localOrder /\ cur' = cur /\ isSaddle' = isSaddle /\ decr' = decr
      /\ isLast' = isLast /\ todo' = todo
  BY DEF OnlyStates, segmVars, treeVars, trunkVars, callVars, visitVars
<1>2. /\ Leaves' = Leaves /\ \A v : Lower(v)' = Lower(v)
      /\ \A a : Regular(a)' = Regular(a)
      /\ \A a : Visited(a)' = Visited(a)
      /\ \A a : SegmentSize(a)' = SegmentSize(a)
  BY <1>1 DEF Leaves, Lower, Regular, Visited, SegmentSize
<1>3. \A v : OnArc(v)' <=> OnArc(v)
  BY <1>1 DEF OnArc
<1>4. \A t : /\ (OnItsArc(t)' <=> OnItsArc(t)) /\ Anchor(t)' = Anchor(t)
             /\ (Parked(t)' <=> Parked(t))
  BY <1>1 DEF OnItsArc, Anchor, Parked
<1>5. TreeTypes' <=> TreeTypes
  BY <1>1 DEF TreeTypes
<1>6. RestTypes => RestTypes'
  <2>1. states \in Listed => states' \in Listed
    BY DEF OnlyStates, Listed, Queue
  <2> QED BY <1>1, <1>2, <2>1 DEF RestTypes, Listed, Queue
<1>7. \A a : (PlacedOf(a)' <=> PlacedOf(a)) /\ (OpenedOf(a)' <=> OpenedOf(a))
             /\ (FilledOf(a)' <=> FilledOf(a)) /\ (SpentOf(a)' <=> SpentOf(a))
  BY <1>1, <1>2 DEF PlacedOf, OpenedOf, FilledOf, SpentOf
<1>8. \A t : (GrowsOf(t)' <=> GrowsOf(t)) /\ (FreshOf(t)' <=> FreshOf(t))
  BY <1>1, <1>2, <1>4 DEF GrowsOf, FreshOf
<1>9. \A u : SizeOf(u)' <=> SizeOf(u)
  BY <1>1 DEF SizeOf, ClassOf
<1>10. (MetOpen' <=> MetOpen) /\ (OpenedNodes' <=> OpenedNodes) /\ (LastVertex' <=> LastVertex)
  BY <1>1, <1>2, <1>3, <1>4 DEF MetOpen, OpenedNodes, LastVertex
<1>11. ArcInv' <=> ArcInv
  BY <1>2, <1>7, <1>8, <1>10 DEF ArcInv, Placed, Opening, Grows, Fresh, Spent
<1>12. GrowthTypes' <=> GrowthTypes
  BY <1>1, <1>5, <1>9, <1>11 DEF GrowthTypes
<1>13. TrunkSet' = TrunkSet
  BY <1>1 DEF TrunkSet
<1>14. TrunkInv' <=> TrunkInv
  BY <1>1, <1>2, <1>3, <1>7, <1>13 DEF TrunkInv
<1> QED BY <1>1, <1>5, <1>6, <1>7, <1>12, <1>14 DEF CountInv

(* What no step of the trunk changes.                                      *)
LEMMA TrunkFrame ==
    ASSUME UNCHANGED growthVars, TreeTypes, RestTypes,
           comp' \in [Vert -> Vert], ufs' \in [Vert -> Vert \cup {Null}],
           openedArcs' \in [Vert -> SUBSET Vert],
           vert2tree' \in [Vert -> Vert \cup {Null, IsNode}], nodes' \subseteq Vert,
           nbUp' \in [Vert -> 0..N], verticesSeen' \in [Vert -> 0..N],
           upNode' \in [Vert -> Vert \cup {Null}],
           lastVisited' \in [Vert -> Vert \cup {Null}],
           trunkVerts' \in Seq(Vert), trunkClosed' \in 0..Len(trunkVerts')
    PROVE  TreeTypes' /\ RestTypes'
<1>1. /\ mesh' = mesh /\ rank' = rank /\ states' = states
      /\ propagation' = propagation /\ valences' = valences /\ openedNodes' = openedNodes
      /\ visitOrder' = visitOrder /\ roots' = roots /\ activeTasks' = activeTasks
      /\ pc' = pc /\ startVert' = startVert /\ startUF' = startUF /\ seenFirst' = seenFirst
      /\ localOrder' = localOrder /\ cur' = cur /\ isSaddle' = isSaddle /\ decr' = decr
      /\ isLast' = isLast /\ todo' = todo
  BY DEF growthVars, callVars, visitVars
<1>2. \A v : Lower(v)' = Lower(v)
  BY <1>1 DEF Lower
<1>3. nbUp' \in [Vert -> Int] /\ verticesSeen' \in [Vert -> Int]
  <2>1. N \in Nat /\ 0..N \subseteq Int
    BY NAssumption
  <2> QED BY <2>1
<1>4. TreeTypes'
  BY <1>1, <1>3 DEF TreeTypes
<1>5. RestTypes'
  BY <1>1, <1>2 DEF RestTypes, Listed, Queue
<1> QED BY <1>4, <1>5

(* When every task has stopped, the vertices left to the trunk have no arc *)
(* yet, and every segment is filled but for theirs.                        *)
LEMMA BeginTrunkCounts ==
    ASSUME Types, GInv, SInv, CountsOut, GrowthTypes, BeginTrunk
    PROVE  CountInv'
<1> DEFINE S == {v \in openedNodes : StillOpen(v)}
<1>1. /\ phase = "growth" /\ \A l \in Leaves : pc[l] = "stopped"
      /\ trunkVerts' \in InOrder(S)
      /\ phase' = IF trunkVerts' = <<>> THEN "done" ELSE "trunk"
      /\ UNCHANGED growthVars /\ trunkClosed' = trunkClosed
      /\ comp' = comp /\ openedArcs' = openedArcs /\ ufs' = ufs /\ vert2tree' = vert2tree
      /\ lastVisited' = lastVisited /\ verticesSeen' = verticesSeen /\ nodes' = nodes
      /\ nbUp' = nbUp /\ upNode' = upNode
  BY DEF BeginTrunk
<1>2. visitOrder' = visitOrder
  BY <1>1 DEF growthVars
<1>3. /\ TreeTypes /\ RestTypes /\ Placed /\ Opening /\ MetOpen /\ OpenedNodes /\ LastVertex
      /\ trunkClosed = 0
  BY GrowthRest DEF GrowthTypes, ArcInv
<1>4. S \in SUBSET Vert
  BY <1>3 DEF OpenedNodes
<1>5. /\ trunkVerts' \in Seq(Vert) /\ TrunkSet' = S /\ Len(trunkVerts') \in Nat
      /\ trunkVerts' = <<>> <=> S = {}
  BY <1>1, <1>4, InOrderFacts DEF TrunkSet
<1>6. trunkClosed' \in 0..Len(trunkVerts')
  BY <1>1, <1>3, <1>5
<1>7. TreeTypes' /\ RestTypes'
  <2>1. /\ comp' \in [Vert -> Vert] /\ ufs' \in [Vert -> Vert \cup {Null}]
        /\ openedArcs' \in [Vert -> SUBSET Vert]
        /\ vert2tree' \in [Vert -> Vert \cup {Null, IsNode}] /\ nodes' \subseteq Vert
        /\ nbUp' \in [Vert -> 0..N] /\ verticesSeen' \in [Vert -> 0..N]
        /\ upNode' \in [Vert -> Vert \cup {Null}]
        /\ lastVisited' \in [Vert -> Vert \cup {Null}]
    BY <1>1, <1>3 DEF TreeTypes, RestTypes
  <2> QED BY <1>1, <1>3, <1>5, <1>6, <2>1, TrunkFrame
<1>8. \A a : /\ Regular(a)' = Regular(a) /\ Visited(a)' = Visited(a)
             /\ SegmentSize(a)' = SegmentSize(a)
  BY <1>1, <1>2 DEF Regular, Visited, SegmentSize
<1>9. \A a : (PlacedOf(a)' <=> PlacedOf(a)) /\ (FilledOf(a)' <=> FilledOf(a))
             /\ (OnArc(a)' <=> OnArc(a))
  <2>1. \A a : PlacedOf(a)' <=> PlacedOf(a)
    BY <1>1, <1>2, <1>8 DEF PlacedOf
  <2>2. \A a : FilledOf(a)' <=> FilledOf(a)
    BY <1>2, <1>8 DEF FilledOf
  <2>3. \A a : OnArc(a)' <=> OnArc(a)
    BY <1>1 DEF OnArc
  <2> QED BY <2>1, <2>2, <2>3
<1>10. CASE S = {}
  <2>1. phase' = "done"
    BY <1>1, <1>5, <1>10
  <2>2. \A a \in Vert : FilledOf(a)'
    BY <1>3, <1>9, PlacedFilled DEF Placed
  <2> QED BY <1>7, <2>1, <2>2 DEF CountInv
<1>11. CASE S # {}
  <2>1. phase' = "trunk" /\ trunkVerts' # <<>>
    BY <1>1, <1>5, <1>11
  <2>2. \A a \in Vert : PlacedOf(a)' /\ nbUp'[a] \in {0, 1}
    BY <1>1, <1>3, <1>9 DEF Placed, Opening, OpenedOf
  <2>3. ASSUME NEW a \in S
        PROVE  /\ Regular(a)' = {} /\ ~OnArc(a)' /\ ufs'[a] # Null
               /\ verticesSeen'[a] = 0 /\ nbUp'[a] = 0
    <3>1. a \in Vert /\ ~OnArc(a) /\ ufs[a] # Null /\ StillOpen(a)
      BY <1>3 DEF OpenedNodes
    <3>2. nbUp[a] = 0 /\ Regular(a) = {} /\ verticesSeen[a] = 0
      BY <1>3, <3>1 DEF StillOpen, Opening, OpenedOf
    <3> QED BY <1>1, <1>8, <1>9, <3>1, <3>2
  <2>4. ~OnArc(N)'
    <3>1. ~OnArc(N)
      BY <1>1, <1>3 DEF LastVertex
    <3> QED BY <1>9, <3>1
  <2>5. ASSUME NEW v \in Vert, vert2tree'[v] = Null, visitOrder'[v] # NoOrder PROVE v \in S
    <3>1. vert2tree[v] = Null /\ visitOrder[v] # NoOrder
      BY <1>1, <1>2, <2>5
    <3>2. v \in openedNodes
      BY <1>1, <1>3, <3>1 DEF MetOpen
    <3> QED BY <3>1, <3>2, VertFacts DEF StillOpen
  <2>6. \A i \in 1..trunkClosed' : vert2tree'[trunkVerts'[i]] = IsNode
    BY <1>1, <1>3
  <2> HIDE DEF S
  <2>7. TrunkInv'
    BY <1>4, <1>5, <2>1, <2>2, <2>3, <2>4, <2>5, <2>6 DEF TrunkInv
  <2> QED BY <1>7, <2>1, <2>7 DEF CountInv
<1> QED BY <1>10, <1>11

(* A trunk vertex becomes a node: no segment changes.                      *)
LEMMA TrunkCloseCounts ==
    ASSUME TreeTypes, RestTypes, TrunkInv, TrunkClose
    PROVE  CountInv'
<1> DEFINE k == trunkClosed + 1
           v == trunkVerts[k]
<1>1. /\ phase = "trunk" /\ trunkClosed < Len(trunkVerts)
      /\ CloseOnBackBone(v) /\ trunkClosed' = k
      /\ UNCHANGED growthVars /\ phase' = phase /\ trunkVerts' = trunkVerts
      /\ lastVisited' = lastVisited /\ verticesSeen' = verticesSeen /\ nbUp' = nbUp
  BY DEF TrunkClose, TrunkCloseUpTo
<1>2. /\ trunkVerts \in Seq(Vert) /\ Len(trunkVerts) \in Nat /\ trunkClosed \in Nat
      /\ comp \in [Vert -> Vert] /\ ufs \in [Vert -> Vert \cup {Null}]
      /\ openedArcs \in [Vert -> SUBSET Vert]
      /\ vert2tree \in [Vert -> Vert \cup {Null, IsNode}] /\ nodes \subseteq Vert
      /\ upNode \in [Vert -> Vert \cup {Null}] /\ visitOrder' = visitOrder
  <2>1. trunkVerts \in Seq(Vert) /\ trunkClosed \in 0..Len(trunkVerts)
    BY DEF RestTypes
  <2>2. Len(trunkVerts) \in Nat /\ trunkClosed \in Nat
    BY <2>1
  <2>3. /\ comp \in [Vert -> Vert] /\ ufs \in [Vert -> Vert \cup {Null}]
        /\ openedArcs \in [Vert -> SUBSET Vert]
        /\ vert2tree \in [Vert -> Vert \cup {Null, IsNode}] /\ nodes \subseteq Vert
        /\ upNode \in [Vert -> Vert \cup {Null}]
    BY DEF TreeTypes, RestTypes
  <2>4. visitOrder' = visitOrder
    BY <1>1 DEF growthVars
  <2> QED BY <2>1, <2>2, <2>3, <2>4
<1>3. k \in 1..Len(trunkVerts) /\ v \in Vert /\ v \in TrunkSet
  BY <1>1, <1>2 DEF TrunkSet, ToSet
<1>4. TrunkSet \subseteq Vert
  BY <1>2 DEF TrunkSet, ToSet
<1>5. ufs[v] # Null /\ Regular(v) = {} /\ ~OnArc(v)
  BY <1>3, <1>4 DEF TrunkInv
<1> DEFINE u == find(ufs[v])
<1>6. u \in Vert
  BY <1>2, <1>3, <1>5 DEF find
<1>7. /\ nodes' \subseteq Vert /\ vert2tree' = [vert2tree EXCEPT ![v] = IsNode]
      /\ comp' \in [Vert -> Vert] /\ ufs' = [ufs EXCEPT ![v] = u]
      /\ upNode' \in [Vert -> Vert \cup {Null}]
      /\ openedArcs' \in [Vert -> SUBSET Vert]
  <2> HIDE DEF v, k
  <2>1. nodes' = nodes \cup {v} /\ vert2tree' = [vert2tree EXCEPT ![v] = IsNode]
        /\ ufs' = [ufs EXCEPT ![v] = u]
    BY <1>1 DEF CloseOnBackBone
  <2>2. PICK met \in {{u} \cup {find(ufs[n]) : n \in {m \in Lower(v) : ufs[m] # Null}}} :
           comp' = [w \in Vert |-> IF comp[w] \in met THEN u ELSE comp[w]]
    BY <1>1 DEF CloseOnBackBone
  <2>3. comp' \in [Vert -> Vert]
    BY <1>2, <1>6, <2>2
  <2>4. PICK arcs \in {UNION {openedArcs[w] : w \in {u} \cup {find(ufs[n]) : n \in {m \in Lower(v) : ufs[m] # Null}}}} :
           upNode' = [a \in Vert |-> IF a \in arcs THEN v ELSE upNode[a]]
    BY <1>1 DEF CloseOnBackBone
  <2>5. upNode' \in [Vert -> Vert \cup {Null}]
    BY <1>2, <1>3, <2>4
  <2>6. PICK all \in {{u} \cup {find(ufs[n]) : n \in {m \in Lower(v) : ufs[m] # Null}}} :
           openedArcs' = [w \in Vert |-> IF w \in all THEN {} ELSE openedArcs[w]]
    BY <1>1 DEF CloseOnBackBone
  <2>7. openedArcs' \in [Vert -> SUBSET Vert]
    BY <1>2, <2>6
  <2> QED BY <1>2, <1>3, <2>1, <2>3, <2>5, <2>7
<1> HIDE DEF u
<1>8. /\ vert2tree' \in [Vert -> Vert \cup {Null, IsNode}]
      /\ ufs' \in [Vert -> Vert \cup {Null}]
  <2> HIDE DEF v
  <2> QED BY <1>2, <1>3, <1>6, <1>7
<1>9. TreeTypes' /\ RestTypes'
  <2>1. trunkClosed' \in 0..Len(trunkVerts')
    BY <1>1, <1>2, <1>3
  <2>2. /\ nbUp' \in [Vert -> 0..N] /\ verticesSeen' \in [Vert -> 0..N]
        /\ lastVisited' \in [Vert -> Vert \cup {Null}] /\ trunkVerts' \in Seq(Vert)
    BY <1>1 DEF TreeTypes, RestTypes
  <2> QED BY <1>1, <1>7, <1>8, <2>1, <2>2, TrunkFrame
<1>10. \A a \in Vert : Regular(a)' = Regular(a)
  <2> HIDE DEF v
  <2> SUFFICES ASSUME NEW a \in Vert PROVE Regular(a)' = Regular(a)
    OBVIOUS
  <2>1. a # IsNode /\ a # Null
    BY VertFacts
  <2>2. vert2tree[v] \notin Vert
    BY <1>2, <1>3, <1>5, VertFacts DEF OnArc
  <2>3. ASSUME NEW x \in Vert PROVE vert2tree'[x] = a <=> vert2tree[x] = a
    BY <1>2, <1>7, <2>1, <2>2
  <2> QED BY <2>3 DEF Regular
<1>11. \A a \in Vert : PlacedOf(a)' <=> PlacedOf(a)
  BY <1>1, <1>2, <1>10 DEF PlacedOf
<1>12. \A x \in Vert : OnArc(x)' => OnArc(x)
  <2> HIDE DEF v
  <2> QED BY <1>2, <1>7 DEF OnArc
<1>13. TrunkSet' = TrunkSet /\ N \in Vert
  BY <1>1, NAssumption DEF TrunkSet, Vert
<1>14. ASSUME NEW i \in 1..trunkClosed' PROVE vert2tree'[trunkVerts'[i]] = IsNode
  <2>1. i = k \/ i \in 1..trunkClosed
    BY <1>1, <1>2
  <2>2. trunkVerts[i] \in Vert
    BY <1>1, <1>2, <1>3
  <2>3. CASE i \in 1..trunkClosed
    <3>1. vert2tree[trunkVerts[i]] = IsNode
      BY <2>3 DEF TrunkInv
    <3> HIDE DEF v, k
    <3> QED BY <1>1, <1>2, <1>7, <2>2, <3>1
  <2>4. CASE i = k
    BY <1>1, <1>2, <1>3, <1>7, <2>4
  <2> QED BY <2>1, <2>3, <2>4
<1>15. \A x \in Vert : vert2tree'[x] = Null => vert2tree[x] = Null
  <2>1. IsNode # Null
    BY VertFacts
  <2> HIDE DEF v
  <2> QED BY <1>2, <1>7, <2>1
<1>16. \A a \in TrunkSet : ufs'[a] # Null
  <2>1. u # Null
    BY <1>6, VertFacts
  <2>2. \A a \in TrunkSet : a \in Vert /\ ufs[a] # Null
    BY <1>4 DEF TrunkInv
  <2> HIDE DEF v
  <2> QED BY <1>2, <1>7, <2>1, <2>2
<1> HIDE DEF v, k
<1>17. TrunkInv'
  <2>1. \A a \in Vert \ TrunkSet : PlacedOf(a)'
    BY <1>11 DEF TrunkInv
  <2>2. \A a \in Vert : nbUp'[a] \in {0, 1}
    BY <1>1 DEF TrunkInv
  <2>3. ASSUME NEW a \in TrunkSet
        PROVE  /\ Regular(a)' = {} /\ ~OnArc(a)'
               /\ verticesSeen'[a] = 0 /\ nbUp'[a] = 0
    BY <1>1, <1>4, <1>10, <1>12 DEF TrunkInv
  <2>4. trunkVerts' # <<>> /\ ~OnArc(N)'
    BY <1>1, <1>12, <1>13 DEF TrunkInv
  <2>5. \A x \in Vert : vert2tree'[x] = Null /\ visitOrder'[x] # NoOrder => x \in TrunkSet
    BY <1>2, <1>15 DEF TrunkInv
  <2> QED BY <1>1, <1>13, <1>14, <1>16, <2>1, <2>2, <2>3, <2>4, <2>5 DEF TrunkInv
<1> QED BY <1>1, <1>9, <1>17 DEF CountInv

(* The arcs of the trunk are opened: their first vertex is seen.           *)
LEMMA TrunkArcsCounts ==
    ASSUME TreeTypes, RestTypes, TrunkInv, TrunkArcs
    PROVE  CountInv'
<1>1. /\ phase = "trunk" /\ trunkClosed = Len(trunkVerts) /\ phase' = "segment"
      /\ nodes' = nodes \cup {N} /\ vert2tree' = [vert2tree EXCEPT ![N] = IsNode]
      /\ nbUp' = [v \in Vert |-> IF v \in TrunkSet THEN nbUp[v] + 1 ELSE nbUp[v]]
      /\ verticesSeen' = [v \in Vert |-> IF v \in TrunkSet THEN verticesSeen[v] + 1
                                         ELSE verticesSeen[v]]
      /\ UNCHANGED growthVars /\ comp' = comp /\ openedArcs' = openedArcs /\ ufs' = ufs
      /\ trunkVerts' = trunkVerts /\ trunkClosed' = trunkClosed
  BY DEF TrunkArcs, TrunkSet, trunkVars
<1>2. /\ trunkVerts \in Seq(Vert) /\ trunkClosed \in 0..Len(trunkVerts)
      /\ comp \in [Vert -> Vert] /\ ufs \in [Vert -> Vert \cup {Null}]
      /\ openedArcs \in [Vert -> SUBSET Vert]
      /\ vert2tree \in [Vert -> Vert \cup {Null, IsNode}] /\ nodes \subseteq Vert
      /\ upNode \in [Vert -> Vert \cup {Null}] /\ lastVisited \in [Vert -> Vert \cup {Null}]
      /\ nbUp \in [Vert -> 0..N] /\ verticesSeen \in [Vert -> 0..N]
  BY DEF TreeTypes, RestTypes
<1>3. TrunkSet \subseteq Vert /\ N \in Vert /\ N \in Nat /\ N >= 2
  <2>1. TrunkSet \subseteq Vert
    BY <1>2 DEF TrunkSet, ToSet
  <2>2. N \in Vert /\ N \in Nat /\ N >= 2
    BY NAssumption DEF Vert
  <2> QED BY <2>1, <2>2
<1>4. visitOrder' = visitOrder
  BY <1>1 DEF growthVars
<1> DEFINE next(v) == LET above == {w \in TrunkSet : w > v}
                      IN  IF above = {} THEN N ELSE Min(above)
<1>5. \A v \in Vert : next(v) \in Vert
  <2> SUFFICES ASSUME NEW v \in Vert PROVE next(v) \in Vert
    OBVIOUS
  <2>1. {w \in TrunkSet : w > v} \in SUBSET Vert
    BY <1>3
  <2> QED BY <1>3, <2>1, MinFacts
<1>6. /\ upNode' = [v \in Vert |-> IF v \in TrunkSet THEN next(v) ELSE upNode[v]]
      /\ lastVisited' = [v \in Vert |-> IF v \in TrunkSet THEN next(v) ELSE lastVisited[v]]
  BY DEF TrunkArcs, TrunkSet
<1> HIDE DEF next
<1>7. upNode' \in [Vert -> Vert \cup {Null}] /\ lastVisited' \in [Vert -> Vert \cup {Null}]
  BY <1>2, <1>5, <1>6
<1>8. \A a \in TrunkSet : /\ verticesSeen[a] = 0 /\ nbUp[a] = 0 /\ Regular(a) = {}
                          /\ ~OnArc(a) /\ ufs[a] # Null
  BY <1>1 DEF TrunkInv
<1>9. nbUp' \in [Vert -> 0..N] /\ verticesSeen' \in [Vert -> 0..N]
  BY <1>1, <1>2, <1>3, <1>8
<1>10. vert2tree' \in [Vert -> Vert \cup {Null, IsNode}] /\ nodes' \subseteq Vert
  BY <1>1, <1>2, <1>3
<1>11. TreeTypes' /\ RestTypes'
  <2>1. trunkVerts' \in Seq(Vert) /\ trunkClosed' \in 0..Len(trunkVerts')
    BY <1>1, <1>2
  <2> QED BY <1>1, <1>2, <1>7, <1>9, <1>10, <2>1, TrunkFrame DEF TreeTypes, RestTypes
<1>12. \A a \in Vert : Regular(a)' = Regular(a)
  <2> SUFFICES ASSUME NEW a \in Vert PROVE Regular(a)' = Regular(a)
    OBVIOUS
  <2>1. a # IsNode /\ vert2tree[N] \notin Vert
    BY <1>2, <1>3, VertFacts DEF TrunkInv, OnArc
  <2>2. ASSUME NEW x \in Vert PROVE vert2tree'[x] = a <=> vert2tree[x] = a
    BY <1>1, <1>2, <1>3, <2>1
  <2> QED BY <2>2 DEF Regular
<1>13. \A a \in Vert \ TrunkSet : PlacedOf(a)'
  <2> SUFFICES ASSUME NEW a \in Vert, a \notin TrunkSet PROVE PlacedOf(a)'
    OBVIOUS
  <2>1. verticesSeen'[a] = verticesSeen[a] /\ PlacedOf(a)
    BY <1>1 DEF TrunkInv
  <2> QED BY <1>4, <1>12, <2>1 DEF PlacedOf
<1>14. \A a \in Vert : nbUp'[a] \in {0, 1}
  BY <1>1, <1>8 DEF TrunkInv
<1>15. \A x \in Vert : OnArc(x)' => OnArc(x)
  BY <1>1, <1>2 DEF OnArc
<1>16. \A a \in TrunkSet : /\ Regular(a)' = {} /\ ~OnArc(a)' /\ ufs'[a] # Null
                           /\ verticesSeen'[a] = 1
  BY <1>1, <1>3, <1>8, <1>12, <1>15
<1>17. /\ ~OnArc(N)' /\ trunkVerts # <<>>
       /\ \A x \in Vert : vert2tree[x] = Null /\ visitOrder[x] # NoOrder => x \in TrunkSet
       /\ \A i \in 1..trunkClosed : vert2tree[trunkVerts[i]] = IsNode
  BY <1>3, <1>15 DEF TrunkInv
<1>18. /\ \A x \in Vert : vert2tree'[x] = Null => vert2tree[x] = Null
       /\ \A x \in Vert : vert2tree[x] = IsNode => vert2tree'[x] = IsNode
  <2>1. IsNode # Null
    BY VertFacts
  <2> QED BY <1>1, <1>2, <2>1
<1>19. \A i \in 1..trunkClosed : vert2tree'[trunkVerts[i]] = IsNode
  <2> SUFFICES ASSUME NEW i \in 1..trunkClosed PROVE vert2tree'[trunkVerts[i]] = IsNode
    OBVIOUS
  <2>1. trunkVerts[i] \in Vert
    BY <1>1, <1>2
  <2> QED BY <1>17, <1>18, <2>1
<1>20. TrunkSet' = TrunkSet
  BY <1>1 DEF TrunkSet
<1>21. TrunkInv'
  BY <1>1, <1>4, <1>13, <1>14, <1>16, <1>17, <1>18, <1>19, <1>20 DEF TrunkInv
<1> QED BY <1>1, <1>11, <1>21 DEF CountInv

(* A vertex no task took goes to the arc of a trunk vertex below it, whose *)
(* segment is filled by the counter.                                       *)
LEMMA TrunkSegmentCounts ==
    ASSUME TreeTypes, RestTypes, TrunkInv, TrunkSegment
    PROVE  CountInv'
<1> DEFINE missing == {v \in trunkVerts[1]..N : vert2tree[v] = Null}
           M(a) == {v \in missing : VertInRange(v) = a}
<1>1. /\ phase = "segment" /\ phase' = "done"
      /\ vert2tree' = [v \in Vert |-> IF v \in missing THEN VertInRange(v) ELSE vert2tree[v]]
      /\ verticesSeen' = [a \in Vert |-> verticesSeen[a] + Cardinality(M(a))]
      /\ UNCHANGED growthVars /\ comp' = comp /\ openedArcs' = openedArcs /\ ufs' = ufs
      /\ trunkVerts' = trunkVerts /\ trunkClosed' = trunkClosed
      /\ lastVisited' = lastVisited /\ nodes' = nodes /\ nbUp' = nbUp /\ upNode' = upNode
  BY DEF TrunkSegment, trunkVars
<1>2. /\ trunkVerts \in Seq(Vert) /\ trunkVerts # <<>> /\ trunkClosed = Len(trunkVerts)
      /\ vert2tree \in [Vert -> Vert \cup {Null, IsNode}]
      /\ verticesSeen \in [Vert -> 0..N] /\ N \in Nat /\ N >= 2
  BY <1>1, NAssumption DEF TreeTypes, RestTypes, TrunkInv
<1>3. visitOrder' = visitOrder
  BY <1>1 DEF growthVars
<1>4. /\ trunkVerts[1] \in TrunkSet /\ TrunkSet \subseteq Vert
      /\ \A w \in TrunkSet : vert2tree[w] = IsNode
  <2>1. Len(trunkVerts) \in Nat /\ Len(trunkVerts) >= 1
    BY <1>2
  <2>2. TrunkSet \subseteq Vert /\ trunkVerts[1] \in TrunkSet
    BY <1>2, <2>1 DEF TrunkSet, ToSet
  <2>3. ASSUME NEW w \in TrunkSet PROVE vert2tree[w] = IsNode
    <3>1. PICK i \in 1..Len(trunkVerts) : w = trunkVerts[i]
      BY <1>2 DEF TrunkSet, ToSet
    <3> QED BY <1>2, <3>1 DEF TrunkInv
  <2> QED BY <2>2, <2>3
<1>5. missing \in SUBSET Vert
  <2>1. trunkVerts[1] \in 1..N
    BY <1>4 DEF Vert
  <2> QED BY <1>2, <2>1 DEF Vert
<1>6. ASSUME NEW v \in missing
      PROVE  VertInRange(v) \in TrunkSet /\ VertInRange(v) # v /\ VertInRange(v) \in Vert
  <2>1. v # trunkVerts[1] /\ vert2tree[v] = Null /\ v \in trunkVerts[1]..N
    BY <1>4, VertFacts
  <2>2. trunkVerts[1] \in Int /\ v \in Int
    BY <1>2, <1>4, <1>5, VertFacts
  <2>3. trunkVerts[1] < v
    BY <1>2, <2>1, <2>2
  <2>4. {w \in TrunkSet : w < v} \in SUBSET Vert /\ {w \in TrunkSet : w < v} # {}
    BY <1>4, <2>3
  <2>5. VertInRange(v) \in {w \in TrunkSet : w < v}
    BY <2>4, MaxFacts DEF VertInRange, TrunkSet
  <2>6. VertInRange(v) < v /\ VertInRange(v) \in TrunkSet
    BY <2>5
  <2> QED BY <1>4, <2>2, <2>6
<1>7. ASSUME NEW a \in Vert
      PROVE  /\ M(a) \in SUBSET Vert /\ IsFiniteSet(M(a))
             /\ Cardinality(M(a)) \in 0..(N - 1)
             /\ a \notin TrunkSet => M(a) = {}
  <2>1. M(a) \in SUBSET (Vert \ {a})
    BY <1>5, <1>6
  <2>2. IsFiniteSet(Vert) /\ Cardinality(Vert) = N
    BY <1>2, FS_Interval DEF Vert
  <2>3. IsFiniteSet(Vert \ {a}) /\ Cardinality(Vert \ {a}) = N - 1
    BY <2>2, FS_RemoveElement
  <2>4. /\ IsFiniteSet(M(a)) /\ Cardinality(M(a)) <= N - 1 /\ Cardinality(M(a)) \in Nat
    <3> HIDE DEF M
    <3> QED BY <2>1, <2>3, FS_Subset, FS_CardinalityType
  <2>5. a \notin TrunkSet => M(a) = {}
    BY <1>6
  <2> HIDE DEF M
  <2> QED BY <1>2, <2>1, <2>4, <2>5
<1>8. vert2tree' \in [Vert -> Vert \cup {Null, IsNode}]
  <2> HIDE DEF missing
  <2> QED BY <1>1, <1>2, <1>6
<1>9. ASSUME NEW a \in TrunkSet
      PROVE  a \in Vert /\ verticesSeen[a] = 1 /\ Regular(a) = {}
  BY <1>1, <1>4 DEF TrunkInv
<1> HIDE DEF M
<1>10. verticesSeen' \in [Vert -> 0..N]
  <2>1. ASSUME NEW a \in Vert PROVE verticesSeen[a] + Cardinality(M(a)) \in 0..N
    <3>1. CASE a \in TrunkSet
      BY <1>2, <1>7, <1>9, <3>1
    <3>2. CASE a \notin TrunkSet
      <4>1. Cardinality(M(a)) = 0
        BY <1>7, <3>2, FS_EmptySet
      <4> QED BY <1>2, <4>1
    <3> QED BY <3>1, <3>2
  <2> QED BY <1>1, <2>1
<1>11. TreeTypes' /\ RestTypes'
  <2>1. trunkVerts' \in Seq(Vert) /\ trunkClosed' \in 0..Len(trunkVerts')
    BY <1>1 DEF RestTypes
  <2> QED BY <1>1, <1>8, <1>10, <2>1, TrunkFrame DEF TreeTypes, RestTypes
<1>12. ASSUME NEW a \in Vert, a \notin TrunkSet PROVE FilledOf(a)'
  <2>1. M(a) = {} /\ Cardinality(M(a)) = 0
    BY <1>7, <1>12, FS_EmptySet
  <2>2. verticesSeen'[a] = verticesSeen[a]
    <3>1. verticesSeen'[a] = verticesSeen[a] + Cardinality(M(a)) /\ verticesSeen[a] \in Int
      BY <1>1, <1>2
    <3> QED BY <2>1, <3>1
  <2>3. ASSUME NEW x \in Vert PROVE vert2tree'[x] = a <=> vert2tree[x] = a
    <3>1. x \in missing => vert2tree[x] = Null /\ VertInRange(x) # a
      BY <1>6, <1>12
    <3>2. a # Null
      BY VertFacts
    <3> HIDE DEF missing
    <3> QED BY <1>1, <3>1, <3>2
  <2>4. Regular(a)' = Regular(a)
    BY <2>3 DEF Regular
  <2>5. Visited(a)' = Visited(a) /\ SegmentSize(a)' = SegmentSize(a)
    BY <1>3, <2>2, <2>4 DEF Visited, SegmentSize
  <2>6. FilledOf(a)
    BY <1>12, PlacedFilled DEF TrunkInv
  <2> QED BY <1>3, <2>4, <2>5, <2>6 DEF FilledOf
<1>13. ASSUME NEW a \in Vert, a \in TrunkSet PROVE FilledOf(a)'
  <2>1. Regular(a)' = M(a)
    <3>1. ASSUME NEW x \in Vert PROVE vert2tree'[x] = a <=> x \in missing /\ VertInRange(x) = a
      <4>1. vert2tree[x] # a
        BY <1>9, <1>13 DEF Regular
      <4> HIDE DEF missing
      <4> QED BY <1>1, <4>1
    <3> QED BY <1>5, <3>1 DEF Regular, M
  <2>2. Visited(a)' = {}
    <3> SUFFICES ASSUME NEW x \in M(a), visitOrder[x] # NoOrder PROVE FALSE
      BY <1>3, <2>1 DEF Visited
    <3>1. x \in Vert /\ vert2tree[x] = Null
      BY <1>5 DEF M
    <3>2. x \in TrunkSet
      BY <3>1 DEF TrunkInv
    <3> QED BY <1>4, <3>1, <3>2, VertFacts
  <2>3. verticesSeen'[a] = 1 + Cardinality(M(a)) /\ Cardinality(M(a)) \in Nat
    BY <1>1, <1>2, <1>7, <1>9, <1>13
  <2>4. SegmentSize(a)' = Cardinality(M(a))
    <3>1. verticesSeen'[a] - 1 = Cardinality(M(a)) /\ verticesSeen'[a] - 1 >= 0
      BY <2>3
    <3>2. Max({0, verticesSeen'[a] - 1}) = verticesSeen'[a] - 1
      BY <2>3, <3>1, MaxPair
    <3> QED BY <3>1, <3>2 DEF SegmentSize
  <2>5. M(a) \ {} = M(a)
    OBVIOUS
  <2> QED BY <1>3, <2>1, <2>2, <2>4, <2>5 DEF FilledOf
<1> QED BY <1>1, <1>11, <1>12, <1>13 DEF CountInv

(* Every step of the program keeps the counts.                             *)
LEMMA CountStep ==
    ASSUME IInv, SweepInv, CountInv, [Next]_vars, ~Overtake
    PROVE  CountInv'
<1>1. CASE UNCHANGED vars
  BY <1>1, StatesOnly, CountsStay
<1>2. CASE phase = "growth" /\ Next
  <2>1. Types /\ GInv /\ SInv /\ CountsOut /\ GrowthTypes
    BY <1>2 DEF IInv, SweepInv, CountInv
  <2>2. ASSUME NEW t \in Vert, TaskStep(t) PROVE CountInv'
    <3>1. phase' = "growth" /\ t \in Leaves
      BY <1>2, <2>1, <2>2, TaskPhase DEF Types
    <3> QED BY <2>1, <2>2, <3>1, GrowthTypesStep DEF CountInv
  <2>3. CASE BeginTrunk
    BY <2>1, <2>3, BeginTrunkCounts
  <2>5. ASSUME NEW t \in Vert, MergeStates(t) PROVE CountInv'
    BY <2>1, <2>5, StatesOnly, CountsStay
  <2>4. ~TrunkClose /\ ~TrunkArcs /\ ~TrunkSegment /\ ~Built
    BY <1>2 DEF TrunkClose, TrunkCloseUpTo, TrunkArcs, TrunkSegment, Built
  <2> QED BY <1>2, <2>2, <2>3, <2>4, <2>5 DEF Next, Trunk
<1>3. CASE phase # "growth" /\ Next
  <2>1. ~\E t \in Vert : TaskStep(t) \/ MergeStates(t)
    BY <1>3, TaskPhase DEF IInv, MergeStates
  <2>2. ~BeginTrunk /\ (Built => UNCHANGED vars)
    BY <1>3 DEF BeginTrunk, Built
  <2>3. phase \in {"trunk", "segment"} => TreeTypes /\ RestTypes /\ TrunkInv
    BY DEF CountInv
  <2>4. CASE TrunkClose
    <3>1. phase = "trunk"
      BY <2>4 DEF TrunkClose, TrunkCloseUpTo
    <3> QED BY <2>3, <2>4, <3>1, TrunkCloseCounts
  <2>5. CASE TrunkArcs
    <3>1. phase = "trunk"
      BY <2>5 DEF TrunkArcs
    <3> QED BY <2>3, <2>5, <3>1, TrunkArcsCounts
  <2>6. CASE TrunkSegment
    <3>1. phase = "segment"
      BY <2>6 DEF TrunkSegment
    <3> QED BY <2>3, <2>6, <3>1, TrunkSegmentCounts
  <2> QED BY <1>1, <1>3, <2>1, <2>2, <2>4, <2>5, <2>6 DEF Next, Trunk
<1> QED BY <1>1, <1>2, <1>3

(* The counts hold throughout the program.                                 *)
LEMMA CountInvariant ==
    ASSUME ~Overtake
    PROVE  Spec => [](IInv /\ SweepInv /\ CountInv)
<1>1. Init => CountInv
  BY InitCounts DEF CountInv, Init
<1>2. IInv /\ SweepInv /\ CountInv /\ [Next]_vars => CountInv'
  BY CountStep
<1> QED BY <1>1, <1>2, SweepInvariant, PTL DEF Spec

(* Types.  Every counter stays in its range: a valence within the number   *)
(* of lower neighbours on either side of zero, however often the saddle is *)
(* propagated; ranks, orders and the places of an arc within the           *)
(* number of vertices; one up arc at most of a node while the tasks grow.  *)
THEOREM TypeOKAlways ==
    ASSUME ~Overtake
    PROVE  Spec => []TypeOK
<1>1. IInv /\ SweepInv /\ CountInv => TypeOK
  <2> SUFFICES ASSUME IInv, SweepInv, CountInv PROVE TypeOK
    OBVIOUS
  <2>1. mesh \in Meshes /\ phase \in {"growth", "trunk", "segment", "done"}
    BY DEF IInv, Types, CountInv
  <2>2. TreeTypes /\ RestTypes
    <3>1. CASE phase = "growth"
      BY <3>1, GrowthRest DEF IInv, SweepInv, CountInv, GrowthTypes
    <3>2. CASE phase # "growth"
      BY <2>1, <3>2 DEF CountInv
    <3> QED BY <3>1, <3>2
  <2> QED BY <2>1, <2>2 DEF TypeOK, TreeTypes, RestTypes, Listed, Queue
<1> QED BY <1>1, CountInvariant, PTL

(* When the tree is built, the places of the segment of every arc are      *)
(* those its tasks and the trunk counted: each is written, once and within *)
(* the size fixed beforehand, whatever the interleaving and the mesh.      *)
THEOREM SegmentsFilledAlways ==
    ASSUME ~Overtake
    PROVE  Spec => []SegmentsFilled
<1>1. CountInv => SegmentsFilled
  <2> SUFFICES ASSUME CountInv, phase = "done" PROVE SegmentsFilled
    BY DEF SegmentsFilled
  <2>1. TreeTypes /\ \A a \in Vert : FilledOf(a)
    BY DEF CountInv
  <2>2. \A a \in nodes : FilledOf(a)
    BY <2>1 DEF TreeTypes
  <2> QED BY <2>2 DEF SegmentsFilled, FilledOf
<1> QED BY <1>1, CountInvariant, PTL
-------------------------------------------------------------------------------
(***************************************************************************)
(* The tree of the mesh: vocabulary.                                       *)
(***************************************************************************)
Forks == J!Saddles(mesh, N)
Critical == Leaves \cup Forks
Ends == Critical \cup {N}

(* The component of v in the sublevel set of v, and of its neighbour n in  *)
(* the sublevel set strictly below it.                                     *)
Piece(v) == Component(mesh, v, 1..v)
Arm(n, v) == Component(mesh, n, 1..(v - 1))

(* The arc from a ends at b; v lies on the arc from a.                     *)
Up(a, b) == /\ b \in Ends /\ a < b /\ a \in Piece(b)
            /\ \A c \in Ends : a < c /\ a \in Piece(c) => b <= c
Down(v, a) == /\ a \in Ends /\ a \in Piece(v)
              /\ \A c \in Ends : c \in Piece(v) => c <= a
-------------------------------------------------------------------------------
(***************************************************************************)
(* Sublevel sets and their components.                                     *)
(***************************************************************************)
(* What is left out is closed as well.                                     *)
LEMMA ClosedRest ==
    ASSUME NEW S, NEW X, Closed(mesh, S, X)
    PROVE  Closed(mesh, S, S \ X)
<1> SUFFICES ASSUME NEW x \in S \ X, NEW y \in S, {y, x} \in mesh, y \in X PROVE FALSE
  BY DEF Closed
<1>1. {x, y} = {y, x}
  OBVIOUS
<1> QED BY <1>1 DEF Closed

(* A part of it is closed in a part of what it is closed in.               *)
LEMMA ClosedPart ==
    ASSUME NEW S, NEW X, Closed(mesh, S, X), NEW T \in SUBSET S
    PROVE  Closed(mesh, T, X)
  BY DEF Closed

(* The component of v.                                                     *)
LEMMA PieceFacts ==
    ASSUME NEW v \in Vert
    PROVE  /\ v \in Piece(v) /\ Piece(v) \subseteq 1..v /\ Piece(v) \subseteq Vert
           /\ \A x \in Piece(v) : x <= v
           /\ Closed(mesh, 1..v, Piece(v))
           /\ \A X : v \in X /\ Closed(mesh, 1..v, X) => Piece(v) \subseteq X
           /\ 1..v \subseteq Vert
<1>1. v \in Nat /\ v >= 1 /\ N \in Nat /\ v <= N
  BY NAssumption DEF Vert
<1>2. IsFiniteSet(1..v) /\ v \in 1..v /\ 1..v \subseteq Vert /\ \A x \in 1..v : x <= v
  BY <1>1, FS_Interval DEF Vert
<1> QED BY <1>2, ComponentFacts DEF Piece

(* Two components that meet: the lower is part of the higher.              *)
LEMMA PiecesMeet ==
    ASSUME NEW b \in Vert, NEW c \in Vert, b <= c, Piece(b) \cap Piece(c) # {}
    PROVE  b \in Piece(c) /\ Piece(b) \subseteq Piece(c)
<1>1. 1..b \subseteq 1..c
  BY VertFacts
<1>2. Closed(mesh, 1..b, Piece(c))
  BY <1>1, PieceFacts, ClosedPart
<1>3. b \in Piece(c)
  <2> SUFFICES ASSUME b \notin Piece(c) PROVE FALSE
    OBVIOUS
  <2>1. Closed(mesh, 1..b, (1..b) \ Piece(c))
    BY <1>2, ClosedRest
  <2>2. b \in (1..b) \ Piece(c)
    BY PieceFacts
  <2>3. Piece(b) \subseteq (1..b) \ Piece(c)
    BY <2>1, <2>2, PieceFacts
  <2> QED BY <2>3
<1> QED BY <1>2, <1>3, PieceFacts

(* The component of a vertex holds those of its own vertices.              *)
LEMMA PieceTrans ==
    ASSUME NEW b \in Vert, NEW c \in Vert, b \in Piece(c)
    PROVE  Piece(b) \subseteq Piece(c)
<1>1. b \in Piece(b) /\ b <= c
  BY PieceFacts
<1> QED BY <1>1, PiecesMeet

(* The components below a vertex.                                          *)
LEMMA ArmFacts ==
    ASSUME mesh \in Meshes, NEW v \in Vert, NEW n \in Lower(v)
    PROVE  /\ n \in Arm(n, v) /\ Arm(n, v) \subseteq 1..(v - 1) /\ 1..(v - 1) \subseteq Vert
           /\ \A x \in Arm(n, v) : x < v
           /\ Closed(mesh, 1..(v - 1), Arm(n, v))
           /\ \A X : n \in X /\ Closed(mesh, 1..(v - 1), X) => Arm(n, v) \subseteq X
           /\ Arm(n, v) \subseteq Piece(v)
<1>1. v \in Nat /\ v >= 1 /\ N \in Nat /\ v <= N
  BY NAssumption DEF Vert
<1>2. n \in Vert /\ n < v /\ {n, v} \in mesh
  BY LowerFacts, LowerEdge
<1>3. /\ IsFiniteSet(1..(v - 1)) /\ n \in 1..(v - 1) /\ 1..(v - 1) \subseteq Vert
      /\ \A x \in 1..(v - 1) : x < v
      /\ 1..(v - 1) \subseteq 1..v
  <2>1. 1 \in Int /\ v - 1 \in Int
    BY <1>1
  <2>2. IsFiniteSet(1..(v - 1))
    BY <2>1, FS_Interval
  <2> QED BY <1>1, <1>2, <2>2 DEF Vert
<1>4. /\ n \in Arm(n, v) /\ Arm(n, v) \subseteq 1..(v - 1)
      /\ Closed(mesh, 1..(v - 1), Arm(n, v))
      /\ \A X : n \in X /\ Closed(mesh, 1..(v - 1), X) => Arm(n, v) \subseteq X
  BY <1>3, ComponentFacts DEF Arm
<1>5. Arm(n, v) \subseteq Piece(v)
  <2>1. v \in Piece(v) /\ Closed(mesh, 1..v, Piece(v))
    BY PieceFacts
  <2>2. n \in Piece(v)
    BY <1>2, <1>3, <2>1 DEF Closed
  <2>3. Closed(mesh, 1..(v - 1), Piece(v))
    BY <1>3, <2>1, ClosedPart
  <2> QED BY <1>4, <2>2, <2>3
<1> QED BY <1>3, <1>4, <1>5

(* Two of them that meet are one.                                          *)
LEMMA ArmsMeet ==
    ASSUME mesh \in Meshes, NEW v \in Vert, NEW n \in Lower(v), NEW m \in Lower(v),
           Arm(n, v) \cap Arm(m, v) # {}
    PROVE  Arm(n, v) = Arm(m, v)
<1>1. ASSUME NEW x \in Lower(v), NEW y \in Lower(v), Arm(x, v) \cap Arm(y, v) # {}
      PROVE  Arm(x, v) \subseteq Arm(y, v)
  <2> DEFINE B == 1..(v - 1)
             X == Arm(x, v)
             Y == Arm(y, v)
  <2>1. /\ x \in X /\ X \subseteq B /\ \A Z : x \in Z /\ Closed(mesh, B, Z) => X \subseteq Z
        /\ Closed(mesh, B, Y)
    BY ArmFacts
  <2>2. X \cap Y # {}
    BY <1>1
  <2> HIDE DEF B, X, Y
  <2>3. Closed(mesh, B, B \ Y)
    BY <2>1, ClosedRest
  <2>4. x \in Y
    <3> SUFFICES ASSUME x \notin Y PROVE FALSE
      OBVIOUS
    <3>1. X \subseteq B \ Y
      BY <2>1, <2>3
    <3> QED BY <2>2, <3>1
  <2>5. X \subseteq Y
    BY <2>1, <2>4
  <2> QED BY <2>5 DEF X, Y
<1>2. Arm(n, v) \subseteq Arm(m, v) /\ Arm(m, v) \subseteq Arm(n, v)
  BY <1>1
<1> QED BY <1>2

(* What is below a vertex of an arm is in the arm.                         *)
LEMMA ArmPiece ==
    ASSUME mesh \in Meshes, NEW v \in Vert, NEW n \in Lower(v), NEW w \in Arm(n, v)
    PROVE  w \in Vert /\ w < v /\ Piece(w) \subseteq Arm(n, v)
<1>1. /\ w \in Vert /\ w < v /\ w \in 1..(v - 1) /\ Closed(mesh, 1..(v - 1), Arm(n, v))
  BY ArmFacts
<1>2. 1..w \subseteq 1..(v - 1)
  BY <1>1, VertFacts
<1>3. Closed(mesh, 1..w, Arm(n, v))
  BY <1>1, <1>2, ClosedPart
<1> QED BY <1>1, <1>3, PieceFacts

(* A set that leaves out no lower neighbour holds a leaf.                  *)
LEMMA HasLeaf ==
    ASSUME mesh \in Meshes, NEW S \in SUBSET Vert, S # {},
           \A x \in S : Lower(x) \subseteq S
    PROVE  \E l \in S : l \in Leaves
<1>1. PICK l \in S : \A x \in S : l <= x
  BY MinFacts
<1>2. Lower(l) = {}
  <2> SUFFICES ASSUME NEW n \in Lower(l) PROVE FALSE
    OBVIOUS
  <2>1. n < l /\ n \in S /\ n \in Nat /\ l \in Nat
    BY LowerFacts, VertFacts
  <2> QED BY <1>1, <2>1
<1> QED BY <1>2, LeavesFacts

(* Lower neighbours, in a component and in an arm.                         *)
LEMMA PieceLower ==
    ASSUME mesh \in Meshes, NEW v \in Vert, NEW x \in Piece(v)
    PROVE  Lower(x) \subseteq Piece(v)
<1> SUFFICES ASSUME NEW n \in Lower(x) PROVE n \in Piece(v)
  OBVIOUS
<1>1. x \in Vert /\ x <= v /\ Closed(mesh, 1..v, Piece(v))
  BY PieceFacts
<1>2. n \in Vert /\ n < x /\ {n, x} \in mesh
  BY <1>1, LowerFacts, LowerEdge
<1>3. n \in 1..v
  BY <1>1, <1>2 DEF Vert
<1> QED BY <1>1, <1>2, <1>3 DEF Closed

(* Every component, and every arm, holds a leaf.                           *)
LEMMA LeafBelow ==
    ASSUME mesh \in Meshes, NEW v \in Vert
    PROVE  /\ \E l \in Piece(v) : l \in Leaves
           /\ \A n \in Lower(v) : \E l \in Arm(n, v) : l \in Leaves
<1>1. \E l \in Piece(v) : l \in Leaves
  <2>1. Piece(v) \in SUBSET Vert /\ Piece(v) # {}
    BY PieceFacts
  <2> QED BY <2>1, PieceLower, HasLeaf
<1>2. ASSUME NEW n \in Lower(v) PROVE \E l \in Arm(n, v) : l \in Leaves
  <2>1. Arm(n, v) \in SUBSET Vert /\ Arm(n, v) # {}
    BY ArmFacts
  <2>2. ASSUME NEW x \in Arm(n, v) PROVE Lower(x) \subseteq Arm(n, v)
    <3>1. x \in Vert /\ x \in Piece(x) /\ Piece(x) \subseteq Arm(n, v)
      BY ArmPiece, PieceFacts
    <3> QED BY <3>1, PieceLower
  <2> QED BY <2>1, <2>2, HasLeaf
<1> QED BY <1>1, <1>2

(* A leaf is alone in its component.                                       *)
LEMMA LeafPiece ==
    ASSUME mesh \in Meshes, NEW l \in Leaves
    PROVE  Piece(l) = {l}
<1>1. l \in Vert /\ Lower(l) = {}
  BY LeavesFacts
<1>2. Closed(mesh, 1..l, {l})
  <2> SUFFICES ASSUME NEW y \in 1..l, {y, l} \in mesh, y # l PROVE FALSE
    BY DEF Closed
  <2>1. y \in Vert /\ y < l
    <3>1. l \in Nat /\ 1..l \subseteq Vert
      BY <1>1, VertFacts, PieceFacts
    <3> QED BY <3>1
  <2> QED BY <1>1, <2>1, Edges
<1> QED BY <1>1, <1>2, PieceFacts
-------------------------------------------------------------------------------
(* A closed set that meets a component holds it.                           *)
LEMMA ClosedMeets ==
    ASSUME NEW b \in Vert, NEW X, Closed(mesh, 1..b, X), Piece(b) \cap X # {}
    PROVE  Piece(b) \subseteq X
<1>1. b \in X
  <2> SUFFICES ASSUME b \notin X PROVE FALSE
    OBVIOUS
  <2>1. Closed(mesh, 1..b, (1..b) \ X)
    BY ClosedRest
  <2>2. b \in (1..b) \ X
    BY PieceFacts
  <2>3. Piece(b) \subseteq (1..b) \ X
    BY <2>1, <2>2, PieceFacts
  <2> QED BY <2>3
<1> QED BY <1>1, PieceFacts

(* A saddle joins two components.                                          *)
LEMMA ForkFacts ==
    ASSUME mesh \in Meshes, NEW v \in Vert
    PROVE  v \in Forks <=> \E n, m \in Lower(v) : Arm(n, v) # Arm(m, v)
<1> DEFINE L == J!LowerComponents(mesh, v)
<1>1. L = {Arm(x, v) : x \in Lower(v)}
  BY SameComponent DEF J!LowerComponents, Lower, Arm
<1>2. IsFiniteSet(L)
  <2>1. IsFiniteSet(Lower(v))
    BY LowerFacts
  <2> DEFINE f == [x \in Lower(v) |-> Arm(x, v)]
  <2>2. f \in Surjection(Lower(v), L)
    BY <1>1 DEF Surjection
  <2> QED BY <2>1, <2>2, FS_Surjection
<1>3. v \in Forks <=> Cardinality(L) >= 2
  BY DEF Forks, J!Saddles, L, J!Cardinality, Cardinality, Vert
<1> HIDE DEF L
<1>4. Cardinality(L) \in Nat
  BY <1>2, FS_CardinalityType
<1>5. ASSUME NEW C \in L, NEW D \in L, C # D PROVE Cardinality(L) >= 2
  <2>1. IsFiniteSet({C}) /\ Cardinality({C}) = 1 /\ D \notin {C} /\ {C, D} = {C} \cup {D}
    BY <1>5, FS_Singleton
  <2>2. Cardinality({C, D}) = 2
    <3>1. Cardinality({C} \cup {D}) = Cardinality({C}) + 1
      BY <2>1, FS_AddElement
    <3> QED BY <2>1, <3>1
  <2>3. Cardinality({C, D}) <= Cardinality(L)
    BY <1>2, FS_Subset
  <2> QED BY <1>4, <2>2, <2>3
<1>6. ASSUME \A C, D \in L : C = D PROVE Cardinality(L) < 2
  <2>1. CASE L = {}
    BY <2>1, FS_EmptySet
  <2>2. CASE L # {}
    <3>1. PICK C : L = {C}
      BY <1>6, <2>2
    <3> QED BY <3>1, FS_Singleton
  <2> QED BY <2>1, <2>2
<1>7. Cardinality(L) >= 2 <=> \E C, D \in L : C # D
  BY <1>4, <1>5, <1>6
<1> QED BY <1>1, <1>3, <1>7

(* The ends of the arcs.                                                   *)
LEMMA EndsFacts ==
    ASSUME mesh \in Meshes
    PROVE  /\ Leaves \subseteq Vert /\ Forks \subseteq Vert /\ Critical \subseteq Vert
           /\ N \in Vert /\ Ends \subseteq Vert /\ Ends = J!TreeNodes(mesh, N)
           /\ \A v \in Forks : Lower(v) # {}
           /\ \A v \in Critical : v \in Leaves \/ v \in Forks
<1>1. Leaves \subseteq Vert /\ Forks \subseteq Vert /\ N \in Vert
  BY LeavesFacts, NAssumption DEF Forks, J!Saddles, Vert
<1>2. Ends = J!TreeNodes(mesh, N)
  BY DEF Ends, Critical, Forks, Leaves, J!TreeNodes
<1>3. \A v \in Forks : Lower(v) # {}
  BY <1>1, ForkFacts
<1> QED BY <1>1, <1>2, <1>3 DEF Critical, Ends

(* The tree is that of the mesh, which no step changes.                    *)
LEMMA SameTree ==
    ASSUME mesh' = mesh
    PROVE  /\ Leaves' = Leaves /\ Forks' = Forks /\ Critical' = Critical /\ Ends' = Ends
           /\ \A v : Piece(v)' = Piece(v) /\ Lower(v)' = Lower(v)
           /\ \A a, b : (Up(a, b)' <=> Up(a, b)) /\ (Down(a, b)' <=> Down(a, b))
<1>1. Leaves' = Leaves /\ Forks' = Forks /\ \A v : Lower(v)' = Lower(v)
  BY DEF Leaves, Forks, Lower
<1>2. Critical' = Critical /\ Ends' = Ends
  BY <1>1 DEF Critical, Ends
<1>3. \A v : Piece(v)' = Piece(v)
  BY DEF Piece
<1>4. \A a, b : (Up(a, b)' <=> Up(a, b)) /\ (Down(a, b)' <=> Down(a, b))
  BY <1>2, <1>3 DEF Up, Down
<1> QED BY <1>1, <1>2, <1>3, <1>4

(* In a mesh in one piece all is below the greatest vertex.                *)
LEMMA AllBelowTop ==
    ASSUME OpenAbove, mesh \in Meshes
    PROVE  Piece(N) = Vert /\ N \notin Critical /\ N \in Vert
<1>1. Piece(N) = Vert /\ N \notin Forks /\ N \in Vert
  BY SameComponent, EndsFacts DEF OpenAbove, Piece, Forks, Vert
<1>2. N \notin Leaves
  <2> SUFFICES ASSUME N \in Leaves PROVE FALSE
    OBVIOUS
  <2>1. Vert = {N}
    BY <1>1, LeafPiece
  <2>2. 1 \in Vert /\ 2 \in Vert
    BY NAssumption DEF Vert
  <2> QED BY <2>1, <2>2
<1> QED BY <1>1, <1>2 DEF Critical
-------------------------------------------------------------------------------
(***************************************************************************)
(* Sets and components.                                                    *)
(***************************************************************************)
(* t is not at a saddle whose sets are still apart.                        *)
Whole(t) == ~Parked(t) /\ ~Claims(t) /\ (pc[t] = "merge" => todo[t] = {})

(* A set goes down from each of its vertices, but from the saddle where    *)
(* its task is.                                                            *)
LEMMA DownClosed ==
    ASSUME Types, GInv, NEW t \in Leaves, Sweeping(t), NEW u \in Holds(t),
           NEW x \in Members(u), NEW y \in Lower(x), x < Top(t) \/ Whole(t)
    PROVE  y \in Members(u)
<1>1. x \in Vert /\ y \in Vert /\ ~Absorbed(t) /\ Belongs(x, u)
  BY LowerFacts DEF Members, Sweeping, Types
<1>2. CASE vert2tree[x] # Null
  <2>1. ufs[y] # Null /\ ufs[x] # Null /\ comp[ufs[x]] = u
    BY <1>1, <1>2 DEF GInv, LowerClosed, Belongs
  <2>2. ASSUME comp[ufs[y]] # u PROVE FALSE
    <3>1. PICK p \in Leaves : pc[p] = "merge" /\ cur[p] = x /\ y \in todo[p]
      BY <1>1, <1>2, <2>1, <2>2 DEF GInv, LowerClosed
    <3>2. ~Absorbed(p) /\ u \in Holds(p)
      BY <2>1, <3>1, HoldsFacts DEF Absorbed, Parked
    <3>3. p = t
      BY <1>1, <3>2, Sole
    <3>4. Top(t) = x /\ ~Whole(t) /\ ~(x < x)
      BY <1>1, <3>1, <3>3, VertFacts DEF Top, Whole
    <3> QED BY <3>4
  <2> QED BY <1>1, <2>1, <2>2 DEF Members, Belongs
<1>3. CASE vert2tree[x] = Null
  <2>1. PICK p \in Leaves : /\ cur[p] = x /\ Belongs(x, Rep(p))
                            /\ Parked(p) \/ Claims(p)
                            /\ pc[p] # "publish"
    BY <1>1, <1>3 DEF GInv, Published, Belongs
  <2>2. ~Absorbed(p) /\ Rep(p) = u
    BY <1>1, <1>3, <2>1 DEF Absorbed, Belongs
  <2>3. p = t
    BY <1>1, <2>2, SoleRep
  <2>4. Top(t) = x /\ ~Whole(t) /\ ~(x < x)
    BY <1>1, <2>1, <2>3, VertFacts DEF Top, Whole, Parked, Claims
  <2> QED BY <2>4
<1> QED BY <1>2, <1>3

(* It is closed in the sublevel sets below the vertex its task has come    *)
(* to.                                                                     *)
LEMMA SetIsClosed ==
    ASSUME Types, GInv, SInv, NEW t \in Leaves, Sweeping(t), NEW u \in Holds(t),
           NEW y \in Vert, y < Top(t)
    PROVE  Closed(mesh, 1..y, Members(u) \ {Top(t)})
<1>1. Top(t) \in Vert /\ Grown(u, Top(t), Begun(t)) /\ mesh \in Meshes
  BY TopInVert DEF SInv, SweepOf, Types
<1> SUFFICES ASSUME NEW w \in Members(u) \ {Top(t)}, NEW z \in 1..y, {z, w} \in mesh
             PROVE  z \in Members(u) \ {Top(t)}
  BY DEF Closed
<1>2. w \in Vert /\ w <= Top(t) /\ w # Top(t) /\ Belongs(w, u)
  BY DEF Members, GInv, Swept, SweptOf
<1>3. z \in Vert /\ z < Top(t) /\ w < Top(t) /\ z # Top(t)
  <2>1. y \in Nat /\ y <= N /\ Top(t) \in Nat /\ N \in Nat /\ w \in Nat
    BY <1>1, <1>2, NAssumption DEF Vert
  <2> QED BY <1>2, <2>1 DEF Vert
<1>4. z # w /\ (z < w => z \in Lower(w)) /\ (w < z => w \in Lower(z)) /\ (z < w \/ w < z)
  <2>1. z \in Nat /\ w \in Nat
    BY <1>2, <1>3, VertFacts
  <2> QED BY <1>1, <1>2, <1>3, <2>1, Edges
<1>5. CASE z < w
  BY <1>3, <1>4, <1>5, DownClosed
<1>6. CASE w < z
  BY <1>1, <1>2, <1>3, <1>4, <1>6 DEF Grown, Complete, Members
<1> QED BY <1>4, <1>5, <1>6

(* Below that vertex a set holds whole components.                         *)
LEMMA Spill ==
    ASSUME Types, GInv, SInv, NEW t \in Leaves, Sweeping(t), NEW u \in Holds(t),
           NEW y \in Vert, y < Top(t), Piece(y) \cap Members(u) # {}
    PROVE  Piece(y) \subseteq Members(u)
<1>1. Top(t) \in Vert /\ Top(t) \notin Piece(y)
  <2>1. Top(t) \in Vert
    BY TopInVert DEF SInv
  <2>2. \A x, z \in Vert : x < z => ~(z <= x)
    BY VertFacts
  <2> QED BY <2>1, <2>2, PieceFacts
<1>2. Piece(y) \cap (Members(u) \ {Top(t)}) # {}
  BY <1>1
<1> QED BY <1>2, SetIsClosed, ClosedMeets

(* What is below a vertex of a set is in the set.                          *)
LEMMA SetBelow ==
    ASSUME Types, GInv, SInv, NEW t \in Leaves, Sweeping(t), NEW u \in Holds(t),
           NEW x \in Members(u), x < Top(t) \/ Whole(t)
    PROVE  Piece(x) \subseteq Members(u)
<1>1. /\ x \in Vert /\ x \in Piece(x) /\ x <= Top(t) /\ Top(t) \in Vert
      /\ Grown(u, Top(t), Begun(t)) /\ mesh \in Meshes
  BY PieceFacts, TopInVert DEF Members, GInv, Swept, SweptOf, SInv, SweepOf, Types
<1>2. CASE x < Top(t)
  BY <1>1, <1>2, Spill
<1>3. CASE x = Top(t) /\ Whole(t)
  <2>1. Closed(mesh, 1..x, Members(u))
    <3> SUFFICES ASSUME NEW w \in Members(u), NEW z \in 1..x, {z, w} \in mesh
                 PROVE  z \in Members(u)
      BY DEF Closed
    <3>1. z \in Vert /\ w \in Vert /\ z <= x /\ z \in Nat /\ w \in Nat /\ x \in Nat
      BY <1>1, PieceFacts, VertFacts DEF Members
    <3>2. z # w /\ (z < w => z \in Lower(w)) /\ (w < z => w \in Lower(z))
      BY <1>1, <3>1, Edges
    <3>3. CASE z < w
      BY <1>3, <3>2, <3>3, DownClosed
    <3>4. CASE w < z /\ z < x
      BY <1>1, <1>3, <3>1, <3>2, <3>4 DEF Grown, Complete, Members
    <3> QED BY <3>1, <3>2, <3>3, <3>4
  <2> QED BY <1>1, <2>1, PieceFacts
<1>4. x < Top(t) \/ x = Top(t)
  <2>1. x \in Nat /\ Top(t) \in Nat
    BY <1>1, VertFacts
  <2> QED BY <1>1, <2>1
<1> QED BY <1>2, <1>3, <1>4

(* A set is below the vertex its task has come to, in one piece with it.   *)
LEMMA BelowTop ==
    ASSUME Types, GInv, SInv, NEW t \in Leaves, Sweeping(t), NEW u \in Holds(t)
    PROVE  Top(t) \in Vert /\ Members(u) \subseteq Piece(Top(t))
<1>1. Top(t) \in Vert /\ Connected(Members(u) \cup {Top(t)})
  BY TopInVert DEF SInv, SweepOf, Grown
<1>2. \A x \in Members(u) : x \in 1..Top(t)
  <2> SUFFICES ASSUME NEW x \in Members(u) PROVE x \in 1..Top(t)
    OBVIOUS
  <2>1. x \in Vert /\ x <= Top(t)
    BY DEF Members, GInv, Swept, SweptOf
  <2>2. Top(t) \in Nat
    BY <1>1, VertFacts
  <2> QED BY <2>1, <2>2 DEF Vert
<1> DEFINE v == Top(t)
           S == Members(u) \cup {v}
           C == Piece(v)
<1>3. v \in C /\ S \subseteq 1..v /\ Closed(mesh, 1..v, C) /\ Connected(S) /\ v \in S
      /\ Members(u) \subseteq S
  BY <1>1, <1>2, PieceFacts
<1> HIDE DEF v, S, C
<1>4. S \subseteq C
  <2> SUFFICES ASSUME ~(S \subseteq C) PROVE FALSE
    OBVIOUS
  <2>1. S \cap C \in SUBSET S /\ S \cap C # {} /\ S \cap C # S
    BY <1>3
  <2>2. PICK a \in S \cap C, b \in S \ (S \cap C) : {a, b} \in mesh
    BY <1>3, <2>1 DEF Connected
  <2>3. {b, a} = {a, b} /\ b \in 1..v
    BY <1>3
  <2> QED BY <1>3, <2>2, <2>3 DEF Closed
<1> QED BY <1>1, <1>3, <1>4 DEF v, C
-------------------------------------------------------------------------------
(***************************************************************************)
(* The invariant of the tree.                                              *)
(***************************************************************************)
(* The arc from a is open.                                                 *)
OpenArc(a) == nbUp[a] = 1 /\ upNode[a] = Null

(* What a task takes for a saddle is one.                                  *)
TrueSaddles ==
    \A t \in Leaves :
        /\ isSaddle[t] => cur[t] \in Forks
        /\ pc[t] \in {"capture", "publish"} /\ ~isSaddle[t] /\ cur[t] # startVert[t] =>
              cur[t] \notin Forks

(* While the tasks grow, the nodes made so far are nodes of the tree, and  *)
(* what is put on an arc is on that arc of the tree.                       *)
NodesMarked == \A v \in Vert : v \in nodes <=> vert2tree[v] = IsNode
NodesCritical == \A v \in Vert : vert2tree[v] = IsNode => v \in Critical
OnArcs == \A v \in Vert : OnArc(v) =>
             v \notin Critical /\ (v # N => Down(v, vert2tree[v]))

(* A closed arc ends where it does in the tree.                            *)
ClosedArcs == \A a \in Vert : upNode[a] # Null => nbUp[a] = 1 /\ Up(a, upNode[a])

(* A set lists its open arcs.                                              *)
OpenedListed ==
    \A u \in Vert : comp[u] = u => openedArcs[u] = {a \in Members(u) : OpenArc(a)}

(* No arc is open below a node, but while the node is being closed.        *)
Passed ==
    \A a, c \in Vert : OpenArc(a) /\ vert2tree[c] = IsNode /\ a < c /\ a \in Piece(c) =>
        \E t \in Leaves : pc[t] = "merge" /\ cur[t] = c

(* The arc a task works on starts at the highest node of its set, and is   *)
(* the only open one in it.                                                *)
TopOf(t) ==
    /\ OnItsArc(t) => \A c \in Members(Rep(t)) :
           /\ vert2tree[c] = IsNode => c <= startVert[t]
           /\ OpenArc(c) => c = startVert[t]
    /\ pc[t] \in {"waiting", "start", "decide"} => \A c \in Members(Rep(t)) : ~OpenArc(c)
ArcOnTop == \A t \in Leaves : TopOf(t)

(* A node without an arc has a task that is about to open one there.       *)
Anchors ==
    \A a \in Vert : vert2tree[a] = IsNode /\ nbUp[a] = 0 =>
        \E t \in Leaves : pc[t] \in {"waiting", "start", "merge", "decide"} /\ Anchor(t) = a

(* openedNodes are the saddles where tasks have stopped or are merging.    *)
OpenSaddles ==
    /\ \A v \in openedNodes : v \in Forks
    /\ \A t \in Leaves : pc[t] \in {"merge", "decide"} => cur[t] \in openedNodes
    /\ \A t \in Leaves : pc[t] \in {"retire", "stopped"} /\ ~Absorbed(t) =>
          cur[t] \in openedNodes

(* No task has gone on to the trunk or to the root.                        *)
AllParked == \A t \in Leaves : pc[t] = "stopped" => Parked(t)

Growing == /\ NodesMarked /\ NodesCritical /\ OnArcs /\ ClosedArcs
           /\ OpenedListed /\ Passed /\ ArcOnTop /\ Anchors /\ OpenSaddles
           /\ AllParked

(* The tree is finished, but for what is counted.                          *)
TreeDone ==
    /\ nodes = Ends
    /\ nbUp = [v \in Vert |-> IF v \in nodes \ {N} THEN 1 ELSE 0]
    /\ \A a \in nodes \ {N} : Up(a, upNode[a])
    /\ \A v \in Vert \ nodes : Down(v, vert2tree[v])

(* The growth has come to the root and left nothing to the trunk.          *)
Full == /\ TreeDone /\ NodesMarked
        /\ \A v \in openedNodes : ~StillOpen(v)
        /\ \A t \in Leaves : pc[t] = "stopped" \/ Absorbed(t)

(* The sets that CloseOnBackBone(e) meets.                                 *)
Meets(e, u) == Belongs(e, u) \/ \E n \in Lower(e) : Belongs(n, u)

(* The open arcs of set u end at d, the first of rest that it meets.       *)
HomeOf(u, d, rest) ==
    /\ \E n \in Lower(d) : Belongs(n, u)
    /\ \A a \in openedArcs[u] : Up(a, d)
    /\ \A e \in rest : Meets(e, u) => d <= e

(* Vertices D are a path upwards in the tree from the least of them, b,    *)
(* with those of its nodes that no task has made; rest are those that the  *)
(* trunk has not closed.                                                   *)
Backbone(D, rest, b) ==
    /\ D \subseteq Critical \ {N} /\ b \in D /\ rest \subseteq D
    /\ \A d \in D : b <= d /\ b \in Piece(d)
    /\ nodes \subseteq Ends /\ Critical \subseteq nodes \cup D
    /\ D \ rest \subseteq nodes
    /\ \A c \in nodes \ D : b \notin Piece(c) \/ c = N
    /\ \A v \in Vert : OnArc(v) => v \notin Ends /\ Down(v, vert2tree[v])
    /\ \A v \in Vert : vert2tree[v] = Null /\ v \notin D /\ v # N =>
          \E w \in D : /\ w < v /\ Down(v, w)
                       /\ \A e \in D : e < v => e <= w
    /\ NodesMarked

(* Outside of it all arcs are opened, and closed or to be closed on it.    *)
BackboneArcs(D, rest) ==
    /\ nodes \subseteq Critical
    /\ \A v \in Vert : nbUp[v] = IF v \in nodes \ D THEN 1 ELSE 0
    /\ \A a \in Vert : upNode[a] # Null => Up(a, upNode[a])
    /\ \A a \in nodes \ D : upNode[a] = Null =>
          \E u \in Vert : comp[u] = u /\ a \in openedArcs[u]
    /\ \A u \in Vert : comp[u] = u /\ openedArcs[u] # {} =>
          \E d \in rest : HomeOf(u, d, rest)
    /\ \A u \in Vert : comp[comp[u]] = comp[u]

(* The growth has stopped at a saddle above which nothing is left but the  *)
(* trunk.                                                                  *)
Left == {v \in openedNodes : StillOpen(v)}
End == /\ \A t \in Leaves : pc[t] = "stopped"
       /\ \E b \in Left : Backbone(Left, Left, b)
       /\ BackboneArcs(Left, Left)

(* The trunk, in order; what it has still to close.                        *)
Ordered == \A i, j \in 1..Len(trunkVerts) : i < j => trunkVerts[i] < trunkVerts[j]
Beyond == {trunkVerts[i] : i \in (trunkClosed + 1)..Len(trunkVerts)}

TreeInv ==
    CASE phase = "growth" -> TrueSaddles /\ (Growing \/ End \/ Full)
      [] phase = "trunk" -> /\ Ordered
                            /\ Backbone(TrunkSet, Beyond, trunkVerts[1])
                            /\ BackboneArcs(TrunkSet, Beyond)
      [] phase = "segment" -> /\ Backbone(TrunkSet, {}, trunkVerts[1])
                              /\ nodes = Ends
                              /\ nbUp = [v \in Vert |-> IF v \in nodes \ {N} THEN 1 ELSE 0]
                              /\ \A a \in nodes \ {N} : Up(a, upNode[a])
      [] phase = "done" -> TreeDone
      [] OTHER -> FALSE
-------------------------------------------------------------------------------
(***************************************************************************)
(* What the invariant says of a state of the growth.                       *)
(***************************************************************************)
(* A vertex of a set is settled, unless it is the saddle its task is at.   *)
LEMMA SetSettled ==
    ASSUME Types, GInv, NEW t \in Leaves, ~Absorbed(t), NEW u \in Holds(t),
           NEW x \in Members(u), vert2tree[x] = Null
    PROVE  cur[t] = x /\ Top(t) = x /\ (Parked(t) \/ Claims(t))
<1>1. x \in Vert /\ Belongs(x, u) /\ ufs[x] # Null
  BY DEF Members, Belongs
<1>2. PICK p \in Leaves : /\ cur[p] = x /\ Belongs(x, Rep(p))
                          /\ Parked(p) \/ Claims(p)
                          /\ pc[p] # "publish"
  BY <1>1 DEF GInv, Published
<1>3. ~Absorbed(p) /\ Rep(p) = u
  BY <1>1, <1>2 DEF Absorbed, Belongs
<1>4. p = t
  BY <1>3, SoleRep
<1> QED BY <1>2, <1>4 DEF Top, Parked, Claims

(* A task that is still counted, or waits at a saddle, sweeps.             *)
LEMMA ParkedSweeps ==
    ASSUME AllParked, NEW t \in Leaves, ~Absorbed(t)
    PROVE  Sweeping(t)
  BY DEF AllParked, Sweeping

(* What is below a node is in its set, but while the node is being closed. *)
LEMMA NodeHeld ==
    ASSUME Types, GInv, SInv, AllParked, NEW c \in Vert, vert2tree[c] = IsNode,
           ufs[c] # Null
    PROVE  \E o \in Leaves : \E u \in Holds(o) :
              /\ ~Absorbed(o) /\ Sweeping(o) /\ c \in Members(u)
              /\ Piece(c) \subseteq Members(u) \/ (pc[o] = "merge" /\ cur[o] = c)
<1>1. PICK o \in Leaves : ~Absorbed(o) /\ comp[ufs[c]] \in Holds(o)
  BY DEF SInv, Held
<1> DEFINE u == comp[ufs[c]]
<1>2. Sweeping(o) /\ u \in Holds(o) /\ c \in Members(u)
  BY <1>1, ParkedSweeps DEF Members, Belongs
<1>3. Top(o) \in Vert /\ c <= Top(o)
  BY <1>2, TopInVert DEF SInv, GInv, Swept, SweptOf, Members
<1> HIDE DEF u
<1>4. CASE c < Top(o) \/ Whole(o)
  BY <1>1, <1>2, <1>4, SetBelow
<1>5. CASE c = Top(o) /\ ~Whole(o)
  <2>1. vert2tree[c] # Null
    BY VertFacts
  <2>2. Parked(o) \/ Claims(o) => cur[o] = Top(o)
    BY DEF Top, Parked, Claims
  <2>3. ~Parked(o)
    BY <1>1, <1>5, <2>1, <2>2 DEF Absorbed
  <2>4. ~Claims(o)
    BY <1>5, <2>1, <2>2, ClaimFacts
  <2>5. pc[o] = "merge" /\ cur[o] = c
    BY <1>5, <2>3, <2>4 DEF Whole, Top
  <2> QED BY <1>1, <1>2, <2>5
<1>6. c < Top(o) \/ c = Top(o)
  <2>1. c \in Nat /\ Top(o) \in Nat
    BY <1>3, VertFacts
  <2> QED BY <1>3, <2>1
<1> QED BY <1>4, <1>5, <1>6

(* A node has a set, once no task waits there to be launched.              *)
LEMMA NodeHasSet ==
    ASSUME Types, GInv, SInv, NEW c \in Vert, vert2tree[c] = IsNode
    PROVE  \/ ufs[c] # Null
           \/ c \in Leaves /\ pc[c] = "waiting"
<1>1. CASE c \in Leaves
  BY <1>1 DEF SInv, LeafOf
<1>2. CASE c \notin Leaves
  <2>1. PICK n \in Lower(c) : TRUE
    BY <1>2, LeavesFacts
  <2>2. vert2tree[c] # Null
    BY VertFacts
  <2> QED BY <2>1, <2>2 DEF GInv, LowerClosed
<1> QED BY <1>1, <1>2

(* A critical vertex of a set is a node, or where its task is.             *)
LEMMA CriticalNode ==
    ASSUME Types, GInv, OnArcs, NEW t \in Leaves, ~Absorbed(t), NEW u \in Holds(t),
           NEW c \in Members(u), c \in Critical
    PROVE  vert2tree[c] = IsNode \/ (cur[t] = c /\ Top(t) = c /\ (Parked(t) \/ Claims(t)))
<1>1. CASE vert2tree[c] = Null
  BY <1>1, SetSettled
<1>2. CASE vert2tree[c] # Null
  BY <1>2 DEF OnArcs, OnArc, Members
<1> QED BY <1>1, <1>2

(* The open arcs of a set end at the node its task comes to.               *)
LEMMA UpTop ==
    ASSUME Types, GInv, SInv, OnArcs, Passed, NEW t \in Leaves, Sweeping(t),
           NEW u \in Holds(t), NEW a \in Members(u), OpenArc(a), a < Top(t), Top(t) \in Ends
    PROVE  Up(a, Top(t))
<1>0. ~Absorbed(t) /\ mesh \in Meshes
  BY DEF Sweeping, Types
<1>1. Top(t) \in Vert /\ a \in Piece(Top(t)) /\ a \in Vert
  BY BelowTop DEF Members
<1>2. ASSUME NEW c \in Ends, a < c, a \in Piece(c), c < Top(t) PROVE FALSE
  <2>1. c \in Vert /\ c # N /\ c # Top(t)
    <3>1. c \in Vert /\ c \in Nat /\ Top(t) \in Nat /\ N \in Nat /\ Top(t) <= N
      BY <1>0, <1>1, EndsFacts, VertFacts, NAssumption DEF Vert
    <3> QED BY <1>2, <3>1
  <2>2. c \in Members(u)
    BY <1>0, <1>1, <1>2, <2>1, Spill, PieceFacts
  <2>3. vert2tree[c] = IsNode
    BY <1>0, <2>1, <2>2, CriticalNode DEF Ends
  <2>4. PICK o \in Leaves : pc[o] = "merge" /\ cur[o] = c
    BY <1>1, <1>2, <2>1, <2>3 DEF Passed
  <2>5. ~Absorbed(o) /\ comp[ufs[c]] \in Holds(o) /\ Top(o) = c
    BY <2>4, HoldsFacts DEF Absorbed, Parked
  <2>6. comp[ufs[c]] = u
    BY <2>2 DEF Members, Belongs
  <2>7. o = t
    BY <1>0, <2>5, <2>6, Sole
  <2> QED BY <2>1, <2>5, <2>7
<1>3. \A c \in Ends : a < c /\ a \in Piece(c) => Top(t) <= c
  <2> SUFFICES ASSUME NEW c \in Ends, a < c, a \in Piece(c) PROVE Top(t) <= c
    OBVIOUS
  <2>1. c \in Nat /\ Top(t) \in Nat
    BY <1>0, <1>1, EndsFacts, VertFacts
  <2> QED BY <1>2, <2>1
<1> QED BY <1>1, <1>3 DEF Up

(* The set of the vertex a task has come to and found regular: with it, it *)
(* is all that is below it.                                                *)
LEMMA RegularPiece ==
    ASSUME Types, GInv, SInv, NEW t \in Leaves, Sweeping(t), pc[t] = "publish",
           ~isSaddle[t], Own(t) = Lower(cur[t])
    PROVE  Top(t) = cur[t] /\ Piece(cur[t]) \subseteq Members(Rep(t)) \cup {cur[t]}
<1> DEFINE v == cur[t]
           M == Members(Rep(t))
<1>1. Top(t) = v /\ v \in Vert /\ Rep(t) \in Holds(t) /\ mesh \in Meshes
  BY TopInVert, HoldsFacts DEF Top, SInv, Types
<1>2. Lower(v) \subseteq M
  <2>1. \A n \in Lower(v) : n \in Vert /\ Belongs(n, Rep(t))
    BY <1>1, LowerFacts DEF Own
  <2> QED BY <2>1 DEF Members
<1>3. Closed(mesh, 1..v, M \cup {v})
  <2> SUFFICES ASSUME NEW w \in M \cup {v}, NEW z \in 1..v, {z, w} \in mesh, z # v
               PROVE  z \in M
    BY DEF Closed
  <2>1. z \in Vert /\ w \in Vert /\ z < v /\ w <= v
    <3>1. z \in Vert /\ w \in Vert /\ z <= v /\ w <= v
      BY <1>1, PieceFacts, BelowTop DEF Members
    <3>2. z \in Nat /\ v \in Nat
      BY <1>1, <3>1, VertFacts
    <3> QED BY <3>1, <3>2
  <2>2. z # w /\ (z < w => z \in Lower(w)) /\ (w < z => w \in Lower(z)) /\ (z < w \/ w < z)
    <3>1. z \in Nat /\ w \in Nat
      BY <2>1, VertFacts
    <3> QED BY <1>1, <2>1, <3>1, Edges
  <2>3. CASE w = v
    BY <1>2, <2>1, <2>2, <2>3
  <2>4. CASE w # v
    <3>1. w \in M /\ w < v
      <4>1. w \in Nat /\ v \in Nat
        BY <1>1, <2>1, VertFacts
      <4> QED BY <2>1, <2>4, <4>1
    <3>2. CASE z < w
      BY <1>1, <2>2, <3>1, <3>2, DownClosed
    <3>3. CASE w < z
      <4>1. Grown(Rep(t), Top(t), Begun(t))
        BY <1>1 DEF SInv, SweepOf
      <4>2. w \in Lower(z) /\ Belongs(w, Rep(t))
        BY <2>2, <3>1, <3>3 DEF Members
      <4> QED BY <1>1, <2>1, <4>1, <4>2 DEF Grown, Complete, Members
    <3> QED BY <2>2, <3>2, <3>3
  <2> QED BY <2>3, <2>4
<1> QED BY <1>1, <1>3, PieceFacts
-------------------------------------------------------------------------------
(***************************************************************************)
(* What a step of a task makes of the tree.                                *)
(***************************************************************************)
(* Which steps change what.                                                *)
LEMMA StepTree ==
    ASSUME NEW t \in Vert, TaskStep(t)
    PROVE  /\ nodes' = nodes \/ (OpenNode(t) /\ isLast[t]) \/ CloseRoot(t)
           /\ upNode' = upNode \/ CloseArcs(t) \/ CloseRoot(t)
           /\ nbUp' = nbUp \/ Start(t)
           /\ \/ openedNodes' = openedNodes \/ OnlyLeaf(t) \/ OpenNode(t)
              \/ Restart(t) /\ activeTasks # 1
           /\ \/ openedArcs' = openedArcs \/ Start(t) \/ CloseArcs(t)
              \/ \E n \in Vert : MergeNeighbor(t, n) /\ comp[ufs[cur[t]]] # comp[ufs[n]]
           /\ comp' = comp \/ \E n \in Vert : MergeNeighbor(t, n) /\ comp[ufs[cur[t]]] # comp[ufs[n]]
           /\ \/ ufs' = ufs \/ OnlyLeaf(t) \/ Launch(t) \/ Publish(t)
              \/ \E n \in Vert : MergeNeighbor(t, n) /\ comp[ufs[cur[t]]] # comp[ufs[n]]
<1>1. CASE OnlyLeaf(t) \/ Launch(t)
  BY <1>1 DEF OnlyLeaf, Launch, treeVars, ufVars
<1>2. CASE Start(t)
  BY <1>2 DEF Start
<1>3. CASE Visit(t)
  BY <1>3 DEF Visit, treeVars, ufVars
<1>4. CASE Capture(t)
  BY <1>4 DEF Capture, CaptureWith, treeVars, ufVars
<1>5. CASE Publish(t)
  BY <1>5 DEF Publish, treeVars, ufVars
<1>6. CASE OpenNode(t)
  BY <1>6 DEF OpenNode, treeVars, ufVars
<1>7. CASE Retire(t)
  BY <1>7 DEF Retire, treeVars, ufVars
<1>8. ASSUME NEW n \in Vert, MergeNeighbor(t, n)
      PROVE  /\ nodes' = nodes /\ upNode' = upNode /\ nbUp' = nbUp /\ openedNodes' = openedNodes
             /\ \/ comp[ufs[cur[t]]] # comp[ufs[n]]
                \/ openedArcs' = openedArcs /\ comp' = comp /\ ufs' = ufs
  BY <1>8 DEF MergeNeighbor, find, treeVars, ufVars
<1>9. CASE CloseArcs(t)
  BY <1>9 DEF CloseArcs
<1>10. CASE Restart(t)
  BY <1>10 DEF Restart, treeVars, ufVars
<1>11. CASE CloseRoot(t)
  BY <1>11 DEF CloseRoot, ufVars
<1> QED BY <1>1, <1>2, <1>3, <1>4, <1>5, <1>6, <1>7, <1>8, <1>9, <1>10, <1>11 DEF TaskStep

(* The steps that stay in the growth: not to the root, nor to the trunk.   *)
Grows1(t) == /\ TaskStep(t) /\ ~OnlyLeaf(t) /\ ~CloseRoot(t)
             /\ ~(Restart(t) /\ activeTasks = 1)

(* The nodes are marked.                                                   *)
LEMMA NodesMarkedStep ==
    ASSUME Types, GInv, TreeTypes, ArcInv, NEW t \in Leaves, TaskStep(t), NodesMarked
    PROVE  NodesMarked'
<1>0. t \in Vert /\ ArcChange(t)
  BY ArcStep, LeavesFacts
<1>1. CASE OpenNode(t) /\ isLast[t]
  <2>1. nodes' = nodes \cup {cur[t]} /\ vert2tree' = [vert2tree EXCEPT ![cur[t]] = IsNode]
    BY <1>1 DEF OpenNode
  <2>2. cur[t] \in Vert
    BY <1>1, NodeFacts DEF ArcInv
  <2> QED BY <2>1, <2>2 DEF NodesMarked, Types
<1>2. CASE CloseRoot(t)
  <2>1. lastVisited[startVert[t]] = cur[t]
    BY <1>2, RootSettled
  <2>2. nodes' = nodes \cup {cur[t]} /\ vert2tree' = [vert2tree EXCEPT ![cur[t]] = IsNode]
    BY <1>2, <2>1 DEF CloseRoot
  <2>3. cur[t] \in Vert
    BY <1>2, RootFacts
  <2> QED BY <2>2, <2>3 DEF NodesMarked, Types
<1>3. CASE ~(OpenNode(t) /\ isLast[t]) /\ ~CloseRoot(t)
  <2>1. nodes' = nodes
    BY <1>0, <1>3, StepTree
  <2>2. ASSUME NEW v \in Vert PROVE vert2tree'[v] = IsNode <=> vert2tree[v] = IsNode
    <3>1. startVert[t] # IsNode
      BY <1>0, VertFacts DEF Types
    <3> QED BY <1>0, <1>3, <3>1, VertFacts DEF ArcChange, TreeChange
  <2> QED BY <2>1, <2>2 DEF NodesMarked
<1> QED BY <1>1, <1>2, <1>3

(* Which vertices become nodes.                                            *)
LEMMA NewNode ==
    ASSUME Types, GInv, TreeTypes, ArcInv, NEW t \in Leaves, Grows1(t), NEW c \in Vert,
           vert2tree[c] # IsNode, vert2tree'[c] = IsNode
    PROVE  /\ OpenNode(t) /\ isLast[t] /\ c = cur[t] /\ pc'[t] = "merge"
           /\ isSaddle[t] /\ Claims(t)
<1>1. t \in Vert /\ TaskStep(t) /\ ~CloseRoot(t) /\ ArcChange(t)
  BY ArcStep, LeavesFacts DEF Grows1
<1>2. startVert[t] # IsNode
  BY <1>1, VertFacts DEF Types
<1>3. OpenNode(t) /\ isLast[t] /\ c = cur[t]
  BY <1>1, <1>2 DEF ArcChange, TreeChange
<1>4. pc'[t] = "merge"
  BY <1>1, <1>3 DEF OpenNode, Goto, Types
<1>5. isSaddle[t]
  BY <1>3 DEF OpenNode, GInv, Visits, VisitOf, Captured, Absorbed, Parked
<1> QED BY <1>3, <1>4, <1>5 DEF Claims, OpenNode

(* They are critical.                                                      *)
LEMMA NodesCriticalStep ==
    ASSUME Types, GInv, TreeTypes, ArcInv, NEW t \in Leaves, Grows1(t),
           TrueSaddles, NodesCritical
    PROVE  NodesCritical'
<1>1. TaskStep(t) /\ mesh' = mesh
  BY StepFrame DEF Grows1
<1>2. Critical' = Critical
  BY <1>1, SameTree
<1>3. ASSUME NEW c \in Vert, vert2tree'[c] = IsNode PROVE c \in Critical
  <2>1. CASE vert2tree[c] = IsNode
    BY <2>1 DEF NodesCritical
  <2>2. CASE vert2tree[c] # IsNode
    <3>1. c = cur[t] /\ isSaddle[t]
      BY <1>3, <2>2, NewNode
    <3> QED BY <3>1 DEF TrueSaddles, Critical
  <2> QED BY <2>1, <2>2
<1> QED BY <1>2, <1>3 DEF NodesCritical

(* A vertex a task puts on its arc is on that arc of the tree.             *)
LEMMA OnArcsStep ==
    ASSUME Types, GInv, SInv, TreeTypes, ArcInv, NEW t \in Leaves, Grows1(t),
           TrueSaddles, NodesCritical, OnArcs, ArcOnTop
    PROVE  OnArcs'
<1>1. TaskStep(t) /\ mesh' = mesh /\ t \in Vert /\ ArcChange(t) /\ mesh \in Meshes
  BY StepFrame, ArcStep, LeavesFacts DEF Grows1, Types
<1>2. Critical' = Critical /\ \A a, b : Down(a, b)' <=> Down(a, b)
  BY <1>1, SameTree
<1> SUFFICES ASSUME NEW v \in Vert, OnArc(v)'
             PROVE  v \notin Critical /\ (v # N => Down(v, vert2tree'[v]))
  BY <1>2 DEF OnArcs
<1>3. CASE OnArc(v)
  <2>1. vert2tree'[v] = vert2tree[v]
    BY <1>1, <1>3, VertFacts DEF ArcChange, TreeChange, OnArc, Grows1
  <2> QED BY <1>3, <2>1 DEF OnArcs
<1>4. CASE ~OnArc(v)
  <2>1. Publish(t) /\ ~isSaddle[t] /\ v = cur[t] /\ v # startVert[t] /\ vert2tree[v] = Null
    BY <1>1, <1>4, NewOnArc
  <2> DEFINE a == startVert[t]
  <2>2. vert2tree'[v] = a /\ vert2tree[a] = IsNode /\ a \in Vert /\ OnItsArc(t)
        /\ Own(t) = Lower(v) /\ pc[t] = "publish"
    <3>1. pc[t] = "publish"
      BY <2>1 DEF Publish
    <3>2. /\ a \in Vert /\ OnItsArc(t) /\ vert2tree[a] = IsNode /\ Own(t) = Lower(v)
          /\ vert2tree' = [vert2tree EXCEPT ![v] = a]
      BY <2>1, PublishFacts
    <3> QED BY <3>1, <3>2 DEF Types
  <2>3. v \notin Critical
    <3>1. v \notin Forks
      BY <2>1, <2>2 DEF TrueSaddles
    <3>2. v \notin Leaves
      BY <2>1 DEF SInv, LeafOf
    <3> QED BY <3>1, <3>2 DEF Critical
  <2>4. ~Absorbed(t) /\ Sweeping(t)
    BY <2>1, <2>2 DEF Absorbed, Parked, Sweeping
  <2>5. Top(t) = v /\ Piece(v) \subseteq Members(Rep(t)) \cup {v}
    BY <2>1, <2>2, <2>4, RegularPiece
  <2>6. a \in Ends
    BY <2>2 DEF NodesCritical, Ends
  <2>7. a \in Piece(v)
    <3>1. Belongs(a, Rep(t)) /\ Rep(t) \in Holds(t)
      BY <2>2, <2>4, HoldsFacts DEF GInv, Arcs, ArcOf
    <3>2. a \in Members(Rep(t))
      BY <2>2, <3>1 DEF Members
    <3> QED BY <2>4, <2>5, <3>1, <3>2, BelowTop
  <2>8. ASSUME v # N, NEW c \in Ends, c \in Piece(v) PROVE c <= a
    <3>1. c # v /\ c \in Vert /\ c \in Critical
      <4>1. c # v
        BY <2>3, <2>8 DEF Ends
      <4>2. c \in Vert /\ c <= v
        BY <1>1, <2>8, EndsFacts, PieceFacts
      <4>3. c # N
        <5>1. c \in Nat /\ v \in Nat /\ N \in Nat /\ v <= N
          BY <4>2, NAssumption DEF Vert
        <5> QED BY <2>8, <4>2, <5>1
      <4> QED BY <4>1, <4>2, <4>3 DEF Ends
    <3>2. c \in Members(Rep(t)) /\ Rep(t) \in Holds(t)
      BY <2>5, <2>8, <3>1, HoldsFacts
    <3>3. vert2tree[c] = IsNode
      BY <2>1, <2>4, <3>1, <3>2, CriticalNode
    <3> QED BY <2>2, <3>2, <3>3 DEF ArcOnTop, TopOf
  <2> QED BY <2>2, <2>3, <2>6, <2>7, <2>8 DEF Down
<1> QED BY <1>3, <1>4

(* The arcs that end at a saddle are closed there.                         *)
LEMMA ClosedArcsStep ==
    ASSUME Types, GInv, SInv, TreeTypes, ArcInv, NEW t \in Leaves, Grows1(t),
           NodesCritical, OnArcs, ClosedArcs, OpenedListed, Passed
    PROVE  ClosedArcs'
<1>1. TaskStep(t) /\ mesh' = mesh /\ t \in Vert /\ ArcChange(t) /\ mesh \in Meshes /\ ~CloseRoot(t)
  BY StepFrame, ArcStep, LeavesFacts DEF Grows1, Types
<1>2. \A a, b : Up(a, b)' <=> Up(a, b)
  BY <1>1, SameTree
<1> SUFFICES ASSUME NEW a \in Vert, upNode'[a] # Null
             PROVE  nbUp'[a] = 1 /\ Up(a, upNode'[a])
  BY <1>2 DEF ClosedArcs
<1>3. CASE upNode[a] # Null /\ upNode'[a] = upNode[a]
  <2>1. nbUp[a] = 1
    BY <1>3 DEF ClosedArcs
  <2>2. nbUp'[a] = nbUp[a]
    <3>1. Start(t) => nbUp[startVert[t]] = 0
      BY DEF Start, ArcInv, Fresh, FreshOf, Anchor
    <3> QED BY <1>1, <2>1, <3>1 DEF ArcChange, UpChange
  <2> QED BY <1>3, <2>1, <2>2 DEF ClosedArcs
<1>4. CASE ~(upNode[a] # Null /\ upNode'[a] = upNode[a])
  <2> DEFINE v == cur[t]
             u == comp[ufs[v]]
  <2>1. CloseArcs(t)
    BY <1>1, <1>4, StepTree
  <2>2. /\ pc[t] = "merge" /\ todo[t] = {}
        /\ upNode'[a] = IF a \in openedArcs[u] THEN v ELSE upNode[a]
        /\ nbUp' = nbUp
    BY <2>1 DEF CloseArcs, find
  <2>3. a \in openedArcs[u] /\ upNode'[a] = v
    BY <1>4, <2>2
  <2>4. /\ v \in Vert /\ v = Top(t) /\ u \in Holds(t) /\ vert2tree[v] = IsNode
        /\ nbUp[v] = 0 /\ ~Absorbed(t) /\ Sweeping(t) /\ ufs[v] # Null
    BY <2>2, HoldsFacts DEF GInv, AtSaddle, SaddleOf, ArcInv, Fresh, FreshOf, Anchor,
                            Absorbed, Parked, Sweeping
  <2>5. u \in Vert /\ comp[u] = u
    BY <2>4 DEF GInv, Representatives, Types
  <2>6. a \in Members(u) /\ OpenArc(a)
    BY <2>3, <2>5 DEF OpenedListed
  <2>7. a < v
    <3>1. a <= Top(t) /\ a # v
      BY <2>4, <2>6 DEF GInv, Swept, SweptOf, Members, OpenArc
    <3>2. a \in Nat /\ v \in Nat
      BY <2>4, VertFacts
    <3> QED BY <2>4, <3>1, <3>2
  <2>8. v \in Ends
    BY <2>4 DEF NodesCritical, Ends
  <2>9. Up(a, v)
    BY <2>4, <2>6, <2>7, <2>8, UpTop
  <2> QED BY <2>2, <2>3, <2>6, <2>9 DEF OpenArc
<1> QED BY <1>3, <1>4
-------------------------------------------------------------------------------
(* What a step leaves of the sets.                                         *)
(* A vertex that is published late, at a node, stays in its set, or goes   *)
(* from one to another of those that are being merged there.               *)
LEMMA LatePublish ==
    ASSUME Types, GInv, NEW t \in Leaves, Publish(t), NEW x \in Vert, vert2tree[x] # Null
    PROVE  \/ \A u : Belongs(x, u)' <=> Belongs(x, u)
           \/ \E p \in Leaves : /\ pc[p] = "merge" /\ cur[p] = x
                                /\ \A u : Belongs(x, u)' => u \in Holds(p)
<1>1. /\ pc[t] = "publish" /\ comp' = comp
      /\ ufs' = [ufs EXCEPT ![cur[t]] = startUF[t]]
  BY DEF Publish, ufVars
<1>2. CASE x # cur[t]
  BY <1>1, <1>2 DEF Belongs, Types
<1>3. CASE x = cur[t]
  <2>1. ufs'[x] = startUF[t] /\ startUF[t] # Null
    BY <1>1, <1>3, LeavesFacts, VertFacts DEF Types
  <2>2. \A u : Belongs(x, u)' <=> Rep(t) = u
    BY <1>1, <2>1 DEF Belongs, Rep
  <2>3. CASE ~isSaddle[t]
    <3>1. ~Absorbed(t) /\ (cur[t] = startVert[t] \/ vert2tree[x] = Null)
      BY <1>1, <1>3, <2>3 DEF GInv, Visits, VisitOf, Captured, Absorbed, Parked
    <3>2. x = startVert[t] /\ Sweeping(t)
      BY <1>1, <1>3, <3>1 DEF Sweeping
    <3>3. Belongs(x, Rep(t))
      BY <1>1, <3>2 DEF GInv, Arcs, ArcOf
    <3> QED BY <2>2, <3>3 DEF Belongs
  <2>4. CASE isSaddle[t]
    <3>1. PICK n \in Lower(x) : Belongs(n, Rep(t))
      BY <1>1, <1>3, <2>4, HasBelow DEF Parked, Claims
    <3>2. /\ ufs[x] # Null
          /\ \/ comp[ufs[n]] = comp[ufs[x]]
             \/ \E p \in Leaves : pc[p] = "merge" /\ cur[p] = x /\ n \in todo[p]
      BY DEF GInv, LowerClosed
    <3>3. CASE comp[ufs[n]] = comp[ufs[x]]
      BY <2>2, <3>1, <3>2, <3>3 DEF Belongs
    <3>4. ASSUME NEW p \in Leaves, pc[p] = "merge", cur[p] = x
          PROVE  Rep(t) \in Holds(p)
      BY <3>1, <3>4, HoldsFacts DEF Belongs
    <3> QED BY <2>2, <3>2, <3>3, <3>4
  <2> QED BY <2>3, <2>4
<1> QED BY <1>2, <1>3

(* The union of two sets at a saddle, and their lists of arcs.             *)
LEMMA UniteLists ==
    ASSUME Types, GInv, TreeTypes, NEW t \in Leaves, NEW n \in Vert, MergeNeighbor(t, n),
           comp[ufs[cur[t]]] # comp[ufs[n]]
    PROVE  \E w \in Holds(t), l \in Holds(t) :
              /\ w \in Vert /\ l \in Vert /\ w # l /\ comp[w] = w /\ comp[l] = l
              /\ comp' = [x \in Vert |-> IF comp[x] = l THEN w ELSE comp[x]]
              /\ openedArcs' = [openedArcs EXCEPT ![w] = openedArcs[w] \cup openedArcs[l]]
              /\ \A x \in Vert : \A u :
                    Belongs(x, u)' <=> \/ u # l /\ Belongs(x, u)
                                       \/ u = w /\ Belongs(x, l)
<1> DEFINE v == cur[t]
           a == comp[ufs[v]]
           b == comp[ufs[n]]
           w == Winner(a, b)
           l == IF w = a THEN b ELSE a
<1>1. pc[t] = "merge" /\ n \in todo[t] /\ t \in Vert
  BY LeavesFacts DEF MergeNeighbor
<1>2. v \in Vert /\ ufs[v] # Null /\ n \in Lower(v)
  BY <1>1 DEF GInv, AtSaddle, SaddleOf
<1>3. a \in Holds(t) /\ b \in Holds(t) /\ ufs[n] # Null
  BY <1>1, <1>2, HoldsFacts
<1>4. a \in Vert /\ b \in Vert /\ comp[a] = a /\ comp[b] = b
  BY <1>2, <1>3 DEF GInv, Representatives, Types
<1>5. w \in {a, b} /\ l \in {a, b} /\ w # l
  BY DEF Winner
<1>6. /\ comp' = [x \in Vert |-> IF comp[x] = l THEN w ELSE comp[x]]
      /\ openedArcs' = [openedArcs EXCEPT ![w] = openedArcs[w] \cup openedArcs[l]]
      /\ ufs' = [ufs EXCEPT ![v] = w]
  BY DEF MergeNeighbor, Unite, find
<1>7. a = w \/ a = l
  BY <1>5
<1>8. w # Null
  BY <1>4, <1>5, VertFacts
<1>w. PICK w0 : w0 = w
  OBVIOUS
<1>l. PICK l0 : l0 = l
  OBVIOUS
<1>a. PICK a0 : a0 = a
  OBVIOUS
<1>9. /\ comp' = [x \in Vert |-> IF comp[x] = l0 THEN w0 ELSE comp[x]]
      /\ ufs' = [ufs EXCEPT ![v] = w0] /\ w0 # l0 /\ w0 # Null /\ (a0 = w0 \/ a0 = l0)
      /\ w0 \in Vert /\ comp[w0] = w0 /\ comp[ufs[v]] = a0
  BY <1>4, <1>5, <1>6, <1>7, <1>8, <1>w, <1>l, <1>a
<1>10. \A x \in Vert : \A u :
          Belongs(x, u)' <=> (u # l0 /\ Belongs(x, u)) \/ (u = w0 /\ Belongs(x, l0))
  <2> HIDE DEF w, l, a
  <2> SUFFICES ASSUME NEW x \in Vert, NEW u
               PROVE  Belongs(x, u)' <=> (u # l0 /\ Belongs(x, u)) \/ (u = w0 /\ Belongs(x, l0))
    OBVIOUS
  <2>1. CASE x = v
    <3>1. ufs'[x] = w0 /\ comp'[w0] = w0
      BY <1>2, <1>9, <2>1 DEF Types
    <3>2. Belongs(x, u)' <=> u = w0
      BY <1>9, <3>1 DEF Belongs
    <3>3. ufs[x] # Null /\ comp[ufs[x]] = a0
      BY <1>2, <1>9, <2>1
    <3> QED BY <1>9, <3>2, <3>3 DEF Belongs
  <2>2. CASE x # v
    <3>1. ufs'[x] = ufs[x]
      BY <1>9, <2>2 DEF Types
    <3>2. ufs[x] # Null => comp'[ufs[x]] = IF comp[ufs[x]] = l0 THEN w0 ELSE comp[ufs[x]]
      BY <1>9 DEF Types
    <3> QED BY <1>9, <3>1, <3>2 DEF Belongs
  <2> QED BY <2>1, <2>2
<1>11. /\ w0 \in Holds(t) /\ l0 \in Holds(t) /\ w0 \in Vert /\ l0 \in Vert /\ w0 # l0
       /\ comp[w0] = w0 /\ comp[l0] = l0
       /\ openedArcs' = [openedArcs EXCEPT ![w0] = openedArcs[w0] \cup openedArcs[l0]]
  BY <1>3, <1>4, <1>5, <1>6, <1>w, <1>l
<1> HIDE DEF w, l, a, b, v
<1> QED BY <1>9, <1>10, <1>11

(* An arc that is open after a step was, or is the one that Start opens.   *)
LEMMA StillOpenArc ==
    ASSUME Types, GInv, TreeTypes, ArcInv, ClosedArcs, NEW t \in Leaves, Grows1(t),
           NEW a \in Vert
    PROVE  /\ Start(t) /\ a = startVert[t] => OpenArc(a)' /\ ~OpenArc(a)
           /\ ~(Start(t) /\ a = startVert[t]) /\ ~CloseArcs(t) => (OpenArc(a)' <=> OpenArc(a))
           /\ CloseArcs(t) => (OpenArc(a)' <=> OpenArc(a) /\ a \notin openedArcs[comp[ufs[cur[t]]]])
<1>1. t \in Vert /\ TaskStep(t) /\ ~CloseRoot(t) /\ ArcChange(t)
  BY ArcStep, LeavesFacts DEF Grows1
<1>2. CASE Start(t)
  <2>1. /\ nbUp[startVert[t]] = 0 /\ upNode' = upNode /\ startVert[t] \in Vert
        /\ nbUp' = [nbUp EXCEPT ![startVert[t]] = @ + 1] /\ ~CloseArcs(t)
    BY <1>1, <1>2 DEF Start, ArcInv, Fresh, FreshOf, Anchor, Types, CloseArcs
  <2>2. upNode[startVert[t]] = Null
    BY <2>1 DEF ClosedArcs
  <2>3. nbUp'[startVert[t]] = 1
    BY <2>1 DEF TreeTypes
  <2>4. a # startVert[t] => nbUp'[a] = nbUp[a]
    BY <2>1 DEF TreeTypes
  <2> QED BY <1>2, <2>1, <2>2, <2>3, <2>4 DEF OpenArc
<1>3. CASE CloseArcs(t)
  <2>1. ~Start(t) /\ nbUp' = nbUp /\ cur[t] # Null
        /\ upNode'[a] = IF a \in openedArcs[comp[ufs[cur[t]]]] THEN cur[t] ELSE upNode[a]
    BY <1>3, VertFacts DEF CloseArcs, Start, find, GInv, AtSaddle, SaddleOf
  <2> QED BY <1>3, <2>1 DEF OpenArc
<1>4. CASE ~Start(t) /\ ~CloseArcs(t)
  <2>1. nbUp' = nbUp /\ upNode' = upNode
    BY <1>1, <1>4, StepTree
  <2> QED BY <1>4, <2>1 DEF OpenArc
<1> QED BY <1>2, <1>3, <1>4
-------------------------------------------------------------------------------
(* An arc is open above a node that has a set, and keeps it, but in the    *)
(* union of two sets.                                                      *)
LEMMA OpenArcKept ==
    ASSUME Types, GInv, SInv, TreeTypes, ArcInv, NEW t \in Leaves, Grows1(t),
           NEW a \in Vert, OpenArc(a),
           ~\E n \in Vert : MergeNeighbor(t, n) /\ comp[ufs[cur[t]]] # comp[ufs[n]]
    PROVE  \A u : Belongs(a, u)' <=> Belongs(a, u)
<1>1. t \in Vert /\ TaskStep(t) /\ ~OnlyLeaf(t)
  BY LeavesFacts DEF Grows1
<1>2. nbUp[a] = 1 /\ vert2tree[a] = IsNode /\ vert2tree[a] # Null
  BY VertFacts DEF OpenArc, ArcInv, Opening, OpenedOf
<1>3. comp' = comp /\ (ufs' = ufs \/ Launch(t) \/ Publish(t))
  BY <1>1, StepTree
<1>4. CASE ufs' = ufs
  BY <1>3, <1>4 DEF Belongs
<1>5. CASE Launch(t)
  <2>1. ufs' = [ufs EXCEPT ![t] = t] /\ nbUp[t] = 0
    BY <1>1, <1>5 DEF Launch, ArcInv, Fresh, FreshOf, Anchor, GInv, Arcs, ArcOf
  <2>2. ufs'[a] = ufs[a]
    BY <1>2, <2>1 DEF Types
  <2> QED BY <1>3, <2>2 DEF Belongs
<1>6. CASE Publish(t)
  <2>1. ASSUME NEW p \in Leaves, pc[p] = "merge", cur[p] = a PROVE FALSE
    BY <1>2, <2>1 DEF ArcInv, Fresh, FreshOf, Anchor
  <2> QED BY <1>2, <1>6, <2>1, LatePublish
<1> QED BY <1>3, <1>4, <1>5, <1>6

(* Each set lists its open arcs.                                           *)
LEMMA OpenedListedStep ==
    ASSUME Types, GInv, SInv, TreeTypes, ArcInv, NEW t \in Leaves, Grows1(t),
           ClosedArcs, OpenedListed
    PROVE  OpenedListed'
<1>1. t \in Vert /\ TaskStep(t) /\ ~OnlyLeaf(t) /\ ~CloseRoot(t)
  BY LeavesFacts DEF Grows1
<1>2. \A u : Members(u)' = {x \in Vert : Belongs(x, u)'}
  BY DEF Members
<1> SUFFICES ASSUME NEW u \in Vert, comp'[u] = u, NEW a
             PROVE  a \in openedArcs'[u] <=> a \in Vert /\ Belongs(a, u)' /\ OpenArc(a)'
  <2>1. ASSUME NEW w \in Vert, comp'[w] = w
        PROVE  openedArcs'[w] = {x \in Members(w)' : OpenArc(x)'}
    <3>1. \A x : x \in openedArcs'[w] <=> x \in Vert /\ Belongs(x, w)' /\ OpenArc(x)'
      BY <2>1
    <3> QED BY <1>2, <3>1
  <2> QED BY <2>1 DEF OpenedListed
<1> DEFINE Unites == \E n \in Vert : MergeNeighbor(t, n) /\ comp[ufs[cur[t]]] # comp[ufs[n]]
<1>3. \A w \in Vert : comp[w] = w =>
         (a \in openedArcs[w] <=> a \in Vert /\ Belongs(a, w) /\ OpenArc(a))
  BY DEF OpenedListed, Members
<1>4. \A w \in Vert : a \in openedArcs[w] => a \in Vert
  BY DEF TreeTypes
<1>5. CASE Unites
  <2> PICK n \in Vert : MergeNeighbor(t, n) /\ comp[ufs[cur[t]]] # comp[ufs[n]]
    BY <1>5
  <2>1. PICK w \in Holds(t), l \in Holds(t) :
              /\ w \in Vert /\ l \in Vert /\ w # l /\ comp[w] = w /\ comp[l] = l
              /\ comp' = [x \in Vert |-> IF comp[x] = l THEN w ELSE comp[x]]
              /\ openedArcs' = [openedArcs EXCEPT ![w] = openedArcs[w] \cup openedArcs[l]]
              /\ \A x \in Vert : \A z :
                    Belongs(x, z)' <=> \/ z # l /\ Belongs(x, z)
                                       \/ z = w /\ Belongs(x, l)
    BY UniteLists
  <2>2. u # l /\ comp[u] = u
    BY <2>1
  <2>3. a \in Vert => (OpenArc(a)' <=> OpenArc(a))
    <3>1. pc[t] = "merge" /\ todo[t] # {}
      BY DEF MergeNeighbor
    <3>2. ~Start(t) /\ ~CloseArcs(t)
      BY <3>1 DEF Start, CloseArcs
    <3> QED BY <3>2, StillOpenArc
  <2>4. openedArcs'[u] = IF u = w THEN openedArcs[w] \cup openedArcs[l] ELSE openedArcs[u]
    BY <2>1 DEF TreeTypes
  <2>5. a \in Vert => (Belongs(a, u)' <=> Belongs(a, u) \/ (u = w /\ Belongs(a, l)))
    BY <2>1, <2>2
  <2> QED BY <1>3, <1>4, <2>1, <2>2, <2>3, <2>4, <2>5
<1>6. CASE ~Unites
  <2>1. comp' = comp /\ comp[u] = u
    BY <1>1, <1>6, StepTree
  <2>2. a \in Vert /\ OpenArc(a) => (Belongs(a, u)' <=> Belongs(a, u))
    BY <1>6, OpenArcKept
  <2>3. CASE Start(t)
    <3> DEFINE v == startVert[t]
    <3>1. /\ v \in Vert /\ comp[ufs[v]] \in Vert /\ ufs' = ufs /\ ~CloseArcs(t)
          /\ Belongs(v, comp[ufs[v]])
          /\ openedArcs' = [openedArcs EXCEPT ![comp[ufs[v]]] = @ \cup {v}]
      <4>1. pc[t] = "start" /\ ~CloseArcs(t) /\ ufs' = ufs
            /\ openedArcs' = [openedArcs EXCEPT ![comp[ufs[v]]] = @ \cup {v}]
        BY <2>3 DEF Start, CloseArcs, find
      <4>2. Sweeping(t)
        BY <4>1 DEF Sweeping, Absorbed, Parked
      <4>3. Belongs(v, Rep(t))
        BY <4>1, <4>2 DEF GInv, Arcs, ArcOf
      <4> QED BY <1>1, <4>1, <4>3 DEF Belongs, Types
    <3>2. openedArcs'[u] = IF u = comp[ufs[v]] THEN openedArcs[u] \cup {v} ELSE openedArcs[u]
      BY <3>1 DEF TreeTypes
    <3>3. \A w : Belongs(v, w) <=> w = comp[ufs[v]]
      BY <3>1 DEF Belongs
    <3>4. CASE a = v
      <4>1. OpenArc(a)' /\ (Belongs(a, u)' <=> Belongs(a, u))
        BY <2>1, <2>3, <3>1, <3>4, StillOpenArc DEF Belongs
      <4>2. ~OpenArc(a)
        BY <2>3, <3>1, <3>4, StillOpenArc
      <4> QED BY <1>3, <2>1, <3>1, <3>2, <3>3, <3>4, <4>1, <4>2
    <3>5. CASE a # v
      <4>1. a \in Vert => (OpenArc(a)' <=> OpenArc(a))
        BY <3>1, <3>5, StillOpenArc
      <4> QED BY <1>3, <1>4, <2>1, <2>2, <3>2, <3>5, <4>1
    <3> QED BY <3>4, <3>5
  <2>4. CASE CloseArcs(t)
    <3> DEFINE r == comp[ufs[cur[t]]]
    <3>1. /\ r \in Vert /\ comp[r] = r /\ openedArcs' = [openedArcs EXCEPT ![r] = {}]
      <4>1. pc[t] = "merge" /\ openedArcs' = [openedArcs EXCEPT ![r] = {}]
        BY <2>4 DEF CloseArcs, find
      <4>2. cur[t] \in Vert /\ ufs[cur[t]] # Null
        BY <4>1 DEF GInv, AtSaddle, SaddleOf
      <4> QED BY <4>1, <4>2 DEF Types, GInv, Representatives
    <3>2. openedArcs'[u] = IF u = r THEN {} ELSE openedArcs[u]
      BY <3>1 DEF TreeTypes
    <3>3. a \in Vert => (OpenArc(a)' <=> OpenArc(a) /\ a \notin openedArcs[r])
      BY <2>4, StillOpenArc
    <3>4. u # r => ~(Belongs(a, u) /\ Belongs(a, r))
      BY DEF Belongs
    <3> QED BY <1>3, <1>4, <2>1, <2>2, <3>1, <3>2, <3>3, <3>4
  <2>5. CASE ~Start(t) /\ ~CloseArcs(t)
    <3>1. openedArcs' = openedArcs
      BY <1>1, <1>6, <2>5, StepTree
    <3>2. a \in Vert => (OpenArc(a)' <=> OpenArc(a))
      BY <2>5, StillOpenArc
    <3> QED BY <1>3, <1>4, <2>1, <2>2, <3>1, <3>2
  <2> QED BY <2>3, <2>4, <2>5
<1> QED BY <1>5, <1>6

(* No arc is left open below a node.                                       *)
LEMMA PassedStep ==
    ASSUME Types, GInv, SInv, TreeTypes, ArcInv, NEW t \in Leaves, Grows1(t),
           AllParked, ClosedArcs, OpenedListed, Passed
    PROVE  Passed'
<1>1. t \in Vert /\ TaskStep(t) /\ ~OnlyLeaf(t) /\ ~CloseRoot(t) /\ mesh' = mesh /\ Leaves' = Leaves
  BY LeavesFacts, StepFrame DEF Grows1
<1>2. \A v : Piece(v)' = Piece(v)
  BY <1>1, SameTree
<1> SUFFICES ASSUME NEW a \in Vert, NEW c \in Vert,
                    OpenArc(a)', vert2tree'[c] = IsNode, a < c, a \in Piece(c)
             PROVE  \E p \in Leaves : pc'[p] = "merge" /\ cur'[p] = c
  BY <1>1, <1>2 DEF Passed
<1>3. CASE vert2tree[c] # IsNode
  <2>1. OpenNode(t) /\ c = cur[t] /\ pc'[t] = "merge"
    BY <1>3, NewNode
  <2>2. cur' = cur
    BY <2>1 DEF OpenNode, callVars
  <2> QED BY <2>1, <2>2
<1>4. CASE vert2tree[c] = IsNode /\ OpenArc(a)
  <2>1. PICK p \in Leaves : pc[p] = "merge" /\ cur[p] = c
    BY <1>4 DEF Passed
  <2>2. CASE p # t
    BY <1>1, <2>1, <2>2, StepFrame, LeavesFacts
  <2>3. CASE p = t /\ CloseArcs(t)
    <3>1. todo[t] = {} /\ Sweeping(t) /\ ~Absorbed(t) /\ Whole(t)
      BY <2>1, <2>3 DEF CloseArcs, Sweeping, Absorbed, Parked, Claims, Whole
    <3>2. ufs[c] # Null /\ comp[ufs[c]] \in Holds(t)
      BY <2>1, <2>3, HoldsFacts DEF GInv, AtSaddle, SaddleOf
    <3>3. c \in Members(comp[ufs[c]])
      BY <3>2 DEF Members, Belongs
    <3>4. a \in Members(comp[ufs[c]])
      BY <3>1, <3>2, <3>3, SetBelow
    <3>5. comp[ufs[c]] \in Vert /\ comp[comp[ufs[c]]] = comp[ufs[c]]
      BY <3>2 DEF GInv, Representatives, Types
    <3>6. a \in openedArcs[comp[ufs[c]]]
      BY <1>4, <3>4, <3>5 DEF OpenedListed
    <3> QED BY <2>1, <2>3, <3>6, StillOpenArc
  <2>4. CASE p = t /\ ~CloseArcs(t)
    <3>1. PICK n \in Vert : MergeNeighbor(t, n)
      BY <1>1, <2>1, <2>4 DEF TaskStep, Launch, Start, Visit, Capture, CaptureWith, Publish,
                              OpenNode, Retire, Restart
    <3> QED BY <2>1, <2>4, <3>1 DEF MergeNeighbor, callVars
  <2> QED BY <2>2, <2>3, <2>4
<1>5. CASE vert2tree[c] = IsNode /\ ~OpenArc(a)
  <2>1. Start(t) /\ a = startVert[t]
    BY <1>5, StillOpenArc
  <2>2. pc[t] = "start" /\ ~Absorbed(t) /\ Sweeping(t) /\ pc' = [pc EXCEPT ![t] = "pop"] /\ cur' = cur
    BY <2>1 DEF Start, Sweeping, Absorbed, Parked, Goto
  <2>3. Belongs(a, Rep(t)) /\ Rep(t) \in Holds(t) /\ Top(t) = a
    BY <2>1, <2>2, HoldsFacts DEF GInv, Arcs, ArcOf, Top
  <2>4. c \notin Leaves /\ a # c
    <3>1. a \in Nat /\ c \in Nat
      BY VertFacts
    <3>2. a # c
      BY <3>1
    <3> QED BY <3>2, LeafPiece DEF Types
  <2>5. ufs[c] # Null
    BY <1>5, <2>4, NodeHasSet
  <2>6. PICK o \in Leaves : \E u \in Holds(o) :
              /\ ~Absorbed(o) /\ Sweeping(o) /\ c \in Members(u)
              /\ Piece(c) \subseteq Members(u) \/ (pc[o] = "merge" /\ cur[o] = c)
    BY <1>5, <2>5, NodeHeld
  <2>7. PICK u \in Holds(o) :
              /\ ~Absorbed(o) /\ Sweeping(o) /\ c \in Members(u)
              /\ Piece(c) \subseteq Members(u) \/ (pc[o] = "merge" /\ cur[o] = c)
    BY <2>6
  <2>8. CASE pc[o] = "merge" /\ cur[o] = c
    <3>1. o # t
      BY <2>2, <2>8
    <3> QED BY <2>2, <2>8, <3>1, LeavesFacts DEF Types
  <2>9. CASE Piece(c) \subseteq Members(u)
    <3>1. Belongs(a, u)
      BY <2>9 DEF Members
    <3>2. u = Rep(t)
      BY <2>3, <3>1 DEF Belongs
    <3>3. o = t
      BY <2>2, <2>3, <2>7, <3>2, Sole
    <3>4. c <= a
      BY <2>2, <2>3, <2>7, <3>3 DEF GInv, Swept, SweptOf, Members
    <3>5. a \in Nat /\ c \in Nat
      BY VertFacts
    <3> QED BY <3>4, <3>5
  <2> QED BY <2>7, <2>8, <2>9
<1> QED BY <1>3, <1>4, <1>5
-------------------------------------------------------------------------------
(* o is on an arc or between two.                                          *)
Between(o) == OnItsArc(o) \/ pc[o] \in {"waiting", "start", "decide"}

(* A step leaves the nodes in the set of such a task alone.                *)
LEMMA OtherNodes ==
    ASSUME Types, GInv, SInv, TreeTypes, ArcInv, NEW t \in Leaves, Grows1(t),
           NEW o \in Leaves, o # t, Between(o)
    PROVE  /\ Rep(o)' = Rep(o)
           /\ \A c \in Vert : vert2tree'[c] = IsNode /\ Belongs(c, Rep(o))' =>
                 vert2tree[c] = IsNode /\ Belongs(c, Rep(o))
<1>1. t \in Vert /\ o \in Vert /\ TaskStep(t) /\ ~OnlyLeaf(t) /\ ~CloseRoot(t)
  BY LeavesFacts DEF Grows1
<1>2. ~Absorbed(o) /\ Rep(o) \in Holds(o) /\ startUF'[o] = startUF[o] /\ startUF[o] \in Vert
  BY <1>1, HoldsFacts, OthersFrame DEF Between, OnItsArc, Absorbed, Parked, Types
<1> DEFINE Unites == \E n \in Vert : MergeNeighbor(t, n) /\ comp[ufs[cur[t]]] # comp[ufs[n]]
<1>3. CASE Unites
  <2> PICK n \in Vert : MergeNeighbor(t, n) /\ comp[ufs[cur[t]]] # comp[ufs[n]]
    BY <1>3
  <2>1. PICK w \in Holds(t), l \in Holds(t) :
              /\ w \in Vert /\ l \in Vert /\ w # l /\ comp[w] = w /\ comp[l] = l
              /\ comp' = [x \in Vert |-> IF comp[x] = l THEN w ELSE comp[x]]
              /\ openedArcs' = [openedArcs EXCEPT ![w] = openedArcs[w] \cup openedArcs[l]]
              /\ \A x \in Vert : \A z :
                    Belongs(x, z)' <=> \/ z # l /\ Belongs(x, z)
                                       \/ z = w /\ Belongs(x, l)
    BY UniteLists
  <2>2. ~Absorbed(t) /\ vert2tree' = vert2tree
    BY DEF MergeNeighbor, segmVars, Absorbed, Parked
  <2>3. Rep(o) # w /\ Rep(o) # l
    BY <1>2, <2>1, <2>2, Sole
  <2>4. Rep(o)' = Rep(o)
    BY <1>2, <2>1, <2>3 DEF Rep
  <2>5. \A c \in Vert : Belongs(c, Rep(o))' => Belongs(c, Rep(o))
    <3>1. \A c : Belongs(c, Rep(o))' <=> (ufs'[c] # Null /\ comp'[ufs'[c]] = Rep(o))
      BY <2>4 DEF Belongs
    <3>2. \A c, z : Belongs(c, z)' <=> (ufs'[c] # Null /\ comp'[ufs'[c]] = z)
      BY DEF Belongs
    <3> QED BY <2>1, <2>3, <3>1, <3>2
  <2> QED BY <2>2, <2>4, <2>5
<1>4. CASE ~Unites
  <2>1. comp' = comp /\ (ufs' = ufs \/ Launch(t) \/ Publish(t))
    BY <1>1, <1>4, StepTree
  <2>2. Rep(o)' = Rep(o)
    BY <1>2, <2>1 DEF Rep
  <2>3. \A c : Belongs(c, Rep(o))' <=> (ufs'[c] # Null /\ comp[ufs'[c]] = Rep(o))
    BY <2>1, <2>2 DEF Belongs
  <2> SUFFICES ASSUME NEW c \in Vert, vert2tree'[c] = IsNode, Belongs(c, Rep(o))'
               PROVE  vert2tree[c] = IsNode /\ Belongs(c, Rep(o))
    BY <2>2
  <2>4. vert2tree[c] = IsNode
    <3> SUFFICES ASSUME vert2tree[c] # IsNode PROVE FALSE
      OBVIOUS
    <3>1. OpenNode(t) /\ isLast[t] /\ c = cur[t] /\ Claims(t)
      BY NewNode
    <3>2. ufs' = ufs /\ vert2tree[c] = Null
      BY <3>1, ClaimFacts DEF OpenNode
    <3>3. c \in Members(Rep(o))
      BY <2>3, <3>2 DEF Members, Belongs
    <3>4. Parked(o) \/ Claims(o)
      BY <1>2, <3>2, <3>3, SetSettled
    <3> QED BY <3>4 DEF Between, OnItsArc, Parked, Claims
  <2>5. CASE ufs' = ufs
    BY <2>3, <2>4, <2>5 DEF Belongs
  <2>6. CASE Launch(t)
    <3>1. ufs' = [ufs EXCEPT ![t] = t] /\ startUF[t] = t /\ ~Absorbed(t)
      BY <2>6 DEF Launch, GInv, Arcs, ArcOf, Absorbed, Parked
    <3>2. CASE c = t
      <4>1. Rep(o) = Rep(t) /\ Rep(t) \in Holds(t)
        BY <2>3, <3>1, <3>2, HoldsFacts DEF Rep, Types
      <4> QED BY <1>2, <3>1, <4>1, Sole
    <3>3. CASE c # t
      BY <2>3, <2>4, <3>1, <3>3 DEF Types, Belongs
    <3> QED BY <3>2, <3>3
  <2>7. CASE Publish(t)
    <3>1. vert2tree[c] # Null
      BY <2>4, VertFacts
    <3>2. \A u : Belongs(c, u)' <=> (ufs'[c] # Null /\ comp[ufs'[c]] = u)
      BY <2>1 DEF Belongs
    <3>3. CASE \A u : Belongs(c, u)' <=> Belongs(c, u)
      BY <2>3, <2>4, <3>2, <3>3
    <3>4. ASSUME NEW p \in Leaves, pc[p] = "merge", cur[p] = c,
                 \A u : Belongs(c, u)' => u \in Holds(p)
          PROVE  FALSE
      <4>1. Rep(o) \in Holds(p) /\ ~Absorbed(p)
        BY <2>3, <3>2, <3>4 DEF Absorbed, Parked
      <4>2. o = p
        BY <1>2, <4>1, SoleRep
      <4> QED BY <3>4, <4>2 DEF Between, OnItsArc
    <3> QED BY <2>7, <3>1, <3>3, <3>4, LatePublish
  <2> QED BY <2>1, <2>5, <2>6, <2>7
<1> QED BY <1>3, <1>4

(* A node where an arc is open or opened.                                  *)
LEMMA OpenAtNode ==
    ASSUME Types, GInv, SInv, TreeTypes, ArcInv, ClosedArcs, NEW t \in Leaves, Grows1(t),
           NEW c \in Vert, OpenArc(c)'
    PROVE  /\ vert2tree[c] = IsNode /\ vert2tree'[c] = IsNode
           /\ OpenArc(c) \/ (Start(t) /\ c = startVert[t])
<1>1. OpenArc(c) \/ (Start(t) /\ c = startVert[t])
  BY StillOpenArc
<1>2. vert2tree[c] = IsNode
  BY <1>1 DEF OpenArc, ArcInv, Opening, OpenedOf, GInv, Arcs, ArcOf
<1>3. t \in Vert /\ TaskStep(t) /\ ArcChange(t)
  BY LeavesFacts, ArcStep DEF Grows1
<1> QED BY <1>1, <1>2, <1>3, NodesStay

(* What a step of a task leaves of the arcs of the others,                 *)
LEMMA OthersTop ==
    ASSUME Types, GInv, SInv, TreeTypes, ArcInv, NEW t \in Leaves, Grows1(t),
           ClosedArcs, NEW o \in Leaves, o # t, TopOf(o)
    PROVE  TopOf(o)'
<1>1. TaskStep(t) /\ o \in Vert /\ t \in Vert
  BY LeavesFacts DEF Grows1
<1>2. /\ pc'[o] = pc[o] /\ startVert'[o] = startVert[o] /\ isSaddle'[o] = isSaddle[o]
      /\ (OnItsArc(o)' <=> OnItsArc(o))
  BY <1>1, StepFrame DEF OnItsArc
<1> SUFFICES ASSUME Between(o), NEW c \in Vert, Belongs(c, Rep(o))'
             PROVE  /\ OnItsArc(o) /\ vert2tree'[c] = IsNode => c <= startVert[o]
                    /\ OnItsArc(o) /\ OpenArc(c)' => c = startVert[o]
                    /\ pc[o] \in {"waiting", "start", "decide"} => ~OpenArc(c)'
  BY <1>2 DEF TopOf, Between, Members
<1>3. ASSUME vert2tree'[c] = IsNode
      PROVE  vert2tree[c] = IsNode /\ c \in Members(Rep(o))
  BY <1>3, OtherNodes DEF Members
<1>4. ASSUME OpenArc(c)' PROVE OpenArc(c) /\ c \in Members(Rep(o))
  <2>1. vert2tree'[c] = IsNode /\ (OpenArc(c) \/ (Start(t) /\ c = startVert[t]))
    BY <1>4, OpenAtNode
  <2>2. c \in Members(Rep(o))
    BY <1>3, <2>1
  <2>3. ASSUME Start(t), c = startVert[t] PROVE FALSE
    <3>1. pc[t] = "start" /\ ~Absorbed(t) /\ Sweeping(t)
      BY <2>3 DEF Start, Sweeping, Absorbed, Parked
    <3>2. Belongs(c, Rep(t)) /\ Rep(t) \in Holds(t)
      BY <2>3, <3>1, HoldsFacts DEF GInv, Arcs, ArcOf
    <3>3. ~Absorbed(o) /\ Rep(o) \in Holds(t)
      BY <2>2, <3>2 DEF Belongs, Members, Between, OnItsArc, Absorbed, Parked
    <3> QED BY <3>1, <3>3, SoleRep
  <2> QED BY <2>1, <2>2, <2>3
<1> QED BY <1>3, <1>4 DEF TopOf

(* and makes of its own.                                                   *)
LEMMA OwnTop ==
    ASSUME Types, GInv, SInv, TreeTypes, ArcInv, GInv', NEW t \in Leaves, Grows1(t),
           ClosedArcs, OpenedListed, TopOf(t)
    PROVE  TopOf(t)'
<1>1. /\ TaskStep(t) /\ t \in Vert /\ ~OnlyLeaf(t) /\ ~CloseRoot(t) /\ ~(Restart(t) /\ activeTasks = 1)
      /\ startVert[t] \in Vert /\ startUF[t] \in Vert /\ t \in DOMAIN pc
      /\ Leaves' = Leaves
  BY LeavesFacts, StepFrame DEF Grows1, Types
<1>2. \A u : Members(u)' = {x \in Vert : Belongs(x, u)'}
  BY DEF Members
<1>3. ASSUME Launch(t) \/ Restart(t) PROVE TopOf(t)'
  <2>1. /\ pc[t] \in {"waiting", "decide"} /\ pc'[t] = "start" /\ startUF' = startUF
        /\ comp' = comp /\ ~Start(t) /\ ~CloseArcs(t) /\ \A n \in Vert : ~MergeNeighbor(t, n)
    BY <1>1, <1>3 DEF Launch, Restart, Goto, ufVars, callVars, Start, CloseArcs, MergeNeighbor, Types
  <2>2. Rep(t)' = Rep(t) /\ ~OnItsArc(t)'
    BY <2>1 DEF Rep, OnItsArc
  <2>3. ASSUME NEW c \in Vert, Belongs(c, Rep(t))', OpenArc(c)' PROVE FALSE
    <3>1. OpenArc(c)
      BY <2>1, <2>3, StillOpenArc
    <3>2. \A u : Belongs(c, u)' <=> Belongs(c, u)
      BY <2>1, <3>1, OpenArcKept
    <3>3. Belongs(c, Rep(t))
      BY <2>2, <2>3, <3>2 DEF Belongs
    <3> QED BY <2>1, <3>1, <3>3 DEF TopOf, Members
  <2> QED BY <2>1, <2>2, <2>3 DEF TopOf, Members
<1>4. ASSUME Start(t) PROVE TopOf(t)'
  <2>1. /\ pc[t] = "start" /\ pc'[t] = "pop" /\ startUF'[t] = comp[ufs[startVert[t]]]
        /\ comp' = comp /\ ufs' = ufs /\ vert2tree' = vert2tree /\ startVert' = startVert
        /\ Sweeping(t)
    BY <1>1, <1>4 DEF Start, Goto, find, segmVars, Types, Sweeping, Absorbed, Parked
  <2>2. Belongs(startVert[t], Rep(t)) /\ Rep(t) \in Holds(t) /\ Top(t) = startVert[t]
    BY <2>1, HoldsFacts DEF GInv, Arcs, ArcOf, Top
  <2>3. Rep(t)' = Rep(t)
    BY <1>1, <2>1, <2>2 DEF Rep, Belongs, GInv, Representatives
  <2>4. ASSUME NEW c \in Vert, Belongs(c, Rep(t))'
        PROVE  c <= startVert[t] /\ (OpenArc(c)' => c = startVert[t])
    <3>1. Belongs(c, Rep(t))
      BY <2>1, <2>3, <2>4 DEF Belongs
    <3>2. c <= startVert[t]
      BY <2>1, <2>2, <3>1 DEF GInv, Swept, SweptOf
    <3>3. ~OpenArc(c)
      BY <2>1, <3>1 DEF TopOf, Members
    <3> QED BY <3>2, <3>3, OpenAtNode
  <2> QED BY <2>1, <2>4 DEF TopOf, Members
<1>5. ASSUME Visit(t) \/ Capture(t) PROVE TopOf(t)'
  <2>1. /\ OnItsArc(t) /\ pc'[t] \in {"capture", "publish"} /\ startUF' = startUF
        /\ comp' = comp /\ ufs' = ufs /\ vert2tree' = vert2tree /\ startVert' = startVert
        /\ ~Start(t) /\ ~CloseArcs(t)
    BY <1>1, <1>5 DEF Visit, Capture, CaptureWith, Goto, ufVars, callVars, segmVars, OnItsArc,
                      Start, CloseArcs, Types
  <2>2. \A c \in Vert : /\ Belongs(c, Rep(t))' <=> Belongs(c, Rep(t))
                        /\ OpenArc(c)' <=> OpenArc(c)
    BY <2>1, StillOpenArc DEF Belongs, Rep
  <2> QED BY <2>1, <2>2 DEF TopOf, Members
<1>6. ASSUME Publish(t) PROVE TopOf(t)'
  <2> DEFINE v == cur[t]
             a == startVert[t]
  <2>1. /\ pc[t] = "publish" /\ pc'[t] = (IF isSaddle[t] THEN "open" ELSE "pop")
        /\ comp' = comp /\ startUF' = startUF /\ startVert' = startVert
        /\ ufs' = [ufs EXCEPT ![v] = startUF[t]]
        /\ ~Start(t) /\ ~CloseArcs(t) /\ \A n \in Vert : ~MergeNeighbor(t, n)
    BY <1>1, <1>6 DEF Publish, Goto, ufVars, callVars, Start, CloseArcs, MergeNeighbor, Types
  <2>2. CASE isSaddle[t]
    BY <2>1, <2>2 DEF TopOf, OnItsArc
  <2>3. CASE ~isSaddle[t]
    <3>1. /\ v \in Vert /\ a # IsNode /\ OnItsArc(t)
          /\ v = a => vert2tree' = vert2tree
          /\ v # a => vert2tree' = [vert2tree EXCEPT ![v] = a]
      BY <1>6, <2>3, PublishFacts
    <3>2. Rep(t)' = Rep(t)
      BY <2>1 DEF Rep
    <3>3. ASSUME NEW c \in Vert, c # v, Belongs(c, Rep(t))'
          PROVE  Belongs(c, Rep(t)) /\ vert2tree'[c] = vert2tree[c]
      <4>1. ufs'[c] = ufs[c] /\ vert2tree'[c] = vert2tree[c]
        BY <2>1, <3>1, <3>3 DEF Types
      <4> QED BY <2>1, <3>2, <3>3, <4>1 DEF Belongs
    <3>4. ASSUME NEW c \in Vert, Belongs(c, Rep(t))'
          PROVE  /\ vert2tree'[c] = IsNode => c <= a
                 /\ OpenArc(c)' => c = a
      <4>1. ASSUME vert2tree'[c] = IsNode PROVE c <= a
        <5>1. CASE c = v
          <6>1. v = a
            BY <3>1, <4>1, <5>1 DEF Types
          <6>2. a \in Nat
            BY <1>1, VertFacts
          <6> QED BY <5>1, <6>1, <6>2
        <5>2. CASE c # v
          BY <3>1, <3>3, <3>4, <4>1, <5>2 DEF TopOf, Members
        <5> QED BY <5>1, <5>2
      <4>2. ASSUME OpenArc(c)' PROVE c = a
        <5>1. OpenArc(c)
          BY <2>1, <4>2, StillOpenArc
        <5>2. \A u : Belongs(c, u)' <=> Belongs(c, u)
          BY <2>1, <5>1, OpenArcKept
        <5>3. Belongs(c, Rep(t))
          BY <3>2, <3>4, <5>2 DEF Belongs
        <5> QED BY <3>1, <5>1, <5>3 DEF TopOf, Members
      <4> QED BY <4>1, <4>2
    <3> QED BY <2>1, <2>3, <3>4 DEF TopOf, Members
  <2> QED BY <2>2, <2>3
<1>7. ASSUME OpenNode(t) \/ Retire(t) \/ \E n \in Vert : MergeNeighbor(t, n) PROVE TopOf(t)'
  <2>1. pc'[t] \in {"merge", "retire", "stopped"}
    BY <1>1, <1>7 DEF OpenNode, Retire, MergeNeighbor, Goto
  <2> QED BY <2>1 DEF TopOf, OnItsArc
<1>8. ASSUME CloseArcs(t) PROVE TopOf(t)'
  <2> DEFINE u == comp[ufs[cur[t]]]
  <2>1. /\ pc[t] = "merge" /\ pc'[t] = "decide" /\ comp' = comp /\ ufs' = ufs
        /\ cur' = cur /\ startUF' = startUF
    BY <1>1, <1>8 DEF CloseArcs, Goto, callVars
  <2>2. cur[t] \in Vert /\ ufs[cur[t]] # Null
    BY <2>1 DEF GInv, AtSaddle, SaddleOf
  <2>3. Rep(t)' = Rep(t) /\ Rep(t) = u /\ u \in Vert /\ comp[u] = u
    <3>1. SaddleOf(t)'
      BY <1>1 DEF GInv, AtSaddle
    <3>2. Belongs(cur[t], Rep(t))'
      BY <2>1, <3>1 DEF SaddleOf
    <3> QED BY <2>1, <2>2, <3>2 DEF Belongs, Rep, GInv, Representatives, Types
  <2>4. ASSUME NEW c \in Vert, Belongs(c, Rep(t))', OpenArc(c)' PROVE FALSE
    <3>1. OpenArc(c) /\ c \notin openedArcs[u]
      BY <1>8, <2>4, StillOpenArc
    <3>2. c \in Members(u)
      BY <2>1, <2>3, <2>4 DEF Members, Belongs
    <3> QED BY <2>3, <3>1, <3>2 DEF OpenedListed
  <2> QED BY <2>1, <2>4 DEF TopOf, Members, OnItsArc
<1> QED BY <1>1, <1>3, <1>4, <1>5, <1>6, <1>7, <1>8 DEF TaskStep
-------------------------------------------------------------------------------
(* A node without an arc has a task that is about to open one.             *)
LEMMA AnchorsStep ==
    ASSUME Types, GInv, TreeTypes, ArcInv, NEW t \in Leaves, Grows1(t), Anchors
    PROVE  Anchors'
<1>1. /\ TaskStep(t) /\ t \in Vert /\ ~OnlyLeaf(t) /\ ~CloseRoot(t) /\ ~(Restart(t) /\ activeTasks = 1)
      /\ ArcChange(t) /\ Leaves' = Leaves
  BY LeavesFacts, ArcStep, StepFrame DEF Grows1
<1> SUFFICES ASSUME NEW a \in Vert, vert2tree'[a] = IsNode, nbUp'[a] = 0
             PROVE  \E o \in Leaves : /\ pc'[o] \in {"waiting", "start", "merge", "decide"}
                                      /\ Anchor(o)' = a
  BY <1>1 DEF Anchors
<1>2. CASE vert2tree[a] # IsNode
  <2>1. OpenNode(t) /\ a = cur[t] /\ pc'[t] = "merge"
    BY <1>2, NewNode
  <2>2. Anchor(t)' = a
    BY <2>1 DEF Anchor, OpenNode, callVars
  <2> QED BY <2>1, <2>2
<1>3. CASE vert2tree[a] = IsNode
  <2>1. nbUp[a] = 0 /\ ~(Start(t) /\ a = startVert[t])
    <3>1. nbUp[a] \in {0, 1} /\ (nbUp'[a] = nbUp[a] \/ nbUp'[a] = nbUp[a] + 1)
      BY <1>1 DEF ArcInv, Opening, OpenedOf, ArcChange, UpChange
    <3>2. Start(t) /\ a = startVert[t] => nbUp'[a] = nbUp[a] + 1
      BY DEF Start, TreeTypes
    <3> QED BY <3>1, <3>2
  <2>2. PICK o \in Leaves : pc[o] \in {"waiting", "start", "merge", "decide"} /\ Anchor(o) = a
    BY <1>3, <2>1 DEF Anchors
  <2>3. CASE o # t
    <3>1. pc'[o] = pc[o] /\ cur'[o] = cur[o] /\ startVert'[o] = startVert[o]
      BY <1>1, <2>3, StepFrame, LeavesFacts
    <3> QED BY <2>2, <3>1 DEF Anchor
  <2>4. CASE o = t
    <3>1. ~Visit(t) /\ ~Capture(t) /\ ~Publish(t) /\ ~OpenNode(t) /\ ~Retire(t)
      BY <2>2, <2>4 DEF Visit, Capture, CaptureWith, Publish, OpenNode, Retire
    <3>2. ~Start(t)
      BY <2>1, <2>2, <2>4 DEF Start, Anchor
    <3>3. CASE Launch(t)
      <4>1. pc[t] = "waiting" /\ pc'[t] = "start" /\ startVert' = startVert
        BY <1>1, <3>3 DEF Launch, Goto, callVars, Types
      <4> QED BY <2>2, <2>4, <4>1 DEF Anchor
    <3>4. ASSUME NEW n \in Vert, MergeNeighbor(t, n)
          PROVE  pc' = pc /\ cur' = cur /\ startVert' = startVert
      BY <3>4 DEF MergeNeighbor, callVars
    <3>5. CASE CloseArcs(t)
      <4>1. pc[t] = "merge" /\ pc'[t] = "decide" /\ cur' = cur
        BY <1>1, <3>5 DEF CloseArcs, Goto, callVars, Types
      <4> QED BY <2>2, <2>4, <4>1 DEF Anchor
    <3>6. CASE Restart(t)
      <4>1. pc[t] = "decide" /\ pc'[t] = "start" /\ startVert'[t] = cur[t]
        BY <1>1, <3>6 DEF Restart, Goto, Types
      <4> QED BY <2>2, <2>4, <4>1 DEF Anchor
    <3> QED BY <1>1, <2>2, <2>4, <3>1, <3>2, <3>3, <3>4, <3>5, <3>6 DEF TaskStep, Anchor
  <2> QED BY <2>3, <2>4
<1> QED BY <1>2, <1>3

(* A task opens saddles only.                                              *)
LEMMA OpensSaddle ==
    ASSUME Types, GInv, TrueSaddles, NEW t \in Leaves, OpenNode(t)
    PROVE  isSaddle[t] /\ cur[t] \in Forks
<1>1. isSaddle[t]
  BY DEF OpenNode, GInv, Visits, VisitOf, Captured, Absorbed, Parked
<1> QED BY <1>1 DEF TrueSaddles

(* Tasks that stop or merge mark their saddle, which is one of the tree.   *)
LEMMA OpenSaddlesStep ==
    ASSUME Types, GInv, TreeTypes, ArcInv, NEW t \in Leaves, Grows1(t), TrueSaddles,
           AllParked, OpenSaddles
    PROVE  OpenSaddles'
<1>1. /\ TaskStep(t) /\ t \in Vert /\ ~OnlyLeaf(t) /\ ~CloseRoot(t) /\ ~(Restart(t) /\ activeTasks = 1)
      /\ Leaves' = Leaves /\ mesh' = mesh
  BY LeavesFacts, StepFrame DEF Grows1
<1>2. Forks' = Forks
  BY <1>1, SameTree
<1>3. CASE OpenNode(t)
  <2>1. openedNodes' = openedNodes \cup {cur[t]} /\ cur' = cur /\ cur[t] \in Forks
    BY <1>3, OpensSaddle DEF OpenNode, callVars
  <2>2. \A o \in Leaves : o # t => pc'[o] = pc[o] /\ (Absorbed(o) => Absorbed(o)')
    BY <1>1, StepFrame, OthersFrame, LeavesFacts
  <2> QED BY <1>1, <1>2, <2>1, <2>2 DEF OpenSaddles
<1>4. CASE Restart(t)
  <2>1. /\ openedNodes' = openedNodes \ {cur[t]} /\ cur' = cur /\ pc[t] = "decide"
        /\ pc' = [pc EXCEPT ![t] = "start"]
    BY <1>1, <1>4 DEF Restart, Goto
  <2>2. ASSUME NEW o \in Leaves, pc[o] \in {"merge", "decide"}, o # t PROVE cur[o] # cur[t]
    BY <2>1, <2>2, AnchorsApart DEF Anchored, Anchor
  <2>3. ASSUME NEW o \in Leaves, pc[o] \in {"retire", "stopped"}, ~Absorbed(o)
        PROVE  cur[o] # cur[t]
    <3>1. Parked(o)
      BY <2>3 DEF AllParked, GInv, AtSaddle, SaddleOf
    <3>2. vert2tree[cur[t]] # Null
      BY <2>1, VertFacts DEF GInv, AtSaddle, SaddleOf
    <3> QED BY <2>3, <3>1, <3>2 DEF Absorbed
  <2>4. \A o \in Leaves : o # t => pc'[o] = pc[o] /\ (Absorbed(o) => Absorbed(o)')
    BY <1>1, StepFrame, OthersFrame, LeavesFacts
  <2>5. pc'[t] = "start"
    BY <1>1, <2>1 DEF Types
  <2> QED BY <1>1, <1>2, <2>1, <2>2, <2>3, <2>4, <2>5 DEF OpenSaddles
<1>5. CASE ~OpenNode(t) /\ ~Restart(t)
  <2>1. openedNodes' = openedNodes
    BY <1>1, <1>5, StepTree
  <2>2. \A o \in Leaves : o # t => /\ pc'[o] = pc[o] /\ cur'[o] = cur[o]
                                   /\ Absorbed(o) => Absorbed(o)'
    BY <1>1, StepFrame, OthersFrame, LeavesFacts
  <2>3. pc'[t] \in {"merge", "decide"} => pc[t] = "merge" /\ cur' = cur
    BY <1>1, <1>5 DEF TaskStep, Launch, Start, Visit, Capture, CaptureWith, Publish, Retire,
                      MergeNeighbor, CloseArcs, Goto, Types, callVars
  <2>4. ASSUME pc'[t] \in {"retire", "stopped"}, ~Absorbed(t)' PROVE cur'[t] \in openedNodes
    <3>1. Retire(t)
      BY <1>1, <1>5, <2>4 DEF TaskStep, Launch, Start, Visit, Capture, CaptureWith, Publish,
                      MergeNeighbor, CloseArcs, Goto, Types
    <3>2. /\ cur' = cur /\ isSaddle' = isSaddle /\ isLast' = isLast /\ vert2tree' = vert2tree
          /\ pc[t] = "retire" /\ pc'[t] = "stopped"
      BY <1>1, <3>1 DEF Retire, callVars, visitVars, segmVars, Goto, Types
    <3>3. ~Absorbed(t)
      BY <2>4, <3>2 DEF Absorbed, Parked
    <3> QED BY <3>2, <3>3 DEF OpenSaddles
  <2> QED BY <1>1, <1>2, <2>1, <2>2, <2>3, <2>4 DEF OpenSaddles
<1> QED BY <1>3, <1>4, <1>5

(* Only a task that is not the last at a saddle stops.                     *)
LEMMA AllParkedStep ==
    ASSUME Types, GInv, NEW t \in Leaves, Grows1(t), AllParked
    PROVE  AllParked'
<1>1. /\ TaskStep(t) /\ t \in Vert /\ ~OnlyLeaf(t) /\ ~CloseRoot(t) /\ ~(Restart(t) /\ activeTasks = 1)
      /\ Leaves' = Leaves
  BY LeavesFacts, StepFrame DEF Grows1
<1>2. ASSUME pc'[t] = "stopped" PROVE Parked(t)'
  <2>1. Retire(t)
    BY <1>1, <1>2 DEF TaskStep, Launch, Start, Visit, Capture, CaptureWith, Publish, OpenNode,
                      MergeNeighbor, CloseArcs, Restart, Goto, Types
  <2>2. isSaddle' = isSaddle /\ isLast' = isLast /\ pc[t] = "retire"
    BY <2>1 DEF Retire, visitVars
  <2> QED BY <1>2, <2>2 DEF Parked, GInv, AtSaddle, SaddleOf
<1>3. \A o \in Leaves : o # t => pc'[o] = pc[o] /\ (Parked(o)' <=> Parked(o))
  BY <1>1, OthersFrame
<1> QED BY <1>1, <1>2, <1>3 DEF AllParked
-------------------------------------------------------------------------------
(* A scan finds out whether a vertex is a saddle of the tree.              *)
LEMMA ScanTrue ==
    ASSUME Types, GInv, SInv, NEW t \in Leaves, pc[t] = "capture"
    PROVE  /\ cur[t] = startVert[t] => ~isSaddle[t]
           /\ cur[t] # startVert[t] => (isSaddle[t] <=> cur[t] \in Forks)
<1> DEFINE v == cur[t]
<1>0. ~Absorbed(t) /\ mesh \in Meshes
  BY DEF Absorbed, Parked, Types
<1>1. /\ v \in Vert /\ (isSaddle[t] <=> Own(t) # Lower(v))
      /\ v = startVert[t] => ~isSaddle[t]
      /\ v # startVert[t] => Own(t) # {}
  BY <1>0 DEF GInv, Visits, VisitOf
<1>2. ASSUME v # startVert[t] PROVE isSaddle[t] <=> v \in Forks
  <2>1. Region(t) \ {v} \in J!LowerComponents(mesh, v)
    BY <1>2, GrowthSublevel DEF GrowsSublevelSet
  <2>2. PICK m \in Lower(v) : Region(t) \ {v} = Arm(m, v)
    BY <2>1, SameComponent DEF J!LowerComponents, Lower, Arm
  <2>3. \A n \in Lower(v) : n \in Own(t) <=> n \in Arm(m, v)
    <3>1. \A n \in Lower(v) : n \in Vert /\ n # v
      <4>1. \A n \in Lower(v) : n \in Vert /\ n < v /\ v \in Nat /\ n \in Nat
        BY <1>0, <1>1, LowerFacts, VertFacts
      <4> QED BY <4>1
    <3> QED BY <2>2, <3>1 DEF Region, Own, Belongs, Rep, find
  <2>4. ASSUME isSaddle[t] PROVE v \in Forks
    <3>1. PICK n \in Lower(v) : n \notin Arm(m, v)
      BY <1>1, <2>3, <2>4 DEF Own
    <3>2. n \in Arm(n, v)
      BY <1>0, <1>1, ArmFacts
    <3> QED BY <1>0, <1>1, <3>1, <3>2, ForkFacts
  <2>5. ASSUME v \in Forks, ~isSaddle[t] PROVE FALSE
    <3>1. PICK x \in Lower(v), y \in Lower(v) : Arm(x, v) # Arm(y, v)
      BY <1>0, <1>1, <2>5, ForkFacts
    <3>2. \A n \in Lower(v) : n \in Arm(m, v) /\ n \in Arm(n, v)
      BY <1>0, <1>1, <2>3, <2>5, ArmFacts
    <3>3. \A n \in Lower(v) : Arm(n, v) = Arm(m, v)
      BY <1>0, <1>1, <3>2, ArmsMeet
    <3> QED BY <3>1, <3>3
  <2> QED BY <2>4, <2>5
<1> QED BY <1>1, <1>2

(* So in a state of the growth,                                            *)
ScanInv ==
    phase = "growth" =>
        \A t \in Leaves : pc[t] = "capture" =>
            /\ cur[t] = startVert[t] => ~isSaddle[t]
            /\ cur[t] # startVert[t] => (isSaddle[t] <=> cur[t] \in Forks)

(* which follows from its invariants.                                      *)
LEMMA Scanned == IInv /\ SweepInv => ScanInv
  BY ScanTrue DEF IInv, SweepInv, ScanInv

(* And so in the state after it.                                           *)
LEMMA ScannedNext == IInv' /\ SweepInv' => ScanInv'
  BY Scanned, PTL

(* What a task takes for a saddle is one.                                  *)
LEMMA TrueSaddlesStep ==
    ASSUME Types, GInv, phase = "growth", ScanInv', NEW t \in Leaves, TaskStep(t), TrueSaddles
    PROVE  TrueSaddles'
<1>1. t \in Vert /\ mesh' = mesh /\ phase' = "growth" /\ Leaves' = Leaves
  BY LeavesFacts, StepFrame
<1>2. Forks' = Forks
  BY <1>1, SameTree
<1>3. \A o \in Leaves : o # t => /\ pc'[o] = pc[o] /\ cur'[o] = cur[o] /\ isSaddle'[o] = isSaddle[o]
                                 /\ startVert'[o] = startVert[o]
  BY <1>1, StepFrame, LeavesFacts
<1>4. CASE Visit(t)
  <2>1. pc'[t] = "capture"
    BY <1>1, <1>4 DEF Visit, Goto, Types
  <2> QED BY <1>1, <1>2, <1>3, <2>1 DEF ScanInv, TrueSaddles
<1>5. CASE Capture(t)
  <2>1. pc[t] = "capture" /\ cur' = cur /\ isSaddle' = isSaddle /\ startVert' = startVert
    BY <1>5 DEF Capture, CaptureWith, callVars
  <2> QED BY <1>1, <1>2, <1>3, <2>1 DEF TrueSaddles
<1>6. CASE ~Visit(t) /\ ~Capture(t)
  <2>1. cur' = cur /\ isSaddle' = isSaddle /\ pc'[t] \notin {"capture", "publish"}
    BY <1>1, <1>6 DEF TaskStep, OnlyLeaf, Launch, Start, Publish, OpenNode, Retire, MergeNeighbor,
                      CloseArcs, Restart, CloseRoot, Goto, Types, callVars, visitVars
  <2> QED BY <1>1, <1>2, <1>3, <2>1 DEF TrueSaddles
<1> QED BY <1>4, <1>5, <1>6

(* A step of the growth keeps what is known of the tree.                   *)
LEMMA GrowingStep ==
    ASSUME Types, GInv, SInv, TreeTypes, ArcInv, GInv', NEW t \in Leaves, Grows1(t),
           TrueSaddles, Growing
    PROVE  Growing'
<1>1. TaskStep(t) /\ Leaves' = Leaves
  BY StepFrame DEF Grows1
<1>2. NodesMarked' /\ NodesCritical' /\ OnArcs' /\ ClosedArcs'
  BY <1>1, NodesMarkedStep, NodesCriticalStep, OnArcsStep, ClosedArcsStep DEF Growing
<1>3. OpenedListed' /\ Passed' /\ Anchors' /\ OpenSaddles' /\ AllParked'
  BY OpenedListedStep, PassedStep, AnchorsStep, OpenSaddlesStep, AllParkedStep DEF Growing
<1>4. \A o \in Leaves : TopOf(o)'
  <2>1. \A o \in Leaves : TopOf(o)
    BY DEF Growing, ArcOnTop
  <2>2. ClosedArcs /\ OpenedListed
    BY DEF Growing
  <2>3. \A o \in Leaves : o # t => TopOf(o)'
    BY <2>1, <2>2, OthersTop
  <2>4. TopOf(t)'
    BY <2>1, <2>2, OwnTop
  <2> QED BY <2>3, <2>4
<1> QED BY <1>1, <1>2, <1>3, <1>4 DEF Growing, ArcOnTop
-------------------------------------------------------------------------------
(***************************************************************************)
(* The end of the growth at the root.                                      *)
(***************************************************************************)
(* A task that finds its queue empty holds the whole mesh.                 *)
LEMMA RootReached ==
    ASSUME OpenAbove, Types, GInv, SInv, NEW t \in Leaves, pc[t] = "pop", Ahead(t) = {}
    PROVE  /\ Sweeping(t) /\ ~Absorbed(t) /\ Rep(t) \in Holds(t)
           /\ Members(Rep(t)) = Vert
           /\ Top(t) = cur[t] /\ cur[t] = N
<1> DEFINE u == Rep(t)
           M == Members(u)
<1>1. seenFirst[t] /\ mesh \in Meshes /\ t \in Vert
  BY RootSeen, LeavesFacts DEF Types
<1>2. /\ Sweeping(t) /\ ~Absorbed(t) /\ u \in Holds(t) /\ u = startUF[t]
      /\ Top(t) = cur[t] /\ cur[t] \in Vert /\ Begun(t) /\ Whole(t)
  BY <1>1, HoldsFacts DEF Sweeping, Absorbed, Parked, Claims, Begun, Whole, Top,
                          GInv, Representatives, Arcs, ArcOf
<1>3. Grown(u, cur[t], TRUE)
  BY <1>1, <1>2 DEF SInv, SweepOf, Begun
<1>4. Belongs(cur[t], u) /\ Belongs(startVert[t], u)
  BY <1>1, <1>2 DEF GInv, Arcs, ArcOf
<1>5. ASSUME NEW w \in M, NEW z \in Vert, {z, w} \in mesh PROVE z \in M
  <2>1. w \in Vert /\ Belongs(w, u)
    BY DEF Members
  <2>2. z # w /\ (z < w => z \in Lower(w)) /\ (w < z => w \in Lower(z)) /\ (z < w \/ w < z)
    <3>1. z \in Nat /\ w \in Nat
      BY <2>1, VertFacts
    <3> QED BY <1>1, <1>5, <2>1, <3>1, Edges
  <2>3. CASE z < w
    BY <1>2, <2>2, <2>3, DownClosed
  <2>4. CASE w < z /\ z < cur[t]
    BY <1>3, <2>1, <2>2, <2>4 DEF Grown, Complete, Members
  <2>5. CASE z = cur[t]
    BY <1>4, <2>5 DEF Members
  <2>6. CASE w < z /\ z > cur[t]
    <3>1. heap[u][z] > 0
      BY <1>3, <2>1, <2>2, <2>6 DEF Grown, Pushed
    <3>2. z \notin Ahead(t) /\ heap[startUF[t]][z] > 0
      BY <1>2, <3>1
    <3>3. OnArc(z) \/ z = startVert[t]
      BY <3>2, AheadFacts DEF Seen
    <3>4. CASE OnArc(z)
      <4>1. vert2tree[z] # Null /\ w \in Lower(z)
        BY <2>2, <2>6, <3>4 DEF OnArc
      <4>2. ufs[w] # Null /\ ufs[z] # Null /\ comp[ufs[w]] = u
        BY <2>1, <4>1 DEF GInv, LowerClosed, Belongs
      <4>3. ASSUME comp[ufs[z]] # u PROVE FALSE
        <5>1. PICK p \in Leaves : pc[p] = "merge" /\ cur[p] = z /\ w \in todo[p]
          BY <4>1, <4>2, <4>3 DEF GInv, LowerClosed
        <5>2. ~Absorbed(p) /\ u \in Holds(p)
          BY <4>1, <4>2, <5>1, HoldsFacts DEF Absorbed, Parked
        <5>3. p = t
          BY <1>2, <5>2, Sole
        <5> QED BY <5>1, <5>3
      <4> QED BY <4>2, <4>3 DEF Members, Belongs
    <3>5. CASE z = startVert[t]
      BY <1>4, <3>5 DEF Members
    <3> QED BY <3>3, <3>4, <3>5
  <2>7. z < cur[t] \/ z = cur[t] \/ z > cur[t]
    <3>1. z \in Nat /\ cur[t] \in Nat
      BY <1>2, VertFacts
    <3> QED BY <3>1
  <2> QED BY <2>2, <2>3, <2>4, <2>5, <2>6, <2>7
<1>6. M = Vert
  <2>1. Piece(N) = Vert /\ N \in Vert /\ 1..N = Vert
    BY <1>1, AllBelowTop DEF Vert
  <2>2. Closed(mesh, 1..N, M)
    BY <1>5, <2>1 DEF Closed
  <2>3. cur[t] \in M
    BY <1>2, <1>4 DEF Members
  <2> HIDE DEF M
  <2>4. Piece(N) \cap M # {}
    BY <1>2, <2>1, <2>3
  <2>5. Vert \subseteq M
    BY <2>1, <2>2, <2>4, ClosedMeets
  <2> QED BY <2>5 DEF M, Members
<1>7. cur[t] = N
  <2>1. N \in Vert /\ N \in M
    BY <1>1, <1>6, EndsFacts
  <2>2. N <= cur[t]
    BY <1>2, <2>1 DEF GInv, Swept, SweptOf, Members
  <2>3. N \in Nat /\ cur[t] \in Nat /\ cur[t] <= N
    BY <1>2, NAssumption DEF Vert
  <2> QED BY <2>2, <2>3
<1> QED BY <1>2, <1>6, <1>7

(* Then the tree is finished, but for what is counted.                     *)
LEMMA RootFull ==
    ASSUME OpenAbove, Types, GInv, SInv, TreeTypes, ArcInv, NEW t \in Leaves, CloseRoot(t),
           Growing
    PROVE  Full'
<1> DEFINE u == Rep(t)
           b == startVert[t]
<1>1. /\ Sweeping(t) /\ ~Absorbed(t) /\ u \in Holds(t) /\ Members(u) = Vert
      /\ Top(t) = cur[t] /\ cur[t] = N /\ pc[t] = "pop" /\ ~Parked(t) /\ ~Claims(t)
  BY RootReached DEF CloseRoot, Parked, Claims
<1>2. /\ nodes' = nodes \cup {N} /\ vert2tree' = [vert2tree EXCEPT ![N] = IsNode]
      /\ upNode' = [upNode EXCEPT ![b] = N] /\ nbUp' = nbUp /\ openedNodes' = openedNodes
      /\ pc' = [pc EXCEPT ![t] = "stopped"]
      /\ t \in Vert /\ b \in Vert /\ mesh' = mesh /\ mesh \in Meshes
  BY <1>1, RootSettled, LeavesFacts DEF CloseRoot, Goto, Types
<1>3. /\ Piece(N) = Vert /\ N \in Vert /\ N \notin Critical
      /\ Critical \subseteq Vert /\ Ends = Critical \cup {N}
  BY <1>2, AllBelowTop, EndsFacts DEF Ends
<1>4. \A v \in Vert : v \in Critical <=> vert2tree[v] = IsNode
  BY <1>1, CriticalNode DEF Growing, NodesCritical
<1>5. nodes = Critical
  BY <1>3, <1>4 DEF Growing, NodesMarked, TreeTypes
<1>6. \A v \in Vert : nbUp[v] = IF v \in nodes THEN 1 ELSE 0
  <2>1. ASSUME NEW v \in Vert, v \notin nodes PROVE nbUp[v] = 0
    BY <1>4, <1>5, <2>1 DEF ArcInv, Opening, OpenedOf
  <2>2. ASSUME NEW v \in Vert, v \in nodes, nbUp[v] # 1 PROVE FALSE
    <3>1. vert2tree[v] = IsNode /\ nbUp[v] = 0
      BY <1>4, <1>5, <2>2 DEF ArcInv, Opening, OpenedOf
    <3>2. PICK o \in Leaves : pc[o] \in {"waiting", "start", "merge", "decide"} /\ Anchor(o) = v
      BY <3>1 DEF Growing, Anchors
    <3>3. ufs[v] # Null /\ comp[ufs[v]] = u
      BY <1>1 DEF Members, Belongs
    <3>4. ~Absorbed(o) /\ pc[o] # "waiting" /\ u \in Holds(o)
      BY <3>2, <3>3, AnchorFacts DEF Anchored
    <3>5. o = t
      BY <1>1, <3>4, Sole
    <3> QED BY <1>1, <3>2, <3>5
  <2> QED BY <2>1, <2>2
<1>7. /\ \A c \in Vert : vert2tree[c] = IsNode => c <= b
      /\ \A c \in Vert : OpenArc(c) => c = b
      /\ vert2tree[b] = IsNode
  BY <1>1 DEF Growing, ArcOnTop, TopOf, OnItsArc, GInv, Arcs, ArcOf
<1>8. Up(b, N)
  <2>1. b < N
    <3>1. b \in Nat /\ N \in Nat /\ b <= N /\ b # N
      BY <1>2, <1>3, <1>4, <1>7, NAssumption DEF Vert
    <3> QED BY <3>1
  <2>2. ASSUME NEW c \in Ends, b < c, b \in Piece(c) PROVE N <= c
    <3>1. CASE c = N
      BY <3>1, NAssumption
    <3>2. CASE c \in Critical
      <4>1. c <= b /\ c \in Nat /\ b \in Nat
        BY <1>2, <1>3, <1>4, <1>7, <3>2, VertFacts
      <4> QED BY <2>2, <4>1
    <3> QED BY <1>3, <3>1, <3>2
  <2> QED BY <1>2, <1>3, <2>1, <2>2 DEF Up
<1>9. /\ Ends' = Ends
      /\ \A x, y : Up(x, y)' <=> Up(x, y)
      /\ \A x, y : Down(x, y)' <=> Down(x, y)
  BY <1>2, SameTree
<1>10. \A a \in nodes : Up(a, upNode'[a])
  <2>1. ASSUME NEW a \in nodes PROVE Up(a, upNode'[a])
    <3>1. a \in Vert /\ nbUp[a] = 1
      BY <1>3, <1>5, <1>6
    <3>2. CASE a = b
      BY <1>2, <1>8, <3>2 DEF TreeTypes
    <3>3. CASE a # b
      <4>1. upNode[a] # Null
        BY <1>7, <3>1, <3>3 DEF OpenArc
      <4> QED BY <1>2, <3>1, <3>3, <4>1 DEF Growing, ClosedArcs, TreeTypes
    <3> QED BY <3>2, <3>3
  <2> QED BY <2>1
<1>11. \A v \in Vert \ (nodes \cup {N}) : Down(v, vert2tree'[v])
  <2> SUFFICES ASSUME NEW v \in Vert, v \notin nodes, v # N PROVE Down(v, vert2tree'[v])
    OBVIOUS
  <2>1. vert2tree'[v] = vert2tree[v] /\ vert2tree[v] # IsNode
    BY <1>2, <1>4, <1>5 DEF Types
  <2>2. vert2tree[v] # Null
    BY <1>1, SetSettled
  <2> QED BY <2>1, <2>2 DEF Growing, OnArcs, OnArc
<1>12. TreeDone'
  <2>1. nodes' = Ends
    BY <1>2, <1>3, <1>5
  <2>2. nbUp' = [v \in Vert |-> IF v \in nodes' \ {N} THEN 1 ELSE 0]
    <3>1. nbUp \in [Vert -> Int] /\ \A v \in Vert : v \in nodes' \ {N} <=> v \in nodes
      BY <1>2, <1>3, <1>5 DEF TreeTypes
    <3> QED BY <1>2, <1>6, <3>1
  <2>3. \A a \in nodes' \ {N} : Up(a, upNode'[a])
    BY <1>2, <1>10
  <2>4. \A v \in Vert \ nodes' : Down(v, vert2tree'[v])
    BY <1>2, <1>11
  <2> QED BY <1>9, <2>1, <2>2, <2>3, <2>4 DEF TreeDone
<1>13. \A v \in openedNodes' : ~StillOpen(v)'
  <2> SUFFICES ASSUME NEW v \in openedNodes PROVE vert2tree'[v] = IsNode /\ nbUp'[v] # 0
    BY <1>2 DEF StillOpen
  <2>1. v \in Critical
    BY DEF Growing, OpenSaddles, Critical
  <2> QED BY <1>2, <1>3, <1>4, <1>5, <1>6, <2>1 DEF Types
<1>14. \A o \in Leaves' : (pc[o] = "stopped")' \/ Absorbed(o)'
  <2>1. TaskStep(t) /\ Leaves' = Leaves
    BY <1>2, SameTree DEF TaskStep
  <2> SUFFICES ASSUME NEW o \in Leaves, o # t PROVE Absorbed(o)'
    <3>1. pc'[t] = "stopped"
      BY <1>2 DEF Types
    <3> QED BY <2>1, <3>1
  <2>2. ASSUME ~Absorbed(o) PROVE FALSE
    <3>1. o \in Vert /\ startVert[o] \in Vert /\ Sweeping(o) /\ Rep(o) \in Holds(o)
      BY <2>2, ParkedSweeps, HoldsFacts, LeavesFacts DEF Growing, Types
    <3>2. pc[o] # "waiting"
      BY <1>1, <3>1 DEF GInv, Arcs, ArcOf, Members, Belongs
    <3>3. Belongs(startVert[o], Rep(o))
      BY <3>1, <3>2 DEF GInv, Arcs, ArcOf
    <3>4. Rep(o) = u
      BY <1>1, <3>1, <3>3 DEF Members, Belongs
    <3> QED BY <1>1, <2>2, <3>1, <3>4, Sole
  <2> QED BY <2>1, <2>2, OthersFrame
<1>15. NodesMarked'
  BY NodesMarkedStep DEF Growing, TaskStep
<1> QED BY <1>12, <1>13, <1>14, <1>15 DEF Full

(* The tasks that are left only stop at saddles that are closed.           *)
LEMMA FullStep ==
    ASSUME OpenAbove, Types, GInv, TreeTypes, ArcInv, NEW t \in Leaves, TaskStep(t),
           TrueSaddles, Full
    PROVE  Full'
<1>1. /\ t \in Vert /\ mesh \in Meshes /\ mesh' = mesh /\ Leaves' = Leaves
      /\ Absorbed(t) /\ pc[t] \in {"publish", "open", "retire"} /\ isSaddle[t] /\ ~isLast[t]
  <2>1. t \in Vert /\ mesh \in Meshes /\ mesh' = mesh /\ Leaves' = Leaves
    BY LeavesFacts, StepFrame DEF Types
  <2>2. pc[t] # "stopped" /\ Absorbed(t)
    BY <2>1, TaskPhase DEF Full
  <2> QED BY <2>1, <2>2 DEF Absorbed, Parked
<1>2. /\ N \notin Critical /\ Critical \subseteq Vert /\ Ends = Critical \cup {N}
      /\ Ends' = Ends
      /\ \A x, y : Up(x, y)' <=> Up(x, y)
      /\ \A x, y : Down(x, y)' <=> Down(x, y)
  BY <1>1, AllBelowTop, EndsFacts, SameTree DEF Ends
<1>3. /\ nodes' = nodes /\ vert2tree' = vert2tree /\ upNode' = upNode /\ nbUp' = nbUp
      /\ \/ openedNodes' = openedNodes /\ pc'[t] \in {"open", "stopped"}
         \/ openedNodes' = openedNodes \cup {cur[t]} /\ pc'[t] = "retire" /\ OpenNode(t)
      /\ cur' = cur /\ isSaddle' = isSaddle /\ isLast' = isLast
  <2>1. Publish(t) \/ OpenNode(t) \/ Retire(t)
    BY <1>1 DEF TaskStep, OnlyLeaf, Launch, Start, Visit, Capture, CaptureWith, MergeNeighbor,
                CloseArcs, Restart, CloseRoot
  <2>2. CASE Publish(t)
    BY <1>1, <2>2 DEF Publish, Goto, Types, treeVars, callVars, visitVars
  <2>3. CASE OpenNode(t)
    BY <1>1, <2>3 DEF OpenNode, Goto, Types, treeVars, callVars, visitVars
  <2>4. CASE Retire(t)
    BY <1>1, <2>4 DEF Retire, Goto, Types, treeVars, callVars, visitVars, segmVars
  <2> QED BY <2>1, <2>2, <2>3, <2>4
<1>4. TreeDone'
  BY <1>2, <1>3 DEF Full, TreeDone
<1>5. NodesMarked'
  BY <1>3 DEF Full, NodesMarked
<1>6. \A v \in openedNodes' : ~StillOpen(v)'
  <2>1. \A v \in openedNodes : ~StillOpen(v)'
    BY <1>3 DEF Full, StillOpen
  <2>2. ASSUME OpenNode(t) PROVE ~StillOpen(cur[t])'
    <3>1. cur[t] \in Critical
      BY <2>2, OpensSaddle DEF Critical
    <3>2. cur[t] \in Vert /\ cur[t] \in nodes \ {N}
      BY <1>2, <3>1 DEF Full, TreeDone
    <3>3. vert2tree[cur[t]] = IsNode /\ nbUp[cur[t]] = 1
      BY <3>2 DEF Full, TreeDone, NodesMarked
    <3> QED BY <1>3, <3>3 DEF StillOpen
  <2> QED BY <1>3, <2>1, <2>2
<1>7. \A o \in Leaves' : (pc[o] = "stopped")' \/ Absorbed(o)'
  <2>1. Absorbed(t)' \/ pc'[t] = "stopped"
    BY <1>1, <1>3 DEF Absorbed, Parked
  <2>2. \A o \in Leaves : o # t => pc'[o] = pc[o] /\ (Absorbed(o) => Absorbed(o)')
    BY <1>1, StepFrame, OthersFrame, LeavesFacts
  <2> QED BY <1>1, <2>1, <2>2 DEF Full
<1> QED BY <1>4, <1>5, <1>6, <1>7 DEF Full
-------------------------------------------------------------------------------
(***************************************************************************)
(* The end of the growth at the trunk.                                     *)
(***************************************************************************)
(* With one leaf there is no saddle.                                       *)
LEMMA NoForks ==
    ASSUME mesh \in Meshes, NEW t, Leaves = {t} PROVE Forks = {}
<1> SUFFICES ASSUME NEW v \in Forks PROVE FALSE
  OBVIOUS
<1>1. v \in Vert
  BY EndsFacts
<1>2. PICK n \in Lower(v), m \in Lower(v) : Arm(n, v) # Arm(m, v)
  BY <1>1, ForkFacts
<1>3. t \in Arm(n, v) /\ t \in Arm(m, v)
  BY <1>1, LeafBelow
<1> QED BY <1>1, <1>2, <1>3, ArmsMeet

(* With one leaf all is left to the trunk.                                 *)
LEMMA OnlyLeafEnd ==
    ASSUME OpenAbove, Types, GInv, TreeTypes, ArcInv, NEW t \in Leaves, OnlyLeaf(t), Growing
    PROVE  End'
<1>1. /\ t \in Vert /\ mesh \in Meshes /\ mesh' = mesh /\ Leaves = {t} /\ pc'[t] = "stopped"
      /\ openedNodes' = {t} /\ nodes' = nodes /\ nbUp' = nbUp /\ upNode' = upNode
      /\ vert2tree' = vert2tree /\ comp' = comp /\ openedArcs' = openedArcs
      /\ pc[t] = "waiting"
  BY LeavesFacts DEF OnlyLeaf, Goto, Types, treeVars, segmVars, ufVars
<1>2. /\ N \notin Critical /\ Critical = {t} /\ Ends = {t, N} /\ N \in Vert
      /\ Ends' = Ends /\ Critical' = Critical /\ Leaves' = Leaves
      /\ \A v : Piece(v)' = Piece(v)
      /\ \A x, y : Up(x, y)' <=> Up(x, y)
      /\ \A x, y : Down(x, y)' <=> Down(x, y)
  <2>1. N \notin Critical /\ N \in Vert
    BY <1>1, AllBelowTop
  <2>2. Critical = {t} /\ Ends = {t, N}
    BY <1>1, NoForks DEF Critical, Ends
  <2> QED BY <1>1, <2>1, <2>2, SameTree
<1>3. startVert[t] = t /\ vert2tree[t] = IsNode /\ nbUp[t] = 0
  BY <1>1 DEF GInv, Arcs, ArcOf, ArcInv, Fresh, FreshOf, Anchor
<1>4. Left' = {t}
  BY <1>1, <1>3 DEF Left, StillOpen
<1>5. nodes = {t}
  <2>1. \A v \in nodes : v \in Vert /\ v = t
    BY <1>2 DEF Growing, NodesMarked, NodesCritical, TreeTypes
  <2>2. t \in nodes
    BY <1>1, <1>3 DEF Growing, NodesMarked
  <2> QED BY <2>1, <2>2
<1>6. \A v \in Vert : nbUp[v] = 0
  <2> SUFFICES ASSUME NEW v \in Vert PROVE nbUp[v] = 0
    OBVIOUS
  <2>1. vert2tree[v] = IsNode => v = t
    BY <1>2 DEF Growing, NodesCritical
  <2> QED BY <1>3, <2>1 DEF ArcInv, Opening, OpenedOf
<1>7. ASSUME NEW v \in Vert, OnArc(v) PROVE v \notin Ends /\ Down(v, vert2tree[v])
  <2>1. v \notin Critical /\ (v # N => Down(v, vert2tree[v]))
    BY <1>7 DEF Growing, OnArcs
  <2>2. v # N
    BY <1>1, <1>7 DEF ArcInv, LastVertex
  <2> QED BY <2>1, <2>2 DEF Ends
<1>8. ASSUME NEW v \in Vert, v # t, v # N PROVE t < v /\ Down(v, t)
  <2>1. t \in Piece(v)
    BY <1>1, LeafBelow
  <2>2. N \notin Piece(v)
    <3>1. v \in Nat /\ v <= N /\ N \in Nat
      BY NAssumption DEF Vert
    <3>2. ~(N <= v)
      BY <1>8, <3>1
    <3> QED BY <3>2, PieceFacts
  <2>3. t < v
    <3>1. t <= v /\ t \in Nat /\ v \in Nat
      BY <1>1, <2>1, PieceFacts, VertFacts
    <3> QED BY <1>8, <3>1
  <2>4. \A c \in Ends : c \in Piece(v) => c <= t
    <3>1. t \in Nat
      BY <1>1, VertFacts
    <3> QED BY <1>2, <2>2, <3>1
  <2> QED BY <1>2, <2>1, <2>3, <2>4 DEF Down
<1>9. t <= t /\ t \in Piece(t) /\ NodesMarked'
  <2>1. t \in Nat
    BY <1>1, VertFacts
  <2>2. t <= t
    BY <2>1
  <2> QED BY <1>1, <2>2, PieceFacts DEF Growing, NodesMarked
<1>10. Backbone({t}, {t}, t)'
  <2>1. /\ {t} \subseteq Critical \ {N}
        /\ nodes \subseteq Ends /\ Critical \subseteq nodes \cup {t}
        /\ {t} \ {t} \subseteq nodes /\ nodes \ {t} = {}
    BY <1>2, <1>5
  <2>2. \A v \in Vert : vert2tree[v] = Null /\ v \notin {t} /\ v # N =>
            \E w \in {t} : /\ w < v /\ Down(v, w)
                           /\ \A e \in {t} : e < v => e <= w
    BY <1>8, <1>9
  <2>3. (\A v \in Vert : OnArc(v) => v \notin Ends /\ Down(v, vert2tree[v]))'
    BY <1>1, <1>2, <1>7 DEF OnArc
  <2>4. (\A v \in Vert : vert2tree[v] = Null /\ v \notin {t} /\ v # N =>
            \E w \in {t} : /\ w < v /\ Down(v, w)
                           /\ \A e \in {t} : e < v => e <= w)'
    BY <1>1, <1>2, <2>2
  <2> QED BY <1>1, <1>2, <1>9, <2>1, <2>3, <2>4 DEF Backbone
<1>11. BackboneArcs({t}, {t})'
  <2>1. \A u \in Vert : comp[u] = u => openedArcs[u] = {}
    <3>1. \A a : a \in Vert => ~OpenArc(a)
      BY <1>6 DEF OpenArc
    <3>2. \A u \in Vert : comp[u] = u => openedArcs[u] = {a \in Members(u) : OpenArc(a)}
      BY DEF Growing, OpenedListed
    <3> QED BY <3>1, <3>2 DEF Members
  <2>2. /\ nodes \subseteq Critical /\ nodes \ {t} = {}
        /\ \A u \in Vert : comp[comp[u]] = comp[u]
        /\ \A a \in Vert : upNode[a] # Null => Up(a, upNode[a])
    BY <1>2, <1>5 DEF GInv, Representatives, Growing, ClosedArcs
  <2> QED BY <1>1, <1>2, <1>6, <2>1, <2>2 DEF BackboneArcs
<1>12. \E b \in Left' : Backbone(Left, Left, b)'
  BY <1>4, <1>10
<1> QED BY <1>1, <1>2, <1>4, <1>11, <1>12 DEF End
-------------------------------------------------------------------------------
(* t is the last task that has not stopped, and will leave the rest.       *)
LastOne(t) == /\ pc[t] = "decide"
              /\ \A o \in Leaves : o # t => pc[o] = "stopped"

(* A closed set that meets an arm holds it.                                *)
LEMMA ArmMeets ==
    ASSUME mesh \in Meshes, NEW v \in Vert, NEW n \in Lower(v), NEW X,
           Closed(mesh, 1..(v - 1), X), Arm(n, v) \cap X # {}
    PROVE  Arm(n, v) \subseteq X
<1> DEFINE B == 1..(v - 1)
           A == Arm(n, v)
<1>1. /\ n \in A /\ A \subseteq B /\ \A Z : n \in Z /\ Closed(mesh, B, Z) => A \subseteq Z
      /\ Closed(mesh, B, X) /\ A \cap X # {}
  BY ArmFacts
<1> HIDE DEF A, B
<1>2. Closed(mesh, B, B \ X)
  BY <1>1, ClosedRest
<1>3. n \in X
  <2> SUFFICES ASSUME n \notin X PROVE FALSE
    OBVIOUS
  <2>1. A \subseteq B \ X
    BY <1>1, <1>2
  <2> QED BY <1>1, <2>1
<1>4. A \subseteq X
  BY <1>1, <1>3
<1> QED BY <1>4 DEF A

(* What is left open then: its saddle, and those where others wait.        *)
LEMMA LastFacts ==
    ASSUME OpenAbove, Types, GInv, SInv, TreeTypes, ArcInv, TrueSaddles, Growing,
           NEW t \in Leaves, LastOne(t)
    PROVE  /\ mesh \in Meshes /\ cur[t] \in Left /\ vert2tree[cur[t]] = IsNode
           /\ Belongs(cur[t], Rep(t)) /\ ~Absorbed(t) /\ nbUp[cur[t]] = 0
           /\ Left \subseteq Forks /\ Left \subseteq Vert /\ N \notin Left
           /\ \A v \in Left : ufs[v] # Null /\ (v = cur[t] \/ vert2tree[v] = Null)
           /\ \A o \in Leaves : ~Absorbed(o) =>
                 /\ Sweeping(o) /\ Holds(o) = {Rep(o)} /\ Top(o) = cur[o] /\ cur[o] \in Left
                 /\ o = t \/ (Parked(o) /\ vert2tree[cur[o]] = Null)
           /\ \A v \in Vert : vert2tree[v] = IsNode =>
                 ufs[v] # Null /\ (nbUp[v] = 0 => v = cur[t])
<1> DEFINE s == cur[t]
<1>1. /\ mesh \in Meshes /\ t \in Vert /\ pc[t] = "decide" /\ vert2tree[s] = IsNode
      /\ Belongs(s, Rep(t)) /\ ~Absorbed(t) /\ nbUp[s] = 0 /\ s \in openedNodes
  BY LeavesFacts DEF LastOne, Types, GInv, AtSaddle, SaddleOf, Absorbed, Parked, ArcInv, Fresh,
                     FreshOf, Anchor, Growing, OpenSaddles
<1>2. s \in Left
  BY <1>1 DEF Left, StillOpen
<1>3. Left \subseteq Forks /\ Left \subseteq Vert /\ N \notin Left
  <2>1. Left \subseteq Forks
    BY DEF Left, Growing, OpenSaddles
  <2> QED BY <1>1, <2>1, AllBelowTop, EndsFacts DEF Critical
<1>4. ASSUME NEW v \in Vert, vert2tree[v] = IsNode
      PROVE  ufs[v] # Null /\ (nbUp[v] = 0 => v = s)
  <2>1. ufs[v] # Null
    <3>1. v \in Leaves => pc[v] # "waiting"
      BY <1>1 DEF LastOne
    <3> QED BY <1>4, <3>1, NodeHasSet
  <2>2. ASSUME nbUp[v] = 0 PROVE v = s
    <3>1. PICK o \in Leaves : pc[o] \in {"waiting", "start", "merge", "decide"} /\ Anchor(o) = v
      BY <1>4, <2>2 DEF Growing, Anchors
    <3>2. o = t
      BY <3>1 DEF LastOne
    <3> QED BY <1>1, <3>1, <3>2 DEF Anchor
  <2> QED BY <2>1, <2>2
<1>5. \A v \in Left : ufs[v] # Null /\ (v = s \/ vert2tree[v] = Null)
  <2> SUFFICES ASSUME NEW v \in Left PROVE ufs[v] # Null /\ (v = s \/ vert2tree[v] = Null)
    OBVIOUS
  <2>1. v \in Vert /\ ~OnArc(v) /\ ufs[v] # Null
    BY DEF Left, ArcInv, OpenedNodes
  <2>2. CASE vert2tree[v] = IsNode
    BY <1>4, <2>1, <2>2 DEF Left, StillOpen
  <2> QED BY <2>1, <2>2 DEF OnArc
<1>6. ASSUME NEW o \in Leaves, ~Absorbed(o)
      PROVE  /\ Sweeping(o) /\ Holds(o) = {Rep(o)} /\ Top(o) = cur[o] /\ cur[o] \in Left
             /\ o = t \/ (Parked(o) /\ vert2tree[cur[o]] = Null)
  <2>1. pc[o] \in {"decide", "stopped"} /\ Sweeping(o)
    BY <1>1, <1>6, ParkedSweeps DEF LastOne, Growing
  <2>2. Holds(o) = {Rep(o)} /\ Top(o) = cur[o]
    BY <2>1 DEF Holds, Top
  <2>3. ASSUME o # t PROVE Parked(o) /\ vert2tree[cur[o]] = Null /\ cur[o] \in Left
    <3>1. Parked(o) /\ pc[o] = "stopped"
      BY <2>3 DEF LastOne, Growing, AllParked
    <3>2. vert2tree[cur[o]] = Null
      BY <1>6, <3>1 DEF Absorbed
    <3>3. cur[o] \in openedNodes
      BY <1>6, <3>1 DEF Growing, OpenSaddles
    <3>4. Null # IsNode
      BY VertFacts
    <3> QED BY <3>1, <3>2, <3>3, <3>4 DEF Left, StillOpen
  <2> QED BY <1>2, <2>1, <2>2, <2>3
<1> QED BY <1>1, <1>2, <1>3, <1>4, <1>5, <1>6

(* A vertex that was reached is below one of them.                         *)
LEMMA Reached ==
    ASSUME OpenAbove, Types, GInv, SInv, TreeTypes, ArcInv, TrueSaddles, Growing,
           NEW t \in Leaves, LastOne(t), NEW x \in Vert, ufs[x] # Null
    PROVE  \E o \in Leaves :
              /\ ~Absorbed(o) /\ Sweeping(o) /\ Rep(o) \in Holds(o)
              /\ comp[ufs[x]] = Rep(o) /\ x \in Members(Rep(o))
              /\ Top(o) = cur[o] /\ cur[o] \in Left /\ cur[o] \in Vert
              /\ x \in Piece(cur[o]) /\ x <= cur[o]
<1>1. PICK o \in Leaves : ~Absorbed(o) /\ comp[ufs[x]] \in Holds(o)
  BY DEF SInv, Held
<1>2. Sweeping(o) /\ Holds(o) = {Rep(o)} /\ Top(o) = cur[o] /\ cur[o] \in Left /\ cur[o] \in Vert
  BY <1>1, LastFacts
<1>3. comp[ufs[x]] = Rep(o) /\ x \in Members(Rep(o)) /\ Rep(o) \in Holds(o)
  BY <1>1, <1>2 DEF Members, Belongs
<1>4. x \in Piece(cur[o])
  BY <1>2, <1>3, BelowTop
<1>5. x <= cur[o]
  BY <1>2, <1>4, PieceFacts
<1> QED BY <1>1, <1>2, <1>3, <1>4, <1>5

(* One of them is between it and any vertex above that was not.            *)
LEMMA LeftBetween ==
    ASSUME OpenAbove, Types, GInv, SInv, TreeTypes, ArcInv, TrueSaddles, Growing,
           NEW t \in Leaves, LastOne(t), NEW x \in Vert, ufs[x] # Null,
           NEW y \in Vert, ufs[y] = Null, x \in Piece(y)
    PROVE  \E e \in Left : e \in Vert /\ e < y /\ e \in Piece(y) /\ x \in Piece(e) /\ x <= e
<1>1. PICK o \in Leaves : /\ ~Absorbed(o) /\ Sweeping(o) /\ Rep(o) \in Holds(o)
                          /\ x \in Members(Rep(o))
                          /\ Top(o) = cur[o] /\ cur[o] \in Left /\ cur[o] \in Vert
                          /\ x \in Piece(cur[o]) /\ x <= cur[o]
  BY Reached
<1>2. cur[o] # y
  BY <1>1, LastFacts
<1>3. ~(y < cur[o])
  <2> SUFFICES ASSUME y < cur[o] PROVE FALSE
    OBVIOUS
  <2>1. y \in Members(Rep(o))
    BY <1>1, Spill, PieceFacts
  <2> QED BY <2>1 DEF Members, Belongs
<1>4. cur[o] < y
  <2>1. cur[o] \in Nat /\ y \in Nat
    BY <1>1, VertFacts
  <2> QED BY <1>2, <1>3, <2>1
<1>5. cur[o] \in Piece(y)
  <2>1. cur[o] <= y
    <3>1. cur[o] \in Nat /\ y \in Nat
      BY <1>1, VertFacts
    <3> QED BY <1>4, <3>1
  <2> QED BY <1>1, <2>1, PiecesMeet
<1> QED BY <1>1, <1>4, <1>5

(* All of them are above the saddle of t.                                  *)
LEMMA LeftAbove ==
    ASSUME OpenAbove, Types, GInv, SInv, TreeTypes, ArcInv, TrueSaddles, Growing,
           NEW t \in Leaves, LastOne(t)
    PROVE  \A d \in Left : cur[t] \in Piece(d) /\ cur[t] <= d
<1> DEFINE s == cur[t]
           bad == {d \in Left : s \notin Piece(d)}
<1>0. Left \subseteq Vert /\ s \in Left /\ s \in Vert /\ s \in Piece(s) /\ mesh \in Meshes
  BY LastFacts, PieceFacts
<1>1. bad = {}
  <2> SUFFICES ASSUME bad # {} PROVE FALSE
    OBVIOUS
  <2>1. PICK d \in bad : \A x \in bad : d <= x
    <3>1. bad \in SUBSET Vert
      BY <1>0
    <3> HIDE DEF bad
    <3> QED BY <3>1, MinFacts
  <2>2. /\ d \in Left /\ d \in Vert /\ s \notin Piece(d) /\ d # s
        /\ \A x \in Left : s \notin Piece(x) => d <= x
    BY <1>0, <2>1
  <2>3. vert2tree[d] = Null
    BY <2>2, LastFacts
  <2>4. PICK n \in Lower(d) : n \notin Accounted(d)
    <3>1. Claiming(d) = {}
      BY DEF Claiming, LastOne
    <3>2. Accounted(d) # Lower(d)
      BY <2>2, <2>3, <3>1 DEF SInv, Claimed
    <3> QED BY <2>2, <3>2, AccountedFacts
  <2>5. PICK l \in Arm(n, d) : l \in Leaves
    BY <1>0, <2>2, LeafBelow
  <2>6. l \in Vert /\ ufs[l] # Null /\ l \in Piece(d)
    <3>1. pc[l] # "waiting"
      BY <2>5 DEF LastOne
    <3>2. l \in Vert /\ ufs[l] # Null
      BY <2>5, <3>1, LeavesFacts DEF SInv, LeafOf
    <3> QED BY <1>0, <2>2, <2>5, <3>2, ArmFacts
  <2>7. PICK o \in Leaves : /\ ~Absorbed(o) /\ Sweeping(o) /\ Rep(o) \in Holds(o)
                            /\ l \in Members(Rep(o))
                            /\ Top(o) = cur[o] /\ cur[o] \in Left /\ cur[o] \in Vert
                            /\ l \in Piece(cur[o]) /\ l <= cur[o]
    BY <2>6, Reached
  <2>8. CASE cur[o] = d
    <3>1. Parked(o)
      BY <2>2, <2>7, <2>8, LastFacts
    <3>2. d - 1 \in Vert /\ d - 1 < Top(o)
      <4>1. n \in Vert /\ n < d
        BY <1>0, <2>2, LowerFacts
      <4>2. n \in Nat /\ n >= 1 /\ d \in Nat /\ d <= N /\ N \in Nat
        BY <2>2, <4>1, NAssumption DEF Vert
      <4> QED BY <2>7, <2>8, <4>1, <4>2 DEF Vert
    <3>3. Closed(mesh, 1..(d - 1), Members(Rep(o)) \ {d})
      BY <2>7, <2>8, <3>2, SetIsClosed
    <3>4. l # d
      <4>1. l < d /\ d \in Nat
        BY <1>0, <2>2, <2>5, ArmFacts, VertFacts
      <4> QED BY <4>1
    <3>5. n \in Members(Rep(o))
      <4>1. Arm(n, d) \cap (Members(Rep(o)) \ {d}) # {}
        BY <2>5, <2>7, <3>4
      <4>2. Arm(n, d) \subseteq Members(Rep(o)) \ {d}
        BY <1>0, <2>2, <3>3, <4>1, ArmMeets
      <4>3. n \in Arm(n, d)
        BY <1>0, <2>2, ArmFacts
      <4> QED BY <4>2, <4>3
    <3> QED BY <2>4, <2>8, <3>1, <3>5 DEF Accounted, Captured, Members
  <2>9. CASE d < cur[o]
    <3>1. d \in Members(Rep(o))
      <4>1. Piece(d) \cap Members(Rep(o)) # {}
        BY <2>6, <2>7
      <4>2. Piece(d) \subseteq Members(Rep(o))
        BY <2>2, <2>7, <2>9, <4>1, Spill
      <4> QED BY <2>2, <4>2, PieceFacts
    <3>2. cur[o] = d
      BY <2>3, <2>7, <3>1, SetSettled
    <3>3. d \in Nat
      BY <2>2, VertFacts
    <3> QED BY <2>9, <3>2, <3>3
  <2>10. CASE cur[o] < d
    <3>1. ~(d <= cur[o]) /\ cur[o] <= d
      <4>1. d \in Nat /\ cur[o] \in Nat
        BY <2>2, <2>7, VertFacts
      <4> QED BY <2>10, <4>1
    <3>2. s \in Piece(cur[o])
      BY <2>2, <2>7, <3>1
    <3>3. Piece(cur[o]) \subseteq Piece(d)
      BY <2>2, <2>6, <2>7, <3>1, PiecesMeet
    <3> QED BY <2>2, <3>2, <3>3
  <2>11. cur[o] = d \/ d < cur[o] \/ cur[o] < d
    <3>1. d \in Nat /\ cur[o] \in Nat
      BY <2>2, <2>7, VertFacts
    <3> QED BY <3>1
  <2> QED BY <2>8, <2>9, <2>10, <2>11
<1> QED BY <1>0, <1>1, PieceFacts

(* A saddle that no task has made a node is one of them.                   *)
LEMMA LeftCritical ==
    ASSUME OpenAbove, Types, GInv, SInv, TreeTypes, ArcInv, TrueSaddles, Growing,
           NEW t \in Leaves, LastOne(t)
    PROVE  Critical \subseteq nodes \cup Left
<1>0. mesh \in Meshes /\ Critical \subseteq Vert /\ Left \subseteq Vert
  BY LastFacts, EndsFacts
<1>1. \A v \in Vert : v \in nodes <=> vert2tree[v] = IsNode
  BY DEF Growing, NodesMarked
<1> SUFFICES ASSUME NEW c \in Critical, vert2tree[c] # IsNode PROVE c \in Left
  BY <1>0, <1>1
<1>2. c \in Vert /\ vert2tree[c] = Null /\ c \in Forks
  <2>1. c \in Vert /\ ~OnArc(c)
    BY <1>0 DEF Growing, OnArcs
  <2>2. vert2tree[c] = Null
    BY <2>1 DEF OnArc
  <2>3. c \notin Leaves
    BY <2>2 DEF SInv, LeafOf
  <2> QED BY <1>0, <2>1, <2>2, <2>3, EndsFacts
<1>3. CASE ufs[c] # Null
  <2>1. PICK o \in Leaves : /\ ~Absorbed(o) /\ Rep(o) \in Holds(o)
                            /\ c \in Members(Rep(o)) /\ cur[o] \in Left
    BY <1>2, <1>3, Reached
  <2> QED BY <1>2, <2>1, SetSettled
<1>4. CASE ufs[c] = Null
  <2>1. ASSUME NEW n \in Lower(c) PROVE cur[t] \in Arm(n, c)
    <3>1. PICK l \in Arm(n, c) : l \in Leaves
      BY <1>0, <1>2, LeafBelow
    <3>2. l \in Vert /\ ufs[l] # Null /\ l \in Piece(c)
      <4>1. pc[l] # "waiting"
        BY <3>1 DEF LastOne
      <4>2. l \in Vert /\ ufs[l] # Null
        BY <3>1, <4>1, LeavesFacts DEF SInv, LeafOf
      <4> QED BY <1>0, <1>2, <3>1, <4>2, ArmFacts
    <3>3. PICK e \in Left : e \in Vert /\ e < c /\ l \in Piece(e)
      BY <1>2, <1>4, <3>2, LeftBetween
    <3>4. Closed(mesh, 1..e, Arm(n, c))
      <4>1. 1..e \subseteq 1..(c - 1)
        <5>1. e \in Nat /\ c \in Nat
          BY <1>2, <3>3, VertFacts
        <5> QED BY <3>3, <5>1
      <4>2. Closed(mesh, 1..(c - 1), Arm(n, c))
        BY <1>0, <1>2, ArmFacts
      <4> QED BY <4>1, <4>2, ClosedPart
    <3>5. Piece(e) \subseteq Arm(n, c)
      <4>1. Piece(e) \cap Arm(n, c) # {}
        BY <3>1, <3>3
      <4> QED BY <3>3, <3>4, <4>1, ClosedMeets
    <3> QED BY <3>3, <3>5, LeftAbove
  <2>2. PICK n \in Lower(c), m \in Lower(c) : Arm(n, c) # Arm(m, c)
    BY <1>0, <1>2, ForkFacts
  <2>3. Arm(n, c) \cap Arm(m, c) # {}
    BY <2>1
  <2> QED BY <1>0, <1>2, <2>2, <2>3, ArmsMeet
<1> QED BY <1>3, <1>4

(* A vertex that no task took is above one of them, on its arc.            *)
LEMMA LeftBelow ==
    ASSUME OpenAbove, Types, GInv, SInv, TreeTypes, ArcInv, TrueSaddles, Growing,
           NEW t \in Leaves, LastOne(t),
           NEW v \in Vert, vert2tree[v] = Null, v \notin Left, v # N
    PROVE  \E w \in Left : w < v /\ Down(v, w) /\ \A e \in Left : e < v => e <= w
<1>0. mesh \in Meshes /\ Left \subseteq Vert /\ Left \subseteq Critical /\ cur[t] \in Left
  BY LastFacts DEF Critical
<1>1. ufs[v] = Null
  <2> SUFFICES ASSUME ufs[v] # Null PROVE FALSE
    OBVIOUS
  <2>1. PICK o \in Leaves : /\ ~Absorbed(o) /\ Rep(o) \in Holds(o)
                            /\ v \in Members(Rep(o)) /\ cur[o] \in Left
    BY Reached
  <2> QED BY <2>1, SetSettled
<1>2. PICK l \in Piece(v) : l \in Leaves
  BY <1>0, LeafBelow
<1>3. l \in Vert /\ ufs[l] # Null
  <2>1. pc[l] # "waiting"
    BY <1>2 DEF LastOne
  <2> QED BY <1>2, <2>1, LeavesFacts DEF SInv, LeafOf
<1>4. PICK e \in Left : e \in Vert /\ e < v /\ e \in Piece(v)
  BY <1>1, <1>2, <1>3, LeftBetween
<1> DEFINE W == {x \in Left : x < v}
<1>5. PICK w \in W : \A x \in W : x <= w
  <2>1. W \in SUBSET Vert /\ W # {}
    BY <1>0, <1>4
  <2> HIDE DEF W
  <2> QED BY <2>1, MaxFacts
<1>6. w \in Left /\ w \in Vert /\ w < v /\ \A x \in Left : x < v => x <= w
  BY <1>0, <1>5
<1>7. w \in Piece(v)
  <2>1. cur[t] \in Piece(w) /\ cur[t] \in Piece(v)
    BY <1>4, <1>6, LeftAbove, PieceTrans
  <2>2. w <= v
    <3>1. w \in Nat /\ v \in Nat
      BY <1>6, VertFacts
    <3> QED BY <1>6, <3>1
  <2> QED BY <1>6, <2>1, <2>2, PiecesMeet
<1>8. ASSUME NEW c \in Ends, c \in Piece(v) PROVE c <= w
  <2>1. c \in Vert /\ c <= v
    BY <1>8, PieceFacts
  <2>2. c # N
    <3>1. c \in Nat /\ v \in Nat /\ N \in Nat /\ v <= N
      BY <2>1, NAssumption DEF Vert
    <3> QED BY <2>1, <3>1
  <2>3. c \in Critical /\ c \in nodes \cup Left
    BY <1>8, <2>2, LeftCritical DEF Ends
  <2>4. CASE c \in Left
    <3>1. c < v
      <4>1. c # v
        BY <2>4
      <4>2. c \in Nat /\ v \in Nat
        BY <2>1, VertFacts
      <4> QED BY <2>1, <4>1, <4>2
    <3> QED BY <1>6, <2>4, <3>1
  <2>5. CASE c \in nodes
    <3>1. vert2tree[c] = IsNode
      BY <2>1, <2>5 DEF Growing, NodesMarked
    <3>2. ufs[c] # Null
      BY <2>1, <3>1, LastFacts
    <3>3. PICK f \in Left : f \in Vert /\ f < v /\ c <= f
      BY <1>1, <1>8, <2>1, <3>2, LeftBetween
    <3>4. f <= w
      BY <1>6, <3>3
    <3> QED
      <4>1. c \in Nat /\ f \in Nat /\ w \in Nat
        BY <1>6, <2>1, <3>3, VertFacts
      <4> QED BY <3>3, <3>4, <4>1
  <2> QED BY <2>3, <2>4, <2>5
<1>9. Down(v, w)
  BY <1>0, <1>6, <1>7, <1>8 DEF Down, Ends
<1> QED BY <1>6, <1>9

(* They are the backbone.                                                  *)
LEMMA LeftBackbone ==
    ASSUME OpenAbove, Types, GInv, SInv, TreeTypes, ArcInv, TrueSaddles, Growing,
           NEW t \in Leaves, LastOne(t)
    PROVE  Backbone(Left, Left, cur[t])
<1> DEFINE s == cur[t]
<1>0. /\ mesh \in Meshes /\ Left \subseteq Vert /\ Left \subseteq Critical /\ s \in Left /\ N \notin Left
      /\ s \in Vert /\ Critical \subseteq Vert
  BY LastFacts, EndsFacts DEF Critical
<1>1. \A d \in Left : s <= d /\ s \in Piece(d)
  BY LeftAbove
<1>2. \A c \in nodes : c \in Vert /\ vert2tree[c] = IsNode /\ c \in Critical
  BY DEF Growing, NodesMarked, NodesCritical, TreeTypes
<1>3. ASSUME NEW c \in nodes, c \notin Left, s \in Piece(c) PROVE FALSE
  <2>1. c \in Vert /\ vert2tree[c] = IsNode /\ ufs[c] # Null
    BY <1>2, LastFacts
  <2>2. PICK o \in Leaves : \E u \in Holds(o) :
              /\ ~Absorbed(o) /\ Sweeping(o) /\ c \in Members(u)
              /\ Piece(c) \subseteq Members(u) \/ (pc[o] = "merge" /\ cur[o] = c)
    BY <2>1, NodeHeld DEF Growing
  <2>3. PICK u \in Holds(o) :
              /\ ~Absorbed(o) /\ Sweeping(o) /\ c \in Members(u)
              /\ Piece(c) \subseteq Members(u) \/ (pc[o] = "merge" /\ cur[o] = c)
    BY <2>2
  <2>4. pc[o] # "merge"
    BY DEF LastOne
  <2>5. s \in Members(u)
    BY <1>3, <2>3, <2>4
  <2>6. u = Rep(t) /\ ~Absorbed(t) /\ Rep(t) \in Holds(t) /\ Top(t) = s
    <3>1. Belongs(s, Rep(t)) /\ ~Absorbed(t)
      BY LastFacts
    <3>2. Rep(t) \in Holds(t) /\ Top(t) = s
      BY <3>1, LastFacts
    <3> QED BY <2>5, <3>1, <3>2 DEF Members, Belongs
  <2>7. o = t
    BY <2>3, <2>6, Sole
  <2>8. c <= s
    BY <2>1, <2>3, <2>6, <2>7 DEF GInv, Swept, SweptOf, Members
  <2>9. s <= c
    BY <1>3, <2>1, PieceFacts
  <2>10. c = s
    <3>1. c \in Nat /\ s \in Nat
      BY <1>0, <2>1, VertFacts
    <3> QED BY <2>8, <2>9, <3>1
  <2> QED BY <1>0, <1>3, <2>10
<1>4. ASSUME NEW v \in Vert, OnArc(v) PROVE v \notin Ends /\ Down(v, vert2tree[v])
  <2>1. v \notin Critical /\ (v # N => Down(v, vert2tree[v]))
    BY <1>4 DEF Growing, OnArcs
  <2>2. v # N
    <3>1. \A o \in Leaves : pc[o] # "pop"
      BY DEF LastOne
    <3> QED BY <1>4, <3>1 DEF ArcInv, LastVertex
  <2> QED BY <2>1, <2>2 DEF Ends
<1>5. Left \subseteq Critical \ {N} /\ nodes \subseteq Ends /\ Critical \subseteq nodes \cup Left
      /\ Left \ Left \subseteq nodes /\ NodesMarked
  BY <1>0, <1>2, LeftCritical DEF Ends, Growing
<1>6. \A v \in Vert : vert2tree[v] = Null /\ v \notin Left /\ v # N =>
          \E w \in Left : /\ w < v /\ Down(v, w)
                          /\ \A e \in Left : e < v => e <= w
  BY LeftBelow
<1> QED BY <1>0, <1>1, <1>3, <1>4, <1>5, <1>6 DEF Backbone

(* The arcs of the sets that meet there end there.                         *)
LEMMA LeftHome ==
    ASSUME OpenAbove, Types, GInv, SInv, TreeTypes, ArcInv, TrueSaddles, Growing,
           NEW t \in Leaves, LastOne(t),
           NEW u \in Vert, comp[u] = u, openedArcs[u] # {}
    PROVE  \E d \in Left : HomeOf(u, d, Left)
<1>0. /\ Left \subseteq Vert /\ mesh \in Meshes /\ Left \subseteq Critical
      /\ openedArcs[u] = {a \in Members(u) : OpenArc(a)}
  BY LastFacts DEF Growing, OpenedListed, Critical
<1>1. PICK a \in Members(u) : OpenArc(a)
  BY <1>0
<1>2. a \in Vert /\ ufs[a] # Null /\ comp[ufs[a]] = u
  BY DEF Members, Belongs
<1>3. PICK o \in Leaves : /\ ~Absorbed(o) /\ Sweeping(o) /\ Rep(o) \in Holds(o)
                          /\ u = Rep(o) /\ Top(o) = cur[o] /\ cur[o] \in Left /\ cur[o] \in Vert
  BY <1>2, Reached
<1> DEFINE d == cur[o]
<1>4. o # t
  BY <1>1, <1>3 DEF LastOne, Growing, ArcOnTop, TopOf
<1>5. Parked(o) /\ vert2tree[d] = Null
  BY <1>3, <1>4, LastFacts
<1>6. \E n \in Lower(d) : Belongs(n, u)
  BY <1>3, <1>5, HasBelow
<1>7. ASSUME NEW c \in openedArcs[u] PROVE Up(c, d)
  <2>1. c \in Members(u) /\ OpenArc(c) /\ c \in Vert
    BY <1>0 DEF Members
  <2>2. c # d
    <3>1. nbUp[d] # 1
      BY <1>3, <1>5, VertFacts DEF ArcInv, Opening, OpenedOf
    <3> QED BY <2>1, <3>1 DEF OpenArc
  <2>3. c < Top(o)
    <3>1. c <= Top(o)
      BY <1>3, <2>1 DEF GInv, Swept, SweptOf, Members
    <3>2. c \in Nat /\ d \in Nat
      BY <1>3, <2>1, VertFacts
    <3> QED BY <1>3, <2>2, <3>1, <3>2
  <2>4. Top(o) \in Ends
    BY <1>0, <1>3 DEF Ends
  <2>5. Up(c, Top(o))
    BY <1>3, <2>1, <2>3, <2>4, UpTop DEF Growing
  <2> QED BY <1>3, <2>5
<1>8. ASSUME NEW e \in Left, Meets(e, u), e < d PROVE FALSE
  <2>1. e \in Vert
    BY <1>0
  <2>2. Piece(e) \cap Members(u) # {}
    <3>1. CASE Belongs(e, u)
      BY <2>1, <3>1, PieceFacts DEF Members
    <3>2. CASE \E n \in Lower(e) : Belongs(n, u)
      <4>1. PICK n \in Lower(e) : Belongs(n, u)
        BY <3>2
      <4>2. n \in Piece(e) /\ n \in Vert
        BY <1>0, <2>1, PieceFacts, PieceLower, LowerFacts
      <4> QED BY <4>1, <4>2 DEF Members
    <3> QED BY <1>8, <3>1, <3>2 DEF Meets
  <2>3. e \in Members(u)
    <3>1. e < Top(o)
      BY <1>3, <1>8
    <3> QED BY <1>3, <2>1, <2>2, <3>1, Spill, PieceFacts
  <2>4. CASE e = cur[t]
    <3>1. Belongs(cur[t], Rep(t)) /\ ~Absorbed(t) /\ Rep(t) \in Holds(t)
      BY LastFacts, HoldsFacts
    <3>2. Rep(t) = u
      BY <2>3, <2>4, <3>1 DEF Members, Belongs
    <3> QED BY <1>3, <1>4, <3>1, <3>2, Sole
  <2>5. CASE vert2tree[e] = Null
    <3>1. cur[o] = e
      BY <1>3, <2>3, <2>5, SetSettled
    <3>2. e \in Nat
      BY <2>1, VertFacts
    <3> QED BY <1>8, <3>1, <3>2
  <2> QED BY <2>4, <2>5, LastFacts
<1>9. \A e \in Left : Meets(e, u) => d <= e
  <2> SUFFICES ASSUME NEW e \in Left, Meets(e, u) PROVE d <= e
    OBVIOUS
  <2>1. e \in Nat /\ d \in Nat
    BY <1>0, <1>3, VertFacts
  <2> QED BY <1>8, <2>1
<1> QED BY <1>3, <1>6, <1>7, <1>9 DEF HomeOf

(* Outside of the backbone all arcs are opened.                            *)
LEMMA LeftArcs ==
    ASSUME OpenAbove, Types, GInv, SInv, TreeTypes, ArcInv, TrueSaddles, Growing,
           NEW t \in Leaves, LastOne(t)
    PROVE  BackboneArcs(Left, Left)
<1>1. \A c \in nodes : c \in Vert /\ vert2tree[c] = IsNode /\ c \in Critical
  BY DEF Growing, NodesMarked, NodesCritical, TreeTypes
<1>2. ASSUME NEW v \in Vert PROVE nbUp[v] = IF v \in nodes \ Left THEN 1 ELSE 0
  <2>1. nbUp[v] \in {0, 1} /\ (vert2tree[v] # IsNode => nbUp[v] = 0)
    BY DEF ArcInv, Opening, OpenedOf
  <2>2. CASE v \in nodes \ Left
    <3>1. vert2tree[v] = IsNode /\ v # cur[t]
      BY <1>1, <2>2, LastFacts
    <3> QED BY <2>1, <2>2, <3>1, LastFacts
  <2>3. CASE v \in Left
    <3>1. v = cur[t] \/ vert2tree[v] = Null
      BY <2>3, LastFacts
    <3> QED BY <2>1, <2>3, <3>1, LastFacts, VertFacts
  <2>4. CASE v \notin nodes
    BY <2>1, <2>4 DEF Growing, NodesMarked
  <2> QED BY <2>2, <2>3, <2>4
<1>3. ASSUME NEW a \in nodes, a \notin Left, upNode[a] = Null
      PROVE  \E u \in Vert : comp[u] = u /\ a \in openedArcs[u]
  <2>1. a \in Vert /\ vert2tree[a] = IsNode /\ ufs[a] # Null /\ OpenArc(a)
    BY <1>1, <1>2, <1>3, LastFacts DEF OpenArc
  <2>2. comp[ufs[a]] \in Vert /\ comp[comp[ufs[a]]] = comp[ufs[a]] /\ a \in Members(comp[ufs[a]])
    BY <2>1 DEF GInv, Representatives, Types, Members, Belongs
  <2> QED BY <2>1, <2>2 DEF Growing, OpenedListed
<1>4. /\ \A a \in Vert : upNode[a] # Null => Up(a, upNode[a])
      /\ \A u \in Vert : comp[comp[u]] = comp[u]
  BY DEF Growing, ClosedArcs, GInv, Representatives
<1>5. \A u \in Vert : comp[u] = u /\ openedArcs[u] # {} => \E d \in Left : HomeOf(u, d, Left)
  BY LeftHome
<1> QED BY <1>1, <1>2, <1>3, <1>4, <1>5 DEF BackboneArcs

(* A step that changes none of it keeps the backbone.                      *)
LEMMA SameBackbone ==
    ASSUME UNCHANGED <<mesh, nodes, vert2tree, nbUp, upNode, comp, ufs, openedArcs, openedNodes>>
    PROVE  /\ Left' = Left
           /\ \A D, rest, b : Backbone(D, rest, b)' <=> Backbone(D, rest, b)
           /\ \A D, rest : BackboneArcs(D, rest)' <=> BackboneArcs(D, rest)
           /\ TreeDone' <=> TreeDone
<1>1. /\ Critical' = Critical /\ Ends' = Ends
      /\ \A v : Piece(v)' = Piece(v) /\ Lower(v)' = Lower(v)
      /\ \A x, y : Up(x, y)' <=> Up(x, y)
      /\ \A x, y : Down(x, y)' <=> Down(x, y)
  BY SameTree
<1>2. Left' = Left
  BY DEF Left, StillOpen
<1>3. NodesMarked' <=> NodesMarked
  BY DEF NodesMarked
<1>4. \A n, u : Belongs(n, u)' <=> Belongs(n, u)
  BY DEF Belongs
<1>5. \A e, u : Meets(e, u)' <=> Meets(e, u)
  BY <1>1, <1>4 DEF Meets
<1>6. \A u, d, rest : HomeOf(u, d, rest)' <=> HomeOf(u, d, rest)
  BY <1>1, <1>4, <1>5 DEF HomeOf
<1>7. \A D, rest, b : Backbone(D, rest, b)' <=> Backbone(D, rest, b)
  BY <1>1, <1>3 DEF Backbone, OnArc
<1>8. \A D, rest : BackboneArcs(D, rest)' <=> BackboneArcs(D, rest)
  BY <1>1, <1>6 DEF BackboneArcs
<1>9. TreeDone' <=> TreeDone
  BY <1>1 DEF TreeDone
<1> QED BY <1>2, <1>7, <1>8, <1>9

(* The last task stops, and leaves the backbone to the trunk.              *)
LEMMA RestartEnd ==
    ASSUME OpenAbove, Types, GInv, SInv, CountsOut, TreeTypes, ArcInv, TrueSaddles, Growing,
           NEW t \in Leaves, Restart(t), activeTasks = 1
    PROVE  End'
<1>1. LastOne(t)
  <2>1. pc[t] = "decide"
    BY DEF Restart
  <2>2. BackboneAlone
    BY GrowthAlone
  <2> QED BY <2>1, <2>2 DEF BackboneAlone, LastOne
<1>2. Backbone(Left, Left, cur[t]) /\ BackboneArcs(Left, Left) /\ cur[t] \in Left
  BY <1>1, LeftBackbone, LeftArcs, LastFacts
<1>3. /\ UNCHANGED <<mesh, nodes, vert2tree, nbUp, upNode, comp, ufs, openedArcs, openedNodes>>
      /\ pc' = [pc EXCEPT ![t] = "stopped"]
  BY DEF Restart, Goto, ufVars, segmVars, treeVars
<1>4. /\ Left' = Left
      /\ \A D, rest, b : Backbone(D, rest, b)' <=> Backbone(D, rest, b)
      /\ \A D, rest : BackboneArcs(D, rest)' <=> BackboneArcs(D, rest)
      /\ Leaves' = Leaves
  BY <1>3, SameBackbone, SameTree
<1>5. \A o \in Leaves : pc'[o] = "stopped"
  BY <1>1, <1>3, LeavesFacts DEF LastOne, Types
<1>6. PICK L, s : L = Left /\ s = cur[t]
  OBVIOUS
<1>7. Backbone(L, L, s)' /\ BackboneArcs(L, L)' /\ Left' = L /\ s \in L
  BY <1>2, <1>4, <1>6
<1>8. \E b \in Left' : Backbone(Left, Left, b)'
  BY <1>7
<1>9. BackboneArcs(Left, Left)'
  BY <1>7
<1> QED BY <1>4, <1>5, <1>8, <1>9 DEF End
-------------------------------------------------------------------------------
(***************************************************************************)
(* The trunk.                                                              *)
(***************************************************************************)
(* When all tasks have stopped the trunk closes what is left, if anything. *)
LEMMA BeginTree ==
    ASSUME phase = "growth", Types, GInv, SInv, GrowthTypes, BeginTrunk,
           Growing \/ End \/ Full
    PROVE  TreeInv'
<1>1. /\ UNCHANGED <<mesh, nodes, vert2tree, nbUp, upNode, comp, ufs, openedArcs, openedNodes>>
      /\ \A l \in Leaves : pc[l] = "stopped"
      /\ trunkVerts' \in InOrder(Left)
      /\ phase' = IF trunkVerts' = <<>> THEN "done" ELSE "trunk"
      /\ trunkClosed' = 0 /\ mesh \in Meshes /\ Left \subseteq Vert
  BY DEF BeginTrunk, growthVars, Left, GrowthTypes, TreeTypes, Types
<1>2. /\ Left' = Left
      /\ \A D, rest, b : Backbone(D, rest, b)' <=> Backbone(D, rest, b)
      /\ \A D, rest : BackboneArcs(D, rest)' <=> BackboneArcs(D, rest)
      /\ TreeDone' <=> TreeDone
  BY <1>1, SameBackbone
<1>3. PICK L, s : L = Left /\ s = trunkVerts'
  OBVIOUS
<1>4. /\ s \in Seq(Vert) /\ Len(s) \in Nat /\ ToSet(s) = L /\ (s = <<>> <=> L = {})
      /\ \A i, j \in 1..Len(s) : i < j => s[i] < s[j]
      /\ L \subseteq Vert
  BY <1>1, <1>3, InOrderFacts
<1>5. ~Growing
  <2> SUFFICES ASSUME Growing PROVE FALSE
    OBVIOUS
  <2>1. Out = Leaves
    BY <1>1 DEF Out, Growing, AllParked
  <2>2. Leaves # {}
    BY <1>1, LeafBelow, EndsFacts
  <2> QED BY <2>1, <2>2, SomeoneGoesOn
<1>6. CASE Full
  <2>1. L = {}
    BY <1>3, <1>6 DEF Full, Left
  <2>2. phase' = "done" /\ TreeDone'
    BY <1>1, <1>2, <1>3, <1>4, <1>6, <2>1 DEF Full
  <2> QED BY <2>2 DEF TreeInv
<1>7. CASE End
  <2>1. PICK b \in L : Backbone(L, L, b)
    BY <1>3, <1>7 DEF End
  <2>2. BackboneArcs(L, L)
    BY <1>3, <1>7 DEF End
  <2>3. phase' = "trunk"
    BY <1>1, <1>3, <1>4, <2>1
  <2>4. L = {s[i] : i \in 1..Len(s)}
    BY <1>4 DEF ToSet
  <2>5. TrunkSet' = L /\ Beyond' = L
    <3>1. TrunkSet' = ToSet(s)
      BY <1>3 DEF TrunkSet
    <3>2. Beyond' = {s[i] : i \in (0 + 1)..Len(s)}
      BY <1>1, <1>3 DEF Beyond
    <3>3. 0 + 1 = 1
      OBVIOUS
    <3> QED BY <1>4, <2>4, <3>1, <3>2, <3>3
  <2>6. s[1] = b
    <3>1. PICK i \in 1..Len(s) : b = s[i]
      BY <2>1, <2>4
    <3>2. 1 \in 1..Len(s) /\ (i = 1 \/ 1 < i)
      BY <1>4, <3>1
    <3>3. s[1] \in L
      BY <2>4, <3>2
    <3>4. b <= s[1]
      BY <2>1, <3>3 DEF Backbone
    <3>5. i # 1 => s[1] < b
      BY <1>4, <3>1, <3>2
    <3>6. b \in Nat /\ s[1] \in Nat
      BY <1>4, <2>1, <3>3, VertFacts
    <3> QED BY <3>1, <3>4, <3>5, <3>6
  <2>7. Backbone(L, L, b)' /\ BackboneArcs(L, L)'
    BY <1>2, <2>1, <2>2
  <2>8. trunkVerts'[1] = b
    BY <1>3, <2>6
  <2>9. Backbone(TrunkSet, Beyond, trunkVerts[1])'
    BY <2>5, <2>7, <2>8
  <2>10. BackboneArcs(TrunkSet, Beyond)'
    BY <2>5, <2>7
  <2>11. Ordered'
    BY <1>3, <1>4 DEF Ordered
  <2> QED BY <2>3, <2>9, <2>10, <2>11 DEF TreeInv
<1> QED BY <1>5, <1>6, <1>7

(* No task goes on after that.                                             *)
LEMMA EndStays ==
    ASSUME Types, End, NEW t \in Vert, TaskStep(t) PROVE FALSE
<1>1. pc[t] \notin {"none", "stopped"}
  BY TaskPhase
<1>2. t \in Leaves
  BY <1>1 DEF Types
<1> QED BY <1>1, <1>2 DEF End

(* The vertex the trunk closes next is the first of what is left.          *)
LEMMA NextBeyond ==
    ASSUME trunkVerts \in Seq(Vert), trunkClosed \in 0..Len(trunkVerts), Ordered, TrunkClose
    PROVE  LET d == trunkVerts[trunkClosed + 1] IN
           /\ d \in Beyond /\ d \in Vert /\ Beyond \subseteq Vert
           /\ \A e \in Beyond : d <= e
           /\ Beyond' = Beyond \ {d} /\ TrunkSet' = TrunkSet
           /\ trunkVerts' = trunkVerts
<1> DEFINE n == Len(trunkVerts)
           k == trunkClosed
           d == trunkVerts[k + 1]
<1>1. /\ k < n /\ k \in Nat /\ n \in Nat
      /\ trunkVerts' = trunkVerts /\ trunkClosed' = k + 1
  BY DEF TrunkClose, TrunkCloseUpTo
<1>2. \A i \in 1..n : trunkVerts[i] \in Vert /\ trunkVerts[i] \in Nat
  <2>1. \A i \in 1..n : trunkVerts[i] \in Vert
    OBVIOUS
  <2> QED BY <2>1, VertFacts
<1>3. /\ k + 1 \in 1..n
      /\ \A i \in (k + 1)..n : i \in 1..n /\ (i = k + 1 \/ (k + 1 < i /\ i \in (k + 1 + 1)..n))
      /\ \A i \in (k + 1 + 1)..n : i \in (k + 1)..n /\ k + 1 < i
  BY <1>1
<1>4. d \in Beyond /\ d \in Vert /\ Beyond \subseteq Vert
  <2>1. k + 1 \in (k + 1)..n
    BY <1>1
  <2> QED BY <1>2, <1>3, <2>1 DEF Beyond
<1>5. \A i \in 1..n : k + 1 < i => d < trunkVerts[i]
  BY <1>3 DEF Ordered
<1>6. \A e \in Beyond : d <= e
  <2> SUFFICES ASSUME NEW i \in (k + 1)..n PROVE d <= trunkVerts[i]
    BY DEF Beyond
  <2>1. i = k + 1 \/ d < trunkVerts[i]
    BY <1>3, <1>5
  <2>2. d \in Nat /\ trunkVerts[i] \in Nat
    BY <1>2, <1>3
  <2> QED BY <2>1, <2>2
<1>7. Beyond' = {trunkVerts[i] : i \in (k + 1 + 1)..n}
  BY <1>1 DEF Beyond
<1>8. Beyond' = Beyond \ {d}
  <2>1. ASSUME NEW i \in (k + 1 + 1)..n PROVE trunkVerts[i] \in Beyond /\ trunkVerts[i] # d
    <3>1. i \in (k + 1)..n /\ i \in 1..n /\ k + 1 < i
      BY <1>3
    <3>2. d < trunkVerts[i] /\ d \in Nat /\ trunkVerts[i] \in Nat
      BY <1>2, <1>3, <1>5, <3>1
    <3>3. trunkVerts[i] # d
      BY <3>2
    <3> QED BY <3>1, <3>3 DEF Beyond
  <2>2. ASSUME NEW e \in Beyond, e # d PROVE \E i \in (k + 1 + 1)..n : e = trunkVerts[i]
    <3>1. PICK i \in (k + 1)..n : e = trunkVerts[i]
      BY DEF Beyond
    <3> QED BY <1>3, <2>2, <3>1
  <2> QED BY <1>7, <2>1, <2>2
<1>9. TrunkSet' = TrunkSet
  BY <1>1 DEF TrunkSet
<1> QED BY <1>1, <1>4, <1>6, <1>8, <1>9

(* What it makes of the sets: those that it meets are one.                 *)
LEMMA CloseSets ==
    ASSUME comp \in [Vert -> Vert], ufs \in [Vert -> Vert \cup {Null}],
           \A u \in Vert : comp[comp[u]] = comp[u],
           mesh \in Meshes, NEW d \in Vert, ufs[d] # Null, CloseOnBackBone(d)
    PROVE  \E met \in SUBSET Vert :
              /\ comp[ufs[d]] \in met
              /\ \A w : w \in met <=> Meets(d, w)
              /\ \A w \in met : comp[w] = w
              /\ upNode' = [a \in Vert |-> IF \E w \in met : a \in openedArcs[w] THEN d
                                           ELSE upNode[a]]
              /\ openedArcs' = [w \in Vert |-> IF w \in met THEN {} ELSE openedArcs[w]]
              /\ comp' = [w \in Vert |-> IF comp[w] \in met THEN comp[ufs[d]] ELSE comp[w]]
              /\ \A w \in Vert \ met : \A n \in Vert : Belongs(n, w)' <=> Belongs(n, w)
<1> DEFINE u == comp[ufs[d]]
           met == {u} \cup {comp[ufs[n]] : n \in {m \in Lower(d) : ufs[m] # Null}}
<1>1. \A n \in Lower(d) : n \in Vert
  BY LowerFacts
<1>2. u \in Vert /\ u \in met /\ comp[u] = u
  OBVIOUS
<1>3. met \in SUBSET Vert /\ \A w \in met : comp[w] = w
  <2>1. \A n \in Vert : ufs[n] # Null => comp[ufs[n]] \in Vert /\ comp[comp[ufs[n]]] = comp[ufs[n]]
    OBVIOUS
  <2> QED BY <1>1, <1>2, <2>1
<1>4. \A w : w \in met <=> Meets(d, w)
  BY DEF Meets, Belongs
<1>5. /\ upNode' = [a \in Vert |-> IF a \in UNION {openedArcs[w] : w \in met} THEN d ELSE upNode[a]]
      /\ openedArcs' = [w \in Vert |-> IF w \in met THEN {} ELSE openedArcs[w]]
      /\ comp' = [w \in Vert |-> IF comp[w] \in met THEN u ELSE comp[w]]
      /\ ufs' = [ufs EXCEPT ![d] = u]
  BY DEF CloseOnBackBone, find
<1> HIDE DEF met, u
<1>6. upNode' = [a \in Vert |-> IF \E w \in met : a \in openedArcs[w] THEN d ELSE upNode[a]]
  BY <1>5
<1>7. ASSUME NEW w \in Vert \ met, NEW n \in Vert PROVE Belongs(n, w)' <=> Belongs(n, w)
  <2>1. Belongs(n, w)' <=> ufs'[n] # Null /\ comp'[ufs'[n]] = w
    BY DEF Belongs
  <2>2. CASE n = d
    <3>1. ufs'[n] = u /\ comp'[u] = u
      BY <1>2, <1>5, <2>2
    <3>2. u # w
      BY <1>2
    <3> QED BY <2>1, <2>2, <3>1, <3>2 DEF Belongs, u
  <2>3. CASE n # d
    <3>1. ufs'[n] = ufs[n]
      BY <1>5, <2>3
    <3>2. ufs[n] # Null => comp'[ufs[n]] = IF comp[ufs[n]] \in met THEN u ELSE comp[ufs[n]]
      BY <1>5
    <3> QED BY <1>2, <2>1, <3>1, <3>2 DEF Belongs
  <2> QED BY <2>2, <2>3
<1> QED BY <1>2, <1>3, <1>4, <1>5, <1>6, <1>7 DEF u

(* The trunk closes its vertices from below: the sets that it meets at one *)
(* have the arcs that end there, and no others.                            *)
LEMMA TrunkCloseTree ==
    ASSUME phase = "trunk", TreeTypes, RestTypes, TrunkInv, mesh \in Meshes, TreeInv, TrunkClose
    PROVE  TreeInv'
<1>1. PICK D, rest, b, d : /\ D = TrunkSet /\ rest = Beyond /\ b = trunkVerts[1]
                           /\ d = trunkVerts[trunkClosed + 1]
  OBVIOUS
<1>2. /\ Ordered /\ Backbone(D, rest, b) /\ BackboneArcs(D, rest)
  BY <1>1 DEF TreeInv
<1>3. /\ d \in rest /\ d \in Vert /\ rest \subseteq Vert /\ \A e \in rest : d <= e
      /\ Beyond' = rest \ {d} /\ TrunkSet' = D /\ trunkVerts' = trunkVerts
  BY <1>1, <1>2, NextBeyond DEF RestTypes
<1>4. /\ CloseOnBackBone(d) /\ phase' = "trunk" /\ mesh' = mesh /\ nbUp' = nbUp
      /\ nodes' = nodes \cup {d} /\ vert2tree' = [vert2tree EXCEPT ![d] = IsNode]
  BY <1>1 DEF TrunkClose, TrunkCloseUpTo, growthVars, CloseOnBackBone
<1>5. d \in D /\ ufs[d] # Null
  BY <1>1, <1>2, <1>3 DEF Backbone, TrunkInv
<1>6. /\ Critical' = Critical /\ Ends' = Ends
      /\ \A v : Piece(v)' = Piece(v) /\ Lower(v)' = Lower(v)
      /\ \A x, y : Up(x, y)' <=> Up(x, y)
      /\ \A x, y : Down(x, y)' <=> Down(x, y)
  BY <1>4, SameTree
<1>7. \A v \in Vert : /\ vert2tree'[v] = IF v = d THEN IsNode ELSE vert2tree[v]
                      /\ IsNode # Null
  BY <1>4, VertFacts DEF TreeTypes
<1>8. Backbone(D, rest \ {d}, b)'
  <2>1. /\ D \subseteq Critical \ {N} /\ b \in D /\ rest \ {d} \subseteq D
        /\ \A x \in D : b <= x /\ b \in Piece(x)
        /\ nodes' \subseteq Ends /\ Critical \subseteq nodes' \cup D
        /\ D \ (rest \ {d}) \subseteq nodes'
        /\ \A c \in nodes' \ D : b \notin Piece(c) \/ c = N
    BY <1>2, <1>4, <1>5 DEF Backbone, Ends
  <2>2. \A v \in Vert : (OnArc(v))' => v \notin Ends /\ Down(v, vert2tree'[v])
    <3>1. \A v \in Vert : (OnArc(v))' => OnArc(v) /\ vert2tree'[v] = vert2tree[v]
      BY <1>7 DEF OnArc
    <3> QED BY <1>2, <3>1 DEF Backbone
  <2>3. \A v \in Vert : vert2tree'[v] = Null /\ v \notin D /\ v # N =>
            \E w \in D : /\ w < v /\ Down(v, w)
                         /\ \A e \in D : e < v => e <= w
    BY <1>2, <1>7 DEF Backbone
  <2>4. NodesMarked'
    <3>1. \A v \in Vert : v \in nodes' <=> vert2tree'[v] = IsNode
      BY <1>2, <1>4, <1>7 DEF Backbone, NodesMarked
    <3> QED BY <3>1 DEF NodesMarked
  <2> QED BY <1>6, <2>1, <2>2, <2>3, <2>4 DEF Backbone
<1>9. PICK met \in SUBSET Vert :
              /\ comp[ufs[d]] \in met
              /\ \A w : w \in met <=> Meets(d, w)
              /\ \A w \in met : comp[w] = w
              /\ upNode' = [a \in Vert |-> IF \E w \in met : a \in openedArcs[w] THEN d
                                           ELSE upNode[a]]
              /\ openedArcs' = [w \in Vert |-> IF w \in met THEN {} ELSE openedArcs[w]]
              /\ comp' = [w \in Vert |-> IF comp[w] \in met THEN comp[ufs[d]] ELSE comp[w]]
              /\ \A w \in Vert \ met : \A n \in Vert : Belongs(n, w)' <=> Belongs(n, w)
  <2>1. \A u \in Vert : comp[comp[u]] = comp[u]
    BY <1>2 DEF BackboneArcs
  <2> QED BY <1>3, <1>4, <1>5, <2>1, CloseSets DEF RestTypes
<1>10. BackboneArcs(D, rest \ {d})'
  <2>1. /\ nodes' \subseteq Critical
        /\ \A v \in Vert : nbUp'[v] = IF v \in nodes' \ D THEN 1 ELSE 0
    BY <1>2, <1>4, <1>5 DEF Backbone, BackboneArcs
  <2>2. ASSUME NEW a \in Vert, upNode'[a] # Null PROVE Up(a, upNode'[a])
    <3>1. CASE \E w \in met : a \in openedArcs[w]
      <4>1. PICK w \in met : a \in openedArcs[w]
        BY <3>1
      <4>2. w \in Vert /\ comp[w] = w /\ openedArcs[w] # {} /\ Meets(d, w) /\ upNode'[a] = d
        BY <1>9, <4>1
      <4>3. PICK e \in rest : HomeOf(w, e, rest)
        BY <1>2, <4>2 DEF BackboneArcs
      <4>4. e <= d /\ d <= e /\ Up(a, e)
        BY <1>3, <4>1, <4>2, <4>3 DEF HomeOf
      <4>5. e = d
        <5>1. e \in Nat /\ d \in Nat
          BY <1>3, VertFacts
        <5> QED BY <4>4, <5>1
      <4> QED BY <4>2, <4>4, <4>5
    <3>2. CASE ~\E w \in met : a \in openedArcs[w]
      <4>1. upNode'[a] = upNode[a]
        BY <1>9, <3>2
      <4> QED BY <1>2, <2>2, <4>1 DEF BackboneArcs
    <3> QED BY <3>1, <3>2
  <2>3. ASSUME NEW a \in nodes', a \notin D, upNode'[a] = Null
        PROVE  \E u \in Vert : comp'[u] = u /\ a \in openedArcs'[u]
    <3>1. a \in nodes /\ a \in Vert
      BY <1>4, <1>5, <2>3 DEF TreeTypes
    <3>2. upNode[a] = Null /\ ~\E w \in met : a \in openedArcs[w]
      <4>1. d # Null
        BY <1>3, VertFacts
      <4> QED BY <1>9, <2>3, <3>1, <4>1
    <3>3. PICK u \in Vert : comp[u] = u /\ a \in openedArcs[u]
      BY <1>2, <2>3, <3>1, <3>2 DEF BackboneArcs
    <3>4. u \notin met
      BY <3>2, <3>3
    <3> QED BY <1>9, <3>3, <3>4
  <2>4. ASSUME NEW u \in Vert, comp'[u] = u, openedArcs'[u] # {}
        PROVE  \E e \in rest \ {d} : HomeOf(u, e, rest \ {d})'
    <3>1. u \notin met /\ openedArcs'[u] = openedArcs[u] /\ comp[u] = u
      BY <1>9, <2>4
    <3>2. PICK e \in rest : HomeOf(u, e, rest)
      BY <1>2, <2>4, <3>1 DEF BackboneArcs
    <3>3. e # d
      BY <1>9, <3>1, <3>2 DEF HomeOf, Meets
    <3>4. \A n \in Vert : Belongs(n, u)' <=> Belongs(n, u)
      BY <1>9, <3>1
    <3>5. \A f \in rest : f \in Vert /\ \A n \in Lower(f) : n \in Vert
      BY <1>3, LowerFacts
    <3>6. \A f \in rest : Meets(f, u)' => Meets(f, u)
      BY <1>6, <3>4, <3>5 DEF Meets
    <3>7. \E n \in Lower(e) : Belongs(n, u)'
      BY <3>2, <3>4, <3>5 DEF HomeOf
    <3>8. /\ \A a \in openedArcs'[u] : Up(a, e)
          /\ \A f \in rest \ {d} : Meets(f, u)' => e <= f
      BY <3>1, <3>2, <3>6 DEF HomeOf
    <3>9. HomeOf(u, e, rest \ {d})'
      BY <1>6, <3>7, <3>8 DEF HomeOf
    <3> QED BY <3>3, <3>9
  <2>5. \A u \in Vert : comp'[comp'[u]] = comp'[u]
    <3>1. \A u \in Vert : comp[u] \in Vert /\ comp[comp[u]] = comp[u]
      BY <1>2 DEF BackboneArcs, RestTypes
    <3> QED BY <1>9, <3>1
  <2> QED BY <1>6, <2>1, <2>2, <2>3, <2>4, <2>5 DEF BackboneArcs
<1>11. Backbone(TrunkSet, Beyond, trunkVerts[1])' /\ BackboneArcs(TrunkSet, Beyond)'
  <2>1. trunkVerts'[1] = b
    BY <1>1, <1>3
  <2> QED BY <1>3, <1>8, <1>10, <2>1
<1>12. Ordered'
  BY <1>2, <1>3 DEF Ordered
<1> QED BY <1>4, <1>11, <1>12 DEF TreeInv

(* When all is closed the trunk opens its arcs, each to the next.          *)
LEMMA TrunkArcsTree ==
    ASSUME OpenAbove, phase = "trunk", TreeTypes, RestTypes, mesh \in Meshes, TreeInv, TrunkArcs
    PROVE  TreeInv'
<1> DEFINE D == TrunkSet
           above(v) == {w \in D : w > v}
           next(v) == IF above(v) = {} THEN N ELSE Min(above(v))
<1>1. /\ phase' = "segment" /\ mesh' = mesh /\ trunkVerts' = trunkVerts
      /\ nodes' = nodes \cup {N} /\ vert2tree' = [vert2tree EXCEPT ![N] = IsNode]
      /\ nbUp' = [v \in Vert |-> IF v \in D THEN nbUp[v] + 1 ELSE nbUp[v]]
      /\ upNode' = [v \in Vert |-> IF v \in D THEN next(v) ELSE upNode[v]]
      /\ trunkClosed = Len(trunkVerts)
  BY DEF TrunkArcs, growthVars, trunkVars, TrunkSet
<1>2. Beyond = {}
  <2>1. Len(trunkVerts) \in Nat
    BY DEF RestTypes
  <2>2. (Len(trunkVerts) + 1)..Len(trunkVerts) = {}
    BY <2>1
  <2> QED BY <1>1, <2>2 DEF Beyond
<1>3. Backbone(D, {}, trunkVerts[1]) /\ BackboneArcs(D, {})
  BY <1>2 DEF TreeInv
<1>4. PICK b : b = trunkVerts[1]
  OBVIOUS
<1>5. /\ Piece(N) = Vert /\ N \notin Critical /\ N \in Vert
      /\ Critical \subseteq Vert /\ Ends = Critical \cup {N}
  BY AllBelowTop, EndsFacts DEF Ends
<1>6. /\ nodes = Critical /\ nodes' = Ends /\ D \subseteq nodes /\ D \subseteq Vert /\ N \notin D
      /\ \A d \in D : b <= d /\ b \in Piece(d)
      /\ b \in D
  <2>1. /\ D \subseteq Critical \ {N} /\ b \in D /\ \A d \in D : b <= d /\ b \in Piece(d)
        /\ Critical \subseteq nodes \cup D /\ D \ {} \subseteq nodes /\ nodes \subseteq Critical
    BY <1>3, <1>4 DEF Backbone, BackboneArcs
  <2> HIDE DEF D
  <2>2. D \subseteq nodes /\ nodes = Critical
    BY <2>1
  <2>3. nodes' = Ends /\ D \subseteq Vert /\ N \notin D
    BY <1>1, <1>5, <2>1, <2>2
  <2> QED BY <2>1, <2>2, <2>3
<1>7. \A a \in nodes : a \notin D => Up(a, upNode'[a])
  <2> SUFFICES ASSUME NEW a \in nodes, a \notin D PROVE Up(a, upNode'[a])
    OBVIOUS
  <2>1. a \in Vert /\ upNode'[a] = upNode[a]
    BY <1>1, <1>5, <1>6
  <2>2. upNode[a] # Null
    BY <1>3 DEF BackboneArcs
  <2> QED BY <1>3, <2>1, <2>2 DEF BackboneArcs
<1>8. \A a \in D : Up(a, upNode'[a])
  <2> SUFFICES ASSUME NEW a \in D PROVE Up(a, upNode'[a])
    OBVIOUS
  <2>1. a \in Vert /\ upNode'[a] = next(a) /\ a \in Ends /\ b \in Piece(a) /\ a # N
    BY <1>1, <1>5, <1>6
  <2>2. ASSUME NEW c \in Ends, a < c, a \in Piece(c), c # N PROVE c \in above(a)
    <3>1. c \in nodes /\ c \in Vert
      BY <1>5, <1>6, <2>2
    <3>2. b \in Piece(c)
      BY <2>1, <2>2, <3>1, PieceTrans
    <3>3. c \in D
      BY <1>3, <1>4, <2>2, <3>1, <3>2 DEF Backbone
    <3>4. c > a
      <4>1. c \in Nat /\ a \in Nat
        BY <2>1, <3>1, VertFacts
      <4> QED BY <2>2, <4>1
    <3> QED BY <3>3, <3>4
  <2>3. CASE above(a) = {}
    <3>1. a < N /\ N \in Nat
      <4>1. a \in Nat /\ a <= N /\ N \in Nat
        BY <2>1, NAssumption DEF Vert
      <4> QED BY <2>1, <4>1
    <3>2. \A c \in Ends : a < c /\ a \in Piece(c) => N <= c
      BY <2>2, <2>3, <3>1
    <3> QED BY <1>5, <2>1, <2>3, <3>1, <3>2 DEF Up
  <2>4. CASE above(a) # {}
    <3> DEFINE w == Min(above(a))
    <3>1. w \in above(a) /\ \A x \in above(a) : w <= x
      <4>1. above(a) \in SUBSET Vert
        BY <1>6
      <4> HIDE DEF above
      <4> QED BY <2>4, <4>1, MinFacts
    <3>2. w \in D /\ w \in Vert /\ w \in Ends /\ b \in Piece(w)
      BY <1>5, <1>6, <3>1
    <3>3. a < w /\ a <= w /\ w <= N
      <4>1. w > a /\ w \in Nat /\ a \in Nat /\ w <= N
        BY <2>1, <3>1, <3>2, VertFacts, NAssumption DEF Vert
      <4> QED BY <4>1
    <3>4. a \in Piece(w)
      <4>1. Piece(a) \cap Piece(w) # {}
        BY <2>1, <3>2
      <4> QED BY <2>1, <3>2, <3>3, <4>1, PiecesMeet
    <3>5. \A c \in Ends : a < c /\ a \in Piece(c) => w <= c
      BY <2>2, <3>1, <3>3
    <3> HIDE DEF above, w
    <3>6. upNode'[a] = w
      BY <2>1, <2>4 DEF next, w
    <3> QED BY <3>2, <3>3, <3>4, <3>5, <3>6 DEF Up
  <2> QED BY <2>3, <2>4
<1>9. nbUp' = [v \in Vert |-> IF v \in nodes' \ {N} THEN 1 ELSE 0]
  <2>1. \A v \in Vert : nbUp[v] = IF v \in nodes \ D THEN 1 ELSE 0
    BY <1>3 DEF BackboneArcs
  <2>2. \A v \in Vert : v \in nodes' \ {N} <=> v \in nodes
    BY <1>1, <1>5, <1>6
  <2> QED BY <1>1, <1>6, <2>1, <2>2
<1>10. /\ Critical' = Critical /\ Ends' = Ends
       /\ \A v : Piece(v)' = Piece(v)
       /\ \A x, y : Up(x, y)' <=> Up(x, y)
       /\ \A x, y : Down(x, y)' <=> Down(x, y)
  BY <1>1, SameTree
<1>11. PICK T : T = D
  OBVIOUS
<1>12. Backbone(T, {}, b)'
  <2>1. \A v \in Vert : /\ vert2tree'[v] = IF v = N THEN IsNode ELSE vert2tree[v]
                        /\ IsNode # Null
    BY <1>1, VertFacts DEF TreeTypes
  <2>2. Backbone(T, {}, b)
    BY <1>3, <1>4, <1>11
  <2>3. /\ T \subseteq Critical \ {N} /\ b \in T /\ {} \subseteq T
        /\ \A x \in T : b <= x /\ b \in Piece(x)
        /\ nodes' \subseteq Ends /\ Critical \subseteq nodes' \cup T
        /\ T \ {} \subseteq nodes'
        /\ \A c \in nodes' \ T : b \notin Piece(c) \/ c = N
    BY <1>1, <1>6, <2>2 DEF Backbone
  <2>4. \A v \in Vert : (OnArc(v))' => v \notin Ends /\ Down(v, vert2tree'[v])
    <3>1. \A v \in Vert : (OnArc(v))' => OnArc(v) /\ vert2tree'[v] = vert2tree[v]
      BY <2>1 DEF OnArc
    <3> QED BY <2>2, <3>1 DEF Backbone
  <2>5. \A v \in Vert : vert2tree'[v] = Null /\ v \notin T /\ v # N =>
            \E w \in T : /\ w < v /\ Down(v, w)
                         /\ \A e \in T : e < v => e <= w
    BY <2>1, <2>2 DEF Backbone
  <2>6. NodesMarked'
    <3>1. \A v \in Vert : v \in nodes' <=> vert2tree'[v] = IsNode
      BY <1>1, <2>1, <2>2 DEF Backbone, NodesMarked
    <3> QED BY <3>1 DEF NodesMarked
  <2> QED BY <1>10, <2>3, <2>4, <2>5, <2>6 DEF Backbone
<1>13. Backbone(TrunkSet, {}, trunkVerts[1])'
  <2>1. TrunkSet' = T /\ trunkVerts'[1] = b
    BY <1>1, <1>4, <1>11 DEF TrunkSet
  <2> QED BY <1>12, <2>1
<1>14. (\A a \in nodes \ {N} : Up(a, upNode[a]))'
  <2>1. \A a \in nodes' \ {N} : Up(a, upNode'[a])
    BY <1>1, <1>7, <1>8
  <2> QED BY <1>10, <2>1
<1>15. nodes' = Ends'
  BY <1>6, <1>10
<1> QED BY <1>1, <1>9, <1>13, <1>14, <1>15 DEF TreeInv

(* The vertices no task took go to the arc of the trunk that they are on.  *)
LEMMA TrunkSegmentTree ==
    ASSUME phase = "segment", TreeTypes, RestTypes, mesh \in Meshes, TreeInv, TrunkSegment
    PROVE  TreeInv'
<1> DEFINE D == TrunkSet
           b == trunkVerts[1]
           missing == {v \in b..N : vert2tree[v] = Null}
<1>1. /\ phase' = "done" /\ mesh' = mesh /\ nodes' = nodes /\ nbUp' = nbUp /\ upNode' = upNode
      /\ vert2tree' = [v \in Vert |-> IF v \in missing THEN VertInRange(v) ELSE vert2tree[v]]
  BY DEF TrunkSegment, growthVars
<1>2. /\ Backbone(D, {}, b) /\ nodes = Ends
      /\ nbUp = [v \in Vert |-> IF v \in nodes \ {N} THEN 1 ELSE 0]
      /\ \A a \in nodes \ {N} : Up(a, upNode[a])
  BY DEF TreeInv
<1>3. D \subseteq nodes /\ D \subseteq Vert /\ N \in nodes
  BY <1>2, EndsFacts DEF Backbone, Ends
<1>4. ASSUME NEW v \in Vert, v \notin nodes PROVE Down(v, vert2tree'[v])
  <2>1. CASE OnArc(v)
    <3>1. vert2tree'[v] = vert2tree[v]
      BY <1>1, <2>1 DEF OnArc
    <3> QED BY <1>2, <2>1, <3>1 DEF Backbone
  <2>2. CASE vert2tree[v] = Null
    <3>1. v \notin D /\ v # N
      BY <1>3, <1>4
    <3>2. PICK w \in D : w < v /\ Down(v, w) /\ \A e \in D : e < v => e <= w
      BY <1>2, <2>2, <3>1 DEF Backbone
    <3>3. v \in missing
      <4>1. b <= w /\ b \in D
        BY <1>2 DEF Backbone
      <4>2. b \in Nat /\ w \in Nat /\ v \in Nat /\ v <= N /\ N \in Nat
        <5>1. b \in Vert /\ w \in Vert /\ v \in Vert
          BY <1>3, <1>4, <3>2, <4>1
        <5> HIDE DEF D, b
        <5>2. \A x \in Vert : x \in Nat /\ x <= N
          BY NAssumption DEF Vert
        <5> QED BY <5>1, <5>2, NAssumption
      <4>3. v \in b..N
        BY <3>2, <4>1, <4>2
      <4> QED BY <2>2, <4>3
    <3> DEFINE S == {x \in D : x < v}
    <3>4. VertInRange(v) = Max(S)
      BY DEF VertInRange, TrunkSet
    <3>5. Max(S) \in S /\ \A x \in S : x <= Max(S)
      <4>1. S \in SUBSET Vert /\ S # {}
        BY <1>3, <3>2
      <4> HIDE DEF S
      <4> QED BY <4>1, MaxFacts
    <3>6. Max(S) = w
      <4>1. Max(S) \in D /\ Max(S) < v /\ w <= Max(S)
        BY <3>2, <3>5
      <4>2. Max(S) <= w /\ Max(S) \in Nat /\ w \in Nat
        BY <1>3, <3>2, <4>1, VertFacts
      <4> HIDE DEF S
      <4> QED BY <4>1, <4>2
    <3>7. vert2tree'[v] = w
      BY <1>1, <3>3, <3>4, <3>6
    <3> QED BY <3>2, <3>7
  <2>3. vert2tree[v] # IsNode
    BY <1>2, <1>4 DEF Backbone, NodesMarked
  <2> QED BY <2>1, <2>2, <2>3 DEF OnArc
<1>5. /\ Ends' = Ends
      /\ \A x, y : Up(x, y)' <=> Up(x, y)
      /\ \A x, y : Down(x, y)' <=> Down(x, y)
  BY <1>1, SameTree
<1>6. TreeDone'
  <2>1. \A v \in Vert \ nodes' : Down(v, vert2tree'[v])
    BY <1>1, <1>4
  <2> QED BY <1>1, <1>2, <1>5, <2>1 DEF TreeDone
<1> QED BY <1>1, <1>6 DEF TreeInv

(* The finished tree is the join tree.                                     *)
LEMMA DoneTree ==
    ASSUME mesh \in Meshes, TreeDone
    PROVE  /\ nodes = J!TreeNodes(mesh, N)
           /\ {<<a, upNode[a]>> : a \in nodes \ {N}} = J!TreeArcs(mesh, N)
           /\ \A v \in Vert \ nodes : vert2tree[v] = J!NodeBelow(mesh, N, v)
<1>1. nodes = Ends /\ Ends = J!TreeNodes(mesh, N) /\ Ends \subseteq Vert
  BY EndsFacts DEF TreeDone
<1>2. \A v : J!Component(mesh, v, 1..v) = Piece(v)
  BY SameComponent DEF Piece
<1>3. ASSUME NEW a \in Ends \ {N}
      PROVE  upNode[a] = J!Min({b \in Ends : b > a /\ a \in Piece(b)})
  <2> DEFINE S == {b \in Ends : b > a /\ a \in Piece(b)}
             w == upNode[a]
  <2>1. Up(a, w) /\ a \in Nat /\ \A c \in Ends : c \in Nat
    BY <1>1, VertFacts DEF TreeDone
  <2>2. w \in S /\ \A c \in S : w <= c
    BY <2>1 DEF Up
  <2>3. \A c \in S : c \in Nat
    BY <2>1
  <2> HIDE DEF S, w
  <2>4. \A x \in S : (\A c \in S : x <= c) => x = w
    BY <2>2, <2>3
  <2>5. J!Min(S) = w
    BY <2>2, <2>4 DEF J!Min
  <2> QED BY <2>5 DEF S, w
<1>4. {<<a, upNode[a]>> : a \in nodes \ {N}} = J!TreeArcs(mesh, N)
  <2> DEFINE top(a) == J!Min({b \in Ends : b > a /\ a \in Piece(b)})
  <2>1. J!TreeArcs(mesh, N) = {<<a, top(a)>> : a \in Ends \ {N}}
    BY <1>1, <1>2 DEF J!TreeArcs
  <2>2. \A a \in Ends \ {N} : upNode[a] = top(a)
    BY <1>3
  <2> HIDE DEF top
  <2>3. {<<a, top(a)>> : a \in Ends \ {N}} = {<<a, upNode[a]>> : a \in Ends \ {N}}
    BY <2>2
  <2> QED BY <1>1, <2>1, <2>3
<1>5. ASSUME NEW v \in Vert \ nodes PROVE vert2tree[v] = J!NodeBelow(mesh, N, v)
  <2> DEFINE S == {a \in Ends : a <= v} \cap Piece(v)
             w == vert2tree[v]
  <2>1. Down(v, w) /\ v \in Vert /\ \A c \in Ends : c \in Nat
    BY <1>1, VertFacts DEF TreeDone
  <2>2. w \in S /\ \A c \in S : c <= w
    BY <2>1, PieceFacts DEF Down
  <2>3. \A c \in S : c \in Nat
    BY <2>1
  <2>4. J!NodeBelow(mesh, N, v) = J!Max(S)
    BY <1>1, <1>2 DEF J!NodeBelow
  <2> HIDE DEF S, w
  <2>5. \A x \in S : (\A c \in S : c <= x) => x = w
    BY <2>2, <2>3
  <2>6. J!Max(S) = w
    BY <2>2, <2>5 DEF J!Max
  <2> QED BY <2>4, <2>6 DEF w
<1> QED BY <1>1, <1>4, <1>5
-------------------------------------------------------------------------------
(***************************************************************************)
(* The invariant of the tree, in every step of the program.                *)
(***************************************************************************)
(* A step that changes nothing but the listed states keeps it.             *)
LEMMA TreeStays ==
    ASSUME TreeInv, OnlyStates
    PROVE  TreeInv'
<1>1. /\ mesh' = mesh /\ phase' = phase /\ comp' = comp /\ openedArcs' = openedArcs
      /\ ufs' = ufs /\ openedNodes' = openedNodes /\ vert2tree' = vert2tree
      /\ nodes' = nodes /\ nbUp' = nbUp /\ upNode' = upNode
      /\ trunkVerts' = trunkVerts /\ trunkClosed' = trunkClosed
      /\ pc' = pc /\ startVert' = startVert /\ startUF' = startUF /\ seenFirst' = seenFirst
      /\ cur' = cur /\ isSaddle' = isSaddle /\ isLast' = isLast
  BY DEF OnlyStates, segmVars, treeVars, trunkVars, callVars, visitVars
<1>2. /\ Leaves' = Leaves /\ Forks' = Forks /\ Critical' = Critical /\ Ends' = Ends
      /\ \A v : Piece(v)' = Piece(v) /\ Lower(v)' = Lower(v)
      /\ \A x, y : (Up(x, y)' <=> Up(x, y)) /\ (Down(x, y)' <=> Down(x, y))
  BY <1>1, SameTree
<1>3. /\ Left' = Left
      /\ \A D, rest, b : Backbone(D, rest, b)' <=> Backbone(D, rest, b)
      /\ \A D, rest : BackboneArcs(D, rest)' <=> BackboneArcs(D, rest)
      /\ TreeDone' <=> TreeDone
  BY <1>1, SameBackbone
<1>4. /\ \A n, u : Belongs(n, u)' <=> Belongs(n, u)
      /\ \A u : Members(u)' = Members(u)
      /\ \A a : OpenArc(a)' <=> OpenArc(a)
      /\ \A v : OnArc(v)' <=> OnArc(v)
      /\ \A v : StillOpen(v)' <=> StillOpen(v)
  BY <1>1 DEF Belongs, Members, OpenArc, OnArc, StillOpen
<1>5. \A t : /\ (OnItsArc(t)' <=> OnItsArc(t)) /\ Anchor(t)' = Anchor(t)
             /\ (Parked(t)' <=> Parked(t)) /\ Rep(t)' = Rep(t)
  <2>1. \A t : (OnItsArc(t)' <=> OnItsArc(t)) /\ (Parked(t)' <=> Parked(t))
    BY <1>1 DEF OnItsArc, Parked
  <2>2. \A t : Anchor(t)' = Anchor(t)
    BY <1>1 DEF Anchor
  <2>3. \A t : Rep(t)' = Rep(t)
    BY <1>1 DEF Rep
  <2> QED BY <2>1, <2>2, <2>3
<1>6. \A t : (Absorbed(t)' <=> Absorbed(t))
  BY <1>1, <1>5 DEF Absorbed
<1>7. \A t : TopOf(t)' <=> TopOf(t)
  BY <1>1, <1>4, <1>5 DEF TopOf
<1>8. /\ TrueSaddles' <=> TrueSaddles
      /\ NodesMarked' <=> NodesMarked
      /\ NodesCritical' <=> NodesCritical
  BY <1>1, <1>2 DEF TrueSaddles, NodesMarked, NodesCritical
<1>9. /\ OnArcs' <=> OnArcs
      /\ ClosedArcs' <=> ClosedArcs
      /\ OpenedListed' <=> OpenedListed
  BY <1>1, <1>2, <1>4 DEF OnArcs, ClosedArcs, OpenedListed
<1>10. /\ Passed' <=> Passed
       /\ ArcOnTop' <=> ArcOnTop
       /\ Anchors' <=> Anchors
  BY <1>1, <1>2, <1>4, <1>5, <1>7 DEF Passed, ArcOnTop, Anchors
<1>11. /\ OpenSaddles' <=> OpenSaddles
       /\ AllParked' <=> AllParked
  BY <1>1, <1>2, <1>5, <1>6 DEF OpenSaddles, AllParked
<1>12. Growing' <=> Growing
  BY <1>8, <1>9, <1>10, <1>11 DEF Growing
<1>13. Full' <=> Full
  BY <1>1, <1>2, <1>3, <1>4, <1>6, <1>8 DEF Full
<1>14. End' <=> End
  <2>1. BackboneArcs(Left, Left)' <=> BackboneArcs(Left, Left)
    BY <1>3
  <2>2. \A b : Backbone(Left, Left, b)' <=> Backbone(Left, Left, b)
    BY <1>3
  <2>3. (\E b \in Left : Backbone(Left, Left, b))' <=> \E b \in Left : Backbone(Left, Left, b)
    BY <1>3, <2>2
  <2>4. (\A t \in Leaves : pc[t] = "stopped")' <=> \A t \in Leaves : pc[t] = "stopped"
    BY <1>1, <1>2
  <2> QED BY <2>1, <2>3, <2>4 DEF End
<1>15. /\ Ordered' <=> Ordered
       /\ Beyond' = Beyond /\ TrunkSet' = TrunkSet
       /\ trunkVerts'[1] = trunkVerts[1]
  BY <1>1 DEF Ordered, Beyond, TrunkSet
<1>16. PICK D, R, b : D = TrunkSet /\ R = Beyond /\ b = trunkVerts[1]
  OBVIOUS
<1>17. /\ Backbone(TrunkSet, Beyond, trunkVerts[1])' <=> Backbone(TrunkSet, Beyond, trunkVerts[1])
       /\ Backbone(TrunkSet, {}, trunkVerts[1])' <=> Backbone(TrunkSet, {}, trunkVerts[1])
       /\ BackboneArcs(TrunkSet, Beyond)' <=> BackboneArcs(TrunkSet, Beyond)
  BY <1>3, <1>15, <1>16
<1>18. CASE phase = "growth"
  BY <1>1, <1>8, <1>12, <1>13, <1>14, <1>18 DEF TreeInv
<1>19. CASE phase = "trunk"
  BY <1>1, <1>15, <1>17, <1>19 DEF TreeInv
<1>20. CASE phase = "segment"
  BY <1>1, <1>2, <1>17, <1>20 DEF TreeInv
<1>21. CASE phase = "done"
  BY <1>1, <1>3, <1>21 DEF TreeInv
<1>22. phase \in {"growth", "trunk", "segment", "done"}
  BY DEF TreeInv
<1> QED BY <1>18, <1>19, <1>20, <1>21, <1>22

(* At first the nodes are the leaves, and no arc is open.                  *)
LEMMA InitTree ==
    ASSUME Init PROVE TreeInv
<1>1. /\ mesh \in Meshes /\ phase = "growth" /\ nodes = Leaves /\ openedNodes = {}
      /\ vert2tree = [v \in Vert |-> IF v \in Leaves THEN IsNode ELSE Null]
      /\ nbUp = [v \in Vert |-> 0] /\ upNode = [v \in Vert |-> Null]
      /\ openedArcs = [v \in Vert |-> {}] /\ ufs = [v \in Vert |-> Null]
      /\ pc = [v \in Vert |-> IF v \in Leaves THEN "waiting" ELSE "none"]
      /\ startVert = [v \in Vert |-> v] /\ isSaddle = [v \in Vert |-> FALSE]
  BY DEF Init
<1>2. /\ Leaves \subseteq Vert /\ IsNode # Null
      /\ \A t \in Leaves : pc[t] = "waiting" /\ startVert[t] = t /\ isSaddle[t] = FALSE
      /\ \A v \in Vert : ~OpenArc(v) /\ ~OnArc(v) /\ upNode[v] = Null
      /\ \A u : Members(u) = {}
  <2>1. Leaves \subseteq Vert /\ IsNode # Null
    BY LeavesFacts, NAssumption DEF IsNode, Null
  <2> QED BY <1>1, <2>1 DEF OpenArc, OnArc, Members, Belongs
<1>3. TrueSaddles
  BY <1>2 DEF TrueSaddles
<1>4. NodesMarked /\ NodesCritical
  BY <1>1, <1>2 DEF NodesMarked, NodesCritical, Critical
<1>5. OnArcs /\ ClosedArcs /\ OpenedListed /\ Passed
  BY <1>1, <1>2 DEF OnArcs, ClosedArcs, OpenedListed, Passed
<1>6. ArcOnTop
  BY <1>2 DEF ArcOnTop, TopOf, OnItsArc
<1>7. Anchors
  <2>1. \A a \in Leaves : Anchor(a) = a
    BY <1>2 DEF Anchor
  <2> QED BY <1>1, <1>2, <2>1 DEF Anchors
<1>8. OpenSaddles /\ AllParked
  BY <1>1, <1>2 DEF OpenSaddles, AllParked
<1> QED BY <1>1, <1>3, <1>4, <1>5, <1>6, <1>7, <1>8 DEF TreeInv, Growing

(* A step of a task.                                                       *)
LEMMA TaskTree ==
    ASSUME OpenAbove, phase = "growth", Types, GInv, SInv, CountsOut, TreeTypes, ArcInv,
           TreeInv, GInv', ScanInv', NEW t \in Leaves, TaskStep(t)
    PROVE  TreeInv'
<1>1. TrueSaddles /\ (Growing \/ End \/ Full) /\ t \in Vert
  BY LeavesFacts DEF TreeInv
<1>2. phase' = "growth"
  BY <1>1, TaskPhase
<1>3. TrueSaddles'
  BY <1>1, TrueSaddlesStep
<1>4. CASE Full
  BY <1>1, <1>2, <1>3, <1>4, FullStep DEF TreeInv
<1>5. CASE End
  BY <1>1, <1>5, EndStays
<1>6. CASE Growing
  <2>1. CASE Grows1(t)
    BY <1>1, <1>2, <1>3, <1>6, <2>1, GrowingStep DEF TreeInv
  <2>2. CASE OnlyLeaf(t)
    BY <1>1, <1>2, <1>3, <1>6, <2>2, OnlyLeafEnd DEF TreeInv
  <2>3. CASE CloseRoot(t)
    BY <1>1, <1>2, <1>3, <1>6, <2>3, RootFull DEF TreeInv
  <2>4. CASE Restart(t) /\ activeTasks = 1
    BY <1>1, <1>2, <1>3, <1>6, <2>4, RestartEnd DEF TreeInv
  <2> QED BY <2>1, <2>2, <2>3, <2>4 DEF Grows1
<1> QED BY <1>1, <1>4, <1>5, <1>6

(* Every step of the program.                                              *)
LEMMA TreeStep ==
    ASSUME OpenAbove, IInv, SweepInv, CountInv, TreeInv, IInv', SweepInv', [Next]_vars
    PROVE  TreeInv'
<1>1. CASE UNCHANGED vars
  BY <1>1, StatesOnly, TreeStays
<1>2. CASE phase = "growth" /\ Next
  <2>1. /\ Types /\ GInv /\ SInv /\ CountsOut /\ GrowthTypes /\ TreeTypes /\ ArcInv
        /\ Growing \/ End \/ Full
    BY <1>2 DEF IInv, SweepInv, CountInv, GrowthTypes, TreeInv
  <2>2. ASSUME NEW t \in Vert, TaskStep(t) PROVE TreeInv'
    <3>1. phase' = "growth" /\ t \in Leaves
      BY <1>2, <2>1, <2>2, TaskPhase DEF Types
    <3>2. GInv'
      BY <3>1 DEF IInv
    <3>3. ScanInv'
      BY ScannedNext
    <3> QED BY <1>2, <2>1, <2>2, <3>1, <3>2, <3>3, TaskTree
  <2>3. CASE BeginTrunk
    BY <1>2, <2>1, <2>3, BeginTree
  <2>5. ASSUME NEW t \in Vert, MergeStates(t) PROVE TreeInv'
    BY <2>1, <2>5, StatesOnly, TreeStays
  <2>4. ~TrunkClose /\ ~TrunkArcs /\ ~TrunkSegment /\ ~Built
    BY <1>2 DEF TrunkClose, TrunkCloseUpTo, TrunkArcs, TrunkSegment, Built
  <2> QED BY <1>2, <2>2, <2>3, <2>4, <2>5 DEF Next, Trunk
<1>3. CASE phase # "growth" /\ Next
  <2>1. ~\E t \in Vert : TaskStep(t) \/ MergeStates(t)
    BY <1>3, TaskPhase DEF IInv, MergeStates
  <2>2. ~BeginTrunk /\ (Built => UNCHANGED vars)
    BY <1>3 DEF BeginTrunk, Built
  <2>3. /\ phase \in {"trunk", "segment"} => TreeTypes /\ RestTypes /\ TrunkInv
        /\ mesh \in Meshes
    BY <1>3 DEF CountInv, IInv
  <2>4. CASE TrunkClose
    <3>1. phase = "trunk"
      BY <2>4 DEF TrunkClose, TrunkCloseUpTo
    <3> QED BY <2>3, <2>4, <3>1, TrunkCloseTree
  <2>5. CASE TrunkArcs
    <3>1. phase = "trunk"
      BY <2>5 DEF TrunkArcs
    <3> QED BY <2>3, <2>5, <3>1, TrunkArcsTree
  <2>6. CASE TrunkSegment
    <3>1. phase = "segment"
      BY <2>6 DEF TrunkSegment
    <3> QED BY <2>3, <2>6, <3>1, TrunkSegmentTree
  <2> QED BY <1>1, <1>3, <2>1, <2>2, <2>4, <2>5, <2>6 DEF Next, Trunk
<1> QED BY <1>1, <1>2, <1>3

(* The invariant of the tree holds throughout the program.                 *)
THEOREM TreeInvariant ==
    ASSUME ~Overtake, OpenAbove
    PROVE  Spec => [](IInv /\ SweepInv /\ CountInv /\ TreeInv)
<1>1. Init => TreeInv
  BY InitTree
<1>2. IInv /\ SweepInv /\ CountInv /\ TreeInv /\ IInv' /\ SweepInv' /\ [Next]_vars => TreeInv'
  BY TreeStep
<1> QED BY <1>1, <1>2, CountInvariant, PTL DEF Spec

(* In a mesh in one piece whose greatest vertex is not a saddle, parallel  *)
(* growth and sequential trunk together compute the join tree of the       *)
(* field: its nodes, its arcs and the arc of every regular vertex,         *)
(* whatever the interleaving and wherever the growth happened to leave off *)
(* to the trunk.                                                           *)
THEOREM ComputesJoinTreeAlways ==
    ASSUME ~Overtake, OpenAbove
    PROVE  Spec => []ComputesJoinTree
<1>1. IInv /\ TreeInv => ComputesJoinTree
  <2> SUFFICES ASSUME IInv, TreeInv, phase = "done" PROVE ComputesJoinTree
    BY DEF ComputesJoinTree
  <2>1. mesh \in Meshes /\ TreeDone
    BY DEF IInv, TreeInv
  <2>2. nbUp = [v \in Vert |-> IF v \in nodes \ {N} THEN 1 ELSE 0]
    BY <2>1 DEF TreeDone
  <2>3. /\ nodes = J!TreeNodes(mesh, N)
        /\ {<<a, upNode[a]>> : a \in nodes \ {N}} = J!TreeArcs(mesh, N)
        /\ \A v \in Vert \ nodes : vert2tree[v] = J!NodeBelow(mesh, N, v)
    BY <2>1, DoneTree
  <2> QED BY <2>2, <2>3 DEF ComputesJoinTree
<1> QED BY <1>1, TreeInvariant, PTL
-------------------------------------------------------------------------------
(***************************************************************************)
(* The states a task merges at a saddle.                                   *)
(***************************************************************************)
(* Queue q holds what is above v and next to v or to the component of n    *)
(* below it in mesh m.                                                     *)
Covers(m, q, n, v) ==
    \A x \in Vert : \A y \in J!LowerNeighbors(m, x) :
        x > v /\ (y = v \/ y \in Component(m, n, 1..(v - 1))) => q[x] > 0

(* Two queues stand for two components that meet at v.                     *)
Apart(m, q, r, v) ==
    \E n, k \in J!LowerNeighbors(m, v) :
        /\ Component(m, n, 1..(v - 1)) # Component(m, k, 1..(v - 1))
        /\ Covers(m, q, n, v) /\ Covers(m, r, k, v)

(* Any two states of the sets a task merges do.                            *)
ApartOf(t) ==
    pc[t] \in {"merge", "decide"} =>
        \A u, o \in Holds(t) : \A i \in DOMAIN states[u], j \in DOMAIN states[o] :
            u # o \/ i # j => Apart(mesh, states[u][i], states[o][j], cur[t])

StatesApart == \A t \in Leaves : ApartOf(t)

(* They stay so while the task merges and the states do not change.        *)
LEMMA ApartKept ==
    ASSUME NEW t \in Leaves, ApartOf(t), mesh' = mesh, cur'[t] = cur[t],
           pc'[t] \in {"merge", "decide"} => pc[t] \in {"merge", "decide"},
           pc[t] \in {"merge", "decide"} => Holds(t)' \subseteq Holds(t),
           pc[t] \in {"merge", "decide"} => \A u \in Holds(t) : states'[u] = states[u]
    PROVE  ApartOf(t)'
<1> SUFFICES ASSUME pc'[t] \in {"merge", "decide"},
                    NEW u \in Holds(t)', NEW o \in Holds(t)',
                    NEW i \in DOMAIN states'[u], NEW j \in DOMAIN states'[o],
                    u # o \/ i # j
             PROVE  Apart(mesh', states'[u][i], states'[o][j], cur'[t])
  BY DEF ApartOf
<1>1. u \in Holds(t) /\ o \in Holds(t) /\ states'[u] = states[u] /\ states'[o] = states[o]
  OBVIOUS
<1>2. Apart(mesh, states[u][i], states[o][j], cur[t])
  BY <1>1 DEF ApartOf
<1> QED BY <1>1, <1>2

(* No other task touches the states of a task that merges.                 *)
LEMMA OthersStates ==
    ASSUME Types, GInv, NEW t \in Leaves, TaskStep(t), ~Overtake,
           NEW o \in Leaves, o # t, pc[o] \in {"merge", "decide"}
    PROVE  Holds(o)' \subseteq Holds(o) /\ \A u \in Holds(o) : states'[u] = states[u]
<1>1. /\ pc'[o] = pc[o] /\ cur'[o] = cur[o] /\ startUF'[o] = startUF[o]
      /\ mesh' = mesh /\ ~Absorbed(o) /\ Holds(o) \subseteq Vert /\ t \in Vert
  BY OthersFrame, StepFrame, HoldsInVert, LeavesFacts DEF Absorbed, Parked
<1>2. CASE Start(t) \/ Visit(t) \/ CloseRoot(t)
  <2>1. comp' = comp /\ ufs' = ufs /\ ~Absorbed(t)
    BY <1>2 DEF Start, Visit, CloseRoot, Absorbed, Parked
  <2>2. \A w \in Vert : w # Rep(t) => states'[w] = states[w]
    <3>1. CASE Start(t)
      BY <3>1, StartStates
    <3>2. CASE Visit(t)
      <4>1. pc[t] = "pop"
        BY <3>2 DEF Visit
      <4>2. \E v : v = Min(Ahead(t))
        OBVIOUS
      <4> QED BY <3>2, <4>1, <4>2, AheadFacts, VisitStates
    <3>3. CASE CloseRoot(t)
      <4>1. pc[t] = "pop"
        BY <3>3 DEF CloseRoot
      <4> QED BY <3>3, <4>1, AheadFacts, CloseRootStates
    <3> QED BY <1>2, <3>1, <3>2, <3>3
  <2>3. Rep(t) \notin Holds(o)
    BY <1>1, <2>1, SoleRep
  <2> QED BY <1>1, <2>1, <2>2, <2>3, SameSets
<1>3. CASE OnlyLeaf(t) \/ Launch(t)
  <2>1. /\ comp' = comp /\ states' = states /\ ufs[t] = Null
        /\ ufs' = [ufs EXCEPT ![t] = t]
    BY <1>3 DEF OnlyLeaf, Launch, ufVars, GInv, Arcs, ArcOf
  <2>2. Rep(o)' = Rep(o)
    BY <1>1, <2>1 DEF Rep
  <2>3. CASE pc[o] # "merge"
    BY <1>1, <2>1, <2>2, <2>3 DEF Holds
  <2>4. CASE pc[o] = "merge"
    <3>1. /\ cur[o] \in Vert /\ ufs[cur[o]] # Null
          /\ \A n \in Lower(cur[o]) : n \in Vert /\ ufs[n] # Null
      BY <2>4, HoldsFacts, LowerFacts DEF GInv, AtSaddle, SaddleOf, Types
    <3>2. /\ ufs'[cur[o]] = ufs[cur[o]] /\ Lower(cur[o])' = Lower(cur[o])
          /\ \A n \in Lower(cur[o]) : ufs'[n] = ufs[n]
      <4>1. \A v \in Vert : Lower(v)' = Lower(v)
        BY <1>1, SameMesh
      <4> QED BY <1>1, <2>1, <3>1, <4>1 DEF Types
    <3> QED BY <1>1, <2>1, <2>4, <3>2 DEF Holds, Merged, find
  <2> QED BY <2>3, <2>4
<1>4. CASE Publish(t)
  BY <1>4, PublishKeeps DEF Publish, ufVars
<1>5. ASSUME NEW n \in Vert, MergeNeighbor(t, n), comp[ufs[cur[t]]] # comp[ufs[n]]
      PROVE  Holds(o)' \subseteq Holds(o) /\ \A u \in Holds(o) : states'[u] = states[u]
  <2>1. PICK w \in Vert, l \in Vert : United(t, w, l)
    BY <1>5, UniteKeeps
  <2> QED BY <1>1, <2>1 DEF United
<1>6. CASE comp' = comp /\ ufs' = ufs /\ states' = states
  BY <1>6, SameSets
<1>7. \/ Start(t) \/ Visit(t) \/ CloseRoot(t) \/ OnlyLeaf(t) \/ Launch(t) \/ Publish(t)
      \/ \E n \in Vert : MergeNeighbor(t, n) /\ comp[ufs[cur[t]]] # comp[ufs[n]]
      \/ comp' = comp /\ ufs' = ufs /\ states' = states
  BY DEF TaskStep, Capture, CaptureWith, OpenNode, Retire, MergeNeighbor, CloseArcs,
     Restart, ufVars, find
<1> QED BY <1>2, <1>3, <1>4, <1>5, <1>6, <1>7

(* What a set that meets others at v stands for: its state, a single one,  *)
(* holds what is above the component of a lower neighbour of v.            *)
LEMMA MeetsAt ==
    ASSUME Types, GInv, SInv, NEW p \in Leaves, NEW u, NEW v \in Vert,
           Parked(p) \/ Claims(p), cur[p] = v, u = Rep(p), Sweeping(p),
           Holds(p) = {u}, Top(p) = v
    PROVE  /\ Len(states[u]) <= 1 /\ u \in Vert
           /\ \E n \in Lower(v) :
                 /\ Belongs(n, u) /\ Arm(n, v) \subseteq Members(u)
                 /\ \A i \in DOMAIN states[u] : Covers(mesh, states[u][i], n, v)
<1>1. /\ mesh \in Meshes /\ states \in Listed /\ u \in Vert /\ Len(states[u]) <= 1
      /\ Begun(p) /\ Grown(u, v, TRUE)
  <2>1. Begun(p) /\ pc[p] \notin {"merge", "decide"}
    BY DEF Begun, Parked, Claims
  <2>2. Begun(p) = TRUE /\ Grown(u, v, Begun(p))
    BY <2>1 DEF SInv, SweepOf, Begun
  <2>3. u \in Vert
    BY HoldsInVert
  <2> QED BY <2>1, <2>2, <2>3 DEF Types, GInv, Single, OneState
<1>2. PICK n \in Lower(v) : Belongs(n, u)
  BY HasBelow
<1>3. n \in Vert /\ n < v /\ v - 1 \in Vert /\ v - 1 < v
  <2>1. n \in Vert /\ n < v
    BY <1>1, <1>2, LowerFacts
  <2> QED BY <2>1, NAssumption DEF Vert
<1>4. Arm(n, v) \subseteq Members(u) \ {v}
  <2>1. Closed(mesh, 1..(v - 1), Members(u) \ {v})
    BY <1>3, SetIsClosed
  <2>2. n \in Members(u) \ {v}
    <3>1. n # v
      BY <1>3, VertFacts
    <3> QED BY <1>2, <1>3, <3>1 DEF Members
  <2> QED BY <1>1, <1>2, <2>1, <2>2, ArmFacts
<1>5. ASSUME NEW i \in DOMAIN states[u] PROVE Covers(mesh, states[u][i], n, v)
  <2>1. \A x \in Vert : heap[u][x] > 0 => states[u][i][x] > 0
    BY <1>1, FewStates, HeapFacts
  <2>2. ASSUME NEW x \in Vert, NEW y \in Lower(x), x > v, y = v \/ y \in Arm(n, v)
        PROVE  heap[u][x] > 0
    <3>1. CASE y = v
      BY <1>1, <2>2, <3>1 DEF Grown, Pushed
    <3>2. CASE y # v
      <4>1. Belongs(y, u) /\ y \in Vert
        BY <1>4, <2>2, <3>2 DEF Members
      <4> QED BY <1>1, <2>2, <3>2, <4>1 DEF Grown, Pushed
    <3> QED BY <3>1, <3>2
  <2> QED BY <2>1, <2>2 DEF Covers, Arm, Lower
<1> QED BY <1>1, <1>2, <1>4, <1>5

(* When the last visitor opens the node the sets that meet are apart.      *)
LEMMA MeetApart ==
    ASSUME Types, GInv, SInv, NEW t \in Leaves, OpenNode(t), isLast[t]
    PROVE  ApartOf(t)'
<1>1. /\ t \in Vert /\ cur'[t] = cur[t] /\ states' = states /\ mesh' = mesh /\ pc[t] = "open"
      /\ mesh \in Meshes
  BY LeavesFacts DEF OpenNode, callVars, ufVars, Types
<1>2. Claims(t)
  <2>1. isSaddle[t]
    BY <1>1 DEF OpenNode, Captured, Absorbed, Parked, GInv, Visits, VisitOf
  <2> QED BY <1>1, <2>1 DEF Claims
<1>3. PICK v \in Vert : v = cur[t]
  BY CloseKeeps
<1>4. ASSUME NEW u \in Holds(t)'
      PROVE  /\ Len(states[u]) <= 1 /\ u \in Vert
             /\ \E n \in Lower(v) :
                   /\ Belongs(n, u) /\ Arm(n, v) \subseteq Members(u)
                   /\ \A i \in DOMAIN states[u] : Covers(mesh, states[u][i], n, v)
  <2>1. PICK p \in Leaves : /\ cur[p] = v /\ u = Rep(p) /\ Sweeping(p)
                            /\ Holds(p) = {u} /\ Top(p) = v /\ (p = t \/ Parked(p))
    BY <1>3, CloseKeeps
  <2>2. Parked(p) \/ Claims(p)
    BY <1>2, <2>1
  <2> QED BY <2>1, <2>2, MeetsAt
<1> SUFFICES ASSUME NEW u \in Holds(t)', NEW o \in Holds(t)',
                    NEW i \in DOMAIN states[u], NEW j \in DOMAIN states[o], u # o \/ i # j
             PROVE  Apart(mesh, states[u][i], states[o][j], v)
  BY <1>1, <1>3 DEF ApartOf
<1>5. u # o
  <2>1. states \in Listed /\ u \in Vert /\ o \in Vert
        /\ Len(states[u]) <= 1 /\ Len(states[o]) <= 1
    BY <1>4 DEF Types
  <2>2. i = 1 /\ j = 1
    BY <2>1, FewStates
  <2> QED BY <2>2
<1>6. PICK n \in Lower(v) : /\ Belongs(n, u) /\ Arm(n, v) \subseteq Members(u)
                            /\ \A k \in DOMAIN states[u] : Covers(mesh, states[u][k], n, v)
  BY <1>4
<1>7. PICK m \in Lower(v) : /\ Belongs(m, o) /\ Arm(m, v) \subseteq Members(o)
                            /\ \A k \in DOMAIN states[o] : Covers(mesh, states[o][k], m, v)
  BY <1>4
<1>8. Arm(n, v) # Arm(m, v)
  <2>1. n \in Arm(n, v)
    BY <1>1, ArmFacts
  <2> QED BY <1>5, <1>6, <1>7, <2>1 DEF Members, Belongs
<1> QED BY <1>6, <1>7, <1>8 DEF Apart, Arm, Lower

(* A union keeps them apart: the states are listed one after the other.    *)
LEMMA UniteApart ==
    ASSUME Types, GInv, NEW t \in Leaves, ApartOf(t), NEW n \in Vert,
           MergeNeighbor(t, n), comp[ufs[cur[t]]] # comp[ufs[n]]
    PROVE  ApartOf(t)'
<1>1. pc[t] = "merge" /\ cur' = cur /\ mesh' = mesh
  BY DEF MergeNeighbor, callVars
<1>2. PICK w \in Vert, l \in Vert : United(t, w, l)
  BY UniteKeeps
<1>3. /\ w \in Holds(t) /\ l \in Holds(t) /\ w # l /\ Holds(t)' \subseteq Holds(t) \ {l}
      /\ states'[w] = states[w] \o states[l]
      /\ \A u \in Holds(t) : u # w => states'[u] = states[u]
  BY <1>2 DEF United
<1> DEFINE a == Len(states[w])
           b == Len(states[l])
<1>4. /\ a \in Nat /\ b \in Nat /\ DOMAIN states[w] = 1..a /\ DOMAIN states[l] = 1..b
      /\ DOMAIN states'[w] = 1..(a + b)
      /\ \A i \in 1..(a + b) :
            states'[w][i] = IF i <= a THEN states[w][i] ELSE states[l][i - a]
  <2>1. states[w] \in Seq(Queue) /\ states[l] \in Seq(Queue)
    BY DEF Types, Listed
  <2>2. a \in Nat /\ b \in Nat /\ DOMAIN states[w] = 1..a /\ DOMAIN states[l] = 1..b
    BY <2>1, LenProperties
  <2>3. /\ states[w] \o states[l] \in Seq(Queue)
        /\ Len(states[w] \o states[l]) = a + b
        /\ \A i \in 1..(a + b) : (states[w] \o states[l])[i] =
                                     IF i <= a THEN states[w][i] ELSE states[l][i - a]
    BY <2>1, ConcatProperties
  <2>4. DOMAIN (states[w] \o states[l]) = 1..(a + b)
    BY <2>3, LenProperties
  <2> QED BY <1>3, <2>2, <2>3, <2>4
<1> HIDE DEF a, b
\* where state i of set u was listed before
<1> DEFINE Late(u, i) == u = w /\ ~(i <= a)
           Of(u, i) == IF Late(u, i) THEN l ELSE u
           At(u, i) == IF Late(u, i) THEN i - a ELSE i
<1>5. ASSUME NEW u \in Holds(t)', NEW i \in DOMAIN states'[u]
      PROVE  /\ Of(u, i) \in Holds(t) /\ At(u, i) \in DOMAIN states[Of(u, i)]
             /\ states'[u][i] = states[Of(u, i)][At(u, i)]
  <2>1. u \in Holds(t) /\ u # l
    BY <1>3
  <2>2. CASE u # w
    BY <1>3, <2>1, <2>2
  <2>3. CASE u = w
    <3>1. i \in 1..(a + b) /\ states'[u][i] = IF i <= a THEN states[w][i] ELSE states[l][i - a]
      BY <1>4, <2>3
    <3>2. CASE i <= a
      <4>1. i \in 1..a
        BY <1>4, <3>1, <3>2
      <4> QED BY <1>3, <1>4, <2>3, <3>1, <3>2, <4>1
    <3>3. CASE ~(i <= a)
      <4>1. i - a \in 1..b
        BY <1>4, <3>1, <3>3
      <4> QED BY <1>3, <1>4, <2>3, <3>1, <3>3, <4>1
    <3> QED BY <3>2, <3>3
  <2> QED BY <2>2, <2>3
<1>6. ASSUME NEW u \in Holds(t)', NEW o \in Holds(t)',
             NEW i \in DOMAIN states'[u], NEW j \in DOMAIN states'[o], u # o \/ i # j
      PROVE  Of(u, i) # Of(o, j) \/ At(u, i) # At(o, j)
  <2>1. u # l /\ o # l
    BY <1>3
  <2>2. CASE u = w /\ o = w
    <3>1. i \in 1..(a + b) /\ j \in 1..(a + b) /\ i # j
      BY <1>4, <1>6, <2>2
    <3>2. Late(u, i) /\ Late(o, j) => i - a # j - a
      BY <1>4, <3>1
    <3> QED BY <1>3, <2>2, <3>1, <3>2
  <2>3. CASE u # w \/ o # w
    BY <1>3, <1>6, <2>1, <2>3
  <2> QED BY <2>2, <2>3
<1> HIDE DEF Of, At
<1> SUFFICES ASSUME NEW u \in Holds(t)', NEW o \in Holds(t)',
                    NEW i \in DOMAIN states'[u], NEW j \in DOMAIN states'[o], u # o \/ i # j
             PROVE  Apart(mesh, states'[u][i], states'[o][j], cur[t])
  BY <1>1 DEF ApartOf
<1>7. /\ Of(u, i) \in Holds(t) /\ At(u, i) \in DOMAIN states[Of(u, i)]
      /\ states'[u][i] = states[Of(u, i)][At(u, i)]
  BY <1>5
<1>8. /\ Of(o, j) \in Holds(t) /\ At(o, j) \in DOMAIN states[Of(o, j)]
      /\ states'[o][j] = states[Of(o, j)][At(o, j)]
  BY <1>5
<1>9. Of(u, i) # Of(o, j) \/ At(u, i) # At(o, j)
  BY <1>6
<1>10. Apart(mesh, states[Of(u, i)][At(u, i)], states[Of(o, j)][At(o, j)], cur[t])
  BY <1>1, <1>7, <1>8, <1>9 DEF ApartOf
<1> QED BY <1>7, <1>8, <1>10

(* A queue that takes in another holds at least what it held.              *)
LEMMA SumCovers ==
    ASSUME NEW g \in Queue, NEW h \in Queue, NEW m, NEW n, NEW v, Covers(m, g, n, v)
    PROVE  Covers(m, Sum(g, h), n, v)
  BY SumFacts DEF Covers

(* So does a turn of mergeStates: the states that are left stay apart.     *)
LEMMA MergeApart ==
    ASSUME Types, GInv, NEW t \in Leaves, MergeStates(t), ApartOf(t)
    PROVE  ApartOf(t)'
<1>0. t \in Vert
  BY LeavesFacts
<1> DEFINE u == Rep(t)
           s == states[u]
           r == states'[u]
           a == Len(s)
<1>1. /\ pc[t] = "decide" /\ pc' = pc /\ cur' = cur /\ mesh' = mesh /\ u \in Vert
      /\ comp' = comp /\ startUF' = startUF
  BY <1>0, MergeStatesFrame DEF callVars
<1>2. /\ a \in Nat /\ a > 1 /\ Len(r) = a - 1 /\ r[1] = Sum(s[1], s[2])
      /\ \A i \in 2..(a - 1) : r[i] = s[i + 1]
      /\ states' \in Listed
  BY <1>0, MergeStatesFrame
<1>3. /\ s \in Seq(Queue) /\ r \in Seq(Queue) /\ DOMAIN s = 1..a /\ DOMAIN r = 1..(a - 1)
  <2>1. s \in Seq(Queue) /\ r \in Seq(Queue)
    BY <1>1, <1>2 DEF Types, Listed
  <2>2. DOMAIN r = 1..Len(r) /\ DOMAIN s = 1..a
    BY <2>1, LenProperties
  <2>3. DOMAIN r = 1..(a - 1)
    BY <1>2, <2>2
  <2> QED BY <2>1, <2>2, <2>3
<1>4. \A i \in 1..a : s[i] \in Queue
  BY <1>3, ElementOfSeq
<1>5. Holds(t) = {u} /\ Holds(t)' = {u}
  BY <1>1 DEF Holds, Rep
<1> HIDE DEF u, s, r, a
<1>6. \A i, j \in 1..a : i # j => Apart(mesh, s[i], s[j], cur[t])
  BY <1>1, <1>3, <1>5 DEF ApartOf, s
\* state i takes in the queue of the state that was listed as number At(i)
<1> DEFINE At(i) == IF i = 1 THEN 1 ELSE i + 1
<1>7. ASSUME NEW i \in 1..(a - 1)
      PROVE  /\ At(i) \in 1..a /\ s[At(i)] \in Queue
             /\ \A n : Covers(mesh, s[At(i)], n, cur[t]) => Covers(mesh, r[i], n, cur[t])
  <2>1. At(i) \in 1..a
    BY <1>2
  <2>2. CASE i = 1
    <3>1. At(i) = 1 /\ 1 \in 1..a /\ 2 \in 1..a
      BY <1>2, <2>2
    <3>2. s[1] \in Queue /\ s[2] \in Queue /\ r[i] = Sum(s[1], s[2])
      BY <1>2, <1>4, <2>2, <3>1
    <3>3. \A n : Covers(mesh, s[1], n, cur[t]) => Covers(mesh, Sum(s[1], s[2]), n, cur[t])
      BY <3>2, SumCovers
    <3> QED BY <2>1, <3>1, <3>2, <3>3
  <2>3. CASE i # 1
    <3>1. i \in 2..(a - 1)
      BY <1>2, <2>3
    <3>2. r[i] = s[At(i)]
      BY <1>2, <2>3, <3>1
    <3> QED BY <1>4, <2>1, <3>2
  <2> QED BY <2>2, <2>3
<1>8. \A i, j \in 1..(a - 1) : i # j => At(i) # At(j)
  BY <1>2
<1> HIDE DEF At
<1>9. ASSUME NEW i \in 1..(a - 1), NEW j \in 1..(a - 1), i # j
      PROVE  Apart(mesh, r[i], r[j], cur[t])
  <2>1. Apart(mesh, s[At(i)], s[At(j)], cur[t])
    BY <1>6, <1>7, <1>8, <1>9
  <2>2. PICK n, k \in J!LowerNeighbors(mesh, cur[t]) :
           /\ Component(mesh, n, 1..(cur[t] - 1)) # Component(mesh, k, 1..(cur[t] - 1))
           /\ Covers(mesh, s[At(i)], n, cur[t]) /\ Covers(mesh, s[At(j)], k, cur[t])
    BY <2>1 DEF Apart
  <2>3. Covers(mesh, r[i], n, cur[t]) /\ Covers(mesh, r[j], k, cur[t])
    BY <1>7, <2>2
  <2> QED BY <2>2, <2>3 DEF Apart
<1>10. ASSUME NEW i \in DOMAIN states'[u], NEW j \in DOMAIN states'[u], i # j
       PROVE  Apart(mesh, states'[u][i], states'[u][j], cur[t])
  BY <1>3, <1>9, <1>10 DEF r
<1> QED BY <1>1, <1>5, <1>10 DEF ApartOf

(* Every step of a task keeps the states of every task apart.              *)
LEMMA TaskApart ==
    ASSUME Types, GInv, SInv, NEW t \in Leaves, TaskStep(t), ~Overtake, StatesApart
    PROVE  StatesApart'
<1>1. Leaves' = Leaves /\ t \in Vert /\ mesh' = mesh
  BY StepFrame, LeavesFacts
<1> SUFFICES ASSUME NEW o \in Leaves PROVE ApartOf(o)'
  BY <1>1 DEF StatesApart
<1>2. ApartOf(o)
  BY DEF StatesApart
<1>3. CASE o # t
  BY <1>1, <1>2, <1>3, OthersFrame, OthersStates, ApartKept
<1>4. CASE o = t /\ OpenNode(t) /\ isLast[t]
  BY <1>4, MeetApart
<1>5. ASSUME o = t, NEW n \in Vert, MergeNeighbor(t, n) PROVE ApartOf(o)'
  <2>1. CASE comp[ufs[cur[t]]] # comp[ufs[n]]
    BY <1>2, <1>5, <2>1, UniteApart
  <2>2. CASE comp[ufs[cur[t]]] = comp[ufs[n]]
    <3>1. /\ comp' = comp /\ ufs' = ufs /\ states' = states /\ cur' = cur /\ pc' = pc
          /\ pc[t] = "merge"
      BY <1>5, <2>2 DEF MergeNeighbor, find, ufVars, callVars
    <3>2. cur[t] \in Vert /\ \A v \in Vert : Lower(v)' = Lower(v)
      BY <1>1, <3>1, HoldsFacts, SameMesh
    <3>3. Holds(t)' = Holds(t)
      <4>1. Merged(t)' = Merged(t)
        BY <3>1, <3>2 DEF Merged, find
      <4> QED BY <3>1, <4>1 DEF Holds
    <3> QED BY <1>1, <1>2, <1>5, <3>1, <3>3, ApartKept
  <2> QED BY <2>1, <2>2
<1>6. CASE o = t /\ CloseArcs(t)
  <2>1. /\ comp' = comp /\ startUF' = startUF /\ states' = states /\ cur' = cur
        /\ pc[t] = "merge" /\ pc'[t] = "decide"
    BY <1>1, <1>6 DEF CloseArcs, Goto, callVars, Types
  <2>2. Holds(t)' \subseteq Holds(t)
    BY <2>1, HoldsFacts DEF Holds, Rep
  <2> QED BY <1>1, <1>2, <1>6, <2>1, <2>2, ApartKept
<1>7. CASE /\ o = t /\ ~(OpenNode(t) /\ isLast[t]) /\ ~CloseArcs(t)
           /\ ~\E n \in Vert : MergeNeighbor(t, n)
  <2>1. pc'[t] \notin {"merge", "decide"}
    <3>1. OpenNode(t) => pc'[t] = "retire"
      BY <1>1, <1>7 DEF OpenNode, Goto, Types
    <3>2. Publish(t) => pc'[t] \in {"open", "pop"}
      BY <1>1 DEF Publish, Goto, Types
    <3>3. Restart(t) => pc'[t] \in {"stopped", "start"}
      BY <1>1 DEF Restart, Goto, Types
    <3>4. OnlyLeaf(t) \/ Launch(t) \/ Start(t) => pc'[t] \in {"stopped", "start", "pop"}
      BY <1>1 DEF OnlyLeaf, Launch, Start, Goto, Types
    <3>5. Visit(t) \/ Capture(t) \/ Retire(t) \/ CloseRoot(t) =>
              pc'[t] \in {"capture", "publish", "stopped"}
      BY <1>1 DEF Visit, Capture, CaptureWith, Retire, CloseRoot, Goto, Types
    <3> QED BY <1>7, <3>1, <3>2, <3>3, <3>4, <3>5 DEF TaskStep
  <2> QED BY <1>7, <2>1 DEF ApartOf
<1> QED BY <1>3, <1>4, <1>5, <1>6, <1>7

(* The strengthening of MergedQueueNotEmpty.                               *)
ApartInv == phase = "growth" => StatesApart

(* So they are apart throughout the growth.                                *)
LEMMA ApartStep ==
    ASSUME IInv, SweepInv, ApartInv, [Next]_vars, ~Overtake
    PROVE  ApartInv'
<1> SUFFICES ASSUME phase' = "growth" PROVE StatesApart'
  BY DEF ApartInv
<1>1. phase = "growth" /\ Types /\ GInv /\ SInv /\ StatesApart
  BY GrowthSteps DEF SweepInv, ApartInv
<1>2. CASE UNCHANGED vars
  <2>1. /\ mesh' = mesh /\ comp' = comp /\ ufs' = ufs /\ states' = states /\ cur' = cur
        /\ pc' = pc /\ startUF' = startUF
    BY <1>2 DEF vars, ufVars, callVars
  <2>2. \A o \in Leaves : ApartOf(o)'
    <3> SUFFICES ASSUME NEW o \in Leaves PROVE ApartOf(o)'
      OBVIOUS
    <3>1. Rep(o)' = Rep(o) /\ Merged(o)' = Merged(o)
      BY <2>1 DEF Rep, Merged, find, Lower
    <3>2. Holds(o)' = Holds(o)
      BY <2>1, <3>1 DEF Holds
    <3> QED BY <1>1, <2>1, <3>2, ApartKept DEF StatesApart
  <2> QED BY <2>1, <2>2, SameMesh DEF StatesApart
<1>3. ASSUME NEW t \in Vert, TaskStep(t) PROVE StatesApart'
  <2>1. t \in Leaves
    BY <1>1, <1>3, TaskPhase DEF Types
  <2> QED BY <1>1, <1>3, <2>1, TaskApart
<1>4. ASSUME NEW t \in Vert, MergeStates(t) PROVE StatesApart'
  <2>1. /\ t \in Leaves /\ pc[t] = "decide" /\ mesh' = mesh /\ comp' = comp /\ ufs' = ufs
        /\ cur' = cur /\ pc' = pc /\ startUF' = startUF
        /\ \A w \in Vert : w # Rep(t) => states'[w] = states[w]
    BY <1>1, <1>4, MergeStatesFrame DEF callVars
  <2>2. ASSUME NEW o \in Leaves PROVE ApartOf(o)'
    <3>1. CASE o = t
      BY <1>1, <1>4, <2>1, <3>1, MergeApart DEF StatesApart
    <3>2. CASE o # t
      <4>1. Rep(o)' = Rep(o) /\ Merged(o)' = Merged(o)
        BY <2>1 DEF Rep, Merged, find, Lower
      <4>2. Holds(o)' = Holds(o) /\ Holds(o) \subseteq Vert
        BY <1>1, <2>1, <4>1, HoldsInVert DEF Holds
      <4>3. pc[o] \in {"merge", "decide"} => \A u \in Holds(o) : states'[u] = states[u]
        <5>1. ~Absorbed(t) /\ (pc[o] \in {"merge", "decide"} => ~Absorbed(o))
          BY <2>1 DEF Absorbed, Parked
        <5>2. pc[o] \in {"merge", "decide"} => Rep(t) \notin Holds(o)
          BY <1>1, <2>1, <3>2, <5>1, SoleRep
        <5> QED BY <2>1, <4>2, <5>2
      <4> QED BY <1>1, <2>1, <4>2, <4>3, ApartKept DEF StatesApart
    <3> QED BY <3>1, <3>2
  <2> QED BY <2>1, <2>2, SameMesh DEF StatesApart
<1>5. (\E t \in Vert : TaskStep(t) \/ MergeStates(t)) \/ UNCHANGED vars
  BY <1>1 DEF Next, Trunk, BeginTrunk, TrunkClose, TrunkCloseUpTo, TrunkArcs,
     TrunkSegment, Built
<1> QED BY <1>2, <1>3, <1>4, <1>5

(* Whatever the order of the unions, the queue whose top mergeStates reads *)
(* is not empty, on the meshes on which one at least of any two components *)
(* that meet goes on above the saddle.                                     *)
THEOREM MergedQueueNotEmptyAlways ==
    ASSUME ~Overtake, PairsGoOn
    PROVE  Spec => []MergedQueueNotEmpty
<1>1. Init => ApartInv
  <2> SUFFICES ASSUME Init PROVE StatesApart
    BY DEF ApartInv
  <2>1. \A t \in Leaves : t \in Vert /\ pc[t] = "waiting"
    BY LeavesFacts, InitGrowth DEF Init
  <2> QED BY <2>1 DEF StatesApart, ApartOf
<1>2. IInv /\ SweepInv /\ ApartInv /\ [Next]_vars => ApartInv'
  BY ApartStep
<1>3. IInv /\ ApartInv => MergedQueueNotEmpty
  <2> SUFFICES ASSUME IInv, ApartInv, NEW t \in Leaves, pc[t] = "decide", ToMerge(t)
               PROVE  LET s == states[find(ufs[cur[t]])] IN Sum(s[1], s[2]) # NoVertex
    BY DEF MergedQueueNotEmpty
  <2>1. t \in Vert
    BY DEF Leaves, J!Minima, Vert
  <2>2. phase = "growth" /\ Types /\ GInv /\ ApartOf(t) /\ mesh \in Meshes
    <3>1. phase = "growth"
      BY <2>1 DEF IInv
    <3> QED BY <3>1 DEF IInv, ApartInv, StatesApart, Types
  <2>3. PICK v \in Vert : v = cur[t]
    BY <2>2 DEF GInv, AtSaddle, SaddleOf
  <2>4. PICK u \in Vert : u = Rep(t) /\ find(ufs[v]) = u
    BY <2>1, <2>2, <2>3 DEF GInv, AtSaddle, SaddleOf, Belongs, find, Types, Rep
  <2> DEFINE s == states[u]
             a == Len(s)
  <2>5. /\ a \in Nat /\ a > 1 /\ DOMAIN s = 1..a /\ s \in Seq(Queue)
    BY <2>2, <2>3, <2>4, LenProperties DEF ToMerge, Types, Listed
  <2>6. s[1] \in Queue /\ s[2] \in Queue /\ 1 \in DOMAIN s /\ 2 \in DOMAIN s
    <3>1. 1 \in 1..a /\ 2 \in 1..a
      <4> HIDE DEF a
      <4> QED BY <2>5
    <3> QED BY <2>5, <3>1, ElementOfSeq
  <2> HIDE DEF a
  <2>7. Apart(mesh, s[1], s[2], v)
    <3>1. u \in Holds(t) /\ 1 # 2
      BY <2>4 DEF Holds
    <3> QED BY <2>2, <2>3, <2>6, <3>1 DEF ApartOf
  <2> HIDE DEF s
  <2>8. PICK n \in J!LowerNeighbors(mesh, v), k \in J!LowerNeighbors(mesh, v) :
           /\ Component(mesh, n, 1..(v - 1)) # Component(mesh, k, 1..(v - 1))
           /\ Covers(mesh, s[1], n, v) /\ Covers(mesh, s[2], k, v)
    BY <2>7 DEF Apart
  <2> DEFINE C == Component(mesh, n, 1..(v - 1))
             D == Component(mesh, k, 1..(v - 1))
  <2>9. C \in J!LowerComponents(mesh, v) /\ D \in J!LowerComponents(mesh, v)
    BY SameComponent DEF J!LowerComponents
  <2>10. PICK y \in C \cup D \cup {v} : \E x \in J!UpperNeighbors(mesh, y) : x > v
    BY <2>2, <2>8, <2>9 DEF PairsGoOn
  <2>11. PICK x \in J!UpperNeighbors(mesh, y) : x > v
    BY <2>10
  <2>12. x \in Vert /\ y \in J!LowerNeighbors(mesh, x)
    <3>1. y \in Vert
      BY <2>2, <2>8, <2>10, ArmFacts DEF Arm, Lower
    <3> QED BY <2>2, <2>11, <3>1, LowerFacts DEF Lower, Upper
  <2>13. s[1][x] > 0 \/ s[2][x] > 0
    BY <2>8, <2>10, <2>11, <2>12 DEF Covers
  <2>14. Sum(s[1], s[2])[x] > 0
    BY <2>6, <2>12, <2>13, SumFacts
  <2>15. NoVertex[x] = 0
    BY <2>12 DEF NoVertex
  <2> QED BY <2>3, <2>4, <2>14, <2>15 DEF s
<1> QED BY <1>1, <1>2, <1>3, SweepInvariant, PTL DEF Spec
===============================================================================
