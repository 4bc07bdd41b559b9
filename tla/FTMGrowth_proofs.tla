--------------------------- MODULE FTMGrowth_proofs ---------------------------
(***************************************************************************)
(* Proofs about the growth of FTMGrowth, for any number of vertices, any   *)
(* meshes and any interleaving of the tasks, in builds in which the last   *)
(* visitor of a saddle is not overtaken (~Overtake): the inductive         *)
(* invariant; the refinement of LastVisitor, step by step; that a task     *)
(* sweeps a component of the sublevel sets; and that the last task that is *)
(* counted as active is really alone.                                      *)
(***************************************************************************)
EXTENDS FTMGrowth, JoinTree_proofs, FiniteSetTheorems, SequenceTheorems,
        WellFoundedInduction, TLAPS

(***************************************************************************)
(* Vocabulary.                                                             *)
(***************************************************************************)
(* t is at a saddle, or leaves it, that others have still to reach.        *)
Parked(t) == /\ pc[t] \in {"publish", "open", "retire", "stopped"}
             /\ isSaddle[t] /\ ~isLast[t]

(* t is the last at a saddle and has not begun to merge there.             *)
Claims(t) == pc[t] \in {"publish", "open"} /\ isSaddle[t] /\ isLast[t]

(* The saddle t stopped at is closed: its set is, or is being, merged.     *)
Absorbed(t) == Parked(t) /\ vert2tree[cur[t]] # Null

(* The share of t is taken off the valence of its vertex, which is open.   *)
Captured(t) == pc[t] \in {"publish", "open"} \/ Parked(t)

(* t has a set that is being grown, or waits at a saddle to be merged.     *)
Sweeping(t) == ~Absorbed(t) /\ (pc[t] # "stopped" \/ Parked(t))

Rep(t) == comp[startUF[t]]
Belongs(n, u) == ufs[n] # Null /\ comp[ufs[n]] = u

(* The sets t works on.                                                    *)
Holds(t) == IF pc[t] = "merge" THEN Merged(t) ELSE {Rep(t)}

(* The greatest vertex of the set of t.                                    *)
Top(t) == IF \/ pc[t] \in {"waiting", "start"}
             \/ pc[t] = "pop" /\ ~seenFirst[t]
          THEN startVert[t] ELSE cur[t]

(* The neighbours below its vertex that belong to t.                       *)
Own(t) == {n \in Lower(cur[t]) : Belongs(n, Rep(t))}

(* The neighbours below v whose share is taken off the valence of v.       *)
Accounted(v) ==
    {n \in Lower(v) : \E t \in Leaves :
        cur[t] = v /\ Captured(t) /\ Belongs(n, Rep(t))}

(* What the states of a set have queued, in whichever of them.             *)
Queue == [Vert -> Nat]
Listed == [Vert -> Seq(Queue)]
heap == [u \in Vert |-> [x \in Vert |->
            IF \E i \in DOMAIN states[u] : states[u][i][x] > 0 THEN 1 ELSE 0]]

(***************************************************************************)
(* The inductive invariant of the growth.                                  *)
(***************************************************************************)
Types ==
    /\ mesh \in Meshes
    /\ comp \in [Vert -> Vert]
    /\ states \in Listed
    /\ ufs \in [Vert -> Vert \cup {Null}]
    /\ valences \in [Vert -> Int]
    /\ vert2tree \in [Vert -> Vert \cup {Null, IsNode}]
    /\ lastVisited \in [Vert -> Vert \cup {Null}]
    /\ pc \in [Vert -> {"none", "waiting", "start", "pop", "capture", "publish",
                       "open", "retire", "merge", "decide", "stopped"}]
    /\ startVert \in [Vert -> Vert] /\ startUF \in [Vert -> Vert]
    /\ seenFirst \in [Vert -> BOOLEAN]
    /\ cur \in [Vert -> Vert \cup {Null}]
    /\ isSaddle \in [Vert -> BOOLEAN] /\ isLast \in [Vert -> BOOLEAN]
    /\ decr \in [Vert -> Nat]
    /\ todo \in [Vert -> SUBSET Vert]
    /\ \A v \in Vert \ Leaves : pc[v] = "none"

Representatives ==
    /\ \A u \in Vert : comp[comp[u]] = comp[u]
    /\ \A t \in Leaves :
          pc[t] \in {"pop", "capture"} \/ (pc[t] = "publish" /\ ~isSaddle[t]) =>
              Rep(t) = startUF[t]

(* No set is worked on by two tasks.                                       *)
Exclusive ==
    \A t, o \in Leaves :
        t # o /\ ~Absorbed(t) /\ ~Absorbed(o) => Holds(t) \cap Holds(o) = {}

(* A task has one state at most, but when it merges those of others.       *)
OneState(t) ==
    Sweeping(t) /\ pc[t] \notin {"merge", "decide"} => Len(states[Rep(t)]) <= 1

(* A set lies below the vertex its task has come to,                       *)
SweptOf(t) ==
    Sweeping(t) =>
        \A u \in Holds(t) : \A x \in Vert : Belongs(x, u) => x <= Top(t)

(* and its queue above: what is queued has a neighbour in the set.         *)
QueueOf(t) ==
    Sweeping(t) =>
        \A u \in Holds(t) : \A x \in Vert : heap[u][x] > 0 =>
            /\ x >= Top(t)
            /\ x = Top(t) \/ \E n \in Lower(x) : Belongs(n, u) \/ n = Top(t)

(* Where the arcs start, and how far the task of an arc has come.          *)
ArcOf(t) ==
    /\ vert2tree[startVert[t]] = IsNode
    /\ pc[t] = "waiting" =>
          startVert[t] = t /\ startUF[t] = t /\ ufs[t] = Null /\ ~isSaddle[t]
    /\ pc[t] \in {"waiting", "start"} => cur[t] \in {Null, startVert[t]}
    /\ pc[t] # "waiting" /\ Sweeping(t) => Belongs(startVert[t], Rep(t))
    /\ pc[t] = "pop" =>
          /\ Belongs(Top(t), Rep(t))
          /\ seenFirst[t] => /\ cur[t] \in Vert
                             /\ cur[t] = startVert[t] \/ OnArc(cur[t])
                             /\ lastVisited[startVert[t]] = cur[t]
                             /\ ~isSaddle[t]
          /\ ~seenFirst[t] => /\ heap[startUF[t]][startVert[t]] > 0
                              /\ cur[t] \in {Null, startVert[t]}

(* A vertex on an arc, and a node, is in the set of all its lower          *)
(* neighbours, unless they are still to be merged.                         *)
LowerClosed ==
    \A v \in Vert : vert2tree[v] # Null =>
        \A n \in Lower(v) :
            /\ ufs[n] # Null /\ ufs[v] # Null
            /\ \/ comp[ufs[n]] = comp[ufs[v]]
               \/ \E t \in Leaves : pc[t] = "merge" /\ cur[t] = v /\ n \in todo[t]

(* A vertex that has a set and no arc is a saddle that tasks stopped at.   *)
Published ==
    \A v \in Vert : vert2tree[v] = Null /\ ufs[v] # Null =>
        \E p \in Leaves : /\ cur[p] = v /\ Belongs(v, Rep(p))
                          /\ Parked(p) \/ Claims(p)
                          /\ pc[p] # "publish"

(* Between the scan of a vertex and the step that settles it.              *)
VisitOf(t) ==
    (pc[t] = "capture" \/ Captured(t)) /\ ~Absorbed(t) =>
        /\ cur[t] \in Vert /\ startVert[t] <= cur[t]
        /\ pc[t] \in {"capture", "publish"} => seenFirst[t]
        /\ decr[t] = Cardinality(Own(t))
        /\ isSaddle[t] <=> Own(t) # Lower(cur[t])
        /\ IF cur[t] = startVert[t] THEN ~isSaddle[t]
           ELSE Own(t) # {} /\ vert2tree[cur[t]] = Null
        /\ Captured(t) /\ pc[t] # "publish" =>
              ufs[cur[t]] # Null /\ isSaddle[t]

(* At a saddle.                                                            *)
SaddleOf(t) ==
    /\ Parked(t) \/ Claims(t) \/ pc[t] = "merge" =>
          /\ cur[t] \in Vert /\ startVert[t] < cur[t]
          /\ \E n \in Lower(cur[t]) : Belongs(n, Rep(t))
    /\ pc[t] = "retire" => Parked(t)
    /\ pc[t] \in {"merge", "decide"} =>
          /\ cur[t] \in Vert /\ isSaddle[t] /\ isLast[t]
          /\ vert2tree[cur[t]] = IsNode /\ ufs[cur[t]] # Null
    /\ pc[t] = "merge" =>
          /\ todo[t] \subseteq Lower(cur[t])
          /\ \A n \in Lower(cur[t]) \ todo[t] :
                comp[ufs[n]] = comp[ufs[cur[t]]]
    /\ pc[t] = "decide" => Belongs(cur[t], Rep(t))

(* The valence of an open vertex counts the neighbours that are missing,   *)
(* and is zero once its last visitor, a single one, has come.              *)
Counts ==
    /\ \A v \in Vert : vert2tree[v] = Null =>
          valences[v] + Cardinality(Accounted(v)) = Cardinality(Lower(v))
    /\ \A t \in Leaves : Claims(t) => valences[cur[t]] = 0
    /\ \A t, o \in Leaves : Claims(t) /\ Claims(o) /\ cur[t] = cur[o] => t = o

Single == \A t \in Leaves : OneState(t)
Swept == \A t \in Leaves : SweptOf(t)
Queues == \A t \in Leaves : QueueOf(t)
Arcs == \A t \in Leaves : ArcOf(t)
Visits == \A t \in Leaves : VisitOf(t)
AtSaddle == \A t \in Leaves : SaddleOf(t)

GInv == /\ Representatives /\ Exclusive /\ Single /\ Swept /\ Queues
        /\ Arcs /\ LowerClosed /\ Published /\ Visits /\ AtSaddle /\ Counts

IInv == IF phase = "growth" THEN Types /\ GInv
        ELSE mesh \in Meshes /\ \A v \in Vert : pc[v] \in {"none", "stopped"}
-------------------------------------------------------------------------------
(***************************************************************************)
(* Vertices, meshes and minima.                                            *)
(***************************************************************************)
(* The vertices are finitely many numbers; no vertex is Null or a node     *)
(* mark.                                                                   *)
LEMMA VertFacts ==
    /\ Vert \subseteq Nat /\ Null \notin Vert /\ IsNode \notin Vert
    /\ IsNode # Null /\ IsFiniteSet(Vert)
<1>1. N \in Nat /\ N >= 2
  BY NAssumption
<1>2. IsFiniteSet(Vert)
  BY <1>1, FS_Interval DEF Vert
<1> QED BY <1>1, <1>2 DEF Vert, Null, IsNode

(* Of a mesh: the lower and the upper star of a vertex are sets of         *)
(* vertices, finitely many, and are each the converse of the other.        *)
LEMMA LowerFacts ==
    ASSUME mesh \in Meshes
    PROVE  \A v \in Vert : /\ Lower(v) \subseteq Vert
                           /\ IsFiniteSet(Lower(v))
                           /\ \A n \in Lower(v) : n < v
                           /\ Upper(v) = {x \in Vert : v \in Lower(x)}
<1>1. \A e \in mesh : e \subseteq Vert /\ \E u, v \in e : u # v /\ e = {u, v}
  BY MeshesAssumption DEF Vert
<1> SUFFICES ASSUME NEW v \in Vert
             PROVE  /\ Lower(v) \subseteq Vert
                    /\ IsFiniteSet(Lower(v))
                    /\ \A n \in Lower(v) : n < v
                    /\ Upper(v) = {x \in Vert : v \in Lower(x)}
  OBVIOUS
<1>2. Lower(v) \subseteq Vert
  BY <1>1 DEF Lower, J!LowerNeighbors, J!Neighbors
<1>3. IsFiniteSet(Lower(v))
  BY <1>2, VertFacts, FS_Subset
<1>4. \A n \in Lower(v) : n < v
  BY DEF Lower, J!LowerNeighbors
<1>5. Upper(v) = {x \in Vert : v \in Lower(x)}
  <2>1. \A x \in J!Neighbors(mesh, v) : x \in Vert /\ v \in J!Neighbors(mesh, x)
    BY <1>1 DEF J!Neighbors
  <2>2. \A x \in Vert : v \in J!Neighbors(mesh, x) => x \in J!Neighbors(mesh, v)
    BY <1>1 DEF J!Neighbors
  <2>3. \A x \in Vert : x > v <=> v < x
    BY VertFacts
  <2> QED BY <2>1, <2>2, <2>3 DEF Lower, Upper, J!LowerNeighbors,
                                  J!UpperNeighbors
<1> QED BY <1>2, <1>3, <1>4, <1>5

(* The leaves, one task each, are the vertices with no lower neighbour.    *)
LEMMA LeavesFacts == /\ Leaves = {v \in Vert : Lower(v) = {}}
                     /\ IsFiniteSet(Leaves)
<1>1. Leaves = {v \in Vert : Lower(v) = {}}
  BY DEF Leaves, J!Minima, Lower, Vert
<1> QED BY <1>1, VertFacts, FS_Subset

(* A set of vertices has a least one.                                      *)
LEMMA MinFacts ==
    ASSUME NEW S \in SUBSET Vert, S # {}
    PROVE  Min(S) \in S /\ \A x \in S : Min(S) <= x
<1>1. S \subseteq Nat
  BY VertFacts
<1> DEFINE less == {p \in Nat \X Nat : p[1] < p[2]}
<1>2. IsWellFoundedOn(less, Nat)
  BY NatLessThanWellFounded DEF OpToRel
<1>3. PICK m \in S : \A x \in S : ~(<<x, m>> \in less)
  <2> HIDE DEF less
  <2> QED BY <1>1, <1>2, WFMin
<1>4. \A x \in S : m <= x
  <2>1. ASSUME NEW x \in S, x < m PROVE FALSE
    <3>1. <<x, m>> \in Nat \X Nat
      BY <1>1
    <3>2. <<x, m>> \in less
      BY <2>1, <3>1
    <3> QED BY <1>3, <3>2
  <2> QED BY <1>1, <2>1
<1> QED BY <1>4 DEF Min
-------------------------------------------------------------------------------
(***************************************************************************)
(* The queues of a set.                                                    *)
(***************************************************************************)
(* A step that keeps the states keeps their queues.                        *)
LEMMA HeapSame == states' = states => heap' = heap
  BY DEF heap

(* heap says of each set which vertices it has queued.                     *)
LEMMA HeapFacts ==
    /\ heap \in [Vert -> [Vert -> Nat]]
    /\ \A u, x \in Vert :
          heap[u][x] > 0 <=> \E i \in DOMAIN states[u] : states[u][i][x] > 0
  BY DEF heap

(* The same of the next state.                                             *)
LEMMA HeapFactsNext ==
    /\ heap' \in [Vert -> [Vert -> Nat]]
    /\ \A u, x \in Vert :
          heap'[u][x] > 0 <=> \E i \in DOMAIN states'[u] : states'[u][i][x] > 0
  BY DEF heap

(* A set whose states are the same has the same queue.                     *)
LEMMA HeapKept ==
    ASSUME NEW u \in Vert, states'[u] = states[u]
    PROVE  heap'[u] = heap[u]
  BY DEF heap

(* The queue of a set that has one state, or none yet.                     *)
LEMMA FewStates ==
    ASSUME states \in Listed, NEW u \in Vert, Len(states[u]) <= 1
    PROVE  \/ states[u] = <<>> /\ Len(states[u]) = 0 /\ DOMAIN states[u] = {}
           \/ /\ states[u] # <<>> /\ Len(states[u]) = 1 /\ DOMAIN states[u] = {1}
              /\ states[u][1] \in Queue
<1> DEFINE n == Len(states[u])
<1>1. n \in Nat /\ DOMAIN states[u] = 1..n /\ states[u] \in Seq(Queue)
  BY LenProperties DEF Listed
<1>2. n <= 1
  OBVIOUS
<1>3. n = 0 => states[u] = <<>>
  <2>1. states[u] # <<>> => n \in Nat \ {0}
    BY <1>1, EmptySeq
  <2> QED BY <2>1
<1>4. \A i \in 1..n : states[u][i] \in Queue
  BY <1>1, ElementOfSeq
<1>5. states[u] = <<>> => n = 0
  BY EmptySeq
<1> HIDE DEF n
<1>6. n = 0 \/ n = 1
  BY <1>1, <1>2
<1>7. 1..0 = {} /\ 1..1 = {1}
  OBVIOUS
<1>8. CASE n = 0
  <2>1. states[u] = <<>> /\ DOMAIN states[u] = {}
    BY <1>1, <1>3, <1>7, <1>8
  <2> QED BY <2>1, <1>8 DEF n
<1>9. CASE n = 1
  <2>1. states[u] # <<>> /\ DOMAIN states[u] = {1} /\ states[u][1] \in Queue
    BY <1>1, <1>4, <1>5, <1>7, <1>9
  <2> QED BY <2>1, <1>9 DEF n
<1> QED BY <1>6, <1>8, <1>9

(* The first state of a set that lists one at most queues what the set     *)
(* does.                                                                   *)
LEMMA FirstFacts ==
    ASSUME states \in Listed, NEW u \in Vert, Len(states[u]) <= 1
    PROVE  /\ First(u) \in Queue /\ DOMAIN First(u) = Vert
           /\ \A x \in Vert : First(u)[x] > 0 <=> heap[u][x] > 0
           /\ Queued(u) = {x \in Vert : heap[u][x] > 0}
<1>1. CASE states[u] = <<>> /\ DOMAIN states[u] = {}
  <2>1. First(u) = NoVertex
    BY <1>1 DEF First
  <2> QED BY <1>1, <2>1, HeapFacts DEF Queue, NoVertex, Queued
<1>2. CASE states[u] # <<>> /\ DOMAIN states[u] = {1} /\ states[u][1] \in Queue
  <2>1. First(u) = states[u][1]
    BY <1>2 DEF First
  <2> QED BY <1>2, <2>1, HeapFacts DEF Queue, Queued
<1> QED BY <1>1, <1>2, FewStates

(* A write to it.                                                          *)
LEMMA WithFirstFacts ==
    ASSUME states \in Listed, NEW u \in Vert, Len(states[u]) <= 1,
           NEW h \in Queue, states' = WithFirst(u, h)
    PROVE  /\ states' \in Listed /\ Len(states'[u]) = 1
           /\ \A x \in Vert : heap'[u][x] > 0 <=> h[x] > 0
           /\ \A w \in Vert : w # u => states'[w] = states[w] /\ heap'[w] = heap[w]
<1> DEFINE s == states[u]
           r == IF s = <<>> THEN <<h>> ELSE [s EXCEPT ![1] = h]
<1>1. r \in Seq(Queue) /\ Len(r) = 1 /\ r[1] = h
  <2>1. CASE s = <<>>
    BY <2>1
  <2>2. CASE s # <<>>
    <3>1. s \in Seq(Queue) /\ 1 \in 1..Len(s) /\ Len(s) = 1
      BY <2>2, FewStates DEF Listed
    <3>2. /\ [s EXCEPT ![1] = h] \in Seq(Queue) /\ Len([s EXCEPT ![1] = h]) = 1
          /\ [s EXCEPT ![1] = h][1] = h
      BY <3>1, ExceptSeq
    <3>3. r = [s EXCEPT ![1] = h]
      BY <2>2
    <3> QED BY <3>2, <3>3
  <2> QED BY <2>1, <2>2
<1>2. states' = [states EXCEPT ![u] = r]
  BY DEF WithFirst
<1>3. DOMAIN r = {1}
  <2>1. DOMAIN r = 1..Len(r)
    BY <1>1, LenProperties
  <2>2. 1..1 = {1}
    OBVIOUS
  <2> QED BY <1>1, <2>1, <2>2
<1> HIDE DEF r
<1>4. states'[u] = r /\ states' \in Listed /\ \A w \in Vert : w # u => states'[w] = states[w]
  BY <1>1, <1>2 DEF Listed
<1>5. \A x \in Vert : heap'[u][x] > 0 <=> h[x] > 0
  <2>1. DOMAIN states'[u] = {1} /\ states'[u][1] = h
    BY <1>1, <1>3, <1>4
  <2> QED BY <2>1, HeapFactsNext
<1> QED BY <1>1, <1>4, <1>5, HeapKept

(* The states of a set are listed after those of another.                  *)
LEMMA JoinFacts ==
    ASSUME states \in Listed, NEW w \in Vert, NEW l \in Vert,
           states' = [states EXCEPT ![w] = @ \o states[l]]
    PROVE  /\ states' \in Listed /\ states'[w] = states[w] \o states[l]
           /\ \A x \in Vert : heap'[w][x] > 0 <=> heap[w][x] > 0 \/ heap[l][x] > 0
           /\ \A u \in Vert : u # w => states'[u] = states[u] /\ heap'[u] = heap[u]
<1> DEFINE s == states[w]
           r == states[l]
           z == s \o r
           m == Len(s)
           n == Len(r)
<1>1. s \in Seq(Queue) /\ r \in Seq(Queue) /\ m \in Nat /\ n \in Nat
  BY LenProperties DEF Listed
<1>2. DOMAIN s = 1..m /\ DOMAIN r = 1..n
  BY <1>1, LenProperties
<1>3. /\ z \in Seq(Queue)
      /\ \A i \in 1..(m + n) : z[i] = IF i <= m THEN s[i] ELSE r[i - m]
      /\ DOMAIN z = 1..(m + n)
  <2>1. z \in Seq(Queue) /\ Len(z) = m + n
    BY <1>1, ConcatProperties
  <2>2. \A i \in 1..(m + n) : z[i] = IF i <= m THEN s[i] ELSE r[i - m]
    BY <1>1, ConcatProperties
  <2>3. DOMAIN z = 1..Len(z)
    BY <2>1, LenProperties
  <2> QED BY <2>1, <2>2, <2>3
<1>4. /\ states' \in Listed /\ states'[w] = z
      /\ \A u \in Vert : u # w => states'[u] = states[u]
  <2>1. states' = [states EXCEPT ![w] = z]
    OBVIOUS
  <2> HIDE DEF z
  <2> QED BY <1>3, <2>1 DEF Listed
<1>5. states[w] = s /\ states[l] = r /\ states'[w] = z
  BY <1>4
<1>6. states'[w] = states[w] \o states[l]
  BY <1>4
<1> HIDE DEF s, r, z, m, n
<1>7. ASSUME NEW x \in Vert
      PROVE  heap'[w][x] > 0 <=> heap[w][x] > 0 \/ heap[l][x] > 0
  <2>1. ASSUME NEW i \in 1..m, s[i][x] > 0 PROVE \E k \in 1..(m + n) : z[k][x] > 0
    <3>1. i \in 1..(m + n) /\ i <= m
      BY <1>1
    <3> QED BY <1>3, <2>1, <3>1
  <2>2. ASSUME NEW i \in 1..n, r[i][x] > 0 PROVE \E k \in 1..(m + n) : z[k][x] > 0
    <3>1. PICK k \in 1..(m + n) : ~(k <= m) /\ k - m = i
      <4>1. i + m \in 1..(m + n) /\ ~(i + m <= m) /\ (i + m) - m = i
        BY <1>1
      <4> QED BY <4>1
    <3> QED BY <1>3, <2>2, <3>1
  <2>3. ASSUME NEW k \in 1..(m + n), z[k][x] > 0
        PROVE  (\E i \in 1..m : s[i][x] > 0) \/ (\E i \in 1..n : r[i][x] > 0)
    <3>1. CASE k <= m
      <4>1. k \in 1..m /\ z[k] = s[k]
        BY <1>1, <1>3, <3>1
      <4> QED BY <2>3, <4>1
    <3>2. CASE ~(k <= m)
      <4>1. k - m \in 1..n /\ z[k] = r[k - m]
        BY <1>1, <1>3, <3>2
      <4> QED BY <2>3, <4>1
    <3> QED BY <3>1, <3>2
  <2>4. heap'[w][x] > 0 <=> \E k \in 1..(m + n) : z[k][x] > 0
    BY <1>3, <1>5, HeapFactsNext
  <2>5. heap[w][x] > 0 <=> \E i \in 1..m : s[i][x] > 0
    BY <1>2, <1>5, HeapFacts
  <2>6. heap[l][x] > 0 <=> \E i \in 1..n : r[i][x] > 0
    BY <1>2, <1>5, HeapFacts
  <2> QED BY <2>1, <2>2, <2>3, <2>4, <2>5, <2>6
<1> QED BY <1>4, <1>6, <1>7, HeapKept

(* A queue that takes another holds what either held.                      *)
LEMMA SumFacts ==
    ASSUME NEW g \in Queue, NEW h \in Queue
    PROVE  /\ Sum(g, h) \in Queue
           /\ \A x \in Vert : Sum(g, h)[x] > 0 <=> g[x] > 0 \/ h[x] > 0
<1>1. \A x \in Vert : g[x] \in Nat /\ h[x] \in Nat /\ Sum(g, h)[x] = g[x] + h[x]
  BY DEF Queue, Sum
<1> QED BY <1>1 DEF Queue, Sum

(* One turn of mergeStates moves a queue into another of the same set.     *)
LEMMA MergeFacts ==
    ASSUME states \in Listed, NEW u \in Vert, Len(states[u]) > 1,
           states' = [states EXCEPT ![u] =
                        <<Sum(@[1], @[2])>> \o SubSeq(@, 3, Len(@))]
    PROVE  /\ states' \in Listed /\ Len(states'[u]) = Len(states[u]) - 1
           /\ states'[u][1] = Sum(states[u][1], states[u][2])
           /\ \A i \in 2..(Len(states[u]) - 1) : states'[u][i] = states[u][i + 1]
           /\ \A w \in Vert : w # u => states'[w] = states[w]
           /\ heap' = heap
<1> DEFINE s == states[u]
           q == Sum(s[1], s[2])
           r == SubSeq(s, 3, Len(s))
<1>1. s \in Seq(Queue) /\ Len(s) \in Nat /\ s[1] \in Queue /\ s[2] \in Queue
  BY DEF Listed
<1>2. q \in Queue /\ \A x \in Vert : q[x] > 0 <=> s[1][x] > 0 \/ s[2][x] > 0
  BY <1>1, SumFacts
<1>3. /\ r \in Seq(Queue) /\ Len(r) = Len(s) - 2
      /\ \A i \in 1..(Len(s) - 2) : r[i] = s[i + 2]
  BY <1>1
<1> HIDE DEF q, r
<1>4. /\ <<q>> \o r \in Seq(Queue) /\ Len(<<q>> \o r) = Len(s) - 1
      /\ (<<q>> \o r)[1] = q
      /\ \A i \in 2..(Len(s) - 1) : (<<q>> \o r)[i] = s[i + 1]
  BY <1>1, <1>2, <1>3
<1>5. /\ states' \in Listed /\ states'[u] = <<q>> \o r
      /\ \A w \in Vert : w # u => states'[w] = states[w]
  <2>1. states' = [states EXCEPT ![u] = <<q>> \o r]
    BY DEF q, r
  <2> QED BY <1>4, <2>1 DEF Listed
<1> DEFINE z == states'[u]
<1>6. z \in Seq(Queue) /\ DOMAIN z = 1..(Len(s) - 1) /\ DOMAIN s = 1..Len(s)
  BY <1>1, <1>4, <1>5
<1>7. ASSUME NEW x \in Vert PROVE heap'[u][x] > 0 <=> heap[u][x] > 0
  <2>1. ASSUME NEW i \in DOMAIN z, z[i][x] > 0 PROVE \E j \in DOMAIN s : s[j][x] > 0
    <3>1. CASE i = 1
      <4>1. s[1][x] > 0 \/ s[2][x] > 0
        BY <1>2, <1>4, <1>5, <2>1, <3>1
      <4>2. 1 \in DOMAIN s /\ 2 \in DOMAIN s
        BY <1>1, <1>6
      <4> QED BY <4>1, <4>2
    <3>2. CASE i # 1
      <4>1. i + 1 \in DOMAIN s /\ z[i] = s[i + 1]
        BY <1>1, <1>4, <1>5, <1>6, <3>2
      <4> QED BY <2>1, <4>1
    <3> QED BY <3>1, <3>2
  <2>2. ASSUME NEW j \in DOMAIN s, s[j][x] > 0 PROVE \E i \in DOMAIN z : z[i][x] > 0
    <3>1. CASE j \in {1, 2}
      <4>1. 1 \in DOMAIN z /\ z[1] = q
        BY <1>1, <1>4, <1>5, <1>6
      <4> QED BY <1>2, <2>2, <3>1, <4>1
    <3>2. CASE j \notin {1, 2}
      <4>1. j - 1 \in 2..(Len(s) - 1) /\ j - 1 \in DOMAIN z
        BY <1>1, <1>6, <3>2
      <4>2. z[j - 1] = s[(j - 1) + 1]
        BY <1>4, <1>5, <4>1
      <4>3. (j - 1) + 1 = j
        BY <1>1, <1>6
      <4> QED BY <2>2, <4>1, <4>2, <4>3
    <3> QED BY <3>1, <3>2
  <2> QED BY <2>1, <2>2, HeapFacts, HeapFactsNext
<1>8. heap' = heap
  <2>1. heap = [w \in Vert |-> heap[w]] /\ heap' = [w \in Vert |-> heap'[w]]
    BY DEF heap
  <2>2. heap'[u] = heap[u]
    <3>1. \A x \in Vert : (\E i \in DOMAIN states'[u] : states'[u][i][x] > 0)
                          <=> (\E i \in DOMAIN states[u] : states[u][i][x] > 0)
      BY <1>7, HeapFacts, HeapFactsNext
    <3> QED BY <3>1 DEF heap
  <2>3. \A w \in Vert : heap'[w] = heap[w]
    BY <1>5, <2>2, HeapKept
  <2> QED BY <2>1, <2>3
<1> QED BY <1>4, <1>5, <1>8 DEF q
-------------------------------------------------------------------------------
(***************************************************************************)
(* What the invariant says of a state.                                     *)
(***************************************************************************)
(* What a task holds: its own set, and at a saddle the sets its merge loop *)
(* visits.                                                                 *)
LEMMA HoldsFacts ==
    ASSUME Types, GInv, NEW t \in Leaves
    PROVE  /\ Rep(t) \in Holds(t)
           /\ pc[t] = "merge" =>
                 /\ cur[t] \in Vert /\ cur[t] = Top(t)
                 /\ comp[ufs[cur[t]]] \in Holds(t)
                 /\ \A n \in Lower(cur[t]) :
                       ufs[n] # Null /\ comp[ufs[n]] \in Holds(t)
<1>1. CASE pc[t] # "merge"
  BY <1>1 DEF Holds
<1>2. CASE pc[t] = "merge"
  <2>1. /\ cur[t] \in Vert /\ vert2tree[cur[t]] # Null
        /\ \E n \in Lower(cur[t]) : Belongs(n, Rep(t))
    BY <1>2, VertFacts DEF GInv, AtSaddle, SaddleOf
  <2>2. \A n \in Lower(cur[t]) : ufs[n] # Null
    BY <2>1 DEF GInv, LowerClosed
  <2>3. Holds(t) = {comp[ufs[n]] : n \in Lower(cur[t])} \cup {comp[ufs[cur[t]]]}
    BY <1>2 DEF Holds, Merged, find
  <2> QED BY <1>2, <2>1, <2>2, <2>3 DEF Belongs, Top
<1> QED BY <1>1, <1>2

(* What a task holds are representatives, hence vertices.                  *)
LEMMA HoldsInVert ==
    ASSUME Types, GInv, NEW t \in Leaves
    PROVE  Holds(t) \subseteq Vert
<1>1. t \in Vert /\ Rep(t) \in Vert
  BY LeavesFacts DEF Types, Rep
<1>2. CASE pc[t] # "merge"
  BY <1>1, <1>2 DEF Holds
<1>3. CASE pc[t] = "merge"
  <2>1. cur[t] \in Vert /\ ufs[cur[t]] # Null /\ Lower(cur[t]) \subseteq Vert
    BY <1>3, LowerFacts DEF GInv, AtSaddle, SaddleOf, Types
  <2>2. \A n \in Lower(cur[t]) : ufs[n] # Null
    BY <1>3, HoldsFacts
  <2>3. \A n \in Vert : ufs[n] # Null => comp[ufs[n]] \in Vert
    BY DEF Types
  <2> QED BY <1>3, <2>1, <2>2, <2>3 DEF Holds, Merged, find
<1> QED BY <1>2, <1>3

(* A set is in the hands of one task.                                      *)
LEMMA Sole ==
    ASSUME GInv, NEW t \in Leaves, NEW o \in Leaves,
           ~Absorbed(t), ~Absorbed(o), Holds(t) \cap Holds(o) # {}
    PROVE  t = o
  BY DEF GInv, Exclusive

(* A set that a task at work holds is the set of no other task at work.    *)
LEMMA SoleRep ==
    ASSUME Types, GInv, NEW t \in Leaves, NEW o \in Leaves,
           ~Absorbed(t), ~Absorbed(o), Rep(o) \in Holds(t)
    PROVE  t = o
  BY Sole, HoldsFacts

(* What a task has to do with a vertex that is open.                       *)
LEMMA AtOpenVertex ==
    ASSUME Types, GInv, NEW o \in Leaves,
           cur[o] \in Vert, vert2tree[cur[o]] = Null
    PROVE  /\ ~Absorbed(o) /\ cur[o] # startVert[o]
           /\ pc[o] \notin {"pop", "merge", "decide"}
           /\ pc[o] = "capture" \/ Captured(o) => Own(o) # {}
<1>1. ~Absorbed(o) /\ cur[o] # startVert[o]
  BY VertFacts DEF Absorbed, GInv, Arcs, ArcOf
<1>2. pc[o] \notin {"merge", "decide"}
  BY VertFacts DEF GInv, AtSaddle, SaddleOf
<1>3. pc[o] # "pop"
  <2>1. ~OnArc(cur[o])
    BY DEF OnArc
  <2>2. o \in Vert
    BY LeavesFacts
  <2> QED BY <1>1, <2>1, <2>2, VertFacts DEF GInv, Arcs, ArcOf, Types
<1> QED BY <1>1, <1>2, <1>3 DEF GInv, Visits, VisitOf

(* The shares of two tasks at a vertex are disjoint.                       *)
LEMMA DisjointShares ==
    ASSUME Types, GInv, NEW t \in Leaves, NEW o \in Leaves, t # o,
           cur[t] \in Vert, vert2tree[cur[t]] = Null, cur[o] = cur[t]
    PROVE  Own(t) \cap Own(o) = {}
<1>1. ~Absorbed(t) /\ ~Absorbed(o)
  BY AtOpenVertex
<1>2. Rep(t) # Rep(o)
  BY <1>1, SoleRep, HoldsFacts
<1> QED BY <1>2 DEF Own, Belongs

(* The tasks a valence has been charged for are some of the lower          *)
(* vertices, so there are at most as many; when there are as many, each    *)
(* lower vertex is accounted for.                                          *)
LEMMA AccountedFacts ==
    ASSUME Types, NEW v \in Vert
    PROVE  /\ Accounted(v) \subseteq Lower(v)
           /\ IsFiniteSet(Lower(v)) /\ Cardinality(Lower(v)) \in Nat
           /\ IsFiniteSet(Accounted(v)) /\ Cardinality(Accounted(v)) \in Nat
           /\ Cardinality(Accounted(v)) = Cardinality(Lower(v)) =>
                 Accounted(v) = Lower(v)
<1>1. Accounted(v) \subseteq Lower(v)
  BY DEF Accounted
<1>2. IsFiniteSet(Lower(v))
  BY LowerFacts DEF Types
<1>3. IsFiniteSet(Accounted(v))
  BY <1>1, <1>2, FS_Subset
<1> QED BY <1>1, <1>2, <1>3, FS_CardinalityType, FS_Subset

(* When the last visitor of a saddle has come, each lower neighbour belongs*)
(* to a task that is there.                                                *)
LEMMA ClaimFacts ==
    ASSUME Types, GInv, NEW t \in Leaves, Claims(t)
    PROVE  /\ cur[t] \in Vert /\ vert2tree[cur[t]] = Null
           /\ startVert[t] < cur[t] /\ cur[t] = Top(t)
           /\ Accounted(cur[t]) = Lower(cur[t])
<1>1. ~Absorbed(t) /\ Captured(t) /\ isSaddle[t] /\ pc[t] \in {"publish", "open"}
  BY DEF Absorbed, Parked, Captured, Claims
<1>2. cur[t] \in Vert /\ startVert[t] < cur[t]
  BY DEF GInv, AtSaddle, SaddleOf
<1>3. vert2tree[cur[t]] = Null
  BY <1>1, <1>2 DEF GInv, Visits, VisitOf
<1>4. valences[cur[t]] = 0
        /\ valences[cur[t]] + Cardinality(Accounted(cur[t])) = Cardinality(Lower(cur[t]))
  BY <1>2, <1>3 DEF GInv, Counts
<1>5. Accounted(cur[t]) = Lower(cur[t])
  BY <1>2, <1>4, AccountedFacts
<1> QED BY <1>1, <1>2, <1>3, <1>5 DEF Top

(* The last visitor of a saddle and the tasks that stopped there are alone.*)
LEMMA ClaimAlone ==
    ASSUME Types, GInv, NEW t \in Leaves, Claims(t),
           NEW o \in Leaves, o # t, cur[o] = cur[t]
    PROVE  /\ pc[o] \notin {"pop", "capture", "merge", "decide"}
           /\ Captured(o) => Parked(o)
<1> DEFINE v == cur[t]
<1>1. /\ v \in Vert /\ vert2tree[v] = Null /\ Accounted(v) = Lower(v)
      /\ ~Absorbed(t) /\ Captured(t) /\ Own(t) # {}
      /\ ~Absorbed(o) /\ pc[o] \notin {"pop", "merge", "decide"}
      /\ pc[o] = "capture" \/ Captured(o) => Own(o) # {}
  BY ClaimFacts, AtOpenVertex DEF Claims, Captured
<1>2. pc[o] # "capture"
  <2> SUFFICES ASSUME pc[o] = "capture" PROVE FALSE
    OBVIOUS
  <2>1. PICK n \in Own(o) : n \in Accounted(v)
    BY <1>1 DEF Own
  <2>2. PICK p \in Leaves : cur[p] = v /\ Captured(p) /\ n \in Own(p)
    BY <2>1 DEF Accounted, Own
  <2>3. p # o
    BY <2>2 DEF Captured, Parked
  <2> QED BY <1>1, <2>1, <2>2, <2>3, DisjointShares
<1>3. ~Claims(o)
  BY DEF GInv, Counts
<1>4. ASSUME Captured(o), ~isSaddle[o] PROVE FALSE
  <2>1. Own(o) = Lower(v)
    BY <1>1, <1>4 DEF GInv, Visits, VisitOf
  <2> QED BY <1>1, <2>1, DisjointShares DEF Own
<1>5. o \in Vert
  BY LeavesFacts
<1> QED BY <1>1, <1>2, <1>3, <1>4, <1>5 DEF Claims, Captured, Parked, Types

(* A task that found all lower neighbours of an open vertex its own is     *)
(* alone there.                                                            *)
LEMMA RegularAlone ==
    ASSUME Types, GInv, NEW t \in Leaves, pc[t] = "publish", ~isSaddle[t],
           cur[t] # startVert[t], NEW o \in Leaves, o # t, cur[o] = cur[t]
    PROVE  ~Captured(o) /\ pc[o] \notin {"pop", "capture", "merge", "decide"}
<1> DEFINE v == cur[t]
<1>1. ~Absorbed(t) /\ Captured(t)
  BY DEF Absorbed, Parked, Captured
<1>2. v \in Vert /\ vert2tree[v] = Null /\ Own(t) = Lower(v)
  BY <1>1 DEF GInv, Visits, VisitOf
<1> QED BY <1>2, AtOpenVertex, DisjointShares DEF Own

(* What a task at work has queued, and the lowest vertex of it.            *)
LEMMA AheadFacts ==
    ASSUME Types, GInv, NEW t \in Leaves, pc[t] = "pop"
    PROVE  /\ t \in Vert /\ startUF[t] \in Vert /\ Rep(t) = startUF[t] /\ Sweeping(t)
           /\ Len(states[startUF[t]]) <= 1 /\ First(startUF[t]) \in Queue
           /\ \A x \in Vert : First(startUF[t])[x] > 0 <=> heap[startUF[t]][x] > 0
           /\ Ahead(t) = {x \in Vert : heap[startUF[t]][x] > 0 /\ ~Seen(t, x)}
           /\ Ahead(t) # {} => /\ Min(Ahead(t)) \in Ahead(t)
                               /\ \A x \in Ahead(t) : Min(Ahead(t)) <= x
<1>1. /\ t \in Vert /\ startUF[t] \in Vert /\ Rep(t) = startUF[t] /\ Sweeping(t)
      /\ states \in Listed
  BY LeavesFacts DEF Types, GInv, Representatives, Sweeping, Absorbed, Parked
<1>2. Len(states[startUF[t]]) <= 1
  BY <1>1 DEF GInv, Single, OneState
<1>3. /\ First(startUF[t]) \in Queue
      /\ \A x \in Vert : First(startUF[t])[x] > 0 <=> heap[startUF[t]][x] > 0
      /\ Queued(startUF[t]) = {x \in Vert : heap[startUF[t]][x] > 0}
  BY <1>1, <1>2, FirstFacts
<1>4. Ahead(t) = {x \in Vert : heap[startUF[t]][x] > 0 /\ ~Seen(t, x)}
  BY <1>3 DEF Ahead
<1>5. Ahead(t) # {} => /\ Min(Ahead(t)) \in Ahead(t)
                       /\ \A x \in Ahead(t) : Min(Ahead(t)) <= x
  BY <1>4, MinFacts
<1> QED BY <1>1, <1>2, <1>3, <1>4, <1>5

(* The next vertex of a task is its start vertex or one nobody settled.    *)
LEMMA NextVertex ==
    ASSUME Types, GInv, NEW t \in Leaves, pc[t] = "pop",
           NEW v \in Ahead(t), \A x \in Ahead(t) : v <= x
    PROVE  /\ v \in Vert /\ v >= Top(t) /\ startVert[t] <= v
           /\ ~seenFirst[t] => v = startVert[t]
           /\ seenFirst[t] =>
                 /\ v > cur[t] /\ v > startVert[t] /\ vert2tree[v] = Null
                 /\ \E n \in Lower(v) : Belongs(n, Rep(t))
                 /\ \A o \in Leaves : Claims(o) => cur[o] # v
<1>1. /\ t \in Vert /\ v \in Vert /\ heap[startUF[t]][v] > 0 /\ ~Seen(t, v)
      /\ startVert[t] \in Vert
  BY AheadFacts DEF Types
<1>2. Sweeping(t) /\ ~Absorbed(t) /\ Holds(t) = {Rep(t)} /\ Rep(t) = startUF[t]
  BY DEF Sweeping, Absorbed, Parked, Holds, GInv, Representatives
<1>3. v >= Top(t) /\ (v = Top(t) \/ \E n \in Lower(v) : Belongs(n, Rep(t)) \/ n = Top(t))
  BY <1>1, <1>2 DEF GInv, Queues, QueueOf
<1>4. startVert[t] <= Top(t) /\ Top(t) \in Vert /\ Belongs(Top(t), Rep(t))
  <2>1. Belongs(startVert[t], Rep(t)) /\ Belongs(Top(t), Rep(t)) /\ Top(t) \in Vert
    BY <1>1, <1>2 DEF GInv, Arcs, ArcOf, Top
  <2> QED BY <1>1, <1>2, <2>1 DEF GInv, Swept, SweptOf
<1>n. v \in Nat /\ startVert[t] \in Nat /\ Top(t) \in Nat
  BY <1>1, <1>4, VertFacts
<1>5. startVert[t] <= v
  BY <1>n, <1>3, <1>4
<1>6. ASSUME ~seenFirst[t] PROVE v = startVert[t]
  <2>1. heap[startUF[t]][startVert[t]] > 0 /\ vert2tree[startVert[t]] = IsNode
    BY <1>6 DEF GInv, Arcs, ArcOf
  <2>2. startVert[t] \in Ahead(t)
    BY <1>1, <1>6, <2>1, AheadFacts DEF Seen, OnArc
  <2> QED BY <1>1, <1>5, <2>2, VertFacts
<1>7. ASSUME seenFirst[t]
      PROVE  /\ v > cur[t] /\ v > startVert[t] /\ vert2tree[v] = Null
             /\ \E n \in Lower(v) : Belongs(n, Rep(t))
             /\ \A o \in Leaves : Claims(o) => cur[o] # v
  <2>1. Top(t) = cur[t] /\ Seen(t, cur[t])
    BY <1>7 DEF Top, GInv, Arcs, ArcOf, Seen
  <2>2. v > Top(t)
    <3>1. v # Top(t)
      BY <1>1, <2>1
    <3> QED BY <1>n, <1>3, <3>1
  <2>3. PICK n \in Lower(v) : Belongs(n, Rep(t))
    <3>1. v # Top(t)
      BY <1>n, <2>2
    <3> QED BY <1>3, <1>4, <3>1
  <2>4. ~Belongs(v, Rep(t))
    <3>1. ASSUME Belongs(v, Rep(t)) PROVE v <= Top(t)
      BY <3>1, <1>1, <1>2 DEF GInv, Swept, SweptOf
    <3> QED BY <1>n, <2>2, <3>1
  <2>5. vert2tree[v] = Null
    <3> SUFFICES ASSUME vert2tree[v] # Null PROVE FALSE
      OBVIOUS
    <3>1. PICK o \in Leaves : pc[o] = "merge" /\ cur[o] = v
      BY <1>1, <2>3, <2>4 DEF GInv, LowerClosed, Belongs
    <3>2. Rep(t) \in Holds(o)
      BY <2>3, <3>1, HoldsFacts DEF Belongs
    <3> QED BY <1>2, <3>1, <3>2, SoleRep DEF Absorbed, Parked
  <2>6. ASSUME NEW o \in Leaves, Claims(o), cur[o] = v PROVE FALSE
    <3>1. n \in Accounted(v)
      BY <2>3, <2>6, ClaimFacts
    <3>2. PICK p \in Leaves : cur[p] = v /\ Captured(p) /\ Belongs(n, Rep(p))
      BY <3>1 DEF Accounted
    <3>3. Rep(p) = Rep(t) /\ ~Absorbed(p)
      BY <2>3, <2>5, <3>2 DEF Belongs, Absorbed
    <3> QED BY <1>2, <3>2, <3>3, SoleRep, HoldsFacts DEF Captured, Parked
  <2> QED BY <1>n, <1>4, <2>1, <2>2, <2>3, <2>5, <2>6
<1> QED BY <1>1, <1>3, <1>5, <1>6, <1>7
-------------------------------------------------------------------------------
(***************************************************************************)
(* The invariant holds initially and is kept by the step of each task.     *)
(***************************************************************************)
(* When the tasks are created each has its leaf, and nobody holds another  *)
(* set.                                                                    *)
LEMMA InitGrowth == Init => Types /\ GInv
<1> SUFFICES ASSUME Init PROVE Types /\ GInv
  OBVIOUS
<1>1. /\ Leaves = {v \in Vert : Lower(v) = {}} /\ mesh \in Meshes
      /\ \A v \in Vert : IsFiniteSet(Lower(v)) /\ Cardinality(Lower(v)) \in Nat
  BY LeavesFacts, LowerFacts, FS_CardinalityType DEF Init
<1>2. \A t \in Leaves : /\ t \in Vert /\ pc[t] = "waiting" /\ startVert[t] = t
                        /\ startUF[t] = t /\ comp[t] = t /\ cur[t] = Null
                        /\ ufs[t] = Null /\ ~isSaddle[t] /\ vert2tree[t] = IsNode
  BY <1>1 DEF Init
<1>3. \A n, u \in Vert : ~Belongs(n, u) /\ ufs[n] = Null /\ heap[u][n] = 0
  <2>1. \A u \in Vert : states[u] = <<>> /\ DOMAIN states[u] = {}
    BY DEF Init
  <2>2. \A n, u \in Vert : heap[u][n] = 0
    BY <2>1 DEF heap
  <2> QED BY <2>2 DEF Init, Belongs
<1>4. \A t \in Leaves : /\ ~Parked(t) /\ ~Claims(t) /\ ~Absorbed(t)
                        /\ ~Captured(t) /\ Holds(t) = {t} /\ Top(t) = t
  BY <1>2 DEF Parked, Claims, Absorbed, Captured, Holds, Rep, Top
<1>5. Types /\ Single
  <2>1. states \in Listed /\ \A u \in Vert : Len(states[u]) = 0
    BY EmptySeq DEF Init, Listed
  <2>2. Types
    BY <1>1, <2>1, VertFacts DEF Types, Init
  <2>3. \A t \in Leaves : Len(states[Rep(t)]) <= 1
    BY <1>2, <2>1 DEF Rep
  <2> QED BY <2>2, <2>3 DEF Single, OneState
<1>6. Representatives /\ Exclusive
  <2>1. \A u \in Vert : comp[comp[u]] = comp[u]
    BY DEF Init
  <2>2. Representatives
    BY <1>2, <2>1 DEF Representatives
  <2>3. Exclusive
    BY <1>4 DEF Exclusive
  <2> QED BY <2>2, <2>3
<1>7. Swept /\ Queues
  BY <1>2, <1>3, <1>4 DEF Swept, SweptOf, Queues, QueueOf
<1>8. Arcs
  BY <1>2 DEF Arcs, ArcOf
<1>9. LowerClosed
  BY <1>1, VertFacts DEF LowerClosed, Init
<1>10. Published /\ AtSaddle /\ Visits
  BY <1>2, <1>3, <1>4 DEF Published, AtSaddle, SaddleOf, Visits, VisitOf
<1>11. Counts
  <2>1. \A v \in Vert : Accounted(v) = {}
    BY <1>4 DEF Accounted
  <2>2. \A v \in Vert : valences[v] = Cardinality(Lower(v))
    BY DEF Init
  <2> QED BY <1>1, <1>4, <2>1, <2>2, FS_EmptySet DEF Counts
<1> QED BY <1>5, <1>6, <1>7, <1>8, <1>9, <1>10, <1>11 DEF GInv

(* No step changes the mesh.                                               *)
LEMMA SameMesh ==
    ASSUME mesh' = mesh
    PROVE  /\ Leaves' = Leaves /\ \A v \in Vert : Lower(v)' = Lower(v)
           /\ \A v \in Vert : Upper(v)' = Upper(v)
  BY DEF Leaves, Lower, Upper

(* What a step of t leaves of the other tasks and of the settled vertices. *)
LEMMA StepFrame ==
    ASSUME Types, GInv, NEW t \in Leaves, TaskStep(t)
    PROVE  /\ mesh' = mesh /\ phase' = phase /\ Leaves' = Leaves
           /\ \A v \in Vert : Lower(v)' = Lower(v)
           /\ \A o \in Vert : o # t =>
                 /\ pc'[o] = pc[o] /\ cur'[o] = cur[o] /\ isSaddle'[o] = isSaddle[o]
                 /\ isLast'[o] = isLast[o] /\ startVert'[o] = startVert[o]
           /\ \A v \in Vert : vert2tree[v] # Null => vert2tree'[v] # Null
<1>1. t \in Vert
  BY LeavesFacts
<1>2. mesh' = mesh /\ phase' = phase
  BY DEF TaskStep, OnlyLeaf, Launch, Start, Visit, Capture, CaptureWith, Publish, OpenNode,
     Retire, MergeNeighbor, CloseArcs, Restart, CloseRoot
<1>3. Leaves' = Leaves /\ \A v \in Vert : Lower(v)' = Lower(v)
  BY <1>2, SameMesh
<1>4. \E label : pc' = [pc EXCEPT ![t] = label] \/ pc' = pc
  BY DEF TaskStep, OnlyLeaf, Launch, Start, Visit, Capture, CaptureWith, Publish, OpenNode,
     Retire, MergeNeighbor, CloseArcs, Restart, CloseRoot, Goto
<1>5. cur' = cur \/ \E x : cur' = [cur EXCEPT ![t] = x]
  BY DEF TaskStep, OnlyLeaf, Launch, Start, Visit, Capture, CaptureWith, Publish, OpenNode,
     Retire, MergeNeighbor, CloseArcs, Restart, CloseRoot, callVars
<1>6. isSaddle' = isSaddle \/ \E x : isSaddle' = [isSaddle EXCEPT ![t] = x]
  BY DEF TaskStep, OnlyLeaf, Launch, Start, Visit, Capture, CaptureWith, Publish, OpenNode,
     Retire, MergeNeighbor, CloseArcs, Restart, CloseRoot, visitVars
<1>7. isLast' = isLast \/ \E x : isLast' = [isLast EXCEPT ![t] = x]
  BY DEF TaskStep, OnlyLeaf, Launch, Start, Visit, Capture, CaptureWith, Publish, OpenNode,
     Retire, MergeNeighbor, CloseArcs, Restart, CloseRoot, visitVars
<1>8. startVert' = startVert \/ \E x : startVert' = [startVert EXCEPT ![t] = x]
  BY DEF TaskStep, OnlyLeaf, Launch, Start, Visit, Capture, CaptureWith, Publish, OpenNode,
     Retire, MergeNeighbor, CloseArcs, Restart, CloseRoot, callVars
<1>9. \/ vert2tree' = vert2tree
      \/ \E v, x : vert2tree' = [vert2tree EXCEPT ![v] = x] /\ x # Null
  <2>1. startVert[t] # Null /\ IsNode # Null
    BY <1>1, VertFacts DEF Types
  <2> QED BY <2>1 DEF TaskStep, OnlyLeaf, Launch, Start, Visit, Capture, CaptureWith, Publish,
     OpenNode, Retire, MergeNeighbor, CloseArcs, Restart, CloseRoot, segmVars
<1>10. \A o \in Vert : o # t =>
          /\ pc'[o] = pc[o] /\ cur'[o] = cur[o] /\ isSaddle'[o] = isSaddle[o]
          /\ isLast'[o] = isLast[o] /\ startVert'[o] = startVert[o]
  BY <1>4, <1>5, <1>6, <1>7, <1>8 DEF Types
<1>11. \A v \in Vert : vert2tree[v] # Null => vert2tree'[v] # Null
  BY <1>9 DEF Types
<1> QED BY <1>2, <1>3, <1>10, <1>11

(* The steps that write to the queue of a set: arcGrowth adds the start    *)
(* vertex to it,                                                           *)
LEMMA StartStates ==
    ASSUME Types, GInv, NEW t \in Leaves, Start(t)
    PROVE  /\ comp[ufs[startVert[t]]] = Rep(t) /\ Rep(t) \in Vert
           /\ states' \in Listed /\ Len(states'[Rep(t)]) = 1
           /\ \A x \in Vert : heap'[Rep(t)][x] > 0 <=> x = startVert[t] \/ heap[Rep(t)][x] > 0
           /\ \A w \in Vert : w # Rep(t) => states'[w] = states[w] /\ heap'[w] = heap[w]
<1>1. PICK u : u = Rep(t)
  OBVIOUS
<1>2. t \in Vert /\ startVert[t] \in Vert /\ pc[t] = "start" /\ u \in Vert /\ states \in Listed
  BY <1>1, LeavesFacts DEF Start, Types, Rep
<1>3. Sweeping(t) /\ Belongs(startVert[t], u)
  BY <1>1, <1>2 DEF Sweeping, Absorbed, Parked, GInv, Arcs, ArcOf
<1>4. comp[ufs[startVert[t]]] = u /\ Len(states[u]) <= 1
  BY <1>1, <1>2, <1>3 DEF Belongs, GInv, Single, OneState
<1>5. First(u) \in Queue /\ \A x \in Vert : First(u)[x] > 0 <=> heap[u][x] > 0
  BY <1>2, <1>4, FirstFacts
<1> DEFINE h == Push(First(u), {startVert[t]})
<1>6. h \in Queue /\ \A x \in Vert : h[x] > 0 <=> x = startVert[t] \/ First(u)[x] > 0
  BY <1>5 DEF Push, Queue
<1>7. states' = WithFirst(u, h)
  BY <1>4 DEF Start, find
<1> HIDE DEF h
<1> QED BY <1>1, <1>2, <1>4, <1>5, <1>6, <1>7, WithFirstFacts

(* a scan drops what is below its vertex and adds the neighbours above,    *)
LEMMA VisitStates ==
    ASSUME Types, GInv, NEW t \in Leaves, Visit(t), NEW v, v = Min(Ahead(t))
    PROVE  LET u == startUF[t]
               new == {n \in Upper(v) : Unclaimed(n, u)}
           IN  /\ states' \in Listed /\ Len(states'[u]) = 1
               /\ \A x \in Vert : heap'[u][x] > 0 =>
                     x \in new \/ x = v \/ (x > v /\ heap[u][x] > 0)
               /\ \A x \in Vert : x > v =>
                     (heap'[u][x] > 0 <=> x \in new \/ heap[u][x] > 0)
               /\ \A w \in Vert : w # u => states'[w] = states[w] /\ heap'[w] = heap[w]
<1> DEFINE new == {n \in Upper(v) : Unclaimed(n, startUF[t])}
<1>1. PICK u : u = startUF[t]
  OBVIOUS
<1>2. /\ pc[t] = "pop" /\ u \in Vert /\ comp[u] = u /\ states \in Listed
      /\ Len(states[u]) <= 1 /\ First(u) \in Queue
      /\ \A x \in Vert : First(u)[x] > 0 <=> heap[u][x] > 0
      /\ v \in Vert /\ heap[u][v] > 0
  BY <1>1, AheadFacts DEF Visit, Types, Rep
<1>3. v \in Nat /\ \A x \in Vert : x \in Nat
  BY <1>2, VertFacts
<1> DEFINE left == [w \in Vert |-> IF w < v THEN 0 ELSE
                                   IF w = v THEN First(u)[v] - 1 ELSE First(u)[w]]
<1>4. /\ left \in Queue
      /\ \A x \in Vert : left[x] > 0 => x = v \/ (x > v /\ First(u)[x] > 0)
      /\ \A x \in Vert : x > v => left[x] = First(u)[x]
  <2>1. First(u)[v] > 0 /\ \A x \in Vert : First(u)[x] \in Nat
    BY <1>2 DEF Queue
  <2>2. \A x \in Vert : left[x] = IF x < v THEN 0 ELSE
                                  IF x = v THEN First(u)[v] - 1 ELSE First(u)[x]
    OBVIOUS
  <2>3. \A x \in Vert : left[x] \in Nat
    BY <1>2, <2>1, <2>2
  <2>4. left \in Queue
    BY <2>3 DEF Queue
  <2> HIDE DEF left
  <2> QED BY <1>3, <2>1, <2>2, <2>4
<1> HIDE DEF left
<1> DEFINE h == Push(left, new)
<1>5. /\ h \in Queue /\ \A x \in Vert : h[x] > 0 <=> x \in new \/ left[x] > 0
  BY <1>4 DEF Push, Queue
<1>6. states' = WithFirst(u, h)
  BY <1>1, <1>2 DEF Visit, find, left
<1> HIDE DEF h, new
<1>7. /\ states' \in Listed /\ Len(states'[u]) = 1
      /\ \A x \in Vert : heap'[u][x] > 0 <=> h[x] > 0
      /\ \A w \in Vert : w # u => states'[w] = states[w] /\ heap'[w] = heap[w]
  BY <1>2, <1>5, <1>6, WithFirstFacts
<1>8. \A x \in Vert : heap'[u][x] > 0 => x \in new \/ x = v \/ (x > v /\ heap[u][x] > 0)
  BY <1>2, <1>4, <1>5, <1>7
<1>9. \A x \in Vert : x > v => (heap'[u][x] > 0 <=> x \in new \/ heap[u][x] > 0)
  BY <1>2, <1>4, <1>5, <1>7
<1> QED BY <1>1, <1>7, <1>8, <1>9 DEF new

(* and the end at a root clears it.                                        *)
LEMMA CloseRootStates ==
    ASSUME Types, GInv, NEW t \in Leaves, CloseRoot(t)
    PROVE  /\ states' \in Listed /\ Len(states'[startUF[t]]) = 1
           /\ \A w \in Vert : w # startUF[t] => states'[w] = states[w] /\ heap'[w] = heap[w]
<1>1. NoVertex \in Queue
  BY DEF NoVertex, Queue
<1> QED BY <1>1, AheadFacts, WithFirstFacts DEF CloseRoot, Types

(* Two sets are united: the states of one are listed with the other's.     *)
Absorbs(t, n, w, l) ==
    /\ {w, l} = {comp[ufs[cur[t]]], comp[ufs[n]]} /\ w # l
    /\ comp' = [u \in Vert |-> IF comp[u] = l THEN w ELSE comp[u]]
    /\ ufs' = [ufs EXCEPT ![cur[t]] = w]
    /\ states' \in Listed /\ states'[w] = states[w] \o states[l]
    /\ \A x \in Vert : heap'[w][x] > 0 <=> heap[w][x] > 0 \/ heap[l][x] > 0
    /\ \A u \in Vert : u # w => states'[u] = states[u] /\ heap'[u] = heap[u]

(* The union of two sets at a saddle, whichever of the two wins.           *)
LEMMA UniteStates ==
    ASSUME Types, GInv, NEW t \in Leaves, NEW n \in Vert, MergeNeighbor(t, n),
           comp[ufs[cur[t]]] # comp[ufs[n]]
    PROVE  \E w \in Vert, l \in Vert : Absorbs(t, n, w, l)
<1> DEFINE v == cur[t]
           a == comp[ufs[v]]
           b == comp[ufs[n]]
<1>1. a \in Vert /\ b \in Vert /\ states \in Listed
  <2>1. pc[t] = "merge" /\ n \in todo[t]
    BY DEF MergeNeighbor
  <2>2. v \in Vert /\ n \in Lower(v) /\ ufs[v] # Null
    BY <2>1 DEF GInv, AtSaddle, SaddleOf
  <2>3. ufs[n] # Null
    BY <2>1, <2>2, HoldsFacts
  <2> QED BY <2>2, <2>3 DEF Types
<1>2. Unite(a, b) /\ ufs' = [ufs EXCEPT ![v] = Winner(a, b)]
  BY DEF MergeNeighbor, find
<1>3. PICK w \in {a, b}, l \in {a, b} :
         /\ w # l /\ ufs' = [ufs EXCEPT ![v] = w]
         /\ comp' = [u \in Vert |-> IF comp[u] = l THEN w ELSE comp[u]]
         /\ states' = [states EXCEPT ![w] = @ \o states[l]]
  <2>1. CASE Winner(a, b) = a
    BY <1>2, <2>1 DEF Unite
  <2>2. CASE Winner(a, b) = b
    <3>1. b # a
      OBVIOUS
    <3>2. (IF b = a THEN b ELSE a) = a
      BY <3>1
    <3> HIDE DEF a, b
    <3> QED BY <1>2, <2>2, <3>1, <3>2 DEF Unite
  <2> QED BY <2>1, <2>2 DEF Winner
<1>4. w \in Vert /\ l \in Vert /\ {w, l} = {a, b}
  BY <1>1, <1>3
<1> HIDE DEF a, b
<1>5. /\ states' \in Listed /\ states'[w] = states[w] \o states[l]
      /\ \A x \in Vert : heap'[w][x] > 0 <=> heap[w][x] > 0 \/ heap[l][x] > 0
      /\ \A u \in Vert : u # w => states'[u] = states[u] /\ heap'[u] = heap[u]
  BY <1>1, <1>3, <1>4, JoinFacts
<1> QED BY <1>3, <1>4, <1>5 DEF a, b, Absorbs

(* A task is left with one state at most, unless it is to merge others'.   *)
LEMMA SingleKept ==
    ASSUME Types, GInv, NEW t \in Leaves, TaskStep(t)
    PROVE  Single'
<1>1. Leaves' = Leaves /\ t \in Vert
  BY StepFrame, LeavesFacts
<1>2. startUF' = startUF \/ (Start(t) /\ \E x : startUF' = [startUF EXCEPT ![t] = x])
  BY DEF TaskStep, OnlyLeaf, Launch, Start, Visit, Capture, CaptureWith, Publish, OpenNode,
     Retire, MergeNeighbor, CloseArcs, Restart, CloseRoot, callVars
<1>4. ASSUME NEW o \in Leaves, o # t, Sweeping(o)', pc'[o] \notin {"merge", "decide"}
      PROVE  /\ startUF'[o] = startUF[o] /\ Rep(o) \in Vert /\ Rep(o) \in Holds(o)
             /\ ~Absorbed(o) /\ Len(states[Rep(o)]) <= 1
  <2>1. o \in Vert /\ startUF'[o] = startUF[o] /\ Rep(o) \in Vert
    BY <1>2, <1>4, LeavesFacts DEF Types, Rep
  <2>2. pc'[o] = pc[o] /\ cur'[o] = cur[o] /\ Parked(o)' = Parked(o)
    BY <1>4, <2>1, StepFrame DEF Parked
  <2>3. Parked(o) => cur[o] \in Vert
    BY DEF GInv, AtSaddle, SaddleOf
  <2>4. Sweeping(o)
    BY <1>4, <2>2, <2>3, StepFrame DEF Sweeping, Absorbed
  <2> QED BY <1>4, <2>1, <2>2, <2>4, HoldsFacts DEF GInv, Single, OneState, Sweeping, Holds
<1>5. CASE Start(t) \/ Visit(t) \/ CloseRoot(t)
  <2>1. PICK u \in Vert : /\ Len(states'[u]) = 1 /\ Rep(t)' = u /\ comp' = comp
                          /\ \A w \in Vert : w # u => states'[w] = states[w]
    <3>1. CASE Start(t)
      <4>1. comp' = comp /\ startUF'[t] = Rep(t) /\ Rep(t)' = comp[Rep(t)]
        BY <1>1, <3>1, StartStates DEF Start, find, Types, Rep
      <4>2. comp[Rep(t)] = Rep(t)
        BY <1>1 DEF GInv, Representatives, Types, Rep
      <4> QED BY <3>1, <4>1, <4>2, StartStates
    <3>2. CASE Visit(t)
      <4>1. pc[t] = "pop" /\ comp' = comp /\ startUF' = startUF
        BY <3>2 DEF Visit
      <4>2. \E v : v = Min(Ahead(t))
        OBVIOUS
      <4> QED BY <3>2, <4>1, <4>2, AheadFacts, VisitStates DEF Rep
    <3>3. CASE CloseRoot(t)
      <4>1. pc[t] = "pop" /\ comp' = comp /\ startUF' = startUF
        BY <3>3 DEF CloseRoot, callVars
      <4> QED BY <3>3, <4>1, AheadFacts, CloseRootStates DEF Rep
    <3> QED BY <1>5, <3>1, <3>2, <3>3
  <2>2. ASSUME NEW o \in Leaves, Sweeping(o)', pc'[o] \notin {"merge", "decide"}
        PROVE  Len(states'[Rep(o)']) <= 1
    <3>1. CASE o = t
      <4>1. Len(states'[u]) <= 1 /\ Rep(o)' = u
        BY <2>1, <3>1
      <4> QED BY <4>1
    <3>2. CASE o # t
      <4>1. Rep(o)' = Rep(o) /\ Rep(o) \in Vert /\ Len(states[Rep(o)]) <= 1
        BY <1>4, <2>1, <2>2, <3>2 DEF Rep
      <4>2. states'[Rep(o)] = states[Rep(o)] \/ Len(states'[Rep(o)]) = 1
        BY <2>1, <4>1
      <4>3. Len(states'[Rep(o)]) = 1 => Len(states'[Rep(o)]) <= 1
        OBVIOUS
      <4> QED BY <4>1, <4>2, <4>3
    <3> QED BY <3>1, <3>2
  <2> QED BY <1>1, <2>2 DEF Single, OneState
<1>6. ASSUME NEW n \in Vert, MergeNeighbor(t, n), comp[ufs[cur[t]]] # comp[ufs[n]]
      PROVE  Single'
  <2>1. PICK w \in Vert, l \in Vert :
           /\ {w, l} = {comp[ufs[cur[t]]], comp[ufs[n]]}
           /\ comp' = [u \in Vert |-> IF comp[u] = l THEN w ELSE comp[u]]
           /\ \A u \in Vert : u # w => states'[u] = states[u]
    <3>1. PICK w \in Vert, l \in Vert : Absorbs(t, n, w, l)
      BY <1>6, UniteStates
    <3> QED BY <3>1 DEF Absorbs
  <2>2. pc[t] = "merge" /\ n \in todo[t] /\ pc' = pc
    BY <1>6 DEF MergeNeighbor
  <2>3. n \in Lower(cur[t]) /\ ~Absorbed(t)
    BY <2>2 DEF GInv, AtSaddle, SaddleOf, Absorbed, Parked
  <2>4. {w, l} \subseteq Holds(t)
    BY <2>1, <2>2, <2>3, HoldsFacts
  <2>5. ASSUME NEW o \in Leaves, Sweeping(o)', pc'[o] \notin {"merge", "decide"}
        PROVE  Len(states'[Rep(o)']) <= 1
    <3>1. o # t
      BY <2>2, <2>5
    <3>2. /\ startUF'[o] = startUF[o] /\ Rep(o) \in Vert /\ Rep(o) \notin {w, l}
          /\ Len(states[Rep(o)]) <= 1 /\ startUF[o] \in Vert
      BY <1>4, <2>3, <2>4, <2>5, <3>1, SoleRep, LeavesFacts DEF Types
    <3>3. Rep(o)' = Rep(o)
      BY <2>1, <3>2 DEF Rep
    <3> QED BY <2>1, <3>2, <3>3
  <2> QED BY <1>1, <2>5 DEF Single, OneState
<1>7. ASSUME comp' = comp, states' = states, startUF' = startUF,
             Sweeping(t)' /\ pc'[t] \notin {"merge", "decide"} => Len(states[Rep(t)]) <= 1
      PROVE  Single'
  <2>1. ASSUME NEW o \in Leaves PROVE Rep(o)' = Rep(o) /\ states'[Rep(o)] = states[Rep(o)]
    BY <1>7 DEF Rep
  <2> QED BY <1>1, <1>4, <1>7, <2>1 DEF Single, OneState
<1>8. ASSUME ~(Start(t) \/ Visit(t) \/ CloseRoot(t)),
             ~\E n \in Vert : MergeNeighbor(t, n) /\ comp[ufs[cur[t]]] # comp[ufs[n]]
      PROVE  Single'
  <2>1. comp' = comp /\ states' = states /\ startUF' = startUF
    BY <1>8 DEF TaskStep, OnlyLeaf, Launch, Capture, CaptureWith, Publish, OpenNode, Retire,
       MergeNeighbor, CloseArcs, Restart, callVars, ufVars, find
  <2>2. CASE \/ OnlyLeaf(t) \/ Launch(t) \/ Capture(t) \/ Publish(t) \/ OpenNode(t)
             \/ Retire(t)
    <3>1. pc[t] \in {"waiting", "capture", "publish", "open", "retire"}
      BY <2>2 DEF OnlyLeaf, Launch, Capture, CaptureWith, Publish, OpenNode, Retire
    <3>2. ASSUME Absorbed(t) PROVE ~Sweeping(t)' \/ pc'[t] \in {"merge", "decide"}
      <4>1. /\ pc[t] \in {"publish", "open", "retire"} /\ isSaddle[t] /\ ~isLast[t]
            /\ cur[t] \in Vert /\ vert2tree[cur[t]] # Null
        BY <3>1, <3>2 DEF Absorbed, Parked, GInv, AtSaddle, SaddleOf
      <4>2. Publish(t) \/ OpenNode(t) \/ Retire(t)
        BY <2>2, <4>1 DEF OnlyLeaf, Launch, Capture, CaptureWith
      <4>3. /\ pc'[t] \in {"open", "retire", "stopped"} /\ isSaddle' = isSaddle
            /\ isLast' = isLast /\ cur' = cur
        BY <1>1, <4>1, <4>2 DEF Publish, OpenNode, Retire, Goto, callVars, visitVars, Types
      <4>4. Absorbed(t)'
        BY <4>1, <4>3, StepFrame DEF Absorbed, Parked
      <4> QED BY <4>4 DEF Sweeping
    <3>3. ~Absorbed(t) => Sweeping(t) /\ pc[t] \notin {"merge", "decide"}
      BY <3>1 DEF Sweeping
    <3> QED BY <1>7, <2>1, <3>2, <3>3 DEF GInv, Single, OneState
  <2>3. CASE CloseArcs(t)
    <3>1. pc'[t] = "decide"
      BY <1>1, <2>3 DEF CloseArcs, Goto, Types
    <3> QED BY <1>7, <2>1, <3>1
  <2>4. ASSUME NEW n \in Vert, MergeNeighbor(t, n) PROVE Single'
    <3>1. pc'[t] = "merge"
      BY <2>4 DEF MergeNeighbor
    <3> QED BY <1>7, <2>1, <3>1
  <2>5. CASE Restart(t)
    <3>1. pc[t] = "decide" /\ ~(Len(states[comp[ufs[cur[t]]]]) > 1)
      BY <2>5 DEF Restart, ToMerge, find
    <3>2. comp[ufs[cur[t]]] = Rep(t) /\ Rep(t) \in Vert
      BY <1>1, <3>1 DEF GInv, AtSaddle, SaddleOf, Belongs, Types, Rep
    <3> DEFINE k == Len(states[Rep(t)])
    <3>3. k \in Nat /\ ~(k > 1)
      BY <3>1, <3>2, LenProperties DEF Types, Listed
    <3> HIDE DEF k
    <3>4. k <= 1
      BY <3>3
    <3> QED BY <1>7, <2>1, <3>4 DEF k
  <2> QED BY <1>8, <2>2, <2>3, <2>4, <2>5 DEF TaskStep
<1> QED BY <1>5, <1>6, <1>8

(* leafGrowth makes the set of a leaf.                                     *)
LEMMA LaunchKeeps ==
    ASSUME Types, GInv, NEW t \in Leaves, OnlyLeaf(t) \/ Launch(t)
    PROVE  /\ Types' /\ GInv'
           /\ \A v \in Vert : vert2tree[v] = Null => Accounted(v)' = Accounted(v)
<1>1. /\ t \in Vert /\ pc[t] = "waiting" /\ ufs' = [ufs EXCEPT ![t] = t]
      /\ pc' = [pc EXCEPT ![t] = "stopped"] \/ pc' = [pc EXCEPT ![t] = "start"]
      /\ UNCHANGED <<mesh, comp, states, heap, valences, vert2tree, lastVisited,
                     startVert, startUF, seenFirst, cur, isSaddle, isLast,
                     decr, todo>>
  BY HeapSame, LeavesFacts DEF OnlyLeaf, Launch, Goto, ufVars, segmVars, callVars, visitVars
<1>2. /\ Leaves' = Leaves /\ \A v \in Vert : Lower(v)' = Lower(v)
      /\ \A v \in Vert : Lower(v) \subseteq Vert
  BY <1>1, SameMesh, LowerFacts DEF Types
<1>3. Types'
  BY <1>1, <1>2 DEF Types
<1>4. /\ startVert[t] = t /\ startUF[t] = t /\ ufs[t] = Null /\ ~isSaddle[t]
      /\ vert2tree[t] = IsNode /\ Holds(t) = {comp[t]} /\ Rep(t) = comp[t]
      /\ cur[t] \in {Null, t} /\ ~Absorbed(t) /\ Lower(t) = {}
      /\ Top(t) = t
  BY <1>1, LeavesFacts DEF GInv, Arcs, ArcOf, Holds, Rep, Absorbed, Parked, Top
<1>5. \A n, u : n \in Vert => (Belongs(n, u)' <=> Belongs(n, u) \/ (n = t /\ u = comp[t]))
  BY <1>1, <1>4, VertFacts DEF Belongs, Types
<1>6. \A o \in Leaves : o # t =>
         /\ pc'[o] = pc[o] /\ Parked(o)' = Parked(o) /\ Claims(o)' = Claims(o)
         /\ Absorbed(o)' = Absorbed(o) /\ Captured(o)' = Captured(o)
         /\ Sweeping(o)' = Sweeping(o) /\ Rep(o)' = Rep(o) /\ Top(o)' = Top(o)
  BY <1>1, LeavesFacts DEF Types, Parked, Claims, Absorbed, Captured, Sweeping, Rep, Top
<1>7. /\ ~Parked(t)' /\ ~Claims(t)' /\ ~Absorbed(t)' /\ ~Captured(t)'
      /\ Rep(t)' = comp[t] /\ Holds(t)' = {comp[t]}
      /\ Sweeping(t)' => Top(t)' = t /\ Sweeping(t)
      /\ pc'[t] \in {"start", "stopped"}
  BY <1>1, <1>4 DEF Parked, Claims, Absorbed, Captured, Sweeping, Rep, Top, Holds, Types
<1>8. \A w \in Vert : ufs[w] # Null => ufs'[w] = ufs[w] /\ w # t
  BY <1>1, <1>4 DEF Types
<1>9. \A o \in Leaves : o # t => Holds(o)' = Holds(o)
  <2> SUFFICES ASSUME NEW o \in Leaves, o # t PROVE Holds(o)' = Holds(o)
    OBVIOUS
  <2>1. CASE pc[o] # "merge"
    BY <2>1, <1>6 DEF Holds
  <2>2. CASE pc[o] = "merge"
    <3>1. /\ cur[o] \in Vert /\ ufs[cur[o]] # Null
          /\ \A n \in Lower(cur[o]) : ufs[n] # Null
      BY <2>2, HoldsFacts DEF GInv, AtSaddle, SaddleOf
    <3>2. /\ ufs'[cur[o]] = ufs[cur[o]] /\ cur'[o] = cur[o]
          /\ \A n \in Lower(cur[o]) : ufs'[n] = ufs[n]
          /\ Lower(cur[o])' = Lower(cur[o])
      BY <1>1, <1>2, <1>8, <3>1
    <3>3. Merged(o)' = Merged(o)
      BY <1>1, <3>2 DEF Merged, find
    <3> QED BY <2>2, <1>6, <3>3 DEF Holds
  <2> QED BY <2>1, <2>2
<1>10. Representatives'
  BY <1>1, <1>2, <1>6, <1>7 DEF GInv, Representatives
<1>11. Exclusive'
  BY <1>2, <1>4, <1>6, <1>7, <1>9 DEF GInv, Exclusive
<1>12. Swept'
  <2> SUFFICES ASSUME NEW o \in Leaves, Sweeping(o)', NEW u \in Holds(o)',
                      NEW x \in Vert, Belongs(x, u)'
               PROVE  x <= Top(o)'
    BY <1>2 DEF Swept, SweptOf
  <2>1. CASE o = t
    <3>1. CASE x = t
      BY <2>1, <3>1, <1>1, <1>7, VertFacts
    <3>2. CASE x # t
      BY <2>1, <3>2, <1>4, <1>5, <1>7 DEF GInv, Swept, SweptOf
    <3> QED BY <3>1, <3>2
  <2>2. CASE o # t
    <3>1. ~Absorbed(o) /\ Sweeping(o)
      BY <2>2, <1>6 DEF Sweeping
    <3>2. u \in Holds(o) /\ u # comp[t]
      BY <2>2, <3>1, <1>4, <1>9 DEF GInv, Exclusive
    <3> QED BY <2>2, <3>1, <3>2, <1>5, <1>6 DEF GInv, Swept, SweptOf
  <2> QED BY <2>1, <2>2
<1>13. Queues'
  <2> SUFFICES ASSUME NEW o \in Leaves, Sweeping(o)', NEW u \in Holds(o)',
                      NEW x \in Vert, heap[u][x] > 0
               PROVE  /\ x >= Top(o)'
                      /\ x = Top(o)' \/ \E n \in Lower(x) : Belongs(n, u)' \/ n = Top(o)'
    BY <1>1, <1>2 DEF Queues, QueueOf
  <2>1. Sweeping(o) /\ u \in Holds(o) /\ Top(o)' = Top(o)
    BY <1>4, <1>6, <1>7, <1>9
  <2> QED BY <2>1, <1>2, <1>5 DEF GInv, Queues, QueueOf
<1>14. Arcs'
  <2> SUFFICES ASSUME NEW o \in Leaves
               PROVE  /\ vert2tree[startVert[o]] = IsNode
                      /\ pc'[o] = "waiting" =>
                            startVert[o] = o /\ startUF[o] = o /\ ufs'[o] = Null /\ ~isSaddle[o]
                      /\ pc'[o] \in {"waiting", "start"} => cur[o] \in {Null, startVert[o]}
                      /\ pc'[o] # "waiting" /\ Sweeping(o)' => Belongs(startVert[o], Rep(o))'
                      /\ pc'[o] = "pop" =>
                            /\ Belongs(Top(o), Rep(o))'
                            /\ seenFirst[o] => /\ cur[o] \in Vert
                                               /\ cur[o] = startVert[o] \/ OnArc(cur[o])'
                                               /\ lastVisited[startVert[o]] = cur[o]
                                               /\ ~isSaddle[o]
                            /\ ~seenFirst[o] => /\ heap[startUF[o]][startVert[o]] > 0
                                                /\ cur[o] \in {Null, startVert[o]}
    BY <1>1, <1>2 DEF Arcs, ArcOf
  <2>1. CASE o = t
    BY <2>1, <1>1, <1>4, <1>5, <1>7
  <2>2. CASE o # t
    <3>1. o \in Vert /\ startVert[o] \in Vert /\ ufs'[o] = ufs[o]
      BY <2>2, <1>1, LeavesFacts DEF Types
    <3>2. pc[o] = "pop" => Top(o) \in Vert
      BY <2>2, <3>1 DEF GInv, Arcs, ArcOf, Top
    <3> QED BY <2>2, <3>1, <3>2, <1>1, <1>5, <1>6 DEF GInv, Arcs, ArcOf, OnArc
  <2> QED BY <2>1, <2>2
<1>15. LowerClosed'
  <2> SUFFICES ASSUME NEW v \in Vert, vert2tree[v] # Null, NEW n \in Lower(v)
               PROVE  /\ ufs'[n] # Null /\ ufs'[v] # Null
                      /\ \/ comp[ufs'[n]] = comp[ufs'[v]]
                         \/ \E p \in Leaves : pc'[p] = "merge" /\ cur[p] = v /\ n \in todo[p]
    BY <1>1, <1>2 DEF LowerClosed
  <2>1. ufs[n] # Null /\ ufs[v] # Null /\ ufs'[n] = ufs[n] /\ ufs'[v] = ufs[v]
    BY <1>2, <1>8 DEF GInv, LowerClosed
  <2>2. \A p \in Leaves : pc[p] = "merge" => pc'[p] = "merge"
    BY <1>1, <1>6
  <2> QED BY <2>1, <2>2 DEF GInv, LowerClosed
<1>16. Published'
  <2> SUFFICES ASSUME NEW v \in Vert, vert2tree[v] = Null, ufs'[v] # Null
               PROVE  \E p \in Leaves : /\ cur[p] = v /\ Belongs(v, Rep(p))'
                                        /\ Parked(p)' \/ Claims(p)'
                                        /\ pc'[p] # "publish"
    BY <1>1, <1>2 DEF Published
  <2>1. ufs[v] # Null
    BY <1>1, <1>4, VertFacts DEF Types
  <2>2. PICK p \in Leaves : /\ cur[p] = v /\ Belongs(v, Rep(p))
                            /\ Parked(p) \/ Claims(p)
                            /\ pc[p] # "publish"
    BY <2>1 DEF GInv, Published
  <2>3. p # t
    BY <2>2, <1>1 DEF Parked, Claims
  <2> QED BY <2>2, <2>3, <1>5, <1>6
<1>17. \A o \in Leaves : o # t /\ ~Absorbed(o) /\ cur[o] \in Vert => Own(o)' = Own(o)
  <2> SUFFICES ASSUME NEW o \in Leaves, o # t, ~Absorbed(o), cur[o] \in Vert
               PROVE  Own(o)' = Own(o)
    OBVIOUS
  <2>1. Rep(o) # comp[t]
    BY <1>4, SoleRep, HoldsFacts
  <2>2. \A n \in Lower(cur[o]) : Belongs(n, Rep(o))' <=> Belongs(n, Rep(o))
    BY <2>1, <1>2, <1>5, <1>6
  <2> QED BY <2>2, <1>1, <1>2 DEF Own
<1>18. Visits'
  <2> SUFFICES ASSUME NEW o \in Leaves PROVE VisitOf(o)'
    BY <1>2 DEF Visits
  <2>1. CASE o = t
    BY <2>1, <1>7 DEF VisitOf
  <2>2. CASE o # t
    <3> SUFFICES ASSUME pc[o] = "capture" \/ Captured(o), ~Absorbed(o)
                 PROVE  VisitOf(o)'
      BY <2>2, <1>6 DEF VisitOf
    <3>1. VisitOf(o) /\ cur[o] \in Vert
      BY DEF GInv, Visits, VisitOf
    <3>2. /\ cur' = cur /\ startVert'[o] = startVert[o] /\ seenFirst'[o] = seenFirst[o]
          /\ decr' = decr /\ isSaddle' = isSaddle /\ vert2tree' = vert2tree
      BY <2>2, <1>1 DEF Types
    <3>3. /\ Own(o)' = Own(o) /\ Lower(cur[o])' = Lower(cur[o])
          /\ pc'[o] = pc[o] /\ Captured(o)' = Captured(o) /\ Absorbed(o)' = Absorbed(o)
          /\ ufs[cur[o]] # Null => ufs'[cur[o]] = ufs[cur[o]]
      BY <2>2, <3>1, <3>2, <1>2, <1>6, <1>8, <1>17
    <3> QED BY <3>1, <3>2, <3>3 DEF VisitOf
  <2> QED BY <2>1, <2>2
<1>19. AtSaddle'
  <2> SUFFICES ASSUME NEW o \in Leaves, o # t
               PROVE  /\ Parked(o) \/ Claims(o) \/ pc[o] = "merge" =>
                            /\ cur[o] \in Vert /\ startVert[o] < cur[o]
                            /\ \E n \in Lower(cur[o]) : Belongs(n, Rep(o))'
                      /\ pc[o] = "retire" => Parked(o)
                      /\ pc[o] \in {"merge", "decide"} =>
                            /\ cur[o] \in Vert /\ isSaddle[o] /\ isLast[o]
                            /\ vert2tree[cur[o]] = IsNode /\ ufs'[cur[o]] # Null
                      /\ pc[o] = "merge" =>
                            /\ todo[o] \subseteq Lower(cur[o])
                            /\ \A n \in Lower(cur[o]) \ todo[o] :
                                  comp[ufs'[n]] = comp[ufs'[cur[o]]]
                      /\ pc[o] = "decide" => Belongs(cur[o], Rep(o))'
    <3>1. \A o \in Leaves : cur[o] \in Vert => Lower(cur[o])' = Lower(cur[o])
      BY <1>1, <1>2
    <3>2. ~Parked(t)' /\ ~Claims(t)' /\ pc'[t] \notin {"merge", "retire", "decide"}
      BY <1>7
    <3> QED BY <3>1, <3>2, <1>1, <1>2, <1>6 DEF AtSaddle, SaddleOf
  <2>1. pc[o] = "merge" => \A n \in Lower(cur[o]) : ufs'[n] = ufs[n]
    BY <1>2, <1>8, HoldsFacts
  <2> QED BY <2>1, <1>1, <1>2, <1>5, <1>6, <1>8 DEF GInv, AtSaddle, SaddleOf
<1>s. \A v \in Vert : vert2tree[v] = Null => Accounted(v)' = Accounted(v)
  <2> SUFFICES ASSUME NEW v \in Vert, vert2tree[v] = Null, NEW n \in Lower(v),
                      NEW o \in Leaves, cur[o] = v, o # t, Captured(o)
               PROVE  Belongs(n, Rep(o))' <=> Belongs(n, Rep(o))
    BY <1>1, <1>2, <1>6, <1>7 DEF Accounted, Captured, Parked
  <2>1. Own(o)' = Own(o)
    BY <1>17, AtOpenVertex
  <2> QED BY <2>1, <1>1, <1>2, <1>6 DEF Own
<1>20. Counts'
  <2> QED BY <1>s, <1>1, <1>2, <1>6, <1>7 DEF GInv, Counts
<1>o. Single'
  BY SingleKept DEF TaskStep
<1> QED BY <1>o, <1>s, <1>3, <1>10, <1>11, <1>12, <1>13, <1>14, <1>15, <1>16, <1>18, <1>19,
           <1>20 DEF GInv

(* A step that changes the locals of t only, no set, and no queue of       *)
(* another task.                                                           *)
OthersStay(t) ==
    /\ UNCHANGED <<mesh, comp, ufs>>
    /\ \A o \in Leaves \ {t} :
          /\ pc'[o] = pc[o] /\ startVert'[o] = startVert[o]
          /\ startUF'[o] = startUF[o] /\ seenFirst'[o] = seenFirst[o]
          /\ cur'[o] = cur[o] /\ isSaddle'[o] = isSaddle[o]
          /\ isLast'[o] = isLast[o] /\ decr'[o] = decr[o] /\ todo'[o] = todo[o]
          /\ lastVisited'[startVert[o]] = lastVisited[startVert[o]]

(* What such a step leaves of the other tasks.                             *)
LEMMA Others ==
    ASSUME Types, NEW t \in Leaves, OthersStay(t)
    PROVE  /\ Leaves' = Leaves /\ \A v \in Vert : Lower(v)' = Lower(v)
           /\ \A n, u : Belongs(n, u)' <=> Belongs(n, u)
           /\ \A o \in Leaves : o # t =>
                 /\ Parked(o)' = Parked(o) /\ Claims(o)' = Claims(o)
                 /\ Captured(o)' = Captured(o) /\ Rep(o)' = Rep(o)
                 /\ Top(o)' = Top(o)
                 /\ cur[o] \in Vert => Own(o)' = Own(o)
                 /\ pc[o] = "merge" /\ cur[o] \in Vert => Merged(o)' = Merged(o)
<1>1. Leaves' = Leaves /\ \A v \in Vert : Lower(v)' = Lower(v)
  BY SameMesh DEF OthersStay
<1>2. \A n, u : Belongs(n, u)' <=> Belongs(n, u)
  BY DEF OthersStay, Belongs
<1>3. ASSUME NEW o \in Leaves, o # t
      PROVE  /\ Parked(o)' = Parked(o) /\ Claims(o)' = Claims(o)
             /\ Captured(o)' = Captured(o) /\ Rep(o)' = Rep(o)
             /\ Top(o)' = Top(o)
  BY <1>3 DEF OthersStay, Parked, Claims, Captured, Rep, Top
<1>4. ASSUME NEW o \in Leaves, o # t, cur[o] \in Vert
      PROVE  Own(o)' = Own(o)
  <2>1. cur'[o] = cur[o] /\ Lower(cur[o])' = Lower(cur[o]) /\ Rep(o)' = Rep(o)
    BY <1>1, <1>3, <1>4 DEF OthersStay
  <2> QED BY <2>1, <1>2 DEF Own
<1>5. ASSUME NEW o \in Leaves, o # t, cur[o] \in Vert PROVE Merged(o)' = Merged(o)
  <2>1. cur'[o] = cur[o] /\ Lower(cur[o])' = Lower(cur[o])
    BY <1>1, <1>5 DEF OthersStay
  <2> QED BY <2>1 DEF Merged, find, OthersStay
<1> QED BY <1>1, <1>2, <1>3, <1>4, <1>5

(* A step that unites nothing and only lets go of sets keeps every part of *)
(* the invariant that speaks of sets.                                      *)
LEMMA QuietStep ==
    ASSUME Types, GInv, NEW t \in Leaves, OthersStay(t),
           \* t keeps its sets, and its place at a saddle
           Holds(t)' \subseteq Holds(t), Absorbed(t) => Absorbed(t)',
           pc[t] = "merge" => \A m \in todo[t] :
               \/ pc'[t] = "merge" /\ cur'[t] = cur[t] /\ m \in todo'[t]
               \/ comp[ufs[m]] = comp[ufs[cur[t]]],
           pc[t] # "publish" /\ (Parked(t) \/ Claims(t)) =>
               /\ Parked(t)' \/ Claims(t)'
               /\ pc'[t] # "publish"
               /\ cur'[t] = cur[t] /\ Rep(t)' = Rep(t),
           \* the queues of others are left alone
           \A u \in Vert : heap'[u] = heap[u] \/ (u = Rep(t) /\ ~Absorbed(t)),
           \* no vertex is settled, or taken off the arc of a task
           \A v \in Vert : /\ vert2tree'[v] = Null <=> vert2tree[v] = Null
                           /\ vert2tree[v] = IsNode => vert2tree'[v] = IsNode,
           \A o \in Leaves : o # t /\ pc[o] = "pop" /\ OnArc(cur[o]) => OnArc(cur[o])'
    PROVE  /\ Exclusive' /\ LowerClosed' /\ Published'
           /\ \A o \in Leaves : o # t =>
                 /\ Rep(o)' = Rep(o) /\ Absorbed(o)' = Absorbed(o)
                 /\ Parked(o)' = Parked(o) /\ Captured(o)' = Captured(o)
                 /\ Claims(o)' = Claims(o)
                 /\ SweptOf(o)' /\ QueueOf(o)' /\ ArcOf(o)' /\ VisitOf(o)' /\ SaddleOf(o)'
<1>1. /\ Leaves' = Leaves /\ \A v \in Vert : Lower(v)' = Lower(v)
      /\ \A n, u : Belongs(n, u)' <=> Belongs(n, u)
      /\ comp' = comp /\ ufs' = ufs
  BY Others DEF OthersStay
<1>2. ASSUME NEW o \in Leaves, o # t
      PROVE  /\ Parked(o)' = Parked(o) /\ Claims(o)' = Claims(o)
             /\ Captured(o)' = Captured(o) /\ Rep(o)' = Rep(o)
             /\ Top(o)' = Top(o) /\ o \in Vert /\ startVert[o] \in Vert
             /\ cur[o] \in Vert => /\ Own(o)' = Own(o)
                                   /\ pc[o] = "merge" => Merged(o)' = Merged(o)
                                   /\ Lower(cur[o])' = Lower(cur[o])
             /\ pc'[o] = pc[o] /\ startVert'[o] = startVert[o]
             /\ startUF'[o] = startUF[o] /\ seenFirst'[o] = seenFirst[o]
             /\ cur'[o] = cur[o] /\ isSaddle'[o] = isSaddle[o]
             /\ isLast'[o] = isLast[o] /\ decr'[o] = decr[o] /\ todo'[o] = todo[o]
             /\ lastVisited'[startVert[o]] = lastVisited[startVert[o]]
  <2>1. o \in Vert /\ startVert[o] \in Vert
    BY LeavesFacts DEF Types
  <2>2. /\ pc'[o] = pc[o] /\ startVert'[o] = startVert[o]
        /\ startUF'[o] = startUF[o] /\ seenFirst'[o] = seenFirst[o]
        /\ cur'[o] = cur[o] /\ isSaddle'[o] = isSaddle[o]
        /\ isLast'[o] = isLast[o] /\ decr'[o] = decr[o] /\ todo'[o] = todo[o]
        /\ lastVisited'[startVert[o]] = lastVisited[startVert[o]]
    BY <1>2 DEF OthersStay
  <2>3. /\ Parked(o)' = Parked(o) /\ Claims(o)' = Claims(o)
        /\ Captured(o)' = Captured(o) /\ Rep(o)' = Rep(o)
        /\ Top(o)' = Top(o)
        /\ cur[o] \in Vert => Own(o)' = Own(o)
        /\ pc[o] = "merge" /\ cur[o] \in Vert => Merged(o)' = Merged(o)
    BY <1>2, Others
  <2> QED BY <1>1, <2>1, <2>2, <2>3
<1>3. ASSUME NEW o \in Leaves, o # t
      PROVE  /\ Absorbed(o)' = Absorbed(o) /\ Sweeping(o)' = Sweeping(o)
             /\ Holds(o)' = Holds(o)
  <2>1. Parked(o) => cur[o] \in Vert
    BY DEF GInv, AtSaddle, SaddleOf
  <2>2. Absorbed(o)' = Absorbed(o)
    BY <1>2, <1>3, <2>1 DEF Absorbed
  <2>3. pc[o] = "merge" => cur[o] \in Vert
    BY DEF GInv, AtSaddle, SaddleOf
  <2> QED BY <1>2, <1>3, <2>2, <2>3 DEF Sweeping, Holds
<1>4. Exclusive'
  BY <1>1, <1>3 DEF GInv, Exclusive
<1>5. LowerClosed'
  <2> SUFFICES ASSUME NEW v \in Vert, vert2tree[v] # Null, NEW n \in Lower(v)
               PROVE  /\ ufs[n] # Null /\ ufs[v] # Null
                      /\ \/ comp[ufs[n]] = comp[ufs[v]]
                         \/ \E p \in Leaves : pc'[p] = "merge" /\ cur'[p] = v /\ n \in todo'[p]
    BY <1>1 DEF LowerClosed
  <2>1. ufs[n] # Null /\ ufs[v] # Null
    BY DEF GInv, LowerClosed
  <2>2. CASE comp[ufs[n]] = comp[ufs[v]]
    BY <2>1, <2>2
  <2>3. CASE \E p \in Leaves : pc[p] = "merge" /\ cur[p] = v /\ n \in todo[p]
    BY <1>2, <2>1, <2>3
  <2> QED BY <2>2, <2>3 DEF GInv, LowerClosed
<1>6. Published'
  <2> SUFFICES ASSUME NEW v \in Vert, vert2tree[v] = Null, ufs[v] # Null
               PROVE  \E p \in Leaves : /\ cur'[p] = v /\ Belongs(v, Rep(p))'
                                        /\ Parked(p)' \/ Claims(p)'
                                        /\ pc'[p] # "publish"
    BY <1>1 DEF Published
  <2>1. PICK p \in Leaves : /\ cur[p] = v /\ Belongs(v, Rep(p))
                            /\ Parked(p) \/ Claims(p)
                            /\ pc[p] # "publish"
    BY DEF GInv, Published
  <2>2. Rep(p)' = Rep(p) /\ cur'[p] = cur[p] /\ pc'[p] # "publish"
        /\ (Parked(p)' \/ Claims(p)')
    BY <1>2, <2>1
  <2> QED BY <1>1, <2>1, <2>2
<1>7. ASSUME NEW o \in Leaves, o # t PROVE SweptOf(o)'
  BY <1>1, <1>2, <1>3, <1>7 DEF GInv, Swept, SweptOf
<1>8. ASSUME NEW o \in Leaves, o # t, ~Absorbed(o), NEW u \in Holds(o)
      PROVE  heap'[u] = heap[u]
  <2>1. u \in Vert
    BY HoldsInVert
  <2>2. u = Rep(t) => Absorbed(t)
    BY <1>8, SoleRep
  <2> QED BY <2>1, <2>2
<1>9. ASSUME NEW o \in Leaves, o # t PROVE QueueOf(o)'
  <2> SUFFICES ASSUME Sweeping(o), NEW u \in Holds(o), NEW x \in Vert, heap[u][x] > 0
               PROVE  /\ x >= Top(o)
                      /\ x = Top(o) \/ \E n \in Lower(x) : Belongs(n, u) \/ n = Top(o)
    BY <1>1, <1>2, <1>3, <1>8, <1>9 DEF QueueOf, Sweeping
  <2> QED BY DEF GInv, Queues, QueueOf
<1>10. ASSUME NEW o \in Leaves, o # t PROVE ArcOf(o)'
  <2>1. /\ vert2tree'[startVert[o]] = IsNode
        /\ pc[o] = "pop" => heap'[startUF[o]] = heap[startUF[o]]
    <3>1. pc[o] = "pop" => startUF[o] \in Holds(o) /\ ~Absorbed(o)
      BY DEF Holds, Absorbed, Parked, GInv, Representatives
    <3> QED BY <1>2, <1>8, <1>10, <3>1 DEF GInv, Arcs, ArcOf
  <2>2. ArcOf(o)
    BY DEF GInv, Arcs
  <2> QED BY <1>1, <1>2, <1>3, <1>10, <2>1, <2>2 DEF ArcOf
<1>11. ASSUME NEW o \in Leaves, o # t PROVE VisitOf(o)'
  <2> SUFFICES ASSUME (pc[o] = "capture" \/ Captured(o)) /\ ~Absorbed(o)
               PROVE  VisitOf(o)'
    BY <1>2, <1>3, <1>11 DEF VisitOf
  <2>1. cur[o] \in Vert /\ VisitOf(o)
    BY DEF GInv, Visits, VisitOf
  <2>2. vert2tree'[cur[o]] = Null <=> vert2tree[cur[o]] = Null
    BY <2>1
  <2> QED BY <1>1, <1>2, <1>3, <1>11, <2>1, <2>2 DEF VisitOf
<1>12. ASSUME NEW o \in Leaves, o # t PROVE SaddleOf(o)'
  <2>1. SaddleOf(o)
    BY DEF GInv, AtSaddle
  <2>2. /\ Parked(o) \/ Claims(o) \/ pc[o] = "merge" => cur[o] \in Vert
        /\ pc[o] \in {"merge", "decide"} =>
              cur[o] \in Vert /\ vert2tree'[cur[o]] = IsNode
    BY <2>1 DEF SaddleOf
  <2> QED BY <1>1, <1>2, <1>12, <2>1, <2>2 DEF SaddleOf
<1> QED BY <1>2, <1>3, <1>4, <1>5, <1>6, <1>7, <1>9, <1>10, <1>11, <1>12

(* A step that does not take a valence keeps the counts of all vertices.   *)
LEMMA QuietCounts ==
    ASSUME Types, GInv, NEW t \in Leaves, OthersStay(t), valences' = valences,
           \A v \in Vert : vert2tree'[v] = Null <=> vert2tree[v] = Null,
           Captured(t)' <=> Captured(t), Claims(t)' => Claims(t),
           Captured(t) => cur'[t] = cur[t] /\ Rep(t)' = Rep(t)
    PROVE  Counts'
<1>1. /\ Leaves' = Leaves /\ \A v \in Vert : Lower(v)' = Lower(v)
      /\ \A n, u : Belongs(n, u)' <=> Belongs(n, u)
      /\ \A o \in Leaves : o # t => /\ Captured(o)' = Captured(o) /\ Rep(o)' = Rep(o)
                                    /\ Claims(o)' = Claims(o) /\ cur'[o] = cur[o]
  BY Others DEF OthersStay
<1>2. \A o \in Leaves : /\ Captured(o)' <=> Captured(o)
                        /\ Captured(o) => cur'[o] = cur[o] /\ Rep(o)' = Rep(o)
                        /\ Claims(o)' => Claims(o) /\ cur'[o] = cur[o]
  BY <1>1 DEF Captured, Claims
<1>3. \A v \in Vert : Accounted(v)' = Accounted(v)
  <2> SUFFICES ASSUME NEW v \in Vert, NEW n \in Lower(v), NEW o \in Leaves
               PROVE  cur'[o] = v /\ Captured(o)' /\ Belongs(n, Rep(o))' <=>
                      cur[o] = v /\ Captured(o) /\ Belongs(n, Rep(o))
    BY <1>1 DEF Accounted
  <2> QED BY <1>1, <1>2
<1>4. \A o \in Leaves : Claims(o) => cur[o] \in Vert
  BY ClaimFacts
<1> QED BY <1>1, <1>2, <1>3, <1>4 DEF GInv, Counts

(* arcGrowth recovers the state of its set.                                *)
LEMMA StartKeeps ==
    ASSUME Types, GInv, NEW t \in Leaves, Start(t)
    PROVE  Types' /\ GInv'
<1> DEFINE v == startVert[t]
           u == comp[ufs[v]]
<1>1. /\ t \in Vert /\ v \in Vert /\ pc[t] = "start"
      /\ pc' = [pc EXCEPT ![t] = "pop"] /\ startUF' = [startUF EXCEPT ![t] = u]
      /\ seenFirst' = [seenFirst EXCEPT ![t] = FALSE]
      /\ UNCHANGED <<mesh, comp, ufs, valences, vert2tree, lastVisited, startVert,
                     cur, isSaddle, isLast, decr, todo>>
  BY LeavesFacts DEF Start, Goto, find, ufVars, visitVars, callVars, treeVars, segmVars, Types
<1>2. /\ Sweeping(t) /\ ~Absorbed(t) /\ Belongs(v, Rep(t)) /\ Holds(t) = {Rep(t)}
      /\ Top(t) = v /\ ~Captured(t) /\ ~Parked(t) /\ ~Claims(t)
      /\ cur[t] \in {Null, v} /\ vert2tree[v] = IsNode
  BY <1>1 DEF Sweeping, Absorbed, Parked, Claims, Captured, Holds, Top, GInv, Arcs, ArcOf
<1>3. u = Rep(t) /\ u \in Vert /\ comp[u] = u
  BY <1>1, <1>2 DEF Belongs, Types, Rep, GInv, Representatives
<1>4. /\ pc'[t] = "pop" /\ startUF'[t] = u /\ seenFirst'[t] = FALSE
      /\ \A x \in Vert : heap'[u][x] > 0 <=> x = v \/ heap[u][x] > 0
      /\ \A w \in Vert : w # u => heap'[w] = heap[w]
      /\ states' \in Listed
  <2>1. pc'[t] = "pop" /\ startUF'[t] = u /\ seenFirst'[t] = FALSE
    BY <1>1 DEF Types
  <2> QED BY <1>3, <2>1, StartStates
<1>5. /\ Rep(t)' = u /\ Holds(t)' = {u} /\ Top(t)' = v
      /\ ~Absorbed(t)' /\ ~Parked(t)' /\ ~Claims(t)' /\ ~Captured(t)' /\ Sweeping(t)'
  BY <1>1, <1>3, <1>4 DEF Rep, Holds, Top, Absorbed, Parked, Claims, Captured, Sweeping
<1>6. OthersStay(t)
  BY <1>1 DEF OthersStay, Types
<1>7. /\ Leaves' = Leaves /\ \A w \in Vert : Lower(w)' = Lower(w)
      /\ \A n, w : Belongs(n, w)' <=> Belongs(n, w)
  BY <1>6, Others
<1>8. /\ Exclusive' /\ LowerClosed' /\ Published'
      /\ \A o \in Leaves : o # t =>
            /\ Rep(o)' = Rep(o)
            /\ SweptOf(o)' /\ QueueOf(o)' /\ ArcOf(o)' /\ VisitOf(o)' /\ SaddleOf(o)'
  BY <1>1, <1>2, <1>3, <1>4, <1>5, <1>6, QuietStep DEF OnArc
<1>9. Counts'
  BY <1>1, <1>2, <1>5, <1>6, QuietCounts
<1>10. Types'
  <2>1. states' \in Listed
    BY <1>4
  <2>2. startUF' \in [Vert -> Vert]
    BY <1>1, <1>3 DEF Types
  <2>3. /\ seenFirst' \in [Vert -> BOOLEAN]
        /\ pc' \in [Vert -> {"none", "waiting", "start", "pop", "capture", "publish",
                             "open", "retire", "merge", "decide", "stopped"}]
        /\ \A w \in Vert \ Leaves : pc'[w] = "none"
    BY <1>1 DEF Types
  <2>4. UNCHANGED <<mesh, comp, ufs, valences, vert2tree, lastVisited, startVert,
                    cur, isSaddle, isLast, decr, todo>>
    BY <1>1
  <2> QED BY <1>7, <2>1, <2>2, <2>3, <2>4 DEF Types
<1>11. Representatives'
  BY <1>1, <1>4, <1>5, <1>6, <1>7, <1>8 DEF GInv, Representatives, OthersStay
<1>12. SweptOf(t)' /\ VisitOf(t)' /\ SaddleOf(t)'
  <2>1. \A x \in Vert : Belongs(x, u) => x <= v
    BY <1>2, <1>3 DEF GInv, Swept, SweptOf
  <2> QED BY <1>4, <1>5, <1>7, <2>1 DEF SweptOf, VisitOf, SaddleOf
<1>13. QueueOf(t)'
  <2> SUFFICES ASSUME NEW x \in Vert, heap'[u][x] > 0
               PROVE  x >= v /\ (x = v \/ \E n \in Lower(x) : Belongs(n, u) \/ n = v)
    BY <1>5, <1>7 DEF QueueOf
  <2>1. CASE x = v
    BY <2>1, <1>1, VertFacts
  <2>2. CASE x # v
    <3>1. heap[u][x] > 0
      BY <2>2, <1>4
    <3> QED BY <3>1, <1>2, <1>3 DEF GInv, Queues, QueueOf
  <2> QED BY <2>1, <2>2
<1>14. ArcOf(t)'
  <2>1. heap'[u][v] > 0
    BY <1>1, <1>4
  <2> QED BY <2>1, <1>1, <1>2, <1>3, <1>4, <1>5, <1>7 DEF ArcOf
<1>o. Single'
  BY SingleKept DEF TaskStep
<1> QED BY <1>o, <1>7, <1>8, <1>9, <1>10, <1>11, <1>12, <1>13, <1>14
        DEF GInv, Swept, Queues, Arcs, Visits, AtSaddle

(* A task that is not the last at a saddle stops there.                    *)
LEMMA RetireKeeps ==
    ASSUME Types, GInv, NEW t \in Leaves, Retire(t)
    PROVE  Types' /\ GInv'
<1>1. /\ t \in Vert /\ pc[t] = "retire" /\ pc' = [pc EXCEPT ![t] = "stopped"]
      /\ UNCHANGED <<mesh, comp, ufs, states, heap, valences, vert2tree, lastVisited, startVert,
                     startUF, seenFirst, cur, isSaddle, isLast, decr, todo>>
  BY HeapSame, LeavesFacts DEF Retire, Goto, ufVars, visitVars, callVars, treeVars, segmVars
<1>2. pc'[t] = "stopped"
  BY <1>1 DEF Types
<1>3. Parked(t) /\ SaddleOf(t)
  BY <1>1 DEF GInv, AtSaddle, SaddleOf
<1>4. /\ Parked(t)' /\ Absorbed(t)' = Absorbed(t) /\ ~Claims(t) /\ ~Claims(t)'
      /\ Captured(t)' /\ Captured(t) /\ Rep(t)' = Rep(t) /\ Top(t)' = Top(t)
      /\ Holds(t)' = Holds(t) /\ Sweeping(t)' = Sweeping(t)
  BY <1>1, <1>2, <1>3 DEF Parked, Absorbed, Claims, Captured, Rep, Holds, Top, Sweeping
<1>6. OthersStay(t)
  BY <1>1 DEF OthersStay, Types
<1>7. /\ Leaves' = Leaves /\ \A w \in Vert : Lower(w)' = Lower(w)
      /\ \A n, w : Belongs(n, w)' <=> Belongs(n, w)
  BY <1>6, Others
<1>8. /\ Exclusive' /\ LowerClosed' /\ Published'
      /\ \A o \in Leaves : o # t =>
            /\ Rep(o)' = Rep(o)
            /\ SweptOf(o)' /\ QueueOf(o)' /\ ArcOf(o)' /\ VisitOf(o)' /\ SaddleOf(o)'
  BY <1>1, <1>2, <1>3, <1>4, <1>6, QuietStep DEF OnArc
<1>9. Counts'
  BY <1>1, <1>4, <1>6, QuietCounts
<1>10. Types'
  BY <1>1, <1>7 DEF Types
<1>11. Representatives'
  BY <1>1, <1>2, <1>7, <1>8 DEF GInv, Representatives
<1>12. SweptOf(t)' /\ QueueOf(t)'
  BY <1>1, <1>4, <1>7 DEF GInv, Swept, SweptOf, Queues, QueueOf
<1>13. ArcOf(t)'
  BY <1>1, <1>2, <1>4, <1>7 DEF GInv, Arcs, ArcOf
<1>14. SaddleOf(t)' /\ VisitOf(t)'
  <2>1. cur[t] \in Vert /\ Lower(cur[t])' = Lower(cur[t])
    BY <1>1, <1>3, <1>7 DEF SaddleOf
  <2>2. Own(t)' = Own(t)
    BY <1>1, <1>4, <1>7, <2>1 DEF Own
  <2>3. SaddleOf(t)'
    BY <1>1, <1>2, <1>3, <1>4, <1>7, <2>1 DEF SaddleOf
  <2>4. VisitOf(t)'
    BY <1>1, <1>2, <1>4, <2>1, <2>2 DEF GInv, Visits, VisitOf
  <2> QED BY <2>3, <2>4
<1>o. Single'
  BY SingleKept DEF TaskStep
<1> QED BY <1>o, <1>7, <1>8, <1>9, <1>10, <1>11, <1>12, <1>13, <1>14
        DEF GInv, Swept, Queues, Arcs, Visits, AtSaddle

(* The last task at a saddle has merged the sets that meet there.          *)
LEMMA CloseArcsKeeps ==
    ASSUME Types, GInv, NEW t \in Leaves, CloseArcs(t)
    PROVE  Types' /\ GInv'
<1>1. /\ t \in Vert /\ pc[t] = "merge" /\ todo[t] = {}
      /\ pc' = [pc EXCEPT ![t] = "decide"]
      /\ UNCHANGED <<mesh, comp, ufs, states, heap, valences, vert2tree, lastVisited, startVert,
                     startUF, seenFirst, cur, isSaddle, isLast, decr, todo>>
  BY HeapSame, LeavesFacts DEF CloseArcs, Goto, visitVars, callVars, segmVars
<1>2. pc'[t] = "decide"
  BY <1>1 DEF Types
<1>3. /\ SaddleOf(t) /\ cur[t] \in Vert /\ ufs[cur[t]] # Null
      /\ Rep(t) \in Holds(t) /\ ~Absorbed(t)
  BY <1>1, HoldsFacts DEF GInv, AtSaddle, SaddleOf, Absorbed, Parked
<1>4. Holds(t) = {Rep(t)} /\ comp[ufs[cur[t]]] = Rep(t)
  <2>1. \A n \in Lower(cur[t]) : comp[ufs[n]] = comp[ufs[cur[t]]]
    BY <1>1, <1>3 DEF SaddleOf
  <2>2. Holds(t) = {comp[ufs[cur[t]]]}
    BY <1>1, <2>1 DEF Holds, Merged, find
  <2> QED BY <1>3, <2>2
<1>5. /\ ~Parked(t) /\ ~Parked(t)' /\ ~Absorbed(t)' /\ ~Claims(t) /\ ~Claims(t)'
      /\ ~Captured(t)' /\ ~Captured(t) /\ Rep(t)' = Rep(t) /\ Top(t)' = Top(t)
      /\ Holds(t)' = {Rep(t)} /\ Sweeping(t)' = Sweeping(t)
      /\ Belongs(cur[t], Rep(t))
  BY <1>1, <1>2, <1>3, <1>4
     DEF Parked, Absorbed, Claims, Captured, Rep, Holds, Top, Sweeping, Belongs
<1>6. OthersStay(t)
  BY <1>1 DEF OthersStay, Types
<1>7. /\ Leaves' = Leaves /\ \A w \in Vert : Lower(w)' = Lower(w)
      /\ \A n, w : Belongs(n, w)' <=> Belongs(n, w)
  BY <1>6, Others
<1>8. /\ Exclusive' /\ LowerClosed' /\ Published'
      /\ \A o \in Leaves : o # t =>
            /\ Rep(o)' = Rep(o)
            /\ SweptOf(o)' /\ QueueOf(o)' /\ ArcOf(o)' /\ VisitOf(o)' /\ SaddleOf(o)'
  BY <1>1, <1>2, <1>3, <1>4, <1>5, <1>6, QuietStep DEF OnArc
<1>9. Counts'
  BY <1>1, <1>5, <1>6, QuietCounts
<1>10. Types'
  BY <1>1, <1>7 DEF Types
<1>11. Representatives'
  BY <1>1, <1>2, <1>6, <1>7, <1>8 DEF GInv, Representatives, OthersStay
<1>12. SweptOf(t)' /\ QueueOf(t)'
  BY <1>1, <1>4, <1>5, <1>7 DEF GInv, Swept, SweptOf, Queues, QueueOf
<1>13. ArcOf(t)'
  BY <1>1, <1>2, <1>5, <1>7 DEF GInv, Arcs, ArcOf
<1>14. SaddleOf(t)' /\ VisitOf(t)'
  BY <1>1, <1>2, <1>3, <1>5, <1>7 DEF SaddleOf, VisitOf
<1>o. Single'
  BY SingleKept DEF TaskStep
<1> QED BY <1>o, <1>7, <1>8, <1>9, <1>10, <1>11, <1>12, <1>13, <1>14
        DEF GInv, Swept, Queues, Arcs, Visits, AtSaddle

(* It goes on from the saddle, or leaves the rest to the trunk.            *)
LEMMA RestartKeeps ==
    ASSUME Types, GInv, NEW t \in Leaves, Restart(t)
    PROVE  Types' /\ GInv'
<1>1. /\ t \in Vert /\ pc[t] = "decide"
      /\ \/ pc' = [pc EXCEPT ![t] = "stopped"] /\ startVert' = startVert
         \/ pc' = [pc EXCEPT ![t] = "start"] /\ startVert' = [startVert EXCEPT ![t] = cur[t]]
      /\ UNCHANGED <<mesh, comp, ufs, states, heap, valences, vert2tree, lastVisited,
                     startUF, seenFirst, cur, isSaddle, isLast, decr, todo>>
  BY HeapSame, LeavesFacts DEF Restart, Goto, visitVars, segmVars, ufVars
<1>2. \/ pc'[t] = "stopped" /\ startVert'[t] = startVert[t]
      \/ pc'[t] = "start" /\ startVert'[t] = cur[t]
  BY <1>1 DEF Types
<1>3. /\ cur[t] \in Vert /\ isSaddle[t] /\ isLast[t] /\ vert2tree[cur[t]] = IsNode
      /\ Belongs(cur[t], Rep(t)) /\ vert2tree[startVert[t]] = IsNode
  BY <1>1 DEF GInv, AtSaddle, SaddleOf, Arcs, ArcOf
<1>5. /\ ~Parked(t) /\ ~Parked(t)' /\ ~Absorbed(t)' /\ ~Claims(t) /\ ~Claims(t)'
      /\ ~Captured(t)' /\ ~Captured(t) /\ Rep(t)' = Rep(t)
      /\ Holds(t) = {Rep(t)} /\ Holds(t)' = {Rep(t)} /\ ~Absorbed(t)
      /\ Sweeping(t) /\ Top(t) = cur[t]
      /\ Sweeping(t)' => pc'[t] = "start" /\ Top(t)' = cur[t]
  BY <1>1, <1>2, <1>3 DEF Parked, Absorbed, Claims, Captured, Rep, Holds, Top, Sweeping
<1>6. OthersStay(t)
  <2>1. \A o \in Leaves \ {t} : pc'[o] = pc[o] /\ startVert'[o] = startVert[o]
    BY <1>1, LeavesFacts DEF Types
  <2> QED BY <1>1, <2>1 DEF OthersStay
<1>7. /\ Leaves' = Leaves /\ \A w \in Vert : Lower(w)' = Lower(w)
      /\ \A n, w : Belongs(n, w)' <=> Belongs(n, w)
  BY <1>6, Others
<1>8. /\ Exclusive' /\ LowerClosed' /\ Published'
      /\ \A o \in Leaves : o # t =>
            /\ Rep(o)' = Rep(o)
            /\ SweptOf(o)' /\ QueueOf(o)' /\ ArcOf(o)' /\ VisitOf(o)' /\ SaddleOf(o)'
  BY <1>1, <1>5, <1>6, QuietStep DEF OnArc
<1>9. Counts'
  BY <1>1, <1>5, <1>6, QuietCounts
<1>10. Types'
  BY <1>1, <1>3, <1>7 DEF Types
<1>11. Representatives'
  BY <1>1, <1>2, <1>6, <1>7, <1>8 DEF GInv, Representatives, OthersStay
<1>12. SweptOf(t)' /\ QueueOf(t)'
  BY <1>1, <1>5, <1>7 DEF GInv, Swept, SweptOf, Queues, QueueOf
<1>13. ArcOf(t)'
  BY <1>1, <1>2, <1>3, <1>5, <1>7 DEF ArcOf
<1>14. SaddleOf(t)' /\ VisitOf(t)'
  BY <1>1, <1>2, <1>5 DEF SaddleOf, VisitOf
<1>o. Single'
  BY SingleKept DEF TaskStep
<1> QED BY <1>o, <1>7, <1>8, <1>9, <1>10, <1>11, <1>12, <1>13, <1>14
        DEF GInv, Swept, Queues, Arcs, Visits, AtSaddle

(* A task that finds its queue empty ends at the vertex it visited last.   *)
LEMMA CloseRootKeeps ==
    ASSUME Types, GInv, NEW t \in Leaves, CloseRoot(t)
    PROVE  Types' /\ GInv'
<1> DEFINE v == cur[t]
<1>1. /\ t \in Vert /\ pc[t] = "pop" /\ Ahead(t) = {}
      /\ pc' = [pc EXCEPT ![t] = "stopped"]
      /\ vert2tree' = [vert2tree EXCEPT ![lastVisited[startVert[t]]] = IsNode]
      /\ UNCHANGED <<mesh, comp, ufs, valences, lastVisited, startVert,
                     startUF, seenFirst, cur, isSaddle, isLast, decr, todo>>
  BY LeavesFacts DEF CloseRoot, Goto, visitVars, ufVars, callVars
<1>2. pc'[t] = "stopped"
  BY <1>1 DEF Types
<1>3. seenFirst[t]
  <2> SUFFICES ASSUME ~seenFirst[t] PROVE FALSE
    OBVIOUS
  <2>1. startVert[t] \in Vert /\ vert2tree[startVert[t]] = IsNode
        /\ heap[startUF[t]][startVert[t]] > 0
    BY <1>1 DEF GInv, Arcs, ArcOf, Types
  <2>2. startVert[t] \in Ahead(t)
    BY <1>1, <2>1, AheadFacts DEF Seen, OnArc
  <2> QED BY <1>1, <2>2
<1>4. /\ v \in Vert /\ lastVisited[startVert[t]] = v
      /\ ~isSaddle[t] /\ Top(t) = v /\ Belongs(v, Rep(t)) /\ vert2tree[startVert[t]] = IsNode
  BY <1>1, <1>3 DEF GInv, Arcs, ArcOf, Top
<1>5. v \in Vert /\ lastVisited[startVert[t]] = v /\ vert2tree[v] # Null
  BY <1>1, <1>3, <1>4, VertFacts DEF GInv, Arcs, ArcOf, OnArc
<1>6. /\ vert2tree'[v] = IsNode /\ startUF[t] = Rep(t) /\ startUF[t] \in Vert
      /\ \A w \in Vert : w # v => vert2tree'[w] = vert2tree[w]
      /\ \A w \in Vert : w # startUF[t] => heap'[w] = heap[w]
      /\ states' \in Listed
  <2>1. /\ vert2tree'[v] = IsNode /\ \A w \in Vert : w # v => vert2tree'[w] = vert2tree[w]
    BY <1>1, <1>5 DEF Types
  <2> QED BY <1>1, <2>1, AheadFacts, CloseRootStates
<1>7. /\ ~Parked(t) /\ ~Parked(t)' /\ ~Absorbed(t)' /\ ~Absorbed(t)
      /\ ~Claims(t) /\ ~Claims(t)' /\ ~Captured(t)' /\ ~Captured(t)
      /\ Rep(t)' = Rep(t) /\ Holds(t) = {Rep(t)} /\ Holds(t)' = {Rep(t)}
      /\ ~Sweeping(t)' /\ Sweeping(t)
  BY <1>1, <1>2, <1>4 DEF Parked, Absorbed, Claims, Captured, Rep, Holds, Sweeping
<1>8. OthersStay(t)
  BY <1>1 DEF OthersStay, Types
<1>9. /\ Leaves' = Leaves /\ \A w \in Vert : Lower(w)' = Lower(w)
      /\ \A n, w : Belongs(n, w)' <=> Belongs(n, w)
  BY <1>8, Others
<1>10. \A w \in Vert : /\ vert2tree'[w] = Null <=> vert2tree[w] = Null
                       /\ vert2tree[w] = IsNode => vert2tree'[w] = IsNode
  BY <1>5, <1>6, VertFacts
<1>11. ASSUME NEW o \in Leaves, o # t, pc[o] = "pop", OnArc(cur[o])
       PROVE  OnArc(cur[o])'
  <2>1. o \in Vert /\ cur'[o] = cur[o]
    BY <1>1, LeavesFacts
  <2>2. CASE ~seenFirst[o]
    <3>1. cur[o] \in {Null, startVert[o]} /\ vert2tree[startVert[o]] = IsNode
          /\ startVert[o] \in Vert
      BY <1>11, <2>1, <2>2 DEF GInv, Arcs, ArcOf, Types
    <3>2. cur[o] # startVert[o]
      BY <1>11, <3>1 DEF OnArc
    <3>3. cur[o] = Null
      BY <3>1, <3>2
    <3>4. Null # v /\ Null \notin Vert
      BY <1>5, VertFacts
    <3>5. vert2tree'[Null] = vert2tree[Null]
      BY <1>1, <1>5, <3>4 DEF Types
    <3> QED BY <1>11, <2>1, <3>3, <3>5 DEF OnArc
  <2>3. CASE seenFirst[o]
    <3>1. cur[o] \in Vert /\ Belongs(cur[o], Rep(o)) /\ ~Absorbed(o) /\ Holds(o) = {Rep(o)}
      BY <1>11, <2>3 DEF GInv, Arcs, ArcOf, Top, Absorbed, Parked, Holds
    <3>2. cur[o] # v
      BY <1>4, <1>7, <1>11, <3>1, SoleRep DEF Belongs
    <3> QED BY <1>6, <1>11, <2>1, <3>1, <3>2 DEF OnArc
  <2> QED BY <2>2, <2>3, <2>1 DEF Types
<1>12. /\ Exclusive' /\ LowerClosed' /\ Published'
       /\ \A o \in Leaves : o # t =>
             /\ Rep(o)' = Rep(o)
             /\ SweptOf(o)' /\ QueueOf(o)' /\ ArcOf(o)' /\ VisitOf(o)' /\ SaddleOf(o)'
  <2>1. \A w \in Vert : heap'[w] = heap[w] \/ (w = Rep(t) /\ ~Absorbed(t))
    BY <1>6, <1>7
  <2> QED BY <1>1, <1>7, <1>8, <1>10, <1>11, <2>1, QuietStep
<1>13. Counts'
  BY <1>1, <1>7, <1>8, <1>10, QuietCounts
<1>14. Types'
  <2>1. states' \in Listed /\ vert2tree' \in [Vert -> Vert \cup {Null, IsNode}]
    BY <1>1, <1>5, <1>6 DEF Types
  <2>2. /\ pc' \in [Vert -> {"none", "waiting", "start", "pop", "capture", "publish",
                             "open", "retire", "merge", "decide", "stopped"}]
        /\ \A w \in Vert \ Leaves : pc'[w] = "none"
    BY <1>1 DEF Types
  <2> QED BY <1>1, <1>9, <2>1, <2>2 DEF Types
<1>15. Representatives'
  BY <1>1, <1>2, <1>8, <1>9, <1>12 DEF GInv, Representatives, OthersStay
<1>16. SweptOf(t)' /\ QueueOf(t)' /\ VisitOf(t)' /\ SaddleOf(t)' /\ ArcOf(t)'
  <2>1. vert2tree'[startVert[t]] = IsNode
    BY <1>1, <1>4, <1>10 DEF Types
  <2> QED BY <1>1, <1>2, <1>7, <2>1 DEF SweptOf, QueueOf, VisitOf, SaddleOf, ArcOf
<1>o. Single'
  BY SingleKept DEF TaskStep
<1> QED BY <1>o, <1>9, <1>12, <1>13, <1>14, <1>15, <1>16
        DEF GInv, Swept, Queues, Arcs, Visits, AtSaddle

(* atomic capture: the share of a task is taken off the valence, and the   *)
(* task whose share was all that was left is the last visitor.             *)
LEMMA CaptureKeeps ==
    ASSUME Types, GInv, NEW t \in Leaves, Capture(t)
    PROVE  /\ Types' /\ GInv'
           /\ \A w \in Vert : w # cur[t] => Accounted(w)' = Accounted(w)
           /\ Accounted(cur[t])' = Accounted(cur[t]) \cup Own(t)
           /\ vert2tree[cur[t]] = Null => Accounted(cur[t]) \cap Own(t) = {}
<1>1. /\ t \in Vert /\ pc[t] = "capture" /\ pc' = [pc EXCEPT ![t] = "publish"]
      /\ isLast' = [isLast EXCEPT ![t] = (valences[cur[t]] = decr[t])]
      /\ valences' = [valences EXCEPT ![cur[t]] = valences[cur[t]] - decr[t]]
      /\ UNCHANGED <<mesh, comp, ufs, states, heap, vert2tree, lastVisited, startVert,
                     startUF, seenFirst, cur, isSaddle, decr, todo>>
  BY HeapSame, LeavesFacts DEF Capture, CaptureWith, Goto, callVars, segmVars, ufVars
<1>2. pc'[t] = "publish" /\ (isLast'[t] <=> valences[cur[t]] = decr[t])
  BY <1>1 DEF Types
<1>3. /\ ~Absorbed(t) /\ ~Parked(t) /\ ~Claims(t) /\ ~Captured(t) /\ Sweeping(t)
      /\ Holds(t) = {Rep(t)} /\ Top(t) = cur[t]
  BY <1>1 DEF Absorbed, Parked, Claims, Captured, Sweeping, Holds, Top
<1>4. /\ cur[t] \in Vert /\ startVert[t] <= cur[t] /\ seenFirst[t]
      /\ decr[t] = Cardinality(Own(t)) /\ (isSaddle[t] <=> Own(t) # Lower(cur[t]))
      /\ IF cur[t] = startVert[t] THEN ~isSaddle[t]
         ELSE Own(t) # {} /\ vert2tree[cur[t]] = Null
  BY <1>1, <1>3 DEF GInv, Visits, VisitOf
<1>5. OthersStay(t)
  BY <1>1 DEF OthersStay, Types
<1>6. /\ Leaves' = Leaves /\ \A w \in Vert : Lower(w)' = Lower(w)
      /\ \A n, w : Belongs(n, w)' <=> Belongs(n, w)
  BY <1>5, Others
<1>7. /\ ~Absorbed(t)' /\ Captured(t)' /\ Sweeping(t)' /\ Rep(t)' = Rep(t)
      /\ Holds(t)' = {Rep(t)} /\ Top(t)' = cur[t]
      /\ Claims(t)' => isSaddle[t] /\ valences[cur[t]] = decr[t]
  BY <1>1, <1>2, <1>4 DEF Absorbed, Parked, Claims, Captured, Sweeping, Rep, Holds, Top
<1>8. /\ Exclusive' /\ LowerClosed' /\ Published'
      /\ \A o \in Leaves : o # t =>
            /\ Rep(o)' = Rep(o) /\ Captured(o)' = Captured(o) /\ Claims(o)' = Claims(o)
            /\ SweptOf(o)' /\ QueueOf(o)' /\ ArcOf(o)' /\ VisitOf(o)' /\ SaddleOf(o)'
  <2>1. \A o \in Leaves : OnArc(cur[o])' <=> OnArc(cur[o])
    BY <1>1 DEF OnArc
  <2> QED BY <1>1, <1>3, <1>5, <1>7, <2>1, QuietStep
<1>9. Types'
  <2>1. valences' \in [Vert -> Int]
    BY <1>1, <1>4 DEF Types
  <2> QED BY <1>1, <1>6, <2>1 DEF Types
<1>10. Representatives'
  BY <1>1, <1>5, <1>6, <1>7, <1>8 DEF GInv, Representatives, OthersStay
<1>11. SweptOf(t)' /\ QueueOf(t)'
  BY <1>1, <1>3, <1>6, <1>7 DEF GInv, Swept, SweptOf, Queues, QueueOf
<1>12. ArcOf(t)'
  BY <1>1, <1>2, <1>3, <1>6, <1>7 DEF GInv, Arcs, ArcOf
<1>13. Own(t)' = Own(t) /\ Lower(cur[t])' = Lower(cur[t])
  BY <1>1, <1>4, <1>6, <1>7 DEF Own
<1>14. VisitOf(t)'
  BY <1>1, <1>2, <1>4, <1>13 DEF VisitOf
<1>15. SaddleOf(t)'
  <2>1. Parked(t)' \/ Claims(t)' => startVert[t] < cur[t] /\ Own(t) # {}
    <3>1. startVert[t] \in Nat /\ cur[t] \in Nat
      BY <1>1, <1>4, VertFacts DEF Types
    <3> QED BY <1>1, <1>4, <3>1 DEF Parked, Claims
  <2> QED BY <1>1, <1>2, <1>4, <1>6, <1>7, <1>13, <2>1 DEF SaddleOf, Own
<1>s. \A w \in Vert : w # cur[t] => Accounted(w)' = Accounted(w)
  <2> SUFFICES ASSUME NEW w \in Vert, w # cur[t], NEW n \in Lower(w), NEW o \in Leaves
               PROVE  cur'[o] = w /\ Captured(o)' /\ Belongs(n, Rep(o))' <=>
                      cur[o] = w /\ Captured(o) /\ Belongs(n, Rep(o))
    BY <1>6 DEF Accounted
  <2> QED BY <1>1, <1>6, <1>8
<1>u. Accounted(cur[t])' = Accounted(cur[t]) \cup Own(t)
  <2>1. \A n \in Lower(cur[t]) : n \in Own(t) <=> Belongs(n, Rep(t))
    BY DEF Own
  <2>2. \A n \in Lower(cur[t]) : \A o \in Leaves :
            cur'[o] = cur[t] /\ Captured(o)' /\ Belongs(n, Rep(o))' <=>
            (o # t /\ cur[o] = cur[t] /\ Captured(o) /\ Belongs(n, Rep(o))) \/
            (o = t /\ n \in Own(t))
    BY <2>1, <1>1, <1>6, <1>7, <1>8
  <2>3. Accounted(cur[t])' =
           {n \in Lower(cur[t]) : \E o \in Leaves :
               cur'[o] = cur[t] /\ Captured(o)' /\ Belongs(n, Rep(o))'}
    BY <1>1, <1>4, <1>6 DEF Accounted
  <2>4. Own(t) \subseteq Lower(cur[t])
    BY DEF Own
  <2> QED BY <1>3, <2>2, <2>3, <2>4 DEF Accounted
<1>d. vert2tree[cur[t]] = Null => Accounted(cur[t]) \cap Own(t) = {}
  <2> SUFFICES ASSUME vert2tree[cur[t]] = Null, NEW n \in Own(t), NEW o \in Leaves, cur[o] = cur[t], Captured(o),
                      n \in Own(o)
               PROVE  FALSE
    BY DEF Accounted, Own
  <2>1. o # t
    BY <1>3
  <2> QED BY <1>4, <2>1, DisjointShares
<1>16. Counts'
  <2>3. ASSUME vert2tree[cur[t]] = Null
        PROVE  valences'[cur[t]] + Cardinality(Accounted(cur[t]))' = Cardinality(Lower(cur[t]))
    <3>2. IsFiniteSet(Own(t)) /\ IsFiniteSet(Accounted(cur[t]))
      BY <1>4, AccountedFacts, FS_Subset DEF Own
    <3>3. Cardinality(Accounted(cur[t]) \cup Own(t)) =
             Cardinality(Accounted(cur[t])) + Cardinality(Own(t))
      <4>1. Cardinality(Accounted(cur[t]) \cup Own(t)) =
               Cardinality(Accounted(cur[t])) + Cardinality(Own(t))
               - Cardinality(Accounted(cur[t]) \cap Own(t))
        BY <3>2, FS_Union
      <4>2. Cardinality(Accounted(cur[t]) \cap Own(t)) = 0
        BY <1>d, <2>3, FS_EmptySet
      <4>3. Cardinality(Accounted(cur[t])) \in Nat /\ Cardinality(Own(t)) \in Nat
        BY <3>2, FS_CardinalityType
      <4> QED BY <4>1, <4>2, <4>3
    <3>4. valences[cur[t]] + Cardinality(Accounted(cur[t])) = Cardinality(Lower(cur[t]))
      BY <1>4, <2>3 DEF GInv, Counts
    <3>5. valences'[cur[t]] = valences[cur[t]] - decr[t] /\ valences[cur[t]] \in Int
      BY <1>1, <1>4 DEF Types
    <3>6. Cardinality(Accounted(cur[t])) \in Nat /\ Cardinality(Own(t)) \in Nat
      BY <3>2, FS_CardinalityType
    <3> QED BY <1>1, <1>4, <1>u, <3>3, <3>4, <3>5, <3>6
  <2>4. \A w \in Vert : vert2tree'[w] = Null =>
           valences'[w] + Cardinality(Accounted(w)') = Cardinality(Lower(w))
    <3> SUFFICES ASSUME NEW w \in Vert, vert2tree[w] = Null, w # cur[t]
                 PROVE  valences'[w] + Cardinality(Accounted(w)') = Cardinality(Lower(w))
      BY <1>1, <2>3
    <3>1. valences'[w] = valences[w]
      BY <1>1 DEF Types
    <3> QED BY <1>s, <3>1 DEF GInv, Counts
  <2>5. \A o \in Leaves : Claims(o) => cur[o] # cur[t]
    BY <1>1, <1>3, ClaimAlone
  <2>6. \A o \in Leaves : Claims(o)' => valences'[cur'[o]] = 0
    <3> SUFFICES ASSUME NEW o \in Leaves, Claims(o)' PROVE valences'[cur[o]] = 0
      BY <1>1
    <3>1. CASE o = t
      <4>1. valences'[cur[t]] = valences[cur[t]] - decr[t] /\ valences[cur[t]] \in Int
        BY <1>1, <1>4 DEF Types
      <4> QED BY <3>1, <1>7, <4>1
    <3>2. CASE o # t
      <4>1. Claims(o) /\ cur[o] # cur[t] /\ valences[cur[o]] = 0 /\ cur[o] \in Vert
        BY <3>2, <1>8, <2>5, ClaimFacts DEF GInv, Counts
      <4> QED BY <1>1, <4>1 DEF Types
    <3> QED BY <3>1, <3>2
  <2>7. \A p, o \in Leaves : Claims(p)' /\ Claims(o)' /\ cur'[p] = cur'[o] => p = o
    BY <1>1, <1>8, <2>5 DEF GInv, Counts
  <2> QED BY <1>6, <2>4, <2>6, <2>7 DEF Counts
<1>o. Single'
  BY SingleKept DEF TaskStep
<1> QED BY <1>o, <1>s, <1>u, <1>d, <1>6, <1>8, <1>9, <1>10, <1>11, <1>12, <1>14, <1>15, <1>16
        DEF GInv, Swept, Queues, Arcs, Visits, AtSaddle

(* The body of the loop of arcGrowth: the next vertex of the queue.        *)
LEMMA VisitKeeps ==
    ASSUME Types, GInv, NEW t \in Leaves, Visit(t)
    PROVE  Types' /\ GInv'
<1>0. PICK v : v = Min(Ahead(t))
  OBVIOUS
<1>1. /\ t \in Vert /\ pc[t] = "pop" /\ v \in Ahead(t) /\ \A x \in Ahead(t) : v <= x
      /\ pc' = [pc EXCEPT ![t] = "capture"]
      /\ seenFirst' = [seenFirst EXCEPT ![t] = @ \/ v = startVert[t]]
      /\ cur' = [cur EXCEPT ![t] = v]
      /\ isSaddle' = [isSaddle EXCEPT ![t] =
            {n \in Lower(v) : ufs[n] # Null /\ comp[ufs[n]] = comp[startUF[t]]} # Lower(v)]
      /\ decr' = [decr EXCEPT ![t] = Cardinality(
            {n \in Lower(v) : ufs[n] # Null /\ comp[ufs[n]] = comp[startUF[t]]})]
      /\ UNCHANGED <<mesh, comp, ufs, valences, vert2tree, lastVisited,
                     startVert, startUF, isLast, todo>>
  <2>1. v \in Ahead(t) /\ \A x \in Ahead(t) : v <= x
    BY <1>0, AheadFacts DEF Visit
  <2>2. t \in Vert
    BY LeavesFacts
  <2> QED BY <1>0, <2>1, <2>2 DEF Visit, Goto, find, treeVars, trunkVars
<1>q. /\ states' \in Listed
      /\ \A x \in Vert : heap'[startUF[t]][x] > 0 =>
            x \in Upper(v) \/ x = v \/ (x > v /\ heap[startUF[t]][x] > 0)
      /\ \A w \in Vert : w # startUF[t] => heap'[w] = heap[w]
  BY <1>0, VisitStates
<1> DEFINE u == startUF[t]
           own == {n \in Lower(v) : Belongs(n, u)}
<1>2. /\ v \in Vert /\ v >= Top(t) /\ startVert[t] <= v
      /\ ~seenFirst[t] => v = startVert[t]
      /\ seenFirst[t] => /\ v > cur[t] /\ v > startVert[t] /\ vert2tree[v] = Null
                         /\ \E n \in Lower(v) : Belongs(n, Rep(t))
                         /\ \A o \in Leaves : Claims(o) => cur[o] # v
  BY <1>1, NextVertex
<1>3. /\ Rep(t) = u /\ comp[u] = u /\ u \in Vert /\ ~Absorbed(t) /\ Sweeping(t)
      /\ Holds(t) = {u} /\ ~Parked(t) /\ ~Claims(t) /\ ~Captured(t)
      /\ Belongs(Top(t), u) /\ Belongs(startVert[t], u) /\ vert2tree[startVert[t]] = IsNode
  BY <1>1 DEF Rep, Absorbed, Sweeping, Holds, Parked, Claims, Captured, Types,
     GInv, Representatives, Arcs, ArcOf
<1>4. OthersStay(t)
  BY <1>1 DEF OthersStay, Types
<1>5. /\ Leaves' = Leaves /\ \A w \in Vert : Lower(w)' = Lower(w)
      /\ \A n, w : Belongs(n, w)' <=> Belongs(n, w)
  BY <1>4, Others
<1>6. /\ pc'[t] = "capture" /\ cur'[t] = v /\ (seenFirst'[t] <=> seenFirst[t] \/ v = startVert[t])
      /\ (isSaddle'[t] <=> own # Lower(v)) /\ decr'[t] = Cardinality(own)
  BY <1>1, <1>3 DEF Types, Belongs, Rep
<1>7. /\ Rep(t)' = u /\ Holds(t)' = {u} /\ ~Absorbed(t)' /\ ~Parked(t)' /\ ~Claims(t)'
      /\ ~Captured(t)' /\ Top(t)' = v /\ Sweeping(t)'
  BY <1>1, <1>3, <1>6 DEF Rep, Absorbed, Sweeping, Holds, Parked, Claims, Captured, Top
<1>8. /\ \A w \in Vert : w # u => heap'[w] = heap[w]
      /\ states' \in Listed
      /\ \A x \in Vert : heap'[u][x] > 0 =>
            x \in Upper(v) \/ x = v \/ (x > v /\ heap[u][x] > 0)
  BY <1>q
<1>9. /\ Exclusive' /\ LowerClosed' /\ Published'
      /\ \A o \in Leaves : o # t =>
            /\ Rep(o)' = Rep(o)
            /\ SweptOf(o)' /\ QueueOf(o)' /\ ArcOf(o)' /\ VisitOf(o)' /\ SaddleOf(o)'
  <2>1. \A w \in Vert : heap'[w] = heap[w] \/ (w = Rep(t) /\ ~Absorbed(t))
    BY <1>3, <1>8
  <2>2. \A o \in Leaves : o # t /\ pc[o] = "pop" /\ OnArc(cur[o]) => OnArc(cur[o])'
    BY <1>1, <1>4 DEF OnArc, OthersStay
  <2> QED BY <1>1, <1>3, <1>4, <1>7, <2>1, <2>2, QuietStep
<1>10. Counts'
  BY <1>1, <1>3, <1>4, <1>7, QuietCounts
<1>11. IsFiniteSet(own) /\ Cardinality(own) \in Nat
  BY <1>1, <1>2, AccountedFacts, FS_Subset, FS_CardinalityType
<1>12. Types'
  <2>1. /\ pc' \in [Vert -> {"none", "waiting", "start", "pop", "capture", "publish",
                             "open", "retire", "merge", "decide", "stopped"}]
        /\ \A w \in Vert \ Leaves : pc'[w] = "none"
        /\ seenFirst' \in [Vert -> BOOLEAN] /\ cur' \in [Vert -> Vert \cup {Null}]
    BY <1>1, <1>2 DEF Types
  <2>2. isSaddle' \in [Vert -> BOOLEAN]
    BY <1>1 DEF Types
  <2>3. decr' \in [Vert -> Nat]
    BY <1>1, <1>3, <1>11 DEF Types, Belongs, Rep
  <2>4. UNCHANGED <<mesh, comp, ufs, valences, vert2tree, lastVisited,
                    startVert, startUF, isLast, todo>>
    BY <1>1
  <2> QED BY <1>5, <1>8, <2>1, <2>2, <2>3, <2>4 DEF Types
<1>13. Representatives'
  BY <1>1, <1>3, <1>4, <1>5, <1>7, <1>9 DEF GInv, Representatives, OthersStay
<1>14. startVert[t] \in Nat /\ v \in Nat /\ Top(t) \in Nat
  <2>1. startVert[t] \in Vert
    BY <1>1 DEF Types
  <2>2. Top(t) \in Vert
    BY <1>1, <2>1 DEF GInv, Arcs, ArcOf, Top
  <2> QED BY <1>2, <2>1, <2>2, VertFacts
<1>15. SweptOf(t)'
  <2> SUFFICES ASSUME NEW x \in Vert, Belongs(x, u) PROVE x <= v
    BY <1>5, <1>7 DEF SweptOf
  <2>1. x <= Top(t) /\ x \in Nat
    BY <1>3, VertFacts DEF GInv, Swept, SweptOf
  <2> QED BY <1>2, <1>14, <2>1
<1>16. QueueOf(t)'
  <2> SUFFICES ASSUME NEW x \in Vert, heap'[u][x] > 0
               PROVE  x >= v /\ (x = v \/ \E n \in Lower(x) : Belongs(n, u) \/ n = v)
    BY <1>5, <1>7 DEF QueueOf
  <2>0. x \in Nat
    BY VertFacts
  <2>1. CASE x = v
    BY <2>1, <1>14
  <2>2. CASE x \in Upper(v)
    <3>1. v \in Lower(x) /\ v < x
      BY <1>2, <2>2, LowerFacts DEF Types
    <3> QED BY <3>1, <2>0, <1>14
  <2>3. CASE x > v /\ heap[u][x] > 0
    <3>1. x # Top(t)
      BY <1>2, <1>14, <2>0, <2>3
    <3>2. PICK n \in Lower(x) : Belongs(n, u) \/ n = Top(t)
      BY <1>3, <2>3, <3>1 DEF GInv, Queues, QueueOf
    <3> QED BY <1>3, <1>14, <2>0, <2>3, <3>2
  <2> QED BY <1>8, <2>1, <2>2, <2>3
<1>17. ArcOf(t)' /\ SaddleOf(t)'
  BY <1>1, <1>3, <1>5, <1>6, <1>7 DEF ArcOf, SaddleOf
<1>18. VisitOf(t)'
  <2>1. Own(t)' = own /\ Lower(cur[t])' = Lower(v)
    BY <1>2, <1>5, <1>6, <1>7 DEF Own
  <2>2. seenFirst'[t]
    BY <1>2, <1>6
  <2>3. ASSUME v = startVert[t] PROVE own = Lower(v)
    <3> SUFFICES ASSUME NEW n \in Lower(v) PROVE Belongs(n, u)
      OBVIOUS
    <3>1. vert2tree[v] # Null /\ comp[ufs[v]] = u
      BY <1>3, <2>3, VertFacts DEF Belongs
    <3>2. \A p \in Leaves : ~(pc[p] = "merge" /\ cur[p] = v)
      <4> SUFFICES ASSUME NEW p \in Leaves, pc[p] = "merge", cur[p] = v PROVE FALSE
        OBVIOUS
      <4>1. Rep(t) \in Holds(p) /\ ~Absorbed(p)
        BY <1>3, <3>1, HoldsFacts DEF Absorbed, Parked
      <4> QED BY <1>1, <1>3, <4>1, SoleRep
    <3> QED BY <1>2, <3>1, <3>2 DEF GInv, LowerClosed, Belongs
  <2>4. ASSUME v # startVert[t] PROVE own # {} /\ vert2tree[v] = Null
    BY <1>2, <1>3, <2>4
  <2> QED BY <1>1, <1>2, <1>6, <1>7, <2>1, <2>2, <2>3, <2>4 DEF VisitOf
<1>o. Single'
  BY SingleKept DEF TaskStep
<1> QED BY <1>o, <1>5, <1>9, <1>10, <1>12, <1>13, <1>15, <1>16, <1>17, <1>18
        DEF GInv, Swept, Queues, Arcs, Visits, AtSaddle

(* openedNodes[currentVert] = 1, by a task that is not the last one.       *)
LEMMA StopKeeps ==
    ASSUME Types, GInv, NEW t \in Leaves, OpenNode(t), ~isLast[t]
    PROVE  Types' /\ GInv'
<1>1. /\ t \in Vert /\ pc[t] = "open" /\ pc' = [pc EXCEPT ![t] = "retire"]
      /\ UNCHANGED <<mesh, comp, ufs, states, heap, valences, vert2tree, lastVisited, startVert,
                     startUF, seenFirst, cur, isSaddle, isLast, decr, todo>>
  BY HeapSame, LeavesFacts DEF OpenNode, Goto, ufVars, callVars
<1>2. pc'[t] = "retire"
  BY <1>1 DEF Types
<1>3. Parked(t)
  <2>1. CASE Absorbed(t)
    BY <2>1 DEF Absorbed
  <2>2. CASE ~Absorbed(t)
    <3>1. isSaddle[t]
      BY <1>1, <2>2 DEF GInv, Visits, VisitOf, Captured
    <3> QED BY <1>1, <3>1 DEF Parked
  <2> QED BY <2>1, <2>2
<1>4. /\ Parked(t)' /\ Absorbed(t)' = Absorbed(t) /\ ~Claims(t) /\ ~Claims(t)'
      /\ Captured(t)' /\ Captured(t) /\ Rep(t)' = Rep(t) /\ Top(t)' = Top(t)
      /\ Holds(t)' = Holds(t) /\ Sweeping(t)' = Sweeping(t)
  BY <1>1, <1>2, <1>3 DEF Parked, Absorbed, Claims, Captured, Rep, Holds, Top, Sweeping
<1>6. OthersStay(t)
  BY <1>1 DEF OthersStay, Types
<1>7. /\ Leaves' = Leaves /\ \A w \in Vert : Lower(w)' = Lower(w)
      /\ \A n, w : Belongs(n, w)' <=> Belongs(n, w)
  BY <1>6, Others
<1>8. /\ Exclusive' /\ LowerClosed' /\ Published'
      /\ \A o \in Leaves : o # t =>
            /\ Rep(o)' = Rep(o)
            /\ SweptOf(o)' /\ QueueOf(o)' /\ ArcOf(o)' /\ VisitOf(o)' /\ SaddleOf(o)'
  BY <1>1, <1>2, <1>3, <1>4, <1>6, QuietStep DEF OnArc
<1>9. Counts'
  BY <1>1, <1>4, <1>6, QuietCounts
<1>10. Types'
  BY <1>1, <1>7 DEF Types
<1>11. Representatives'
  BY <1>1, <1>2, <1>6, <1>7, <1>8 DEF GInv, Representatives, OthersStay
<1>12. SweptOf(t)' /\ QueueOf(t)'
  BY <1>1, <1>4, <1>7 DEF GInv, Swept, SweptOf, Queues, QueueOf
<1>13. ArcOf(t)'
  BY <1>1, <1>2, <1>4, <1>7 DEF GInv, Arcs, ArcOf
<1>14. SaddleOf(t)' /\ VisitOf(t)'
  <2>1. SaddleOf(t) /\ cur[t] \in Vert /\ Lower(cur[t])' = Lower(cur[t])
    BY <1>1, <1>3, <1>7 DEF GInv, AtSaddle, SaddleOf
  <2>2. Own(t)' = Own(t)
    BY <1>1, <1>4, <1>7, <2>1 DEF Own
  <2>3. SaddleOf(t)'
    BY <1>1, <1>2, <1>3, <1>4, <1>7, <2>1 DEF SaddleOf
  <2>4. VisitOf(t)'
    BY <1>1, <1>2, <1>4, <2>1, <2>2 DEF GInv, Visits, VisitOf
  <2> QED BY <2>3, <2>4
<1>o. Single'
  BY SingleKept DEF TaskStep
<1> QED BY <1>o, <1>7, <1>8, <1>9, <1>10, <1>11, <1>12, <1>13, <1>14
        DEF GInv, Swept, Queues, Arcs, Visits, AtSaddle

(* The last task at a saddle makes it a node, and takes the sets of those  *)
(* that stopped there.                                                     *)
LEMMA CloseKeeps ==
    ASSUME Types, GInv, NEW t \in Leaves, OpenNode(t), isLast[t]
    PROVE  /\ Types' /\ GInv'
           /\ Sweeping(t)' /\ Top(t)' = cur[t] /\ cur[t] \in Vert
           /\ \A n, u : Belongs(n, u)' <=> Belongs(n, u)
           /\ \A o \in Leaves : o # t =>
                 /\ Absorbed(o)' <=> (Absorbed(o) \/ (Parked(o) /\ cur[o] = cur[t]))
                 /\ Sweeping(o)' => Sweeping(o)
                 /\ Holds(o)' = Holds(o) /\ Top(o)' = Top(o)
           \* where the sets that meet at the saddle come from
           /\ \A u \in Holds(t)' :
                 \E p \in Leaves : /\ cur[p] = cur[t] /\ u = Rep(p) /\ ~Absorbed(p)
                                   /\ Sweeping(p) /\ Holds(p) = {u} /\ Top(p) = cur[t]
                                   /\ p = t \/ Parked(p)
<1> DEFINE v == cur[t]
<1>1. /\ t \in Vert /\ pc[t] = "open" /\ pc' = [pc EXCEPT ![t] = "merge"]
      /\ vert2tree' = [vert2tree EXCEPT ![v] = IsNode]
      /\ todo' = [todo EXCEPT ![t] = Lower(v)]
      /\ UNCHANGED <<mesh, comp, ufs, states, heap, valences, lastVisited, startVert,
                     startUF, seenFirst, cur, isSaddle, isLast, decr>>
  BY HeapSame, LeavesFacts DEF OpenNode, Goto, ufVars, callVars
<1>2. /\ Claims(t) /\ Captured(t) /\ ~Absorbed(t) /\ ~Parked(t) /\ isSaddle[t]
      /\ Holds(t) = {Rep(t)} /\ Sweeping(t) /\ ufs[v] # Null
  <2>1. ~Absorbed(t) /\ ~Parked(t) /\ Captured(t)
    BY <1>1 DEF Absorbed, Parked, Captured
  <2>2. isSaddle[t] /\ ufs[v] # Null
    BY <1>1, <2>1 DEF GInv, Visits, VisitOf
  <2> QED BY <1>1, <2>1, <2>2 DEF Claims, Holds, Sweeping
<1>3. /\ v \in Vert /\ vert2tree[v] = Null /\ startVert[t] < v /\ v = Top(t)
      /\ Accounted(v) = Lower(v) /\ Lower(v) \subseteq Vert
      /\ \E n \in Lower(v) : Belongs(n, Rep(t))
  BY <1>2, ClaimFacts, LowerFacts DEF GInv, AtSaddle, SaddleOf, Types
<1>4. ASSUME NEW o \in Leaves, o # t, cur[o] = v
      PROVE  /\ pc[o] \notin {"pop", "capture", "merge", "decide"}
             /\ Captured(o) => Parked(o)
  BY <1>2, <1>4, ClaimAlone
<1>5. /\ Leaves' = Leaves /\ \A w \in Vert : Lower(w)' = Lower(w)
      /\ \A n, w : Belongs(n, w)' <=> Belongs(n, w)
  BY <1>1, SameMesh DEF Belongs
<1>6. /\ pc'[t] = "merge" /\ todo'[t] = Lower(v) /\ vert2tree'[v] = IsNode
      /\ \A w \in Vert : w # v => vert2tree'[w] = vert2tree[w]
      /\ \A o \in Leaves : o # t => pc'[o] = pc[o] /\ todo'[o] = todo[o]
  BY <1>1, <1>3, LeavesFacts DEF Types
<1>7. \A o \in Leaves : o # t =>
         /\ Parked(o)' = Parked(o) /\ Claims(o)' = Claims(o)
         /\ Captured(o)' = Captured(o) /\ Rep(o)' = Rep(o) /\ Top(o)' = Top(o)
  BY <1>1, <1>6 DEF Parked, Claims, Captured, Rep, Top
<1>8. ASSUME NEW o \in Leaves, o # t
      PROVE  /\ Absorbed(o)' <=> Absorbed(o) \/ (Parked(o) /\ cur[o] = v)
             /\ Sweeping(o)' => Sweeping(o)
             /\ Holds(o)' = Holds(o)
             /\ cur[o] \in Vert => Own(o)' = Own(o) /\ Lower(cur[o])' = Lower(cur[o])
  <2>1. Parked(o) => cur[o] \in Vert
    BY DEF GInv, AtSaddle, SaddleOf
  <2>2. Absorbed(o)' <=> Absorbed(o) \/ (Parked(o) /\ cur[o] = v)
    BY <1>1, <1>6, <1>7, <1>8, <2>1, VertFacts DEF Absorbed
  <2>3. cur[o] \in Vert => Own(o)' = Own(o) /\ Lower(cur[o])' = Lower(cur[o])
    BY <1>1, <1>5, <1>7, <1>8 DEF Own
  <2>4. pc[o] = "merge" => cur[o] \in Vert
    BY DEF GInv, AtSaddle, SaddleOf
  <2>5. pc[o] = "merge" => Merged(o)' = Merged(o)
    BY <1>1, <1>5, <2>4 DEF Merged, find
  <2> QED BY <1>6, <1>7, <1>8, <2>2, <2>3, <2>5 DEF Sweeping, Holds
<1>9. /\ ~Parked(t)' /\ ~Claims(t)' /\ ~Absorbed(t)' /\ ~Captured(t)' /\ Sweeping(t)'
      /\ Rep(t)' = Rep(t) /\ Top(t)' = v
  BY <1>1, <1>2, <1>6 DEF Parked, Claims, Absorbed, Captured, Sweeping, Rep, Top
\* where the sets that meet at v come from
<1>10. ASSUME NEW u \in Holds(t)'
       PROVE  \E p \in Leaves : /\ cur[p] = v /\ u = Rep(p) /\ ~Absorbed(p)
                                /\ Sweeping(p) /\ Holds(p) = {u} /\ Top(p) = v
                                /\ p = t \/ Parked(p)
  <2>1. Holds(t)' = {comp[ufs[n]] : n \in Lower(v)} \cup {comp[ufs[v]]}
    <3>1. Holds(t)' = Merged(t)'
      BY <1>6 DEF Holds
    <3>2. Merged(t)' = {comp'[ufs'[n]] : n \in Lower(v)'} \cup {comp'[ufs'[v]]}
      BY <1>1 DEF Merged, find
    <3> QED BY <1>1, <1>3, <1>5, <3>1, <3>2
  <2>2. PICK p \in Leaves : cur[p] = v /\ u = Rep(p) /\ (p = t \/ Parked(p))
    <3>1. CASE \E n \in Lower(v) : u = comp[ufs[n]]
      <4>1. PICK n \in Accounted(v) : u = comp[ufs[n]]
        BY <1>3, <3>1
      <4>2. PICK p \in Leaves : cur[p] = v /\ Captured(p) /\ Belongs(n, Rep(p))
        BY <4>1 DEF Accounted
      <4> QED BY <1>4, <4>1, <4>2 DEF Belongs
    <3>2. CASE u = comp[ufs[v]]
      <4>1. PICK p \in Leaves : /\ cur[p] = v /\ Belongs(v, Rep(p))
                                /\ Parked(p) \/ Claims(p)
        BY <1>2, <1>3 DEF GInv, Published
      <4> QED BY <1>4, <3>2, <4>1 DEF Belongs, Claims, Captured
    <3> QED BY <2>1, <3>1, <3>2
  <2>3. ~Absorbed(p)
    BY <1>2, <1>3, <2>2 DEF Absorbed
  <2>4. p # t => Sweeping(p) /\ Holds(p) = {u} /\ Top(p) = v
    BY <2>2, <2>3 DEF Parked, Sweeping, Holds, Top
  <2> QED BY <1>2, <1>3, <2>2, <2>3, <2>4
<1>11. Types'
  BY <1>1, <1>3, <1>5 DEF Types
<1>12. Representatives'
  BY <1>1, <1>5, <1>6, <1>7 DEF GInv, Representatives
<1>13. \A o \in Leaves : o # t /\ ~Absorbed(o)' => Holds(o)' \cap Holds(t)' = {}
  <2> SUFFICES ASSUME NEW o \in Leaves, o # t, ~Absorbed(o)', NEW u \in Holds(o), u \in Holds(t)'
               PROVE  FALSE
    BY <1>8
  <2>1. PICK p \in Leaves : /\ cur[p] = v /\ u = Rep(p) /\ ~Absorbed(p)
                            /\ p = t \/ Parked(p)
    BY <1>10
  <2>2. p = o
    BY <1>8, <2>1, SoleRep
  <2> QED BY <1>8, <2>1, <2>2
<1>14. Exclusive'
  BY <1>5, <1>8, <1>13 DEF GInv, Exclusive
<1>15. ASSUME NEW o \in Leaves PROVE SweptOf(o)'
  <2>1. CASE o = t
    <3> SUFFICES ASSUME NEW u \in Holds(t)', NEW x \in Vert, Belongs(x, u)
                 PROVE  x <= v
      BY <1>5, <1>9, <2>1 DEF SweptOf
    <3> QED BY <1>10 DEF GInv, Swept, SweptOf
  <2>2. CASE o # t
    BY <2>2, <1>5, <1>7, <1>8 DEF GInv, Swept, SweptOf
  <2> QED BY <2>1, <2>2
<1>16. ASSUME NEW o \in Leaves PROVE QueueOf(o)'
  <2>1. CASE o = t
    <3> SUFFICES ASSUME NEW u \in Holds(t)', NEW x \in Vert, heap[u][x] > 0
                 PROVE  x >= v /\ (x = v \/ \E n \in Lower(x) : Belongs(n, u) \/ n = v)
      BY <1>1, <1>5, <1>9, <2>1 DEF QueueOf
    <3>1. PICK p \in Leaves : Sweeping(p) /\ Holds(p) = {u} /\ Top(p) = v
      BY <1>10
    <3> QED BY <3>1 DEF GInv, Queues, QueueOf
  <2>2. CASE o # t
    BY <2>2, <1>1, <1>5, <1>7, <1>8 DEF GInv, Queues, QueueOf
  <2> QED BY <2>1, <2>2
<1>17. ASSUME NEW o \in Leaves PROVE ArcOf(o)'
  <2>1. vert2tree'[startVert[o]] = IsNode /\ startVert[o] \in Vert
    <3>1. startVert[o] \in Vert /\ vert2tree[startVert[o]] = IsNode
      BY LeavesFacts DEF GInv, Arcs, ArcOf, Types
    <3> QED BY <1>6, <3>1
  <2>2. ArcOf(o)
    BY DEF GInv, Arcs
  <2>3. CASE o = t
    BY <2>1, <2>2, <2>3, <1>1, <1>2, <1>5, <1>6, <1>9 DEF ArcOf
  <2>4. CASE o # t
    <3>1. pc[o] = "pop" /\ seenFirst[o] /\ OnArc(cur[o]) => OnArc(cur[o])'
      BY <2>2, <2>4, <1>1, <1>4, <1>6 DEF ArcOf, OnArc
    <3> QED BY <2>1, <2>2, <2>4, <3>1, <1>1, <1>5, <1>6, <1>7, <1>8 DEF ArcOf
  <2> QED BY <2>3, <2>4
<1>18. LowerClosed'
  <2> SUFFICES ASSUME NEW w \in Vert, vert2tree'[w] # Null, NEW n \in Lower(w)
               PROVE  /\ ufs[n] # Null /\ ufs[w] # Null
                      /\ \/ comp[ufs[n]] = comp[ufs[w]]
                         \/ \E p \in Leaves : pc'[p] = "merge" /\ cur[p] = w /\ n \in todo'[p]
    BY <1>1, <1>5 DEF LowerClosed
  <2>1. CASE w = v
    <3>1. n \in Accounted(v)
      BY <1>3, <2>1
    <3>2. ufs[n] # Null
      BY <3>1 DEF Accounted, Belongs
    <3> QED BY <1>2, <1>6, <2>1, <3>2
  <2>2. CASE w # v
    <3>1. \A p \in Leaves : pc[p] = "merge" => pc'[p] = "merge" /\ todo'[p] = todo[p]
      BY <1>1, <1>6
    <3> QED BY <1>6, <2>2, <3>1 DEF GInv, LowerClosed
  <2> QED BY <2>1, <2>2
<1>19. Published'
  <2> SUFFICES ASSUME NEW w \in Vert, vert2tree'[w] = Null, ufs[w] # Null
               PROVE  \E p \in Leaves : /\ cur[p] = w /\ Belongs(w, Rep(p))'
                                        /\ Parked(p)' \/ Claims(p)'
                                        /\ pc'[p] # "publish"
    BY <1>1, <1>5 DEF Published
  <2>1. w # v
    BY <1>6, VertFacts
  <2>2. PICK p \in Leaves : /\ cur[p] = w /\ Belongs(w, Rep(p))
                            /\ Parked(p) \/ Claims(p)
                            /\ pc[p] # "publish"
    BY <1>6, <2>1 DEF GInv, Published
  <2> QED BY <1>5, <1>6, <1>7, <2>1, <2>2
<1>20. ASSUME NEW o \in Leaves PROVE VisitOf(o)'
  <2>1. CASE o = t
    BY <2>1, <1>6, <1>9 DEF VisitOf
  <2>2. CASE o # t
    <3> SUFFICES ASSUME pc[o] = "capture" \/ Captured(o), ~Absorbed(o)'
                 PROVE  VisitOf(o)'
      BY <1>6, <1>7, <2>2 DEF VisitOf
    <3>1. ~Absorbed(o) /\ cur[o] # v
      BY <1>4, <1>8, <2>2
    <3>2. VisitOf(o) /\ cur[o] \in Vert
      BY <3>1 DEF GInv, Visits, VisitOf
    <3> QED BY <1>1, <1>5, <1>6, <1>7, <1>8, <2>2, <3>1, <3>2 DEF VisitOf
  <2> QED BY <2>1, <2>2
<1>21. ASSUME NEW o \in Leaves PROVE SaddleOf(o)'
  <2>0. SaddleOf(o)
    BY DEF GInv, AtSaddle
  <2>1. CASE o = t
    BY <2>1, <1>1, <1>2, <1>3, <1>5, <1>6, <1>9 DEF SaddleOf
  <2>2. CASE o # t
    <3>1. /\ Parked(o) \/ Claims(o) \/ pc[o] = "merge" => cur[o] \in Vert
          /\ pc[o] \in {"merge", "decide"} =>
                cur[o] \in Vert /\ vert2tree'[cur[o]] = IsNode
      BY <2>0, <1>6 DEF SaddleOf
    <3> QED BY <1>1, <1>5, <1>6, <1>7, <1>8, <2>0, <2>2, <3>1 DEF SaddleOf
  <2> QED BY <2>1, <2>2
<1>22. Counts'
  <2>1. \A w \in Vert : w # v => Accounted(w)' = Accounted(w)
    <3> SUFFICES ASSUME NEW w \in Vert, w # v, NEW n \in Lower(w), NEW o \in Leaves
                 PROVE  cur'[o] = w /\ Captured(o)' /\ Belongs(n, Rep(o))' <=>
                        cur[o] = w /\ Captured(o) /\ Belongs(n, Rep(o))
      BY <1>5 DEF Accounted
    <3> QED BY <1>1, <1>5, <1>7
  <2>2. \A o \in Leaves : Claims(o)' => Claims(o) /\ o # t
    BY <1>7, <1>9
  <2> QED BY <1>1, <1>5, <1>6, <2>1, <2>2, VertFacts DEF GInv, Counts
<1>o. Single'
  BY SingleKept DEF TaskStep
<1> QED BY <1>o, <1>3, <1>5, <1>7, <1>8, <1>9, <1>10, <1>11, <1>12, <1>14, <1>15, <1>16, <1>17,
           <1>18, <1>19, <1>20, <1>21, <1>22 DEF GInv, Swept, Queues, Arcs, Visits, AtSaddle

(* One neighbour below a saddle, whose set is that of the saddle already.  *)
LEMMA SkipKeeps ==
    ASSUME Types, GInv, NEW t \in Leaves, NEW n \in Vert, MergeNeighbor(t, n),
           comp[ufs[cur[t]]] = comp[ufs[n]]
    PROVE  Types' /\ GInv'
<1>1. /\ t \in Vert /\ pc[t] = "merge" /\ n \in todo[t]
      /\ todo' = [todo EXCEPT ![t] = @ \ {n}]
      /\ UNCHANGED <<mesh, pc, comp, ufs, states, heap, valences, vert2tree, lastVisited, startVert,
                     startUF, seenFirst, cur, isSaddle, isLast, decr>>
  BY HeapSame, LeavesFacts DEF MergeNeighbor, find, ufVars, callVars, segmVars
<1>2. todo'[t] = todo[t] \ {n}
  BY <1>1 DEF Types
<1>3. /\ ~Parked(t)' /\ ~Parked(t) /\ ~Claims(t)' /\ ~Claims(t) /\ ~Absorbed(t)'
      /\ ~Captured(t)' /\ ~Captured(t) /\ ~Absorbed(t)
      /\ Rep(t)' = Rep(t) /\ Top(t)' = Top(t) /\ Sweeping(t)
  BY <1>1 DEF Parked, Claims, Absorbed, Captured, Rep, Top, Sweeping
<1>4. OthersStay(t)
  BY <1>1 DEF OthersStay, Types
<1>5. /\ Leaves' = Leaves /\ \A w \in Vert : Lower(w)' = Lower(w)
      /\ \A x, w : Belongs(x, w)' <=> Belongs(x, w)
  BY <1>4, Others
<1>6. cur[t] \in Vert /\ Lower(cur[t])' = Lower(cur[t]) /\ SaddleOf(t)
  BY <1>1, <1>5 DEF GInv, AtSaddle, SaddleOf
<1>7. Holds(t)' = Holds(t)
  BY <1>1, <1>6 DEF Holds, Merged, find
<1>8. /\ Exclusive' /\ LowerClosed' /\ Published'
      /\ \A o \in Leaves : o # t =>
            /\ Rep(o)' = Rep(o)
            /\ SweptOf(o)' /\ QueueOf(o)' /\ ArcOf(o)' /\ VisitOf(o)' /\ SaddleOf(o)'
  <2>1. \A m \in todo[t] : (pc'[t] = "merge" /\ cur'[t] = cur[t] /\ m \in todo'[t])
                           \/ comp[ufs[m]] = comp[ufs[cur[t]]]
    BY <1>1, <1>2
  <2> QED BY <1>1, <1>3, <1>4, <1>7, <2>1, QuietStep DEF OnArc
<1>9. Counts'
  BY <1>1, <1>3, <1>4, QuietCounts
<1>10. Types'
  BY <1>1, <1>5 DEF Types
<1>11. Representatives'
  BY <1>1, <1>4, <1>5, <1>8 DEF GInv, Representatives, OthersStay
<1>12. SweptOf(t)' /\ QueueOf(t)'
  BY <1>1, <1>3, <1>5, <1>7 DEF GInv, Swept, SweptOf, Queues, QueueOf
<1>13. ArcOf(t)'
  BY <1>1, <1>3, <1>5 DEF GInv, Arcs, ArcOf
<1>14. SaddleOf(t)' /\ VisitOf(t)'
  BY <1>1, <1>2, <1>3, <1>5, <1>6 DEF SaddleOf, VisitOf
<1>o. Single'
  BY SingleKept DEF TaskStep
<1> QED BY <1>o, <1>5, <1>8, <1>9, <1>10, <1>11, <1>12, <1>13, <1>14
        DEF GInv, Swept, Queues, Arcs, Visits, AtSaddle

(* t unites two of its sets: w is the representative that wins, l the one  *)
(* that loses.                                                             *)
United(t, w, l) ==
    /\ w \in Holds(t) /\ l \in Holds(t) /\ w # l
    /\ \A u \in Vert : comp'[u] = IF comp[u] = l THEN w ELSE comp[u]
    /\ \A x \in Vert :
          /\ ufs'[x] # Null <=> ufs[x] # Null
          /\ ufs[x] # Null =>
                comp'[ufs'[x]] = IF comp[ufs[x]] = l THEN w ELSE comp[ufs[x]]
    /\ Holds(t)' \subseteq Holds(t) \ {l}
    /\ states'[w] = states[w] \o states[l]
    /\ \A x \in Vert : heap'[w][x] > 0 <=> heap[w][x] > 0 \/ heap[l][x] > 0
    /\ \A u \in Holds(t) : u # w => states'[u] = states[u] /\ heap'[u] = heap[u]
    /\ \A o \in Leaves : /\ Absorbed(o)' = Absorbed(o) /\ Top(o)' = Top(o)
                        /\ Sweeping(o)' = Sweeping(o)
    /\ \A o \in Leaves : o # t /\ ~Absorbed(o) =>
          /\ w \notin Holds(o) /\ l \notin Holds(o)
          /\ Holds(o)' = Holds(o)
          /\ \A u \in Holds(o) : states'[u] = states[u] /\ heap'[u] = heap[u]

(* One neighbour below a saddle, whose set is united with the saddle's.    *)
LEMMA UniteKeeps ==
    ASSUME Types, GInv, NEW t \in Leaves, NEW n \in Vert, MergeNeighbor(t, n),
           comp[ufs[cur[t]]] # comp[ufs[n]]
    PROVE  /\ Types' /\ GInv'
           /\ \A x \in Vert : vert2tree[x] = Null => Accounted(x)' = Accounted(x)
           /\ \E w \in Vert, l \in Vert : United(t, w, l)
<1> DEFINE v == cur[t]
<1>0. PICK w \in Vert, l \in Vert : Absorbs(t, n, w, l)
  BY UniteStates
<1>1. /\ {w, l} = {comp[ufs[v]], comp[ufs[n]]} /\ w # l
      /\ comp' = [u \in Vert |-> IF comp[u] = l THEN w ELSE comp[u]]
      /\ ufs' = [ufs EXCEPT ![v] = w]
  BY <1>0 DEF Absorbs
<1>q. /\ states' \in Listed /\ states'[w] = states[w] \o states[l]
      /\ \A x \in Vert : heap'[w][x] > 0 <=> heap[w][x] > 0 \/ heap[l][x] > 0
      /\ \A u \in Vert : u # w => states'[u] = states[u] /\ heap'[u] = heap[u]
  BY <1>0 DEF Absorbs
<1>2. /\ t \in Vert /\ pc[t] = "merge" /\ n \in todo[t]
      /\ todo' = [todo EXCEPT ![t] = @ \ {n}]
      /\ UNCHANGED <<mesh, pc, valences, vert2tree, lastVisited, startVert,
                     startUF, seenFirst, cur, isSaddle, isLast, decr>>
  BY LeavesFacts DEF MergeNeighbor, callVars, segmVars
<1>3. /\ v \in Vert /\ Top(t) = v /\ ufs[v] # Null /\ n \in Lower(v) /\ ufs[n] # Null
      /\ SaddleOf(t) /\ Lower(v) \subseteq Vert /\ \A m \in Lower(v) : ufs[m] # Null
      /\ w \in Holds(t) /\ l \in Holds(t) /\ ~Absorbed(t) /\ Sweeping(t) /\ ~Captured(t)
      /\ \A p \in Leaves : p # t => pc'[p] = pc[p] /\ todo'[p] = todo[p]
      /\ todo'[t] = todo[t] \ {n}
  <2>1. SaddleOf(t) /\ v \in Vert /\ n \in Lower(v) /\ ufs[v] # Null
    BY <1>2 DEF GInv, AtSaddle, SaddleOf
  <2>2. /\ Top(t) = v /\ \A m \in Lower(v) : ufs[m] # Null /\ comp[ufs[m]] \in Holds(t)
        /\ comp[ufs[v]] \in Holds(t)
    BY <1>2, HoldsFacts
  <2>3. ~Absorbed(t) /\ Sweeping(t) /\ ~Captured(t)
    BY <1>2 DEF Absorbed, Parked, Sweeping, Captured
  <2>4. /\ \A p \in Leaves : p # t => pc'[p] = pc[p] /\ todo'[p] = todo[p]
        /\ todo'[t] = todo[t] \ {n} /\ Lower(v) \subseteq Vert
    BY <1>2, <2>1, LeavesFacts, LowerFacts DEF Types
  <2> QED BY <1>1, <2>1, <2>2, <2>3, <2>4
<1>4. /\ Leaves' = Leaves /\ \A x \in Vert : Lower(x)' = Lower(x)
      /\ \A x \in Vert : Lower(x) \subseteq Vert
  BY <1>2, SameMesh, LowerFacts DEF Types
<1> DEFINE M(c) == IF c = l THEN w ELSE c
<1>5. /\ comp[w] = w /\ comp[l] = l
      /\ \A u \in Vert : comp'[u] = M(comp[u])
  <2>1. w \in {comp[ufs[v]], comp[ufs[n]]} /\ l \in {comp[ufs[v]], comp[ufs[n]]}
    BY <1>1
  <2>2. ufs[v] \in Vert /\ ufs[n] \in Vert
    BY <1>3 DEF Types
  <2> QED BY <1>1, <2>1, <2>2 DEF GInv, Representatives
<1>6. \A x \in Vert : /\ ufs'[x] # Null <=> ufs[x] # Null
                      /\ ufs[x] # Null => comp'[ufs'[x]] = M(comp[ufs[x]])
  <2> SUFFICES ASSUME NEW x \in Vert
               PROVE  /\ ufs'[x] # Null <=> ufs[x] # Null
                      /\ ufs[x] # Null => comp'[ufs'[x]] = M(comp[ufs[x]])
    OBVIOUS
  <2>1. CASE x = v
    <3>1. ufs'[x] = w /\ w # Null
      BY <1>1, <1>3, <2>1, VertFacts DEF Types
    <3>2. comp[ufs[v]] \in {w, l}
      BY <1>1
    <3> QED BY <1>1, <1>3, <1>5, <2>1, <3>1, <3>2
  <2>2. CASE x # v
    BY <1>1, <1>3, <1>5, <2>2 DEF Types
  <2> QED BY <2>1, <2>2
<1>7. \A x, u : x \in Vert =>
         /\ Belongs(x, u)' <=> ufs[x] # Null /\ M(comp[ufs[x]]) = u
         /\ Belongs(x, u) => Belongs(x, M(u))'
         /\ Belongs(x, w)' => Belongs(x, w) \/ Belongs(x, l)
         /\ u \notin {w, l} => (Belongs(x, u)' <=> Belongs(x, u))
  BY <1>1, <1>6 DEF Belongs
<1>8. \A o \in Leaves : /\ Rep(o)' = M(Rep(o))
                        /\ \A x \in Vert : Belongs(x, Rep(o)) => Belongs(x, Rep(o))'
  <2>1. \A o \in Leaves : Rep(o)' = M(Rep(o))
    BY <1>2, <1>5, LeavesFacts DEF Rep, Types
  <2> QED BY <1>7, <2>1
<1>9. \A o \in Leaves : /\ Parked(o)' = Parked(o) /\ Claims(o)' = Claims(o)
                        /\ Captured(o)' = Captured(o) /\ Absorbed(o)' = Absorbed(o)
                        /\ Top(o)' = Top(o) /\ Sweeping(o)' = Sweeping(o)
  BY <1>2 DEF Parked, Claims, Captured, Absorbed, Top, Sweeping
<1>10. ASSUME NEW o \in Leaves, o # t, ~Absorbed(o)
       PROVE  /\ w \notin Holds(o) /\ l \notin Holds(o) /\ Rep(o) \in Holds(o)
              /\ Rep(o)' = Rep(o)
              /\ Holds(o)' = Holds(o)
              /\ \A u \in Holds(o) : states'[u] = states[u] /\ heap'[u] = heap[u]
              /\ cur[o] \in Vert => Own(o)' = Own(o)
  <2>1. w \notin Holds(o) /\ l \notin Holds(o) /\ Rep(o) \in Holds(o)
    BY <1>3, <1>10, Sole, HoldsFacts
  <2>2. Rep(o)' = Rep(o)
    BY <1>8, <2>1
  <2>3. Holds(o)' = Holds(o)
    <3>1. CASE pc[o] # "merge"
      BY <1>2, <2>2, <3>1 DEF Holds
    <3>2. CASE pc[o] = "merge"
      <4>1. /\ cur[o] \in Vert /\ ufs[cur[o]] # Null
            /\ \A m \in Lower(cur[o]) : ufs[m] # Null
        BY <3>2, HoldsFacts DEF GInv, AtSaddle, SaddleOf
      <4>2. Holds(o) = {comp[ufs[m]] : m \in Lower(cur[o])} \cup {comp[ufs[cur[o]]]}
        BY <3>2 DEF Holds, Merged, find
      <4>3. Holds(o)' = {comp'[ufs'[m]] : m \in Lower(cur[o])} \cup {comp'[ufs'[cur[o]]]}
        BY <1>2, <1>4, <3>2, <4>1 DEF Holds, Merged, find
      <4>4. \A m \in Lower(cur[o]) \cup {cur[o]} : comp'[ufs'[m]] = comp[ufs[m]]
        <5> SUFFICES ASSUME NEW m \in Lower(cur[o]) \cup {cur[o]}
                     PROVE  comp'[ufs'[m]] = comp[ufs[m]]
          OBVIOUS
        <5>1. m \in Vert /\ ufs[m] # Null /\ comp[ufs[m]] \in Holds(o)
          BY <1>4, <4>1, <4>2
        <5> QED BY <1>6, <2>1, <5>1
      <4> QED BY <4>2, <4>3, <4>4
    <3> QED BY <3>1, <3>2
  <2>4. \A u \in Holds(o) : states'[u] = states[u] /\ heap'[u] = heap[u]
    BY <1>q, <2>1, HoldsInVert
  <2>5. ASSUME cur[o] \in Vert PROVE Own(o)' = Own(o)
    <3>1. Rep(o) \notin {w, l}
      BY <2>1
    <3>2. \A m \in Lower(cur[o]) : Belongs(m, Rep(o))' <=> Belongs(m, Rep(o))
      BY <1>4, <1>7, <2>2, <2>5, <3>1
    <3> QED BY <1>2, <1>4, <2>5, <3>2 DEF Own
  <2> QED BY <2>1, <2>2, <2>3, <2>4, <2>5
<1>11. Holds(t)' \subseteq Holds(t) \ {l}
  <2>1. Holds(t)' = {comp'[ufs'[m]] : m \in Lower(v)} \cup {comp'[ufs'[v]]}
    BY <1>2, <1>3, <1>4 DEF Holds, Merged, find
  <2>2. Holds(t) = {comp[ufs[m]] : m \in Lower(v)} \cup {comp[ufs[v]]}
    BY <1>2 DEF Holds, Merged, find
  <2>3. ASSUME NEW m \in Lower(v) \cup {v}
        PROVE  comp'[ufs'[m]] \in Holds(t) \ {l}
    <3>1. comp'[ufs'[m]] = M(comp[ufs[m]]) /\ comp[ufs[m]] \in Holds(t)
      BY <1>3, <1>6, <2>2
    <3> QED BY <1>1, <1>3, <3>1
  <2> QED BY <2>1, <2>3
<1>12. \A u \in Holds(t) : u # w => states'[u] = states[u] /\ heap'[u] = heap[u]
  BY <1>q, HoldsInVert
<1>13. \A x \in Vert : heap'[w][x] > 0 => heap[w][x] > 0 \/ heap[l][x] > 0
  BY <1>q
<1>14. Types'
  <2>1. comp' \in [Vert -> Vert] /\ ufs' \in [Vert -> Vert \cup {Null}]
    BY <1>1, <1>3 DEF Types
  <2>2. states' \in Listed
    BY <1>q
  <2>3. todo' \in [Vert -> SUBSET Vert]
    BY <1>2 DEF Types
  <2> QED BY <1>2, <1>4, <2>1, <2>2, <2>3 DEF Types
<1>15. Representatives'
  <2>1. \A u \in Vert : comp'[comp'[u]] = comp'[u]
    <3> SUFFICES ASSUME NEW u \in Vert PROVE comp'[comp'[u]] = comp'[u]
      OBVIOUS
    <3>1. comp[u] \in Vert /\ comp[comp[u]] = comp[u]
      BY DEF GInv, Representatives, Types
    <3> QED BY <1>1, <1>5, <3>1
  <2>2. \A o \in Leaves : pc[o] \in {"pop", "capture"} \/ (pc[o] = "publish" /\ ~isSaddle[o]) =>
           o # t /\ ~Absorbed(o)
    BY <1>2 DEF Absorbed, Parked
  <2> QED BY <1>2, <1>4, <1>10, <2>1, <2>2 DEF GInv, Representatives
<1>16. Exclusive'
  BY <1>4, <1>9, <1>10, <1>11 DEF GInv, Exclusive
<1>17. ASSUME NEW o \in Leaves PROVE SweptOf(o)'
  <2> SUFFICES ASSUME Sweeping(o), NEW u \in Holds(o)', NEW x \in Vert, Belongs(x, u)'
               PROVE  x <= Top(o)
    BY <1>4, <1>9 DEF SweptOf
  <2>1. CASE o = t
    <3>1. u \in Holds(t) /\ (Belongs(x, u) \/ (u = w /\ Belongs(x, l)))
      BY <1>7, <1>11, <2>1
    <3> QED BY <1>3, <2>1, <3>1 DEF GInv, Swept, SweptOf
  <2>2. CASE o # t
    <3>1. ~Absorbed(o)
      BY DEF Sweeping
    <3>2. u \in Holds(o) /\ Belongs(x, u)
      BY <1>7, <1>10, <2>2, <3>1
    <3> QED BY <3>2 DEF GInv, Swept, SweptOf
  <2> QED BY <2>1, <2>2
<1>18. ASSUME NEW o \in Leaves PROVE QueueOf(o)'
  <2> SUFFICES ASSUME Sweeping(o), NEW u \in Holds(o)', NEW x \in Vert, heap'[u][x] > 0
               PROVE  /\ x >= Top(o)
                      /\ x = Top(o) \/ \E m \in Lower(x) : Belongs(m, u)' \/ m = Top(o)
    BY <1>4, <1>9 DEF QueueOf
  <2>1. CASE o = t
    <3>1. PICK c \in Holds(t) : heap[c][x] > 0 /\ M(c) = u
      BY <1>3, <1>11, <1>12, <1>13, <2>1
    <3>2. /\ x >= Top(t)
          /\ x = Top(t) \/ \E m \in Lower(x) : Belongs(m, c) \/ m = Top(t)
      BY <1>3, <3>1 DEF GInv, Queues, QueueOf
    <3> QED BY <1>4, <1>7, <2>1, <3>1, <3>2
  <2>2. CASE o # t
    <3>1. ~Absorbed(o)
      BY DEF Sweeping
    <3>2. u \in Holds(o) /\ heap[u][x] > 0 /\ u \notin {w, l}
      BY <1>10, <2>2, <3>1
    <3>3. /\ x >= Top(o)
          /\ x = Top(o) \/ \E m \in Lower(x) : Belongs(m, u) \/ m = Top(o)
      BY <3>2 DEF GInv, Queues, QueueOf
    <3> QED BY <1>4, <1>7, <3>2, <3>3
  <2> QED BY <2>1, <2>2
<1>19. ASSUME NEW o \in Leaves PROVE ArcOf(o)'
  <2>1. ArcOf(o) /\ startVert[o] \in Vert /\ o \in Vert
    BY LeavesFacts DEF GInv, Arcs, Types
  <2>2. pc[o] = "pop" => heap'[startUF[o]] = heap[startUF[o]] /\ Top(o) \in Vert
    <3> SUFFICES ASSUME pc[o] = "pop"
                 PROVE  heap'[startUF[o]] = heap[startUF[o]] /\ Top(o) \in Vert
      OBVIOUS
    <3>1. o # t /\ ~Absorbed(o) /\ startUF[o] = Rep(o)
      BY <1>2 DEF Absorbed, Parked, GInv, Representatives
    <3>2. Top(o) \in Vert
      BY <2>1 DEF ArcOf, Top
    <3> QED BY <1>10, <3>1, <3>2
  <2>3. pc[o] = "waiting" => ufs'[o] = Null
    BY <1>6, <2>1 DEF ArcOf
  <2> QED BY <1>2, <1>8, <1>9, <2>1, <2>2, <2>3 DEF ArcOf, OnArc
<1>20. LowerClosed'
  <2> SUFFICES ASSUME NEW x \in Vert, vert2tree[x] # Null, NEW m \in Lower(x)
               PROVE  /\ ufs'[m] # Null /\ ufs'[x] # Null
                      /\ \/ comp'[ufs'[m]] = comp'[ufs'[x]]
                         \/ \E p \in Leaves : pc[p] = "merge" /\ cur[p] = x /\ m \in todo'[p]
    BY <1>2, <1>4 DEF LowerClosed
  <2>1. m \in Vert /\ ufs[m] # Null /\ ufs[x] # Null
    BY <1>4 DEF GInv, LowerClosed
  <2>2. CASE comp[ufs[m]] = comp[ufs[x]]
    BY <1>6, <2>1, <2>2
  <2>3. CASE \E p \in Leaves : pc[p] = "merge" /\ cur[p] = x /\ m \in todo[p]
    <3>1. PICK p \in Leaves : pc[p] = "merge" /\ cur[p] = x /\ m \in todo[p]
      BY <2>3
    <3>2. CASE p = t /\ m = n
      <4>1. comp'[ufs'[n]] = w /\ comp'[ufs'[v]] = w
        BY <1>1, <1>3, <1>6
      <4> QED BY <1>6, <2>1, <3>1, <3>2, <4>1
    <3>3. CASE ~(p = t /\ m = n)
      BY <1>3, <1>6, <2>1, <3>1, <3>3
    <3> QED BY <3>2, <3>3
  <2> QED BY <2>2, <2>3 DEF GInv, LowerClosed
<1>21. Published'
  BY <1>2, <1>4, <1>6, <1>8, <1>9 DEF GInv, Published
<1>22. ASSUME NEW o \in Leaves PROVE VisitOf(o)'
  <2> SUFFICES ASSUME pc[o] = "capture" \/ Captured(o), ~Absorbed(o)
               PROVE  VisitOf(o)'
    BY <1>2, <1>9 DEF VisitOf
  <2>1. VisitOf(o) /\ cur[o] \in Vert /\ o # t
    BY <1>2, <1>3 DEF GInv, Visits, VisitOf
  <2>2. Own(o)' = Own(o) /\ Lower(cur[o])' = Lower(cur[o])
    BY <1>2, <1>4, <1>10, <2>1
  <2> QED BY <1>2, <1>6, <1>9, <2>1, <2>2 DEF VisitOf
<1>23. ASSUME NEW o \in Leaves PROVE SaddleOf(o)'
  <2>1. SaddleOf(o)
    BY DEF GInv, AtSaddle
  <2>2. ASSUME Parked(o) \/ Claims(o) \/ pc[o] = "merge"
        PROVE  /\ cur[o] \in Vert /\ startVert[o] < cur[o]
               /\ \E m \in Lower(cur[o]) : Belongs(m, Rep(o))'
    BY <1>4, <1>8, <2>1, <2>2 DEF SaddleOf
  <2>3. ASSUME pc[o] \in {"merge", "decide"}
        PROVE  /\ cur[o] \in Vert /\ isSaddle[o] /\ isLast[o]
               /\ vert2tree[cur[o]] = IsNode /\ ufs'[cur[o]] # Null
    BY <1>6, <2>1, <2>3 DEF SaddleOf
  <2>4. ASSUME pc[o] = "merge"
        PROVE  /\ todo'[o] \subseteq Lower(cur[o])
               /\ \A m \in Lower(cur[o]) \ todo'[o] : comp'[ufs'[m]] = comp'[ufs'[cur[o]]]
    <3>1. todo'[o] \subseteq Lower(cur[o])
      BY <1>3, <2>1, <2>4 DEF SaddleOf
    <3>2. ASSUME NEW m \in Lower(cur[o]), m \notin todo'[o]
          PROVE  comp'[ufs'[m]] = comp'[ufs'[cur[o]]]
      <4>1. /\ m \in Vert /\ cur[o] \in Vert /\ ufs[m] # Null /\ ufs[cur[o]] # Null
        BY <1>4, <2>3, <2>4, HoldsFacts DEF SaddleOf, GInv, AtSaddle
      <4>2. CASE o = t /\ m = n
        <5>1. comp'[ufs'[n]] = w /\ comp'[ufs'[v]] = w
          BY <1>1, <1>3, <1>6
        <5> QED BY <4>2, <5>1
      <4>3. CASE ~(o = t /\ m = n)
        <5>1. comp[ufs[m]] = comp[ufs[cur[o]]]
          BY <1>3, <2>1, <2>4, <3>2, <4>3 DEF SaddleOf
        <5> QED BY <1>6, <4>1, <5>1
      <4> QED BY <4>2, <4>3
    <3> QED BY <3>1, <3>2
  <2>5. ASSUME pc[o] = "decide" PROVE Belongs(cur[o], Rep(o))'
    BY <1>2, <1>8, <2>1, <2>3, <2>5 DEF SaddleOf
  <2>6. cur[o] \in Vert => Lower(cur[o])' = Lower(cur[o])
    BY <1>2, <1>4
  <2> QED BY <1>2, <1>4, <1>9, <2>1, <2>2, <2>3, <2>4, <2>5, <2>6 DEF SaddleOf
<1>s. \A x \in Vert : vert2tree[x] = Null => Accounted(x)' = Accounted(x)
  <2> SUFFICES ASSUME NEW x \in Vert, vert2tree[x] = Null, NEW m \in Lower(x),
                      NEW o \in Leaves, cur[o] = x, Captured(o)
               PROVE  Belongs(m, Rep(o))' <=> Belongs(m, Rep(o))
    BY <1>2, <1>4, <1>9 DEF Accounted
  <2>1. o # t /\ ~Absorbed(o)
    BY <1>3, AtOpenVertex
  <2>2. Rep(o)' = Rep(o) /\ Rep(o) \notin {w, l}
    BY <1>10, <2>1
  <2> QED BY <1>4, <1>7, <2>2
<1>24. Counts'
  <2> QED BY <1>2, <1>4, <1>9, <1>s DEF GInv, Counts
<1>25. United(t, w, l)
  <2>2. \A o \in Leaves : o # t /\ ~Absorbed(o) =>
           /\ w \notin Holds(o) /\ l \notin Holds(o) /\ Holds(o)' = Holds(o)
           /\ \A u \in Holds(o) : states'[u] = states[u] /\ heap'[u] = heap[u]
    BY <1>10
  <2> QED BY <1>1, <1>3, <1>5, <1>6, <1>9, <1>11, <1>q, <1>12, <2>2 DEF United
<1>26. \E w_1 \in Vert, l_1 \in Vert : United(t, w_1, l_1)
  BY <1>25
<1>o. Single'
  BY SingleKept DEF TaskStep
<1> QED BY <1>o, <1>s, <1>4, <1>14, <1>15, <1>16, <1>17, <1>18, <1>19, <1>20, <1>21, <1>22,
           <1>23, <1>24, <1>26 DEF GInv, Swept, Queues, Arcs, Visits, AtSaddle

(* ufs[currentVert] = startUF.  Either the vertex is in the set of t       *)
(* already, or it is open and no settled vertex is above it, or another    *)
(* task has closed it and not begun to unite the sets that meet there.     *)
LEMMA PublishKeeps ==
    ASSUME Types, GInv, NEW t \in Leaves, Publish(t), ~Overtake
    PROVE  /\ Types' /\ GInv'
           /\ \A x \in Vert : vert2tree'[x] = Null => Accounted(x)' = Accounted(x)
           /\ \A o \in Leaves :
                 /\ Rep(o)' = Rep(o) /\ Top(o)' = Top(o)
                 /\ Absorbed(o)' = Absorbed(o) /\ Sweeping(o)' = Sweeping(o)
                 /\ Holds(o)' \subseteq Holds(o)
           \* what becomes of the sets of the tasks, and of the set of the vertex
           /\ \A o \in Leaves : ~Absorbed(o) =>
                 \A u \in Holds(o), x \in Vert :
                     \/ Belongs(x, u)' <=> Belongs(x, u)
                     \/ x = Top(o) /\ pc[o] # "capture"
           /\ \/ \A x \in Vert : ufs[x] # Null =>
                     ufs'[x] # Null /\ comp'[ufs'[x]] = comp[ufs[x]]
              \/ \A x \in Vert : vert2tree[x] # Null => cur[t] \notin Lower(x)
<1> DEFINE v == cur[t]
           a == startVert[t]
<1>1. /\ t \in Vert /\ pc[t] = "publish" /\ ufs' = [ufs EXCEPT ![v] = startUF[t]]
      /\ \A o \in Vert \ {t} : ~MergingAt(o, v)
      /\ \/ /\ isSaddle[t] /\ pc' = [pc EXCEPT ![t] = "open"]
            /\ UNCHANGED <<vert2tree, lastVisited>>
         \/ /\ ~isSaddle[t] /\ pc' = [pc EXCEPT ![t] = "pop"]
            /\ vert2tree' = IF v = a THEN vert2tree ELSE [vert2tree EXCEPT ![v] = a]
            /\ lastVisited' = [lastVisited EXCEPT ![a] = v]
      /\ UNCHANGED <<mesh, comp, states, heap, valences, startVert, startUF, seenFirst, cur,
                     isSaddle, isLast, decr, todo>>
  BY HeapSame, LeavesFacts DEF Publish, Goto, ufVars, callVars, visitVars
<1>2. /\ v \in Vert /\ a \in Vert /\ startUF[t] \in Vert /\ Top(t) = v
      /\ Holds(t) = {Rep(t)} /\ vert2tree[a] = IsNode
      /\ ~isSaddle[t] => ~Absorbed(t)
      /\ ~Absorbed(t) => /\ seenFirst[t] /\ (isSaddle[t] <=> Own(t) # Lower(v))
                         /\ v = a => ~isSaddle[t]
                         /\ v # a => Own(t) # {} /\ vert2tree[v] = Null
  <2>1. a \in Vert /\ startUF[t] \in Vert
    BY <1>1 DEF Types
  <2>2. Holds(t) = {Rep(t)} /\ Top(t) = v /\ Captured(t)
    BY <1>1 DEF Holds, Top, Captured
  <2>3. ~isSaddle[t] => ~Absorbed(t)
    BY DEF Absorbed, Parked
  <2>4. Absorbed(t) => v \in Vert
    BY DEF Absorbed, GInv, AtSaddle, SaddleOf
  <2>5. vert2tree[a] = IsNode
    BY DEF GInv, Arcs, ArcOf
  <2>6. ~Absorbed(t) => /\ v \in Vert /\ seenFirst[t] /\ (isSaddle[t] <=> Own(t) # Lower(v))
                        /\ v = a => ~isSaddle[t]
                        /\ v # a => Own(t) # {} /\ vert2tree[v] = Null
    BY <1>1, <2>2 DEF GInv, Visits, VisitOf
  <2> QED BY <2>1, <2>2, <2>3, <2>4, <2>5, <2>6
<1>3. /\ Leaves' = Leaves /\ \A x \in Vert : Lower(x)' = Lower(x)
      /\ \A x \in Vert : Lower(x) \subseteq Vert /\ \A n \in Lower(x) : n < x
  BY <1>1, SameMesh, LowerFacts DEF Types
<1>4. /\ \A x \in Vert : x # v => ufs'[x] = ufs[x]
      /\ ufs'[v] = startUF[t] /\ ufs'[v] # Null /\ comp'[ufs'[v]] = Rep(t)
      /\ \A x, u : x \in Vert /\ x # v => (Belongs(x, u)' <=> Belongs(x, u))
      /\ \A u : Belongs(v, u)' <=> u = Rep(t)
      /\ Belongs(v, Rep(t)) =>
            \A x, u : x \in Vert => (Belongs(x, u)' <=> Belongs(x, u))
      /\ Belongs(v, Rep(t)) => \A x \in Vert : ufs[x] # Null =>
            ufs'[x] # Null /\ comp'[ufs'[x]] = comp[ufs[x]]
  <2>1. /\ \A x \in Vert : x # v => ufs'[x] = ufs[x]
        /\ ufs'[v] = startUF[t] /\ ufs'[v] # Null
    BY <1>1, <1>2, VertFacts DEF Types
  <2>2. comp'[ufs'[v]] = Rep(t)
    BY <1>1, <2>1 DEF Rep
  <2> QED BY <1>1, <2>1, <2>2 DEF Belongs
\* the three cases
<1> DEFINE Open == ~Absorbed(t) /\ v # a /\ vert2tree[v] = Null
           Late(p) == /\ p # t /\ pc[p] = "merge" /\ cur[p] = v /\ todo[p] = Lower(v)
                      /\ Rep(t) \in Holds(p) /\ comp[ufs[v]] \in Holds(p)
                      /\ ~Absorbed(p) /\ Top(p) = v /\ Sweeping(p)
<1>5. \/ Belongs(v, Rep(t))
      \/ Open
      \/ Absorbed(t) /\ \E p \in Leaves : Late(p)
  <2>1. CASE ~Absorbed(t) /\ v # a
    BY <2>1, <1>2
  <2>2. CASE ~Absorbed(t) /\ v = a
    <3>1. Sweeping(t) /\ pc[t] # "waiting"
      BY <1>1, <2>2 DEF Sweeping
    <3> QED BY <2>2, <3>1 DEF GInv, Arcs, ArcOf
  <2>3. CASE Absorbed(t)
    <3>1. PICK n \in Lower(v) : Belongs(n, Rep(t))
      BY <2>3 DEF GInv, AtSaddle, SaddleOf, Absorbed
    <3>2. vert2tree[v] # Null /\ ufs[v] # Null
      BY <1>2, <2>3, <3>1 DEF GInv, LowerClosed, Absorbed
    <3>3. CASE comp[ufs[n]] = comp[ufs[v]]
      BY <3>1, <3>2, <3>3 DEF Belongs
    <3>4. CASE \E p \in Leaves : pc[p] = "merge" /\ cur[p] = v /\ n \in todo[p]
      <4>1. PICK p \in Leaves : pc[p] = "merge" /\ cur[p] = v /\ n \in todo[p]
        BY <3>4
      <4>2. p # t /\ p \in Vert
        BY <1>1, <4>1, LeavesFacts
      <4>3. todo[p] = Lower(v)
        BY <1>1, <4>1, <4>2 DEF MergingAt
      <4>4. Rep(t) \in Holds(p) /\ comp[ufs[v]] \in Holds(p) /\ Top(p) = v
        BY <3>1, <4>1, HoldsFacts DEF Belongs
      <4>5. ~Absorbed(p) /\ Sweeping(p)
        BY <4>1 DEF Absorbed, Parked, Sweeping
      <4> QED BY <2>3, <4>1, <4>2, <4>3, <4>4, <4>5
    <3> QED BY <1>2, <3>1, <3>2, <3>3, <3>4 DEF GInv, LowerClosed
  <2> QED BY <2>1, <2>2, <2>3
<1> HIDE DEF Open, Late
\* an open vertex that has a set is one where a task waits
<1>6. ASSUME Open, ufs[v] # Null
      PROVE  \E q \in Leaves : /\ cur[q] = v /\ comp[ufs[v]] = Rep(q) /\ ~Absorbed(q)
                               /\ Sweeping(q) /\ Top(q) = v
                               /\ Parked(q) \/ Claims(q)
                               /\ Holds(q) = {Rep(q)}
                               /\ pc[q] \in {"open", "retire", "stopped"}
  <2>1. PICK q \in Leaves : /\ cur[q] = v /\ Belongs(v, Rep(q))
                            /\ Parked(q) \/ Claims(q)
                            /\ pc[q] # "publish"
    BY <1>2, <1>6 DEF GInv, Published, Open
  <2>2. ~Absorbed(q)
    BY <1>6, <2>1 DEF Absorbed, Open
  <2>3. pc[q] \in {"open", "retire", "stopped"}
    BY <2>1 DEF Parked, Claims
  <2>4. Sweeping(q) /\ Top(q) = v /\ Holds(q) = {Rep(q)}
    <3>1. pc[q] = "stopped" => Parked(q)
      BY <2>1 DEF Claims
    <3> QED BY <2>1, <2>2, <2>3, <3>1 DEF Sweeping, Top, Holds
  <2> QED BY <2>1, <2>2, <2>3, <2>4 DEF Belongs
<1>7. ASSUME ~Belongs(v, Rep(t)), NEW x \in Vert, vert2tree[x] # Null, v \in Lower(x)
      PROVE  FALSE
  <2>1. /\ ufs[v] # Null /\ ufs[x] # Null
        /\ \/ comp[ufs[v]] = comp[ufs[x]]
           \/ \E o \in Leaves : pc[o] = "merge" /\ cur[o] = x /\ v \in todo[o]
    BY <1>7 DEF GInv, LowerClosed
  <2>2. PICK q \in Leaves : comp[ufs[v]] \in Holds(q) /\ ~Absorbed(q) /\ Sweeping(q)
                            /\ Top(q) = v /\ cur[q] = v
    BY <1>5, <1>6, <1>7, <2>1 DEF Late
  <2>3. v < x /\ v \in Nat /\ x \in Nat
    BY <1>2, <1>3, <1>7, VertFacts
  <2>4. CASE comp[ufs[v]] = comp[ufs[x]]
    <3>1. x <= Top(q)
      BY <2>1, <2>2, <2>4 DEF GInv, Swept, SweptOf, Belongs
    <3> QED BY <2>2, <2>3, <3>1
  <2>5. CASE \E o \in Leaves : pc[o] = "merge" /\ cur[o] = x /\ v \in todo[o]
    <3>1. PICK o \in Leaves : pc[o] = "merge" /\ cur[o] = x
      BY <2>5
    <3>2. comp[ufs[v]] \in Holds(o) /\ ~Absorbed(o)
      BY <1>7, <3>1, HoldsFacts DEF Absorbed, Parked
    <3>3. o = q
      BY <2>2, <3>2, Sole
    <3> QED BY <2>2, <2>3, <3>1, <3>3
  <2> QED BY <2>1, <2>4, <2>5
\* only the task at v can notice
<1>8. ASSUME NEW o \in Leaves, ~Absorbed(o), NEW u \in Holds(o),
             ~(Belongs(v, u)' <=> Belongs(v, u))
      PROVE  /\ Top(o) = v /\ cur[o] = v
             /\ pc[o] \in {"publish", "open", "retire", "stopped", "merge"}
             /\ o = t \/ Parked(o) \/ Claims(o) \/ pc[o] = "merge"
  <2>0. ~Belongs(v, Rep(t))
    <3>1. ASSUME Belongs(v, Rep(t)) PROVE FALSE
      <4>1. \A x, z : x \in Vert => (Belongs(x, z)' <=> Belongs(x, z))
        BY <1>4, <3>1
      <4> QED BY <1>1, <1>2, <1>8, <4>1
    <3> QED BY <3>1
  <2>1. CASE Absorbed(t) /\ \E p \in Leaves : Late(p)
    <3>1. PICK p \in Leaves : Late(p)
      BY <2>1
    <3>2. u \in Holds(p)
      BY <1>4, <1>8, <3>1 DEF Late, Belongs
    <3>3. o = p
      BY <1>8, <3>1, <3>2, Sole DEF Late
    <3> QED BY <3>1, <3>3 DEF Late
  <2>2. CASE Open
    <3>1. CASE u = Rep(t)
      <4>1. o = t
        BY <1>8, <2>2, <3>1, SoleRep DEF Open
      <4> QED BY <1>1, <1>2, <4>1
    <3>2. CASE u # Rep(t)
      <4>1. ufs[v] # Null /\ comp[ufs[v]] = u
        BY <1>4, <1>8, <3>2 DEF Belongs
      <4>2. PICK q \in Leaves : /\ cur[q] = v /\ comp[ufs[v]] = Rep(q) /\ ~Absorbed(q)
                                /\ Top(q) = v
                                /\ Parked(q) \/ Claims(q)
                                /\ pc[q] \in {"open", "retire", "stopped"}
        BY <1>6, <2>2, <4>1
      <4>3. o = q
        BY <1>8, <4>1, <4>2, SoleRep
      <4> QED BY <4>2, <4>3
    <3> QED BY <3>1, <3>2
  <2> QED BY <1>5, <2>0, <2>1, <2>2
<1>9. /\ \A o \in Leaves : o # t => pc'[o] = pc[o]
      /\ isSaddle[t] => pc'[t] = "open"
      /\ ~isSaddle[t] => pc'[t] = "pop"
      /\ \A x \in Vert : vert2tree'[x] = vert2tree[x]
                         \/ (x = v /\ v # a /\ ~isSaddle[t] /\ vert2tree'[v] = a)
      /\ ~isSaddle[t] => v = a \/ vert2tree'[v] = a
  BY <1>1, <1>2, LeavesFacts DEF Types
\* the other tasks are not at a vertex that t found regular
<1>10. ASSUME NEW o \in Leaves, o # t, cur[o] = v, ~isSaddle[t], v # a
       PROVE  ~Captured(o) /\ pc[o] \notin {"pop", "capture", "merge", "decide"}
  BY <1>1, <1>10, RegularAlone
<1>11. ASSUME NEW o \in Leaves
       PROVE  /\ Rep(o)' = Rep(o) /\ Parked(o)' = Parked(o) /\ Claims(o)' = Claims(o)
              /\ Captured(o)' <=> Captured(o) /\ (o = t => isSaddle[t])
              /\ Top(o)' = Top(o)
  <2>1. Rep(o)' = Rep(o)
    BY <1>1 DEF Rep
  <2>2. CASE o = t
    BY <1>1, <1>2, <1>9, <2>1, <2>2 DEF Parked, Claims, Captured, Top
  <2>3. CASE o # t
    BY <1>1, <1>9, <2>1, <2>3 DEF Parked, Claims, Captured, Top
  <2> QED BY <2>2, <2>3
<1>12. ASSUME NEW o \in Leaves
       PROVE  Absorbed(o)' = Absorbed(o) /\ Sweeping(o)' = Sweeping(o)
  <2>1. Parked(o) => cur[o] \in Vert
    BY DEF GInv, AtSaddle, SaddleOf
  <2>2. Parked(o) /\ cur[o] = v => vert2tree'[v] = vert2tree[v]
    <3> SUFFICES ASSUME Parked(o), cur[o] = v, vert2tree'[v] # vert2tree[v] PROVE FALSE
      OBVIOUS
    <3>1. v # a /\ ~isSaddle[t]
      BY <1>2, <1>9
    <3>2. o # t
      BY <3>1 DEF Parked
    <3> QED BY <1>10, <3>1, <3>2 DEF Captured
  <2>3. Absorbed(o)' = Absorbed(o)
    BY <1>1, <1>9, <1>11, <2>1, <2>2 DEF Absorbed
  <2>4. pc'[o] = "stopped" <=> pc[o] = "stopped"
    BY <1>1, <1>9
  <2> QED BY <1>11, <2>3, <2>4 DEF Sweeping
<1>13. ASSUME NEW o \in Leaves PROVE Holds(o)' \subseteq Holds(o)
  <2>1. CASE pc[o] # "merge"
    BY <1>1, <1>9, <1>11, <2>1 DEF Holds
  <2>2. CASE pc[o] = "merge"
    <3>1. /\ cur[o] \in Vert /\ vert2tree[cur[o]] # Null /\ ~Absorbed(o) /\ o # t
          /\ \A m \in Lower(cur[o]) \cup {cur[o]} :
                m \in Vert /\ ufs[m] # Null /\ comp[ufs[m]] \in Holds(o)
      BY <1>1, <1>3, <2>2, HoldsFacts, VertFacts DEF GInv, AtSaddle, SaddleOf, Absorbed, Parked
    <3>2. Holds(o)' = {comp'[ufs'[m]] : m \in Lower(cur[o])} \cup {comp'[ufs'[cur[o]]]}
      BY <1>1, <1>3, <1>9, <2>2, <3>1 DEF Holds, Merged, find
    <3>3. ASSUME NEW m \in Lower(cur[o]) \cup {cur[o]} PROVE comp'[ufs'[m]] \in Holds(o)
      <4>1. CASE m # v
        BY <1>1, <1>4, <3>1, <4>1
      <4>2. CASE m = v /\ Belongs(v, Rep(t))
        BY <1>4, <3>1, <4>2
      <4>3. CASE m = v /\ ~Belongs(v, Rep(t))
        <5>1. m = cur[o]
          BY <1>7, <3>1, <4>3
        <5>2. ~Open
          BY <3>1, <4>3, <5>1 DEF Open
        <5>3. PICK p \in Leaves : Late(p)
          BY <1>5, <4>3, <5>2
        <5>4. o = p
          BY <3>1, <4>3, <5>3, Sole DEF Late
        <5> QED BY <1>4, <4>3, <5>3, <5>4 DEF Late
      <4> QED BY <4>1, <4>2, <4>3
    <3> QED BY <3>2, <3>3
  <2> QED BY <2>1, <2>2
<1>14. ASSUME NEW o \in Leaves, ~Absorbed(o), NEW u \in Holds(o), NEW x \in Vert,
              ~(Belongs(x, u)' <=> Belongs(x, u))
       PROVE  /\ x = v /\ Top(o) = v /\ cur[o] = v
              /\ pc[o] \in {"publish", "open", "retire", "stopped", "merge"}
              /\ o = t \/ Parked(o) \/ Claims(o) \/ pc[o] = "merge"
  <2>1. x = v
    BY <1>4, <1>14
  <2> QED BY <1>1, <1>8, <1>14, <2>1
\* an absorbed task keeps what it has below its saddle
<1>15. ASSUME NEW o \in Leaves, Absorbed(o), NEW n \in Lower(cur[o])
       PROVE  Belongs(n, Rep(o))' <=> Belongs(n, Rep(o))
  <2>1. cur[o] \in Vert /\ vert2tree[cur[o]] # Null /\ n \in Vert
    BY <1>3, <1>15 DEF Absorbed, GInv, AtSaddle, SaddleOf
  <2>2. CASE n = v
    <3>1. Belongs(v, Rep(t))
      BY <1>7, <2>1, <2>2
    <3> QED BY <1>4, <1>11, <2>1, <3>1
  <2>3. CASE n # v
    BY <1>4, <1>11, <2>1, <2>3
  <2> QED BY <2>2, <2>3
<1>16. ASSUME NEW o \in Leaves, ~Absorbed(o), cur[o] \in Vert, NEW n \in Lower(cur[o])
       PROVE  Belongs(n, Rep(o))' <=> Belongs(n, Rep(o))
  <2>1. n \in Vert /\ n # cur[o] /\ Rep(o) \in Holds(o)
    <3>1. n \in Vert /\ n < cur[o] /\ cur[o] \in Nat /\ n \in Nat
      BY <1>3, <1>16, VertFacts
    <3> QED BY <3>1, HoldsFacts
  <2> QED BY <1>11, <1>14, <1>16, <2>1
<1>17. ASSUME NEW o \in Leaves, ~Absorbed(o), cur[o] \in Vert PROVE Own(o)' = Own(o)
  BY <1>1, <1>3, <1>16, <1>17 DEF Own
<1>18. Types'
  <2>1. ufs' \in [Vert -> Vert \cup {Null}]
    BY <1>1, <1>2 DEF Types
  <2>2. vert2tree' \in [Vert -> Vert \cup {Null, IsNode}]
    <3>1. vert2tree' = vert2tree \/ vert2tree' = [vert2tree EXCEPT ![v] = a]
      BY <1>1
    <3>2. vert2tree \in [Vert -> Vert \cup {Null, IsNode}] /\ v \in Vert /\ a \in Vert
      BY <1>2 DEF Types
    <3> QED BY <3>1, <3>2
  <2>3. lastVisited' \in [Vert -> Vert \cup {Null}]
    BY <1>1, <1>2 DEF Types
  <2>4. /\ pc' \in [Vert -> {"none", "waiting", "start", "pop", "capture", "publish",
                             "open", "retire", "merge", "decide", "stopped"}]
        /\ \A w \in Vert \ Leaves : pc'[w] = "none"
    BY <1>1 DEF Types
  <2> QED BY <1>1, <1>3, <2>1, <2>2, <2>3, <2>4 DEF Types
<1>19. Representatives'
  <2>1. ~isSaddle[t] => Rep(t) = startUF[t]
    BY <1>1 DEF GInv, Representatives
  <2> QED BY <1>1, <1>3, <1>9, <1>11, <2>1 DEF GInv, Representatives
<1>20. Exclusive'
  BY <1>3, <1>12, <1>13 DEF GInv, Exclusive
<1>21. ASSUME NEW o \in Leaves PROVE SweptOf(o)' /\ QueueOf(o)'
  <2> SUFFICES ASSUME Sweeping(o), NEW u \in Holds(o), NEW x \in Vert
               PROVE  /\ Belongs(x, u)' => x <= Top(o)
                      /\ heap[u][x] > 0 =>
                            /\ x >= Top(o)
                            /\ x = Top(o) \/ \E n \in Lower(x) : Belongs(n, u)' \/ n = Top(o)
    BY <1>1, <1>3, <1>11, <1>12, <1>13 DEF SweptOf, QueueOf
  <2>0. ~Absorbed(o)
    BY DEF Sweeping
  <2>1. ASSUME Belongs(x, u)' PROVE x <= Top(o)
    <3>1. CASE Belongs(x, u)
      BY <3>1 DEF GInv, Swept, SweptOf
    <3>2. CASE ~Belongs(x, u)
      <4>1. x = Top(o) /\ x \in Nat
        BY <1>14, <2>0, <2>1, <3>2, VertFacts
      <4> QED BY <4>1
    <3> QED BY <3>1, <3>2
  <2>2. ASSUME heap[u][x] > 0
        PROVE  /\ x >= Top(o)
               /\ x = Top(o) \/ \E n \in Lower(x) : Belongs(n, u)' \/ n = Top(o)
    <3>1. /\ x >= Top(o)
          /\ x = Top(o) \/ \E n \in Lower(x) : Belongs(n, u) \/ n = Top(o)
      BY <2>2 DEF GInv, Queues, QueueOf
    <3>2. ASSUME NEW n \in Lower(x), Belongs(n, u) PROVE Belongs(n, u)' \/ n = Top(o)
      BY <1>3, <1>14, <2>0, <3>2
    <3> QED BY <3>1, <3>2
  <2> QED BY <2>1, <2>2
<1>22. ASSUME NEW o \in Leaves PROVE ArcOf(o)'
  <2>1. ArcOf(o) /\ startVert[o] \in Vert /\ o \in Vert
    BY LeavesFacts DEF GInv, Arcs, Types
  <2>2. vert2tree'[startVert[o]] = IsNode
    <3>1. vert2tree[startVert[o]] = IsNode
      BY <2>1 DEF ArcOf
    <3> QED BY <1>2, <1>9, <2>1, <3>1, VertFacts
  <2>3. ASSUME pc'[o] = "waiting"
        PROVE  startVert[o] = o /\ startUF[o] = o /\ ufs'[o] = Null /\ ~isSaddle[o]
    <3>1. o # t /\ startVert[o] = o /\ startUF[o] = o /\ ufs[o] = Null /\ ~isSaddle[o]
      BY <1>9, <2>1, <2>3 DEF ArcOf
    <3>2. o # v
      <4> SUFFICES ASSUME o = v PROVE FALSE
        OBVIOUS
      <4>1. ~Open /\ ~Belongs(v, Rep(t)) /\ Lower(o) = {}
        BY <2>1, <3>1, LeavesFacts, VertFacts DEF Open, Belongs, ArcOf
      <4>2. PICK p \in Leaves : Late(p)
        BY <1>5, <4>1
      <4> QED BY <4>1, <4>2, LeavesFacts DEF Late, GInv, AtSaddle, SaddleOf
    <3> QED BY <1>4, <2>1, <3>1, <3>2
  <2>4. ASSUME pc'[o] # "waiting", Sweeping(o) PROVE Belongs(startVert[o], Rep(o))'
    <3>1. pc[o] # "waiting" /\ ~Absorbed(o) /\ Rep(o) \in Holds(o)
      BY <1>1, <1>9, <2>4, HoldsFacts DEF Sweeping
    <3>2. Belongs(startVert[o], Rep(o))
      BY <2>1, <2>4, <3>1 DEF ArcOf
    <3>3. CASE ~(Belongs(startVert[o], Rep(o))' <=> Belongs(startVert[o], Rep(o)))
      <4>1. /\ startVert[o] = v /\ cur[o] = v /\ vert2tree[v] = IsNode
            /\ o = t \/ Parked(o) \/ Claims(o) \/ pc[o] = "merge"
        BY <1>1, <1>11, <1>14, <2>1, <3>1, <3>3 DEF ArcOf
      <4>2. o = t
        BY <2>1, <4>1, VertFacts DEF GInv, AtSaddle, SaddleOf
      <4> QED BY <1>1, <1>4, <1>11, <3>2, <3>3, <4>1, <4>2
    <3> QED BY <3>2, <3>3
  <2>5. ASSUME pc'[o] = "pop", o # t
        PROVE  /\ Belongs(Top(o), Rep(o))'
               /\ seenFirst[o] => /\ cur[o] \in Vert
                                  /\ cur[o] = startVert[o] \/ OnArc(cur[o])'
                                  /\ lastVisited'[startVert[o]] = cur[o]
                                  /\ ~isSaddle[o]
               /\ ~seenFirst[o] => /\ heap[startUF[o]][startVert[o]] > 0
                                   /\ cur[o] \in {Null, startVert[o]}
    <3>1. /\ pc[o] = "pop" /\ ~Absorbed(o) /\ Sweeping(o) /\ Rep(o) \in Holds(o)
          /\ Belongs(Top(o), Rep(o)) /\ Top(o) \in Vert
      BY <1>9, <2>1, <2>5, HoldsFacts DEF ArcOf, Absorbed, Parked, Sweeping, Top
    <3>2. Belongs(Top(o), Rep(o))'
      <4>1. Belongs(Top(o), Rep(o))' <=> Belongs(Top(o), Rep(o))
        BY <1>11, <1>14, <3>1
      <4> QED BY <3>1, <4>1
    <3>3. ~isSaddle[t] => startVert[o] # a
      <4> SUFFICES ASSUME ~isSaddle[t], startVert[o] = a PROVE FALSE
        OBVIOUS
      <4>1. ~Absorbed(t) /\ Sweeping(t) /\ Belongs(a, Rep(t))
        BY <1>1, <1>2 DEF Sweeping, GInv, Arcs, ArcOf
      <4>2. Belongs(a, Rep(o))
        BY <2>1, <3>1 DEF ArcOf
      <4>3. Rep(o) \in Holds(t)
        BY <1>2, <4>1, <4>2 DEF Belongs
      <4> QED BY <2>5, <3>1, <4>1, <4>3, SoleRep
    <3>4. lastVisited'[startVert[o]] = lastVisited[startVert[o]]
      BY <1>1, <1>2, <2>1, <3>3 DEF Types
    <3>5. seenFirst[o] /\ OnArc(cur[o]) => OnArc(cur[o])'
      BY <1>1, <1>2, <1>9, <2>1, <3>1, VertFacts DEF ArcOf, OnArc
    <3> QED BY <2>1, <3>1, <3>2, <3>4, <3>5 DEF ArcOf
  <2>6. ASSUME pc'[o] = "pop", o = t
        PROVE  /\ Belongs(Top(t), Rep(t))' /\ seenFirst[t] /\ cur[t] \in Vert
               /\ cur[t] = startVert[t] \/ OnArc(cur[t])'
               /\ lastVisited'[startVert[t]] = cur[t] /\ ~isSaddle[t]
    <3>1. ~isSaddle[t] /\ seenFirst[t]
      BY <1>2, <1>9, <2>6
    <3>2. lastVisited'[a] = v
      BY <1>1, <1>2, <3>1 DEF Types
    <3>3. v = a \/ OnArc(v)'
      BY <1>1, <1>2, <1>9, <3>1, VertFacts DEF OnArc
    <3>4. Belongs(Top(t), Rep(t))'
      BY <1>1, <1>2, <1>4, <1>11
    <3> QED BY <1>2, <3>1, <3>2, <3>3, <3>4
  <2>7. pc'[o] \in {"waiting", "start"} => cur[o] \in {Null, startVert[o]}
    BY <1>9, <2>1 DEF ArcOf
  <2> QED BY <1>1, <1>12, <2>2, <2>3, <2>4, <2>5, <2>6, <2>7 DEF ArcOf
<1>23. LowerClosed'
  <2> SUFFICES ASSUME NEW x \in Vert, vert2tree'[x] # Null, NEW n \in Lower(x)
               PROVE  /\ ufs'[n] # Null /\ ufs'[x] # Null
                      /\ \/ comp'[ufs'[n]] = comp'[ufs'[x]]
                         \/ \E p \in Leaves : pc'[p] = "merge" /\ cur[p] = x /\ n \in todo[p]
    BY <1>1, <1>3 DEF LowerClosed
  <2>0. n \in Vert /\ n # x
    <3>1. n \in Vert /\ n < x /\ n \in Nat
      BY <1>3, VertFacts
    <3> QED BY <3>1
  <2>m. \A p \in Leaves : pc[p] = "merge" => pc'[p] = "merge"
    BY <1>1, <1>9
  <2>1. CASE vert2tree[x] = Null
    <3>1. x = v /\ v # a /\ ~isSaddle[t]
      BY <1>9, <2>1
    <3>2. n \in Own(t)
      BY <1>2, <3>1
    <3>3. ufs[n] # Null /\ comp[ufs[n]] = Rep(t)
      BY <3>2 DEF Own, Belongs
    <3> QED BY <1>1, <1>4, <2>0, <3>1, <3>3
  <2>2. CASE vert2tree[x] # Null
    <3>1. /\ ufs[n] # Null /\ ufs[x] # Null
          /\ \/ comp[ufs[n]] = comp[ufs[x]]
             \/ \E p \in Leaves : pc[p] = "merge" /\ cur[p] = x /\ n \in todo[p]
      BY <2>2 DEF GInv, LowerClosed
    <3>2. CASE Belongs(v, Rep(t))
      BY <1>4, <2>0, <2>m, <3>1, <3>2
    <3>3. CASE ~Belongs(v, Rep(t)) /\ x = v
      <4>1. PICK p \in Leaves : Late(p)
        BY <1>5, <2>2, <3>3 DEF Open
      <4> QED BY <1>4, <2>0, <2>m, <3>1, <3>3, <4>1 DEF Late
    <3>4. CASE ~Belongs(v, Rep(t)) /\ x # v
      <4>1. n # v
        BY <1>7, <2>2, <3>4
      <4> QED BY <1>1, <1>4, <2>0, <2>m, <3>1, <3>4, <4>1
    <3> QED BY <3>2, <3>3, <3>4
  <2> QED BY <2>1, <2>2
<1>24. Published'
  <2> SUFFICES ASSUME NEW x \in Vert, vert2tree'[x] = Null, ufs'[x] # Null
               PROVE  \E p \in Leaves : /\ cur[p] = x /\ Belongs(x, Rep(p))'
                                        /\ Parked(p)' \/ Claims(p)'
                                        /\ pc'[p] # "publish"
    BY <1>1, <1>3 DEF Published
  <2>0. vert2tree[x] = Null
    BY <1>2, <1>9, VertFacts
  <2>1. CASE x = v
    <3>1. v # a
      BY <1>2, <2>0, <2>1, VertFacts
    <3>2. isSaddle[t]
      BY <1>2, <1>9, <2>1, <3>1, VertFacts
    <3>3. pc'[t] = "open" /\ (Parked(t)' \/ Claims(t)')
      BY <1>1, <1>9, <3>2 DEF Parked, Claims
    <3>4. Belongs(x, Rep(t))'
      BY <1>1, <1>4, <1>11, <2>1
    <3> QED BY <2>1, <3>3, <3>4
  <2>2. CASE x # v
    <3>1. PICK p \in Leaves : /\ cur[p] = x /\ Belongs(x, Rep(p))
                              /\ Parked(p) \/ Claims(p)
                              /\ pc[p] # "publish"
      BY <1>4, <2>0, <2>2 DEF GInv, Published
    <3>2. p # t
      BY <1>1, <3>1
    <3> QED BY <1>4, <1>9, <1>11, <2>2, <3>1, <3>2
  <2> QED BY <2>1, <2>2
<1>25. ASSUME NEW o \in Leaves PROVE VisitOf(o)'
  <2> SUFFICES ASSUME pc[o] = "capture" \/ (Captured(o) /\ (o = t => isSaddle[t])), ~Absorbed(o)
               PROVE  VisitOf(o)'
    BY <1>1, <1>9, <1>11, <1>12 DEF VisitOf
  <2>1. VisitOf(o) /\ cur[o] \in Vert
    BY DEF GInv, Visits, VisitOf
  <2>2. Own(o)' = Own(o) /\ Lower(cur[o])' = Lower(cur[o])
    BY <1>1, <1>3, <1>17, <2>1
  <2>3. vert2tree'[cur[o]] = vert2tree[cur[o]]
    <3> SUFFICES ASSUME vert2tree'[cur[o]] # vert2tree[cur[o]] PROVE FALSE
      OBVIOUS
    <3>1. cur[o] = v /\ v # a /\ ~isSaddle[t]
      BY <1>9, <2>1
    <3> QED BY <1>1, <1>10, <3>1
  <2>4. ufs[cur[o]] # Null => ufs'[cur[o]] # Null
    BY <1>4, <2>1
  <2>5. CASE o = t
    <3>1. ufs'[v] # Null /\ isSaddle[t] /\ pc'[t] = "open"
      BY <1>1, <1>4, <1>9, <2>5
    <3> QED BY <1>1, <1>11, <2>1, <2>2, <2>3, <2>5, <3>1 DEF VisitOf
  <2>6. CASE o # t
    BY <1>1, <1>9, <1>11, <2>1, <2>2, <2>3, <2>4, <2>6 DEF VisitOf
  <2> QED BY <2>5, <2>6
<1>26. ASSUME NEW o \in Leaves PROVE SaddleOf(o)'
  <2>1. SaddleOf(o)
    BY DEF GInv, AtSaddle
  <2>2. ASSUME Parked(o) \/ Claims(o) \/ pc'[o] = "merge"
        PROVE  /\ cur[o] \in Vert /\ startVert[o] < cur[o]
               /\ \E m \in Lower(cur[o]) : Belongs(m, Rep(o))'
    <3>1. Parked(o) \/ Claims(o) \/ pc[o] = "merge"
      BY <1>9, <2>2
    <3>2. cur[o] \in Vert /\ startVert[o] < cur[o]
      BY <2>1, <3>1 DEF SaddleOf
    <3>3. PICK m \in Lower(cur[o]) : Belongs(m, Rep(o))
      BY <2>1, <3>1 DEF SaddleOf
    <3>4. Belongs(m, Rep(o))'
      BY <1>15, <1>16, <3>2, <3>3
    <3> QED BY <3>2, <3>4
  <2>3. ASSUME pc'[o] \in {"merge", "decide"}
        PROVE  /\ o # t /\ pc[o] = pc'[o] /\ ~Absorbed(o)
               /\ cur[o] \in Vert /\ isSaddle[o] /\ isLast[o]
               /\ vert2tree[cur[o]] = IsNode /\ vert2tree'[cur[o]] = IsNode
               /\ ufs[cur[o]] # Null /\ ufs'[cur[o]] # Null
    <3>1. o # t /\ pc[o] = pc'[o] /\ ~Absorbed(o)
      BY <1>1, <1>9, <2>3 DEF Absorbed, Parked
    <3>2. /\ cur[o] \in Vert /\ isSaddle[o] /\ isLast[o]
          /\ vert2tree[cur[o]] = IsNode /\ ufs[cur[o]] # Null
      BY <2>1, <2>3, <3>1 DEF SaddleOf
    <3>3. vert2tree'[cur[o]] = IsNode
      BY <1>2, <1>9, <3>2, VertFacts
    <3> QED BY <1>4, <3>1, <3>2, <3>3
  <2>4. ASSUME pc'[o] = "merge"
        PROVE  /\ todo[o] \subseteq Lower(cur[o])
               /\ \A m \in Lower(cur[o]) \ todo[o] : comp'[ufs'[m]] = comp'[ufs'[cur[o]]]
    <3>1. /\ todo[o] \subseteq Lower(cur[o])
          /\ \A m \in Lower(cur[o]) \ todo[o] : comp[ufs[m]] = comp[ufs[cur[o]]]
      BY <2>1, <2>3, <2>4 DEF SaddleOf
    <3>2. ASSUME NEW m \in Lower(cur[o]), m \notin todo[o]
          PROVE  comp'[ufs'[m]] = comp'[ufs'[cur[o]]]
      <4>1. m \in Vert /\ ufs[m] # Null
        BY <1>3, <2>3, <2>4, HoldsFacts
      <4>2. CASE Belongs(v, Rep(t))
        BY <1>4, <2>3, <2>4, <3>1, <3>2, <4>1, <4>2
      <4>3. CASE ~Belongs(v, Rep(t)) /\ cur[o] = v
        <5>1. PICK p \in Leaves : Late(p)
          BY <1>5, <2>3, <2>4, <4>3, VertFacts DEF Open
        <5>2. comp[ufs[v]] \in Holds(o)
          BY <2>3, <2>4, <4>3, HoldsFacts
        <5>3. o = p
          BY <2>3, <2>4, <5>1, <5>2, Sole DEF Late
        <5> QED BY <3>2, <4>3, <5>1, <5>3 DEF Late
      <4>4. CASE ~Belongs(v, Rep(t)) /\ cur[o] # v
        <5>1. m # v
          BY <1>7, <2>3, <2>4, <4>4, VertFacts
        <5> QED BY <1>1, <1>4, <2>3, <2>4, <3>1, <3>2, <4>1, <4>4, <5>1
      <4> QED BY <4>2, <4>3, <4>4
    <3> QED BY <3>1, <3>2
  <2>5. ASSUME pc'[o] = "decide" PROVE Belongs(cur[o], Rep(o))'
    <3>1. /\ Belongs(cur[o], Rep(o)) /\ Rep(o) \in Holds(o) /\ ~Absorbed(o)
          /\ cur[o] \in Vert /\ pc[o] = "decide"
      BY <2>1, <2>3, <2>5, HoldsFacts DEF SaddleOf
    <3>2. Belongs(cur[o], Rep(o))' <=> Belongs(cur[o], Rep(o))
      BY <1>1, <1>11, <1>14, <3>1
    <3> QED BY <3>1, <3>2
  <2>6. pc'[o] = "retire" => Parked(o)
    BY <1>9, <2>1 DEF SaddleOf
  <2>7. cur[o] \in Vert => Lower(cur[o])' = Lower(cur[o])
    BY <1>1, <1>3
  <2> QED BY <1>1, <1>11, <2>2, <2>3, <2>4, <2>5, <2>6, <2>7 DEF SaddleOf
<1>s. \A x \in Vert : vert2tree'[x] = Null => Accounted(x)' = Accounted(x)
  <2> SUFFICES ASSUME NEW x \in Vert, vert2tree'[x] = Null, NEW n \in Lower(x),
                      NEW o \in Leaves, cur[o] = x, Captured(o)
               PROVE  Captured(o)' /\ (Belongs(n, Rep(o))' <=> Belongs(n, Rep(o)))
    BY <1>1, <1>3, <1>11 DEF Accounted
  <2>1. vert2tree[x] = Null
    BY <1>2, <1>9, VertFacts
  <2>2. ~Absorbed(o)
    BY <2>1, AtOpenVertex
  <2>3. o = t => isSaddle[t]
    BY <1>2, <1>9, <2>1, VertFacts
  <2> QED BY <1>11, <1>16, <2>2, <2>3
<1>27. Counts'
  <2>2. \A x \in Vert : vert2tree'[x] = Null => vert2tree[x] = Null
    BY <1>2, <1>9, VertFacts
  <2> QED BY <1>1, <1>3, <1>11, <1>s, <2>2 DEF GInv, Counts
<1>28. \/ \A x \in Vert : ufs[x] # Null =>
              ufs'[x] # Null /\ comp'[ufs'[x]] = comp[ufs[x]]
       \/ \A x \in Vert : vert2tree[x] # Null => v \notin Lower(x)
  BY <1>4, <1>7
<1>29. \A o \in Leaves : ~Absorbed(o) =>
          \A u \in Holds(o), x \in Vert :
              \/ Belongs(x, u)' <=> Belongs(x, u)
              \/ x = Top(o) /\ pc[o] # "capture"
  BY <1>14
<1>o. Single'
  BY SingleKept DEF TaskStep
<1> QED BY <1>o, <1>s, <1>3, <1>11, <1>12, <1>13, <1>18, <1>19, <1>20, <1>21, <1>22, <1>23, <1>24,
           <1>25, <1>26, <1>27, <1>28, <1>29 DEF GInv, Swept, Queues, Arcs, Visits, AtSaddle
-------------------------------------------------------------------------------
(***************************************************************************)
(* The inductive invariant.                                                *)
(***************************************************************************)
(* Every step of a task keeps the inductive invariant of the growth.       *)
LEMMA TaskKeeps ==
    ASSUME Types, GInv, NEW t \in Vert, TaskStep(t), ~Overtake
    PROVE  Types' /\ GInv'
<1>1. pc[t] # "none"
  BY DEF TaskStep, OnlyLeaf, Launch, Start, Visit, Capture, CaptureWith, Publish, OpenNode,
     Retire, MergeNeighbor, CloseArcs, Restart, CloseRoot
<1>2. t \in Leaves
  BY <1>1 DEF Types
<1>3. CASE OnlyLeaf(t) \/ Launch(t)
  BY <1>2, <1>3, LaunchKeeps
<1>4. CASE Start(t)
  BY <1>2, <1>4, StartKeeps
<1>5. CASE Visit(t)
  BY <1>2, <1>5, VisitKeeps
<1>6. CASE Capture(t)
  BY <1>2, <1>6, CaptureKeeps
<1>7. CASE Publish(t)
  BY <1>2, <1>7, PublishKeeps
<1>8. CASE OpenNode(t)
  BY <1>2, <1>8, StopKeeps, CloseKeeps
<1>9. CASE Retire(t)
  BY <1>2, <1>9, RetireKeeps
<1>10. CASE \E n \in Vert : MergeNeighbor(t, n)
  BY <1>2, <1>10, SkipKeeps, UniteKeeps
<1>11. CASE CloseArcs(t)
  BY <1>2, <1>11, CloseArcsKeeps
<1>12. CASE Restart(t)
  BY <1>2, <1>12, RestartKeeps
<1>13. CASE CloseRoot(t)
  BY <1>2, <1>13, CloseRootKeeps
<1> QED BY <1>3, <1>4, <1>5, <1>6, <1>7, <1>8, <1>9, <1>10, <1>11, <1>12, <1>13
        DEF TaskStep

(* A step of a task stays in the growth.                                   *)
LEMMA TaskPhase ==
    ASSUME NEW t \in Vert, TaskStep(t)
    PROVE  phase' = phase /\ pc[t] \notin {"none", "stopped"}
  BY DEF TaskStep, OnlyLeaf, Launch, Start, Visit, Capture, CaptureWith, Publish, OpenNode,
     Retire, MergeNeighbor, CloseArcs, Restart, CloseRoot

(* A turn of mergeStates changes only the list of the states: what they    *)
(* have queued together stays the same.                                    *)
LEMMA MergeStatesFrame ==
    ASSUME Types, GInv, NEW t \in Vert, MergeStates(t)
    PROVE  /\ t \in Leaves /\ pc[t] = "decide" /\ states' \in Listed /\ heap' = heap
           /\ comp[ufs[cur[t]]] = Rep(t) /\ Rep(t) \in Vert
           /\ LET s == states[Rep(t)]
                  r == states'[Rep(t)]
              IN  /\ Len(s) \in Nat /\ Len(s) > 1 /\ Len(r) = Len(s) - 1
                  /\ r[1] = Sum(s[1], s[2])
                  /\ \A i \in 2..(Len(s) - 1) : r[i] = s[i + 1]
           /\ \A w \in Vert : w # Rep(t) => states'[w] = states[w]
           /\ UNCHANGED <<mesh, phase, comp, rank, openedArcs, ufs, propagation, valences,
                          openedNodes, segmVars, treeVars, activeTasks, trunkVars, pc,
                          callVars, visitVars>>
<1>1. t \in Leaves /\ pc[t] = "decide" /\ states \in Listed
  BY DEF MergeStates, Types
<1>2. PICK u : u = Rep(t)
  OBVIOUS
<1>3. comp[ufs[cur[t]]] = u /\ u \in Vert
  BY <1>1, <1>2 DEF GInv, AtSaddle, SaddleOf, Belongs, Types, Rep
<1>4. /\ Len(states[u]) > 1 /\ Len(states[u]) \in Nat
      /\ states' = [states EXCEPT ![u] = <<Sum(@[1], @[2])>> \o SubSeq(@, 3, Len(@))]
  BY <1>1, <1>3, LenProperties DEF MergeStates, ToMerge, find, Listed
<1>5. /\ states' \in Listed /\ Len(states'[u]) = Len(states[u]) - 1 /\ heap' = heap
      /\ states'[u][1] = Sum(states[u][1], states[u][2])
      /\ \A i \in 2..(Len(states[u]) - 1) : states'[u][i] = states[u][i + 1]
      /\ \A w \in Vert : w # u => states'[w] = states[w]
  BY <1>1, <1>3, <1>4, MergeFacts
<1>6. UNCHANGED <<mesh, phase, comp, rank, openedArcs, ufs, propagation, valences,
                  openedNodes, segmVars, treeVars, activeTasks, trunkVars, pc,
                  callVars, visitVars>>
  BY DEF MergeStates
<1> DEFINE m == Len(states[u])
<1>7. /\ m \in Nat /\ m > 1 /\ Len(states'[u]) = m - 1
      /\ states'[u][1] = Sum(states[u][1], states[u][2])
      /\ \A i \in 2..(m - 1) : states'[u][i] = states[u][i + 1]
  BY <1>4, <1>5
<1> QED BY <1>1, <1>2, <1>3, <1>5, <1>6, <1>7

(* What such a step, or one that changes nothing, leaves alone.            *)
Resting == /\ heap' = heap
           /\ UNCHANGED <<mesh, phase, comp, ufs, propagation, valences, vert2tree,
                          lastVisited, activeTasks, pc, startVert, startUF, seenFirst,
                          cur, isSaddle, isLast, decr, todo>>

(* The tasks rest while one of them merges states.                         *)
LEMMA MergeRests ==
    ASSUME Types, GInv, NEW t \in Vert, MergeStates(t)
    PROVE  Resting
<1>1. heap' = heap
  BY MergeStatesFrame
<1> QED BY <1>1 DEF MergeStates, Resting, segmVars, callVars, visitVars

(* They rest in a step that is none of the program's.                      *)
LEMMA StutterRests == UNCHANGED vars => Resting
  BY HeapSame DEF vars, ufVars, segmVars, callVars, visitVars, Resting

(* Such a step, and one that changes nothing, keeps the invariant.         *)
LEMMA StandStill ==
    ASSUME Types, GInv, Single',
           mesh' = mesh, comp' = comp, heap' = heap, ufs' = ufs,
           valences' = valences, vert2tree' = vert2tree, lastVisited' = lastVisited,
           pc' = pc, startVert' = startVert, startUF' = startUF,
           seenFirst' = seenFirst, cur' = cur, isSaddle' = isSaddle,
           isLast' = isLast, decr' = decr, todo' = todo
    PROVE  GInv'
<1>1. /\ Leaves' = Leaves /\ \A v \in Vert : Lower(v)' = Lower(v)
      /\ Leaves \subseteq Vert
  BY SameMesh, LeavesFacts
<1>2. \A n, u : Belongs(n, u)' <=> Belongs(n, u)
  BY DEF Belongs
<1>3. ASSUME NEW o
      PROVE  /\ Parked(o)' <=> Parked(o)
             /\ Claims(o)' <=> Claims(o)
             /\ Absorbed(o)' <=> Absorbed(o)
             /\ Captured(o)' <=> Captured(o)
             /\ Sweeping(o)' <=> Sweeping(o)
             /\ Rep(o)' = Rep(o)
             /\ Top(o)' = Top(o)
  <2>1. (Parked(o)' <=> Parked(o)) /\ (Claims(o)' <=> Claims(o)) /\ Rep(o)' = Rep(o)
        /\ Top(o)' = Top(o)
    BY DEF Parked, Claims, Rep, Top
  <2>2. Absorbed(o)' <=> Absorbed(o)
    BY <2>1 DEF Absorbed
  <2> QED BY <2>1, <2>2 DEF Captured, Sweeping
<1>4. ASSUME NEW o
      PROVE  /\ cur[o] \in Vert => Lower(cur[o])' = Lower(cur[o])
             /\ cur[o] \in Vert => Own(o)' = Own(o)
             /\ cur[o] \in Vert \/ pc[o] # "merge" => Holds(o)' = Holds(o)
  <2>1. cur[o] \in Vert => Lower(cur[o])' = Lower(cur[o])
    BY <1>1
  <2>2. cur[o] \in Vert => Own(o)' = Own(o)
    BY <2>1, <1>2, <1>3 DEF Own
  <2>3. cur[o] \in Vert => Merged(o)' = Merged(o)
    BY <2>1 DEF Merged, find
  <2> QED BY <2>1, <2>2, <2>3, <1>3 DEF Holds
<1>5. \A v \in Vert : Accounted(v)' = Accounted(v)
  BY <1>1, <1>2, <1>3 DEF Accounted
<1>6. \A o \in Leaves : Holds(o)' = Holds(o)
  BY <1>4 DEF GInv, AtSaddle, SaddleOf
<1>7. Representatives' /\ Exclusive'
  BY <1>1, <1>3, <1>6 DEF GInv, Representatives, Exclusive
<1>8. Swept'
  BY <1>1, <1>2, <1>3, <1>6 DEF GInv, Swept, SweptOf
<1>9. Queues'
  <2>1. SUFFICES ASSUME NEW t \in Leaves PROVE QueueOf(t)'
    BY <1>1 DEF Queues
  <2> QED BY <1>1, <1>2, <1>3, <1>6 DEF GInv, Queues, QueueOf
<1>10. Arcs'
  <2>1. SUFFICES ASSUME NEW t \in Leaves PROVE ArcOf(t)'
    BY <1>1 DEF Arcs
  <2> QED BY <1>1, <1>2, <1>3 DEF GInv, Arcs, ArcOf, OnArc
<1>11. LowerClosed'
  BY <1>1 DEF GInv, LowerClosed
<1>12. Published'
  BY <1>1, <1>2, <1>3 DEF GInv, Published
<1>13. Visits'
  <2>1. SUFFICES ASSUME NEW t \in Leaves PROVE VisitOf(t)'
    BY <1>1 DEF Visits
  <2>2. VisitOf(t)
    BY DEF GInv, Visits
  <2> QED BY <2>2, <1>3, <1>4 DEF VisitOf
<1>14. AtSaddle'
  <2>1. SUFFICES ASSUME NEW t \in Leaves PROVE SaddleOf(t)'
    BY <1>1 DEF AtSaddle
  <2>2. SaddleOf(t)
    BY DEF GInv, AtSaddle
  <2> QED BY <2>2, <1>2, <1>3, <1>4 DEF SaddleOf
<1>15. Counts'
  BY <1>1, <1>3, <1>5 DEF GInv, Counts
<1> QED BY <1>7, <1>8, <1>9, <1>10, <1>11, <1>12, <1>13, <1>14, <1>15 DEF GInv

(* A turn of mergeStates keeps the invariant.                              *)
LEMMA MergeStatesKeeps ==
    ASSUME Types, GInv, NEW t \in Vert, MergeStates(t)
    PROVE  Types' /\ GInv'
<1>1. /\ heap' = heap /\ states' \in Listed /\ Rep(t) \in Vert /\ t \in Leaves
      /\ pc[t] = "decide" /\ \A w \in Vert : w # Rep(t) => states'[w] = states[w]
      /\ UNCHANGED <<mesh, comp, ufs, valences, vert2tree, lastVisited, pc, startVert,
                     startUF, seenFirst, cur, isSaddle, isLast, decr, todo>>
  BY MergeStatesFrame DEF segmVars, callVars, visitVars
<1>2. /\ Leaves' = Leaves /\ \A v \in Vert : Lower(v)' = Lower(v)
  BY <1>1, SameMesh
<1>3. Types'
  BY <1>1, <1>2 DEF Types
<1>4. Single'
  <2> SUFFICES ASSUME NEW o \in Leaves, Sweeping(o), pc[o] \notin {"merge", "decide"}
               PROVE  Len(states'[Rep(o)]) <= 1
    BY <1>1, <1>2 DEF Single, OneState, Sweeping, Absorbed, Parked, Rep
  <2>1. Rep(o) # Rep(t) /\ Rep(o) \in Vert
    <3>1. ~Absorbed(t) /\ ~Absorbed(o) /\ o # t /\ Rep(o) \in Holds(o) /\ o \in Vert
      BY <1>1, HoldsFacts, LeavesFacts DEF Sweeping, Absorbed, Parked
    <3>2. Rep(t) \in Holds(t)
      BY <1>1, HoldsFacts
    <3> QED BY <1>1, <3>1, <3>2, SoleRep DEF Types, Rep
  <2> QED BY <1>1, <2>1 DEF GInv, Single, OneState
<1>5. GInv'
  BY <1>1, <1>4, StandStill
<1> QED BY <1>3, <1>5

(* Every step of the program keeps the invariant, from the launch to the   *)
(* end of the growth.                                                      *)
LEMMA GrowthStep ==
    ASSUME IInv, [Next]_vars, ~Overtake
    PROVE  IInv'
<1>1. CASE phase = "growth"
  <2>0. Types /\ GInv
    BY <1>1 DEF IInv
  <2>1. ASSUME NEW t \in Vert, TaskStep(t) PROVE IInv'
    BY <1>1, <2>0, <2>1, TaskKeeps, TaskPhase DEF IInv
  <2>m. ASSUME NEW t \in Vert, MergeStates(t) PROVE IInv'
    BY <1>1, <2>0, <2>m, MergeStatesKeeps, MergeStatesFrame DEF IInv
  <2>2. CASE BeginTrunk
    <3>1. phase' # "growth" /\ mesh' = mesh /\ pc' = pc
      BY <2>2 DEF BeginTrunk, growthVars
    <3>2. \A v \in Vert : pc[v] \in {"none", "stopped"}
      BY <2>0, <2>2 DEF BeginTrunk, Types
    <3> QED BY <2>0, <3>1, <3>2 DEF IInv, Types
  <2>3. CASE UNCHANGED vars
    <3>1. mesh' = mesh /\ phase' = phase /\ comp' = comp /\ heap' = heap /\ ufs' = ufs
          /\ valences' = valences /\ vert2tree' = vert2tree /\ lastVisited' = lastVisited
          /\ pc' = pc /\ startVert' = startVert /\ startUF' = startUF
          /\ seenFirst' = seenFirst /\ cur' = cur /\ isSaddle' = isSaddle
          /\ isLast' = isLast /\ decr' = decr /\ todo' = todo /\ states' = states
      BY <2>3, HeapSame DEF vars, ufVars, segmVars, callVars, visitVars
    <3>2. /\ Leaves' = Leaves /\ \A v \in Vert : Lower(v)' = Lower(v)
      BY <3>1, SameMesh
    <3>3. Types'
      BY <2>0, <3>1, <3>2 DEF Types
    <3>4. Single'
      BY <2>0, <3>1, <3>2 DEF GInv, Single, OneState, Sweeping, Absorbed, Parked, Rep
    <3>5. GInv'
      BY <2>0, <3>1, <3>4, StandStill
    <3> QED BY <1>1, <3>1, <3>3, <3>5 DEF IInv
  <2>4. ~TrunkClose /\ ~TrunkArcs /\ ~TrunkSegment /\ ~Built
    BY <1>1 DEF TrunkClose, TrunkCloseUpTo, TrunkArcs, TrunkSegment, Built
  <2> QED BY <2>1, <2>m, <2>2, <2>3, <2>4 DEF Next, Trunk
<1>2. CASE phase # "growth"
  <2>0. mesh \in Meshes /\ \A v \in Vert : pc[v] \in {"none", "stopped"}
    BY <1>2 DEF IInv
  <2>1. ~\E t \in Vert : TaskStep(t) \/ MergeStates(t)
    BY <2>0, TaskPhase DEF MergeStates
  <2>2. phase' # "growth" /\ mesh' = mesh /\ pc' = pc
    BY <1>2, <2>1 DEF Next, Trunk, BeginTrunk, TrunkClose, TrunkCloseUpTo, TrunkArcs,
       TrunkSegment, Built, growthVars, vars
  <2> QED BY <2>0, <2>2 DEF IInv
<1> QED BY <1>1, <1>2

(* Whatever the number of vertices, the mesh and the interleaving of the   *)
(* tasks, the sets and queues of the tasks, the valences and the arcs stay *)
(* consistent throughout the growth.                                       *)
THEOREM GrowthInvariant ==
    ASSUME ~Overtake
    PROVE  Spec => []IInv
<1>1. Init => IInv
  BY InitGrowth DEF IInv, Init
<1>2. IInv /\ [Next]_vars => IInv'
  BY GrowthStep
<1> QED BY <1>1, <1>2, PTL DEF Spec

(* A task that merges, sets and then their states, holds what it merges.   *)
LEMMA MergedHeld ==
    ASSUME Types, GInv, NEW t \in Leaves, pc[t] \in {"merge", "decide"}
    PROVE  Holds(t) = Merged(t)
<1>1. CASE pc[t] = "merge"
  BY <1>1 DEF Holds
<1>2. CASE pc[t] = "decide"
  <2>1. /\ cur[t] \in Vert /\ vert2tree[cur[t]] # Null /\ comp[ufs[cur[t]]] = Rep(t)
        /\ ~Absorbed(t) /\ Holds(t) = {Rep(t)}
    BY <1>2, VertFacts DEF GInv, AtSaddle, SaddleOf, Belongs, Absorbed, Parked, Holds
  <2>2. ASSUME NEW n \in Lower(cur[t]) PROVE comp[ufs[n]] = Rep(t)
    <3> SUFFICES ASSUME NEW p \in Leaves, pc[p] = "merge", cur[p] = cur[t] PROVE FALSE
      BY <2>1 DEF GInv, LowerClosed
    <3>1. Rep(t) \in Holds(p) /\ ~Absorbed(p)
      BY <2>1, HoldsFacts DEF Absorbed, Parked
    <3> QED BY <1>2, <2>1, <3>1, SoleRep
  <2> QED BY <2>1, <2>2 DEF Merged, find
<1> QED BY <1>1, <1>2

(* The sets a task merges at a saddle, whose queues and arc lists are      *)
(* merged without a lock, are in the hands of no other task.               *)
THEOREM MergesAloneAlways ==
    ASSUME ~Overtake
    PROVE  Spec => []MergesAlone
<1>1. IInv => MergesAlone
  <2> SUFFICES ASSUME IInv, NEW t \in Leaves, pc[t] \in {"merge", "decide"},
                      NEW o \in Leaves, o # t
               PROVE  /\ pc[o] \in {"pop", "capture"} => startUF[o] \notin Merged(t)
                      /\ pc[o] = "start" => find(ufs[startVert[o]]) \notin Merged(t)
                      /\ pc[o] \in {"merge", "decide"} => Merged(o) \cap Merged(t) = {}
    BY DEF MergesAlone
  <2>1. Types /\ GInv
    BY LeavesFacts DEF IInv
  <2>2. ~Absorbed(t) /\ Holds(t) = Merged(t)
    BY <2>1, MergedHeld DEF Absorbed, Parked
  <2>3. pc[o] \in {"pop", "capture", "start", "merge", "decide"} => ~Absorbed(o) /\ Sweeping(o)
    BY DEF Absorbed, Parked, Sweeping
  <2>4. pc[o] \in {"merge", "decide"} => Holds(o) = Merged(o)
    BY <2>1, MergedHeld
  <2>5. ~Absorbed(o) => Rep(o) \notin Holds(t)
    BY <2>1, <2>2, SoleRep
  <2>6. pc[o] \in {"pop", "capture"} => startUF[o] = Rep(o)
    BY <2>1 DEF GInv, Representatives
  <2>7. pc[o] = "start" => find(ufs[startVert[o]]) = Rep(o)
    BY <2>1, <2>3 DEF GInv, Arcs, ArcOf, Belongs, find
  <2> QED BY <2>1, <2>2, <2>3, <2>4, <2>5, <2>6, <2>7 DEF GInv, Exclusive
<1> QED BY <1>1, GrowthInvariant, PTL

(* One task closes each saddle, once every neighbour below it has a set:   *)
(* closeAndMergeOnSaddle follows their union-find elements without a test. *)
THEOREM LastVisitorSeesAllAlways ==
    ASSUME ~Overtake
    PROVE  Spec => []LastVisitorSeesAll
<1>1. IInv => LastVisitorSeesAll
  <2> SUFFICES ASSUME IInv, NEW t \in Leaves, pc[t] \in {"publish", "open", "merge"},
                      isSaddle[t], isLast[t]
               PROVE  /\ \A n \in Lower(cur[t]) : ufs[n] # Null
                      /\ \A o \in Leaves \ {t} :
                            ~(cur[o] = cur[t] /\ pc[o] \in {"pop", "capture", "merge"})
    BY DEF LastVisitorSeesAll
  <2>1. Types /\ GInv
    BY LeavesFacts DEF IInv
  <2>2. CASE pc[t] # "merge"
    <3>1. Claims(t)
      BY <2>2 DEF Claims
    <3>2. \A n \in Lower(cur[t]) : ufs[n] # Null
      <4>1. Accounted(cur[t]) = Lower(cur[t])
        BY <2>1, <3>1, ClaimFacts
      <4> QED BY <4>1 DEF Accounted, Belongs
    <3> QED BY <2>1, <3>1, <3>2, ClaimAlone
  <2>3. CASE pc[t] = "merge"
    <3>1. /\ \A n \in Lower(cur[t]) : ufs[n] # Null
          /\ comp[ufs[cur[t]]] \in Holds(t) /\ cur[t] \in Vert /\ ~Absorbed(t)
          /\ vert2tree[cur[t]] = IsNode
      BY <2>1, <2>3, HoldsFacts DEF GInv, AtSaddle, SaddleOf, Absorbed, Parked
    <3>2. ASSUME NEW o \in Leaves, o # t, cur[o] = cur[t], pc[o] \in {"pop", "capture", "merge"}
          PROVE  FALSE
      <4>1. ~Absorbed(o) /\ Sweeping(o) /\ cur[o] # Null /\ ~OnArc(cur[o])
        BY <3>1, <3>2, VertFacts DEF Absorbed, Parked, Sweeping, OnArc
      <4>2. CASE pc[o] = "merge"
        BY <2>1, <3>1, <3>2, <4>1, <4>2, HoldsFacts, Sole
      <4>3. CASE pc[o] # "merge"
        <5>1. cur[o] = startVert[o]
          <6>1. CASE pc[o] = "pop"
            BY <2>1, <4>1, <6>1, LeavesFacts DEF GInv, Arcs, ArcOf, Types
          <6>2. CASE pc[o] = "capture"
            BY <2>1, <3>1, <3>2, <4>1, <6>2, VertFacts DEF GInv, Visits, VisitOf
          <6> QED BY <3>2, <4>3, <6>1, <6>2
        <5>2. Belongs(startVert[o], Rep(o))
          BY <2>1, <3>2, <4>1 DEF GInv, Arcs, ArcOf
        <5> QED BY <2>1, <3>1, <3>2, <4>1, <5>1, <5>2, SoleRep DEF Belongs
      <4> QED BY <4>2, <4>3
    <3> QED BY <3>1, <3>2
  <2> QED BY <2>2, <2>3
<1> QED BY <1>1, GrowthInvariant, PTL
-------------------------------------------------------------------------------
(***************************************************************************)
(* The valences implement the last-visitor protocol at every vertex.       *)
(***************************************************************************)
(* A task that found every lower neighbour its own took the whole valence. *)
LastOfRegular ==
    \A t \in Leaves :
        pc[t] = "publish" /\ ~isSaddle[t] /\ cur[t] # startVert[t] => isLast[t]

(* A task that ended elsewhere than at a saddle left no vertex open.       *)
Ended ==
    \A t \in Leaves : pc[t] = "stopped" /\ ~Parked(t) =>
        cur[t] = Null \/ (cur[t] \in Vert /\ vert2tree[cur[t]] # Null)

VisitInv == phase = "growth" => LastOfRegular /\ Ended

(* The tasks that may claim vertex v.                                      *)
Claiming(v) == {t \in Leaves : /\ cur[t] = v /\ isLast[t]
                               /\ pc[t] \in {"publish", "open"}}
-------------------------------------------------------------------------------
(* A task that has come to the end of its queue closes a settled vertex.   *)
LEMMA RootSettled ==
    ASSUME Types, GInv, NEW t \in Leaves, CloseRoot(t)
    PROVE  /\ cur[t] \in Vert /\ vert2tree[cur[t]] # Null
           /\ lastVisited[startVert[t]] = cur[t]
<1>1. t \in Vert /\ pc[t] = "pop" /\ Ahead(t) = {}
  BY LeavesFacts DEF CloseRoot
<1>2. seenFirst[t]
  <2> SUFFICES ASSUME ~seenFirst[t] PROVE FALSE
    OBVIOUS
  <2>1. startVert[t] \in Vert /\ vert2tree[startVert[t]] = IsNode
        /\ heap[startUF[t]][startVert[t]] > 0
    BY <1>1 DEF GInv, Arcs, ArcOf, Types
  <2>2. startVert[t] \in Ahead(t)
    BY <1>1, <2>1, AheadFacts DEF Seen, OnArc
  <2> QED BY <1>1, <2>2
<1> QED BY <1>1, <1>2, VertFacts DEF GInv, Arcs, ArcOf, OnArc

(* A task takes the whole valence of a vertex that is all its own.         *)
LEMMA WholeShare ==
    ASSUME Types, GInv, NEW t \in Leaves, Capture(t),
           ~isSaddle[t], cur[t] # startVert[t]
    PROVE  valences[cur[t]] = decr[t]
<1>1. pc[t] = "capture"
  BY DEF Capture, CaptureWith
<1>2. /\ cur[t] \in Vert /\ vert2tree[cur[t]] = Null
      /\ decr[t] = Cardinality(Own(t)) /\ Own(t) = Lower(cur[t])
  BY <1>1 DEF GInv, Visits, VisitOf, Absorbed, Parked
<1>3. Accounted(cur[t]) = {}
  BY <1>2, CaptureKeeps, AccountedFacts
<1>4. Cardinality(Accounted(cur[t])) = 0
  BY <1>3, FS_EmptySet
<1>5. valences[cur[t]] + Cardinality(Accounted(cur[t])) = Cardinality(Lower(cur[t]))
  BY <1>2 DEF GInv, Counts
<1>6. valences[cur[t]] \in Int
  BY <1>2 DEF Types
<1> QED BY <1>2, <1>4, <1>5, <1>6

(* The step of a task keeps the two facts the refinement needs beyond the  *)
(* invariant.                                                              *)
LEMMA VisitInvStep ==
    ASSUME Types, GInv, LastOfRegular, Ended, NEW t \in Leaves, TaskStep(t)
    PROVE  LastOfRegular' /\ Ended'
<1>1. /\ Leaves' = Leaves /\ t \in Vert
      /\ \A o \in Leaves : o # t =>
            /\ pc'[o] = pc[o] /\ cur'[o] = cur[o] /\ isSaddle'[o] = isSaddle[o]
            /\ isLast'[o] = isLast[o] /\ startVert'[o] = startVert[o]
      /\ \A v \in Vert : vert2tree[v] # Null => vert2tree'[v] # Null
  BY StepFrame, LeavesFacts
<1>2. ASSUME pc'[t] = "publish", ~isSaddle'[t], cur'[t] # startVert'[t]
      PROVE  isLast'[t]
  <2>1. pc[t] \in {"waiting", "start", "pop", "capture", "publish", "open", "retire",
                   "merge", "decide"}
    BY DEF TaskStep, OnlyLeaf, Launch, Start, Visit, Capture, CaptureWith, Publish,
       OpenNode, Retire, MergeNeighbor, CloseArcs, Restart, CloseRoot
  <2>2. Capture(t)
    BY <1>1, <1>2 DEF TaskStep, OnlyLeaf, Launch, Start, Visit, Publish, OpenNode, Retire,
       MergeNeighbor, CloseArcs, Restart, CloseRoot, Goto, Types
  <2>3. ~isSaddle[t] /\ cur[t] # startVert[t]
    BY <1>2, <2>2 DEF Capture, CaptureWith, callVars
  <2>4. valences[cur[t]] = decr[t]
    BY <2>2, <2>3, WholeShare
  <2> QED BY <1>1, <2>2, <2>4 DEF Capture, CaptureWith, Types
<1>3. LastOfRegular'
  BY <1>1, <1>2 DEF LastOfRegular
<1>4. ASSUME pc'[t] = "stopped", ~Parked(t)'
      PROVE  cur'[t] = Null \/ (cur'[t] \in Vert /\ vert2tree'[cur'[t]] # Null)
  <2>1. OnlyLeaf(t) \/ Retire(t) \/ Restart(t) \/ CloseRoot(t)
    BY <1>1, <1>4 DEF TaskStep, OnlyLeaf, Launch, Start, Visit, Capture, CaptureWith, Publish,
       OpenNode, Retire, MergeNeighbor, CloseArcs, Restart, CloseRoot, Goto, Types
  <2>2. cur'[t] = cur[t]
    BY <2>1 DEF OnlyLeaf, Retire, Restart, CloseRoot, callVars
  <2>3. CASE OnlyLeaf(t)
    <3>1. cur[t] \in {Null, startVert[t]} /\ vert2tree[startVert[t]] = IsNode
          /\ startVert[t] \in Vert
      BY <1>1, <2>3 DEF OnlyLeaf, GInv, Arcs, ArcOf, Types
    <3> QED BY <1>1, <2>2, <3>1, VertFacts
  <2>4. CASE Retire(t)
    <3>1. isSaddle[t] /\ ~isLast[t]
      BY <2>4 DEF Retire, GInv, AtSaddle, SaddleOf, Parked
    <3>2. isSaddle'[t] /\ ~isLast'[t]
      BY <2>4, <3>1 DEF Retire, visitVars
    <3> QED BY <1>4, <3>2 DEF Parked
  <2>5. CASE Restart(t)
    <3>1. cur[t] \in Vert /\ vert2tree[cur[t]] = IsNode
      BY <2>5 DEF Restart, GInv, AtSaddle, SaddleOf
    <3> QED BY <1>1, <2>2, <3>1, VertFacts
  <2>6. CASE CloseRoot(t)
    BY <1>1, <2>2, <2>6, RootSettled
  <2> QED BY <2>1, <2>3, <2>4, <2>5, <2>6
<1>5. ASSUME NEW o \in Leaves, o # t, pc'[o] = "stopped", ~Parked(o)'
      PROVE  cur'[o] = Null \/ (cur'[o] \in Vert /\ vert2tree'[cur'[o]] # Null)
  <2>1. pc[o] = "stopped" /\ ~Parked(o) /\ cur'[o] = cur[o]
    BY <1>1, <1>5 DEF Parked
  <2> QED BY <1>1, <2>1 DEF Ended
<1>6. Ended'
  BY <1>1, <1>4, <1>5 DEF Ended
<1> QED BY <1>3, <1>6

(* The shares that are taken off the valence of a vertex stay so until it  *)
(* is settled, and only atomic capture changes a valence.                  *)
LEMMA SharesKept ==
    ASSUME Types, GInv, NEW t \in Leaves, TaskStep(t), ~Capture(t), ~Overtake,
           NEW v \in Vert, vert2tree'[v] = Null
    PROVE  Accounted(v) \subseteq Accounted(v)' /\ valences'[v] = valences[v]
<1>1. /\ t \in Vert /\ Leaves' = Leaves /\ Lower(v)' = Lower(v) /\ vert2tree[v] = Null
      /\ \A o \in Vert : o # t =>
            /\ pc'[o] = pc[o] /\ cur'[o] = cur[o] /\ isSaddle'[o] = isSaddle[o]
            /\ isLast'[o] = isLast[o]
  BY StepFrame, LeavesFacts
<1>2. valences' = valences
  BY DEF TaskStep, OnlyLeaf, Launch, Start, Visit, Publish, OpenNode, Retire, MergeNeighbor,
     CloseArcs, Restart, CloseRoot
<1>3. CASE OnlyLeaf(t) \/ Launch(t)
  BY <1>1, <1>2, <1>3, LaunchKeeps
<1>4. CASE Publish(t)
  BY <1>1, <1>2, <1>4, PublishKeeps
<1>5. ASSUME NEW n \in Vert, MergeNeighbor(t, n), comp[ufs[cur[t]]] # comp[ufs[n]]
      PROVE  Accounted(v) \subseteq Accounted(v)' /\ valences'[v] = valences[v]
  BY <1>1, <1>2, <1>5, UniteKeeps
<1>6. ASSUME comp' = comp, ufs' = ufs,
             \A o \in Leaves : o # t => startUF'[o] = startUF[o],
             cur[t] = v /\ Captured(t) =>
                 Captured(t)' /\ cur'[t] = v /\ startUF'[t] = startUF[t]
      PROVE  Accounted(v) \subseteq Accounted(v)' /\ valences'[v] = valences[v]
  <2>1. \A o \in Leaves : cur[o] = v /\ Captured(o) =>
            cur'[o] = v /\ Captured(o)' /\ Rep(o)' = Rep(o)
    <3> SUFFICES ASSUME NEW o \in Leaves, cur[o] = v, Captured(o)
                 PROVE  cur'[o] = v /\ Captured(o)' /\ startUF'[o] = startUF[o]
      BY <1>6 DEF Rep
    <3>1. CASE o = t
      BY <1>6, <3>1
    <3>2. CASE o # t
      <4>1. o \in Vert
        BY LeavesFacts
      <4> QED BY <1>1, <1>6, <3>2, <4>1 DEF Captured, Parked
    <3> QED BY <3>1, <3>2
  <2>2. \A n, u : Belongs(n, u)' <=> Belongs(n, u)
    BY <1>6 DEF Belongs
  <2> QED BY <1>1, <1>2, <2>1, <2>2 DEF Accounted
<1>7. ASSUME NEW n \in Vert, MergeNeighbor(t, n), comp[ufs[cur[t]]] = comp[ufs[n]]
      PROVE  Accounted(v) \subseteq Accounted(v)' /\ valences'[v] = valences[v]
  <2>1. comp' = comp /\ ufs' = ufs /\ startUF' = startUF /\ pc[t] = "merge"
    BY <1>7 DEF MergeNeighbor, find, ufVars, callVars
  <2>2. ~Captured(t)
    BY <2>1 DEF Captured, Parked
  <2> QED BY <1>6, <2>1, <2>2
<1>8. CASE Start(t) \/ Visit(t) \/ CloseArcs(t) \/ Restart(t) \/ CloseRoot(t)
  <2>1. /\ comp' = comp /\ ufs' = ufs /\ pc[t] \in {"start", "pop", "merge", "decide"}
        /\ startUF' = startUF \/ \E u : startUF' = [startUF EXCEPT ![t] = u]
    BY <1>8 DEF Start, Visit, CloseArcs, Restart, CloseRoot, ufVars, callVars
  <2>2. ~Captured(t)
    BY <2>1 DEF Captured, Parked
  <2>3. \A o \in Leaves : o # t => startUF'[o] = startUF[o]
    BY <2>1, LeavesFacts DEF Types
  <2> QED BY <1>6, <2>1, <2>2, <2>3
<1>9. CASE Retire(t) \/ OpenNode(t)
  <2>1. comp' = comp /\ ufs' = ufs /\ startUF' = startUF /\ cur' = cur
        /\ isSaddle' = isSaddle /\ isLast' = isLast
    BY <1>9 DEF Retire, OpenNode, ufVars, callVars, visitVars
  <2>2. ASSUME cur[t] = v, Captured(t) PROVE Captured(t)'
    <3>1. ~Absorbed(t)
      BY <1>1, <2>2 DEF Absorbed
    <3>2. CASE Retire(t)
      <4>1. pc[t] = "retire" /\ pc'[t] = "stopped"
        BY <1>1, <3>2 DEF Retire, Goto, Types
      <4> QED BY <2>1, <2>2, <4>1 DEF Captured, Parked
    <3>3. CASE OpenNode(t)
      <4>1. pc[t] = "open" /\ isSaddle[t]
        BY <2>2, <3>1, <3>3 DEF OpenNode, GInv, Visits, VisitOf
      <4>2. ~isLast[t]
        <5>1. ~(vert2tree' = [vert2tree EXCEPT ![v] = IsNode])
          BY VertFacts DEF Types
        <5> QED BY <2>2, <3>3, <5>1 DEF OpenNode
      <4>3. pc'[t] = "retire"
        BY <1>1, <3>3, <4>2 DEF OpenNode, Goto, Types
      <4> QED BY <2>1, <4>1, <4>2, <4>3 DEF Captured, Parked
    <3> QED BY <1>9, <3>2, <3>3
  <2> QED BY <1>6, <2>1, <2>2
<1> QED BY <1>3, <1>4, <1>5, <1>7, <1>8, <1>9 DEF TaskStep

(* Who may claim an open vertex changes by atomic capture there only.      *)
LEMMA ClaimsKept ==
    ASSUME Types, GInv, NEW t \in Leaves, TaskStep(t), NEW v \in Vert,
           vert2tree'[v] = Null, ~(Capture(t) /\ cur[t] = v)
    PROVE  Claiming(v)' = Claiming(v)
<1>1. /\ t \in Vert /\ Leaves' = Leaves /\ vert2tree[v] = Null
      /\ \A o \in Vert : o # t =>
            /\ pc'[o] = pc[o] /\ cur'[o] = cur[o] /\ isLast'[o] = isLast[o]
  BY StepFrame, LeavesFacts
<1> SUFFICES t \in Claiming(v)' <=> t \in Claiming(v)
  <2>1. \A o \in Leaves : o # t => (o \in Claiming(v)' <=> o \in Claiming(v))
    BY <1>1, LeavesFacts DEF Claiming
  <2>2. Claiming(v)' \subseteq Leaves /\ Claiming(v) \subseteq Leaves
    BY <1>1 DEF Claiming
  <2> QED BY <2>1, <2>2
<1>2. CASE Capture(t)
  BY <1>1, <1>2 DEF Capture, CaptureWith, Claiming, callVars, Types
<1>3. CASE Publish(t)
  <2>1. /\ pc[t] = "publish" /\ isLast' = isLast /\ cur' = cur
        /\ pc'[t] = IF isSaddle[t] THEN "open" ELSE "pop"
    BY <1>1, <1>3 DEF Publish, visitVars, callVars, Goto, Types
  <2>2. ~isSaddle[t] => cur[t] # v
    <3> SUFFICES ASSUME ~isSaddle[t], cur[t] = v PROVE FALSE
      OBVIOUS
    <3>1. /\ vert2tree' = IF v = startVert[t] THEN vert2tree
                          ELSE [vert2tree EXCEPT ![v] = startVert[t]]
          /\ vert2tree[startVert[t]] = IsNode /\ startVert[t] \in Vert
      BY <1>1, <1>3 DEF Publish, GInv, Arcs, ArcOf, Types
    <3> QED BY <1>1, <3>1, VertFacts DEF Types
  <2> QED BY <1>1, <2>1, <2>2 DEF Claiming
<1>4. CASE OpenNode(t)
  <2>1. /\ pc[t] = "open" /\ isLast' = isLast /\ cur' = cur
        /\ pc'[t] = IF isLast[t] THEN "merge" ELSE "retire"
        /\ isLast[t] => vert2tree' = [vert2tree EXCEPT ![cur[t]] = IsNode]
    BY <1>1, <1>4 DEF OpenNode, visitVars, callVars, Goto, Types
  <2>2. isLast[t] => cur[t] # v
    BY <2>1, VertFacts DEF Types
  <2> QED BY <1>1, <2>1, <2>2 DEF Claiming
<1>5. CASE ~Capture(t) /\ ~Publish(t) /\ ~OpenNode(t)
  <2>1. /\ pc[t] \notin {"publish", "open"}
        /\ \E label \in {"stopped", "start", "pop", "capture", "decide"} :
              pc' = [pc EXCEPT ![t] = label] \/ pc' = pc
    BY <1>5 DEF TaskStep, OnlyLeaf, Launch, Start, Visit, Retire, MergeNeighbor, CloseArcs,
       Restart, CloseRoot, Goto
  <2>2. pc'[t] \notin {"publish", "open"}
    BY <1>1, <2>1 DEF Types
  <2> QED BY <2>1, <2>2 DEF Claiming
<1> QED BY <1>2, <1>3, <1>4, <1>5
-------------------------------------------------------------------------------
(***************************************************************************)
(* The refinement.                                                         *)
(***************************************************************************)
(* What the valence of an open vertex says of the shares taken off it:     *)
(* nobody is missing there if it is zero.                                  *)
Counted(v) == /\ valences[v] = 0 <=> Accounted(v) = Lower(v)
              /\ Accounted(v) \subseteq Lower(v) /\ IsFiniteSet(Lower(v))
              /\ valences[v] + Cardinality(Accounted(v)) = Cardinality(Lower(v))

(* The abstract state of a vertex, in the terms of the invariant.          *)
Abstract(v) ==
    /\ Pending(v) = IF Lower(v) # {} /\ vert2tree[v] = Null
                    THEN Lower(v) \ Accounted(v) ELSE {}
    /\ Claimant(v) = IF \/ Lower(v) = {} \/ vert2tree[v] # Null
                        \/ Claiming(v) = {}
                     THEN Null ELSE Min(Claiming(v))
    /\ Claiming(v) \subseteq Vert
    /\ vert2tree[v] = Null => Counted(v)

(* The invariant gives what the abstract state of each vertex is.          *)
LEMMA AbstractState ==
    ASSUME NEW v \in Vert
    PROVE  Types /\ GInv /\ Ended => Abstract(v)
<1> SUFFICES ASSUME Types, GInv, Ended PROVE Abstract(v)
  OBVIOUS
<1>1. ASSUME vert2tree[v] = Null, NEW n \in Lower(v)
      PROVE  Taken(n, v) <=> n \in Accounted(v)
  <2>1. ASSUME NEW t \in Leaves, cur[t] = v
        PROVE  pc[t] \in {"publish", "open", "retire", "stopped"} <=> Captured(t)
    <3>1. pc[t] = "stopped" => Parked(t)
      BY <1>1, <2>1, VertFacts DEF Ended
    <3>2. pc[t] = "retire" => Parked(t)
      BY DEF GInv, AtSaddle, SaddleOf
    <3> QED BY <3>1, <3>2 DEF Captured, Parked
  <2> QED BY <2>1 DEF Taken, Accounted, Belongs, Rep, find
<1>2. Claiming(v) \subseteq Vert
  BY LeavesFacts DEF Claiming
<1>3. ASSUME vert2tree[v] = Null PROVE Counted(v)
  <2>1. valences[v] + Cardinality(Accounted(v)) = Cardinality(Lower(v))
        /\ valences[v] \in Int
    BY <1>3 DEF GInv, Counts, Types
  <2> QED BY <2>1, AccountedFacts DEF Counted
<1> QED BY <1>1, <1>2, <1>3 DEF Pending, Claimant, Settled, Claiming, Abstract

(* The same of the state after a step.                                     *)
LEMMA AbstractStateNext ==
    ASSUME NEW v \in Vert
    PROVE  Types' /\ GInv' /\ Ended' => Abstract(v)'
  BY AbstractState, PTL

(* The claimant settles its vertex, once nobody is missing there.          *)
LEMMA SettlesClaimed ==
    ASSUME Types, GInv, LastOfRegular, Ended, NEW t \in Leaves, TaskStep(t),
           NEW v \in Vert, vert2tree[v] = Null, vert2tree'[v] # Null
    PROVE  t \in Claiming(v) /\ Accounted(v) = Lower(v) /\ Lower(v) # {}
<1>1. t \in Vert /\ startVert[t] \in Vert /\ vert2tree[startVert[t]] = IsNode
  BY LeavesFacts DEF Types, GInv, Arcs, ArcOf
<1>2. \/ Publish(t) /\ ~isSaddle[t] /\ cur[t] # startVert[t] /\ cur[t] = v
      \/ OpenNode(t) /\ isLast[t] /\ cur[t] = v
      \/ CloseRoot(t) /\ lastVisited[startVert[t]] = v
  BY DEF TaskStep, OnlyLeaf, Launch, Start, Visit, Capture, CaptureWith, Publish, OpenNode,
     Retire, MergeNeighbor, CloseArcs, Restart, CloseRoot, segmVars, Types
<1>3. ~CloseRoot(t) \/ lastVisited[startVert[t]] # v
  BY RootSettled
<1>4. CASE Publish(t) /\ ~isSaddle[t] /\ cur[t] # startVert[t] /\ cur[t] = v
  <2>1. pc[t] = "publish" /\ isLast[t] /\ Captured(t)
    BY <1>4 DEF Publish, LastOfRegular, Captured
  <2>2. Own(t) = Lower(v) /\ Own(t) # {}
    BY <1>4, <2>1 DEF GInv, Visits, VisitOf, Absorbed, Parked
  <2> QED BY <1>4, <2>1, <2>2 DEF Own, Accounted, Claiming
<1>5. CASE OpenNode(t) /\ isLast[t] /\ cur[t] = v
  <2>1. pc[t] = "open" /\ isSaddle[t] /\ Own(t) # {}
    BY <1>5, AtOpenVertex DEF OpenNode, GInv, Visits, VisitOf, Absorbed, Parked, Captured
  <2>2. Claims(t)
    BY <1>5, <2>1 DEF Claims
  <2> QED BY <1>5, <2>1, <2>2, ClaimFacts DEF Claiming, Own
<1> QED BY <1>2, <1>3, <1>4, <1>5

(* Every step of a task is, at every vertex, a step of the abstract        *)
(* visitors or leaves them as they are.                                    *)
LEMMA VisitorStep ==
    ASSUME Types, GInv, LastOfRegular, Ended, Types', GInv', Ended',
           NEW t \in Leaves, TaskStep(t), ~Overtake, NEW v \in Vert
    PROVE  LV(v)!Stay \/ LV(v)!LVNext
<1>1. Abstract(v) /\ Abstract(v)'
  BY AbstractState, AbstractStateNext
<1>2. Lower(v)' = Lower(v) /\ (vert2tree[v] # Null => vert2tree'[v] # Null)
  BY StepFrame
<1>3. Null \notin Vert
  BY VertFacts
<1>4. \A S \in SUBSET Vert : S # {} => Min(S) # Null
  BY <1>3, MinFacts
<1>5. CASE Lower(v) = {} \/ vert2tree[v] # Null
  <2>1. Pending(v)' = Pending(v) /\ Claimant(v)' = Claimant(v)
    BY <1>1, <1>2, <1>5 DEF Abstract
  <2>2. Settled(v)' = Settled(v)
    BY <1>2, <1>5 DEF Settled
  <2> QED BY <2>1, <2>2 DEF LV!Stay
<1>6. CASE Lower(v) # {} /\ vert2tree[v] = Null /\ vert2tree'[v] # Null
  <2>1. t \in Claiming(v) /\ Accounted(v) = Lower(v)
    BY <1>6, SettlesClaimed
  <2>2. Claimant(v) # Null /\ Claimant(v)' = Null
    BY <1>1, <1>2, <1>4, <1>6, <2>1 DEF Abstract
  <2>3. Pending(v)' = Pending(v)
    BY <1>1, <1>2, <1>6, <2>1 DEF Abstract
  <2>4. ~Settled(v) /\ Settled(v)'
    BY <1>2, <1>6 DEF Settled
  <2> QED BY <2>2, <2>3, <2>4 DEF LV!LVNext, LV!Settle
<1>7. CASE Lower(v) # {} /\ vert2tree'[v] = Null /\ Capture(t) /\ cur[t] = v
  <2>1. /\ t \in Vert /\ vert2tree[v] = Null /\ pc[t] = "capture" /\ pc'[t] = "publish"
        /\ isLast'[t] <=> valences[v] = decr[t]
        /\ valences'[v] = valences[v] - decr[t] /\ cur' = cur
        /\ valences[v] \in Int /\ decr[t] \in Int
    <3>1. /\ pc' = [pc EXCEPT ![t] = "publish"] /\ pc[t] = "capture"
          /\ isLast' = [isLast EXCEPT ![t] = (valences[v] = decr[t])]
          /\ valences' = [valences EXCEPT ![v] = valences[v] - decr[t]]
          /\ cur' = cur
      BY <1>7 DEF Capture, CaptureWith, Goto, callVars
    <3>2. t \in Vert
      BY LeavesFacts
    <3>3. pc'[t] = "publish" /\ valences'[v] = valences[v] - decr[t]
          /\ valences[v] \in Int /\ decr[t] \in Int
      BY <3>1, <3>2 DEF Types
    <3>4. isLast'[t] <=> valences[v] = decr[t]
      <4>1. isLast \in [Vert -> BOOLEAN]
        BY DEF Types
      <4> QED BY <3>1, <3>2, <4>1
    <3> QED BY <1>2, <1>7, <3>1, <3>2, <3>3, <3>4
  <2>2. Own(t) # {} /\ Own(t) \subseteq Lower(v)
    BY <1>7, <2>1, AtOpenVertex DEF Own
  <2>3. Accounted(v)' = Accounted(v) \cup Own(t) /\ Accounted(v) \cap Own(t) = {}
    BY <1>7, <2>1, CaptureKeeps
  <2>4. /\ Pending(v) = Lower(v) \ Accounted(v)
        /\ Pending(v)' = Pending(v) \ Own(t)
    BY <1>1, <1>2, <1>7, <2>1, <2>3 DEF Abstract
  <2>5. isLast'[t] <=> Pending(v)' = {}
    <3>1. isLast'[t] <=> valences'[v] = 0
      BY <2>1
    <3>2. valences'[v] = 0 <=> Accounted(v)' = Lower(v)
      BY <1>1, <1>2, <1>7 DEF Abstract, Counted
    <3> QED BY <2>2, <2>3, <2>4, <3>1, <3>2, <1>1, <2>1 DEF Abstract, Counted
  <2>6. CASE Pending(v)' = {}
    <3>1. t \in Claiming(v)'
      BY <1>7, <2>1, <2>5, <2>6, StepFrame DEF Claiming
    <3>2. Claimant(v)' # Null
      BY <1>1, <1>2, <1>4, <1>7, <3>1 DEF Abstract
    <3>3. Settled(v)' = Settled(v)
      BY <1>7, <2>1 DEF Settled
    <3>4. Pending(v)' \subseteq Pending(v) /\ Pending(v)' # Pending(v)
      BY <2>2, <2>3, <2>4
    <3> QED BY <2>6, <3>2, <3>3, <3>4 DEF LV!LVNext, LV!Arrive
  <2>7. CASE Pending(v)' # {}
    <3>1. Claiming(v)' = Claiming(v)
      <4>1. ~isLast'[t] /\ t \notin Claiming(v) /\ t \notin Claiming(v)'
        BY <2>1, <2>5, <2>7 DEF Claiming
      <4>2. /\ Leaves' = Leaves
            /\ \A o \in Leaves : o # t =>
                  pc'[o] = pc[o] /\ cur'[o] = cur[o] /\ isLast'[o] = isLast[o]
        BY StepFrame, LeavesFacts
      <4> QED BY <4>1, <4>2 DEF Claiming
    <3>2. Claimant(v)' = Claimant(v)
      BY <1>1, <1>2, <1>7, <2>1, <3>1 DEF Abstract
    <3>3. Settled(v)' = Settled(v)
      BY <1>7, <2>1 DEF Settled
    <3>4. Pending(v)' \subseteq Pending(v) /\ Pending(v)' # Pending(v)
      BY <2>2, <2>3, <2>4
    <3> QED BY <2>7, <3>2, <3>3, <3>4 DEF LV!LVNext, LV!Arrive
  <2> QED BY <2>6, <2>7
<1>8. CASE Lower(v) # {} /\ vert2tree'[v] = Null /\ ~(Capture(t) /\ cur[t] = v)
  <2>1. Claiming(v)' = Claiming(v) /\ vert2tree[v] = Null
    BY <1>2, <1>8, ClaimsKept
  <2>2. Accounted(v)' = Accounted(v)
    <3>1. CASE Capture(t)
      BY <1>8, <3>1, CaptureKeeps
    <3>2. CASE ~Capture(t)
      <4>1. Accounted(v) \subseteq Accounted(v)' /\ valences'[v] = valences[v]
        BY <1>8, <3>2, SharesKept
      <4>2. /\ valences[v] + Cardinality(Accounted(v)) = Cardinality(Lower(v))
            /\ valences[v] + Cardinality(Accounted(v)') = Cardinality(Lower(v))
            /\ Accounted(v)' \subseteq Lower(v) /\ IsFiniteSet(Lower(v))
        BY <1>1, <1>2, <1>8, <2>1, <4>1 DEF Abstract, Counted
      <4>3. IsFiniteSet(Accounted(v)')
        BY <4>2, FS_Subset
      <4>4. Cardinality(Accounted(v)) \in Int /\ Cardinality(Accounted(v)') \in Int
        BY <4>1, <4>3, FS_Subset, FS_CardinalityType
      <4>5. Cardinality(Accounted(v)') = Cardinality(Accounted(v))
        <5> DEFINE x == valences[v]
                   c == Cardinality(Accounted(v))
                   d == Cardinality(Accounted(v)')
                   l == Cardinality(Lower(v))
        <5>1. x \in Int /\ c \in Int /\ d \in Int /\ l \in Int
          BY <4>2, <4>4, FS_CardinalityType DEF Types
        <5>2. x + c = l /\ x + d = l
          BY <4>2
        <5> HIDE DEF x, c, d, l
        <5>3. d = c
          BY <5>1, <5>2
        <5> QED BY <5>3 DEF c, d
      <4> QED BY <4>1, <4>3, <4>5, FS_Subset
    <3> QED BY <3>1, <3>2
  <2>3. Pending(v)' = Pending(v) /\ Claimant(v)' = Claimant(v)
    BY <1>1, <1>2, <1>8, <2>1, <2>2 DEF Abstract
  <2>4. Settled(v)' = Settled(v)
    BY <1>2, <1>8, <2>1 DEF Settled
  <2> QED BY <2>3, <2>4 DEF LV!Stay
<1> QED BY <1>2, <1>5, <1>6, <1>7, <1>8

(* The growth is made of the steps of the tasks and ends for good.         *)
LEMMA GrowthSteps ==
    ASSUME IInv, [Next]_vars, phase' = "growth"
    PROVE  /\ phase = "growth" /\ Types /\ GInv
           /\ (\E t \in Leaves : TaskStep(t)) \/ Resting
<1>1. phase = "growth"
  <2> SUFFICES ASSUME phase # "growth" PROVE FALSE
    OBVIOUS
  <2>1. \A v \in Vert : pc[v] \in {"none", "stopped"}
    BY DEF IInv
  <2>2. ~\E t \in Vert : TaskStep(t) \/ MergeStates(t)
    BY <2>1, TaskPhase DEF MergeStates
  <2> QED BY <2>2 DEF Next, Trunk, BeginTrunk, TrunkClose, TrunkCloseUpTo, TrunkArcs,
       TrunkSegment, Built, vars
<1>2. Types /\ GInv
  BY <1>1 DEF IInv
<1>3. CASE UNCHANGED vars
  BY <1>1, <1>2, <1>3, StutterRests
<1>4. CASE Next
  <2>1. PICK t \in Vert : TaskStep(t) \/ MergeStates(t)
    BY <1>1, <1>4 DEF Next, Trunk, BeginTrunk, TrunkClose, TrunkCloseUpTo, TrunkArcs,
       TrunkSegment, Built
  <2>2. TaskStep(t) => t \in Leaves
    BY <1>2, TaskPhase DEF Types
  <2> QED BY <1>1, <1>2, <2>1, <2>2, MergeRests
<1> QED BY <1>3, <1>4

(* The invariant of the visits holds throughout the growth.                *)
LEMMA VisitInvariant ==
    ASSUME ~Overtake
    PROVE  Spec => [](IInv /\ VisitInv)
<1>1. Init => IInv /\ VisitInv
  <2> SUFFICES ASSUME Init PROVE IInv /\ VisitInv
    OBVIOUS
  <2>1. IInv
    BY InitGrowth DEF IInv, Init
  <2>2. \A t \in Leaves : pc[t] = "waiting"
    BY LeavesFacts DEF Init
  <2> QED BY <2>1, <2>2 DEF VisitInv, LastOfRegular, Ended
<1>2. IInv /\ VisitInv /\ [Next]_vars => (IInv /\ VisitInv)'
  <2> SUFFICES ASSUME IInv, VisitInv, [Next]_vars PROVE (IInv /\ VisitInv)'
    OBVIOUS
  <2>1. IInv'
    BY GrowthStep
  <2>2. CASE phase' = "growth"
    <3>1. Types /\ GInv /\ LastOfRegular /\ Ended
      BY <2>2, GrowthSteps DEF VisitInv
    <3>2. CASE Resting
      <4>1. mesh' = mesh /\ phase' = phase /\ pc' = pc /\ isSaddle' = isSaddle /\ cur' = cur
            /\ startVert' = startVert /\ isLast' = isLast /\ vert2tree' = vert2tree
        BY <3>2 DEF Resting
      <4>2. Leaves' = Leaves
        BY <4>1, SameMesh
      <4> QED BY <2>1, <4>1, <4>2 DEF VisitInv, LastOfRegular, Ended, Parked
    <3>3. ASSUME NEW t \in Leaves, TaskStep(t) PROVE (IInv /\ VisitInv)'
      BY <2>1, <3>1, <3>3, VisitInvStep DEF VisitInv
    <3> QED BY <2>2, <3>2, <3>3, GrowthSteps
  <2>3. CASE phase' # "growth"
    BY <2>1, <2>3 DEF VisitInv
  <2> QED BY <2>2, <2>3
<1> QED BY <1>1, <1>2, PTL DEF Spec

(* Every vertex starts with all its lower neighbours missing and nobody to *)
(* go on from it.                                                          *)
LEMMA VisitorInit ==
    ASSUME Init, NEW v \in Vert
    PROVE  LV(v)!LVInit(Lower(v))
<1>1. Types /\ GInv
  BY InitGrowth
<1>2. \A t \in Leaves : pc[t] = "waiting"
  BY LeavesFacts DEF Init
<1>3. Ended /\ Accounted(v) = {} /\ Claiming(v) = {}
  BY <1>2 DEF Ended, Accounted, Captured, Parked, Claiming
<1>4. Abstract(v)
  BY <1>1, <1>3, AbstractState
<1>5. Lower(v) # {} => vert2tree[v] = Null
  BY LeavesFacts DEF Init
<1>6. Pending(v) = Lower(v) /\ Claimant(v) = Null
  BY <1>3, <1>4, <1>5 DEF Abstract
<1>7. Settled(v) = FALSE
  BY <1>5 DEF Settled
<1> QED BY <1>6, <1>7 DEF LV!LVInit

(* Whatever the order in which tasks take their shares off the valence of  *)
(* a vertex, each lower neighbour is accounted for once and one task, the  *)
(* one that takes the last share, goes on from there or makes it a node:   *)
(* the growth implements LastVisitor at every vertex.                      *)
THEOREM GrowthImplementsLastVisitor ==
    ASSUME ~Overtake
    PROVE  Spec => ImplementsLastVisitor
<1>1. Init => \A v \in Vert : LV(v)!LVInit(Lower(v))
  BY VisitorInit
<1>2. IInv /\ VisitInv /\ IInv' /\ VisitInv' /\ [Next]_vars =>
         [phase' = "growth" => \A v \in Vert : LV(v)!Stay \/ LV(v)!LVNext]_vars
  <2> SUFFICES ASSUME IInv, VisitInv, IInv', VisitInv', Next, phase' = "growth",
                      NEW v \in Vert
               PROVE  LV(v)!Stay \/ LV(v)!LVNext
    OBVIOUS
  <2>1. /\ Types /\ GInv /\ LastOfRegular /\ Ended
        /\ Types' /\ GInv' /\ Ended'
    BY GrowthSteps DEF IInv, VisitInv
  <2>2. CASE Resting
    <3>1. Lower(v)' = Lower(v) /\ Leaves' = Leaves
      BY <2>2, SameMesh DEF Resting
    <3>2. Settled(v)' = Settled(v) /\ \A n : Taken(n, v)' = Taken(n, v)
      BY <2>2, <3>1 DEF Resting, Settled, Taken, find
    <3>3. Pending(v)' = Pending(v) /\ Claimant(v)' = Claimant(v)
      BY <2>2, <3>1, <3>2 DEF Resting, Pending, Claimant
    <3> QED BY <3>2, <3>3 DEF LV!Stay
  <2> QED BY <2>1, <2>2, GrowthSteps, VisitorStep
<1> QED BY <1>1, <1>2, VisitInvariant, PTL DEF Spec, ImplementsLastVisitor
-------------------------------------------------------------------------------
(***************************************************************************)
(* Sublevel sets: vocabulary.                                              *)
(***************************************************************************)
(* t has taken the vertex it has come to off its queue.                    *)
Begun(t) == ~(pc[t] \in {"waiting", "start"} \/ (pc[t] = "pop" /\ ~seenFirst[t]))

(* The vertices of a set.                                                  *)
Members(u) == {x \in Vert : Belongs(x, u)}

(* S does not fall apart in the mesh.                                      *)
Connected(S) ==
    \A X \in SUBSET S : X # {} /\ X # S => \E a \in X, b \in S \ X : {a, b} \in mesh

(***************************************************************************)
(* The invariant of the sweep.                                             *)
(***************************************************************************)
(* The upper neighbours of what set u has taken are queued above top,      *)
(* where its task has come to, whether they were propagated to or not.     *)
Pushed(u, top, begun) ==
    \A x \in Vert : x > top =>
        /\ propagation[x] # Null /\ comp[propagation[x]] = u => heap[u][x] > 0
        /\ \A n \in Lower(x) :
              (Belongs(n, u) /\ n # top) \/ (n = top /\ begun) => heap[u][x] > 0

(* A set leaves out no neighbour above its vertices and below top.         *)
Complete(u, top) ==
    \A x \in Vert : x < top => \A n \in Lower(x) : Belongs(n, u) => Belongs(x, u)

Grown(u, top, begun) ==
    /\ Pushed(u, top, begun) /\ Complete(u, top)
    /\ Connected(Members(u) \cup {top})

SweepOf(t) == Sweeping(t) => \A u \in Holds(t) : Grown(u, Top(t), Begun(t))

(* When t takes a vertex it has only met, its set is in one piece already. *)
ScanOf(t) == pc[t] = "capture" /\ cur[t] # startVert[t] =>
                 cur[t] \notin Members(Rep(t)) /\ Connected(Members(Rep(t)))

(* Every set is in the hands of a task,                                    *)
Held == \A v \in Vert : ufs[v] # Null =>
            \E o \in Leaves : ~Absorbed(o) /\ comp[ufs[v]] \in Holds(o)

(* and the set of a saddle is one of those that met there.                 *)
MetOf(t) == pc[t] = "merge" =>
                \E n \in Lower(cur[t]) : comp[ufs[n]] = comp[ufs[cur[t]]]

(* A leaf is a node, and has a set once its task is launched.              *)
LeafOf(t) == /\ vert2tree[t] # Null /\ pc[t] # "none"
             /\ ufs[t] # Null \/ pc[t] = "waiting"

(* The task that took the last share off an open vertex goes on from it.   *)
Claimed == \A v \in Vert : vert2tree[v] = Null /\ Accounted(v) = Lower(v) =>
               Claiming(v) # {}

(* The tasks that have counted themselves out.                             *)
Out == {t \in Leaves : pc[t] = "stopped" /\ Parked(t)}
CountsOut == activeTasks = Cardinality(Leaves) - Cardinality(Out)

SInv == /\ propagation \in [Vert -> Vert \cup {Null}]
        /\ \A t \in Leaves : SweepOf(t) /\ ScanOf(t) /\ MetOf(t) /\ LeafOf(t)
        /\ Held /\ Claimed
-------------------------------------------------------------------------------
(* J!Component is the one of JoinTree.                                     *)
LEMMA SameComponent ==
    ASSUME NEW m, NEW v, NEW S
    PROVE  J!Component(m, v, S) = Component(m, v, S)
BY DEF J!Component, Component, J!Cardinality, Cardinality

(***************************************************************************)
(* Connected sets.                                                         *)
(***************************************************************************)
(* Two connected sets that share a vertex are one.                         *)
LEMMA ConnectedUnion ==
    ASSUME NEW A, NEW B, Connected(A), Connected(B), A \cap B # {}
    PROVE  Connected(A \cup B)
<1> SUFFICES ASSUME NEW X \in SUBSET (A \cup B), X # {}, X # A \cup B
             PROVE  \E a \in X, b \in (A \cup B) \ X : {a, b} \in mesh
  BY DEF Connected
<1>1. CASE X \cap A # {} /\ X \cap A # A
  <2>1. PICK a \in X \cap A, b \in A \ (X \cap A) : {a, b} \in mesh
    <3>1. X \cap A \in SUBSET A
      OBVIOUS
    <3> QED BY <1>1, <3>1 DEF Connected
  <2> QED BY <2>1
<1>2. CASE X \cap B # {} /\ X \cap B # B
  <2>1. PICK a \in X \cap B, b \in B \ (X \cap B) : {a, b} \in mesh
    <3>1. X \cap B \in SUBSET B
      OBVIOUS
    <3> QED BY <1>2, <3>1 DEF Connected
  <2> QED BY <2>1
<1>3. (X \cap A = {} \/ X \cap A = A) /\ (X \cap B = {} \/ X \cap B = B) => FALSE
  OBVIOUS
<1> QED BY <1>1, <1>2, <1>3

(* A vertex next to a connected set joins it.                              *)
LEMMA ConnectedNext ==
    ASSUME NEW A, Connected(A), NEW n \in A, NEW v, {n, v} \in mesh
    PROVE  Connected(A \cup {v})
<1> SUFFICES ASSUME NEW X \in SUBSET (A \cup {v}), X # {}, X # A \cup {v}
             PROVE  \E a \in X, b \in (A \cup {v}) \ X : {a, b} \in mesh
  BY DEF Connected
<1>1. CASE X \cap A # {} /\ X \cap A # A
  <2>1. PICK a \in X \cap A, b \in A \ (X \cap A) : {a, b} \in mesh
    <3>1. X \cap A \in SUBSET A
      OBVIOUS
    <3> QED BY <1>1, <3>1 DEF Connected
  <2> QED BY <2>1
<1>2. CASE X \cap A = {}
  <2>1. X = {v} /\ n \in (A \cup {v}) \ X
    BY <1>2
  <2>2. {v, n} = {n, v}
    OBVIOUS
  <2> QED BY <2>1, <2>2
<1>3. CASE X \cap A = A
  <2>1. v \notin X /\ n \in X
    BY <1>3
  <2> QED BY <2>1
<1> QED BY <1>1, <1>2, <1>3

(* Neighbours, from their edge.                                            *)
LEMMA Edges ==
    ASSUME mesh \in Meshes, NEW x \in Vert, NEW y \in Vert, {x, y} \in mesh
    PROVE  x # y /\ (x < y => x \in Lower(y)) /\ (y < x => y \in Lower(x))
<1>1. \E u, v \in {x, y} : u # v /\ {x, y} = {u, v}
  BY MeshesAssumption
<1>2. x # y
  BY <1>1
<1>3. x \in J!Neighbors(mesh, y) /\ y \in J!Neighbors(mesh, x)
  BY <1>2 DEF J!Neighbors
<1> QED BY <1>2, <1>3 DEF Lower, J!LowerNeighbors

(* A vertex and one of its lower neighbours are an edge of the mesh.       *)
LEMMA LowerEdge ==
    ASSUME mesh \in Meshes, NEW x \in Vert, NEW n \in Lower(x)
    PROVE  {n, x} \in mesh
<1>1. PICK e \in mesh : x \in e /\ n \in e \ {x}
  BY DEF Lower, J!LowerNeighbors, J!Neighbors
<1>2. \E u, v \in e : u # v /\ e = {u, v}
  BY MeshesAssumption
<1>3. e = {n, x}
  BY <1>1, <1>2
<1> QED BY <1>1, <1>3
-------------------------------------------------------------------------------
(***************************************************************************)
(* What a step of t leaves of the sets of the other tasks.                 *)
(***************************************************************************)
(* Where the other tasks have come to.                                     *)
LEMMA OthersFrame ==
    ASSUME Types, GInv, NEW t \in Leaves, TaskStep(t), NEW o \in Leaves, o # t
    PROVE  /\ pc'[o] = pc[o] /\ cur'[o] = cur[o] /\ startVert'[o] = startVert[o]
           /\ startUF'[o] = startUF[o] /\ Top(o)' = Top(o) /\ Begun(o)' = Begun(o)
           /\ Parked(o)' = Parked(o)
           /\ Absorbed(o) => Absorbed(o)'
           /\ Sweeping(o)' => Sweeping(o)
<1>1. t \in Vert /\ o \in Vert
  BY LeavesFacts
<1>2. /\ pc'[o] = pc[o] /\ cur'[o] = cur[o] /\ isSaddle'[o] = isSaddle[o]
      /\ isLast'[o] = isLast[o] /\ startVert'[o] = startVert[o]
      /\ \A v \in Vert : vert2tree[v] # Null => vert2tree'[v] # Null
  BY <1>1, StepFrame
<1>3. startUF' = startUF \/ \E x : startUF' = [startUF EXCEPT ![t] = x]
  BY DEF TaskStep, OnlyLeaf, Launch, Start, Visit, Capture, CaptureWith, Publish, OpenNode,
     Retire, MergeNeighbor, CloseArcs, Restart, CloseRoot, callVars
<1>4. seenFirst' = seenFirst \/ \E x : seenFirst' = [seenFirst EXCEPT ![t] = x]
  BY DEF TaskStep, OnlyLeaf, Launch, Start, Visit, Capture, CaptureWith, Publish, OpenNode,
     Retire, MergeNeighbor, CloseArcs, Restart, CloseRoot, callVars
<1>5. startUF'[o] = startUF[o] /\ seenFirst'[o] = seenFirst[o]
  BY <1>1, <1>3, <1>4 DEF Types
<1>6. Top(o)' = Top(o) /\ Begun(o)' = Begun(o) /\ Parked(o)' = Parked(o)
  BY <1>2, <1>5 DEF Top, Begun, Parked
<1>7. Parked(o) => cur[o] \in Vert
  BY DEF GInv, AtSaddle, SaddleOf
<1>8. Absorbed(o) => Absorbed(o)'
  BY <1>2, <1>6, <1>7 DEF Absorbed
<1>9. Sweeping(o)' => Sweeping(o)
  BY <1>2, <1>6, <1>8 DEF Sweeping
<1> QED BY <1>2, <1>5, <1>6, <1>8, <1>9

(* A step that changes no set leaves them in the hands of the same tasks.  *)
LEMMA SameSets ==
    ASSUME Types, GInv, NEW t \in Leaves, TaskStep(t), comp' = comp, ufs' = ufs
    PROVE  /\ \A n, u : Belongs(n, u)' <=> Belongs(n, u)
           /\ \A o \in Leaves : o # t => Holds(o)' = Holds(o)
<1>1. \A n, u : Belongs(n, u)' <=> Belongs(n, u)
  BY DEF Belongs
<1>2. mesh' = mesh
  BY StepFrame
<1> SUFFICES ASSUME NEW o \in Leaves, o # t PROVE Holds(o)' = Holds(o)
  BY <1>1
<1>3. pc'[o] = pc[o] /\ cur'[o] = cur[o] /\ Rep(o)' = Rep(o)
  BY OthersFrame DEF Rep
<1>4. CASE pc[o] # "merge"
  BY <1>3, <1>4 DEF Holds
<1>5. CASE pc[o] = "merge"
  <2>1. cur[o] \in Vert /\ Lower(cur[o])' = Lower(cur[o])
    <3>1. cur[o] \in Vert /\ \A v \in Vert : Lower(v)' = Lower(v)
      BY <1>2, <1>5, HoldsFacts, SameMesh
    <3> QED BY <1>3, <3>1
  <2>2. Merged(o)' = Merged(o)
    BY <1>3, <2>1 DEF Merged, find
  <2> QED BY <1>3, <1>5, <2>2 DEF Holds
<1> QED BY <1>4, <1>5

(* The queues of the others are not touched, but by the union of two sets. *)
LEMMA SameQueues ==
    ASSUME Types, GInv, NEW t \in Leaves, TaskStep(t), comp' = comp
    PROVE  \A u \in Vert : heap'[u] = heap[u] \/ (u = Rep(t) /\ ~Absorbed(t))
<1>1. t \in Vert
  BY LeavesFacts
<1>2. CASE Start(t)
  <2>1. ~Absorbed(t)
    BY <1>2 DEF Start, Absorbed, Parked
  <2> QED BY <1>2, <2>1, StartStates
<1>3. CASE Visit(t) \/ CloseRoot(t)
  <2>1. ~Absorbed(t) /\ Rep(t) = startUF[t]
    BY <1>3 DEF Visit, CloseRoot, Absorbed, Parked, GInv, Representatives
  <2>2. \A u \in Vert : u # startUF[t] => heap'[u] = heap[u]
    <3>1. CASE Visit(t)
      <4>1. \E v : v = Min(Ahead(t))
        OBVIOUS
      <4> QED BY <3>1, <4>1, VisitStates
    <3>2. CASE CloseRoot(t)
      BY <3>2, CloseRootStates
    <3> QED BY <1>3, <3>1, <3>2
  <2> QED BY <2>1, <2>2
<1>4. ASSUME NEW n \in Vert, MergeNeighbor(t, n) PROVE heap' = heap
  <2> SUFFICES ASSUME comp[ufs[cur[t]]] # comp[ufs[n]] PROVE FALSE
    BY <1>4, HeapSame DEF MergeNeighbor, find, ufVars
  <2>1. PICK w \in Vert, l \in Vert : United(t, w, l)
    BY <1>4, UniteKeeps
  <2>2. l \in Holds(t) /\ w # l /\ \A u \in Vert : comp[u] # l
    BY <2>1 DEF United
  <2>3. l \in {comp[u] : u \in Vert}
    <3>1. pc[t] = "merge"
      BY <1>4 DEF MergeNeighbor
    <3>2. /\ cur[t] \in Vert /\ ufs[cur[t]] \in Vert
          /\ \A m \in Lower(cur[t]) : ufs[m] \in Vert
      BY <3>1, HoldsFacts, LowerFacts DEF GInv, AtSaddle, SaddleOf, Types
    <3> QED BY <2>2, <3>1, <3>2 DEF Holds, Merged, find
  <2> QED BY <2>2, <2>3
<1>5. CASE ~Start(t) /\ ~Visit(t) /\ ~CloseRoot(t)
  BY <1>4, <1>5, HeapSame DEF TaskStep, OnlyLeaf, Launch, Capture, CaptureWith, Publish, OpenNode,
     Retire, CloseArcs, Restart, ufVars
<1> QED BY <1>2, <1>3, <1>5

(* What a task holds and does not lose, it still sweeps.                   *)
LEMMA SweepKept ==
    ASSUME Types, NEW o \in Leaves, SweepOf(o), mesh' = mesh,
           Sweeping(o)' => Sweeping(o), Holds(o)' \subseteq Holds(o),
           Top(o)' = Top(o), Begun(o)' => Begun(o),
           Sweeping(o) => Top(o) \in Vert,
           Sweeping(o) => \A u \in Holds(o) :
               /\ \A x \in Vert : heap[u][x] > 0 => heap'[u][x] > 0
               /\ \A x \in Vert : x # Top(o) => (Belongs(x, u)' <=> Belongs(x, u))
               /\ \A x \in Vert : x > Top(o) /\ propagation'[x] # Null
                                  /\ comp'[propagation'[x]] = u =>
                     \/ heap'[u][x] > 0
                     \/ propagation[x] # Null /\ comp[propagation[x]] = u
    PROVE  SweepOf(o)'
<1> SUFFICES ASSUME Sweeping(o)', NEW u \in Holds(o)'
             PROVE  Grown(u, Top(o), Begun(o))'
  BY DEF SweepOf
<1>1. Sweeping(o) /\ u \in Holds(o) /\ Grown(u, Top(o), Begun(o)) /\ Top(o) \in Vert
  BY DEF SweepOf
<1>2. /\ \A x \in Vert : Lower(x)' = Lower(x)
      /\ \A x \in Vert : Lower(x) \subseteq Vert /\ \A n \in Lower(x) : n < x
  BY SameMesh, LowerFacts DEF Types
<1>3. \A x \in Vert : x # Top(o) => (Belongs(x, u)' <=> Belongs(x, u))
  BY <1>1
<1>4. Pushed(u, Top(o), Begun(o))'
  <2> SUFFICES ASSUME NEW x \in Vert, x > Top(o)
               PROVE  /\ propagation'[x] # Null /\ comp'[propagation'[x]] = u => heap'[u][x] > 0
                      /\ \A n \in Lower(x) :
                            (Belongs(n, u)' /\ n # Top(o)) \/ (n = Top(o) /\ Begun(o)')
                               => heap'[u][x] > 0
    BY <1>2 DEF Pushed
  <2>1. heap[u][x] > 0 => heap'[u][x] > 0
    BY <1>1
  <2>2. propagation'[x] # Null /\ comp'[propagation'[x]] = u => heap'[u][x] > 0
    BY <1>1, <2>1 DEF Grown, Pushed
  <2>3. \A n \in Lower(x) :
            (Belongs(n, u)' /\ n # Top(o)) \/ (n = Top(o) /\ Begun(o)') => heap'[u][x] > 0
    BY <1>1, <1>2, <1>3, <2>1 DEF Grown, Pushed
  <2> QED BY <2>2, <2>3
<1>5. Complete(u, Top(o))'
  <2> SUFFICES ASSUME NEW x \in Vert, x < Top(o), NEW n \in Lower(x), Belongs(n, u)'
               PROVE  Belongs(x, u)'
    BY <1>2 DEF Complete
  <2>1. n # Top(o) /\ x # Top(o) /\ n \in Vert
    <3>1. n < x /\ n \in Nat /\ x \in Nat /\ Top(o) \in Nat
      BY <1>1, <1>2, VertFacts
    <3> QED BY <1>2, <3>1
  <2> QED BY <1>1, <1>3, <2>1 DEF Grown, Complete
<1>6. Connected(Members(u) \cup {Top(o)})'
  <2>1. (Members(u) \cup {Top(o)})' = Members(u) \cup {Top(o)}
    BY <1>3 DEF Members
  <2>2. Connected(Members(u) \cup {Top(o)})
    BY <1>1 DEF Grown
  <2> DEFINE S == Members(u) \cup {Top(o)}
  <2>3. S' = S /\ Connected(S)
    BY <2>1, <2>2
  <2> HIDE DEF S
  <2>4. Connected(S)'
    BY <2>3 DEF Connected
  <2> QED BY <2>4 DEF S
<1> QED BY <1>4, <1>5, <1>6 DEF Grown

(* A task that sweeps has a vertex at the top of what it has swept.        *)
LEMMA TopInVert ==
    ASSUME Types, GInv, NEW t \in Leaves, Sweeping(t), LeafOf(t)
    PROVE  Top(t) \in Vert
<1>1. t \in Vert
  BY LeavesFacts
<1>2. CASE pc[t] \in {"waiting", "start"} \/ (pc[t] = "pop" /\ ~seenFirst[t])
  BY <1>1, <1>2 DEF Top, Types
<1>3. CASE pc[t] = "pop" /\ seenFirst[t]
  BY <1>3 DEF Top, GInv, Arcs, ArcOf
<1>4. CASE pc[t] = "capture" \/ Captured(t)
  <2>1. cur[t] \in Vert
    BY <1>4 DEF Sweeping, GInv, Visits, VisitOf
  <2> QED BY <1>4, <2>1 DEF Top, Captured, Parked
<1>5. CASE pc[t] \in {"merge", "decide"}
  BY <1>5 DEF Top, GInv, AtSaddle, SaddleOf
<1>6. CASE pc[t] = "retire"
  <2>1. Parked(t)
    BY <1>6 DEF GInv, AtSaddle, SaddleOf
  <2> QED BY <1>4, <2>1 DEF Captured
<1>7. pc[t] \in {"none", "waiting", "start", "pop", "capture", "publish",
                 "open", "retire", "merge", "decide", "stopped"} /\ pc[t] # "none"
  BY <1>1 DEF LeafOf, Types
<1> QED BY <1>2, <1>3, <1>4, <1>5, <1>6, <1>7 DEF Sweeping, Captured

(* The others keep what they sweep.                                        *)
LEMMA OthersSweep ==
    ASSUME Types, GInv, NEW t \in Leaves, TaskStep(t), ~Overtake,
           NEW o \in Leaves, o # t, SweepOf(o), ScanOf(o), LeafOf(o),
           propagation \in [Vert -> Vert \cup {Null}]
    PROVE  SweepOf(o)' /\ ScanOf(o)'
<1>1. /\ pc'[o] = pc[o] /\ cur'[o] = cur[o] /\ startVert'[o] = startVert[o]
      /\ startUF'[o] = startUF[o] /\ Top(o)' = Top(o) /\ Begun(o)' = Begun(o)
      /\ Sweeping(o)' => Sweeping(o)
      /\ mesh' = mesh
      /\ Sweeping(o) => Top(o) \in Vert
  BY OthersFrame, StepFrame, TopInVert
<1>2. Rep(t) \in Holds(t) /\ (Sweeping(o) => ~Absorbed(o))
      /\ Rep(o) \in Holds(o) /\ Holds(o) \subseteq Vert /\ Holds(t) \subseteq Vert
  BY HoldsFacts, HoldsInVert DEF Sweeping
\* it is enough that a set changes at the vertex its task has come to only
<1> DEFINE Kept(u) == /\ \A x \in Vert : heap[u][x] > 0 => heap'[u][x] > 0
                      /\ \A x \in Vert : x # Top(o) => (Belongs(x, u)' <=> Belongs(x, u))
                      /\ \A x \in Vert : x > Top(o) /\ propagation'[x] # Null
                                         /\ comp'[propagation'[x]] = u =>
                            \/ heap'[u][x] > 0
                            \/ propagation[x] # Null /\ comp[propagation[x]] = u
<1>3. ASSUME Sweeping(o) => Holds(o)' \subseteq Holds(o),
             Sweeping(o) => \A u \in Holds(o) : Kept(u),
             pc[o] = "capture" =>
                 Rep(o)' = Rep(o) /\ \A x \in Vert : Belongs(x, Rep(o))' <=> Belongs(x, Rep(o))
      PROVE  SweepOf(o)' /\ ScanOf(o)'
  <2>1. CASE Sweeping(o)
    <3>1. SweepOf(o)'
      BY <1>1, <1>3, <2>1, SweepKept
    <3>2. ScanOf(o)'
      <4> SUFFICES ASSUME pc[o] = "capture", cur[o] # startVert[o]
                   PROVE  cur[o] \notin Members(Rep(o))' /\ Connected(Members(Rep(o)))'
        BY <1>1 DEF ScanOf
      <4>1. cur[o] \notin Members(Rep(o)) /\ Connected(Members(Rep(o)))
        BY DEF ScanOf
      <4> DEFINE S == Members(Rep(o))
      <4>2. S' = S
        BY <1>3 DEF Members
      <4>3. Connected(S) /\ cur[o] \notin S
        BY <4>1
      <4> HIDE DEF S
      <4>4. Connected(S)' /\ cur[o] \notin S'
        BY <1>1, <4>2, <4>3 DEF Connected
      <4> QED BY <4>4 DEF S
    <3> QED BY <3>1, <3>2
  <2>2. CASE ~Sweeping(o)
    <3>1. SweepOf(o)'
      BY <1>1, <2>2 DEF SweepOf
    <3>2. pc[o] # "capture"
      BY <2>2 DEF Sweeping, Absorbed, Parked
    <3> QED BY <1>1, <3>1, <3>2 DEF ScanOf
  <2> QED BY <2>1, <2>2
<1>4. CASE comp' = comp /\ ufs' = ufs
  <2>1. /\ \A n, u : Belongs(n, u)' <=> Belongs(n, u)
        /\ Holds(o)' = Holds(o)
    BY <1>4, SameSets
  <2>2. ASSUME Sweeping(o), NEW u \in Holds(o) PROVE heap'[u] = heap[u]
    <3>1. u # Rep(t) \/ Absorbed(t)
      BY <1>2, <2>2, SoleRep
    <3> QED BY <1>2, <1>4, <3>1, SameQueues
  <2>3. ASSUME Sweeping(o), NEW u \in Holds(o), NEW x \in Vert,
               propagation'[x] # Null, comp[propagation'[x]] = u
        PROVE  propagation'[x] = propagation[x]
    <3>1. CASE Visit(t)
      <4>1. Rep(t) = startUF[t] /\ ~Absorbed(t) /\ comp[Rep(t)] = Rep(t)
        <5>1. startUF[t] \in Vert
          BY LeavesFacts DEF Types
        <5> QED BY <3>1, <5>1 DEF Visit, Absorbed, Parked, GInv, Representatives, Rep
      <4>2. propagation'[x] \in {propagation[x], comp[startUF[t]]}
        BY <3>1 DEF Visit, find
      <4>3. u # Rep(t)
        BY <1>2, <2>3, <4>1, SoleRep
      <4> QED BY <2>3, <4>1, <4>2, <4>3 DEF Rep
    <3>2. CASE ~Visit(t)
      BY <3>2 DEF TaskStep, OnlyLeaf, Launch, Start, Capture, CaptureWith, Publish, OpenNode,
         Retire, MergeNeighbor, CloseArcs, Restart, CloseRoot
    <3> QED BY <3>1, <3>2
  <2>4. Sweeping(o) => \A u \in Holds(o) : Kept(u)
    BY <1>4, <2>1, <2>2, <2>3
  <2>5. Rep(o)' = Rep(o) /\ \A x \in Vert : Belongs(x, Rep(o))' <=> Belongs(x, Rep(o))
    BY <1>1, <1>4, <2>1 DEF Rep
  <2> QED BY <1>3, <2>1, <2>4, <2>5
<1>5. CASE OnlyLeaf(t) \/ Launch(t)
  <2>1. /\ t \in Vert /\ comp' = comp /\ heap' = heap /\ propagation' = propagation
        /\ ufs' = [ufs EXCEPT ![t] = t] /\ pc[t] = "waiting"
    BY <1>5, LeavesFacts, HeapSame DEF OnlyLeaf, Launch, ufVars
  <2>2. ~Absorbed(t) /\ startUF[t] = t /\ ufs[t] = Null /\ Rep(t) = comp[t]
        /\ Lower(t) = {}
    BY <2>1, LeavesFacts DEF Absorbed, Parked, GInv, Arcs, ArcOf, Rep
  <2>3. \A u : \A x \in Vert : Belongs(x, u)' => Belongs(x, u) \/ (x = t /\ u = Rep(t))
    BY <2>1, <2>2 DEF Belongs, Types
  <2>4. \A u : \A x \in Vert : Belongs(x, u) => Belongs(x, u)'
    BY <2>1, <2>2, VertFacts DEF Belongs, Types
  <2>5. Sweeping(o) => \A u \in Holds(o), x \in Vert : Belongs(x, u)' <=> Belongs(x, u)
    BY <1>2, <2>2, <2>3, <2>4, SoleRep
  <2>6. Rep(o)' = Rep(o)
    BY <1>1, <2>1 DEF Rep
  <2>7. Sweeping(o) => Holds(o)' \subseteq Holds(o)
    <3>1. CASE pc[o] # "merge"
      BY <1>1, <2>6, <3>1 DEF Holds
    <3>2. CASE pc[o] = "merge"
      <4>1. /\ cur[o] \in Vert /\ ufs[cur[o]] # Null
            /\ \A n \in Lower(cur[o]) : n \in Vert /\ ufs[n] # Null
        BY <3>2, HoldsFacts, LowerFacts DEF GInv, AtSaddle, SaddleOf, Types
      <4>2. /\ ufs'[cur[o]] = ufs[cur[o]] /\ Lower(cur[o])' = Lower(cur[o])
            /\ \A n \in Lower(cur[o]) : ufs'[n] = ufs[n]
        <5>1. \A v \in Vert : Lower(v)' = Lower(v)
          BY <1>1, SameMesh
        <5> QED BY <1>1, <2>1, <2>2, <4>1, <5>1 DEF Types
      <4> QED BY <1>1, <2>1, <3>2, <4>2 DEF Holds, Merged, find
    <3> QED BY <3>1, <3>2
  <2>8. pc[o] = "capture" => Sweeping(o)
    BY DEF Sweeping, Absorbed, Parked
  <2>9. Sweeping(o) => \A u \in Holds(o) : Kept(u)
    BY <2>1, <2>5
  <2> HIDE DEF Kept
  <2> QED BY <1>2, <1>3, <2>5, <2>6, <2>7, <2>8, <2>9
<1>6. CASE Publish(t)
  <2>1. /\ Rep(o)' = Rep(o) /\ Holds(o)' \subseteq Holds(o)
        /\ ~Absorbed(o) => \A u \in Holds(o), x \in Vert :
              (Belongs(x, u)' <=> Belongs(x, u)) \/ (x = Top(o) /\ pc[o] # "capture")
    BY <1>6, PublishKeeps
  <2>2. comp' = comp /\ heap' = heap /\ propagation' = propagation
    BY <1>6, HeapSame DEF Publish, ufVars
  <2>3. pc[o] = "capture" => Sweeping(o)
    BY DEF Sweeping, Absorbed, Parked
  <2>4. Sweeping(o) => \A u \in Holds(o) : Kept(u)
    BY <1>2, <2>1, <2>2
  <2> HIDE DEF Kept
  <2> QED BY <1>2, <1>3, <2>1, <2>3, <2>4
<1>7. ASSUME NEW n \in Vert, MergeNeighbor(t, n), comp[ufs[cur[t]]] # comp[ufs[n]]
      PROVE  SweepOf(o)' /\ ScanOf(o)'
  <2>1. PICK w \in Vert, l \in Vert : United(t, w, l)
    BY <1>7, UniteKeeps
  <2>2. propagation' = propagation
    BY <1>7 DEF MergeNeighbor
  <2>3. Sweeping(o) => /\ w \notin Holds(o) /\ l \notin Holds(o)
                       /\ Holds(o)' = Holds(o)
                       /\ \A u \in Holds(o) : heap'[u] = heap[u]
    BY <1>2, <2>1 DEF United
  <2>4. Sweeping(o) => \A u \in Holds(o), x \in Vert : Belongs(x, u)' <=> Belongs(x, u)
    BY <2>1, <2>3 DEF United, Belongs
  <2>5. Sweeping(o) => \A u \in Holds(o), x \in Vert :
            propagation[x] # Null /\ comp'[propagation[x]] = u => comp[propagation[x]] = u
    BY <2>1, <2>3 DEF United
  <2>6. Sweeping(o) => Rep(o)' = Rep(o)
    <3>1. startUF[o] \in Vert
      BY LeavesFacts DEF Types
    <3> QED BY <1>1, <1>2, <2>1, <2>3, <3>1 DEF United, Rep
  <2>7. pc[o] = "capture" => Sweeping(o)
    BY DEF Sweeping, Absorbed, Parked
  <2>8. Sweeping(o) => \A u \in Holds(o) : Kept(u)
    BY <2>2, <2>3, <2>4, <2>5
  <2> HIDE DEF Kept
  <2> QED BY <1>2, <1>3, <2>3, <2>4, <2>6, <2>7, <2>8
<1>8. \/ comp' = comp /\ ufs' = ufs
      \/ OnlyLeaf(t) \/ Launch(t) \/ Publish(t)
      \/ \E n \in Vert : MergeNeighbor(t, n) /\ comp[ufs[cur[t]]] # comp[ufs[n]]
  BY DEF TaskStep, Start, Visit, Capture, CaptureWith, OpenNode, Retire, MergeNeighbor,
     CloseArcs, Restart, CloseRoot, ufVars, find
<1> QED BY <1>4, <1>5, <1>6, <1>7, <1>8
-------------------------------------------------------------------------------
(***************************************************************************)
(* What a step of t makes of its own sets.                                 *)
(***************************************************************************)
(* Steps that grow nothing.                                                *)
LEMMA IdleSweep ==
    ASSUME Types, GInv, NEW t \in Leaves, SweepOf(t), LeafOf(t), ~Overtake,
           propagation \in [Vert -> Vert \cup {Null}],
           \/ OnlyLeaf(t) \/ Launch(t) \/ Start(t) \/ Capture(t) \/ Publish(t)
           \/ OpenNode(t) /\ ~isLast[t]
           \/ Retire(t) \/ CloseArcs(t) \/ Restart(t) \/ CloseRoot(t)
           \/ \E n \in Vert : MergeNeighbor(t, n) /\ comp[ufs[cur[t]]] = comp[ufs[n]]
    PROVE  SweepOf(t)'
<1>1. t \in Vert /\ Rep(t) \in Holds(t) /\ (Sweeping(t) => Top(t) \in Vert)
  BY LeavesFacts, HoldsFacts, TopInVert
<1>2. TaskStep(t)
  BY DEF TaskStep
<1>3. mesh' = mesh
  BY <1>2, StepFrame
<1>4. ASSUME ~Sweeping(t)' PROVE SweepOf(t)'
  BY <1>4 DEF SweepOf
<1>5. CASE OnlyLeaf(t) \/ (Restart(t) /\ activeTasks = 1) \/ CloseRoot(t)
  <2>1. pc'[t] = "stopped" /\ isSaddle' = isSaddle /\ isLast' = isLast
    BY <1>1, <1>5 DEF OnlyLeaf, Restart, CloseRoot, Goto, visitVars, Types
  <2>2. CASE OnlyLeaf(t)
    <3>1. ~isSaddle[t]
      BY <2>2 DEF OnlyLeaf, GInv, Arcs, ArcOf
    <3> QED BY <1>4, <2>1, <3>1 DEF Sweeping, Parked
  <2>3. CASE Restart(t)
    <3>1. isLast[t]
      BY <2>3 DEF Restart, GInv, AtSaddle, SaddleOf
    <3> QED BY <1>4, <2>1, <3>1 DEF Sweeping, Parked
  <2>4. CASE CloseRoot(t)
    <3>1. ~isSaddle[t]
      <4>1. seenFirst[t]
        <5> SUFFICES ASSUME ~seenFirst[t] PROVE FALSE
          OBVIOUS
        <5>1. /\ startVert[t] \in Vert /\ vert2tree[startVert[t]] = IsNode
              /\ heap[startUF[t]][startVert[t]] > 0
          BY <1>1, <2>4 DEF CloseRoot, GInv, Arcs, ArcOf, Types
        <5>2. startVert[t] \in Ahead(t)
          BY <2>4, <5>1, AheadFacts DEF Seen, OnArc, CloseRoot
        <5> QED BY <2>4, <5>2 DEF CloseRoot
      <4> QED BY <2>4, <4>1 DEF CloseRoot, GInv, Arcs, ArcOf
    <3> QED BY <1>4, <2>1, <3>1 DEF Sweeping, Parked
  <2> QED BY <1>5, <2>2, <2>3, <2>4
<1>6. CASE Launch(t)
  <2>1. /\ pc[t] = "waiting" /\ pc'[t] = "start" /\ comp' = comp /\ heap' = heap
        /\ propagation' = propagation /\ ufs' = [ufs EXCEPT ![t] = t]
        /\ startVert' = startVert /\ startUF' = startUF
    BY <1>1, <1>6, HeapSame DEF Launch, Goto, ufVars, callVars, Types
  <2>2. /\ Sweeping(t) /\ startVert[t] = t /\ Top(t) = t /\ Top(t)' = t
        /\ ~Begun(t)' /\ Holds(t)' = Holds(t)
    BY <2>1 DEF Sweeping, Absorbed, Parked, GInv, Arcs, ArcOf, Top, Begun, Holds, Rep
  <2>3. \A u : \A x \in Vert : x # t => (Belongs(x, u)' <=> Belongs(x, u))
    BY <1>1, <2>1 DEF Belongs, Types
  <2> QED BY <1>1, <1>3, <2>1, <2>2, <2>3, SweepKept
<1>7. CASE Publish(t)
  <2>1. /\ Top(t)' = Top(t) /\ (Sweeping(t)' => Sweeping(t)) /\ Holds(t)' \subseteq Holds(t)
        /\ ~Absorbed(t) => \A u \in Holds(t), x \in Vert :
              (Belongs(x, u)' <=> Belongs(x, u)) \/ x = Top(t)
    BY <1>7, PublishKeeps
  <2>2. /\ comp' = comp /\ heap' = heap /\ propagation' = propagation /\ Begun(t)
    BY <1>7, HeapSame DEF Publish, ufVars, Begun
  <2>3. Sweeping(t) => ~Absorbed(t)
    BY DEF Sweeping
  <2> QED BY <1>1, <1>3, <2>1, <2>2, <2>3, SweepKept
<1>8. ASSUME comp' = comp, ufs' = ufs, propagation' = propagation,
             \A u \in Vert, x \in Vert : heap[u][x] > 0 => heap'[u][x] > 0,
             Sweeping(t)' => Sweeping(t), Holds(t)' \subseteq Holds(t), Top(t)' = Top(t),
             Begun(t)' => Begun(t)
      PROVE  SweepOf(t)'
  <2>1. \A n, u : Belongs(n, u)' <=> Belongs(n, u)
    BY <1>8 DEF Belongs
  <2>2. Holds(t) \subseteq Vert
    BY HoldsInVert
  <2> QED BY <1>1, <1>3, <1>8, <2>1, <2>2, SweepKept
<1>9. CASE Start(t)
  <2>1. /\ pc[t] = "start" /\ pc'[t] = "pop" /\ comp' = comp /\ ufs' = ufs
        /\ propagation' = propagation /\ startVert' = startVert
        /\ seenFirst'[t] = FALSE /\ startUF'[t] = comp[ufs[startVert[t]]]
    BY <1>1, <1>9 DEF Start, Goto, find, Types
  <2>2. /\ Sweeping(t) /\ Top(t) = startVert[t] /\ Top(t)' = startVert[t]
        /\ ~Begun(t)' /\ Belongs(startVert[t], Rep(t))
    BY <2>1 DEF Sweeping, Absorbed, Parked, GInv, Arcs, ArcOf, Top, Begun
  <2>3. Holds(t)' = Holds(t)
    <3>1. comp[ufs[startVert[t]]] = Rep(t) /\ startUF[t] \in Vert
      BY <1>1, <2>2 DEF Belongs, Types
    <3>2. Rep(t)' = Rep(t)
      BY <2>1, <3>1 DEF Rep, GInv, Representatives
    <3> QED BY <2>1, <3>2 DEF Holds
  <2>4. \A u \in Vert, x \in Vert : heap[u][x] > 0 => heap'[u][x] > 0
    BY <1>9, StartStates
  <2> QED BY <1>8, <2>1, <2>2, <2>3, <2>4
<1>10. CASE Capture(t)
  <2>1. /\ pc[t] = "capture" /\ pc'[t] = "publish" /\ comp' = comp /\ ufs' = ufs
        /\ propagation' = propagation /\ heap' = heap /\ cur' = cur /\ startUF' = startUF
    BY <1>1, <1>10, HeapSame DEF Capture, CaptureWith, Goto, ufVars, callVars, Types
  <2>2. /\ Sweeping(t) /\ Top(t)' = Top(t) /\ Begun(t) /\ Holds(t)' = Holds(t)
    BY <2>1 DEF Sweeping, Absorbed, Parked, Top, Begun, Holds, Rep
  <2> QED BY <1>8, <2>1, <2>2
<1>11. CASE (OpenNode(t) /\ ~isLast[t]) \/ Retire(t)
  <2>1. /\ pc[t] \in {"open", "retire"} /\ pc'[t] \in {"retire", "stopped"}
        /\ comp' = comp /\ ufs' = ufs /\ vert2tree' = vert2tree
        /\ propagation' = propagation /\ heap' = heap /\ cur' = cur /\ startUF' = startUF
        /\ isSaddle' = isSaddle /\ isLast' = isLast
    BY <1>1, <1>11, HeapSame DEF OpenNode, Retire, Goto, ufVars, callVars, visitVars, segmVars, Types
  <2>2. Sweeping(t)' => Sweeping(t)
    BY <2>1 DEF Sweeping, Absorbed, Parked
  <2>3. Top(t)' = Top(t) /\ Begun(t) /\ Holds(t)' = Holds(t)
    BY <2>1 DEF Top, Begun, Holds, Rep
  <2> QED BY <1>8, <2>1, <2>2, <2>3
<1>12. CASE CloseArcs(t)
  <2>1. /\ pc[t] = "merge" /\ pc'[t] = "decide" /\ comp' = comp /\ ufs' = ufs
        /\ propagation' = propagation /\ heap' = heap /\ cur' = cur /\ startUF' = startUF
    BY <1>1, <1>12, HeapSame DEF CloseArcs, Goto, ufVars, callVars, Types
  <2>2. /\ Sweeping(t) /\ Top(t)' = Top(t) /\ Begun(t)
    BY <2>1 DEF Sweeping, Absorbed, Parked, Top, Begun
  <2>3. Holds(t)' = {Rep(t)}
    BY <2>1 DEF Holds, Rep
  <2> QED BY <1>1, <1>8, <2>1, <2>2, <2>3
<1>13. CASE Restart(t) /\ activeTasks # 1
  <2>1. /\ pc[t] = "decide" /\ pc'[t] = "start" /\ comp' = comp /\ ufs' = ufs
        /\ propagation' = propagation /\ heap' = heap /\ startUF' = startUF
        /\ startVert'[t] = cur[t]
    BY <1>1, <1>13, HeapSame DEF Restart, Goto, ufVars, Types
  <2>2. /\ Sweeping(t) /\ Top(t)' = Top(t) /\ ~Begun(t)' /\ Holds(t)' = Holds(t)
    BY <2>1 DEF Sweeping, Absorbed, Parked, Top, Begun, Holds, Rep
  <2> QED BY <1>8, <2>1, <2>2
<1>14. ASSUME NEW n \in Vert, MergeNeighbor(t, n), comp[ufs[cur[t]]] = comp[ufs[n]]
       PROVE  SweepOf(t)'
  <2>1. /\ pc[t] = "merge" /\ pc' = pc /\ comp' = comp /\ ufs' = ufs
        /\ propagation' = propagation /\ heap' = heap /\ cur' = cur /\ startUF' = startUF
    BY <1>14, HeapSame DEF MergeNeighbor, find, ufVars, callVars
  <2>2. cur[t] \in Vert /\ Lower(cur[t])' = Lower(cur[t])
    <3>1. cur[t] \in Vert /\ \A v \in Vert : Lower(v)' = Lower(v)
      BY <1>3, <2>1, HoldsFacts, SameMesh
    <3> QED BY <2>1, <3>1
  <2>3. /\ Sweeping(t) /\ Top(t)' = Top(t) /\ Begun(t) /\ Holds(t)' = Holds(t)
    BY <2>1, <2>2 DEF Sweeping, Absorbed, Parked, Top, Begun, Holds, Merged, find
  <2> QED BY <1>8, <2>1, <2>3
<1> QED BY <1>5, <1>6, <1>7, <1>9, <1>10, <1>11, <1>12, <1>13, <1>14

(* The next vertex: what was queued below it belongs to the set already.   *)
LEMMA VisitSweep ==
    ASSUME Types, GInv, NEW t \in Leaves, Visit(t), SweepOf(t), LeafOf(t),
           propagation \in [Vert -> Vert \cup {Null}]
    PROVE  SweepOf(t)' /\ ScanOf(t)'
<1>0. PICK u, v : u = startUF[t] /\ v = Min(Ahead(t))
  OBVIOUS
<1> DEFINE new == {x \in Upper(v) : Unclaimed(x, u)}
<1>1. /\ t \in Vert /\ u \in Vert /\ pc[t] = "pop" /\ Rep(t) = u /\ comp[u] = u
      /\ ~Absorbed(t) /\ Sweeping(t) /\ Holds(t) = {u} /\ Top(t) \in Vert
  <2>1. t \in Vert /\ u \in Vert /\ pc[t] = "pop"
    BY <1>0, LeavesFacts DEF Visit, Types
  <2>2. Rep(t) = u /\ ~Absorbed(t) /\ Sweeping(t) /\ Holds(t) = {u}
    BY <1>0, <2>1 DEF GInv, Representatives, Absorbed, Parked, Sweeping, Holds
  <2>3. comp[u] = u
    BY <1>0, <2>2 DEF Rep
  <2> QED BY <2>1, <2>2, <2>3, TopInVert
<1>2. /\ v \in Ahead(t) /\ \A x \in Ahead(t) : v <= x
      /\ v \in Vert /\ v >= Top(t)
      /\ ~seenFirst[t] => v = startVert[t]
      /\ seenFirst[t] => v > cur[t] /\ \E n \in Lower(v) : Belongs(n, u)
  <2>1. v \in Ahead(t) /\ \A x \in Ahead(t) : v <= x
    BY <1>0, AheadFacts DEF Visit
  <2> QED BY <1>1, <2>1, NextVertex
<1>3. /\ pc'[t] = "capture" /\ cur'[t] = v /\ comp' = comp /\ ufs' = ufs /\ mesh' = mesh
      /\ vert2tree' = vert2tree /\ startVert' = startVert /\ startUF' = startUF
      /\ propagation' = [x \in Vert |-> IF x \in new THEN u ELSE propagation[x]]
  <2>1. find(u) = u
    BY <1>1 DEF find
  <2>2. /\ pc' = [pc EXCEPT ![t] = "capture"] /\ cur' = [cur EXCEPT ![t] = v]
        /\ propagation' = [x \in Vert |-> IF x \in new THEN u ELSE propagation[x]]
        /\ UNCHANGED <<mesh, comp, ufs, vert2tree, startVert, startUF>>
    BY <1>0, <2>1 DEF Visit, Goto, ufVars
  <2> HIDE DEF new
  <2> QED BY <1>1, <2>2 DEF Types
<1>q. \A x \in Vert : x > v => (heap'[u][x] > 0 <=> x \in new \/ heap[u][x] > 0)
  BY <1>0, VisitStates
<1>4. /\ \A x \in Vert : Lower(x)' = Lower(x)
      /\ \A x \in Vert : Lower(x) \subseteq Vert /\ \A n \in Lower(x) : n < x
      /\ Upper(v) = {x \in Vert : v \in Lower(x)}
      /\ \A n, z : Belongs(n, z)' <=> Belongs(n, z)
  BY <1>2, <1>3, SameMesh, LowerFacts DEF Belongs, Types
<1>5. /\ Top(t)' = v /\ Begun(t)' /\ Holds(t)' = {u} /\ Rep(t)' = u
  BY <1>0, <1>1, <1>3 DEF Top, Begun, Holds, Rep
<1>6. /\ Pushed(u, Top(t), Begun(t)) /\ Complete(u, Top(t))
      /\ Connected(Members(u) \cup {Top(t)})
      /\ Belongs(Top(t), u) /\ Belongs(startVert[t], u)
      /\ \A x \in Vert : Belongs(x, u) => x <= Top(t)
      /\ seenFirst[t] => Top(t) = cur[t] /\ Begun(t)
      /\ ~seenFirst[t] => Top(t) = startVert[t]
  <2>1. Grown(u, Top(t), Begun(t))
    BY <1>1 DEF SweepOf
  <2>2. Belongs(Top(t), u) /\ Belongs(startVert[t], u)
    BY <1>1 DEF GInv, Arcs, ArcOf
  <2>3. \A x \in Vert : Belongs(x, u) => x <= Top(t)
    BY <1>1 DEF GInv, Swept, SweptOf
  <2>4. /\ seenFirst[t] => Top(t) = cur[t] /\ Begun(t)
        /\ ~seenFirst[t] => Top(t) = startVert[t]
    BY <1>1 DEF Top, Begun
  <2> QED BY <2>1, <2>2, <2>3, <2>4 DEF Grown
\* what lies above the last vertex and has a neighbour in the set is queued
<1>7. ASSUME NEW x \in Vert, x > Top(t), NEW n \in Lower(x), Belongs(n, u), n # v \/ x < v
      PROVE  heap[u][x] > 0
  <2>1. n = Top(t) => Begun(t)
    <3> SUFFICES ASSUME n = Top(t), ~Begun(t) PROVE FALSE
      OBVIOUS
    <3>1. n = v
      BY <1>2, <1>6
    <3>2. v = Top(t) /\ x \in Nat /\ v \in Nat
      BY <1>2, <3>1, VertFacts
    <3> QED BY <1>7, <3>1, <3>2
  <2> QED BY <1>6, <1>7, <2>1 DEF Pushed
<1>8. Pushed(u, v, TRUE)'
  <2> SUFFICES ASSUME NEW x \in Vert, x > v
               PROVE  /\ propagation'[x] # Null /\ comp'[propagation'[x]] = u => heap'[u][x] > 0
                      /\ \A n \in Lower(x) : Belongs(n, u) \/ n = v => heap'[u][x] > 0
    BY <1>4 DEF Pushed
  <2>1. x > Top(t) /\ ~(x < v) /\ x # v
    <3>1. x \in Nat /\ v \in Nat /\ Top(t) \in Nat
      BY <1>1, <1>2, VertFacts
    <3> QED BY <1>1, <1>2, <3>1
  <2>3. x \in new => heap'[u][x] > 0
    BY <1>q
  <2>4. heap[u][x] > 0 => heap'[u][x] > 0
    BY <1>q
  <2>5. propagation[x] # Null /\ comp[propagation[x]] = u => heap[u][x] > 0
    BY <1>6, <2>1 DEF Pushed
  <2>6. propagation'[x] # Null /\ comp'[propagation'[x]] = u => heap'[u][x] > 0
    <3> HIDE DEF new
    <3> QED BY <1>3, <2>3, <2>4, <2>5
  <2>7. v \in Lower(x) => heap'[u][x] > 0
    <3>1. v \in Lower(x) => x \in new \/ (propagation[x] # Null /\ comp[propagation[x]] = u)
      BY <1>4 DEF Unclaimed, find
    <3> QED BY <2>3, <2>4, <2>5, <3>1
  <2>8. \A n \in Lower(x) : Belongs(n, u) /\ n # v => heap[u][x] > 0
    BY <1>7, <2>1
  <2> QED BY <2>4, <2>6, <2>7, <2>8
<1>9. ASSUME NEW x \in Vert, x < v, NEW n \in Lower(x), Belongs(n, u)
      PROVE  Belongs(x, u)
  <2>0. x \in Nat /\ Top(t) \in Nat /\ v \in Nat
    BY <1>1, <1>2, VertFacts
  <2>1. CASE x < Top(t)
    BY <1>6, <1>9, <2>1 DEF Complete
  <2>2. CASE x = Top(t)
    BY <1>6, <2>2
  <2>3. CASE x > Top(t)
    <3>1. heap[u][x] > 0
      BY <1>7, <1>9, <2>3
    <3>2. x \notin Ahead(t)
      BY <1>2, <1>9, <2>0
    <3>3. Seen(t, x)
      BY <1>0, <1>1, <3>1, <3>2, AheadFacts
    <3>4. CASE x = startVert[t]
      BY <1>6, <3>4
    <3>5. CASE OnArc(x)
      <4>1. /\ vert2tree[x] # Null /\ vert2tree[x] # IsNode
        BY <3>5 DEF OnArc
      <4>2. ufs[x] # Null /\ comp[ufs[n]] = comp[ufs[x]]
        BY <1>9, <4>1 DEF GInv, LowerClosed, AtSaddle, SaddleOf
      <4> QED BY <1>9, <4>2 DEF Belongs
    <3> QED BY <3>3, <3>4, <3>5 DEF Seen
  <2> QED BY <2>0, <2>1, <2>2, <2>3
<1>10. Complete(u, v)'
  BY <1>4, <1>9 DEF Complete
<1>11. Connected(Members(u))
  <2>1. Members(u) \cup {Top(t)} = Members(u)
    BY <1>1, <1>6 DEF Members
  <2> QED BY <1>6, <2>1
<1>12. Connected(Members(u) \cup {v})
  <2>1. CASE ~seenFirst[t]
    <3>1. Members(u) \cup {v} = Members(u)
      BY <1>2, <1>6, <2>1 DEF Members
    <3> QED BY <1>11, <3>1
  <2>2. CASE seenFirst[t]
    <3>1. PICK n \in Lower(v) : Belongs(n, u)
      BY <1>2, <2>2
    <3>2. n \in Members(u) /\ {n, v} \in mesh
      BY <1>2, <1>4, <3>1, LowerEdge DEF Members, Types
    <3> QED BY <1>11, <3>2, ConnectedNext
  <2> QED BY <2>1, <2>2
<1>13. Members(u)' = Members(u)
  BY <1>4 DEF Members
<1>14. SweepOf(t)'
  <2>1. Connected(Members(u) \cup {v})'
    <3> DEFINE S == Members(u) \cup {v}
    <3>1. Connected(S) /\ S' = S
      BY <1>12, <1>13
    <3> HIDE DEF S
    <3>2. Connected(S)'
      BY <1>3, <3>1 DEF Connected
    <3> QED BY <3>2 DEF S
  <2> QED BY <1>5, <1>8, <1>10, <2>1 DEF SweepOf, Grown, Pushed, Complete
<1>15. ScanOf(t)'
  <2> SUFFICES ASSUME v # startVert[t]
               PROVE  v \notin Members(u)' /\ Connected(Members(u))'
    BY <1>3, <1>5 DEF ScanOf
  <2>1. v > Top(t) /\ v \in Nat /\ Top(t) \in Nat
    BY <1>1, <1>2, <1>6, VertFacts
  <2>2. v \notin Members(u)
    BY <1>6, <2>1 DEF Members
  <2>3. Connected(Members(u))'
    <3> DEFINE S == Members(u)
    <3>1. Connected(S) /\ S' = S
      BY <1>11, <1>13
    <3> HIDE DEF S
    <3>2. Connected(S)'
      BY <1>3, <3>1 DEF Connected
    <3> QED BY <3>2 DEF S
  <2> QED BY <1>13, <2>2, <2>3
<1> QED BY <1>14, <1>15

(* At a saddle the last task takes sets that all came up to it.            *)
LEMMA CloseSweep ==
    ASSUME Types, GInv, NEW t \in Leaves, OpenNode(t), isLast[t],
           \A o \in Leaves : SweepOf(o)
    PROVE  SweepOf(t)'
<1>1. /\ t \in Vert /\ pc[t] = "open" /\ pc'[t] = "merge" /\ comp' = comp
      /\ heap' = heap /\ propagation' = propagation /\ mesh' = mesh
  BY LeavesFacts, HeapSame DEF OpenNode, Goto, ufVars, Types
<1>2. PICK v \in Vert : v = cur[t]
  BY CloseKeeps
<1>3. /\ Sweeping(t)' /\ Top(t)' = v
      /\ \A n, u : Belongs(n, u)' <=> Belongs(n, u)
      /\ \A x \in Vert : Lower(x)' = Lower(x)
  BY <1>1, <1>2, CloseKeeps, SameMesh
<1> SUFFICES ASSUME NEW u \in Holds(t)'
             PROVE  Grown(u, Top(t), Begun(t))'
  BY DEF SweepOf
<1>4. PICK p \in Leaves : /\ cur[p] = v /\ u = Rep(p) /\ ~Absorbed(p)
                          /\ Sweeping(p) /\ Holds(p) = {u} /\ Top(p) = v
                          /\ p = t \/ Parked(p)
  BY <1>2, CloseKeeps
<1>5. Begun(p)
  BY <1>1, <1>4 DEF Begun, Parked
<1>6. Grown(u, v, Begun(p))
  BY <1>4 DEF SweepOf
<1>7. Pushed(u, v, TRUE)'
  BY <1>1, <1>3, <1>5, <1>6 DEF Grown, Pushed
<1>8. Begun(t)' = TRUE
  BY <1>1 DEF Begun
<1>9. Complete(u, v)'
  BY <1>3, <1>6 DEF Grown, Complete
<1>10. Connected(Members(u) \cup {v})'
  <2>1. (Members(u) \cup {v})' = Members(u) \cup {v}
    BY <1>3 DEF Members
  <2> DEFINE S == Members(u) \cup {v}
  <2>2. S' = S /\ Connected(S)
    BY <1>6, <2>1 DEF Grown
  <2> HIDE DEF S
  <2>3. Connected(S)'
    BY <1>1, <2>2 DEF Connected
  <2> QED BY <2>3 DEF S
<1> QED BY <1>3, <1>7, <1>8, <1>9, <1>10 DEF Grown, Pushed, Complete

(* Two sets that meet at a saddle and came up to it make one that did.     *)
LEMMA UniteSweep ==
    ASSUME Types, GInv, NEW t \in Leaves, NEW n \in Vert, MergeNeighbor(t, n),
           comp[ufs[cur[t]]] # comp[ufs[n]], SweepOf(t),
           propagation \in [Vert -> Vert \cup {Null}]
    PROVE  SweepOf(t)'
<1>1. /\ pc[t] = "merge" /\ pc' = pc /\ cur' = cur /\ mesh' = mesh
      /\ propagation' = propagation
  BY DEF MergeNeighbor, callVars
<1>2. PICK w \in Vert, l \in Vert : United(t, w, l)
  BY UniteKeeps
<1>3. PICK v \in Vert : v = cur[t]
  BY <1>1, HoldsFacts
<1>4. /\ Top(t) = v /\ Top(t)' = v /\ Begun(t) /\ Begun(t)' /\ Sweeping(t)
      /\ \A x \in Vert : Lower(x)' = Lower(x)
      /\ \A x \in Vert : Lower(x) \subseteq Vert
  BY <1>1, <1>3, SameMesh, LowerFacts DEF Top, Begun, Sweeping, Absorbed, Parked, Types
<1>5. /\ w \in Holds(t) /\ l \in Holds(t) /\ w # l /\ Holds(t)' \subseteq Holds(t) \ {l}
      /\ \A x \in Vert : comp'[x] = IF comp[x] = l THEN w ELSE comp[x]
      /\ \A u \in Holds(t) : u # w /\ u # l => heap'[u] = heap[u]
  BY <1>2 DEF United
<1>6. \A u : \A x \in Vert :
         /\ u # w /\ u # l => (Belongs(x, u)' <=> Belongs(x, u))
         /\ Belongs(x, w)' <=> (Belongs(x, w) \/ Belongs(x, l))
  BY <1>2 DEF United, Belongs
<1>7. \A u \in Holds(t) : Grown(u, v, TRUE)
  <2>1. Begun(t) = TRUE
    BY <1>4 DEF Begun
  <2> QED BY <1>4, <2>1 DEF SweepOf
<1>8. \A x \in Vert : heap'[w][x] > 0 <=> heap[w][x] > 0 \/ heap[l][x] > 0
  BY <1>2 DEF United
<1> SUFFICES ASSUME NEW u \in Holds(t)'
             PROVE  Grown(u, Top(t), Begun(t))'
  BY DEF SweepOf
<1>9. u \in Holds(t) /\ u # l /\ Begun(t)' = TRUE
  BY <1>4, <1>5 DEF Begun
<1>10. CASE u # w
  <2>1. Grown(u, v, TRUE)
    BY <1>7, <1>9
  <2>2. heap'[u] = heap[u] /\ \A x \in Vert : Belongs(x, u)' <=> Belongs(x, u)
    BY <1>5, <1>6, <1>9, <1>10
  <2>3. Pushed(u, v, TRUE)'
    <3>1. \A x \in Vert : propagation[x] # Null /\ comp'[propagation[x]] = u =>
                              comp[propagation[x]] = u
      BY <1>5, <1>10
    <3> QED BY <1>1, <1>4, <2>1, <2>2, <3>1 DEF Grown, Pushed
  <2>4. Complete(u, v)'
    BY <1>4, <2>1, <2>2 DEF Grown, Complete
  <2>5. Connected(Members(u) \cup {v})'
    <3> DEFINE S == Members(u) \cup {v}
    <3>1. S' = S /\ Connected(S)
      BY <2>1, <2>2 DEF Members, Grown
    <3> HIDE DEF S
    <3>2. Connected(S)'
      BY <1>1, <3>1 DEF Connected
    <3> QED BY <3>2 DEF S
  <2> QED BY <1>4, <1>9, <2>3, <2>4, <2>5 DEF Grown, Pushed, Complete
<1>11. CASE u = w
  <2>1. Grown(w, v, TRUE) /\ Grown(l, v, TRUE)
    BY <1>5, <1>7
  <2>2. \A x \in Vert : heap[w][x] > 0 \/ heap[l][x] > 0 => heap'[w][x] > 0
    BY <1>8
  <2>3. Pushed(w, v, TRUE)'
    <3>1. \A x \in Vert : propagation[x] # Null /\ comp'[propagation[x]] = w =>
                              comp[propagation[x]] \in {w, l}
      BY <1>5
    <3> QED BY <1>1, <1>4, <1>6, <2>1, <2>2, <3>1 DEF Grown, Pushed
  <2>4. Complete(w, v)'
    BY <1>4, <1>6, <2>1 DEF Grown, Complete
  <2>5. Connected(Members(w) \cup {v})'
    <3> DEFINE A == Members(w) \cup {v}
               B == Members(l) \cup {v}
               S == Members(w) \cup {v}
    <3>1. S' = A \cup B
      BY <1>6 DEF Members
    <3>2. Connected(A) /\ Connected(B) /\ A \cap B # {}
      BY <2>1 DEF Grown
    <3> HIDE DEF A, B, S
    <3>3. Connected(A \cup B)
      BY <3>2, ConnectedUnion
    <3>4. Connected(S)'
      BY <1>1, <3>1, <3>3 DEF Connected
    <3> QED BY <3>4 DEF S
  <2> QED BY <1>4, <1>9, <1>11, <2>3, <2>4, <2>5 DEF Grown, Pushed, Complete
<1> QED BY <1>10, <1>11
-------------------------------------------------------------------------------
(***************************************************************************)
(* Every set stays in the hands of a task.                                 *)
(***************************************************************************)
(* A task at a saddle holds one of the sets below it.                      *)
LEMMA HasBelow ==
    ASSUME GInv, NEW t \in Leaves, Parked(t) \/ Claims(t) \/ pc[t] = "merge"
    PROVE  cur[t] \in Vert /\ \E n \in Lower(cur[t]) : Belongs(n, Rep(t))
  BY DEF GInv, AtSaddle, SaddleOf

(* A vertex is opened by its last visitor, and put on an arc, only.        *)
LEMMA SettledBy ==
    ASSUME Types, GInv, NEW t \in Leaves, TaskStep(t), ~(OpenNode(t) /\ isLast[t]),
           ~Publish(t), NEW x \in Vert
    PROVE  vert2tree'[x] = Null <=> vert2tree[x] = Null
<1>1. CASE CloseRoot(t)
  <2>1. vert2tree[cur[t]] # Null /\ vert2tree' = [vert2tree EXCEPT ![cur[t]] = IsNode]
    BY <1>1, RootSettled DEF CloseRoot
  <2> QED BY <2>1, VertFacts DEF Types
<1>2. CASE ~CloseRoot(t)
  BY <1>2 DEF TaskStep, OnlyLeaf, Launch, Start, Visit, Capture, CaptureWith, OpenNode,
     Retire, MergeNeighbor, CloseArcs, Restart, segmVars
<1> QED BY <1>1, <1>2

(* The sets of t, in a step that changes none of them.                     *)
LEMMA OwnHeld ==
    ASSUME Types, GInv, NEW t \in Leaves, TaskStep(t), comp' = comp, ufs' = ufs,
           ~(OpenNode(t) /\ isLast[t]), ~Publish(t), ~OnlyLeaf(t), ~Launch(t), ~Absorbed(t)
    PROVE  ~Absorbed(t)' /\ Holds(t) \subseteq Holds(t)'
<1>1. t \in Vert /\ startUF[t] \in Vert
  BY LeavesFacts DEF Types
<1>2. CASE Start(t)
  <2>1. pc[t] = "start" /\ pc'[t] = "pop" /\ startUF'[t] = comp[ufs[startVert[t]]]
    BY <1>1, <1>2 DEF Start, Goto, find, Types
  <2>2. Belongs(startVert[t], Rep(t))
    BY <2>1 DEF Sweeping, Absorbed, Parked, GInv, Arcs, ArcOf
  <2>3. Rep(t)' = Rep(t)
    BY <1>1, <2>1, <2>2 DEF Belongs, Rep, GInv, Representatives
  <2> QED BY <2>1, <2>3 DEF Holds, Absorbed, Parked
<1>3. CASE Visit(t) \/ Capture(t)
  <2>1. pc[t] \in {"pop", "capture"} /\ pc'[t] \in {"capture", "publish"} /\ startUF' = startUF
    BY <1>1, <1>3 DEF Visit, Capture, CaptureWith, Goto, callVars, Types
  <2>2. Rep(t)' = Rep(t)
    BY <2>1 DEF Rep
  <2>3. CASE Visit(t)
    <3>1. pc'[t] = "capture"
      BY <1>1, <2>3 DEF Visit, Goto, Types
    <3> QED BY <2>1, <2>2, <3>1 DEF Holds, Absorbed, Parked
  <2>4. CASE Capture(t)
    <3>1. /\ pc'[t] = "publish" /\ cur' = cur /\ isSaddle' = isSaddle
          /\ vert2tree' = vert2tree /\ pc[t] = "capture"
      BY <1>1, <2>4 DEF Capture, CaptureWith, Goto, callVars, segmVars, Types
    <3>2. isSaddle[t] => vert2tree[cur[t]] = Null
      BY <3>1 DEF GInv, Visits, VisitOf, Absorbed, Parked
    <3> QED BY <2>1, <2>2, <3>1, <3>2 DEF Holds, Absorbed, Parked
  <2> QED BY <1>3, <2>3, <2>4
<1>4. CASE OpenNode(t) \/ Retire(t)
  <2>1. /\ pc[t] \in {"open", "retire"} /\ pc'[t] \in {"retire", "stopped"}
        /\ cur' = cur /\ isSaddle' = isSaddle /\ isLast' = isLast
        /\ vert2tree' = vert2tree /\ startUF' = startUF
    BY <1>1, <1>4 DEF OpenNode, Retire, Goto, callVars, visitVars, segmVars, Types
  <2> QED BY <2>1 DEF Holds, Rep, Absorbed, Parked
<1>5. CASE \E n \in Vert : MergeNeighbor(t, n)
  <2>1. pc[t] = "merge" /\ pc' = pc /\ cur' = cur /\ mesh' = mesh
    BY <1>5 DEF MergeNeighbor, callVars
  <2>2. cur[t] \in Vert /\ \A v \in Vert : Lower(v)' = Lower(v)
    BY <2>1, HoldsFacts, SameMesh
  <2>3. Lower(cur[t])' = Lower(cur[t])
    BY <2>1, <2>2
  <2> QED BY <2>1, <2>3 DEF Holds, Merged, find, Absorbed, Parked
<1>6. CASE CloseArcs(t)
  <2>1. pc[t] = "merge" /\ todo[t] = {} /\ pc'[t] = "decide" /\ startUF' = startUF
    BY <1>1, <1>6 DEF CloseArcs, Goto, callVars, Types
  <2>2. PICK n \in Lower(cur[t]) : Belongs(n, Rep(t))
    BY <2>1, HasBelow
  <2>3. \A m \in Lower(cur[t]) : comp[ufs[m]] = comp[ufs[cur[t]]]
    BY <2>1 DEF GInv, AtSaddle, SaddleOf
  <2>4. Holds(t) \subseteq {Rep(t)}
    BY <2>1, <2>2, <2>3 DEF Holds, Merged, find, Belongs
  <2> QED BY <2>1, <2>4 DEF Holds, Rep, Absorbed, Parked
<1>7. CASE Restart(t)
  <2>1. /\ pc[t] = "decide" /\ pc'[t] \in {"start", "stopped"} /\ startUF' = startUF
        /\ isLast' = isLast
    BY <1>1, <1>7 DEF Restart, Goto, visitVars, Types
  <2>2. isLast[t]
    BY <2>1 DEF GInv, AtSaddle, SaddleOf
  <2> QED BY <2>1, <2>2 DEF Holds, Rep, Absorbed, Parked
<1>8. CASE CloseRoot(t)
  <2>1. /\ pc[t] = "pop" /\ pc'[t] = "stopped" /\ startUF' = startUF
        /\ cur' = cur /\ isSaddle' = isSaddle
    BY <1>1, <1>8 DEF CloseRoot, Goto, callVars, visitVars, Types
  <2>2. ~isSaddle[t]
    <3>1. seenFirst[t]
      <4> SUFFICES ASSUME ~seenFirst[t] PROVE FALSE
        OBVIOUS
      <4>1. /\ startVert[t] \in Vert /\ vert2tree[startVert[t]] = IsNode
            /\ heap[startUF[t]][startVert[t]] > 0
        BY <1>1, <2>1 DEF GInv, Arcs, ArcOf, Types
      <4>2. startVert[t] \in Ahead(t)
        BY <2>1, <4>1, AheadFacts DEF Seen, OnArc
      <4> QED BY <1>8, <4>2 DEF CloseRoot
    <3> QED BY <2>1, <3>1 DEF GInv, Arcs, ArcOf
  <2> QED BY <2>1, <2>2 DEF Holds, Rep, Absorbed, Parked
<1> QED BY <1>2, <1>3, <1>4, <1>5, <1>6, <1>7, <1>8 DEF TaskStep

(* The vertex a task publishes has a set it meets below, or is a leaf.     *)
LEMMA PublishesMet ==
    ASSUME Types, GInv, NEW t \in Leaves, Publish(t), Lower(cur[t]) # {}
    PROVE  \E n \in Lower(cur[t]) : Belongs(n, Rep(t))
<1>1. pc[t] = "publish"
  BY DEF Publish
<1>2. CASE isSaddle[t]
  <2>1. Parked(t) \/ Claims(t)
    BY <1>1, <1>2 DEF Parked, Claims
  <2> QED BY <2>1, HasBelow
<1>3. CASE ~isSaddle[t]
  <2>1. ~Absorbed(t)
    BY <1>3 DEF Absorbed, Parked
  <2>2. Own(t) = Lower(cur[t])
    BY <1>1, <1>3, <2>1 DEF GInv, Visits, VisitOf, Captured
  <2> QED BY <2>2 DEF Own
<1> QED BY <1>2, <1>3

(* The set of a saddle is still one of those that meet there.              *)
LEMMA MetStep ==
    ASSUME Types, GInv, NEW t \in Leaves, TaskStep(t), ~Overtake,
           NEW o \in Leaves, MetOf(o)
    PROVE  MetOf(o)'
<1>1. t \in Vert /\ o \in Vert /\ \A v \in Vert : Lower(v)' = Lower(v)
  BY LeavesFacts, StepFrame
<1> SUFFICES ASSUME pc'[o] = "merge"
             PROVE  \E n \in Lower(cur[o])' : comp'[ufs'[n]] = comp'[ufs'[cur'[o]]]
  BY DEF MetOf
<1>2. CASE OpenNode(t) /\ isLast[t] /\ o = t
  <2>1. cur[t] \in Vert /\ cur' = cur /\ comp' = comp /\ ufs' = ufs
    BY <1>2, CloseKeeps DEF OpenNode, callVars, ufVars
  <2>2. comp[ufs[cur[t]]] \in Holds(t)'
    BY <1>2, <2>1 DEF Holds, Merged, find
  <2>3. PICK p \in Leaves : /\ cur[p] = cur[t] /\ comp[ufs[cur[t]]] = Rep(p)
                            /\ p = t \/ Parked(p)
    BY <1>2, <2>2, CloseKeeps
  <2>4. isSaddle[t]
    BY <1>2 DEF OpenNode, Captured, Absorbed, Parked, GInv, Visits, VisitOf
  <2>5. Parked(p) \/ Claims(p)
    BY <1>2, <2>3, <2>4 DEF Claims, OpenNode
  <2>6. PICK n \in Lower(cur[t]) : Belongs(n, Rep(p))
    BY <2>3, <2>5, HasBelow
  <2> QED BY <1>1, <1>2, <2>1, <2>3, <2>6 DEF Belongs
<1>3. CASE ~(OpenNode(t) /\ isLast[t] /\ o = t)
  <2>1. pc[o] = "merge" /\ cur'[o] = cur[o]
    <3>1. CASE o # t
      BY <1>1, <3>1, StepFrame
    <3>2. CASE o = t
      <4>1. OpenNode(t) => pc'[t] = "retire"
        BY <1>1, <1>3, <3>2 DEF OpenNode, Goto, Types
      <4>2. Publish(t) => pc'[t] \in {"open", "pop"}
        BY <1>1 DEF Publish, Goto, Types
      <4>3. Restart(t) => pc'[t] \in {"stopped", "start"}
        BY <1>1 DEF Restart, Goto, Types
      <4>4. \E n \in Vert : MergeNeighbor(t, n)
        BY <1>1, <3>2, <4>1, <4>2, <4>3 DEF TaskStep, OnlyLeaf, Launch, Start, Visit,
           Capture, CaptureWith, Retire, CloseArcs, CloseRoot, Goto, Types
      <4> QED BY <3>2, <4>4 DEF MergeNeighbor, callVars
    <3> QED BY <3>1, <3>2
  <2>2. PICK v \in Vert : v = cur[o]
    BY <2>1, HoldsFacts
  <2>3. /\ Lower(v)' = Lower(v) /\ Lower(v) \subseteq Vert /\ \A n \in Lower(v) : n # v
        /\ vert2tree[v] # Null /\ ufs[v] # Null /\ \A n \in Lower(v) : ufs[n] # Null
    <3>1. Lower(v)' = Lower(v) /\ Lower(v) \subseteq Vert /\ \A n \in Lower(v) : n < v
      BY <1>1, LowerFacts DEF Types
    <3>2. vert2tree[v] # Null /\ ufs[v] # Null
      BY <2>1, <2>2, VertFacts DEF GInv, AtSaddle, SaddleOf
    <3> QED BY <2>1, <2>2, <3>1, <3>2, HoldsFacts, VertFacts
  <2>4. PICK n \in Lower(v) : comp[ufs[n]] = comp[ufs[v]]
    BY <2>1, <2>2 DEF MetOf
  <2> SUFFICES \E m \in Lower(v) : comp'[ufs'[m]] = comp'[ufs'[v]]
    BY <2>1, <2>2, <2>3
  <2>5. CASE OnlyLeaf(t) \/ Launch(t)
    <3>1. comp' = comp /\ ufs[t] = Null /\ ufs' = [ufs EXCEPT ![t] = t]
      BY <2>5 DEF OnlyLeaf, Launch, ufVars, GInv, Arcs, ArcOf
    <3>2. ufs'[n] = ufs[n] /\ ufs'[v] = ufs[v]
      BY <1>1, <2>3, <3>1 DEF Types
    <3> QED BY <2>4, <3>1, <3>2
  <2>6. CASE Publish(t)
    <3>1. PICK x \in Vert : x = cur[t]
      BY <2>6 DEF Publish, GInv, Visits, VisitOf, AtSaddle, SaddleOf, Parked, Captured, Absorbed
    <3>2. comp' = comp /\ ufs' = [ufs EXCEPT ![x] = startUF[t]]
      BY <2>6, <3>1 DEF Publish, ufVars
    <3>3. CASE \A y \in Vert : ufs[y] # Null => comp'[ufs'[y]] = comp[ufs[y]]
      BY <2>3, <2>4, <3>3
    <3>4. CASE x \notin Lower(v)
      <4>1. CASE x # v
        BY <2>3, <2>4, <3>2, <3>4, <4>1 DEF Types
      <4>2. CASE x = v
        <5>1. PICK m \in Lower(v) : Belongs(m, Rep(t))
          BY <2>4, <2>6, <3>1, <4>2, PublishesMet
        <5>2. ufs'[v] = startUF[t] /\ ufs'[m] = ufs[m]
          BY <2>3, <3>2, <4>2 DEF Types
        <5> QED BY <3>2, <5>1, <5>2 DEF Belongs, Rep
      <4> QED BY <4>1, <4>2
    <3> QED BY <2>3, <2>6, <3>1, <3>3, <3>4, PublishKeeps
  <2>7. ASSUME NEW m \in Vert, MergeNeighbor(t, m), comp[ufs[cur[t]]] # comp[ufs[m]]
        PROVE  comp'[ufs'[n]] = comp'[ufs'[v]]
    <3>1. PICK w \in Vert, l \in Vert : United(t, w, l)
      BY <2>7, UniteKeeps
    <3> QED BY <2>3, <2>4, <3>1 DEF United
  <2>8. CASE comp' = comp /\ ufs' = ufs
    BY <2>4, <2>8
  <2> QED BY <2>5, <2>6, <2>7, <2>8 DEF TaskStep, Start, Visit, Capture, CaptureWith, OpenNode,
     Retire, MergeNeighbor, CloseArcs, Restart, CloseRoot, ufVars, find
<1> QED BY <1>2, <1>3

(* A leaf that gets its set holds it, and disturbs no other.               *)
LEMMA LaunchHeld ==
    ASSUME Types, GInv, NEW t \in Leaves, OnlyLeaf(t) \/ Launch(t), Held
    PROVE  Held'
<1>1. t \in Vert /\ Leaves' = Leaves /\ TaskStep(t) /\ \A v \in Vert : Lower(v)' = Lower(v)
  BY LeavesFacts, StepFrame DEF TaskStep
<1>2. /\ pc[t] = "waiting" /\ pc'[t] \in {"start", "stopped"} /\ ~isSaddle[t]
      /\ ufs[t] = Null /\ ufs' = [ufs EXCEPT ![t] = t] /\ startUF[t] = t
      /\ comp' = comp /\ vert2tree' = vert2tree /\ isSaddle' = isSaddle
      /\ startUF' = startUF
  BY <1>1 DEF OnlyLeaf, Launch, Goto, ufVars, segmVars, visitVars, callVars, GInv, Arcs,
     ArcOf, Types
<1>3. ASSUME NEW o \in Leaves, ~Absorbed(o) PROVE ~Absorbed(o)' /\ Holds(o)' = Holds(o)
  <2>1. CASE o = t
    BY <1>2, <2>1 DEF Absorbed, Parked, Holds, Rep
  <2>2. CASE o # t
    <3>1. /\ pc'[o] = pc[o] /\ cur'[o] = cur[o] /\ Parked(o)' = Parked(o)
          /\ startUF'[o] = startUF[o]
      BY <1>1, <2>2, OthersFrame
    <3>2. CASE pc[o] # "merge"
      BY <1>2, <1>3, <3>1, <3>2 DEF Absorbed, Holds, Rep
    <3>3. CASE pc[o] = "merge"
      <4>1. PICK v \in Vert : v = cur[o]
        BY <3>3, HoldsFacts
      <4>2. /\ Lower(v) \subseteq Vert /\ Lower(v)' = Lower(v)
            /\ ufs[v] # Null /\ \A n \in Lower(v) : ufs[n] # Null
        BY <1>1, <3>3, <4>1, HoldsFacts, LowerFacts DEF GInv, AtSaddle, SaddleOf, Types
      <4>3. ufs'[v] = ufs[v] /\ \A n \in Lower(v) : ufs'[n] = ufs[n]
        BY <1>2, <4>2 DEF Types
      <4>4. Merged(o)' = Merged(o)
        BY <1>2, <3>1, <4>1, <4>2, <4>3 DEF Merged, find
      <4> QED BY <1>2, <1>3, <3>1, <3>3, <4>4 DEF Absorbed, Holds
    <3> QED BY <3>2, <3>3
  <2> QED BY <2>1, <2>2
<1> SUFFICES ASSUME NEW v \in Vert, ufs'[v] # Null
             PROVE  \E o \in Leaves : ~Absorbed(o)' /\ comp'[ufs'[v]] \in Holds(o)'
  BY <1>1 DEF Held
<1>4. CASE v = t
  <2>1. ~Absorbed(t) /\ comp'[ufs'[v]] \in Holds(t)
    BY <1>1, <1>2, <1>4 DEF Absorbed, Parked, Holds, Rep, Types
  <2> QED BY <1>3, <2>1
<1>5. CASE v # t
  <2>1. ufs'[v] = ufs[v]
    BY <1>2, <1>5 DEF Types
  <2> QED BY <1>2, <1>3, <2>1 DEF Held
<1> QED BY <1>4, <1>5

(* The sets that meet at a saddle are handed to its last visitor.          *)
LEMMA CloseHeld ==
    ASSUME Types, GInv, NEW t \in Leaves, OpenNode(t), isLast[t], Held
    PROVE  Held'
<1>1. t \in Vert /\ Leaves' = Leaves /\ TaskStep(t) /\ \A v \in Vert : Lower(v)' = Lower(v)
  BY LeavesFacts, StepFrame DEF TaskStep
<1>2. /\ pc[t] = "open" /\ pc'[t] = "merge" /\ cur' = cur /\ comp' = comp /\ ufs' = ufs
      /\ cur[t] \in Vert
  BY <1>1, CloseKeeps DEF OpenNode, Goto, callVars, ufVars, Types
<1>3. ~Absorbed(t)' /\ \A n \in Lower(cur[t]) : comp[ufs[n]] \in Holds(t)'
  <2>1. Lower(cur[t])' = Lower(cur[t])
    BY <1>1, <1>2
  <2> QED BY <1>2, <2>1 DEF Absorbed, Parked, Holds, Merged, find
<1>4. ASSUME NEW o \in Leaves, ~Absorbed(o), Parked(o) \/ Claims(o), cur[o] = cur[t]
      PROVE  Holds(o) \subseteq Holds(t)'
  <2>1. Holds(o) = {Rep(o)}
    BY <1>4 DEF Holds, Parked, Claims
  <2>2. PICK n \in Lower(cur[t]) : Belongs(n, Rep(o))
    BY <1>4, HasBelow
  <2> QED BY <1>3, <2>1, <2>2 DEF Belongs
<1>5. ASSUME NEW o \in Leaves, ~Absorbed(o), NEW u \in Holds(o)
      PROVE  \E p \in Leaves : ~Absorbed(p)' /\ u \in Holds(p)'
  <2>1. CASE o = t
    <3>1. Claims(t)
      BY <1>2, <1>5, <2>1 DEF Claims, GInv, Visits, VisitOf, Captured
    <3> QED BY <1>3, <1>4, <1>5, <2>1, <3>1
  <2>2. CASE o # t
    <3>1. /\ Absorbed(o)' <=> (Absorbed(o) \/ (Parked(o) /\ cur[o] = cur[t]))
          /\ Holds(o)' = Holds(o)
      BY <2>2, CloseKeeps
    <3> QED BY <1>3, <1>4, <1>5, <3>1
  <2> QED BY <2>1, <2>2
<1> QED BY <1>1, <1>2, <1>5 DEF Held

(* Nor does a task lose a set when another publishes its vertex.           *)
LEMMA PublishHeld ==
    ASSUME Types, GInv, NEW t \in Leaves, Publish(t), ~Overtake, Held,
           \A o \in Leaves : MetOf(o)
    PROVE  Held'
<1>1. t \in Vert /\ Leaves' = Leaves /\ TaskStep(t) /\ \A v \in Vert : Lower(v)' = Lower(v)
  BY LeavesFacts, StepFrame DEF TaskStep
<1>2. PICK x \in Vert : x = cur[t]
  BY DEF Publish, GInv, Visits, VisitOf, AtSaddle, SaddleOf, Parked, Captured, Absorbed
<1>3. /\ comp' = comp /\ ufs' = [ufs EXCEPT ![x] = startUF[t]] /\ pc[t] = "publish"
      /\ pc'[t] \in {"open", "pop"}
  BY <1>1, <1>2 DEF Publish, ufVars, Goto, Types
<1>4. ASSUME NEW o \in Leaves, ~Absorbed(o) PROVE ~Absorbed(o)' /\ Holds(o) \subseteq Holds(o)'
  <2>1. Absorbed(o)' = Absorbed(o) /\ Rep(o)' = Rep(o)
    BY PublishKeeps
  <2>2. CASE o = t
    BY <1>3, <1>4, <2>1, <2>2 DEF Holds
  <2>3. CASE o # t
    <3>1. pc'[o] = pc[o] /\ cur'[o] = cur[o]
      BY <1>1, <2>3, OthersFrame
    <3>2. CASE pc[o] # "merge"
      BY <1>4, <2>1, <3>1, <3>2 DEF Holds
    <3>3. CASE pc[o] = "merge"
      <4>1. PICK v \in Vert : v = cur[o]
        BY <3>3, HoldsFacts
      <4>2. /\ Lower(v) \subseteq Vert /\ Lower(v)' = Lower(v) /\ vert2tree[v] # Null
            /\ \A n \in Lower(v) : ufs[n] # Null
        <5>1. vert2tree[v] # Null
          BY <3>3, <4>1, VertFacts DEF GInv, AtSaddle, SaddleOf
        <5> QED BY <1>1, <3>3, <4>1, <5>1, HoldsFacts, LowerFacts DEF Types
      <4>3. Holds(o) = {comp[ufs[n]] : n \in Lower(v)}
        BY <3>3, <4>1 DEF MetOf, Holds, Merged, find
      <4>4. \A n \in Lower(v) : comp'[ufs'[n]] = comp[ufs[n]]
        <5>1. CASE \A y \in Vert : ufs[y] # Null => comp'[ufs'[y]] = comp[ufs[y]]
          BY <4>2, <5>1
        <5>2. CASE x \notin Lower(v)
          BY <1>3, <4>2, <5>2 DEF Types
        <5> QED BY <1>2, <4>2, <5>1, <5>2, PublishKeeps
      <4>5. {comp'[ufs'[n]] : n \in Lower(v)} \subseteq Holds(o)'
        BY <3>1, <3>3, <4>1, <4>2 DEF Holds, Merged, find
      <4> QED BY <1>4, <2>1, <4>3, <4>4, <4>5
    <3> QED BY <3>2, <3>3
  <2> QED BY <2>2, <2>3
<1> SUFFICES ASSUME NEW v \in Vert, ufs'[v] # Null
             PROVE  \E o \in Leaves : ~Absorbed(o)' /\ comp'[ufs'[v]] \in Holds(o)'
  BY <1>1 DEF Held
<1>5. CASE v # x
  <2>1. ufs'[v] = ufs[v]
    BY <1>3, <1>5 DEF Types
  <2> QED BY <1>3, <1>4, <2>1 DEF Held
<1>6. CASE v = x
  <2>1. comp'[ufs'[v]] = Rep(t)
    BY <1>3, <1>6 DEF Rep, Types
  <2>2. CASE ~Absorbed(t)
    BY <1>4, <2>1, <2>2, HoldsFacts
  <2>3. CASE Absorbed(t)
    <3>1. PICK n \in Lower(x) : Belongs(n, Rep(t))
      BY <1>2, <2>3, HasBelow DEF Absorbed
    <3>2. n \in Vert
      BY <3>1, LowerFacts DEF Types
    <3> QED BY <1>4, <2>1, <3>1, <3>2 DEF Held, Belongs
  <2> QED BY <2>2, <2>3
<1> QED BY <1>5, <1>6

(* The union of two sets is in the hands of the task that united them.     *)
LEMMA UniteHeld ==
    ASSUME Types, GInv, NEW t \in Leaves, NEW n \in Vert, MergeNeighbor(t, n),
           comp[ufs[cur[t]]] # comp[ufs[n]], Held
    PROVE  Held'
<1>1. Leaves' = Leaves /\ TaskStep(t) /\ \A v \in Vert : Lower(v)' = Lower(v)
  BY LeavesFacts, StepFrame DEF TaskStep
<1>2. pc[t] = "merge" /\ pc' = pc /\ cur' = cur
  BY DEF MergeNeighbor, callVars
<1>3. PICK w \in Vert, l \in Vert : United(t, w, l)
  BY UniteKeeps
<1>4. /\ w \in Holds(t) /\ w # l
      /\ \A x \in Vert :
            /\ ufs'[x] # Null <=> ufs[x] # Null
            /\ ufs[x] # Null =>
                  comp'[ufs'[x]] = IF comp[ufs[x]] = l THEN w ELSE comp[ufs[x]]
      /\ \A o \in Leaves : Absorbed(o)' = Absorbed(o)
      /\ \A o \in Leaves : o # t /\ ~Absorbed(o) =>
            w \notin Holds(o) /\ l \notin Holds(o) /\ Holds(o)' = Holds(o)
  BY <1>3 DEF United
<1>5. PICK v \in Vert : v = cur[t]
  BY <1>2, HoldsFacts
<1>6. /\ Lower(v) \subseteq Vert /\ Lower(v)' = Lower(v) /\ ufs[v] # Null
      /\ \A m \in Lower(v) : ufs[m] # Null
  BY <1>1, <1>2, <1>5, HoldsFacts, LowerFacts DEF GInv, AtSaddle, SaddleOf, Types
<1>7. ASSUME NEW u \in Holds(t), u # l PROVE u \in Holds(t)'
  <2>1. PICK m \in Lower(v) \cup {v} : u = comp[ufs[m]]
    BY <1>2, <1>5 DEF Holds, Merged, find
  <2>2. u = comp'[ufs'[m]]
    BY <1>4, <1>6, <1>7, <2>1
  <2> QED BY <1>2, <1>5, <1>6, <2>1, <2>2 DEF Holds, Merged, find
<1>8. ~Absorbed(t) /\ w \in Holds(t)'
  BY <1>2, <1>4, <1>7 DEF Absorbed, Parked
<1> SUFFICES ASSUME NEW x \in Vert, ufs'[x] # Null
             PROVE  \E o \in Leaves : ~Absorbed(o)' /\ comp'[ufs'[x]] \in Holds(o)'
  BY <1>1 DEF Held
<1>9. PICK o \in Leaves : ~Absorbed(o) /\ comp[ufs[x]] \in Holds(o)
  BY <1>4 DEF Held
<1>10. CASE comp[ufs[x]] = l
  BY <1>4, <1>8, <1>10
<1>11. CASE comp[ufs[x]] # l
  BY <1>4, <1>7, <1>9, <1>11
<1> QED BY <1>10, <1>11

(* Every set stays in the hands of a task.                                 *)
LEMMA HeldStep ==
    ASSUME Types, GInv, NEW t \in Leaves, TaskStep(t), ~Overtake, Held,
           \A o \in Leaves : MetOf(o)
    PROVE  Held'
<1>1. CASE OnlyLeaf(t) \/ Launch(t)
  BY <1>1, LaunchHeld
<1>2. CASE OpenNode(t) /\ isLast[t]
  BY <1>2, CloseHeld
<1>3. CASE Publish(t)
  BY <1>3, PublishHeld
<1>4. ASSUME NEW n \in Vert, MergeNeighbor(t, n), comp[ufs[cur[t]]] # comp[ufs[n]]
      PROVE  Held'
  BY <1>4, UniteHeld
<1>5. CASE /\ comp' = comp /\ ufs' = ufs /\ ~OnlyLeaf(t) /\ ~Launch(t) /\ ~Publish(t)
           /\ ~(OpenNode(t) /\ isLast[t])
  <2>1. ASSUME NEW o \in Leaves, ~Absorbed(o)
        PROVE  ~Absorbed(o)' /\ Holds(o) \subseteq Holds(o)'
    <3>1. CASE o = t
      BY <1>5, <2>1, <3>1, OwnHeld
    <3>2. CASE o # t
      <4>1. Parked(o)' = Parked(o) /\ cur'[o] = cur[o] /\ Holds(o)' = Holds(o)
        BY <1>5, <3>2, OthersFrame, SameSets
      <4>2. Parked(o) => cur[o] \in Vert
        BY HasBelow
      <4>3. Parked(o) => (vert2tree'[cur[o]] = Null <=> vert2tree[cur[o]] = Null)
        BY <1>5, <4>2, SettledBy
      <4> QED BY <2>1, <4>1, <4>3 DEF Absorbed
    <3> QED BY <3>1, <3>2
  <2>2. Leaves' = Leaves
    BY StepFrame
  <2> QED BY <1>5, <2>1, <2>2 DEF Held
<1>6. OnlyLeaf(t) \/ Launch(t) \/ Publish(t) \/ (comp' = comp /\ ufs' = ufs)
      \/ \E n \in Vert : MergeNeighbor(t, n) /\ comp[ufs[cur[t]]] # comp[ufs[n]]
  BY DEF TaskStep, Start, Visit, Capture, CaptureWith, OpenNode,
     Retire, MergeNeighbor, CloseArcs, Restart, CloseRoot, ufVars, find
<1> QED BY <1>1, <1>2, <1>3, <1>4, <1>5, <1>6
-------------------------------------------------------------------------------
(***************************************************************************)
(* The leaves, the claims and the count of the active tasks.               *)
(***************************************************************************)
(* A vertex that has a set keeps one.                                      *)
LEMMA UfsKept ==
    ASSUME Types, GInv, NEW t \in Leaves, TaskStep(t), NEW x \in Vert, ufs[x] # Null
    PROVE  ufs'[x] # Null
<1>1. t \in Vert /\ Null \notin Vert
  BY LeavesFacts, VertFacts
<1>2. CASE OnlyLeaf(t) \/ Launch(t)
  BY <1>1, <1>2 DEF OnlyLeaf, Launch, Types
<1>3. CASE Publish(t)
  <2>1. ufs' = [ufs EXCEPT ![cur[t]] = startUF[t]] /\ startUF[t] \in Vert
    BY <1>1, <1>3 DEF Publish, Types
  <2> QED BY <1>1, <2>1 DEF Types
<1>4. ASSUME NEW n \in Vert, MergeNeighbor(t, n), comp[ufs[cur[t]]] # comp[ufs[n]]
      PROVE  ufs'[x] # Null
  BY <1>4, UniteKeeps DEF United
<1> QED BY <1>2, <1>3, <1>4 DEF TaskStep, Start, Visit, Capture, CaptureWith, OpenNode,
   Retire, MergeNeighbor, CloseArcs, Restart, CloseRoot, find

(* A leaf gets its set from the step that launches its task.               *)
LEMMA LeafStep ==
    ASSUME Types, GInv, NEW t \in Leaves, TaskStep(t), NEW o \in Leaves, LeafOf(o)
    PROVE  LeafOf(o)'
<1>1. t \in Vert /\ o \in Vert
  BY LeavesFacts
<1>2. vert2tree'[o] # Null /\ (ufs[o] # Null => ufs'[o] # Null)
  BY <1>1, StepFrame, UfsKept DEF LeafOf
<1>3. CASE o # t
  <2>1. pc'[o] = pc[o]
    BY <1>1, <1>3, StepFrame
  <2> QED BY <1>2, <2>1 DEF LeafOf
<1>4. CASE o = t
  <2>1. CASE OnlyLeaf(t) \/ Launch(t)
    <3>1. ufs'[t] = t /\ pc'[t] \in {"start", "stopped"}
      BY <1>1, <2>1 DEF OnlyLeaf, Launch, Goto, Types
    <3> QED BY <1>1, <1>2, <1>4, <3>1, VertFacts DEF LeafOf
  <2>2. CASE ~(OnlyLeaf(t) \/ Launch(t))
    <3>1. pc[t] # "waiting" /\ pc[t] # "none"
      BY <1>4, <2>2 DEF LeafOf, TaskStep, Start, Visit, Capture, CaptureWith, Publish,
         OpenNode, Retire, MergeNeighbor, CloseArcs, Restart, CloseRoot
    <3>2. pc' = pc \/ \E l \in {"start", "pop", "capture", "publish", "open", "retire",
                                "merge", "decide", "stopped"} : pc' = [pc EXCEPT ![t] = l]
      BY <2>2 DEF TaskStep, Start, Visit, Capture, CaptureWith, Publish,
         OpenNode, Retire, MergeNeighbor, CloseArcs, Restart, CloseRoot, Goto
    <3>3. pc'[t] # "none"
      BY <1>1, <3>1, <3>2 DEF Types
    <3> QED BY <1>2, <1>4, <3>1, <3>3 DEF LeafOf
  <2> QED BY <2>1, <2>2
<1> QED BY <1>3, <1>4

(* LastVisitor loses no claim: the visitor with the last share claims the  *)
(* vertex, and only settling it ends the claim.                            *)
LEMMA ClaimedStep ==
    ASSUME Types, GInv, LastOfRegular, Ended, Types', GInv', Ended',
           NEW t \in Leaves, TaskStep(t), ~Overtake, Claimed,
           \A o \in Leaves : LeafOf(o)
    PROVE  Claimed'
<1> SUFFICES ASSUME NEW v \in Vert, vert2tree'[v] = Null, Accounted(v)' = Lower(v)'
             PROVE  Claiming(v)' # {}
  BY DEF Claimed
<1>1. Abstract(v) /\ Abstract(v)'
  BY AbstractState, AbstractStateNext
<1>2. Lower(v)' = Lower(v) /\ vert2tree[v] = Null
  BY StepFrame
<1>3. Lower(v) # {}
  BY <1>2, LeavesFacts DEF LeafOf
<1>4. Pending(v)' = {}
  BY <1>1, <1>2, <1>3 DEF Abstract
<1>5. Claimant(v)' # Null => Claiming(v)' # {}
  BY <1>1 DEF Abstract
<1>6. CASE LV(v)!Stay
  <2>1. Pending(v) = {} /\ Claimant(v)' = Claimant(v)
    BY <1>4, <1>6 DEF LV!Stay
  <2>2. Accounted(v) = Lower(v)
    BY <1>1, <1>2, <1>3, <2>1 DEF Abstract, Counted
  <2>3. Claiming(v) # {}
    BY <1>2, <2>2 DEF Claimed
  <2>4. Claimant(v) # Null
    BY <1>1, <1>2, <1>3, <2>3, MinFacts, VertFacts DEF Abstract
  <2> QED BY <1>5, <2>1, <2>4
<1>7. CASE LV(v)!Arrive
  BY <1>4, <1>5, <1>7 DEF LV!Arrive
<1>8. CASE LV(v)!Settle
  BY <1>8 DEF LV!Settle, Settled
<1> QED BY <1>6, <1>7, <1>8, VisitorStep DEF LV!LVNext

(* activeTasks counts the tasks that have not counted themselves out.      *)
LEMMA CountsOutStep ==
    ASSUME Types, GInv, NEW t \in Leaves, TaskStep(t), CountsOut
    PROVE  CountsOut'
<1>1. t \in Vert /\ Leaves' = Leaves /\ pc[t] # "stopped"
  BY LeavesFacts, StepFrame, TaskPhase
<1>2. \A o \in Leaves : o # t => pc'[o] = pc[o] /\ Parked(o)' = Parked(o)
  BY OthersFrame
<1>3. IsFiniteSet(Leaves) /\ IsFiniteSet(Out) /\ t \notin Out
  BY <1>1, LeavesFacts, FS_Subset DEF Out
<1>4. Cardinality(Leaves) \in Nat /\ Cardinality(Out) \in Nat
  BY <1>3, FS_CardinalityType
<1>5. CASE Retire(t)
  <2>1. pc[t] = "retire" /\ pc'[t] = "stopped" /\ Parked(t) /\ isSaddle' = isSaddle
        /\ isLast' = isLast /\ activeTasks' = activeTasks - 1
    BY <1>1, <1>5 DEF Retire, Goto, visitVars, Types, GInv, AtSaddle, SaddleOf
  <2>2. Out' = Out \cup {t}
    BY <1>1, <1>2, <2>1 DEF Out, Parked
  <2>3. Cardinality(Out') = Cardinality(Out) + 1
    BY <1>3, <2>2, FS_AddElement
  <2> DEFINE c == Cardinality(Out)
             d == Cardinality(Out')
             k == Cardinality(Leaves)
  <2>4. c \in Nat /\ k \in Nat /\ d = c + 1 /\ activeTasks = k - c
    BY <1>4, <2>3 DEF CountsOut
  <2> HIDE DEF c, d, k
  <2>5. activeTasks' = k - d
    BY <2>1, <2>4
  <2> QED BY <1>1, <2>5 DEF c, d, k, CountsOut, Out
<1>6. CASE ~Retire(t)
  <2>1. activeTasks' = activeTasks
    BY <1>6 DEF TaskStep, OnlyLeaf, Launch, Start, Visit, Capture, CaptureWith, Publish,
       OpenNode, MergeNeighbor, CloseArcs, Restart, CloseRoot
  <2>2. ~(pc'[t] = "stopped" /\ Parked(t)')
    <3>1. CASE OnlyLeaf(t)
      <4>1. ~isSaddle[t] /\ isSaddle' = isSaddle
        BY <3>1 DEF OnlyLeaf, visitVars, GInv, Arcs, ArcOf
      <4> QED BY <4>1 DEF Parked
    <3>2. CASE Restart(t)
      <4>1. isLast[t] /\ isLast' = isLast
        BY <3>2 DEF Restart, visitVars, GInv, AtSaddle, SaddleOf
      <4> QED BY <4>1 DEF Parked
    <3>3. CASE CloseRoot(t)
      <4>1. ~Absorbed(t) /\ cur' = cur /\ comp' = comp /\ ufs' = ufs
        BY <3>3 DEF CloseRoot, Absorbed, Parked, callVars, ufVars
      <4>2. ~Absorbed(t)'
        BY <3>3, <4>1, OwnHeld DEF CloseRoot, OpenNode, Publish, OnlyLeaf, Launch
      <4>3. vert2tree'[cur[t]] # Null
        BY <3>3, RootSettled, StepFrame
      <4> QED BY <4>1, <4>2, <4>3 DEF Absorbed
    <3>4. CASE ~OnlyLeaf(t) /\ ~Restart(t) /\ ~CloseRoot(t)
      <4>1. pc' = pc \/ \E l \in {"start", "pop", "capture", "publish", "open", "retire",
                                  "merge", "decide"} : pc' = [pc EXCEPT ![t] = l]
        BY <1>6, <3>4 DEF TaskStep, Launch, Start, Visit, Capture, CaptureWith, Publish,
           OpenNode, MergeNeighbor, CloseArcs, Goto
      <4> QED BY <1>1, <4>1 DEF Types
    <3> QED BY <3>1, <3>2, <3>3, <3>4
  <2>3. Out' = Out
    BY <1>1, <1>2, <2>2 DEF Out
  <2> QED BY <1>1, <2>1, <2>3 DEF CountsOut, Out
<1> QED BY <1>5, <1>6
-------------------------------------------------------------------------------
(***************************************************************************)
(* The invariant of the sweep holds throughout the growth.                 *)
(***************************************************************************)
(* Before a task has moved, each has swept its leaf.                       *)
LEMMA InitSweep == Init => SInv /\ CountsOut
<1> SUFFICES ASSUME Init PROVE SInv /\ CountsOut
  OBVIOUS
<1>1. Types /\ GInv /\ mesh \in Meshes
  BY InitGrowth DEF Init
<1>2. /\ Leaves = {v \in Vert : Lower(v) = {}} /\ IsFiniteSet(Leaves)
      /\ \A t \in Leaves : pc[t] = "waiting" /\ startUF[t] = t /\ startVert[t] = t
      /\ \A t \in Leaves : vert2tree[t] # Null
      /\ \A v \in Vert : /\ ufs[v] = Null /\ propagation[v] = Null
                         /\ vert2tree[v] = Null => v \notin Leaves
  BY LeavesFacts, VertFacts DEF Init
<1>h. \A v, x \in Vert : ~(heap[v][x] > 0)
  <2>1. \A u \in Vert : states[u] = <<>> /\ DOMAIN states[u] = {}
    BY EmptySeq DEF Init
  <2> QED BY <2>1, HeapFacts
<1>3. propagation \in [Vert -> Vert \cup {Null}]
  BY DEF Init
<1>4. \A n \in Vert : \A u : ~Belongs(n, u)
  BY <1>2 DEF Belongs
<1>5. ASSUME NEW t \in Leaves PROVE SweepOf(t)
  <2>1. t \in Vert /\ Top(t) = t /\ Begun(t) = FALSE /\ \A x \in Vert : Lower(x) \subseteq Vert
    BY <1>1, <1>2, LowerFacts DEF Top, Begun
  <2>2. Holds(t) \subseteq Vert
    BY <1>1, HoldsInVert
  <2> SUFFICES ASSUME NEW u \in Holds(t) PROVE Grown(u, t, FALSE)
    BY <2>1 DEF SweepOf
  <2>3. Pushed(u, t, FALSE) /\ Complete(u, t)
    BY <1>2, <1>h, <1>4, <2>1, <2>2 DEF Pushed, Complete
  <2>4. Members(u) = {}
    BY <1>4 DEF Members
  <2>5. Connected(Members(u) \cup {t})
    BY <2>4 DEF Connected
  <2> QED BY <2>3, <2>5 DEF Grown
<1>6. \A t \in Leaves : ScanOf(t) /\ MetOf(t) /\ LeafOf(t)
  BY <1>2 DEF ScanOf, MetOf, LeafOf
<1>7. Held
  BY <1>2 DEF Held
<1>8. Claimed
  <2>1. \A v \in Vert : Accounted(v) = {}
    BY <1>2 DEF Accounted, Captured, Parked
  <2> QED BY <1>2, <2>1 DEF Claimed
<1>9. CountsOut
  <2>1. Out = {}
    BY <1>2 DEF Out
  <2>2. Cardinality(Out) = 0 /\ Cardinality(Leaves) \in Nat
    BY <1>2, <2>1, FS_EmptySet, FS_CardinalityType
  <2>3. activeTasks = Cardinality(Leaves)
    BY DEF Init, NbLeaves
  <2> QED BY <2>2, <2>3 DEF CountsOut
<1> QED BY <1>3, <1>5, <1>6, <1>7, <1>8, <1>9 DEF SInv

(* Every step of a task keeps it.                                          *)
LEMMA SweepStep ==
    ASSUME Types, GInv, LastOfRegular, Ended, Types', GInv', Ended',
           NEW t \in Leaves, TaskStep(t), ~Overtake, SInv
    PROVE  SInv'
<1>1. Leaves' = Leaves
  BY StepFrame
<1>2. /\ propagation \in [Vert -> Vert \cup {Null}] /\ Held /\ Claimed
      /\ \A o \in Leaves : SweepOf(o) /\ ScanOf(o) /\ MetOf(o) /\ LeafOf(o)
  BY DEF SInv
<1>3. propagation' \in [Vert -> Vert \cup {Null}]
  <2>1. CASE Visit(t)
    <3>1. t \in Vert /\ find(find(startUF[t])) \in Vert /\ find(startUF[t]) \in Vert
      BY LeavesFacts DEF find, Types
    <3> QED BY <1>2, <2>1, <3>1 DEF Visit
  <2>2. CASE ~Visit(t)
    <3>1. propagation' = propagation
      BY <2>2 DEF TaskStep, OnlyLeaf, Launch, Start, Capture, CaptureWith, Publish,
         OpenNode, Retire, MergeNeighbor, CloseArcs, Restart, CloseRoot
    <3> QED BY <1>2, <3>1
  <2> QED BY <2>1, <2>2
<1>4. ASSUME NEW o \in Leaves PROVE SweepOf(o)' /\ ScanOf(o)'
  <2>1. CASE o # t
    BY <1>2, <2>1, OthersSweep
  <2>2. CASE o = t /\ Visit(t)
    BY <1>2, <2>2, VisitSweep
  <2>3. CASE o = t /\ ~Visit(t)
    <3>1. SweepOf(t)'
      <4>1. CASE OpenNode(t) /\ isLast[t]
        BY <1>2, <4>1, CloseSweep
      <4>2. ASSUME NEW n \in Vert, MergeNeighbor(t, n), comp[ufs[cur[t]]] # comp[ufs[n]]
            PROVE  SweepOf(t)'
        BY <1>2, <4>2, UniteSweep
      <4>3. CASE \/ OnlyLeaf(t) \/ Launch(t) \/ Start(t) \/ Capture(t) \/ Publish(t)
                 \/ OpenNode(t) /\ ~isLast[t]
                 \/ Retire(t) \/ CloseArcs(t) \/ Restart(t) \/ CloseRoot(t)
                 \/ \E n \in Vert : MergeNeighbor(t, n) /\ comp[ufs[cur[t]]] = comp[ufs[n]]
        BY <1>2, <4>3, IdleSweep
      <4> QED BY <2>3, <4>1, <4>2, <4>3 DEF TaskStep
    <3>2. pc'[t] # "capture"
      <4>1. t \in Vert
        BY LeavesFacts
      <4>2. \/ pc' = pc /\ pc[t] = "merge"
            \/ \E l \in {"start", "pop", "publish", "open", "retire",
                         "merge", "decide", "stopped"} : pc' = [pc EXCEPT ![t] = l]
        BY <2>3 DEF TaskStep, OnlyLeaf, Launch, Start, Capture, CaptureWith, Publish,
           OpenNode, Retire, MergeNeighbor, CloseArcs, Restart, CloseRoot, Goto
      <4> QED BY <4>1, <4>2 DEF Types
    <3> QED BY <2>3, <3>1, <3>2 DEF ScanOf
  <2> QED BY <2>1, <2>2, <2>3
<1>5. \A o \in Leaves : MetOf(o)' /\ LeafOf(o)'
  BY <1>2, MetStep, LeafStep
<1>6. Held' /\ Claimed'
  BY <1>2, HeldStep, ClaimedStep
<1> QED BY <1>1, <1>3, <1>4, <1>5, <1>6 DEF SInv

(* While the tasks rest it holds on.                                       *)
LEMMA SweepStays ==
    ASSUME Types, GInv, SInv, CountsOut, Resting
    PROVE  (SInv /\ CountsOut)'
<1>1. /\ mesh' = mesh /\ phase' = phase /\ comp' = comp /\ heap' = heap /\ ufs' = ufs
      /\ propagation' = propagation /\ vert2tree' = vert2tree
      /\ activeTasks' = activeTasks /\ pc' = pc /\ startVert' = startVert
      /\ startUF' = startUF /\ seenFirst' = seenFirst /\ cur' = cur
      /\ isSaddle' = isSaddle /\ isLast' = isLast
  BY DEF Resting
<1>2. Leaves' = Leaves /\ \A v : Lower(v)' = Lower(v)
  BY <1>1 DEF Leaves, Lower
<1>3. \A o \in Leaves : /\ Parked(o)' = Parked(o) /\ Absorbed(o)' = Absorbed(o)
                        /\ Sweeping(o)' = Sweeping(o) /\ Top(o)' = Top(o)
                        /\ Begun(o)' = Begun(o) /\ Rep(o)' = Rep(o)
                        /\ Captured(o)' = Captured(o)
  BY <1>1 DEF Parked, Absorbed, Sweeping, Top, Begun, Rep, Captured
<1>4. \A n, u : Belongs(n, u)' <=> Belongs(n, u)
  BY <1>1 DEF Belongs
<1>5. \A u, top : /\ Pushed(u, top, TRUE)' <=> Pushed(u, top, TRUE)
                  /\ Pushed(u, top, FALSE)' <=> Pushed(u, top, FALSE)
                  /\ Complete(u, top)' <=> Complete(u, top)
  BY <1>1, <1>2, <1>4 DEF Pushed, Complete
<1>6. ASSUME NEW S, Connected(S) PROVE Connected(S)'
  BY <1>1, <1>6 DEF Connected
<1>7. \A u : Members(u)' = Members(u)
  BY <1>4 DEF Members
<1>8. ASSUME NEW u, NEW top, NEW b \in BOOLEAN, Grown(u, top, b)
      PROVE  Grown(u, top, b)'
  <2> DEFINE S == Members(u) \cup {top}
  <2>1. S' = S /\ Connected(S)
    BY <1>7, <1>8 DEF Grown
  <2> HIDE DEF S
  <2>2. Connected(S)'
    BY <1>6, <2>1 DEF Connected
  <2>3. Pushed(u, top, b)' /\ Complete(u, top)'
    BY <1>5, <1>8 DEF Grown
  <2> QED BY <2>2, <2>3 DEF S, Grown
<1>9. ASSUME NEW o \in Leaves PROVE (SweepOf(o) /\ ScanOf(o) /\ MetOf(o) /\ LeafOf(o))'
  <2>1. Holds(o)' = Holds(o)
    BY <1>1, <1>2, <1>3 DEF Holds, Merged, find
  <2>2. SweepOf(o) /\ ScanOf(o) /\ MetOf(o) /\ LeafOf(o)
    BY DEF SInv
  <2>3. SweepOf(o)'
    <3> SUFFICES ASSUME Sweeping(o)', NEW u \in Holds(o)'
                 PROVE  Grown(u, Top(o), Begun(o))'
      BY DEF SweepOf
    <3>1. PICK b \in BOOLEAN : b = Begun(o)
      BY DEF Begun
    <3>2. Grown(u, Top(o), b)
      BY <1>3, <2>1, <2>2, <3>1 DEF SweepOf
    <3>3. PICK top : top = Top(o)
      OBVIOUS
    <3>4. Grown(u, top, b)'
      BY <1>8, <3>2, <3>3
    <3>5. Begun(o)' = b /\ Top(o)' = top
      BY <1>3, <3>1, <3>3
    <3> QED BY <3>4, <3>5 DEF Grown, Pushed, Complete
  <2>4. ScanOf(o)'
    <3> SUFFICES ASSUME pc[o] = "capture", cur[o] # startVert[o]
                 PROVE  (cur[o] \notin Members(Rep(o)) /\ Connected(Members(Rep(o))))'
      BY <1>1 DEF ScanOf
    <3> DEFINE S == Members(Rep(o))
    <3>1. S' = S /\ cur[o] \notin S /\ Connected(S)
      BY <1>3, <1>4, <2>2 DEF ScanOf, Members
    <3> HIDE DEF S
    <3>2. Connected(S)' /\ cur'[o] \notin S'
      BY <1>1, <3>1 DEF Connected
    <3> QED BY <3>2 DEF S
  <2>5. MetOf(o)' /\ LeafOf(o)'
    BY <1>1, <1>2, <2>2 DEF MetOf, LeafOf
  <2> QED BY <2>3, <2>4, <2>5
<1>10. Held'
  <2>1. \A o \in Leaves : Holds(o)' = Holds(o) /\ Absorbed(o)' = Absorbed(o)
    BY <1>1, <1>2, <1>3 DEF Holds, Merged, find
  <2> QED BY <1>1, <1>2, <2>1 DEF SInv, Held
<1>11. Claimed'
  <2>1. \A v \in Vert : Accounted(v)' = Accounted(v) /\ Claiming(v)' = Claiming(v)
    BY <1>1, <1>2, <1>3, <1>4 DEF Accounted, Claiming
  <2> QED BY <1>1, <1>2, <2>1 DEF SInv, Claimed
<1>12. CountsOut'
  <2>1. Out' = Out
    BY <1>1, <1>2, <1>3 DEF Out
  <2> QED BY <1>1, <1>2, <2>1 DEF CountsOut
<1> QED BY <1>1, <1>2, <1>9, <1>10, <1>11, <1>12 DEF SInv

(* What holds of the sweep and of the count, in every state of the growth. *)
SweepInv == phase = "growth" => SInv /\ CountsOut

(* The invariant of the sweep.                                             *)
LEMMA SweepInvariant ==
    ASSUME ~Overtake
    PROVE  Spec => [](IInv /\ VisitInv /\ SweepInv)
<1>1. Init => SweepInv
  BY InitSweep DEF SweepInv
<1>2. IInv /\ VisitInv /\ IInv' /\ VisitInv' /\ SweepInv /\ [Next]_vars => SweepInv'
  <2> SUFFICES ASSUME IInv, VisitInv, IInv', VisitInv', SweepInv, [Next]_vars,
                      phase' = "growth"
               PROVE  (SInv /\ CountsOut)'
    BY DEF SweepInv
  <2>1. /\ Types /\ GInv /\ LastOfRegular /\ Ended /\ SInv /\ CountsOut
        /\ Types' /\ GInv' /\ Ended'
    BY GrowthSteps DEF IInv, VisitInv, SweepInv
  <2>2. ASSUME NEW t \in Leaves, TaskStep(t) PROVE (SInv /\ CountsOut)'
    BY <2>1, <2>2, SweepStep, CountsOutStep
  <2>3. CASE Resting
    BY <2>1, <2>3, SweepStays
  <2> QED BY <2>2, <2>3, GrowthSteps
<1> QED BY <1>1, <1>2, VisitInvariant, PTL DEF Spec
-------------------------------------------------------------------------------
(***************************************************************************)
(* The last active task is alone.                                          *)
(***************************************************************************)
(* Were every task counted out, the least open vertex would have all its   *)
(* neighbours accounted for, and nobody to go on from it.                  *)
LEMMA SomeoneGoesOn ==
    ASSUME Types, GInv, SInv, Leaves # {} PROVE Out # Leaves
<1> SUFFICES ASSUME Out = Leaves PROVE FALSE
  OBVIOUS
<1>1. \A o \in Leaves : pc[o] = "stopped" /\ Parked(o)
  BY DEF Out
<1>2. /\ Held /\ Claimed /\ \A o \in Leaves : SweepOf(o) /\ LeafOf(o)
      /\ \A v \in Vert : Lower(v) \subseteq Vert /\ \A n \in Lower(v) : n < v
  BY LowerFacts DEF SInv, Types
<1>3. \A o \in Leaves : /\ cur[o] \in Vert /\ Holds(o) = {Rep(o)} /\ Top(o) = cur[o]
                        /\ ~Absorbed(o) => vert2tree[cur[o]] = Null /\ Sweeping(o)
  BY <1>1, HasBelow DEF Holds, Top, Absorbed, Sweeping
<1> DEFINE Open == {v \in Vert : vert2tree[v] = Null}
<1>4. Open # {}
  <2>1. PICK l \in Leaves : TRUE
    OBVIOUS
  <2>2. l \in Vert /\ ufs[l] # Null
    BY <1>1, <1>2, LeavesFacts DEF LeafOf
  <2>3. PICK o \in Leaves : ~Absorbed(o)
    BY <1>2, <2>2 DEF Held
  <2> QED BY <1>3, <2>3
<1>5. PICK v \in Open : \A x \in Open : v <= x
  <2>1. Open \in SUBSET Vert
    OBVIOUS
  <2> HIDE DEF Open
  <2> QED BY <1>4, <2>1, MinFacts
<1>6. v \in Vert /\ v \in Nat /\ Vert \subseteq Nat
  BY VertFacts
<1>7. ASSUME NEW n \in Lower(v) PROVE n \in Accounted(v)
  <2>1. n \in Vert /\ n < v /\ vert2tree[n] # Null
    <3>1. n \in Vert /\ n < v /\ n \in Nat
      BY <1>2, <1>6, <1>7
    <3>2. n \notin Open
      BY <1>5, <1>6, <3>1
    <3> QED BY <3>1, <3>2
  <2>2. ufs[n] # Null
    <3>1. CASE n \in Leaves
      BY <1>1, <1>2, <3>1 DEF LeafOf
    <3>2. CASE n \notin Leaves
      <4>1. PICK m \in Lower(n) : TRUE
        BY <2>1, <3>2, LeavesFacts
      <4> QED BY <2>1, <4>1 DEF GInv, LowerClosed
    <3> QED BY <3>1, <3>2
  <2>3. PICK o \in Leaves : ~Absorbed(o) /\ comp[ufs[n]] = Rep(o)
    BY <1>2, <1>3, <2>1, <2>2 DEF Held
  <2>4. cur[o] = v
    <3>1. cur[o] \in Open /\ cur[o] \in Nat /\ v <= cur[o]
      BY <1>3, <1>5, <1>6, <2>3
    <3>2. CASE v < cur[o]
      <4>1. Complete(Rep(o), cur[o])
        BY <1>2, <1>3, <2>3 DEF SweepOf, Grown
      <4>2. Belongs(v, Rep(o))
        BY <1>6, <2>2, <2>3, <3>2, <4>1 DEF Complete, Belongs
      <4>3. PICK p \in Leaves : cur[p] = v /\ Belongs(v, Rep(p))
        BY <1>6, <4>2 DEF GInv, Published, Belongs
      <4>4. ~Absorbed(p) /\ Rep(p) = Rep(o)
        BY <4>2, <4>3 DEF Absorbed, Belongs
      <4>5. p = o
        BY <1>3, <2>3, <4>4, SoleRep
      <4> QED BY <4>3, <4>5
    <3> QED BY <1>6, <3>1, <3>2
  <2> QED BY <1>1, <2>2, <2>3, <2>4 DEF Accounted, Captured, Belongs
<1>8. Accounted(v) = Lower(v)
  BY <1>7 DEF Accounted
<1>9. PICK p \in Leaves : pc[p] \in {"publish", "open"}
  BY <1>2, <1>5, <1>6, <1>8 DEF Claimed, Claiming
<1> QED BY <1>1, <1>9

(* A task that counts one active task has seen all others stop.            *)
LEMMA GrowthAlone ==
    ASSUME Types, GInv, SInv, CountsOut PROVE BackboneAlone
<1>1. IsFiniteSet(Leaves) /\ IsFiniteSet(Out) /\ Out \subseteq Leaves
  BY LeavesFacts, FS_Subset DEF Out
<1>2. Cardinality(Leaves) \in Nat /\ Cardinality(Out) \in Nat
  BY <1>1, FS_CardinalityType
<1>3. ASSUME NbLeaves > 1 PROVE activeTasks > 0
  <2>1. Leaves # {}
    BY <1>3, FS_EmptySet DEF NbLeaves
  <2>2. Out # Leaves
    BY <2>1, SomeoneGoesOn
  <2>3. Cardinality(Out) < Cardinality(Leaves)
    BY <1>1, <1>2, <2>2, FS_Subset
  <2> QED BY <1>2, <2>3 DEF CountsOut
<1>4. ASSUME NEW t \in Leaves, pc[t] = "decide", activeTasks = 1, NEW o \in Leaves, o # t
      PROVE  pc[o] = "stopped"
  <2> DEFINE S == Leaves \ {t}
  <2>1. IsFiniteSet(S) /\ Cardinality(S) = Cardinality(Leaves) - 1 /\ Out \subseteq S
    BY <1>1, <1>4, FS_RemoveElement DEF Out
  <2>2. Cardinality(Out) = Cardinality(S)
    BY <1>2, <1>4, <2>1 DEF CountsOut
  <2>3. Out = S
    BY <2>1, <2>2, FS_Subset
  <2> QED BY <1>4, <2>3 DEF Out
<1> QED BY <1>3, <1>4 DEF BackboneAlone

(* So it is in the growth, in the state after a step too.                  *)
AloneInv == phase = "growth" => BackboneAlone

(* While the growth runs the backbone belongs to a single task or to none. *)
LEMMA Alone == IInv /\ SweepInv => AloneInv
BY GrowthAlone DEF IInv, SweepInv, AloneInv

(* The same of the next state.                                             *)
LEMMA AloneNext == IInv' /\ SweepInv' => AloneInv'
BY Alone, PTL

(* A task that counts one active task when it decides to leave the rest to *)
(* the trunk is the only one that has not stopped, and there is always one *)
(* that never counts itself out.                                           *)
THEOREM BackboneAloneAlways ==
    ASSUME ~Overtake
    PROVE  Spec => []BackboneAlone
<1>1. Init => BackboneAlone
  <2> SUFFICES ASSUME Init PROVE BackboneAlone
    OBVIOUS
  <2> QED BY InitGrowth, InitSweep, GrowthAlone
<1>2. ASSUME IInv, SweepInv, IInv', SweepInv', BackboneAlone, [Next]_vars PROVE BackboneAlone'
  <2>1. CASE phase' = "growth"
    BY <1>2, <2>1, AloneNext DEF AloneInv
  <2>2. CASE phase' # "growth"
    <3>1. mesh' = mesh /\ activeTasks' = activeTasks
      <4>1. CASE UNCHANGED vars
        BY <4>1 DEF vars
      <4>2. CASE Next
        <5>1. ASSUME NEW t \in Vert, TaskStep(t) \/ MergeStates(t) PROVE FALSE
          <6>1. phase = phase' /\ pc[t] \notin {"none", "stopped"}
            BY <5>1, TaskPhase DEF MergeStates
          <6> QED BY <1>2, <2>2, <6>1 DEF IInv
        <5> QED BY <4>2, <5>1 DEF Next, Trunk, BeginTrunk, TrunkClose, TrunkCloseUpTo,
             TrunkArcs, TrunkSegment, Built, growthVars, vars
      <4> QED BY <1>2, <4>1, <4>2
    <3>2. \A o \in Leaves' : pc'[o] \in {"none", "stopped"}
      <4>1. Leaves' \subseteq Vert
        BY DEF Leaves, J!Minima, Vert
      <4> QED BY <1>2, <2>2, <4>1 DEF IInv
    <3>3. NbLeaves' = NbLeaves
      BY <3>1 DEF NbLeaves, Leaves
    <3> QED BY <1>2, <3>1, <3>2, <3>3 DEF BackboneAlone
  <2> QED BY <2>1, <2>2
<1> QED BY <1>1, <1>2, SweepInvariant, PTL DEF Spec
-------------------------------------------------------------------------------
(***************************************************************************)
(* A task holds the sublevel set below the vertex it takes.                *)
(***************************************************************************)
(* The set of a task that takes v is closed in the sublevel set below v.   *)
LEMMA SetClosed ==
    ASSUME Types, GInv, SInv, NEW t \in Leaves, pc[t] = "capture",
           NEW v \in Vert, v = cur[t]
    PROVE  /\ Members(Rep(t)) \ {v} \subseteq 1..(v - 1)
           /\ Closed(mesh, 1..(v - 1), Members(Rep(t)) \ {v})
<1> DEFINE u == Rep(t)
           M == Members(u)
<1>1. /\ ~Absorbed(t) /\ Sweeping(t) /\ Holds(t) = {u} /\ Top(t) = v
      /\ Grown(u, v, Begun(t))
  BY DEF Absorbed, Parked, Sweeping, Holds, Top, SInv, SweepOf
<1>2. /\ mesh \in Meshes /\ N \in Nat /\ Vert \subseteq Nat
      /\ \A x \in Vert : Lower(x) \subseteq Vert /\ \A n \in Lower(x) : n < x
  BY LowerFacts, VertFacts, NAssumption DEF Types
<1>3. \A x \in M : x \in Vert /\ x <= v
  BY <1>1 DEF Members, GInv, Swept, SweptOf
<1>4. M \ {v} \subseteq 1..(v - 1)
  BY <1>2, <1>3 DEF Vert
<1>5. 1..(v - 1) \subseteq Vert
  BY <1>2 DEF Vert
<1>6. ASSUME NEW x \in M \ {v}, NEW y \in 1..(v - 1), {y, x} \in mesh PROVE y \in M \ {v}
  <2>1. x \in Vert /\ y \in Vert /\ y < v /\ y # v /\ Belongs(x, u)
    BY <1>2, <1>4, <1>5 DEF Members
  <2>2. CASE x \in Lower(y)
    BY <1>1, <2>1, <2>2 DEF Grown, Complete, Members
  <2>3. CASE y \in Lower(x)
    <3>1. CASE vert2tree[x] # Null
      <4>1. ufs[y] # Null /\ ufs[x] # Null
        BY <2>1, <2>3, <3>1 DEF GInv, LowerClosed
      <4>2. ASSUME NEW p \in Leaves, pc[p] = "merge", cur[p] = x PROVE FALSE
        <5>1. ~Absorbed(p) /\ u \in Holds(p)
          BY <2>1, <4>2, HoldsFacts DEF Absorbed, Parked, Belongs
        <5>2. p = t
          BY <1>1, <5>1, Sole
        <5> QED BY <4>2, <5>2
      <4>3. comp[ufs[y]] = comp[ufs[x]]
        BY <2>1, <2>3, <3>1, <4>2 DEF GInv, LowerClosed
      <4> QED BY <2>1, <4>1, <4>3 DEF Belongs, Members
    <3>2. CASE vert2tree[x] = Null
      <4>1. PICK p \in Leaves : cur[p] = x /\ Belongs(x, Rep(p))
        BY <2>1, <3>2 DEF GInv, Published, Belongs
      <4>2. ~Absorbed(p) /\ Rep(p) = u
        BY <2>1, <3>2, <4>1 DEF Absorbed, Belongs
      <4>3. p = t
        BY <1>1, <4>2, SoleRep
      <4> QED BY <4>1, <4>3
    <3> QED BY <3>1, <3>2
  <2>4. x \in Lower(y) \/ y \in Lower(x)
    <3>1. {x, y} = {y, x}
      OBVIOUS
    <3>2. x # y /\ (x < y => x \in Lower(y)) /\ (y < x => y \in Lower(x))
      BY <1>2, <1>6, <2>1, <3>1, Edges
    <3>3. x < y \/ y < x
      <4>1. x \in Nat /\ y \in Nat
        BY <1>2, <2>1
      <4> QED BY <3>2, <4>1
    <3> QED BY <3>2, <3>3
  <2> QED BY <2>2, <2>3, <2>4
<1>7. Closed(mesh, 1..(v - 1), M \ {v})
  BY <1>6 DEF Closed
<1> QED BY <1>4, <1>7

(* What TLC checks, from the invariant.                                    *)
LEMMA GrowthSublevel ==
    ASSUME Types, GInv, SInv PROVE GrowsSublevelSet
<1> SUFFICES ASSUME NEW t \in Leaves, pc[t] = "capture"
             PROVE  IF cur[t] = startVert[t]
                    THEN Region(t) \ {cur[t]} = UNION J!LowerComponents(mesh, cur[t])
                    ELSE Region(t) \ {cur[t]} \in J!LowerComponents(mesh, cur[t])
  BY DEF GrowsSublevelSet
<1>1. PICK v \in Vert : v = cur[t]
  BY DEF GInv, Visits, VisitOf, Absorbed, Parked
<1>2. PICK M : M = Members(Rep(t))
  OBVIOUS
<1>3. PICK B : B = 1..(v - 1)
  OBVIOUS
<1>4. Region(t) = M
  BY <1>2 DEF Region, Members, Belongs, Rep, find
<1>5. J!LowerComponents(mesh, v) = {Component(mesh, n, B) : n \in Lower(v)}
  BY <1>3, SameComponent DEF J!LowerComponents, Lower
<1>6. M \ {v} \subseteq B /\ Closed(mesh, B, M \ {v})
  BY <1>1, <1>2, <1>3, SetClosed
<1>7. v \in Nat /\ N \in Nat /\ v \notin B /\ IsFiniteSet(B) /\ Lower(v) \subseteq B
      /\ \A x \in B : x < v /\ x \in Vert
  <2>1. v \in Nat /\ N \in Nat /\ v <= N /\ v >= 1
    BY NAssumption DEF Vert
  <2>2. IsFiniteSet(B)
    BY <1>3, <2>1, FS_Interval
  <2>3. Lower(v) \subseteq Vert /\ \A n \in Lower(v) : n < v
    BY LowerFacts DEF Types
  <2> QED BY <1>3, <2>1, <2>2, <2>3 DEF Vert
<1>8. \A n \in Lower(v) : /\ n \in Component(mesh, n, B) /\ Component(mesh, n, B) \subseteq B
                          /\ Closed(mesh, B, Component(mesh, n, B))
                          /\ n \in M \ {v} => Component(mesh, n, B) \subseteq M \ {v}
  <2> SUFFICES ASSUME NEW n \in Lower(v)
               PROVE  /\ n \in Component(mesh, n, B) /\ Component(mesh, n, B) \subseteq B
                      /\ Closed(mesh, B, Component(mesh, n, B))
                      /\ n \in M \ {v} => Component(mesh, n, B) \subseteq M \ {v}
    OBVIOUS
  <2>1. n \in B /\ IsFiniteSet(B)
    BY <1>7
  <2> QED BY <1>6, <2>1, ComponentFacts
<1>9. Connected(M \cup {v}) /\ \A n \in Own(t) : n \in M
  <2>1. Sweeping(t) /\ Rep(t) \in Holds(t) /\ Top(t) = v
    BY <1>1, HoldsFacts DEF Absorbed, Parked, Sweeping, Top
  <2>2. Grown(Rep(t), v, Begun(t))
    BY <2>1 DEF SInv, SweepOf
  <2> QED BY <1>1, <1>2, <1>7, <2>2 DEF Grown, Own, Members, Vert
<1>10. CASE v # startVert[t]
  <2>1. PICK n \in Lower(v) : n \in Own(t)
    BY <1>1, <1>10 DEF GInv, Visits, VisitOf, Absorbed, Parked, Own
  <2>2. n \in M /\ v \notin M /\ Connected(M)
    BY <1>1, <1>2, <1>9, <1>10, <2>1 DEF SInv, ScanOf
  <2> DEFINE C == Component(mesh, n, B)
  <2>3. n \in C /\ C \subseteq M /\ Closed(mesh, B, C) /\ M \subseteq B
    BY <1>6, <1>7, <1>8, <2>1, <2>2
  <2> HIDE DEF C
  <2>4. C = M
    <3> SUFFICES ASSUME C # M PROVE FALSE
      OBVIOUS
    <3>1. PICK a \in C, b \in M \ C : {a, b} \in mesh
      BY <2>2, <2>3 DEF Connected
    <3>2. {b, a} = {a, b} /\ b \in B
      BY <2>3
    <3> QED BY <2>3, <3>1, <3>2 DEF Closed
  <2> QED BY <1>1, <1>4, <1>5, <1>10, <2>1, <2>2, <2>4 DEF C
<1>11. CASE v = startVert[t]
  <2>1. v \in M /\ Lower(v) \subseteq M
    <3>1. ~isSaddle[t] /\ Own(t) = Lower(v)
      BY <1>1, <1>11 DEF GInv, Visits, VisitOf, Absorbed, Parked
    <3>2. Belongs(v, Rep(t))
      BY <1>11 DEF GInv, Arcs, ArcOf, Sweeping, Absorbed, Parked
    <3> QED BY <1>2, <1>9, <3>1, <3>2 DEF Members
  <2>2. M \cup {v} = M /\ Connected(M)
    <3>1. M \cup {v} = M
      BY <2>1
    <3> QED BY <1>9, <3>1
  <2> DEFINE U == UNION {Component(mesh, n, B) : n \in Lower(v)}
  <2>3. U \subseteq M \ {v}
    BY <1>7, <1>8, <2>1
  <2>4. Closed(mesh, B, U)
    BY <1>8 DEF Closed
  <2>5. Lower(v) \subseteq U
    BY <1>8
  <2> HIDE DEF U
  <2>6. U = M \ {v}
    <3> SUFFICES ASSUME U # M \ {v} PROVE FALSE
      OBVIOUS
    <3>1. U \cup {v} \in SUBSET M /\ U \cup {v} # {} /\ U \cup {v} # M
      BY <2>1, <2>3
    <3>2. PICK a \in U \cup {v}, b \in M \ (U \cup {v}) : {a, b} \in mesh
      BY <2>2, <3>1 DEF Connected
    <3>3. {b, a} = {a, b} /\ b \in B /\ b < v /\ b \in Vert /\ b \notin U
      BY <1>6, <1>7, <3>2
    <3>4. CASE a \in U
      BY <2>4, <3>2, <3>3, <3>4 DEF Closed
    <3>5. CASE a = v
      <4>1. b \in Lower(v)
        BY <3>2, <3>3, <3>5, Edges DEF Types
      <4> QED BY <2>5, <3>3, <4>1
    <3> QED BY <3>2, <3>4, <3>5
  <2> QED BY <1>1, <1>4, <1>5, <1>11, <2>6 DEF U
<1> QED BY <1>1, <1>10, <1>11

(* Whatever the interleaving of the tasks, at every vertex it takes a task *)
(* holds exactly one component of the sublevel set strictly below that     *)
(* vertex, or all those that meet there when it restarts at a saddle: the  *)
(* tasks together sweep the field as a sequential algorithm would.         *)
THEOREM GrowsSublevelSetAlways ==
    ASSUME ~Overtake
    PROVE  Spec => []GrowsSublevelSet
<1>1. IInv /\ SweepInv => GrowsSublevelSet
  <2> SUFFICES ASSUME IInv, SweepInv PROVE GrowsSublevelSet
    OBVIOUS
  <2>1. CASE phase = "growth"
    BY <2>1, GrowthSublevel DEF IInv, SweepInv
  <2>2. CASE phase # "growth"
    <3>1. Leaves \subseteq Vert
      BY DEF Leaves, J!Minima, Vert
    <3> QED BY <2>2, <3>1 DEF IInv, GrowsSublevelSet
  <2> QED BY <2>1, <2>2
<1> QED BY <1>1, SweepInvariant, PTL
===============================================================================
