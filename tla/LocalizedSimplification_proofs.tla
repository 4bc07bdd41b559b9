-------------------- MODULE LocalizedSimplification_proofs --------------------
(***************************************************************************)
(* Proofs about the propagations of LocalizedSimplification, for any set   *)
(* of requests and any interleaving of the tasks; and about the hills a    *)
(* pass flattens: what it records of them while the tasks run, when it     *)
(* fails, and what is left of the field.                                   *)
(***************************************************************************)
EXTENDS LocalizedSimplification, FiniteSetTheorems, FunctionTheorems, TLAPS

JP == INSTANCE JoinTree_proofs

(***************************************************************************)
(* Vocabulary.                                                             *)
(***************************************************************************)
AtWork == {"start", "pop", "capture", "merge", "unify", "mark"}
Active(t) == pc[t] \in AtWork
Marked(v) == propagationMask[v] # Null

(* What is held of the neighbours above the vertex of t, and by whom.      *)
Own(t)    == {u \in Larger(cur[t]) : Holder(u) = current[t]}
Merged(t) == {Holder(u) : u \in Larger(cur[t])}

(* The propagations t works on.                                            *)
Holds(t) == {current[t]} \cup IF pc[t] = "merge" THEN Merged(t)
                              ELSE IF pc[t] = "unify" THEN todo[t] ELSE {}

(* The neighbours above v that are taken off the counter of v.             *)
Shares(v) == {u \in Larger(v) : Marked(u) /\ Saddle(Holder(u)) = v}

(* u is the vertex the task of c has come to and not marked yet.           *)
Visiting(c, u) == \E t \in propagations : /\ pc[t] \in {"capture", "mark"}
                                          /\ current[t] = c /\ cur[t] = u

(***************************************************************************)
(* The inductive invariant.                                                *)
(***************************************************************************)
(* Of every state: the order numbers the vertices, tasks propagate only in *)
(* the step of that name.                                                  *)
Base ==
    /\ request \in Requests
    /\ order \in [Vert -> 0..(N - 1)]
    /\ \A u, v \in Vert : order[u] = order[v] => u = v
    /\ localOrder \in [Vert -> Int]
    /\ segmentSize \in [Vert -> Nat]
    /\ step \in {"begin", "propagate", "hills", "done", "failed"}
    /\ pc \in [Vert -> IF step = "propagate"
                       THEN AtWork \cup {"none", "stopped"}
                       ELSE {"none", "stopped", "segment", "segmented",
                             "order", "ordered"}]

Types ==
    /\ segmentation \in [Vert -> Int]
    /\ propagations \subseteq Vert
    /\ propagationMask \in [Vert -> propagations \cup {Null}]
    /\ comp \in [Vert -> Vert]
    /\ \A p \in propagations : comp[p] \in propagations /\ Larger(p) = {}
    /\ criticalPoints \in [Vert -> Seq(Vert) \ {<<>>}]
    /\ queue \in [Vert -> SUBSET Vert]
    /\ current \in [Vert -> Vert] /\ cur \in [Vert -> Vert]
    /\ registered \in [Vert -> Nat]
    /\ todo \in [Vert -> SUBSET Vert]
    /\ \A v \in Vert \ propagations : pc[v] = "none"

Representatives == \A c \in Vert : comp[comp[c]] = comp[c]

(* The vertices above a marked one are held with it.                       *)
Closed == \A v \in Vert : Marked(v) => \A u \in Larger(v) : Holder(u) = Holder(v)

(* No propagation is worked on by two tasks.                               *)
Exclusive == \A t, o \in propagations :
                t # o /\ Active(t) /\ Active(o) => Holds(t) \cap Holds(o) = {}

(* A propagation lies above its saddle and takes it in, nobody else does.  *)
SaddleOf(c) ==
    comp[c] = c =>
        /\ Saddle(c) = c \/ \E u \in Larger(Saddle(c)) : Holder(u) = c
        /\ Marked(Saddle(c)) => Holder(Saddle(c)) = c

(* What is queued lies below the propagation.                              *)
QueueOf(c) ==
    comp[c] = c =>
        \A x \in queue[c] :
            \/ Marked(x)
            \/ x = c /\ Saddle(c) = c
            \/ \E u \in Larger(x) :
                  Holder(u) = c \/ u = Saddle(c) \/ Visiting(c, u)

(* How far a task has come.                                                *)
TaskOf(t) ==
    LET c == current[t]
        v == cur[t]
    IN
    /\ Active(t) => \A h \in Holds(t) : h \in propagations /\ comp[h] = h
    /\ pc[t] = "start" =>
          c = t /\ v = t /\ ~Marked(t) /\ Saddle(t) = t /\ queue[t] = {}
    /\ pc[t] = "pop" =>
          /\ Marked(Saddle(c)) \/ (Saddle(c) = c /\ queue[c] = {c})
          /\ Marked(v) \/ v = t
    /\ pc[t] = "capture" =>
          /\ Marked(Saddle(c)) /\ ~Marked(v)
          /\ registered[t] = Cardinality(Own(t))
          /\ Own(t) # {}
    /\ pc[t] \in {"merge", "unify"} =>
          /\ ~Marked(v) /\ Larger(v) # {}
          /\ \A h \in Holds(t) : Saddle(h) = v
          /\ \A u \in Larger(v) : Holder(u) \in Holds(t)
    /\ pc[t] = "mark" =>
          /\ ~Marked(v)
          /\ \A u \in Larger(v) : Holder(u) = c
          /\ Larger(v) = {} => v = c
          /\ Marked(Saddle(c)) \/ Saddle(c) = v

(* The counter of an open vertex is its shares below -1.                   *)
CountOf(v) == Marked(v) \/ segmentation[v] = -1 - Cardinality(Shares(v))

PInv == /\ Representatives /\ Closed /\ Exclusive
        /\ \A c \in propagations : SaddleOf(c) /\ QueueOf(c)
        /\ \A t \in propagations : TaskOf(t)
        /\ \A v \in Vert : CountOf(v)

(* What the propagations of one pass leave to the next.                    *)
Between ==
    /\ pass = "start" => step = "begin"
    /\ propagations \subseteq Vert
    /\ criticalPoints \in [Vert -> Seq(Vert) \ {<<>>}]
    /\ registered \in [Vert -> Nat] /\ todo \in [Vert -> SUBSET Vert]

IInv == Base /\ Between /\ (step = "propagate" => Types /\ PInv)
-------------------------------------------------------------------------------
(***************************************************************************)
(* Vertices, neighbours and orders.                                        *)
(***************************************************************************)
(* The vertices are finitely many numbers, and none of them is Null.       *)
LEMMA VertFacts ==
    ASSUME request \in Requests
    PROVE  /\ N \in Nat /\ N >= 2 /\ Vert = 1..N
           /\ Vert \subseteq Nat /\ Null \notin Vert /\ IsFiniteSet(Vert)
<1>1. request.scalar \in Seq(Int) /\ Len(request.scalar) >= 2
  BY RequestsAssumption
<1>2. N \in Nat /\ N >= 2 /\ Vert = 1..N
  BY <1>1 DEF N, Vert
<1>3. IsFiniteSet(1..N)
  BY <1>2, FS_Interval
<1> QED BY <1>2, <1>3 DEF Null

(* Edges join two vertices.                                                *)
LEMMA NeighborFacts ==
    ASSUME request \in Requests, NEW v \in Vert
    PROVE  /\ Neighbors(v) \subseteq Vert /\ v \notin Neighbors(v)
           /\ \A u \in Neighbors(v) : v \in Neighbors(u)
<1>1. \A e \in request.mesh : \E u, w \in Vert : u # w /\ e = {u, w}
  BY RequestsAssumption DEF Vert
<1>2. ASSUME NEW u \in Neighbors(v)
      PROVE  u \in Vert /\ u # v /\ v \in Neighbors(u)
  <2>1. PICK e \in request.mesh : v \in e /\ u \in e \ {v}
    BY DEF Neighbors, J!Neighbors
  <2>2. u \in Vert /\ u # v
    BY <1>1, <2>1
  <2> QED BY <2>1, <2>2 DEF Neighbors, J!Neighbors
<1> QED BY <1>2

(* The neighbours of a vertex are above or below it.                       *)
LEMMA LargerFacts ==
    ASSUME Base, NEW v \in Vert
    PROVE  /\ Larger(v) \subseteq Vert /\ IsFiniteSet(Larger(v))
           /\ \A u \in Larger(v) : u # v /\ v \notin Larger(u)
           /\ \A u \in Neighbors(v) \ Larger(v) : u \in Vert /\ v \in Larger(u)
<1>1. /\ Neighbors(v) \subseteq Vert /\ v \notin Neighbors(v)
      /\ \A u \in Neighbors(v) : v \in Neighbors(u)
  BY NeighborFacts DEF Base
<1>2. Larger(v) \subseteq Vert
  BY <1>1 DEF Larger
<1>3. IsFiniteSet(Larger(v))
  BY <1>2, VertFacts, FS_Subset DEF Base
<1>4. \A u \in Vert : order[u] \in Int
  BY DEF Base
<1>5. ASSUME NEW u \in Larger(v) PROVE u # v /\ v \notin Larger(u)
  BY <1>1, <1>4, <1>5 DEF Larger
<1>6. ASSUME NEW u \in Neighbors(v) \ Larger(v)
      PROVE  u \in Vert /\ v \in Larger(u)
  <2>1. u \in Vert /\ u # v /\ ~(order[u] > order[v])
    BY <1>1 DEF Larger
  <2>2. order[u] # order[v]
    BY <2>1 DEF Base
  <2>3. order[v] > order[u]
    BY <2>1, <2>2, <1>4
  <2> QED BY <1>1, <2>1, <2>3 DEF Larger
<1> QED BY <1>2, <1>3, <1>5, <1>6

(* Some vertices have a highest one among them.                            *)
LEMMA HighestFacts ==
    ASSUME Base, NEW S \in SUBSET Vert, S # {}
    PROVE  Highest(S) \in S /\ \A u \in S : order[u] <= order[Highest(S)]
<1>1. N \in Nat /\ \A u \in S : order[u] \in 0..(N - 1)
  BY VertFacts DEF Base
<1> DEFINE depth == {N - 1 - order[u] : u \in S}
<1>2. depth \subseteq Nat /\ depth # {}
  BY <1>1
<1>3. PICK d \in depth : \A e \in depth : d <= e
  <2> HIDE DEF depth
  <2> QED BY <1>2, JP!LeastNumber
<1>4. PICK v \in S : d = N - 1 - order[v]
  BY <1>3
<1>5. \A u \in S : order[u] <= order[v]
  <2>1. \A u \in S : N - 1 - order[v] <= N - 1 - order[u]
    BY <1>3, <1>4
  <2> QED BY <2>1, <1>1
<1> QED BY <1>4, <1>5 DEF Highest
-------------------------------------------------------------------------------
(***************************************************************************)
(* What the invariant says of a state.                                     *)
(***************************************************************************)
(* The holder of a marked vertex represents its propagation.               *)
LEMMA HolderFacts ==
    ASSUME Base, Types, PInv, NEW v \in Vert
    PROVE  /\ Marked(v) <=> Holder(v) # Null
           /\ Marked(v) => /\ Holder(v) \in propagations
                           /\ comp[Holder(v)] = Holder(v)
<1>1. Null \notin Vert
  BY VertFacts DEF Base
<1>2. CASE ~Marked(v)
  BY <1>2 DEF Marked, Holder
<1>3. CASE Marked(v)
  <2>1. propagationMask[v] \in propagations /\ propagations \subseteq Vert
    BY <1>3 DEF Types, Marked
  <2>2. Holder(v) = comp[propagationMask[v]]
    BY <1>3 DEF Holder, Marked
  <2>3. Holder(v) \in propagations
    BY <2>1, <2>2 DEF Types
  <2>4. comp[Holder(v)] = Holder(v)
    BY <2>1, <2>2 DEF PInv, Representatives
  <2> QED BY <1>1, <1>3, <2>1, <2>3, <2>4
<1> QED BY <1>2, <1>3

(* The saddle of a propagation is a vertex.                                *)
LEMMA SaddleFacts ==
    ASSUME Types, NEW c \in Vert
    PROVE  Saddle(c) \in Vert
<1>1. criticalPoints[c] \in Seq(Vert) /\ criticalPoints[c] # <<>>
  BY DEF Types
<1>2. Len(criticalPoints[c]) \in 1..Len(criticalPoints[c])
  BY <1>1
<1> QED BY <1>1, <1>2 DEF Saddle, Last

(* What an active task works on.                                           *)
LEMMA ActiveFacts ==
    ASSUME Types, PInv, NEW t \in propagations, Active(t)
    PROVE  /\ current[t] \in Holds(t) /\ current[t] \in propagations
           /\ comp[current[t]] = current[t]
           /\ Holds(t) \subseteq propagations
           /\ t \in Vert /\ current[t] \in Vert /\ cur[t] \in Vert
<1>1. current[t] \in Holds(t)
  BY DEF Holds
<1>2. \A h \in Holds(t) : h \in propagations /\ comp[h] = h
  BY DEF PInv, TaskOf
<1> QED BY <1>1, <1>2 DEF Types

(* Nobody else works on what an active task works on.                      *)
LEMMA Sole ==
    ASSUME Types, PInv, NEW t \in propagations, NEW o \in propagations, o # t,
           Active(t), Active(o)
    PROVE  current[o] # current[t] /\ current[o] \notin Holds(t)
<1>1. Holds(t) \cap Holds(o) = {}
  BY DEF PInv, Exclusive
<1> QED BY <1>1, ActiveFacts
-------------------------------------------------------------------------------
(***************************************************************************)
(* The steps that mark nothing and unite nothing: what they must show.     *)
(***************************************************************************)
(* The other tasks stand still.                                            *)
OthersStill(t) ==
    \A o \in propagations \ {t} :
        /\ pc'[o] = pc[o] /\ current'[o] = current[o] /\ cur'[o] = cur[o]
        /\ registered'[o] = registered[o] /\ todo'[o] = todo[o]

(* What must be shown of a step that marks nothing and unites nothing.     *)
LEMMA QuietStep ==
    ASSUME Base, Types, PInv, Types', NEW t \in propagations, Active(t),
           NEW c, c = current[t],
           UNCHANGED <<request, order, propagations, propagationMask, comp,
                       criticalPoints, segmentation>>,
           OthersStill(t),
           \A p \in Vert \ {c} : queue'[p] = queue[p],
           Active(t)' => Holds(t)' \subseteq Holds(t),
           TaskOf(t)', QueueOf(c)'
    PROVE  PInv'
<1>1. \A v \in Vert : /\ Larger(v)' = Larger(v) /\ Holder(v)' = Holder(v)
                      /\ Marked(v)' <=> Marked(v)
                      /\ Saddle(v)' = Saddle(v)
  BY DEF Larger, Neighbors, Holder, Marked, Saddle
<1>2. Vert' = Vert
  BY DEF Vert
<1>3. c \in propagations /\ c \in Vert /\ t \in Vert
  BY ActiveFacts
<1>4. propagations' = propagations /\ propagations \subseteq Vert
  BY DEF Types
<1>5. ASSUME NEW o \in propagations, o # t
      PROVE  /\ Active(o)' <=> Active(o)
             /\ Holds(o)' = Holds(o) /\ Own(o)' = Own(o)
             /\ Larger(cur[o])' = Larger(cur[o])
             /\ cur[o] \in Vert /\ current[o] \in Vert /\ o \in Vert
  <2>1. /\ pc'[o] = pc[o] /\ current'[o] = current[o] /\ cur'[o] = cur[o]
        /\ todo'[o] = todo[o]
    BY <1>5 DEF OthersStill
  <2>2. cur[o] \in Vert /\ current[o] \in Vert /\ o \in Vert
    BY DEF Types
  <2>3. Larger(cur[o])' = Larger(cur[o])
    BY <2>1 DEF Larger, Neighbors
  <2>4. Larger(cur[o]) \subseteq Vert
    BY <2>2, LargerFacts
  <2>5. Own(o)' = Own(o)
    BY <1>1, <2>1, <2>3, <2>4 DEF Own
  <2>6. Merged(o)' = Merged(o)
    BY <1>1, <2>3, <2>4 DEF Merged
  <2> QED BY <2>1, <2>2, <2>3, <2>5, <2>6 DEF Holds, Active
<1>6. Representatives'
  BY <1>2 DEF PInv, Representatives
<1>7. Closed'
  <2>1. \A v \in Vert : Larger(v) \subseteq Vert
    BY LargerFacts
  <2> QED BY <1>1, <1>2, <2>1 DEF PInv, Closed
<1>8. Exclusive'
  <2> SUFFICES ASSUME NEW a \in propagations, NEW b \in propagations, a # b,
                      Active(a)', Active(b)'
               PROVE  Holds(a)' \cap Holds(b)' = {}
    BY <1>4 DEF Exclusive
  <2>1. CASE a = t
    <3>1. Active(b) /\ Holds(b)' = Holds(b) /\ Holds(a)' \subseteq Holds(a)
      BY <2>1, <1>5
    <3>2. Holds(a) \cap Holds(b) = {}
      BY <2>1, <3>1 DEF PInv, Exclusive
    <3> QED BY <3>1, <3>2
  <2>2. CASE b = t
    <3>1. Active(a) /\ Holds(a)' = Holds(a) /\ Holds(b)' \subseteq Holds(b)
      BY <2>2, <1>5
    <3>2. Holds(a) \cap Holds(b) = {}
      BY <2>2, <3>1 DEF PInv, Exclusive
    <3> QED BY <3>1, <3>2
  <2>3. CASE a # t /\ b # t
    <3>1. Active(a) /\ Holds(a)' = Holds(a) /\ Active(b) /\ Holds(b)' = Holds(b)
      BY <2>3, <1>5
    <3> QED BY <3>1 DEF PInv, Exclusive
  <2> QED BY <2>1, <2>2, <2>3
<1>9. ASSUME NEW p \in propagations PROVE SaddleOf(p)'
  <2>1. SaddleOf(p) /\ p \in Vert
    BY <1>4 DEF PInv
  <2>2. Saddle(p) \in Vert /\ Saddle(p)' = Saddle(p)
    BY <2>1, <1>1, SaddleFacts
  <2>3. Larger(Saddle(p)) \subseteq Vert /\ Larger(Saddle(p))' = Larger(Saddle(p))
    BY <2>2, LargerFacts DEF Larger, Neighbors
  <2>4. /\ Marked(Saddle(p))' <=> Marked(Saddle(p))
        /\ Holder(Saddle(p))' = Holder(Saddle(p))
    BY <2>2 DEF Marked, Holder
  <2> QED BY <1>1, <2>1, <2>2, <2>3, <2>4 DEF SaddleOf
<1>10. ASSUME NEW p \in propagations PROVE QueueOf(p)'
  <2>1. CASE p = c
    BY <2>1
  <2>2. CASE p # c
    <3>1. QueueOf(p) /\ p \in Vert /\ queue'[p] = queue[p]
      BY <2>2, <1>4 DEF PInv
    <3>2. queue[p] \subseteq Vert
      BY <3>1 DEF Types
    <3>3. \A u : Visiting(p, u) => Visiting(p, u)'
      BY <2>2, <1>4 DEF Visiting, OthersStill
    <3>4. \A x \in queue[p] : Larger(x) \subseteq Vert
      BY <3>2, LargerFacts
    <3> QED BY <1>1, <3>1, <3>2, <3>3, <3>4 DEF QueueOf
  <2> QED BY <2>1, <2>2
<1>11. ASSUME NEW o \in propagations PROVE TaskOf(o)'
  <2>1. CASE o = t
    BY <2>1
  <2>2. CASE o # t
    <3>1. /\ pc'[o] = pc[o] /\ current'[o] = current[o] /\ cur'[o] = cur[o]
          /\ registered'[o] = registered[o] /\ todo'[o] = todo[o]
      BY <2>2 DEF OthersStill
    <3>2. /\ Active(o)' <=> Active(o)
          /\ Holds(o)' = Holds(o) /\ Own(o)' = Own(o)
          /\ Larger(cur[o])' = Larger(cur[o])
          /\ cur[o] \in Vert /\ current[o] \in Vert /\ o \in Vert
      BY <2>2, <1>5
    <3>3. Larger(cur[o]) \subseteq Vert
      BY <3>2, LargerFacts
    <3>4. TaskOf(o)
      BY DEF PInv
    <3>5. pc[o] \in AtWork => queue'[current[o]] = queue[current[o]]
      <4> HAVE pc[o] \in AtWork
      <4>1. current[o] # c
        BY <2>2, Sole DEF Active
      <4> QED BY <4>1, <3>2
    <3>6. Saddle(o)' = Saddle(o) /\ Saddle(current[o])' = Saddle(current[o])
      BY <3>1 DEF Saddle
    <3>7. /\ Marked(cur[o])' <=> Marked(cur[o])
          /\ Marked(Saddle(current[o]))' <=> Marked(Saddle(current[o]))
          /\ Marked(o)' <=> Marked(o)
      BY <3>1, <3>6 DEF Marked
    <3>8. pc[o] = "start" => queue'[o] = queue[o]
      <4> HAVE pc[o] = "start"
      <4>1. current[o] = o
        BY <3>4 DEF TaskOf
      <4> QED BY <3>5, <4>1 DEF AtWork
    <3>9. \A h \in Holds(o) : Active(o) => Saddle(h)' = Saddle(h)
      BY <1>1, <1>4, <3>4 DEF TaskOf
    <3>10. /\ pc[o] = "start" => TaskOf(o)'
           /\ pc[o] = "pop" => TaskOf(o)'
           /\ pc[o] = "capture" => TaskOf(o)'
      BY <3>1, <3>2, <3>4, <3>5, <3>6, <3>7, <3>8 DEF TaskOf, AtWork, Active
    <3>11. pc[o] \in {"merge", "unify"} => TaskOf(o)'
      BY <1>1, <3>1, <3>2, <3>3, <3>4, <3>7, <3>9 DEF TaskOf, AtWork, Active
    <3>12. pc[o] = "mark" => TaskOf(o)'
      BY <1>1, <3>1, <3>2, <3>3, <3>4, <3>6, <3>7 DEF TaskOf, AtWork, Active
    <3>13. pc[o] \notin AtWork => TaskOf(o)'
      BY <3>1 DEF TaskOf, AtWork, Active
    <3> QED BY <3>10, <3>11, <3>12, <3>13 DEF AtWork
  <2> QED BY <2>1, <2>2
<1>12. ASSUME NEW v \in Vert PROVE CountOf(v)'
  <2>1. Larger(v) \subseteq Vert
    BY LargerFacts
  <2>2. \A u \in Larger(v) : Marked(u) => Holder(u) \in Vert
    BY <2>1, HolderFacts, <1>4
  <2>3. Shares(v)' = Shares(v)
    BY <1>1, <2>1, <2>2 DEF Shares
  <2> QED BY <1>1, <2>3 DEF PInv, CountOf
<1> QED BY <1>2, <1>4, <1>6, <1>7, <1>8, <1>9, <1>10, <1>11, <1>12 DEF PInv
-------------------------------------------------------------------------------
(***************************************************************************)
(* The actions of a task.                                                  *)
(***************************************************************************)
(* A vertex with an active task has a propagation.                         *)
LEMMA TaskFacts ==
    ASSUME Types, NEW t \in Vert, Active(t)
    PROVE  t \in propagations
BY DEF Types, Active, AtWork

(* A step of a task leaves alone what the passes are about.                *)
LEMMA BaseKept ==
    ASSUME Base, step = "propagate", NEW t \in Vert,
           UNCHANGED propagating,
           segmentSize' \in [Vert -> Nat],
           NEW l \in AtWork \cup {"none", "stopped"}, Goto(t, l)
    PROVE  Base'
<1>1. /\ request' = request /\ order' = order /\ localOrder' = localOrder
      /\ step' = step
  BY DEF propagating, fields
<1>2. Vert' = Vert /\ N' = N
  BY <1>1 DEF Vert, N
<1>3. pc' \in [Vert -> AtWork \cup {"none", "stopped"}]
  BY DEF Base, Goto
<1> QED BY <1>1, <1>2, <1>3 DEF Base

(* The types of what a task step can change.                               *)
LEMMA TypesKept ==
    ASSUME Base, Types, NEW t \in propagations,
           UNCHANGED <<request, order, propagations>>,
           NEW l, Goto(t, l),
           segmentation' \in [Vert -> Int],
           propagationMask' \in [Vert -> propagations \cup {Null}],
           comp' \in [Vert -> Vert],
           \A p \in propagations : comp'[p] \in propagations,
           criticalPoints' \in [Vert -> Seq(Vert) \ {<<>>}],
           queue' \in [Vert -> SUBSET Vert],
           current' \in [Vert -> Vert], cur' \in [Vert -> Vert],
           registered' \in [Vert -> Nat],
           todo' \in [Vert -> SUBSET Vert]
    PROVE  Types'
<1>1. Vert' = Vert /\ propagations \subseteq Vert
  BY DEF Vert, Types
<1>2. \A v \in Vert : Larger(v)' = Larger(v)
  BY DEF Larger, Neighbors
<1>3. \A v \in Vert \ propagations : pc'[v] = "none"
  BY DEF Base, Types, Goto
<1> QED BY <1>1, <1>2, <1>3 DEF Types

(* A task queues its maximum.                                              *)
LEMMA StartKeeps ==
    ASSUME Base, Types, PInv, step = "propagate", NEW t \in Vert, Start(t)
    PROVE  Base' /\ Types' /\ PInv'
<1>1. Active(t) /\ t \in propagations /\ pc[t] = "start"
  BY TaskFacts DEF Start, Active, AtWork
<1>2. /\ UNCHANGED <<request, order, propagations, propagationMask, comp,
                     criticalPoints, segmentation>>
      /\ UNCHANGED <<current, cur, registered, todo, segmentSize>>
  BY DEF Start, propagating, fields, locals
<1>3. /\ queue' = [queue EXCEPT ![t] = {t}]
      /\ pc' = [pc EXCEPT ![t] = "pop"]
  BY DEF Start, Goto
<1>5. Base'
  BY <1>2, BaseKept DEF Start, Base, AtWork
<1>6. Types'
  <2>1. queue' \in [Vert -> SUBSET Vert]
    BY <1>3 DEF Types
  <2>2. Goto(t, "pop")
    BY DEF Start
  <2> QED BY <1>1, <1>2, <2>1, <2>2, TypesKept DEF Types
<1>7. /\ current[t] = t /\ cur[t] = t /\ ~Marked(t) /\ Saddle(t) = t
      /\ comp[t] = t
  <2>1. TaskOf(t)
    BY <1>1 DEF PInv
  <2> QED BY <2>1, <1>1, ActiveFacts DEF TaskOf
<1>8. /\ pc'[t] = "pop" /\ current'[t] = t /\ cur'[t] = t /\ queue'[t] = {t}
      /\ Saddle(t)' = t /\ comp'[t] = t
  BY <1>1, <1>2, <1>3, <1>7 DEF Base, Types, Saddle
<1>9. TaskOf(t)'
  <2>1. Holds(t)' = {t}
    BY <1>8 DEF Holds
  <2> QED BY <2>1, <1>1, <1>2, <1>8 DEF TaskOf, Active, AtWork
<1>10. QueueOf(t)'
  BY <1>8 DEF QueueOf
<1>11. OthersStill(t)
  BY <1>2, <1>3 DEF OthersStill, Base, Types
<1>12. Holds(t)' \subseteq Holds(t)
  BY <1>7, <1>8 DEF Holds
<1>13. \A p \in Vert \ {t} : queue'[p] = queue[p]
  BY <1>3 DEF Types
<1> QED BY <1>1, <1>2, <1>5, <1>6, <1>7, <1>9, <1>10, <1>11, <1>12, <1>13,
           QuietStep

(* A propagation that goes on has a vertex ahead that nobody marked.       *)
LEMMA AheadFacts ==
    ASSUME Base, Types, NEW t \in Vert, Ahead(t) # {}
    PROVE  LET v == Highest(Ahead(t)) IN
           v \in Vert /\ v \in queue[current[t]] /\ ~Marked(v)
<1>1. Ahead(t) \subseteq queue[current[t]] /\ queue[current[t]] \subseteq Vert
  BY DEF Ahead, Types
<1>2. Highest(Ahead(t)) \in Ahead(t)
  BY <1>1, HighestFacts
<1> QED BY <1>1, <1>2 DEF Ahead, Marked

(* A task that stops for want of vertices, or at the threshold.            *)
LEMMA StopKeeps ==
    ASSUME Base, Types, PInv, step = "propagate", NEW t \in Vert,
           OutOfVertices(t) \/ Abort(t)
    PROVE  Base' /\ Types' /\ PInv'
<1>0. PICK c : c = current[t]
  OBVIOUS
<1>1. Active(t) /\ t \in propagations /\ pc[t] = "pop"
  BY TaskFacts DEF OutOfVertices, Abort, Active, AtWork
<1>2. /\ UNCHANGED <<request, order, propagations, propagationMask, comp,
                     criticalPoints, segmentation>>
      /\ UNCHANGED <<current, cur, registered, todo, segmentSize>>
  BY DEF OutOfVertices, Abort, propagating, fields, locals
<1>3. PICK left \in SUBSET queue[c] : queue' = [queue EXCEPT ![c] = left]
  BY <1>0 DEF OutOfVertices, Abort, Below
<1>4. pc' = [pc EXCEPT ![t] = "stopped"]
  BY DEF OutOfVertices, Abort, Goto
<1>5. Vert' = Vert /\ \A v \in Vert : Larger(v)' = Larger(v)
  BY <1>2 DEF Vert, Larger, Neighbors
<1>6. Base'
  BY <1>2, BaseKept DEF OutOfVertices, Abort, Base, AtWork
<1>7. c \in propagations /\ c \in Vert
  BY <1>0, <1>1, ActiveFacts
<1>8. Types'
  <2>1. queue' \in [Vert -> SUBSET Vert]
    BY <1>3, <1>7 DEF Types
  <2>2. Goto(t, "stopped")
    BY DEF OutOfVertices, Abort
  <2> QED BY <1>1, <1>2, <2>1, <2>2, TypesKept DEF Types
<1>9. pc'[t] = "stopped" /\ queue'[c] \subseteq queue[c]
  BY <1>3, <1>4, <1>7 DEF Base, Types
<1>10. TaskOf(t)'
  BY <1>9 DEF TaskOf, Active, AtWork
<1>11. OthersStill(t)
  BY <1>2, <1>4 DEF OthersStill, Base, Types
<1>12. \A u : Visiting(c, u) => Visiting(c, u)'
  BY <1>1, <1>2, <1>11 DEF Visiting, OthersStill
<1>13. QueueOf(c)'
  <2>1. QueueOf(c) /\ queue[c] \subseteq Vert
    BY <1>7 DEF PInv, Types
  <2>2. \A v \in Vert : /\ Larger(v)' = Larger(v) /\ Larger(v) \subseteq Vert
                        /\ Holder(v)' = Holder(v)
                        /\ Marked(v)' <=> Marked(v)
    BY <1>2, <1>5, LargerFacts DEF Holder, Marked
  <2>3. Saddle(c)' = Saddle(c)
    BY <1>2 DEF Saddle
  <2>4. \A x \in queue[c] : Larger(x) \subseteq Vert
    BY <2>1, <2>2
  <2>5. queue'[c] \subseteq queue[c]
    BY <1>9
  <2> QED BY <1>2, <1>12, <2>1, <2>2, <2>3, <2>4, <2>5 DEF QueueOf
<1>14. Active(t)' => Holds(t)' \subseteq Holds(t)
  BY <1>9 DEF Active, AtWork
<1>15. \A p \in Vert \ {c} : queue'[p] = queue[p]
  BY <1>3 DEF Types
<1> QED BY <1>0, <1>1, <1>2, <1>6, <1>8, <1>10, <1>11, <1>13, <1>14, <1>15,
           QuietStep

(* What a task pops lies below its propagation, or is the maximum of it;   *)
(* the saddle before is marked.                                            *)
LEMMA PoppedFacts ==
    ASSUME Base, Types, PInv, NEW t \in propagations, pc[t] = "pop",
           NEW c, c = current[t], NEW v \in queue[c], ~Marked(v)
    PROVE  /\ v = c \/ \E u \in Larger(v) : Holder(u) = c
           /\ v # c => Marked(Saddle(c))
           /\ Marked(Saddle(c)) \/ Saddle(c) = v
<1>1. Active(t)
  BY DEF Active, AtWork
<1>2. c \in propagations /\ comp[c] = c
  BY <1>1, ActiveFacts
<1>3. Marked(Saddle(c)) \/ (Saddle(c) = c /\ queue[c] = {c})
  BY DEF PInv, TaskOf
<1>4. ASSUME v # c PROVE \E u \in Larger(v) : Holder(u) = c
  <2>1. Marked(Saddle(c))
    BY <1>3, <1>4
  <2>2. Holder(Saddle(c)) = c
    BY <1>2, <2>1 DEF PInv, SaddleOf
  <2>3. PICK u \in Larger(v) : Holder(u) = c \/ u = Saddle(c) \/ Visiting(c, u)
    BY <1>2, <1>4 DEF PInv, QueueOf
  <2>4. ~Visiting(c, u)
    <3> SUFFICES ASSUME NEW o \in propagations, pc[o] \in {"capture", "mark"},
                        current[o] = c
                 PROVE  FALSE
      BY DEF Visiting
    <3>1. Active(o) /\ o # t
      BY DEF Active, AtWork
    <3> QED BY <1>1, <3>1, Sole
  <2> QED BY <2>2, <2>3, <2>4
<1> QED BY <1>3, <1>4

(* A task comes to the highest vertex ahead of it: what is above that      *)
(* vertex is all its own, or it stands before a saddle.                    *)
LEMMA VisitKeeps ==
    ASSUME Base, Types, PInv, step = "propagate", NEW t \in Vert, Visit(t)
    PROVE  Base' /\ Types' /\ PInv'
<1>0. PICK c, v : c = current[t] /\ v = Highest(Ahead(t))
  OBVIOUS
<1> DEFINE own == {u \in Larger(v) : Holder(u) = c}
           new == {u \in Neighbors(v) \ Larger(v) : queueMask[u] # c}
           next == IF own = Larger(v) THEN "mark" ELSE "capture"
<1>1. Active(t) /\ t \in propagations /\ pc[t] = "pop"
  BY TaskFacts DEF Visit, Active, AtWork
<1>2. /\ UNCHANGED <<request, order, propagations, propagationMask, comp,
                     criticalPoints, segmentation>>
      /\ UNCHANGED <<current, todo, segmentSize>>
  BY DEF Visit, propagating, fields
<1>3. /\ queue' = [queue EXCEPT ![c] = Below(t, v) \cup new]
      /\ cur' = [cur EXCEPT ![t] = v]
      /\ registered' = [registered EXCEPT ![t] = Cardinality(own)]
      /\ Goto(t, next)
  BY <1>0 DEF Visit
<1>4. v \in Vert /\ v \in queue[c] /\ ~Marked(v)
  BY <1>0, AheadFacts DEF Visit
<1>5. /\ c \in propagations /\ c \in Vert /\ comp[c] = c
      /\ Larger(c) = {} /\ queue[c] \subseteq Vert
  BY <1>0, <1>1, ActiveFacts DEF Types
<1>6. /\ v = c \/ \E u \in Larger(v) : Holder(u) = c
      /\ v # c => Marked(Saddle(c))
      /\ Marked(Saddle(c)) \/ Saddle(c) = v
  BY <1>0, <1>1, <1>4, PoppedFacts
<1>7. /\ Larger(v) \subseteq Vert /\ IsFiniteSet(Larger(v))
      /\ \A u \in new : u \in Vert /\ v \in Larger(u)
  BY <1>4, LargerFacts
<1>8. Below(t, v) \subseteq queue[c]
  BY <1>0 DEF Below
<1>9. Cardinality(own) \in Nat
  BY <1>7, FS_Subset, FS_CardinalityType
<1>10. Base'
  <2>1. next \in AtWork \cup {"none", "stopped"}
    BY DEF AtWork
  <2>2. UNCHANGED propagating /\ segmentSize' \in [Vert -> Nat]
    BY <1>2 DEF Visit, Base
  <2> HIDE DEF next
  <2> QED BY <1>3, <2>1, <2>2, BaseKept
<1>11. Types'
  <2>1. queue' \in [Vert -> SUBSET Vert]
    <3>1. Below(t, v) \cup new \in SUBSET Vert
      BY <1>5, <1>7, <1>8
    <3> HIDE DEF new
    <3> QED BY <1>3, <3>1 DEF Types
  <2>2. cur' \in [Vert -> Vert] /\ registered' \in [Vert -> Nat]
    <3> HIDE DEF own
    <3> QED BY <1>3, <1>4, <1>9 DEF Types
  <2> HIDE DEF next
  <2> QED BY <1>1, <1>2, <1>3, <2>1, <2>2, TypesKept DEF Types
<1>12. /\ pc'[t] = next /\ current'[t] = c /\ cur'[t] = v
       /\ registered'[t] = Cardinality(own)
       /\ queue'[c] = Below(t, v) \cup new
  <2> HIDE DEF next, own, new
  <2> QED BY <1>0, <1>2, <1>3, <1>5 DEF Base, Types, Goto
<1>13. OthersStill(t)
  <2> HIDE DEF next, own, new
  <2> QED BY <1>2, <1>3 DEF OthersStill, Base, Types, Goto
<1>14. /\ \A u \in Vert : /\ Larger(u)' = Larger(u) /\ Holder(u)' = Holder(u)
                          /\ Marked(u)' <=> Marked(u)
                          /\ Saddle(u)' = Saddle(u)
       /\ Vert' = Vert
  BY <1>2 DEF Larger, Neighbors, Holder, Marked, Saddle, Vert
<1>15. QueueOf(c)'
  <2>1. QueueOf(c)
    BY <1>5 DEF PInv
  <2>2. \A x \in queue[c] \cup new : x \in Vert /\ Larger(x) \subseteq Vert
    BY <1>5, <1>7, LargerFacts
  <2>3. Visiting(c, v)'
    <3>1. t \in propagations' /\ pc'[t] \in {"capture", "mark"}
      BY <1>1, <1>2, <1>12
    <3> QED BY <1>12, <3>1 DEF Visiting
  <2>4. \A u : Visiting(c, u) => Visiting(c, u)'
    BY <1>1, <1>2, <1>13 DEF Visiting, OthersStill
  <2>5. \A x \in queue'[c] : x \in queue[c] \/ (x \in Vert /\ v \in Larger(x))
    BY <1>7, <1>8, <1>12
  <2>6. \A x \in queue'[c] : x \in Vert /\ Larger(x) \subseteq Vert
    BY <2>2, <1>8, <1>12
  <2> HIDE DEF own, new, next
  <2> QED BY <1>2, <1>5, <1>14, <2>1, <2>3, <2>4, <2>5, <2>6 DEF QueueOf
<1>16. TaskOf(t)'
  <2>1. /\ Larger(v)' = Larger(v) /\ Larger(cur[t])' = Larger(v)
        /\ Marked(v)' <=> Marked(v)
        /\ Own(t)' = own
        /\ Saddle(c)' = Saddle(c)
        /\ Saddle(c) \in Vert
    <3>1. Larger(cur[t])' = Larger(v)
      BY <1>2, <1>12 DEF Larger, Neighbors
    <3>2. Own(t)' = own
      BY <1>2, <1>7, <1>12, <1>14, <3>1 DEF Own
    <3> QED BY <1>4, <1>5, <1>14, <3>1, <3>2, SaddleFacts
  <2>2. Marked(Saddle(c))' <=> Marked(Saddle(c))
    BY <1>2, <2>1 DEF Marked
  <2>3. Holds(t)' = {c}
    BY <1>12 DEF Holds
  <2>4. ASSUME own # Larger(v) PROVE own # {} /\ v # c
    BY <1>5, <1>6, <2>4
  <2>5. CASE next = "mark"
    <3>1. own = Larger(v)
      BY <2>5
    <3>2. \A u \in Larger(v) : Holder(u)' = c
      BY <1>7, <1>14, <3>1
    <3>3. Larger(v) = {} => v = c
      BY <1>6
    <3> HIDE DEF own, new, next
    <3> QED BY <1>2, <1>4, <1>5, <1>6, <1>12, <2>1, <2>2, <2>3, <2>5, <3>2, <3>3
            DEF TaskOf, Active, AtWork
  <2>6. CASE next = "capture"
    <3>1. own # Larger(v)
      BY <2>6
    <3>2. own # {} /\ Marked(Saddle(c))
      BY <1>6, <2>4, <3>1
    <3> HIDE DEF own, new, next
    <3> QED BY <1>2, <1>4, <1>5, <1>12, <2>1, <2>2, <2>3, <2>6, <3>2
            DEF TaskOf, Active, AtWork
  <2> QED BY <2>5, <2>6
<1>17. Holds(t)' \subseteq Holds(t)
  BY <1>0, <1>12 DEF Holds
<1>18. \A p \in Vert \ {c} : queue'[p] = queue[p]
  BY <1>3 DEF Types
<1> QED BY <1>0, <1>1, <1>2, <1>10, <1>11, <1>13, <1>15, <1>16, <1>17, <1>18,
           QuietStep

(* At a saddle whose last visitor has come, the neighbours above it are    *)
(* held by what the visitor merges, and those below it by nobody.          *)
LEMMA MetFacts ==
    ASSUME Base, Types, PInv, NEW t \in propagations,
           pc[t] \in {"merge", "unify"}
    PROVE  /\ {Holder(u) : u \in Neighbors(cur[t])} \ {Null} = Merged(t)
           /\ Merged(t) # {} /\ Merged(t) \subseteq Holds(t)
<1>1. Active(t) /\ cur[t] \in Vert
  BY DEF Active, AtWork, Types
<1>2. /\ ~Marked(cur[t]) /\ Larger(cur[t]) # {}
      /\ \A u \in Larger(cur[t]) : Holder(u) \in Holds(t)
  BY DEF PInv, TaskOf
<1>3. Holds(t) \subseteq propagations /\ Null \notin propagations
  BY <1>1, ActiveFacts, VertFacts DEF Base, Types
<1>4. ASSUME NEW u \in Neighbors(cur[t]) \ Larger(cur[t])
      PROVE  Holder(u) = Null
  <2>1. u \in Vert /\ cur[t] \in Larger(u)
    BY <1>1, LargerFacts
  <2>2. Marked(u) => Holder(u) = Holder(cur[t])
    BY <2>1 DEF PInv, Closed
  <2>3. Holder(cur[t]) = Null
    BY <1>2 DEF Holder, Marked
  <2> QED BY <2>2, <2>3 DEF Holder, Marked
<1>5. Larger(cur[t]) \subseteq Neighbors(cur[t])
  BY DEF Larger
<1> QED BY <1>2, <1>3, <1>4, <1>5 DEF Merged

(* The last visitor goes on with the propagation of the highest maximum;   *)
(* before and after it works on all that met here.                         *)
LEMMA DominantKeeps ==
    ASSUME Base, Types, PInv, step = "propagate", NEW t \in Vert, Dominant(t)
    PROVE  Base' /\ Types' /\ PInv'
<1>0. PICK c, v, d, met : /\ c = current[t] /\ v = cur[t]
                          /\ met = {Holder(u) : u \in Neighbors(v)} \ {Null}
                          /\ d = Highest(met \cup {c})
  OBVIOUS
<1>1. Active(t) /\ t \in propagations /\ pc[t] = "merge"
  BY TaskFacts DEF Dominant, Active, AtWork
<1>2. /\ UNCHANGED <<request, order, propagations, propagationMask, comp,
                     criticalPoints, segmentation>>
      /\ UNCHANGED <<queue, cur, registered, segmentSize>>
  BY DEF Dominant, propagating, fields, props
<1>3. /\ current' = [current EXCEPT ![t] = d]
      /\ todo' = [todo EXCEPT ![t] = met]
      /\ Goto(t, "unify")
  BY <1>0 DEF Dominant
<1>4. met = Merged(t) /\ Holds(t) = {c} \cup Merged(t)
  BY <1>0, <1>1, MetFacts DEF Holds
<1>5. /\ Holds(t) \subseteq propagations /\ propagations \subseteq Vert
      /\ c \in Vert /\ v \in Vert
  BY <1>0, <1>1, ActiveFacts DEF Types
<1>6. d \in Holds(t) /\ d \in Vert /\ met \subseteq Vert
  <2>1. met \cup {c} \in SUBSET Vert
    BY <1>4, <1>5
  <2> QED BY <1>0, <1>4, <2>1, HighestFacts
<1>7. Base'
  BY <1>2, BaseKept DEF Dominant, Base, AtWork
<1>8. Types'
  <2>1. current' \in [Vert -> Vert] /\ todo' \in [Vert -> SUBSET Vert]
    BY <1>3, <1>6 DEF Types
  <2> QED BY <1>1, <1>2, <1>3, <2>1, TypesKept DEF Types
<1>9. pc'[t] = "unify" /\ current'[t] = d /\ cur'[t] = v /\ todo'[t] = met
  BY <1>0, <1>1, <1>2, <1>3 DEF Base, Types, Goto
<1>10. OthersStill(t)
  BY <1>2, <1>3 DEF OthersStill, Base, Types, Goto
<1>11. Holds(t)' = {d} \cup met
  BY <1>9 DEF Holds
<1>12. Holds(t)' \subseteq Holds(t)
  BY <1>4, <1>6, <1>11
<1>13. /\ \A u \in Vert : /\ Larger(u)' = Larger(u) /\ Holder(u)' = Holder(u)
                          /\ Marked(u)' <=> Marked(u)
                          /\ Saddle(u)' = Saddle(u)
       /\ Vert' = Vert
  BY <1>2 DEF Larger, Neighbors, Holder, Marked, Saddle, Vert
<1>14. TaskOf(t)'
  <2>1. TaskOf(t)
    BY <1>1 DEF PInv
  <2>2. /\ \A h \in Holds(t) : h \in propagations /\ comp[h] = h
        /\ ~Marked(v) /\ Larger(v) # {}
        /\ \A h \in Holds(t) : Saddle(h) = v
    BY <1>0, <1>1, <2>1 DEF TaskOf
  <2>3. Larger(cur[t])' = Larger(v)
    BY <1>2, <1>9 DEF Larger, Neighbors
  <2>4. \A u \in Larger(v) : Holder(u)' \in Holds(t)'
    <3>1. Larger(v) \subseteq Vert
      BY <1>5, LargerFacts
    <3>2. \A u \in Larger(v) : Holder(u) \in met
      BY <1>0, <1>4 DEF Merged
    <3> QED BY <1>11, <1>13, <3>1, <3>2
  <2>5. \A h \in Holds(t)' : /\ h \in propagations' /\ comp'[h] = h
                             /\ Saddle(h)' = v
    BY <1>2, <1>5, <1>12, <1>13, <2>2
  <2>6. Marked(cur[t])' <=> Marked(v)
    BY <1>2, <1>9 DEF Marked
  <2> QED BY <1>9, <2>2, <2>3, <2>4, <2>5, <2>6 DEF TaskOf, Active, AtWork
<1>15. QueueOf(c)'
  <2>1. QueueOf(c) /\ queue[c] \subseteq Vert
    BY <1>4, <1>5 DEF PInv, Types
  <2>2. \A x \in queue[c] : Larger(x) \subseteq Vert
    BY <2>1, LargerFacts
  <2>3. \A u : Visiting(c, u) => Visiting(c, u)'
    BY <1>1, <1>2, <1>10 DEF Visiting, OthersStill
  <2> QED BY <1>2, <1>5, <1>13, <2>1, <2>2, <2>3 DEF QueueOf
<1>16. \A p \in Vert \ {c} : queue'[p] = queue[p]
  BY <1>2
<1> QED BY <1>0, <1>1, <1>2, <1>7, <1>8, <1>10, <1>12, <1>14, <1>15, <1>16,
           QuietStep
-------------------------------------------------------------------------------
(***************************************************************************)
(* The steps that change what is held or where the saddles are: what they  *)
(* must show of the other tasks.                                           *)
(***************************************************************************)
(* What another task works on stays as it is.                              *)
Untouched(o) ==
    /\ \A h \in Holds(o) : /\ comp'[h] = h /\ Saddle(h)' = Saddle(h)
                           /\ queue'[h] = queue[h]
    /\ \A u \in Vert : Holder(u) \in Holds(o) \/ Holder(u)' \in Holds(o) =>
                          Holder(u)' = Holder(u)
    /\ pc[o] # "pop" => propagationMask'[cur[o]] = propagationMask[cur[o]]

(* What a step of t does to the other tasks, if it leaves alone what they  *)
(* work on.                                                                *)
LEMMA OtherTask ==
    ASSUME Base, Types, PInv, NEW t \in propagations,
           NEW o \in propagations \ {t},
           UNCHANGED <<request, order, propagations>>,
           OthersStill(t),
           \A v \in Vert : Marked(v) => Marked(v)',
           Active(o) => Untouched(o)
    PROVE  /\ TaskOf(o)'
           /\ Active(o)' <=> Active(o)
           /\ Active(o) => Holds(o)' = Holds(o)
<1>1. /\ pc'[o] = pc[o] /\ current'[o] = current[o] /\ cur'[o] = cur[o]
      /\ registered'[o] = registered[o] /\ todo'[o] = todo[o]
  BY DEF OthersStill
<1>2. CASE ~Active(o)
  <2>1. TaskOf(o)'
    BY <1>1, <1>2 DEF TaskOf, Active, AtWork
  <2> QED BY <1>1, <1>2, <2>1 DEF Active
<1>3. CASE Active(o)
  <2>1. Untouched(o) /\ TaskOf(o)
    BY <1>3 DEF PInv
  <2>2. /\ cur[o] \in Vert /\ current[o] \in Vert /\ o \in Vert
        /\ current[o] \in Holds(o) /\ current[o] \in propagations
    BY <1>3, ActiveFacts
  <2>3. Larger(cur[o]) \subseteq Vert /\ Larger(cur[o])' = Larger(cur[o])
    BY <1>1, <2>2, LargerFacts DEF Larger, Neighbors
  <2>4. Saddle(current[o]) \in Vert /\ Saddle(current[o])' = Saddle(current[o])
    BY <1>1, <2>1, <2>2, SaddleFacts DEF Untouched, Saddle
  <2>5. Own(o)' = Own(o)
    <3>1. \A u \in Larger(cur[o]) :
             Holder(u)' = current[o] <=> Holder(u) = current[o]
      BY <2>1, <2>2, <2>3 DEF Untouched
    <3> QED BY <1>1, <2>3, <3>1 DEF Own
  <2>6. pc[o] = "merge" => Merged(o)' = Merged(o)
    <3> HAVE pc[o] = "merge"
    <3>1. \A u \in Larger(cur[o]) : Holder(u) \in Holds(o)
      BY <2>1 DEF TaskOf
    <3>2. \A u \in Larger(cur[o]) : Holder(u)' = Holder(u)
      BY <2>1, <2>3, <3>1 DEF Untouched
    <3> QED BY <2>3, <3>2 DEF Merged
  <2>7. Holds(o)' = Holds(o)
    BY <1>1, <2>6 DEF Holds
  <2>8. Marked(Saddle(current[o])) => Marked(Saddle(current[o]))'
    <3> HAVE Marked(Saddle(current[o]))
    <3>1. propagationMask'[Saddle(current[o])] # Null
      BY <2>4 DEF Marked
    <3> QED BY <2>4, <3>1 DEF Marked
  <2>9. pc[o] # "pop" => (Marked(cur[o])' <=> Marked(cur[o]))
    BY <1>1, <2>1 DEF Untouched, Marked
  <2>10. Marked(cur[o]) => Marked(cur[o])'
    BY <1>1, <2>2 DEF Marked
  <2>11. queue'[current[o]] = queue[current[o]]
    BY <2>1, <2>2 DEF Untouched
  <2>12. \A h \in Holds(o) : /\ h \in propagations' /\ comp'[h] = h
                             /\ Saddle(h)' = Saddle(h)
    <3>1. \A h \in Holds(o) : h \in propagations
      BY <1>3, ActiveFacts
    <3> QED BY <2>1, <3>1 DEF Untouched
  <2>13. CASE pc[o] = "start"
    <3>1. current[o] = o /\ cur[o] = o
      BY <2>1, <2>13 DEF TaskOf
    <3>2. Saddle(o)' = Saddle(o)
      BY <2>2, <2>12, <3>1
    <3>3. Marked(o)' <=> Marked(o)
      BY <2>1, <2>13, <3>1 DEF Untouched, Marked
    <3> QED BY <1>1, <1>3, <2>1, <2>7, <2>11, <2>12, <2>13, <3>1, <3>2, <3>3
            DEF TaskOf, Active
  <2>14. CASE pc[o] = "pop"
    BY <1>1, <1>3, <2>1, <2>4, <2>7, <2>8, <2>10, <2>11, <2>12, <2>14
       DEF TaskOf, Active
  <2>15. CASE pc[o] = "capture"
    BY <1>1, <1>3, <2>1, <2>4, <2>5, <2>7, <2>8, <2>9, <2>12, <2>15
       DEF TaskOf, Active
  <2>16. CASE pc[o] \in {"merge", "unify"}
    <3>1. \A u \in Larger(cur[o]) : Holder(u) \in Holds(o)
      BY <2>1, <2>16 DEF TaskOf
    <3>2. \A u \in Larger(cur[o]) : Holder(u)' = Holder(u)
      BY <2>1, <2>3, <3>1 DEF Untouched
    <3> QED BY <1>1, <1>3, <2>1, <2>3, <2>7, <2>9, <2>12, <2>16, <3>1, <3>2
            DEF TaskOf, Active
  <2>17. CASE pc[o] = "mark"
    <3>1. \A u \in Larger(cur[o]) : Holder(u) = current[o]
      BY <2>1, <2>17 DEF TaskOf
    <3>2. \A u \in Larger(cur[o]) : Holder(u)' = current[o]
      BY <2>1, <2>2, <2>3, <3>1 DEF Untouched
    <3> QED BY <1>1, <1>3, <2>1, <2>3, <2>4, <2>7, <2>8, <2>9, <2>12, <2>17,
               <3>1, <3>2 DEF TaskOf, Active
  <2>18. Active(o)' <=> Active(o)
    BY <1>1 DEF Active
  <2> QED BY <1>3, <2>7, <2>13, <2>14, <2>15, <2>16, <2>17, <2>18
          DEF Active, AtWork
<1> QED BY <1>2, <1>3

(* Tasks that exclude each other go on doing so.                           *)
LEMMA ExclusiveKept ==
    ASSUME PInv, NEW t \in propagations, propagations' = propagations,
           \A o \in propagations \ {t} :
              /\ Active(o)' <=> Active(o)
              /\ Active(o) => Holds(o)' = Holds(o)
              /\ Active(t)' /\ Active(o) => Holds(t)' \cap Holds(o) = {}
    PROVE  Exclusive'
<1> SUFFICES ASSUME NEW a \in propagations, NEW b \in propagations, a # b,
                    Active(a)', Active(b)'
             PROVE  Holds(a)' \cap Holds(b)' = {}
  BY DEF Exclusive
<1>1. CASE a = t
  BY <1>1
<1>2. CASE b = t
  BY <1>2
<1>3. CASE a # t /\ b # t
  BY <1>3 DEF PInv, Exclusive
<1> QED BY <1>1, <1>2, <1>3
-------------------------------------------------------------------------------
(***************************************************************************)
(* The saddles.                                                            *)
(***************************************************************************)
(* Two disjoint shares count together.                                     *)
LEMMA CardinalityOfBoth ==
    ASSUME NEW A, NEW B, IsFiniteSet(A), IsFiniteSet(B), A \cap B = {}
    PROVE  /\ Cardinality(A \cup B) = Cardinality(A) + Cardinality(B)
           /\ Cardinality(A) \in Nat /\ Cardinality(B) \in Nat
<1>1. Cardinality(A \cap B) = 0
  BY FS_EmptySet
<1>2. Cardinality(A) \in Nat /\ Cardinality(B) \in Nat
  BY FS_CardinalityType
<1>3. Cardinality(A \cup B) = Cardinality(A) + Cardinality(B) - Cardinality(A \cap B)
  BY FS_Union
<1> QED BY <1>1, <1>2, <1>3

(* What another task works on does not end at the open vertex t captures   *)
(* a share of.                                                             *)
LEMMA CapturedAlone ==
    ASSUME Base, Types, PInv, NEW t \in propagations, pc[t] = "capture",
           NEW o \in propagations \ {t}, Active(o), NEW h \in Holds(o)
    PROVE  Saddle(h) # cur[t] /\ h # current[t]
<1>1. Active(t) /\ cur[t] \in Vert
  BY DEF Active, AtWork, Types
<1>2. ~Marked(cur[t]) /\ Own(t) # {}
  BY DEF PInv, TaskOf
<1>3. PICK u \in Larger(cur[t]) : Holder(u) = current[t]
  BY <1>2 DEF Own
<1>4. current[t] \notin Holds(o) /\ TaskOf(o) /\ current[t] # current[o]
  BY <1>1, Sole DEF PInv
<1>5. \A p \in propagations : p # cur[t]
  BY <1>3 DEF Types
<1>6. ASSUME Saddle(h) = cur[t] PROVE FALSE
  <2>1. CASE pc[o] = "start"
    <3>1. h = o /\ Saddle(o) = o
      BY <1>4, <2>1 DEF TaskOf, Holds
    <3> QED BY <1>5, <1>6, <3>1
  <2>2. CASE pc[o] \in {"pop", "capture"}
    <3>1. h = current[o] /\ h \in propagations
      BY <2>2, ActiveFacts DEF Holds
    <3>2. Marked(Saddle(h)) \/ Saddle(h) = h
      BY <1>4, <2>2, <3>1 DEF TaskOf
    <3> QED BY <1>2, <1>5, <1>6, <3>1, <3>2
  <2>3. CASE pc[o] \in {"merge", "unify"}
    <3>1. cur[o] = cur[t]
      BY <1>4, <1>6, <2>3 DEF TaskOf
    <3>2. Holder(u) \in Holds(o)
      BY <1>3, <1>4, <2>3, <3>1 DEF TaskOf
    <3> QED BY <1>3, <1>4, <3>2
  <2>4. CASE pc[o] = "mark"
    <3>1. h = current[o]
      BY <2>4 DEF Holds
    <3>2. cur[o] = cur[t]
      BY <1>2, <1>4, <1>6, <2>4, <3>1 DEF TaskOf
    <3>3. Holder(u) = current[o]
      BY <1>3, <1>4, <2>4, <3>2 DEF TaskOf
    <3> QED BY <1>3, <1>4, <3>3
  <2> QED BY <2>1, <2>2, <2>3, <2>4 DEF Active, AtWork
<1> QED BY <1>4, <1>6

(* A task takes what it holds above a saddle off the counter. If that was  *)
(* the last share, all that is above the saddle is held by propagations    *)
(* that stopped there, which are now its own.                              *)
LEMMA CaptureKeeps ==
    ASSUME Base, Types, PInv, step = "propagate", NEW t \in Vert, Capture(t)
    PROVE  Base' /\ Types' /\ PInv'
<1>0. PICK c, v : c = current[t] /\ v = cur[t]
  OBVIOUS
<1> DEFINE left == segmentation[v] - registered[t]
           next == IF left = -(Cardinality(Larger(v)) - 0) - 1
                   THEN "merge" ELSE "stopped"
<1>1. Active(t) /\ t \in propagations /\ pc[t] = "capture"
  BY TaskFacts DEF Capture, RegisterWith, Active, AtWork
<1>2. /\ UNCHANGED <<request, order, propagations, propagationMask, comp>>
      /\ UNCHANGED <<queue, current, cur, registered, todo, segmentSize>>
  BY DEF Capture, RegisterWith, propagating, fields, locals
<1>3. /\ criticalPoints' = [criticalPoints EXCEPT ![c] = Append(@, v)]
      /\ segmentation' = [segmentation EXCEPT ![v] = left]
      /\ Goto(t, next)
  BY <1>0 DEF Capture, RegisterWith
<1>4. /\ c \in propagations /\ c \in Vert /\ v \in Vert /\ comp[c] = c
      /\ Larger(c) = {} /\ Holds(t) = {c} /\ propagations \subseteq Vert
  BY <1>0, <1>1, ActiveFacts DEF Types, Holds
<1>5. /\ Marked(Saddle(c)) /\ ~Marked(v)
      /\ registered[t] = Cardinality(Own(t)) /\ Own(t) # {}
  BY <1>0, <1>1 DEF PInv, TaskOf
<1>6. Saddle(c) # v /\ Saddle(c) \in Vert /\ Holder(Saddle(c)) = c
  BY <1>4, <1>5, SaddleFacts DEF PInv, SaddleOf
<1>7. /\ Own(t) \subseteq Larger(v) /\ \A u \in Own(t) : Holder(u) = c
      /\ Larger(v) \subseteq Vert /\ IsFiniteSet(Larger(v)) /\ v # c
  BY <1>0, <1>4, <1>5, LargerFacts DEF Own
<1>8. left \in Int
  BY <1>4 DEF Types
<1>9. Base'
  <2>1. next \in AtWork \cup {"none", "stopped"}
    BY DEF AtWork
  <2>2. UNCHANGED propagating /\ segmentSize' \in [Vert -> Nat]
    BY <1>2 DEF Capture, RegisterWith, Base
  <2> HIDE DEF next
  <2> QED BY <1>3, <2>1, <2>2, BaseKept
<1>10. Types'
  <2>1. criticalPoints' \in [Vert -> Seq(Vert) \ {<<>>}]
    <3>1. criticalPoints[c] \in Seq(Vert)
      BY <1>4 DEF Types
    <3>2. Append(criticalPoints[c], v) \in Seq(Vert) \ {<<>>}
      BY <1>4, <3>1
    <3> QED BY <1>3, <3>2 DEF Types
  <2>2. segmentation' \in [Vert -> Int]
    BY <1>3, <1>8 DEF Types
  <2> HIDE DEF next
  <2> QED BY <1>1, <1>2, <1>3, <2>1, <2>2, TypesKept DEF Types
<1>11. pc'[t] = next /\ current'[t] = c /\ cur'[t] = v
  <2> HIDE DEF next
  <2> QED BY <1>0, <1>1, <1>2, <1>3 DEF Base, Types, Goto
<1>12. OthersStill(t)
  <2> HIDE DEF next
  <2> QED BY <1>2, <1>3 DEF OthersStill, Base, Types, Goto
<1>13. /\ \A u \in Vert : /\ Larger(u)' = Larger(u) /\ Holder(u)' = Holder(u)
                          /\ Marked(u)' <=> Marked(u)
                          /\ u # c => Saddle(u)' = Saddle(u)
       /\ Vert' = Vert /\ Saddle(c)' = v
  <2>1. \A u \in Vert : u # c => criticalPoints'[u] = criticalPoints[u]
    BY <1>3 DEF Types
  <2>2. criticalPoints'[c] = Append(criticalPoints[c], v)
    BY <1>3, <1>4 DEF Types
  <2>3. Last(criticalPoints'[c]) = v
    <3>1. criticalPoints[c] \in Seq(Vert)
      BY <1>4 DEF Types
    <3> QED BY <1>4, <2>2, <3>1 DEF Last
  <2> QED BY <1>2, <2>1, <2>3
          DEF Larger, Neighbors, Holder, Marked, Saddle, Vert
<1>14. Shares(v)' = Shares(v) \cup Own(t) /\ Shares(v) \cap Own(t) = {}
  <2>1. \A u \in Larger(v) : Marked(u) => Holder(u) \in Vert /\ Holder(u) # Null
    BY <1>4, <1>7, HolderFacts
  <2>2. \A u \in Own(t) : Marked(u)
    BY <1>4, <1>7, HolderFacts, VertFacts DEF Base
  <2>3. Own(t) = {u \in Larger(v) : Holder(u) = c}
    BY <1>0 DEF Own
  <2>4. Shares(v) \cap Own(t) = {}
    BY <1>6, <1>7 DEF Shares
  <2>5. ASSUME NEW u \in Larger(v)
        PROVE  (Marked(u)' /\ Saddle(Holder(u))' = v)
                  <=> (Marked(u) /\ Saddle(Holder(u)) = v) \/ Holder(u) = c
    <3>1. u \in Vert /\ Holder(u)' = Holder(u) /\ (Marked(u)' <=> Marked(u))
      BY <1>7, <1>13
    <3>2. CASE Holder(u) = c
      <4>1. Saddle(Holder(u))' = v
        BY <1>13, <3>1, <3>2 DEF Saddle
      <4> QED BY <2>2, <2>3, <3>1, <3>2, <4>1
    <3>3. CASE Holder(u) # c /\ Marked(u)
      <4>1. Saddle(Holder(u))' = Saddle(Holder(u))
        BY <1>13, <2>1, <3>1, <3>3 DEF Saddle
      <4> QED BY <3>1, <3>3, <4>1
    <3> QED BY <3>1, <3>2, <3>3
  <2>6. Larger(v)' = Larger(v)
    BY <1>4, <1>13
  <2>7. Shares(v)' = {u \in Larger(v) : Marked(u)' /\ Saddle(Holder(u))' = v}
    BY <2>6 DEF Shares
  <2>8. Shares(v)' = {u \in Larger(v) : (Marked(u) /\ Saddle(Holder(u)) = v)
                                           \/ Holder(u) = c}
    BY <2>5, <2>7
  <2> QED BY <2>3, <2>4, <2>8 DEF Shares
<1>15. /\ Cardinality(Shares(v)') = Cardinality(Shares(v)) + registered[t]
       /\ Cardinality(Shares(v)) \in Nat /\ registered[t] \in Nat
       /\ Shares(v)' \subseteq Larger(v)
  <2>1. Shares(v) \subseteq Larger(v)
    BY DEF Shares
  <2>2. IsFiniteSet(Shares(v)) /\ IsFiniteSet(Own(t))
    BY <1>7, <2>1, FS_Subset
  <2> QED BY <1>5, <1>7, <1>14, <2>1, <2>2, CardinalityOfBoth
<1>16. segmentation[v] = -1 - Cardinality(Shares(v))
  BY <1>4, <1>5 DEF PInv, CountOf
<1>17. left = -1 - Cardinality(Shares(v)')
  BY <1>15, <1>16
<1>18. next = "merge" => Shares(v)' = Larger(v)
  <2> HAVE next = "merge"
  <2>1. Cardinality(Larger(v)) \in Nat
    BY <1>7, FS_CardinalityType
  <2>2. left = -(Cardinality(Larger(v)) - 0) - 1
    OBVIOUS
  <2>3. Cardinality(Shares(v)') = Cardinality(Larger(v))
    <3>1. Cardinality(Shares(v)') \in Nat
      BY <1>15
    <3> HIDE DEF left, next
    <3> QED BY <1>17, <2>1, <2>2, <3>1
  <2> QED BY <1>7, <1>15, <2>3, FS_Subset
<1>19. ASSUME next = "merge", NEW u \in Larger(v)
       PROVE  /\ Marked(u) /\ Holder(u) \in propagations
              /\ comp[Holder(u)] = Holder(u)
              /\ Saddle(Holder(u))' = v
              /\ Holder(u) # c => Saddle(Holder(u)) = v
  <2>1. u \in Shares(v) \cup Own(t) /\ u \in Vert
    BY <1>7, <1>14, <1>18, <1>19
  <2>2. Marked(u)
    BY <1>4, <1>7, <2>1, HolderFacts, VertFacts DEF Base, Shares
  <2>3. Holder(u) \in propagations /\ comp[Holder(u)] = Holder(u)
    BY <2>1, <2>2, HolderFacts
  <2>4. Holder(u) # c => Saddle(Holder(u)) = v
    BY <1>7, <2>1 DEF Shares
  <2>5. Saddle(Holder(u))' = v
    <3>1. Holder(u)' = Holder(u)
      BY <1>13, <2>1
    <3>2. CASE Holder(u) = c
      BY <1>13, <3>1, <3>2 DEF Saddle
    <3>3. CASE Holder(u) # c
      BY <1>4, <1>13, <2>3, <2>4, <3>1, <3>3 DEF Saddle
    <3> QED BY <3>2, <3>3
  <2> QED BY <2>2, <2>3, <2>4, <2>5
<1>20. Holds(t)' = {c} \cup IF next = "merge" THEN Merged(t) ELSE {}
  <2>1. Merged(t)' = Merged(t)
    <3>1. Larger(cur[t])' = Larger(v)
      BY <1>2, <1>11 DEF Larger, Neighbors
    <3> QED BY <1>0, <1>7, <1>13, <3>1 DEF Merged
  <2>2. next \in {"merge", "stopped"}
    OBVIOUS
  <2> HIDE DEF next
  <2> QED BY <1>11, <2>1, <2>2 DEF Holds
<1>21. \A h \in Holds(t)' : /\ h \in propagations /\ comp[h] = h
                            /\ next = "merge" => Saddle(h)' = v
                            /\ h # c => Saddle(h) = v
  <2>1. ASSUME next = "merge", NEW h \in Merged(t)
        PROVE  /\ h \in propagations /\ comp[h] = h /\ Saddle(h)' = v
               /\ h # c => Saddle(h) = v
    <3>1. PICK u \in Larger(v) : h = Holder(u)
      BY <1>0 DEF Merged
    <3>2. h \in propagations /\ comp[h] = h /\ (h # c => Saddle(h) = v)
      BY <1>19, <2>1, <3>1
    <3>3. Saddle(h)' = v
      BY <1>4, <1>13, <3>2
    <3> QED BY <3>2, <3>3
  <2> HIDE DEF next
  <2> QED BY <1>4, <1>13, <1>20, <2>1
<1>22. ASSUME NEW o \in propagations \ {t}, Active(o) PROVE Untouched(o)
  <2>1. \A h \in Holds(o) : h # c /\ h \in propagations /\ comp[h] = h
    BY <1>0, <1>1, <1>22, CapturedAlone DEF PInv, TaskOf
  <2>2. \A h \in Holds(o) : Saddle(h)' = Saddle(h)
    BY <1>4, <1>13, <2>1
  <2> QED BY <1>2, <1>13, <2>1, <2>2 DEF Untouched
<1>23. ASSUME NEW o \in propagations \ {t}
       PROVE  /\ TaskOf(o)'
              /\ Active(o)' <=> Active(o)
              /\ Active(o) => Holds(o)' = Holds(o)
              /\ Active(t)' /\ Active(o) => Holds(t)' \cap Holds(o) = {}
  <2>1. /\ TaskOf(o)' /\ (Active(o)' <=> Active(o))
        /\ Active(o) => Holds(o)' = Holds(o)
    BY <1>1, <1>2, <1>12, <1>13, <1>22, OtherTask DEF Types
  <2>2. ASSUME Active(o), NEW h \in Holds(t)', h \in Holds(o) PROVE FALSE
    <3>1. h # c /\ Saddle(h) # v
      BY <1>0, <1>1, <2>2, CapturedAlone
    <3> QED BY <1>21, <3>1
  <2> QED BY <2>1, <2>2
<1>24. Exclusive'
  BY <1>1, <1>2, <1>23, ExclusiveKept
<1>25. TaskOf(t)'
  <2>1. CASE next = "merge"
    <3>1. /\ Larger(cur[t])' = Larger(v)
          /\ Marked(cur[t])' <=> Marked(v)
      BY <1>2, <1>11 DEF Larger, Neighbors, Marked
    <3>2. Larger(v) # {}
      BY <1>5, <1>7
    <3>3. \A u \in Larger(v) : Holder(u)' \in Holds(t)'
      <4>1. \A u \in Larger(v) : Holder(u) \in Merged(t)
        BY <1>0 DEF Merged
      <4>2. Merged(t) \subseteq Holds(t)'
        BY <1>20, <2>1
      <4> QED BY <1>7, <1>13, <4>1, <4>2
    <3>4. \A h \in Holds(t)' : /\ h \in propagations' /\ comp'[h] = h
                               /\ Saddle(h)' = v
      BY <1>2, <1>21, <2>1
    <3> HIDE DEF next
    <3> QED BY <1>5, <1>11, <2>1, <3>1, <3>2, <3>3, <3>4
            DEF TaskOf, Active, AtWork
  <2>2. CASE next = "stopped"
    <3> HIDE DEF next
    <3> QED BY <1>11, <2>2 DEF TaskOf, Active, AtWork
  <2> QED BY <2>1, <2>2
<1>26. ASSUME NEW p \in propagations PROVE SaddleOf(p)' /\ QueueOf(p)'
  <2>1. SaddleOf(p) /\ QueueOf(p) /\ p \in Vert /\ Saddle(p) \in Vert
    BY <1>4, SaddleFacts DEF PInv
  <2>2. queue[p] \subseteq Vert /\ \A x \in queue[p] : Larger(x) \subseteq Vert
    BY <2>1, LargerFacts DEF Types
  <2>3. Larger(Saddle(p)) \subseteq Vert
    BY <2>1, LargerFacts
  <2>4. CASE p = c
    <3>1. SaddleOf(p)'
      <4>1. \E u \in Larger(v)' : Holder(u)' = c
        BY <1>4, <1>5, <1>7, <1>13
      <4>2. Saddle(p)' = v /\ ~Marked(v)'
        BY <1>4, <1>5, <1>13, <2>4
      <4>3. ~Marked(Saddle(p))' /\ Larger(Saddle(p))' = Larger(v)'
        BY <4>2 DEF Marked, Larger, Neighbors
      <4> QED BY <2>4, <4>1, <4>2, <4>3 DEF SaddleOf
    <3>2. \A u : Visiting(c, u) => u = v
      <4> SUFFICES ASSUME NEW u, NEW o \in propagations,
                          pc[o] \in {"capture", "mark"},
                          current[o] = c, cur[o] = u
                   PROVE  u = v
        BY DEF Visiting
      <4>1. o = t
        BY <1>0, <1>1, Sole DEF Active, AtWork
      <4> QED BY <1>0, <4>1
    <3>3. \A x \in queue[c] :
             ~Marked(x) => \E u \in Larger(x) : Holder(u) = c \/ u = v
      BY <1>4, <1>5, <1>6, <2>1, <2>4, <3>2 DEF QueueOf
    <3>4. QueueOf(p)'
      BY <1>2, <1>13, <2>2, <2>4, <3>3 DEF QueueOf
    <3> QED BY <3>1, <3>4
  <2>5. CASE p # c
    <3>1. Saddle(p)' = Saddle(p) /\ Larger(Saddle(p))' = Larger(Saddle(p))
      BY <1>13, <2>1, <2>5 DEF Larger, Neighbors
    <3>2. /\ Marked(Saddle(p))' <=> Marked(Saddle(p))
          /\ Holder(Saddle(p))' = Holder(Saddle(p))
      BY <1>2, <3>1 DEF Marked, Holder
    <3>3. SaddleOf(p)'
      BY <1>2, <1>13, <2>1, <2>3, <3>1, <3>2 DEF SaddleOf
    <3>4. \A u : Visiting(p, u) => Visiting(p, u)'
      BY <1>0, <1>2, <1>12, <2>5 DEF Visiting, OthersStill
    <3>5. QueueOf(p)'
      BY <1>2, <1>13, <2>1, <2>2, <3>1, <3>4 DEF QueueOf
    <3> QED BY <3>3, <3>5
  <2> QED BY <2>4, <2>5
<1>27. ASSUME NEW w \in Vert PROVE CountOf(w)'
  <2>1. CASE w = v
    <3>1. segmentation'[v] = left
      BY <1>3, <1>4 DEF Types
    <3> HIDE DEF left
    <3> QED BY <1>17, <2>1, <3>1 DEF CountOf
  <2>2. CASE Marked(w)
    BY <1>13, <2>2 DEF CountOf
  <2>3. CASE w # v /\ ~Marked(w)
    <3>1. Larger(w) \subseteq Vert /\ Larger(w)' = Larger(w)
      BY <1>13, LargerFacts
    <3>2. ASSUME NEW u \in Larger(w)
          PROVE  (Marked(u)' /\ Saddle(Holder(u))' = w)
                    <=> (Marked(u) /\ Saddle(Holder(u)) = w)
      <4>1. u \in Vert /\ Holder(u)' = Holder(u) /\ (Marked(u)' <=> Marked(u))
        BY <1>13, <3>1
      <4>2. CASE Holder(u) = c
        <5>1. Saddle(Holder(u))' = v
          BY <1>13, <4>1, <4>2 DEF Saddle
        <5>2. Saddle(Holder(u)) # w
          BY <1>5, <2>3, <4>2
        <5> QED BY <2>3, <5>1, <5>2
      <4>3. CASE Holder(u) # c /\ Marked(u)
        <5>1. Holder(u) \in Vert
          BY <1>4, <4>1, <4>3, HolderFacts
        <5>2. Saddle(Holder(u))' = Saddle(Holder(u))
          BY <1>13, <4>1, <4>3, <5>1 DEF Saddle
        <5> QED BY <4>1, <5>2
      <4> QED BY <4>1, <4>2, <4>3
    <3>3. Shares(w)' = Shares(w)
      BY <3>1, <3>2 DEF Shares
    <3>4. segmentation'[w] = segmentation[w]
      BY <1>3, <2>3 DEF Types
    <3> QED BY <1>13, <2>3, <3>3, <3>4 DEF PInv, CountOf
  <2> QED BY <2>1, <2>2, <2>3
<1>28. Representatives' /\ Closed'
  <2>1. \A w \in Vert : Larger(w) \subseteq Vert
    BY LargerFacts
  <2> QED BY <1>2, <1>13, <2>1 DEF PInv, Representatives, Closed
<1>29. propagations' = propagations /\ Vert' = Vert
  BY <1>2, <1>13
<1>30. \A o \in propagations : TaskOf(o)'
  BY <1>23, <1>25
<1>31. PInv'
  BY <1>24, <1>26, <1>27, <1>28, <1>29, <1>30 DEF PInv
<1> QED BY <1>9, <1>10, <1>31

(* The propagation is already the one that takes the others in.            *)
LEMMA UnifySameKeeps ==
    ASSUME Base, Types, PInv, step = "propagate", NEW t \in Vert,
           Unify(t, current[t])
    PROVE  Base' /\ Types' /\ PInv'
<1>0. PICK c, v, rest : c = current[t] /\ v = cur[t] /\ rest = todo[t] \ {c}
  OBVIOUS
<1> DEFINE next == IF todo[t] = {c} THEN "mark" ELSE "unify"
<1>1. Active(t) /\ t \in propagations /\ pc[t] = "unify" /\ c \in todo[t]
  BY <1>0, TaskFacts DEF Unify, Active, AtWork
<1>2. /\ UNCHANGED <<request, order, propagations, propagationMask, comp,
                     criticalPoints, segmentation>>
      /\ UNCHANGED <<queue, current, cur, registered, segmentSize>>
  BY DEF Unify, propagating, fields
<1>3. /\ todo' = [todo EXCEPT ![t] = rest]
      /\ Goto(t, next)
  BY <1>0 DEF Unify
<1>4. /\ Holds(t) = {c} \cup todo[t] /\ rest \subseteq Vert
      /\ c \in Vert /\ v \in Vert /\ propagations \subseteq Vert
  BY <1>0, <1>1, ActiveFacts DEF Holds, Types
<1>5. Base'
  <2>1. next \in AtWork \cup {"none", "stopped"}
    BY DEF AtWork
  <2>2. UNCHANGED propagating /\ segmentSize' \in [Vert -> Nat]
    BY <1>2 DEF Unify, Base
  <2> HIDE DEF next
  <2> QED BY <1>3, <2>1, <2>2, BaseKept
<1>6. Types'
  <2>1. todo' \in [Vert -> SUBSET Vert]
    BY <1>3, <1>4 DEF Types
  <2> HIDE DEF next
  <2> QED BY <1>1, <1>2, <1>3, <2>1, TypesKept DEF Types
<1>7. pc'[t] = next /\ current'[t] = c /\ cur'[t] = v /\ todo'[t] = rest
  <2> HIDE DEF next
  <2> QED BY <1>0, <1>2, <1>3 DEF Base, Types, Goto
<1>8. OthersStill(t)
  <2> HIDE DEF next
  <2> QED BY <1>2, <1>3 DEF OthersStill, Base, Types, Goto
<1>9. Holds(t)' = {c} \cup IF next = "unify" THEN rest ELSE {}
  <2>1. next \in {"mark", "unify"}
    OBVIOUS
  <2> HIDE DEF next
  <2> QED BY <1>7, <2>1 DEF Holds
<1>10. Holds(t)' \subseteq Holds(t)
  <2> HIDE DEF next
  <2> QED BY <1>0, <1>4, <1>9
<1>11. /\ \A u \in Vert : /\ Larger(u)' = Larger(u) /\ Holder(u)' = Holder(u)
                          /\ Marked(u)' <=> Marked(u)
                          /\ Saddle(u)' = Saddle(u)
       /\ Vert' = Vert
  BY <1>2 DEF Larger, Neighbors, Holder, Marked, Saddle, Vert
<1>12. TaskOf(t)'
  <2>1. TaskOf(t)
    BY <1>1 DEF PInv
  <2>2. /\ \A h \in Holds(t) : h \in propagations /\ comp[h] = h
        /\ ~Marked(v) /\ Larger(v) # {}
        /\ \A h \in Holds(t) : Saddle(h) = v
        /\ \A u \in Larger(v) : Holder(u) \in Holds(t)
    BY <1>0, <1>1, <2>1 DEF TaskOf
  <2>3. Larger(cur[t])' = Larger(v) /\ Larger(v) \subseteq Vert
    BY <1>2, <1>4, <1>7, LargerFacts DEF Larger, Neighbors
  <2>4. Marked(cur[t])' <=> Marked(v)
    BY <1>2, <1>7 DEF Marked
  <2>5. \A h \in Holds(t)' : /\ h \in propagations' /\ comp'[h] = h
                             /\ Saddle(h)' = v
    BY <1>2, <1>4, <1>10, <1>11, <2>2
  <2>6. CASE next = "unify"
    <3>1. Holds(t)' = Holds(t)
      BY <1>0, <1>1, <1>4, <1>9, <2>6
    <3>2. \A u \in Larger(v) : Holder(u)' \in Holds(t)'
      BY <1>11, <2>2, <2>3, <3>1
    <3> HIDE DEF next
    <3> QED BY <1>7, <2>2, <2>3, <2>4, <2>5, <2>6, <3>2
            DEF TaskOf, Active, AtWork
  <2>7. CASE next = "mark"
    <3>1. Holds(t) = {c}
      BY <1>4, <2>7
    <3>2. \A u \in Larger(v) : Holder(u)' = c
      BY <1>11, <2>2, <2>3, <3>1
    <3>3. Saddle(current[t])' = v
      BY <1>2, <1>4, <1>7, <1>11, <2>2, <3>1 DEF Saddle
    <3> HIDE DEF next
    <3> QED BY <1>7, <2>2, <2>3, <2>4, <2>5, <2>7, <3>2, <3>3
            DEF TaskOf, Active, AtWork
  <2> QED BY <2>6, <2>7
<1>13. QueueOf(c)'
  <2>1. QueueOf(c) /\ queue[c] \subseteq Vert
    BY <1>1, <1>4, ActiveFacts DEF PInv, Types
  <2>2. \A x \in queue[c] : Larger(x) \subseteq Vert
    BY <2>1, LargerFacts
  <2>3. \A u : Visiting(c, u) => Visiting(c, u)'
    BY <1>1, <1>2, <1>8 DEF Visiting, OthersStill
  <2> QED BY <1>2, <1>4, <1>11, <2>1, <2>2, <2>3 DEF QueueOf
<1>14. \A p \in Vert \ {c} : queue'[p] = queue[p]
  BY <1>2
<1> QED BY <1>0, <1>1, <1>2, <1>5, <1>6, <1>8, <1>10, <1>12, <1>13, <1>14,
           QuietStep

(* It takes another one in: its vertices, its queue and its size.          *)
LEMMA UnifyOtherKeeps ==
    ASSUME Base, Types, PInv, step = "propagate", NEW t \in Vert, NEW p,
           Unify(t, p), p # current[t]
    PROVE  Base' /\ Types' /\ PInv'
<1>0. PICK c, v, rest : c = current[t] /\ v = cur[t] /\ rest = todo[t] \ {p}
  OBVIOUS
<1> DEFINE next == IF todo[t] = {p} THEN "mark" ELSE "unify"
<1>1. Active(t) /\ t \in propagations /\ pc[t] = "unify" /\ p \in todo[t]
  BY TaskFacts DEF Unify, Active, AtWork
<1>2. /\ UNCHANGED <<request, order, propagations, propagationMask,
                     criticalPoints, segmentation>>
      /\ UNCHANGED <<current, cur, registered>>
  BY DEF Unify, propagating, fields
<1>3. /\ todo' = [todo EXCEPT ![t] = rest]
      /\ Goto(t, next)
      /\ comp' = [q \in Vert |-> IF comp[q] = p THEN c ELSE comp[q]]
      /\ queue' = [queue EXCEPT ![c] = @ \cup queue[p], ![p] = {}]
      /\ segmentSize' = [segmentSize EXCEPT ![c] = @ + segmentSize[p]]
  BY <1>0 DEF Unify, MergedQueue, MergedSize
<1>4. TaskOf(t) /\ Holds(t) = {c} \cup todo[t]
  BY <1>0, <1>1 DEF PInv, Holds
<1>5. /\ \A h \in Holds(t) : /\ h \in propagations /\ comp[h] = h
                             /\ Saddle(h) = v
      /\ ~Marked(v) /\ Larger(v) # {}
      /\ \A u \in Larger(v) : Holder(u) \in Holds(t)
  BY <1>0, <1>1, <1>4 DEF TaskOf
<1>6. /\ c \in propagations /\ p \in propagations /\ propagations \subseteq Vert
      /\ c \in Vert /\ p \in Vert /\ v \in Vert /\ rest \subseteq Vert
      /\ comp[c] = c /\ comp[p] = p /\ Saddle(c) = v /\ Saddle(p) = v
      /\ p # c /\ Null \notin Vert
  BY <1>0, <1>1, <1>4, <1>5, VertFacts DEF Types, Base
<1>7. Base'
  <2>1. next \in AtWork \cup {"none", "stopped"}
    BY DEF AtWork
  <2>2. segmentSize' \in [Vert -> Nat]
    BY <1>3, <1>6 DEF Base
  <2>3. UNCHANGED propagating
    BY DEF Unify
  <2> HIDE DEF next
  <2> QED BY <1>3, <2>1, <2>2, <2>3, BaseKept
<1>8. Types'
  <2>1. todo' \in [Vert -> SUBSET Vert]
    BY <1>3, <1>6 DEF Types
  <2>2. comp' \in [Vert -> Vert] /\ \A q \in propagations : comp'[q] \in propagations
    BY <1>3, <1>6 DEF Types
  <2>3. queue' \in [Vert -> SUBSET Vert]
    BY <1>3, <1>6 DEF Types
  <2> HIDE DEF next
  <2> QED BY <1>1, <1>2, <1>3, <2>1, <2>2, <2>3, TypesKept DEF Types
<1>9. /\ pc'[t] = next /\ current'[t] = c /\ cur'[t] = v /\ todo'[t] = rest
      /\ queue'[c] = queue[c] \cup queue[p] /\ queue'[p] = {}
      /\ \A q \in Vert : q # c /\ q # p => queue'[q] = queue[q]
      /\ \A q \in Vert : comp'[q] = IF comp[q] = p THEN c ELSE comp[q]
  <2> HIDE DEF next
  <2> QED BY <1>0, <1>2, <1>3, <1>6 DEF Base, Types, Goto
<1>10. OthersStill(t)
  <2> HIDE DEF next
  <2> QED BY <1>2, <1>3 DEF OthersStill, Base, Types, Goto
<1>11. Holds(t)' = {c} \cup IF next = "unify" THEN rest ELSE {}
  <2>1. next \in {"mark", "unify"}
    OBVIOUS
  <2> HIDE DEF next
  <2> QED BY <1>9, <2>1 DEF Holds
<1>12. Holds(t)' \subseteq Holds(t) /\ p \notin Holds(t)'
  <2> HIDE DEF next
  <2> QED BY <1>0, <1>4, <1>6, <1>11
<1>13. /\ \A u \in Vert :
             /\ Larger(u)' = Larger(u)
             /\ Holder(u)' = IF Holder(u) = p THEN c ELSE Holder(u)
             /\ Marked(u)' <=> Marked(u)
             /\ Saddle(u)' = Saddle(u)
       /\ Vert' = Vert
  <2>1. \A u \in Vert : Holder(u)' = IF Holder(u) = p THEN c ELSE Holder(u)
    <3>1. \A u \in Vert : propagationMask[u] = Null \/ propagationMask[u] \in Vert
      BY <1>6 DEF Types
    <3> QED BY <1>2, <1>6, <1>9, <3>1 DEF Holder
  <2> QED BY <1>2, <2>1 DEF Larger, Neighbors, Marked, Saddle, Vert
<1>14. TaskOf(t)'
  <2>1. Larger(cur[t])' = Larger(v) /\ Larger(v) \subseteq Vert
    BY <1>2, <1>6, <1>9, LargerFacts DEF Larger, Neighbors
  <2>2. Marked(cur[t])' <=> Marked(v)
    BY <1>2, <1>9 DEF Marked
  <2>3. \A h \in Holds(t)' : /\ h \in propagations' /\ comp'[h] = h
                             /\ Saddle(h)' = v
    BY <1>2, <1>5, <1>6, <1>9, <1>12, <1>13
  <2>4. CASE next = "unify"
    <3>1. Holds(t)' = Holds(t) \ {p}
      BY <1>0, <1>4, <1>6, <1>11, <2>4
    <3>2. c \in Holds(t)'
      BY <1>11
    <3>3. \A u \in Larger(v) : Holder(u)' \in Holds(t)'
      <4> HIDE DEF next
      <4> QED BY <1>5, <1>13, <2>1, <3>1, <3>2
    <3> HIDE DEF next
    <3> QED BY <1>5, <1>9, <2>1, <2>2, <2>3, <2>4, <3>3
            DEF TaskOf, Active, AtWork
  <2>5. CASE next = "mark"
    <3>1. Holds(t) = {c, p}
      BY <1>4, <2>5
    <3>2. \A u \in Larger(v) : Holder(u)' = c
      <4> HIDE DEF next
      <4> QED BY <1>5, <1>13, <2>1, <3>1
    <3>3. Saddle(current[t])' = v
      BY <1>2, <1>6, <1>9, <1>13 DEF Saddle
    <3> HIDE DEF next
    <3> QED BY <1>5, <1>9, <2>1, <2>2, <2>3, <2>5, <3>2, <3>3
            DEF TaskOf, Active, AtWork
  <2> QED BY <2>4, <2>5
<1>15. ASSUME NEW o \in propagations \ {t}, Active(o)
       PROVE  Untouched(o) /\ p \notin Holds(o) /\ c \notin Holds(o)
  <2>1. /\ Holds(t) \cap Holds(o) = {}
        /\ \A h \in Holds(o) : h \in propagations /\ comp[h] = h
    BY <1>1, <1>15 DEF PInv, Exclusive, TaskOf
  <2>2. p \notin Holds(o) /\ c \notin Holds(o)
    BY <1>1, <1>4, <2>1
  <2>3. \A h \in Holds(o) : /\ comp'[h] = h /\ Saddle(h)' = Saddle(h)
                            /\ queue'[h] = queue[h]
    BY <1>6, <1>9, <1>13, <2>1, <2>2
  <2>4. \A u \in Vert : Holder(u) \in Holds(o) \/ Holder(u)' \in Holds(o) =>
                           Holder(u)' = Holder(u)
    BY <1>13, <2>2
  <2> QED BY <1>2, <2>2, <2>3, <2>4 DEF Untouched
<1>16. ASSUME NEW o \in propagations \ {t}
       PROVE  /\ TaskOf(o)'
              /\ Active(o)' <=> Active(o)
              /\ Active(o) => Holds(o)' = Holds(o)
              /\ Active(t)' /\ Active(o) => Holds(t)' \cap Holds(o) = {}
  <2>1. /\ TaskOf(o)' /\ (Active(o)' <=> Active(o))
        /\ Active(o) => Holds(o)' = Holds(o)
    BY <1>1, <1>2, <1>6, <1>10, <1>13, <1>15, OtherTask
  <2>2. Active(o) => Holds(t) \cap Holds(o) = {}
    BY <1>1 DEF PInv, Exclusive
  <2> QED BY <1>12, <2>1, <2>2
<1>17. Exclusive'
  BY <1>1, <1>2, <1>16, ExclusiveKept
<1>18. ASSUME NEW q \in propagations, comp'[q] = q
       PROVE  q # p /\ comp[q] = q
  BY <1>6, <1>9, <1>18
<1>19. ASSUME NEW q \in propagations PROVE SaddleOf(q)'
  <2> SUFFICES ASSUME comp'[q] = q
               PROVE  /\ \/ Saddle(q)' = q
                         \/ \E u \in Larger(Saddle(q))' : Holder(u)' = q
                      /\ Marked(Saddle(q))' => Holder(Saddle(q))' = q
    BY DEF SaddleOf
  <2>1. q # p /\ comp[q] = q /\ q \in Vert /\ SaddleOf(q)
    BY <1>6, <1>18 DEF PInv
  <2>2. Saddle(q) \in Vert /\ Saddle(q)' = Saddle(q)
    BY <1>13, <2>1, SaddleFacts
  <2>3. /\ Larger(Saddle(q))' = Larger(Saddle(q)) /\ Larger(Saddle(q)) \subseteq Vert
        /\ Marked(Saddle(q))' <=> Marked(Saddle(q))
        /\ Holder(Saddle(q))' = IF Holder(Saddle(q)) = p THEN c
                                ELSE Holder(Saddle(q))
    <3>1. Larger(Saddle(q))' = Larger(Saddle(q))
      BY <1>2, <2>2 DEF Larger, Neighbors
    <3>2. Marked(Saddle(q))' <=> Marked(Saddle(q))
      BY <1>2, <2>2 DEF Marked
    <3>3. PICK s \in Vert : s = Saddle(q) /\ s = Saddle(q)'
      BY <2>2
    <3>4. Holder(Saddle(q))' = Holder(s)'
      BY <3>3 DEF Holder
    <3> QED BY <1>13, <2>2, <3>1, <3>2, <3>3, <3>4, LargerFacts
  <2>4. \/ Saddle(q) = q
        \/ \E u \in Larger(Saddle(q)) : Holder(u) = q
    BY <2>1 DEF SaddleOf
  <2>5. \A u \in Vert : Holder(u) = q => Holder(u)' = q
    BY <1>13, <2>1
  <2>6. Marked(Saddle(q)) => Holder(Saddle(q)) = q
    BY <2>1 DEF SaddleOf
  <2> QED BY <2>1, <2>2, <2>3, <2>4, <2>5, <2>6
<1>20. ASSUME NEW q \in propagations PROVE QueueOf(q)'
  <2> SUFFICES ASSUME comp'[q] = q PROVE QueueOf(q)'
    BY DEF QueueOf
  <2>1. q # p /\ comp[q] = q /\ q \in Vert /\ QueueOf(q) /\ QueueOf(p)
    BY <1>6, <1>18 DEF PInv
  <2>2. \A u : Visiting(q, u) => Visiting(q, u)'
    BY <1>1, <1>2, <1>10 DEF Visiting, OthersStill
  <2>3. ASSUME NEW u, Visiting(p, u) PROVE FALSE
    <3>1. PICK o \in propagations : pc[o] \in {"capture", "mark"} /\ current[o] = p
      BY <2>3 DEF Visiting
    <3>2. Active(o) /\ o # t
      BY <1>1, <3>1 DEF Active, AtWork
    <3> QED BY <1>1, <1>4, <3>1, <3>2, Sole
  <2>4. Larger(p) = {} /\ Saddle(p) # p
    BY <1>5, <1>6 DEF Types
  <2>5. ASSUME q = c, NEW x \in queue[p]
        PROVE  Marked(x) \/ \E u \in Larger(x) : Holder(u) = p \/ u = Saddle(c)
    BY <1>6, <2>1, <2>3, <2>4, <2>5 DEF QueueOf
  <2>6. queue'[q] \subseteq queue[q] \cup (IF q = c THEN queue[p] ELSE {})
    BY <1>9, <2>1
  <2>7. /\ queue[q] \cup queue[p] \subseteq Vert
        /\ \A x \in queue[q] \cup queue[p] : Larger(x) \subseteq Vert
    BY <1>6, <2>1, LargerFacts DEF Types
  <2>8. Saddle(q)' = Saddle(q)
    BY <1>13, <2>1
  <2>9. \A u \in Vert : /\ Holder(u) = q => Holder(u)' = q
                        /\ Holder(u) = p => Holder(u)' = c
    BY <1>13, <2>1
  <2>10. \A x \in queue[q] :
            \/ Marked(x)
            \/ x = q /\ Saddle(q) = q
            \/ \E u \in Larger(x) :
                  Holder(u) = q \/ u = Saddle(q) \/ Visiting(q, u)
    BY <2>1 DEF QueueOf
  <2>11. \A x \in queue[q] :
            \/ Marked(x)'
            \/ x = q /\ Saddle(q)' = q
            \/ \E u \in Larger(x)' :
                  Holder(u)' = q \/ u = Saddle(q)' \/ Visiting(q, u)'
    BY <1>13, <2>2, <2>7, <2>8, <2>9, <2>10 DEF Visiting
  <2>12. ASSUME q = c
         PROVE  \A x \in queue[p] :
                   \/ Marked(x)'
                   \/ \E u \in Larger(x)' : Holder(u)' = q \/ u = Saddle(q)'
    BY <1>13, <2>5, <2>7, <2>8, <2>9, <2>12
  <2> QED BY <2>6, <2>11, <2>12 DEF QueueOf
<1>21. ASSUME NEW w \in Vert PROVE CountOf(w)'
  <2>1. Larger(w) \subseteq Vert /\ Larger(w)' = Larger(w)
    BY <1>13, LargerFacts
  <2>2. ASSUME NEW u \in Larger(w)
        PROVE  (Marked(u)' /\ Saddle(Holder(u))' = w)
                  <=> (Marked(u) /\ Saddle(Holder(u)) = w)
    <3>1. /\ u \in Vert /\ Holder(u)' = IF Holder(u) = p THEN c ELSE Holder(u)
          /\ Marked(u)' <=> Marked(u)
      BY <1>13, <2>1
    <3>2. CASE Holder(u) = p
      <4>1. Saddle(Holder(u))' = v /\ Saddle(Holder(u)) = v
        BY <1>6, <1>13, <3>1, <3>2 DEF Saddle
      <4> QED BY <3>1, <4>1
    <3>3. CASE Holder(u) # p /\ Marked(u)
      <4>1. Holder(u) \in Vert
        BY <1>6, <3>1, <3>3, HolderFacts
      <4>2. Saddle(Holder(u))' = Saddle(Holder(u))
        BY <1>13, <3>1, <3>3, <4>1 DEF Saddle
      <4> QED BY <3>1, <4>2
    <3> QED BY <3>1, <3>2, <3>3
  <2>3. Shares(w)' = Shares(w)
    BY <2>1, <2>2 DEF Shares
  <2> QED BY <1>2, <1>13, <2>3 DEF PInv, CountOf
<1>22. Representatives'
  <2>1. \A q \in Vert : comp[q] \in Vert /\ comp[comp[q]] = comp[q]
    BY DEF Types, PInv, Representatives
  <2> QED BY <1>6, <1>9, <1>13, <2>1 DEF Representatives
<1>23. Closed'
  <2>1. \A w \in Vert : Larger(w) \subseteq Vert
    BY LargerFacts
  <2> QED BY <1>13, <2>1 DEF PInv, Closed
<1>24. propagations' = propagations /\ Vert' = Vert
  BY <1>2, <1>13
<1>25. \A o \in propagations : TaskOf(o)'
  BY <1>14, <1>16
<1>26. PInv'
  BY <1>17, <1>19, <1>20, <1>21, <1>22, <1>23, <1>24, <1>25 DEF PInv
<1> QED BY <1>7, <1>8, <1>26

(* No other task is at the vertex t is about to mark.                      *)
LEMMA MarksAlone ==
    ASSUME Base, Types, PInv, NEW t \in propagations, pc[t] = "mark",
           NEW o \in propagations \ {t}, Active(o), pc[o] # "pop"
    PROVE  cur[o] # cur[t]
<1>1. Active(t) /\ cur[t] \in Vert
  BY DEF Active, AtWork, Types
<1>2. /\ \A u \in Larger(cur[t]) : Holder(u) = current[t]
      /\ Larger(cur[t]) = {} => cur[t] = current[t]
  BY DEF PInv, TaskOf
<1>3. current[t] \notin Holds(o) /\ TaskOf(o) /\ current[t] # current[o]
  BY <1>1, Sole DEF PInv
<1> SUFFICES ASSUME cur[o] = cur[t] PROVE FALSE
  OBVIOUS
<1>4. CASE pc[o] = "start"
  <2>1. o = cur[t] /\ current[o] = o
    BY <1>3, <1>4 DEF TaskOf
  <2>2. Larger(o) = {}
    BY DEF Types
  <2> QED BY <1>2, <1>3, <2>1, <2>2
<1>5. CASE pc[o] = "capture"
  BY <1>2, <1>3, <1>5 DEF TaskOf, Own
<1>6. CASE pc[o] \in {"merge", "unify"}
  BY <1>2, <1>3, <1>6 DEF TaskOf
<1>7. CASE pc[o] = "mark"
  BY <1>2, <1>3, <1>7 DEF TaskOf
<1> QED BY <1>4, <1>5, <1>6, <1>7 DEF Active, AtWork

(* A vertex is marked: what is above it is held already, and its neighbours *)
(* below have one share more.                                              *)
LEMMA MarkKeeps ==
    ASSUME Base, Types, PInv, step = "propagate", NEW t \in Vert, Mark(t)
    PROVE  Base' /\ Types' /\ PInv'
<1>0. PICK c, v : c = current[t] /\ v = cur[t]
  OBVIOUS
<1>1. Active(t) /\ t \in propagations /\ pc[t] = "mark"
  BY TaskFacts DEF Mark, Active, AtWork
<1>2. /\ UNCHANGED <<request, order, propagations, comp, criticalPoints>>
      /\ UNCHANGED <<queue, current, cur, registered, todo>>
  BY DEF Mark, propagating, fields, locals
<1>3. /\ propagationMask' = [propagationMask EXCEPT ![v] = c]
      /\ segmentation' = [segmentation EXCEPT ![v] = c]
      /\ segmentSize' = [segmentSize EXCEPT ![c] = @ + 1]
      /\ Goto(t, "pop")
  BY <1>0 DEF Mark
<1>4. /\ c \in propagations /\ c \in Vert /\ v \in Vert /\ comp[c] = c
      /\ Holds(t) = {c} /\ propagations \subseteq Vert
      /\ Null \notin Vert /\ Vert \subseteq Nat
  BY <1>0, <1>1, ActiveFacts, VertFacts DEF Types, Holds, Base
<1>5. /\ ~Marked(v)
      /\ \A u \in Larger(v) : Holder(u) = c
      /\ Larger(v) = {} => v = c
      /\ Marked(Saddle(c)) \/ Saddle(c) = v
  BY <1>0, <1>1 DEF PInv, TaskOf
<1>6. Base'
  <2>1. segmentSize' \in [Vert -> Nat]
    BY <1>3, <1>4 DEF Base
  <2>2. UNCHANGED propagating
    BY DEF Mark
  <2> QED BY <1>3, <2>1, <2>2, BaseKept DEF AtWork
<1>7. Types'
  <2>1. propagationMask' \in [Vert -> propagations \cup {Null}]
    BY <1>3, <1>4 DEF Types
  <2>2. segmentation' \in [Vert -> Int]
    <3>1. c \in Int
      BY <1>4
    <3> QED BY <1>3, <3>1 DEF Types
  <2> QED BY <1>1, <1>2, <1>3, <2>1, <2>2, TypesKept DEF Types
<1>8. /\ pc'[t] = "pop" /\ current'[t] = c /\ cur'[t] = v
      /\ propagationMask'[v] = c
      /\ \A u \in Vert : u # v => propagationMask'[u] = propagationMask[u]
  BY <1>0, <1>1, <1>2, <1>3, <1>4 DEF Base, Types, Goto
<1>9. OthersStill(t)
  BY <1>2, <1>3 DEF OthersStill, Base, Types, Goto
<1>10. Holds(t)' = {c}
  BY <1>8 DEF Holds
<1>11. /\ \A u \in Vert : /\ Larger(u)' = Larger(u)
                          /\ u # v => Holder(u)' = Holder(u)
                          /\ Marked(u)' <=> Marked(u) \/ u = v
                          /\ Saddle(u)' = Saddle(u)
                          /\ Holder(u) = Null <=> ~Marked(u)
       /\ Vert' = Vert /\ Holder(v)' = c /\ Holder(v) = Null
  <2>1. c # Null
    BY <1>4
  <2>2. \A u \in Vert : Holder(u) = Null <=> ~Marked(u)
    BY HolderFacts
  <2>3. \A u \in Vert : u # v => Holder(u)' = Holder(u)
    BY <1>2, <1>8 DEF Holder
  <2>4. Holder(v)' = c
    BY <1>2, <1>4, <1>8, <2>1 DEF Holder
  <2>5. \A u \in Vert : Marked(u)' <=> Marked(u) \/ u = v
    BY <1>8, <2>1 DEF Marked
  <2> QED BY <1>2, <1>4, <1>5, <2>2, <2>3, <2>4, <2>5
          DEF Larger, Neighbors, Saddle, Vert
<1>12. ASSUME NEW s \in Vert
       PROVE  /\ Larger(s) \subseteq Vert
              /\ \A q \in Vert, u \in Larger(s) :
                    Holder(u) = q => Holder(u)' = q
  <2>1. Larger(s) \subseteq Vert
    BY LargerFacts
  <2>2. \A u \in Vert : Holder(u) # Null => Holder(u)' = Holder(u)
    BY <1>11
  <2> QED BY <1>4, <2>1, <2>2
<1>13. TaskOf(t)'
  <2>1. Marked(Saddle(current[t]))'
    <3>1. Saddle(c) \in Vert
      BY <1>4, SaddleFacts
    <3>2. Marked(Saddle(c)) \/ Saddle(c) = v
      BY <1>5
    <3>3. propagationMask'[Saddle(c)] # Null
      BY <1>4, <1>8, <3>1, <3>2 DEF Marked
    <3>4. Saddle(current[t])' = Saddle(c)
      BY <1>2, <1>8 DEF Saddle
    <3> QED BY <3>3, <3>4 DEF Marked
  <2>2. Marked(cur[t])'
    BY <1>4, <1>8 DEF Marked
  <2>3. \A h \in Holds(t)' : h \in propagations' /\ comp'[h] = h
    BY <1>2, <1>4, <1>10
  <2> QED BY <1>8, <2>1, <2>2, <2>3 DEF TaskOf
<1>14. ASSUME NEW o \in propagations \ {t}, Active(o)
       PROVE  Untouched(o) /\ c \notin Holds(o)
  <2>1. /\ Holds(t) \cap Holds(o) = {}
        /\ \A h \in Holds(o) : h \in propagations /\ comp[h] = h
    BY <1>1, <1>14 DEF PInv, Exclusive, TaskOf
  <2>2. c \notin Holds(o) /\ Null \notin Holds(o)
    BY <1>4, <2>1
  <2>3. \A h \in Holds(o) : /\ comp'[h] = h /\ Saddle(h)' = Saddle(h)
                            /\ queue'[h] = queue[h]
    BY <1>2, <1>4, <1>11, <2>1
  <2>4. \A u \in Vert : Holder(u) \in Holds(o) \/ Holder(u)' \in Holds(o) =>
                           Holder(u)' = Holder(u)
    BY <1>11, <2>2
  <2>5. pc[o] # "pop" => propagationMask'[cur[o]] = propagationMask[cur[o]]
    BY <1>0, <1>1, <1>8, <1>14, MarksAlone, ActiveFacts
  <2> QED BY <2>2, <2>3, <2>4, <2>5 DEF Untouched
<1>15. ASSUME NEW o \in propagations \ {t}
       PROVE  /\ TaskOf(o)'
              /\ Active(o)' <=> Active(o)
              /\ Active(o) => Holds(o)' = Holds(o)
              /\ Active(t)' /\ Active(o) => Holds(t)' \cap Holds(o) = {}
  <2>1. /\ TaskOf(o)' /\ (Active(o)' <=> Active(o))
        /\ Active(o) => Holds(o)' = Holds(o)
    BY <1>1, <1>2, <1>4, <1>9, <1>11, <1>14, OtherTask
  <2> QED BY <1>10, <1>14, <2>1
<1>16. Exclusive'
  BY <1>1, <1>2, <1>15, ExclusiveKept
<1>17. ASSUME NEW q \in propagations PROVE SaddleOf(q)'
  <2> SUFFICES ASSUME comp[q] = q
               PROVE  /\ \/ Saddle(q)' = q
                         \/ \E u \in Larger(Saddle(q))' : Holder(u)' = q
                      /\ Marked(Saddle(q))' => Holder(Saddle(q))' = q
    BY <1>2 DEF SaddleOf
  <2>1. q \in Vert /\ SaddleOf(q)
    BY <1>4 DEF PInv
  <2>2. PICK s \in Vert : s = Saddle(q) /\ s = Saddle(q)'
    BY <1>11, <2>1, SaddleFacts
  <2>3. /\ s = q \/ \E u \in Larger(s) : Holder(u) = q
        /\ Marked(s) => Holder(s) = q
    BY <2>1, <2>2 DEF SaddleOf
  <2>4. /\ Larger(Saddle(q))' = Larger(s)
        /\ Marked(Saddle(q))' <=> Marked(s)'
        /\ Holder(Saddle(q))' = Holder(s)'
    BY <1>2, <2>2 DEF Larger, Neighbors, Marked, Holder
  <2>5. s = q \/ \E u \in Larger(s) : Holder(u)' = q
    BY <1>12, <2>1, <2>2, <2>3
  <2>6. Marked(s)' => Holder(s)' = q
    <3>1. CASE s = v
      <4>1. CASE s = q
        <5>1. Larger(v) = {}
          BY <3>1, <4>1 DEF Types
        <5> QED BY <1>5, <1>11, <3>1, <4>1, <5>1
      <4>2. CASE \E u \in Larger(s) : Holder(u) = q
        BY <1>5, <1>11, <3>1, <4>2
      <4> QED BY <2>3, <4>1, <4>2
    <3>2. CASE s # v
      BY <1>11, <2>3, <3>2
    <3> QED BY <3>1, <3>2
  <2> QED BY <2>2, <2>4, <2>5, <2>6
<1>18. ASSUME NEW q \in propagations PROVE QueueOf(q)'
  <2>1. q \in Vert /\ QueueOf(q)
    BY <1>4 DEF PInv
  <2>2. \A u : Visiting(q, u) => Visiting(q, u)' \/ (q = c /\ u = v)
    BY <1>0, <1>1, <1>2, <1>9 DEF Visiting, OthersStill
  <2>3. queue[q] \subseteq Vert /\ \A x \in queue[q] : Larger(x) \subseteq Vert
    BY <2>1, LargerFacts DEF Types
  <2>4. Saddle(q)' = Saddle(q)
    BY <1>11, <2>1
  <2>5. \A u \in Vert : Visiting(q, u) => Visiting(q, u)' \/ Holder(u)' = q
    BY <1>11, <2>2
  <2>6. \A u \in Vert : Holder(u) = q => Holder(u)' = q
    BY <1>4, <1>11, <2>1
  <2> QED BY <1>2, <1>11, <2>1, <2>3, <2>4, <2>5, <2>6 DEF QueueOf
<1>19. ASSUME NEW w \in Vert PROVE CountOf(w)'
  <2>1. CASE w = v \/ Marked(w)
    BY <1>11, <2>1 DEF CountOf
  <2>2. CASE w # v /\ ~Marked(w)
    <3>1. Larger(w) \subseteq Vert /\ Larger(w)' = Larger(w)
      BY <1>11, LargerFacts
    <3>2. ASSUME NEW u \in Larger(w)
          PROVE  (Marked(u)' /\ Saddle(Holder(u))' = w)
                    <=> (Marked(u) /\ Saddle(Holder(u)) = w)
      <4>1. CASE u = v
        <5>1. Saddle(Holder(u))' = Saddle(c)
          BY <1>2, <1>11, <4>1 DEF Saddle
        <5>2. Saddle(c) # w
          BY <1>5, <2>2
        <5> QED BY <1>5, <4>1, <5>1, <5>2
      <4>2. CASE u # v
        <5>1. /\ Holder(u)' = Holder(u)
              /\ Marked(u)' <=> Marked(u)
          BY <1>11, <3>1, <4>2
        <5>2. Saddle(Holder(u))' = Saddle(Holder(u))
          BY <1>2, <5>1 DEF Saddle
        <5> QED BY <5>1, <5>2
      <4> QED BY <4>1, <4>2
    <3>3. Shares(w)' = Shares(w)
      BY <3>1, <3>2 DEF Shares
    <3>4. segmentation'[w] = segmentation[w]
      BY <1>3, <2>2 DEF Types
    <3> QED BY <2>2, <3>3, <3>4 DEF PInv, CountOf
  <2> QED BY <2>1, <2>2
<1>20. Representatives'
  BY <1>2, <1>11 DEF PInv, Representatives
<1>21. Closed'
  <2> SUFFICES ASSUME NEW w \in Vert, Marked(w)', NEW u \in Larger(w)
               PROVE  Holder(u)' = Holder(w)'
    BY <1>11 DEF Closed
  <2>1. u \in Vert /\ u # w
    BY LargerFacts
  <2>2. CASE w = v
    BY <1>5, <1>11, <2>1, <2>2
  <2>3. CASE w # v
    <3>1. Marked(w)
      BY <1>11, <2>3
    <3>2. Holder(u) = Holder(w)
      BY <3>1 DEF PInv, Closed
    <3>3. u # v
      BY <1>11, <3>1, <3>2
    <3> QED BY <1>11, <2>1, <2>3, <3>2, <3>3
  <2> QED BY <2>2, <2>3
<1>22. propagations' = propagations /\ Vert' = Vert
  BY <1>2, <1>11
<1>23. \A o \in propagations : TaskOf(o)'
  BY <1>13, <1>15
<1>24. PInv'
  BY <1>16, <1>17, <1>18, <1>19, <1>20, <1>21, <1>22, <1>23 DEF PInv
<1> QED BY <1>6, <1>7, <1>24
-------------------------------------------------------------------------------
(***************************************************************************)
(* Ranks: every order the passes compute numbers the vertices.             *)
(***************************************************************************)
(* The number of elements before each one, in a strict total order.        *)
RankIn(V, before) == [v \in V |-> Cardinality({u \in V : <<u, v>> \in before})]

(* In a strict total order, given as a set of pairs, each element of a     *)
(* finite set has another number of elements before it.                    *)
LEMMA RankFacts ==
    ASSUME NEW V, IsFiniteSet(V), NEW before,
           \A u \in V : <<u, u>> \notin before,
           \A u, v, w \in V : <<u, v>> \in before /\ <<v, w>> \in before =>
                                 <<u, w>> \in before,
           \A u, v \in V : u # v => <<u, v>> \in before \/ <<v, u>> \in before
    PROVE  /\ Cardinality(V) \in Nat
           /\ RankIn(V, before) \in [V -> 0..(Cardinality(V) - 1)]
           /\ \A u, v \in V : RankIn(V, before)[u] = RankIn(V, before)[v] => u = v
<1> DEFINE Before(v) == {u \in V : <<u, v>> \in before}
<1>1. Cardinality(V) \in Nat
  BY FS_CardinalityType
<1>2. ASSUME NEW v \in V
      PROVE  /\ IsFiniteSet(Before(v)) /\ Cardinality(Before(v)) \in Nat
             /\ Cardinality(Before(v)) <= Cardinality(V) - 1
  <2>1. IsFiniteSet(V \ {v}) /\ Cardinality(V \ {v}) = Cardinality(V) - 1
    BY FS_RemoveElement
  <2>2. Before(v) \in SUBSET (V \ {v})
    OBVIOUS
  <2>3. /\ IsFiniteSet(Before(v))
        /\ Cardinality(Before(v)) <= Cardinality(V \ {v})
    BY <2>1, <2>2, FS_Subset
  <2>4. Cardinality(Before(v)) \in Nat
    BY <2>3, FS_CardinalityType
  <2> QED BY <2>1, <2>3, <2>4
<1>3. ASSUME NEW u \in V, NEW v \in V, <<u, v>> \in before
      PROVE  Cardinality(Before(u)) # Cardinality(Before(v))
  <2>1. Before(u) \in SUBSET Before(v)
    BY <1>3
  <2>2. u \in Before(v) /\ u \notin Before(u)
    BY <1>3
  <2>3. Before(u) # Before(v)
    BY <2>2
  <2> HIDE DEF Before
  <2> QED BY <1>2, <2>1, <2>3, FS_Subset
<1>4. \A u, v \in V : Cardinality(Before(u)) = Cardinality(Before(v)) => u = v
  <2> HIDE DEF Before
  <2> QED BY <1>3
<1>5. \A v \in V : Cardinality(Before(v)) \in 0..(Cardinality(V) - 1)
  <2> HIDE DEF Before
  <2> QED BY <1>1, <1>2
<1> QED BY <1>1, <1>4, <1>5 DEF RankIn

(* o numbers the vertices.                                                 *)
Numbers(o) == /\ o \in [Vert -> 0..(N - 1)]
              /\ \A u, v \in Vert : o[u] = o[v] => u = v

(* The order of the input numbers the vertices.                            *)
LEMMA InputOrderNumbers ==
    ASSUME request \in Requests
    PROVE  Numbers(InputOrder(request.scalar))
<1> DEFINE s == request.scalar
           before == {p \in Vert \X Vert :
                         s[p[1]] < s[p[2]] \/ (s[p[1]] = s[p[2]] /\ p[1] < p[2])}
<1>1. /\ s \in Seq(Int) /\ DOMAIN s = Vert
      /\ N \in Nat /\ Vert = 1..N /\ IsFiniteSet(Vert) /\ Vert \subseteq Nat
  BY RequestsAssumption, VertFacts DEF Vert
<1>2. \A v \in Vert : s[v] \in Int /\ v \in Int
  <2>1. \A v \in Vert : s[v] \in Int
    BY <1>1
  <2>2. \A v \in Vert : v \in Int
    BY <1>1
  <2> QED BY <2>1, <2>2
<1>3. \A u, v \in Vert : <<u, v>> \in before <=>
                            s[u] < s[v] \/ (s[u] = s[v] /\ u < v)
  OBVIOUS
<1>4. Cardinality(Vert) = N
  BY <1>1, FS_Interval
<1>5. \A v \in Vert : {u \in Vert : <<u, v>> \in before} =
                      {u \in DOMAIN s : s[u] < s[v] \/ (s[u] = s[v] /\ u < v)}
  <2> HIDE DEF s, before
  <2> QED BY <1>1, <1>3
<1>6. Numbers(RankIn(Vert, before))
  <2>1. \A u \in Vert : <<u, u>> \notin before
    <3> HIDE DEF s, before
    <3> QED BY <1>2, <1>3
  <2>2. \A u, v, w \in Vert : <<u, v>> \in before /\ <<v, w>> \in before =>
                                 <<u, w>> \in before
    <3> HIDE DEF s, before
    <3> QED BY <1>2, <1>3
  <2>3. \A u, v \in Vert : u # v => <<u, v>> \in before \/ <<v, u>> \in before
    <3> HIDE DEF s, before
    <3> QED BY <1>2, <1>3
  <2> HIDE DEF before
  <2> QED BY <1>1, <1>4, <2>1, <2>2, <2>3, RankFacts DEF Numbers
<1>7. InputOrder(s) = RankIn(Vert, before)
  <2> HIDE DEF s, before
  <2> QED BY <1>1, <1>5 DEF InputOrder, RankIn
<1> HIDE DEF before, s
<1>8. Numbers(InputOrder(s))
  BY <1>6, <1>7
<1> QED BY <1>8 DEF s

(* So does any order that is computed from keys.                           *)
LEMMA RankNumbers ==
    ASSUME request \in Requests, NEW flat \in [Vert -> Int],
           NEW local \in [Vert -> Int]
    PROVE  Numbers(Rank(flat, local))
<1> DEFINE Less(u, v) ==
              \/ flat[u] < flat[v]
              \/ flat[u] = flat[v] /\ (local[u] < local[v]
                                       \/ (local[u] = local[v] /\ u < v))
<1>0. PICK before : before = {p \in Vert \X Vert : Less(p[1], p[2])}
  OBVIOUS
<1>1. N \in Nat /\ Vert = 1..N /\ IsFiniteSet(Vert) /\ Vert \subseteq Nat
  BY VertFacts
<1>2. \A v \in Vert : flat[v] \in Int /\ local[v] \in Int /\ v \in Int
  <2>1. \A v \in Vert : v \in Int
    BY <1>1
  <2> QED BY <2>1
<1>3. \A u, v \in Vert : <<u, v>> \in before <=> Less(u, v)
  BY <1>0
<1>4. Cardinality(Vert) = N
  BY <1>1, FS_Interval
<1>5. \A v \in Vert : {u \in Vert : <<u, v>> \in before} = {u \in Vert : Less(u, v)}
  BY <1>3
<1>6. Numbers(RankIn(Vert, before))
  <2>1. \A u \in Vert : <<u, u>> \notin before
    BY <1>2, <1>3
  <2>2. \A u, v, w \in Vert : <<u, v>> \in before /\ <<v, w>> \in before =>
                                 <<u, w>> \in before
    BY <1>2, <1>3
  <2>3. \A u, v \in Vert : u # v => <<u, v>> \in before \/ <<v, u>> \in before
    BY <1>2, <1>3
  <2> HIDE DEF Less
  <2>4. /\ RankIn(Vert, before) \in [Vert -> 0..(Cardinality(Vert) - 1)]
        /\ \A u, v \in Vert :
              RankIn(Vert, before)[u] = RankIn(Vert, before)[v] => u = v
    <3>1. IsFiniteSet(Vert)
      BY <1>1
    <3> QED BY <3>1, <2>1, <2>2, <2>3, RankFacts
  <2> QED BY <1>4, <2>4 DEF Numbers
<1>7. Rank(flat, local) = RankIn(Vert, before)
  BY <1>5 DEF Rank, RankIn
<1> QED BY <1>6, <1>7

(* So does the inverse of such an order.                                   *)
LEMMA InvertNumbers ==
    ASSUME request \in Requests, NEW o, Numbers(o)
    PROVE  Numbers(Invert(o))
<1>1. N \in Nat
  BY VertFacts
<1>2. \A v \in Vert : /\ o[v] \in 0..(N - 1)
                      /\ Invert(o)[v] = N - 1 - o[v]
  BY DEF Numbers, Invert
<1>3. \A v \in Vert : Invert(o)[v] \in 0..(N - 1)
  BY <1>1, <1>2
<1>4. \A u, v \in Vert : Invert(o)[u] = Invert(o)[v] => o[u] = o[v]
  BY <1>1, <1>2
<1>5. Invert(o) \in [Vert -> 0..(N - 1)]
  BY <1>3 DEF Invert
<1> QED BY <1>4, <1>5 DEF Numbers

(* Some vertices in ascending order are as many vertices.                  *)
LEMMA AscendingFacts ==
    ASSUME Base, NEW S \in SUBSET Vert
    PROVE  /\ Ascending(S) \in Seq(S) /\ Len(Ascending(S)) = Cardinality(S)
<1> DEFINE before == {p \in S \X S : order[p[1]] < order[p[2]]}
           rank == RankIn(S, before)
           n == Cardinality(S)
<1>1. IsFiniteSet(S) /\ n \in Nat
  BY VertFacts, FS_Subset, FS_CardinalityType DEF Base
<1>2. /\ \A v \in S : order[v] \in Int
      /\ \A u, v \in S : order[u] = order[v] => u = v
  BY DEF Base
<1>3. \A u, v \in S : <<u, v>> \in before <=> order[u] < order[v]
  OBVIOUS
<1>4. \A v \in S : {u \in S : <<u, v>> \in before} = {u \in S : order[u] < order[v]}
  BY <1>3
<1>5. /\ rank \in [S -> 0..(n - 1)]
      /\ \A u, v \in S : rank[u] = rank[v] => u = v
  <2>1. \A u \in S : <<u, u>> \notin before
    <3> HIDE DEF before
    <3> QED BY <1>2, <1>3
  <2>2. \A u, v, w \in S : <<u, v>> \in before /\ <<v, w>> \in before =>
                                 <<u, w>> \in before
    <3> HIDE DEF before
    <3> QED BY <1>2, <1>3
  <2>3. \A u, v \in S : u # v => <<u, v>> \in before \/ <<v, u>> \in before
    <3> HIDE DEF before
    <3> QED BY <1>2, <1>3
  <2> HIDE DEF before
  <2> QED BY <1>1, <2>1, <2>2, <2>3, RankFacts
<1>6. rank \in Injection(S, 0..(n - 1))
  <2> HIDE DEF rank
  <2> QED BY <1>5, Fun_IsInj
<1>7. IsFiniteSet(0..(n - 1)) /\ Cardinality(0..(n - 1)) = n
  <2>1. n - 1 \in Int /\ 0 \in Int
    BY <1>1
  <2>2. /\ IsFiniteSet(0..(n - 1))
        /\ Cardinality(0..(n - 1)) = IF 0 > n - 1 THEN 0 ELSE n - 1 - 0 + 1
    <3> HIDE DEF n
    <3> QED BY <2>1, FS_Interval
  <2> HIDE DEF n
  <2> QED BY <1>1, <2>2
<1>8. \A i \in 1..n : \E v \in S : rank[v] = i - 1
  <2>1. rank \in Surjection(S, 0..(n - 1))
    <3> HIDE DEF rank
    <3> QED BY <1>6, <1>7, FS_Injection
  <2>2. \A j \in 0..(n - 1) : \E v \in S : rank[v] = j
    <3> HIDE DEF rank, n
    <3> QED BY <2>1 DEF Surjection
  <2>3. \A i \in 1..n : i - 1 \in 0..(n - 1)
    <3> HIDE DEF n
    <3> QED BY <1>1
  <2> HIDE DEF rank, n
  <2> QED BY <2>2, <2>3
<1>9. \A i \in 1..n :
         (CHOOSE w \in S : Cardinality({u \in S : order[u] < order[w]}) = i - 1) \in S
  <2> SUFFICES ASSUME NEW i \in 1..n
               PROVE  (CHOOSE w \in S :
                          Cardinality({u \in S : order[u] < order[w]}) = i - 1) \in S
    OBVIOUS
  <2>1. PICK v \in S : rank[v] = i - 1
    BY <1>8
  <2>2. Cardinality({u \in S : order[u] < order[v]}) = i - 1
    <3> HIDE DEF before
    <3> QED BY <1>4, <2>1 DEF RankIn
  <2> HIDE DEF n
  <2> QED BY <2>2
<1>10. Ascending(S) \in [1..n -> S]
  BY <1>9 DEF Ascending
<1> HIDE DEF n
<1> QED BY <1>1, <1>10 DEF n
-------------------------------------------------------------------------------
(***************************************************************************)
(* The steps around the propagations.                                      *)
(***************************************************************************)
(* A set of places in a sequence has a last one.                           *)
LEMMA LastPlace ==
    ASSUME NEW n \in Nat, NEW S \in SUBSET (1..n), S # {}
    PROVE  Max(S) \in S
<1> DEFINE left == {n - i : i \in S}
<1>1. left \subseteq Nat /\ left # {}
  <2>1. \A i \in S : i \in 1..n
    OBVIOUS
  <2>2. \A i \in S : n - i \in Nat
    BY <2>1
  <2> QED BY <2>2
<1>2. PICK d \in left : \A e \in left : d <= e
  <2> HIDE DEF left
  <2> QED BY <1>1, JP!LeastNumber
<1>3. PICK i \in S : d = n - i
  BY <1>2
<1>4. \A j \in S : n - i <= n - j
  BY <1>2, <1>3
<1>5. \A j \in S : i >= j
  BY <1>4
<1> QED BY <1>5 DEF Max

(* A step that ends outside the propagations, or never was inside, has     *)
(* only this to show.                                                      *)
LEMMA StepAround ==
    ASSUME Base, Between,
           UNCHANGED <<request, propagations, criticalPoints, registered, todo,
                       segmentSize>>,
           Numbers(order'), localOrder' \in [Vert -> Int],
           pass' = "start" => step' = "begin",
           step' \in {"begin", "hills", "done", "failed"},
           pc' \in [Vert -> {"none", "stopped", "segment", "segmented", "order",
                             "ordered"}]
    PROVE  IInv'
<1>1. Vert' = Vert /\ N' = N
  BY DEF Vert, N
<1>2. Base'
  BY <1>1 DEF Base, Numbers
<1>3. Between'
  BY <1>1 DEF Between
<1> QED BY <1>2, <1>3 DEF IInv

(* The order numbers the vertices.                                         *)
LEMMA OrderNumbers ==
    ASSUME Base
    PROVE  Numbers(order)
BY DEF Base, Numbers

(* The first states.                                                       *)
LEMMA InitIInv ==
    ASSUME Init
    PROVE  IInv
<1>1. request \in Requests /\ order = InputOrder(request.scalar)
  BY DEF Init
<1>2. Numbers(order)
  BY <1>1, InputOrderNumbers
<1>3. /\ step = "begin" /\ pc = [v \in Vert |-> "none"] /\ propagations = {}
      /\ localOrder = [v \in Vert |-> 0] /\ segmentSize = [v \in Vert |-> 0]
      /\ registered = [v \in Vert |-> 0] /\ todo = [v \in Vert |-> {}]
      /\ criticalPoints = [v \in Vert |-> <<v>>]
  BY DEF Init
<1>4. Base
  BY <1>1, <1>2, <1>3 DEF Base, Numbers
<1>5. Between
  <2>1. \A v \in Vert : <<v>> \in Seq(Vert) /\ <<v>> # <<>>
    OBVIOUS
  <2> QED BY <1>3, <2>1 DEF Between
<1> QED BY <1>3, <1>4, <1>5 DEF IInv

(* The first pass begins, on the inverted order if it is for the minima.   *)
LEMMA BeginPassesKeeps ==
    ASSUME Base, Between, BeginPasses
    PROVE  IInv'
<1>1. /\ UNCHANGED <<request, propagations, criticalPoints, registered, todo,
                     segmentSize>>
      /\ localOrder' = localOrder /\ pc' = pc /\ step' = step
      /\ order' = IF pass' = "minima" THEN Invert(order) ELSE order
  BY DEF BeginPasses, props, locals, arrays
<1>2. step = "begin"
  BY DEF BeginPasses, Between
<1>3. Numbers(order')
  BY <1>1, OrderNumbers, InvertNumbers DEF Base
<1> QED BY <1>1, <1>2, <1>3, StepAround DEF Base

(* When the propagations of a pass begin nothing is marked.                *)
LEMMA InitializePropagationsKeeps ==
    ASSUME Base, Between, InitializePropagations
    PROVE  IInv'
<1> DEFINE found == Ascending(Discarded)
<1>1. /\ request' = request /\ order' = order
      /\ registered' = registered /\ todo' = todo
      /\ step' = "propagate" /\ pass' = pass
      /\ propagations' = SimplifiedMaxima
  BY DEF InitializePropagations, fields
<1>2. /\ localOrder' = [v \in Vert |-> IF v <= Len(found) THEN found[v] ELSE -1]
      /\ segmentSize' = [v \in Vert |-> 0]
      /\ segmentation' = [v \in Vert |-> -1]
      /\ propagationMask' = [v \in Vert |-> Null]
      /\ comp' = [v \in Vert |-> v]
      /\ criticalPoints' = [v \in Vert |-> <<v>>]
      /\ queue' = [v \in Vert |-> {}]
      /\ current' = [v \in Vert |-> v] /\ cur' = [v \in Vert |-> v]
      /\ pc' = [v \in Vert |-> IF v \in propagations' THEN "start" ELSE "none"]
  BY DEF InitializePropagations, Unvisited
<1>3. Vert' = Vert /\ N' = N
  BY <1>1 DEF Vert, N
<1>4. Discarded \subseteq Vert /\ propagations' \subseteq Discarded
  BY <1>1 DEF Discarded, Maxima, SimplifiedMaxima
<1>5. /\ \A v \in Vert : Larger(v)' = Larger(v) /\ Larger(v) \subseteq Vert
      /\ \A p \in propagations' : p \in Vert /\ Larger(p) = {}
  <2>1. \A v \in Vert : Larger(v)' = Larger(v)
    BY <1>1 DEF Larger, Neighbors
  <2>2. \A p \in propagations' : p \in Vert /\ Larger(p) = {}
    BY <1>4 DEF Discarded, Maxima
  <2> QED BY <2>1, <2>2, LargerFacts
<1>6. Vert \subseteq Nat /\ Vert = 1..N /\ N \in Nat
  BY VertFacts DEF Base
<1>7. localOrder' \in [Vert -> Int]
  <2>1. found \in Seq(Discarded) /\ Discarded \subseteq Vert
    BY <1>4, AscendingFacts
  <2> HIDE DEF found
  <2>2. \A v \in Vert : v <= Len(found) => found[v] \in Int
    <3> SUFFICES ASSUME NEW v \in Vert, v <= Len(found) PROVE found[v] \in Int
      OBVIOUS
    <3>1. v \in 1..Len(found)
      BY <1>6, <2>1
    <3>2. found[v] \in Discarded
      BY <2>1, <3>1
    <3>3. found[v] \in Vert
      BY <1>4, <3>2
    <3> QED BY <1>6, <3>3
  <2> QED BY <1>2, <2>2
<1>8. Base'
  <2>1. pc' \in [Vert -> AtWork \cup {"none", "stopped"}]
    BY <1>2 DEF AtWork
  <2>2. segmentSize' \in [Vert -> Nat]
    BY <1>2
  <2>3. order \in [Vert -> 0..(N - 1)] /\ request \in Requests
    BY DEF Base
  <2>4. \A u, v \in Vert : order[u] = order[v] => u = v
    BY DEF Base
  <2> QED BY <1>1, <1>3, <1>7, <2>1, <2>2, <2>3, <2>4 DEF Base
<1>9. criticalPoints' \in [Vert -> Seq(Vert) \ {<<>>}]
  <2>1. \A v \in Vert : <<v>> \in Seq(Vert) /\ <<v>> # <<>>
    OBVIOUS
  <2> QED BY <1>2, <2>1
<1>10. Between'
  <2>1. pass # "start"
    BY DEF InitializePropagations
  <2> QED BY <1>1, <1>3, <1>4, <1>9, <2>1 DEF Between
<1>11. Types'
  <2>1. /\ segmentation' \in [Vert -> Int]
        /\ propagationMask' \in [Vert -> propagations' \cup {Null}]
        /\ comp' \in [Vert -> Vert]
        /\ queue' \in [Vert -> SUBSET Vert]
        /\ current' \in [Vert -> Vert] /\ cur' \in [Vert -> Vert]
    BY <1>2
  <2>2. \A p \in propagations' : comp'[p] \in propagations' /\ Larger(p)' = {}
    BY <1>2, <1>5
  <2>3. \A v \in Vert \ propagations' : pc'[v] = "none"
    BY <1>2
  <2> QED BY <1>3, <1>4, <1>9, <1>10, <2>1, <2>2, <2>3 DEF Types, Between
<1>12. \A v \in Vert : /\ ~Marked(v)' /\ Holder(v)' = Null /\ comp'[v] = v
                       /\ Saddle(v)' = v /\ queue'[v] = {}
                       /\ current'[v] = v /\ cur'[v] = v
                       /\ segmentation'[v] = -1
  BY <1>2 DEF Marked, Holder, Saddle, Last
<1>13. \A t \in propagations' : /\ t \in Vert /\ pc'[t] = "start"
                                /\ Holds(t)' = {t}
  BY <1>2, <1>5 DEF Holds
<1>14. Representatives' /\ Closed'
  BY <1>3, <1>12 DEF Representatives, Closed
<1>15. Exclusive'
  BY <1>13 DEF Exclusive
<1>16. \A c \in propagations' : SaddleOf(c)' /\ QueueOf(c)'
  BY <1>5, <1>12 DEF SaddleOf, QueueOf, Marked
<1>17. ASSUME NEW t \in propagations' PROVE TaskOf(t)'
  <2>1. t \in Vert /\ pc'[t] = "start" /\ Holds(t)' = {t}
    BY <1>13
  <2>2. \A h \in Holds(t)' : h \in propagations' /\ comp'[h] = h
    BY <1>12, <2>1
  <2>3. /\ current'[t] = t /\ cur'[t] = t /\ ~Marked(t)'
        /\ Saddle(t)' = t /\ queue'[t] = {}
    BY <1>12, <2>1
  <2> QED BY <2>1, <2>2, <2>3 DEF TaskOf
<1>18. ASSUME NEW v \in Vert PROVE CountOf(v)'
  <2>1. Shares(v)' = {}
    <3>1. Larger(v)' \subseteq Vert
      BY <1>5
    <3> QED BY <1>12, <3>1 DEF Shares, Marked
  <2>2. Cardinality(Shares(v)') = 0
    BY <2>1, FS_EmptySet
  <2> QED BY <1>12, <2>2 DEF CountOf
<1>19. PInv'
  BY <1>3, <1>14, <1>15, <1>16, <1>17, <1>18 DEF PInv
<1> QED BY <1>8, <1>10, <1>11, <1>19 DEF IInv

(* The saddles of the last pass are vertices.                              *)
LEMMA ParentFacts ==
    ASSUME Between
    PROVE  \A p \in Parents : p \in propagations /\ Saddle(p) \in Vert
<1> SUFFICES ASSUME NEW p \in Parents
             PROVE  p \in propagations /\ Saddle(p) \in Vert
  OBVIOUS
<1>1. p \in propagations /\ p \in Vert
  BY DEF Parents, Between
<1>2. criticalPoints[p] \in Seq(Vert) /\ criticalPoints[p] # <<>>
  BY <1>1 DEF Between
<1>3. Len(criticalPoints[p]) \in 1..Len(criticalPoints[p])
  BY <1>2
<1> QED BY <1>1, <1>2, <1>3 DEF Saddle, Last

(* The tasks of the hills stay what they are.                              *)
LEMMA HillStep ==
    ASSUME Base, Between, NEW p \in Vert,
           pc[p] \in {"segment", "segmented", "order"},
           NEW l \in {"segmented", "order", "ordered"}, Goto(p, l) \/ pc' = pc,
           UNCHANGED <<fields, request, propagations, props, locals, pass, step>>,
           localOrder' \in [Vert -> Int]
    PROVE  IInv' /\ step # "propagate"
<1>1. step # "propagate"
  BY DEF Base, AtWork
<1>2. step = step' /\ step \in {"begin", "hills", "done", "failed"}
      /\ pc \in [Vert -> {"none", "stopped", "segment", "segmented", "order",
                          "ordered"}]
  BY <1>1 DEF Base
<1>3. pc' \in [Vert -> {"none", "stopped", "segment", "segmented", "order",
                        "ordered"}]
  BY <1>2 DEF Goto
<1>4. UNCHANGED <<request, propagations, criticalPoints, registered, todo,
                  segmentSize, order, pass>>
  BY DEF props, locals, fields
<1>5. pass' = "start" => step' = "begin"
  BY <1>2, <1>4 DEF Between
<1>6. Numbers(order')
  BY <1>4, OrderNumbers
<1> QED BY <1>1, <1>2, <1>3, <1>4, <1>5, <1>6, StepAround

(* Filling a hill changes nothing the invariant is about.                  *)
LEMMA ComputeSegmentKeeps ==
    ASSUME Base, Between, NEW p \in Vert, ComputeSegment(p)
    PROVE  IInv' /\ step # "propagate"
<1>1. /\ pc[p] = "segment" /\ Goto(p, "segmented")
      /\ UNCHANGED <<fields, request, propagations, props, locals, pass, step,
                     localOrder>>
  BY DEF ComputeSegment
<1>2. localOrder' \in [Vert -> Int]
  BY <1>1 DEF Base
<1> QED BY <1>1, <1>2, HillStep

(* The first local order.                                                  *)
LEMMA InitLocalOrderKeeps ==
    ASSUME Base, Between, NEW p \in Vert, InitLocalOrder(p)
    PROVE  IInv' /\ step # "propagate"
<1> DEFINE next == IF Size(p) = 1 THEN "ordered" ELSE "order"
<1>1. /\ pc[p] = "segmented" /\ Goto(p, next)
      /\ UNCHANGED <<fields, request, propagations, props, locals, pass, step>>
      /\ localOrder' = [v \in Vert |->
            IF v \notin segment[p] THEN localOrder[v]
            ELSE IF Size(p) = 1 THEN -2 ELSE order[v] - N]
  BY DEF InitLocalOrder, ordering
<1>2. localOrder' \in [Vert -> Int]
  <2>1. N \in Int
    BY VertFacts DEF Base
  <2>2. \A v \in Vert : localOrder[v] \in Int /\ order[v] \in Int
    BY DEF Base
  <2> QED BY <1>1, <2>1, <2>2
<1>3. next \in {"segmented", "order", "ordered"}
  OBVIOUS
<1> HIDE DEF next
<1> QED BY <1>1, <1>2, <1>3, HillStep

(* A flood numbers the vertices of a hill.                                 *)
LEMMA RenumberedFacts ==
    ASSUME Base, NEW p \in Vert, NEW seq, NEW queued
    PROVE  Renumbered(p, seq, queued) \in [Vert -> Int]
<1> DEFINE n == Size(p)
           places(v) == {i \in 1..n : seq[IF performSuperlevel[p] THEN i + 1
                                          ELSE i] = v}
<1>1. n \in Nat
  BY DEF Size, Base
<1>2. \A v \in Vert : places(v) # {} => Max(places(v)) \in Int
  <2> SUFFICES ASSUME NEW v \in Vert, places(v) # {}
               PROVE  Max(places(v)) \in Int
    OBVIOUS
  <2>1. places(v) \in SUBSET (1..n)
    OBVIOUS
  <2> HIDE DEF places, n
  <2>2. Max(places(v)) \in places(v)
    BY <1>1, <2>1, LastPlace
  <2>3. Max(places(v)) \in 1..n
    BY <2>1, <2>2
  <2> QED BY <2>3
<1>3. \A v \in Vert : Keys(p)[v] \in Int
  <2>1. \A v \in Vert : localOrder[v] \in Int
    BY DEF Base
  <2>2. Size(p) \in Int
    BY <1>1
  <2> QED BY <2>1, <2>2 DEF Keys
<1>4. Renumbered(p, seq, queued) =
         [v \in Vert |-> IF places(v) = {}
                         THEN IF v \in queued THEN 0 ELSE Keys(p)[v]
                         ELSE IF performSuperlevel[p] THEN -Max(places(v))
                         ELSE Max(places(v)) - 1 - n]
  BY DEF Renumbered
<1> HIDE DEF places, n
<1>5. \A v \in Vert :
         (IF places(v) = {} THEN IF v \in queued THEN 0 ELSE Keys(p)[v]
          ELSE IF performSuperlevel[p] THEN -Max(places(v))
          ELSE Max(places(v)) - 1 - n) \in Int
  BY <1>1, <1>2, <1>3
<1> QED BY <1>4, <1>5

(* The local orders after it.                                              *)
LEMMA IterateKeeps ==
    ASSUME Base, Between, NEW p \in Vert, Iterate(p)
    PROVE  IInv' /\ step # "propagate"
<1>1. /\ pc[p] = "order" /\ (Goto(p, "ordered") \/ pc' = pc)
      /\ UNCHANGED <<fields, request, propagations, props, locals, pass, step>>
  BY DEF Iterate, ordering
<1>2. \E seq, queued : localOrder' = Renumbered(p, seq, queued)
  BY DEF Iterate
<1>3. localOrder' \in [Vert -> Int]
  BY <1>2, RenumberedFacts
<1> QED BY <1>1, <1>3, HillStep

(* The propagations end.                                                   *)
LEMMA FinalizePropagationsKeeps ==
    ASSUME Base, Between, FinalizePropagations
    PROVE  IInv'
<1>1. /\ UNCHANGED <<request, propagations, criticalPoints, registered, todo,
                     segmentSize, order, localOrder, pass>>
      /\ step = "propagate" /\ step' = "hills"
      /\ pc' = [p \in Vert |-> IF p \in Parents THEN "segment" ELSE "none"]
  BY DEF FinalizePropagations, Propagated, props, locals, fields, arrays
<1>2. pass' # "start"
  BY <1>1 DEF Between
<1>3. Numbers(order') /\ localOrder' \in [Vert -> Int]
  BY <1>1, OrderNumbers DEF Base
<1> QED BY <1>1, <1>2, <1>3, StepAround

(* They end with an error.                                                 *)
LEMMA FailKeeps ==
    ASSUME Base, Between, step = "propagate" => Types, Fail
    PROVE  IInv'
<1>1. /\ UNCHANGED <<request, propagations, criticalPoints, registered, todo,
                     segmentSize, order, localOrder, pass, pc>>
      /\ step \in {"propagate", "hills"} /\ step' = "failed"
      /\ step = "propagate" => \A p \in propagations : pc[p] = "stopped"
  BY DEF Fail, Propagated, Segmented, props, locals, fields, arrays
<1>2. pass' # "start"
  BY <1>1 DEF Between
<1>3. Numbers(order') /\ localOrder' \in [Vert -> Int]
  BY <1>1, OrderNumbers DEF Base
<1>4. pc' \in [Vert -> {"none", "stopped", "segment", "segmented", "order",
                        "ordered"}]
  <2>1. CASE step = "propagate"
    <3>1. \A v \in Vert : pc[v] \in {"none", "stopped"}
      BY <1>1, <2>1 DEF Types
    <3>2. pc' = pc /\ DOMAIN pc = Vert /\ pc = [v \in DOMAIN pc |-> pc[v]]
      BY <1>1 DEF Base
    <3> QED BY <3>1, <3>2
  <2>2. CASE step # "propagate"
    BY <1>1, <2>2 DEF Base
  <2> QED BY <2>1, <2>2
<1> QED BY <1>1, <1>2, <1>3, <1>4, StepAround

(* The order a pass ends with numbers the vertices again.                  *)
LEMMA EndPassKeeps ==
    ASSUME Base, Between, EndPass
    PROVE  IInv'
<1>1. /\ UNCHANGED <<request, propagations, criticalPoints, registered, todo,
                     segmentSize, pc>>
      /\ localOrder' = FinalLocalOrder
      /\ step = "hills" /\ step' = "begin"
      /\ order' = IF pass' = "minima"
                  THEN Invert(Restored(Rank(FlatOrder, FinalLocalOrder)))
                  ELSE Restored(Rank(FlatOrder, FinalLocalOrder))
  BY DEF EndPass, Segmented, props, locals
<1>2. N \in Int /\ request \in Requests
  BY VertFacts DEF Base
<1>3. \A v \in Vert : localOrder[v] \in Int /\ order[v] \in Int
  BY DEF Base
<1>4. FinalLocalOrder \in [Vert -> Int]
  BY <1>2, <1>3 DEF FinalLocalOrder
<1>5. FlatOrder \in [Vert -> Int]
  <2>1. ASSUME NEW v \in Vert, \E p \in Parents : v \in segment[p]
        PROVE  order[Saddle(CHOOSE p \in Parents : v \in segment[p])] \in Int
    <3>1. (CHOOSE p \in Parents : v \in segment[p]) \in Parents
      BY <2>1
    <3> QED BY <1>3, <3>1, ParentFacts
  <2> QED BY <1>3, <2>1 DEF FlatOrder
<1>6. Numbers(Rank(FlatOrder, FinalLocalOrder))
  BY <1>2, <1>4, <1>5, RankNumbers
<1>7. Numbers(Restored(Rank(FlatOrder, FinalLocalOrder)))
  BY <1>2, <1>6, InvertNumbers DEF Restored
<1>8. Numbers(order')
  BY <1>1, <1>2, <1>7, InvertNumbers
<1>9. pc' \in [Vert -> {"none", "stopped", "segment", "segmented", "order",
                        "ordered"}]
  BY <1>1 DEF Base
<1> QED BY <1>1, <1>4, <1>8, <1>9, StepAround

(* The simplification ends.                                                *)
LEMMA FinishKeeps ==
    ASSUME Base, Between, Finish
    PROVE  IInv'
<1>1. /\ UNCHANGED <<request, propagations, criticalPoints, registered, todo,
                     segmentSize, order, localOrder, pass, pc>>
      /\ step = "begin" /\ step' = "done" /\ pass = "end"
  BY DEF Finish, props, locals, arrays
<1>2. Numbers(order') /\ localOrder' \in [Vert -> Int]
  BY <1>1, OrderNumbers DEF Base
<1>3. pc' \in [Vert -> {"none", "stopped", "segment", "segmented", "order",
                        "ordered"}]
  BY <1>1 DEF Base
<1> QED BY <1>1, <1>2, <1>3, StepAround

(* A step of a task.                                                       *)
LEMMA PropagateKeeps ==
    ASSUME IInv, NEW t \in Vert, Propagate(t)
    PROVE  IInv' /\ step = "propagate"
<1>1. pc[t] \in AtWork
  BY DEF Propagate, Start, OutOfVertices, Abort, Visit, Capture, RegisterWith,
         Dominant, Unify, Mark, AtWork
<1>2. step = "propagate"
  BY <1>1 DEF IInv, Base, AtWork
<1>3. Base /\ Between /\ Types /\ PInv
  BY <1>2 DEF IInv
<1>4. Base' /\ Types' /\ PInv'
  <2>1. ASSUME NEW p \in Vert, Unify(t, p) PROVE Base' /\ Types' /\ PInv'
    BY <1>2, <1>3, <2>1, UnifySameKeeps, UnifyOtherKeeps
  <2>2. ASSUME OutOfVertices(t) \/ Abort(t) PROVE Base' /\ Types' /\ PInv'
    BY <1>2, <1>3, <2>2, StopKeeps
  <2> QED BY <1>2, <1>3, <2>1, <2>2, StartKeeps, VisitKeeps, CaptureKeeps,
             DominantKeeps, MarkKeeps DEF Propagate
<1>5. pass' = pass /\ step' = step
  BY DEF Propagate, Start, OutOfVertices, Abort, Visit, Capture, RegisterWith,
         Dominant, Unify, Mark, propagating
<1>6. Between'
  BY <1>2, <1>3, <1>4, <1>5 DEF Between, Types
<1> QED BY <1>2, <1>4, <1>6 DEF IInv

(* Every step keeps the invariant.                                         *)
LEMMA NextIInv ==
    ASSUME IInv, [Next]_vars
    PROVE  IInv'
<1>1. Base /\ Between /\ (step = "propagate" => Types)
  BY DEF IInv
<1>2. CASE \E t \in Vert : Propagate(t)
  BY <1>2, PropagateKeeps
<1>3. CASE \E p \in Vert : Simplify(p)
  BY <1>1, <1>3, ComputeSegmentKeeps, InitLocalOrderKeeps, IterateKeeps
     DEF Simplify
<1>4. CASE UNCHANGED vars
  <2>1. /\ UNCHANGED <<request, order, localOrder, segmentSize, step, pc, pass>>
        /\ UNCHANGED <<segmentation, propagationMask, propagations, comp>>
        /\ UNCHANGED <<criticalPoints, queue, current, cur, registered, todo>>
    BY <1>4 DEF vars, fields, arrays, props, locals
  <2>2. Vert' = Vert /\ N' = N
    BY <2>1 DEF Vert, N
  <2>3. Base' /\ Between'
    BY <1>1, <2>1, <2>2 DEF Base, Between
  <2>4. Types => Types'
    BY <2>1, <2>2 DEF Types, Larger, Neighbors
  <2>5. /\ Representatives => Representatives'
        /\ Closed => Closed'
        /\ Exclusive => Exclusive'
    <3>1. Representatives => Representatives'
      BY <2>1, <2>2 DEF Representatives
    <3>2. Closed => Closed'
      BY <2>1, <2>2 DEF Closed, Larger, Neighbors, Holder, Marked
    <3>3. Exclusive => Exclusive'
      BY <2>1, <2>2
         DEF Exclusive, Holds, Active, Merged, Larger, Neighbors, Holder
    <3> QED BY <3>1, <3>2, <3>3
  <2>6. ASSUME NEW c \in Vert
        PROVE  (SaddleOf(c) => SaddleOf(c)') /\ (QueueOf(c) => QueueOf(c)')
               /\ (TaskOf(c) => TaskOf(c)') /\ (CountOf(c) => CountOf(c)')
    <3>1. SaddleOf(c) => SaddleOf(c)'
      BY <2>1 DEF SaddleOf, Saddle, Larger, Neighbors, Holder, Marked
    <3>2. QueueOf(c) => QueueOf(c)'
      BY <2>1
         DEF QueueOf, Saddle, Larger, Neighbors, Holder, Marked, Visiting
    <3>3. TaskOf(c) => TaskOf(c)'
      <4>1. Holds(c)' = Holds(c) /\ Own(c)' = Own(c) /\ (Active(c)' <=> Active(c))
        BY <2>1 DEF Holds, Own, Merged, Active, Larger, Neighbors, Holder
      <4> QED BY <2>1, <4>1
              DEF TaskOf, Saddle, Larger, Neighbors, Holder, Marked
    <3>4. CountOf(c) => CountOf(c)'
      BY <2>1 DEF CountOf, Shares, Saddle, Larger, Neighbors, Holder, Marked
    <3> QED BY <3>1, <3>2, <3>3, <3>4
  <2>7. PInv => PInv'
    <3>1. propagations' = propagations /\ propagations \subseteq Vert
      BY <1>1, <2>1 DEF Between
    <3> QED BY <2>2, <2>5, <2>6, <3>1 DEF PInv
  <2> QED BY <2>1, <2>3, <2>4, <2>7 DEF IInv
<1>5. CASE Returned
  BY <1>4, <1>5 DEF Returned
<1> QED BY <1>1, <1>2, <1>3, <1>4, <1>5, BeginPassesKeeps,
           InitializePropagationsKeeps, FinalizePropagationsKeeps, FailKeeps,
           EndPassKeeps, FinishKeeps
        DEF Next

(* IInv is an invariant.                                                   *)
THEOREM IInvAlways == Spec => []IInv
BY InitIInv, NextIInv, PTL DEF Spec
-------------------------------------------------------------------------------
(***************************************************************************)
(* The propagations the last visitor unites.                               *)
(***************************************************************************)
(* No other task has come to the vertex.                                   *)
LEMMA MergedAlone ==
    ASSUME Base, Types, PInv, NEW t \in propagations,
           pc[t] \in {"merge", "unify"},
           NEW o \in propagations \ {t}, Active(o), pc[o] # "start"
    PROVE  cur[o] # cur[t]
<1>1. Active(t) /\ TaskOf(t) /\ TaskOf(o)
  BY DEF Active, AtWork, PInv
<1>2. /\ ~Marked(cur[t]) /\ Larger(cur[t]) # {}
      /\ \A u \in Larger(cur[t]) : Holder(u) \in Holds(t)
  BY <1>1 DEF TaskOf
<1>3. current[o] \notin Holds(t) /\ Holds(t) \cap Holds(o) = {}
  BY <1>1, Sole DEF PInv, Exclusive
<1> SUFFICES ASSUME cur[o] = cur[t] PROVE FALSE
  OBVIOUS
<1>4. PICK u \in Larger(cur[t]) : Holder(u) \in Holds(t)
  BY <1>2
<1>5. CASE pc[o] = "pop"
  <2>1. cur[t] = o
    BY <1>1, <1>2, <1>5 DEF TaskOf
  <2>2. Larger(o) = {}
    BY DEF Types
  <2> QED BY <1>2, <2>1, <2>2
<1>6. CASE pc[o] = "capture"
  <2>1. PICK w \in Larger(cur[t]) : Holder(w) = current[o]
    BY <1>1, <1>6 DEF TaskOf, Own
  <2> QED BY <1>2, <1>3, <2>1
<1>7. CASE pc[o] \in {"merge", "unify"}
  <2>1. Holder(u) \in Holds(o)
    BY <1>1, <1>4, <1>7 DEF TaskOf
  <2> QED BY <1>3, <1>4, <2>1
<1>8. CASE pc[o] = "mark"
  <2>1. Holder(u) = current[o]
    BY <1>1, <1>4, <1>8 DEF TaskOf
  <2> QED BY <1>3, <1>4, <2>1
<1> QED BY <1>5, <1>6, <1>7, <1>8 DEF Active, AtWork

(* The invariant implies that those merged are left alone.                 *)
LEMMA IInvMergesAlone ==
    ASSUME IInv
    PROVE  MergesAlone
<1> SUFFICES ASSUME NEW t \in propagations, pc[t] \in {"merge", "unify"}
             PROVE  LET met == {Holder(u) : u \in Neighbors(cur[t])} \ {Null} IN
                    /\ \A p \in met : Saddle(p) = cur[t]
                    /\ \A u \in Larger(cur[t]) : propagationMask[u] # Null
                    /\ \A o \in propagations \ {t} :
                          pc[o] \in {"pop", "capture", "merge", "unify", "mark"} =>
                              current[o] \notin met /\ cur[o] # cur[t]
  BY DEF MergesAlone
<1>1. Base /\ Types /\ PInv
  <2>1. t \in Vert
    BY DEF IInv, Between
  <2>2. step = "propagate"
    BY <2>1 DEF IInv, Base
  <2> QED BY <2>2 DEF IInv
<1> DEFINE met == {Holder(u) : u \in Neighbors(cur[t])} \ {Null}
<1>2. met \subseteq Holds(t)
  BY <1>1, MetFacts
<1>3. Active(t) /\ TaskOf(t) /\ cur[t] \in Vert
  BY <1>1 DEF Active, AtWork, PInv, Types
<1>4. \A p \in met : Saddle(p) = cur[t]
  <2> HIDE DEF met
  <2> QED BY <1>2, <1>3 DEF TaskOf
<1>5. ASSUME NEW u \in Larger(cur[t]) PROVE propagationMask[u] # Null
  <2>1. Holder(u) \in Holds(t)
    BY <1>3 DEF TaskOf
  <2>2. Holder(u) \in Vert /\ Null \notin Vert
    BY <1>1, <1>3, <2>1, ActiveFacts, VertFacts DEF Types, Base
  <2>3. Marked(u)
    BY <2>2 DEF Holder, Marked
  <2> QED BY <2>3 DEF Marked
<1>6. ASSUME NEW o \in propagations \ {t},
             pc[o] \in {"pop", "capture", "merge", "unify", "mark"}
      PROVE  current[o] \notin met /\ cur[o] # cur[t]
  <2>1. Active(o) /\ pc[o] # "start"
    BY <1>6 DEF Active, AtWork
  <2>2. current[o] \notin Holds(t)
    BY <1>1, <1>3, <2>1, Sole
  <2>3. cur[o] # cur[t]
    BY <1>1, <2>1, MergedAlone
  <2> HIDE DEF met
  <2> QED BY <1>2, <2>2, <2>3
<1> QED BY <1>4, <1>5, <1>6

(* Whatever the mesh, the field and the interleaving of the tasks, the     *)
(* propagations that are united without a lock all stopped at the saddle,  *)
(* and no other task works on them or has come to that vertex.             *)
THEOREM MergesAloneAlways == Spec => []MergesAlone
<1>1. IInv => MergesAlone
  BY IInvMergesAlone
<1> QED BY <1>1, IInvAlways, PTL
-------------------------------------------------------------------------------
(***************************************************************************)
(* The refinement of LastVisitor.                                          *)
(***************************************************************************)
(* The tasks that may claim v, and whether one of c marks it.              *)
Claiming(v) == {t \in propagations :
                   cur[t] = v /\ pc[t] \in {"merge", "unify", "mark"}}
Marking(t, c, v) == pc[t] = "mark" /\ cur[t] = v /\ current[t] = c

Abstract(v) == /\ Pending(v) \subseteq Larger(v)
               /\ Claimant(v) = Null <=> Larger(v) = {} \/ Claiming(v) = {}

(* The abstract state of a vertex.                                         *)
LEMMA AbstractState ==
    Base /\ Types => \A v \in Vert : Abstract(v)
<1> SUFFICES ASSUME Base, Types, NEW v \in Vert PROVE Abstract(v)
  OBVIOUS
<1>1. Claiming(v) \subseteq Vert /\ Vert \subseteq Nat /\ Null \notin Vert
  BY VertFacts DEF Base, Types, Claiming
<1>2. Claiming(v) # {} => Min(Claiming(v)) \in Claiming(v)
  <2> HAVE Claiming(v) # {}
  <2>1. PICK m \in Claiming(v) : \A x \in Claiming(v) : m <= x
    BY <1>1, JP!LeastNumber
  <2> QED BY <2>1 DEF Min
<1>3. Claimant(v) = IF Larger(v) = {} \/ Claiming(v) = {} THEN Null
                    ELSE Min(Claiming(v))
  BY DEF Claimant, Claiming
<1>4. Pending(v) \subseteq Larger(v)
  BY DEF Pending
<1> QED BY <1>1, <1>2, <1>3, <1>4 DEF Abstract

(* The same of the state after a step.                                     *)
LEMMA AbstractStateNext ==
    Base' /\ Types' => (\A v \in Vert : Abstract(v))'
BY AbstractState, PTL

(* What a step of a task leaves as it is.                                  *)
LEMMA Frame ==
    ASSUME Base, Types, NEW t \in Vert, Propagate(t)
    PROVE  /\ t \in propagations /\ Active(t)
           /\ UNCHANGED <<request, order, propagations>>
           /\ OthersStill(t)
           /\ Vert' = Vert /\ \A v \in Vert : Larger(v)' = Larger(v)
<1>1. Active(t) /\ t \in propagations
  <2>1. Active(t)
    BY DEF Propagate, Start, OutOfVertices, Abort, Visit, Capture, RegisterWith,
           Dominant, Unify, Mark, AtWork, Active
  <2> QED BY <2>1, TaskFacts
<1>2. UNCHANGED <<request, order, propagations>>
  BY DEF Propagate, Start, OutOfVertices, Abort, Visit, Capture, RegisterWith,
         Dominant, Unify, Mark, propagating, fields
<1>3. \E l : pc' = [pc EXCEPT ![t] = l]
  BY DEF Propagate, Start, OutOfVertices, Abort, Visit, Capture, RegisterWith,
         Dominant, Unify, Mark, Goto
<1>4. current' = current \/ \E x : current' = [current EXCEPT ![t] = x]
  BY DEF Propagate, Start, OutOfVertices, Abort, Visit, Capture, RegisterWith,
         Dominant, Unify, Mark, locals
<1>5. cur' = cur \/ \E x : cur' = [cur EXCEPT ![t] = x]
  BY DEF Propagate, Start, OutOfVertices, Abort, Visit, Capture, RegisterWith,
         Dominant, Unify, Mark, locals
<1>6. registered' = registered \/ \E x : registered' = [registered EXCEPT ![t] = x]
  BY DEF Propagate, Start, OutOfVertices, Abort, Visit, Capture, RegisterWith,
         Dominant, Unify, Mark, locals
<1>7. todo' = todo \/ \E x : todo' = [todo EXCEPT ![t] = x]
  BY DEF Propagate, Start, OutOfVertices, Abort, Visit, Capture, RegisterWith,
         Dominant, Unify, Mark, locals
<1>8. OthersStill(t)
  BY <1>1, <1>3, <1>4, <1>5, <1>6, <1>7 DEF OthersStill, Types, Base
<1>9. Vert' = Vert /\ \A v \in Vert : Larger(v)' = Larger(v)
  BY <1>2 DEF Vert, Larger, Neighbors
<1> QED BY <1>1, <1>2, <1>8, <1>9

(* A vertex at which nothing happens.                                      *)
LEMMA StayAt ==
    ASSUME Base, Types, NEW t \in propagations,
           propagations' = propagations, OthersStill(t),
           NEW v \in Vert, Larger(v)' = Larger(v), Marked(v)' <=> Marked(v),
           ~Marked(v) => \A u \in Larger(v) : Registered(u, v)' <=> Registered(u, v),
           t \in Claiming(v)' <=> t \in Claiming(v)
    PROVE  LV(v)!Stay
<1>1. Claiming(v)' = Claiming(v)
  <2>1. \A o \in propagations \ {t} : o \in Claiming(v)' <=> o \in Claiming(v)
    BY DEF OthersStill, Claiming
  <2>2. Claiming(v) \subseteq propagations /\ Claiming(v)' \subseteq propagations
    BY DEF Claiming
  <2> QED BY <2>1, <2>2
<1>2. Claimant(v)' = Claimant(v)
  <2>1. Claimant(v) = IF Larger(v) = {} \/ Claiming(v) = {} THEN Null
                      ELSE Min(Claiming(v))
    BY DEF Claimant, Claiming
  <2>2. Claimant(v)' = IF Larger(v)' = {} \/ Claiming(v)' = {} THEN Null
                       ELSE Min(Claiming(v)')
    BY DEF Claimant, Claiming
  <2> QED BY <1>1, <2>1, <2>2
<1>3. Pending(v)' = Pending(v)
  <2>1. Pending(v) = IF Marked(v) THEN {}
                     ELSE {u \in Larger(v) : ~Registered(u, v)}
    BY DEF Pending, Marked
  <2>2. Pending(v)' = IF Marked(v)' THEN {}
                      ELSE {u \in Larger(v)' : ~Registered(u, v)'}
    BY DEF Pending, Marked
  <2> QED BY <2>1, <2>2
<1>4. (Larger(v) # {} /\ propagationMask[v] # Null)'
         = (Larger(v) # {} /\ propagationMask[v] # Null)
  BY DEF Marked
<1> QED BY <1>2, <1>3, <1>4 DEF LV!Stay

(* Nobody else marks for what a task works on.                             *)
LEMMA OthersMark ==
    ASSUME Types, PInv, NEW t \in propagations, Active(t), OthersStill(t),
           NEW o \in propagations \ {t}, NEW v
    PROVE  /\ \A c : Marking(o, c, v)' <=> Marking(o, c, v)
           /\ \A c \in Holds(t) : ~Marking(o, c, v)
<1>1. \A c : Marking(o, c, v)' <=> Marking(o, c, v)
  BY DEF OthersStill, Marking
<1>2. pc[o] = "mark" => current[o] \notin Holds(t)
  BY Sole DEF Active, AtWork
<1> QED BY <1>1, <1>2 DEF Marking

(* Who is registered, in terms of these.                                   *)
LEMMA RegisteredFacts ==
    ASSUME NEW u, NEW v
    PROVE  /\ Registered(u, v) <=>
                 /\ Holder(u) # Null
                 /\ \/ Saddle(Holder(u)) = v
                    \/ \E o \in propagations : Marking(o, Holder(u), v)
BY DEF Registered, Marking

(* The same of the state after a step.                                     *)
LEMMA RegisteredNext ==
    ASSUME NEW u, NEW v
    PROVE  /\ Registered(u, v)' <=>
                 /\ Holder(u)' # Null
                 /\ \/ Saddle(Holder(u))' = v
                    \/ \E o \in propagations' : Marking(o, Holder(u), v)'
BY DEF Registered, Marking

(* Steps that only prepare change nothing at any vertex.                   *)
LEMMA QuietStays ==
    ASSUME Base, Types, PInv, NEW t \in Vert,
           Start(t) \/ OutOfVertices(t) \/ Abort(t) \/ Dominant(t), NEW v \in Vert
    PROVE  LV(v)!Stay
<1>1. /\ t \in propagations /\ Active(t)
      /\ UNCHANGED <<request, order, propagations>> /\ OthersStill(t)
      /\ Larger(v)' = Larger(v)
  BY Frame DEF Propagate
<1>2. UNCHANGED <<propagationMask, comp, criticalPoints, cur>>
  BY DEF Start, OutOfVertices, Abort, Dominant, locals, props
<1>3. \/ pc[t] = "merge" /\ pc'[t] = "unify"
      \/ /\ pc[t] \notin {"merge", "unify", "mark"}
         /\ pc'[t] \notin {"merge", "unify", "mark"}
  BY DEF Start, OutOfVertices, Abort, Dominant, Goto, Base
<1>4. /\ \A u : Holder(u)' = Holder(u)
      /\ \A c : Saddle(c)' = Saddle(c)
      /\ Marked(v)' <=> Marked(v)
  BY <1>2 DEF Holder, Saddle, Marked
<1>5. \A o \in propagations : \A c : Marking(o, c, v)' <=> Marking(o, c, v)
  <2>1. \A c : Marking(t, c, v)' <=> Marking(t, c, v)
    BY <1>3 DEF Marking
  <2> QED BY <1>1, <2>1, OthersMark
<1>6. \A u \in Larger(v) : Registered(u, v)' <=> Registered(u, v)
  <2> SUFFICES ASSUME NEW u \in Larger(v)
               PROVE  Registered(u, v)' <=> Registered(u, v)
    OBVIOUS
  <2>1. Saddle(Holder(u))' = Saddle(Holder(u))
    BY <1>2, <1>4 DEF Saddle
  <2>2. \A o \in propagations :
           Marking(o, Holder(u), v)' <=> Marking(o, Holder(u), v)
    BY <1>4, <1>5 DEF Marking
  <2> QED BY <1>1, <1>4, <2>1, <2>2, RegisteredFacts, RegisteredNext
<1>7. t \in Claiming(v)' <=> t \in Claiming(v)
  BY <1>1, <1>2, <1>3 DEF Claiming
<1> QED BY <1>1, <1>4, <1>6, <1>7, StayAt

(* A vertex with only one propagation above is claimed when it is visited. *)
LEMMA VisitArrives ==
    ASSUME Base, Types, PInv, Base', Types', NEW t \in Vert, Visit(t),
           NEW v \in Vert
    PROVE  LV(v)!Stay \/ LV(v)!LVNext
<1>0. PICK c, x : c = current[t] /\ x = Highest(Ahead(t))
  OBVIOUS
<1>1. /\ t \in propagations /\ Active(t)
      /\ UNCHANGED <<request, order, propagations>> /\ OthersStill(t)
      /\ Vert' = Vert /\ \A w \in Vert : Larger(w)' = Larger(w)
  BY Frame DEF Propagate
<1>2. /\ UNCHANGED <<propagationMask, comp, criticalPoints, current>>
      /\ pc[t] = "pop" /\ Ahead(t) # {} /\ cur' = [cur EXCEPT ![t] = x]
  BY <1>0 DEF Visit
<1>3. pc'[t] = IF {u \in Larger(x) : Holder(u) = c} = Larger(x)
               THEN "mark" ELSE "capture"
  BY <1>0 DEF Visit, Goto, Base
<1>4. cur'[t] = x /\ current'[t] = c /\ x \in Vert /\ x \in queue[c] /\ ~Marked(x)
  <2>1. x \in Vert /\ x \in queue[c] /\ ~Marked(x)
    BY <1>0, <1>2, AheadFacts
  <2>2. cur'[t] = x /\ current'[t] = c
    BY <1>0, <1>2 DEF Types
  <2> QED BY <2>1, <2>2
<1>5. c \in propagations /\ c \in Vert /\ c # Null /\ c \in Holds(t)
  BY <1>0, <1>1, ActiveFacts, VertFacts DEF Base
<1>6. /\ \A u : Holder(u)' = Holder(u)
      /\ \A h : Saddle(h)' = Saddle(h)
      /\ \A w : Marked(w)' <=> Marked(w)
  BY <1>2 DEF Holder, Saddle, Marked
<1>7. \A u : Saddle(Holder(u))' = Saddle(Holder(u))
  BY <1>2, <1>6 DEF Saddle
<1>8. CASE ~(pc'[t] = "mark" /\ v = x) \/ Larger(v) = {}
  <2>1. ASSUME NEW u \in Larger(v)
        PROVE  Registered(u, v)' <=> Registered(u, v)
    <3>1. \A o \in propagations :
             Marking(o, Holder(u), v)' <=> Marking(o, Holder(u), v)
      <4>1. Marking(t, Holder(u), v)' <=> Marking(t, Holder(u), v)
        BY <1>2, <1>4, <1>8, <2>1 DEF Marking
      <4>2. \A o \in propagations \ {t} :
               Marking(o, Holder(u), v)' <=> Marking(o, Holder(u), v)
        BY <1>1, <1>6, OthersMark DEF Marking
      <4> QED BY <4>1, <4>2
    <3> QED BY <1>1, <1>6, <1>7, <3>1, RegisteredFacts, RegisteredNext
  <2>2. CASE t \in Claiming(v)' <=> t \in Claiming(v)
    BY <1>1, <1>6, <2>1, <2>2, StayAt
  <2>3. CASE ~(t \in Claiming(v)' <=> t \in Claiming(v))
    <3>1. Larger(v) = {}
      BY <1>1, <1>2, <1>3, <1>4, <1>8, <2>3 DEF Claiming
    <3>2. Larger(v)' = {}
      BY <1>1, <3>1
    <3>3. Abstract(v) /\ Abstract(v)'
      BY <1>1, AbstractState, AbstractStateNext
    <3>4. Pending(v) = {} /\ Claimant(v) = Null
      BY <3>1, <3>3 DEF Abstract
    <3>5. Pending(v)' = {} /\ Claimant(v)' = Null
      BY <3>2, <3>3 DEF Abstract
    <3> QED BY <3>1, <3>2, <3>4, <3>5 DEF LV!Stay
  <2> QED BY <2>2, <2>3
<1>9. CASE pc'[t] = "mark" /\ v = x /\ Larger(v) # {}
  <2>1. \A u \in Larger(x) : Holder(u) = c
    BY <1>3, <1>9
  <2>2. x # c
    BY <1>5, <1>9 DEF Types
  <2>3. Marked(Saddle(c))
    BY <1>0, <1>1, <1>2, <1>4, <2>2, PoppedFacts
  <2>4. \A o \in propagations : ~Marking(o, c, x)
    BY <1>1, <1>2, <1>5, OthersMark DEF Marking
  <2>5. \A u \in Larger(x) : ~Registered(u, x)
    <3>1. Saddle(c) # x
      BY <1>4, <2>3
    <3> QED BY <2>1, <2>4, <3>1, RegisteredFacts
  <2>6. Pending(x) = Larger(x)
    BY <1>4, <2>5 DEF Pending, Marked
  <2>7. \A u \in Larger(x) : Registered(u, x)'
    <3> SUFFICES ASSUME NEW u \in Larger(x) PROVE Registered(u, x)'
      OBVIOUS
    <3>1. Holder(u)' = c
      BY <1>6, <2>1
    <3>2. Marking(t, Holder(u), x)'
      BY <1>4, <1>9, <3>1 DEF Marking
    <3> QED BY <1>1, <1>5, <3>1, <3>2, RegisteredNext
  <2>8. Pending(x)' = {}
    BY <1>1, <1>4, <2>7 DEF Pending
  <2>9. t \in Claiming(x)' /\ Larger(x)' # {}
    BY <1>1, <1>4, <1>9 DEF Claiming
  <2>10. Abstract(x)'
    BY <1>1, <1>4, AbstractStateNext
  <2>11. Claimant(x)' # Null
    BY <2>9, <2>10 DEF Abstract
  <2>12. (Larger(x) # {} /\ propagationMask[x] # Null)'
           = (Larger(x) # {} /\ propagationMask[x] # Null)
    BY <1>1, <1>2, <1>4
  <2>13. LV(x)!Arrive
    BY <1>9, <2>6, <2>8, <2>11, <2>12 DEF LV!Arrive
  <2> QED BY <1>9, <2>13 DEF LV!LVNext
<1> QED BY <1>8, <1>9

(* At a saddle a task accounts for the neighbours it holds, and claims the *)
(* vertex if no other is missing.                                          *)
LEMMA CaptureArrives ==
    ASSUME Base, Types, PInv, Base', Types', PInv', NEW t \in Vert, Capture(t),
           NEW v \in Vert
    PROVE  LV(v)!Stay \/ LV(v)!LVNext
<1>0. PICK c, x : c = current[t] /\ x = cur[t]
  OBVIOUS
<1>1. /\ t \in propagations /\ Active(t)
      /\ UNCHANGED <<request, order, propagations>> /\ OthersStill(t)
      /\ Vert' = Vert /\ \A w \in Vert : Larger(w)' = Larger(w)
  BY Frame DEF Propagate
<1> DEFINE left == segmentation[x] - registered[t]
<1>2. /\ UNCHANGED <<propagationMask, comp, current, cur>>
      /\ pc[t] = "capture"
      /\ criticalPoints' = [criticalPoints EXCEPT ![c] = Append(@, x)]
      /\ segmentation' = [segmentation EXCEPT ![x] = left]
      /\ pc'[t] = IF left = -(Cardinality(Larger(x)) - 0) - 1
                  THEN "merge" ELSE "stopped"
  BY <1>0 DEF Capture, RegisterWith, Goto, Base, locals
<1>3. /\ c \in propagations /\ c \in Vert /\ c # Null /\ c \in Holds(t)
      /\ x \in Vert
  BY <1>0, <1>1, ActiveFacts, VertFacts DEF Base
<1>4. /\ Marked(Saddle(c)) /\ ~Marked(x) /\ Saddle(c) # x
      /\ Own(t) # {} /\ Own(t) = {u \in Larger(x) : Holder(u) = c}
  <2>1. TaskOf(t)
    BY <1>1 DEF PInv
  <2>2. Marked(Saddle(c)) /\ ~Marked(x) /\ Own(t) # {}
    BY <1>0, <1>2, <2>1 DEF TaskOf
  <2> QED BY <1>0, <2>2 DEF Own
<1>5. /\ \A u : Holder(u)' = Holder(u)
      /\ \A w : Marked(w)' <=> Marked(w)
  BY <1>2 DEF Holder, Marked
<1>6. /\ Saddle(c)' = x
      /\ \A h \in Vert : h # c => Saddle(h)' = Saddle(h)
  <2>1. criticalPoints[c] \in Seq(Vert) /\ criticalPoints[c] # <<>>
    BY <1>3 DEF Types
  <2>2. criticalPoints'[c] = Append(criticalPoints[c], x)
    BY <1>2, <1>3 DEF Types
  <2>3. Last(Append(criticalPoints[c], x)) = x
    BY <1>3, <2>1 DEF Last
  <2>4. \A h \in Vert : h # c => criticalPoints'[h] = criticalPoints[h]
    BY <1>2 DEF Types
  <2> QED BY <2>2, <2>3, <2>4 DEF Saddle
<1>7. \A o \in propagations : \A h, w : Marking(o, h, w)' <=> Marking(o, h, w)
  <2>1. \A h, w : ~Marking(t, h, w)' /\ ~Marking(t, h, w)
    BY <1>2 DEF Marking
  <2> QED BY <1>1, <2>1, OthersMark
<1>8. \A o \in propagations : \A w : ~Marking(o, c, w)
  <2>1. \A w : ~Marking(t, c, w)
    BY <1>2 DEF Marking
  <2> QED BY <1>1, <1>3, <2>1, OthersMark
<1>9. ASSUME NEW u \in Vert, NEW w \in Vert, w # x, ~Marked(w)
      PROVE  Registered(u, w)' <=> Registered(u, w)
  <2>1. CASE Holder(u) = Null
    BY <1>5, <2>1, RegisteredFacts, RegisteredNext
  <2>2. CASE Holder(u) = c
    <3>1. Saddle(c) # w /\ Saddle(c)' # w
      BY <1>4, <1>6, <1>9
    <3>2. Saddle(Holder(u)) = Saddle(c) /\ Saddle(Holder(u))' = Saddle(c)'
      BY <1>5, <2>2 DEF Saddle
    <3>3. \A o \in propagations : Marking(o, Holder(u), w)' <=> Marking(o, c, w)'
      BY <1>5, <2>2 DEF Marking
    <3> QED BY <1>1, <1>5, <1>7, <1>8, <2>2, <3>1, <3>2, <3>3, RegisteredFacts,
               RegisteredNext
  <2>3. CASE Holder(u) # Null /\ Holder(u) # c
    <3>1. PICK h : h = Holder(u)
      OBVIOUS
    <3>2. h \in Vert
      BY <2>3, <3>1, HolderFacts DEF Types
    <3>3. Saddle(Holder(u)) = Saddle(h) /\ Saddle(Holder(u))' = Saddle(h)'
      BY <1>5, <3>1 DEF Saddle
    <3>4. \A o \in propagations : Marking(o, Holder(u), w)' <=> Marking(o, h, w)'
      BY <1>5, <3>1 DEF Marking
    <3> QED BY <1>1, <1>5, <1>6, <1>7, <2>3, <3>1, <3>2, <3>3, <3>4,
               RegisteredFacts, RegisteredNext
  <2> QED BY <2>1, <2>2, <2>3
<1>10. CASE v # x
  <2>1. t \notin Claiming(v) /\ t \notin Claiming(v)'
    BY <1>0, <1>2, <1>10 DEF Claiming
  <2>2. Larger(v) \subseteq Vert
    BY LargerFacts
  <2> QED BY <1>1, <1>5, <1>9, <1>10, <2>1, <2>2, StayAt
<1>11. CASE v = x
  <2>1. Larger(x) \subseteq Vert /\ IsFiniteSet(Larger(x))
    BY <1>3, LargerFacts
  <2>2. \A o \in propagations : \A h : ~Marking(o, h, x)
    <3>1. \A h : ~Marking(t, h, x)
      BY <1>2 DEF Marking
    <3>2. ASSUME NEW o \in propagations \ {t}, pc[o] = "mark"
          PROVE  cur[o] # x
      BY <1>0, <1>1, <1>2, <3>2, MarksAlone DEF Active, AtWork
    <3> QED BY <3>1, <3>2 DEF Marking
  <2>3. \A u \in Larger(x) :
           Registered(u, x) <=> Holder(u) # Null /\ Saddle(Holder(u)) = x
    BY <2>2, RegisteredFacts
  <2>4. \A u \in Larger(x) :
           Registered(u, x)' <=> Holder(u) # Null /\ Saddle(Holder(u))' = x
    <3> SUFFICES ASSUME NEW u \in Larger(x)
                 PROVE  Registered(u, x)' <=>
                           Holder(u) # Null /\ Saddle(Holder(u))' = x
      OBVIOUS
    <3>1. \A o \in propagations : ~Marking(o, Holder(u), x)'
      BY <1>5, <1>7, <2>2 DEF Marking
    <3> QED BY <1>1, <1>5, <3>1, RegisteredNext
  <2>5. \A u \in Larger(x) : Registered(u, x)' <=>
                                Registered(u, x) \/ u \in Own(t)
    <3> SUFFICES ASSUME NEW u \in Larger(x)
                 PROVE  Registered(u, x)' <=> Registered(u, x) \/ u \in Own(t)
      OBVIOUS
    <3>1. PICK h : h = Holder(u)
      OBVIOUS
    <3>2. Saddle(Holder(u)) = Saddle(h) /\ Saddle(Holder(u))' = Saddle(h)'
      BY <1>5, <3>1 DEF Saddle
    <3>3. h # Null => h \in Vert
      BY <2>1, <3>1, HolderFacts DEF Types
    <3> QED BY <1>3, <1>4, <1>6, <2>3, <2>4, <3>1, <3>2, <3>3
  <2>6. Pending(x)' = Pending(x) \ Own(t)
    <3>1. Pending(x) = {u \in Larger(x) : ~Registered(u, x)}
      BY <1>4 DEF Pending, Marked
    <3>2. Pending(x)' = {u \in Larger(x) : ~Registered(u, x)'}
      BY <1>1, <1>3, <1>4, <1>5 DEF Pending, Marked
    <3> QED BY <2>5, <3>1, <3>2
  <2>7. Pending(x)' \subseteq Pending(x) /\ Pending(x)' # Pending(x)
    <3>1. PICK u \in Own(t) : TRUE
      BY <1>4
    <3>2. u \in Larger(x) /\ ~Registered(u, x)
      <4>1. u \in Larger(x) /\ Holder(u) = c
        BY <1>4
      <4> QED BY <1>4, <2>3, <4>1
    <3>3. u \in Pending(x)
      BY <1>4, <3>2 DEF Pending, Marked
    <3> QED BY <2>6, <3>3
  <2>8. pc'[t] = "merge" <=> Pending(x)' = {}
    <3>1. Shares(x)' = {u \in Larger(x) : Registered(u, x)'}
      <4>1. \A u \in Larger(x) : Marked(u)' <=> Holder(u) # Null
        BY <1>5, <2>1, HolderFacts
      <4>2. Shares(x)' = {u \in Larger(x) : Marked(u)' /\ Saddle(Holder(u))' = x}
        BY <1>1, <1>3 DEF Shares
      <4> QED BY <2>4, <4>1, <4>2
    <3>2. Pending(x)' = Larger(x) \ Shares(x)'
      <4>1. Pending(x)' = {u \in Larger(x) : ~Registered(u, x)'}
        BY <1>1, <1>3, <1>4, <1>5 DEF Pending, Marked
      <4> QED BY <3>1, <4>1
    <3>3. left = -1 - Cardinality(Shares(x)')
      <4>1. CountOf(x)' /\ ~Marked(x)'
        BY <1>1, <1>3, <1>4, <1>5 DEF PInv
      <4>2. segmentation'[x] = left
        BY <1>2, <1>3 DEF Types
      <4> QED BY <4>1, <4>2 DEF CountOf
    <3>4. /\ Shares(x)' \in SUBSET Larger(x)
          /\ IsFiniteSet(Shares(x)')
          /\ Cardinality(Shares(x)') = Cardinality(Larger(x)) =>
                Shares(x)' = Larger(x)
      BY <2>1, <3>1, FS_Subset
    <3>5. Cardinality(Shares(x)') \in Nat /\ Cardinality(Larger(x)) \in Nat
      BY <2>1, <3>4, FS_CardinalityType
    <3> HIDE DEF left
    <3>6. left = -(Cardinality(Larger(x)) - 0) - 1 <=>
             Cardinality(Shares(x)') = Cardinality(Larger(x))
      BY <3>3, <3>5
    <3>7. Pending(x)' = {} <=> Shares(x)' = Larger(x)
      BY <3>2, <3>4
    <3>8. pc'[t] = "merge" <=> left = -(Cardinality(Larger(x)) - 0) - 1
      BY <1>2
    <3> QED BY <3>4, <3>6, <3>7, <3>8
  <2>9. ASSUME pc'[t] # "merge" PROVE Claimant(x)' = Claimant(x)
    <3>1. t \notin Claiming(x)' /\ t \notin Claiming(x)
      <4>1. pc'[t] = "stopped"
        BY <1>2, <2>9
      <4> QED BY <1>2, <4>1 DEF Claiming
    <3>2. Claiming(x)' = Claiming(x)
      <4>1. \A o \in propagations \ {t} : o \in Claiming(x)' <=> o \in Claiming(x)
        BY <1>1 DEF OthersStill, Claiming
      <4>2. Claiming(x) \subseteq propagations /\ Claiming(x)' \subseteq propagations
        BY <1>1 DEF Claiming
      <4> QED BY <3>1, <4>1, <4>2
    <3>3. Claimant(x) = IF Larger(x) = {} \/ Claiming(x) = {} THEN Null
                        ELSE Min(Claiming(x))
      BY DEF Claimant, Claiming
    <3>4. Claimant(x)' = IF Larger(x)' = {} \/ Claiming(x)' = {} THEN Null
                         ELSE Min(Claiming(x)')
      BY DEF Claimant, Claiming
    <3> QED BY <1>1, <1>3, <3>2, <3>3, <3>4
  <2>10. (Larger(x) # {} /\ propagationMask[x] # Null)'
           = (Larger(x) # {} /\ propagationMask[x] # Null)
    BY <1>1, <1>2, <1>3
  <2>11. IF Pending(x)' = {} THEN Claimant(x)' # Null
         ELSE Claimant(x)' = Claimant(x)
    <3>1. pc'[t] = "merge" => Claimant(x)' # Null
      <4> HAVE pc'[t] = "merge"
      <4>1. t \in Claiming(x)' /\ Larger(x)' # {}
        BY <1>0, <1>1, <1>2, <1>3, <1>4 DEF Claiming
      <4>2. Abstract(x)'
        BY <1>1, <1>3, AbstractStateNext
      <4> QED BY <4>1, <4>2 DEF Abstract
    <3> QED BY <2>8, <2>9, <3>1
  <2>12. LV(x)!Arrive
    BY <2>7, <2>10, <2>11 DEF LV!Arrive
  <2> QED BY <1>11, <2>12 DEF LV!LVNext
<1> QED BY <1>10, <1>11

(* Uniting propagations that stopped at a vertex changes who is registered *)
(* nowhere.                                                                *)
LEMMA UnifyStays ==
    ASSUME Base, Types, PInv, Base', Types', NEW t \in Vert, NEW p, Unify(t, p),
           NEW v \in Vert
    PROVE  LV(v)!Stay
<1>0. PICK c, x : c = current[t] /\ x = cur[t]
  OBVIOUS
<1>1. /\ pc[t] = "unify" /\ p \in todo[t]
      /\ UNCHANGED <<propagationMask, criticalPoints, current, cur>>
      /\ comp' = [q \in Vert |-> IF comp[q] = p THEN c ELSE comp[q]] \/ comp' = comp
      /\ pc'[t] \in {"mark", "unify"}
  BY <1>0 DEF Unify, Goto, Base
<1>2. p \in Vert
  BY <1>1 DEF Types
<1>3. /\ t \in propagations /\ Active(t)
      /\ UNCHANGED <<request, order, propagations>> /\ OthersStill(t)
      /\ Vert' = Vert /\ \A w \in Vert : Larger(w)' = Larger(w)
  BY <1>1, <1>2, Frame DEF Propagate
<1>4. /\ c \in Holds(t) /\ p \in Holds(t) /\ Holds(t) \subseteq propagations
      /\ c \in Vert /\ p \in Vert /\ c # Null /\ p # Null
  <2>1. c \in Holds(t) /\ Holds(t) \subseteq propagations /\ c \in Vert
    BY <1>0, <1>3, ActiveFacts
  <2>2. p \in Holds(t)
    BY <1>1 DEF Holds
  <2>3. Null \notin Vert
    BY VertFacts DEF Base
  <2> QED BY <1>2, <2>1, <2>2, <2>3
<1>5. Saddle(c) = x /\ Saddle(p) = x
  BY <1>0, <1>1, <1>3, <1>4 DEF PInv, TaskOf
<1>6. \A w : Marked(w)' <=> Marked(w)
  BY <1>1 DEF Marked
<1>7. \A h : Saddle(h)' = Saddle(h)
  BY <1>1 DEF Saddle
<1>8. ASSUME NEW u \in Vert
      PROVE  \/ Holder(u)' = Holder(u)
             \/ Holder(u) = p /\ Holder(u)' = c
  <2>1. CASE ~Marked(u)
    BY <1>1, <2>1 DEF Holder, Marked
  <2>2. CASE Marked(u)
    <3>1. propagationMask[u] \in Vert
      BY <2>2 DEF Types, Marked
    <3>2. /\ Holder(u) = comp[propagationMask[u]]
          /\ Holder(u)' = comp'[propagationMask[u]]
      BY <1>1, <2>2 DEF Holder, Marked
    <3> QED BY <1>1, <3>1, <3>2
  <2> QED BY <2>1, <2>2
<1>9. \A o \in propagations \ {t} : \A h : Marking(o, h, v)' <=> Marking(o, h, v)
  BY <1>3, OthersMark
<1>10. \A o \in propagations \ {t} : ~Marking(o, c, v) /\ ~Marking(o, p, v)
  BY <1>3, <1>4, OthersMark
<1>11. \A h : /\ ~Marking(t, h, v)
              /\ Marking(t, h, v)' => h = c /\ v = x
  BY <1>0, <1>1 DEF Marking
<1>12. ASSUME NEW u \in Larger(v)
       PROVE  Registered(u, v)' <=> Registered(u, v)
  <2>1. PICK h, k : h = Holder(u) /\ k = Holder(u)'
    OBVIOUS
  <2>2. u \in Vert
    BY LargerFacts
  <2>3. k = h \/ (h = p /\ k = c)
    BY <1>8, <2>1, <2>2
  <2>4. Registered(u, v) <=>
           h # Null /\ (Saddle(h) = v \/ \E o \in propagations : Marking(o, h, v))
    BY <2>1, RegisteredFacts DEF Marking
  <2>5. Saddle(Holder(u))' = Saddle(k)
    BY <1>1, <2>1 DEF Saddle
  <2>6. \A o \in propagations : Marking(o, Holder(u), v)' <=> Marking(o, k, v)'
    BY <2>1 DEF Marking
  <2>7. Registered(u, v)' <=>
           k # Null /\ (Saddle(k) = v \/ \E o \in propagations : Marking(o, k, v)')
    BY <1>3, <2>1, <2>5, <2>6, RegisteredNext
  <2>8. CASE k = h
    <3>1. \A o \in propagations :
             Marking(o, h, v)' <=> Marking(o, h, v) \/ (o = t /\ Marking(t, h, v)')
      BY <1>9, <1>11
    <3>2. Marking(t, h, v)' => Saddle(h) = v
      BY <1>5, <1>11
    <3> QED BY <2>4, <2>7, <2>8, <3>1, <3>2
  <2>9. CASE h = p /\ k = c
    <3>1. (\E o \in propagations : Marking(o, c, v)') => Saddle(c) = v
      BY <1>5, <1>9, <1>10, <1>11
    <3>2. ~(\E o \in propagations : Marking(o, p, v))
      BY <1>10, <1>11
    <3> QED BY <1>4, <1>5, <2>4, <2>7, <2>9, <3>1, <3>2
  <2> QED BY <2>3, <2>8, <2>9
<1>13. t \in Claiming(v)' <=> t \in Claiming(v)
  BY <1>1, <1>3 DEF Claiming
<1> QED BY <1>3, <1>6, <1>12, <1>13, StayAt

(* A vertex is settled when it is marked, by the task that claimed it.     *)
LEMMA MarkSettles ==
    ASSUME Base, Types, PInv, Base', Types', PInv', NEW t \in Vert, Mark(t),
           NEW v \in Vert
    PROVE  LV(v)!Stay \/ LV(v)!LVNext
<1>0. PICK c, x : c = current[t] /\ x = cur[t]
  OBVIOUS
<1>1. /\ t \in propagations /\ Active(t)
      /\ UNCHANGED <<request, order, propagations>> /\ OthersStill(t)
      /\ Vert' = Vert /\ \A w \in Vert : Larger(w)' = Larger(w)
  BY Frame DEF Propagate
<1>2. /\ pc[t] = "mark" /\ pc'[t] = "pop"
      /\ UNCHANGED <<comp, criticalPoints, current, cur>>
      /\ propagationMask' = [propagationMask EXCEPT ![x] = c]
  BY <1>0 DEF Mark, Goto, Base, locals
<1>3. /\ c \in propagations /\ c \in Vert /\ c # Null /\ c \in Holds(t)
      /\ comp[c] = c /\ x \in Vert
  BY <1>0, <1>1, ActiveFacts, VertFacts DEF Base
<1>4. /\ ~Marked(x) /\ \A u \in Larger(x) : Holder(u) = c
      /\ Marked(Saddle(c)) \/ Saddle(c) = x
  <2>1. TaskOf(t)
    BY <1>1 DEF PInv
  <2> QED BY <1>0, <1>2, <2>1 DEF TaskOf
<1>5. /\ Holder(x) = Null /\ Holder(x)' = c /\ Marked(x)'
      /\ \A w \in Vert : w # x => /\ Holder(w)' = Holder(w)
                                  /\ Marked(w)' <=> Marked(w)
  BY <1>2, <1>3, <1>4 DEF Holder, Marked, Types
<1>6. \A h : Saddle(h)' = Saddle(h)
  BY <1>2 DEF Saddle
<1>7. \A o \in propagations \ {t} : \A h, w : Marking(o, h, w)' <=> Marking(o, h, w)
  BY <1>1, OthersMark
<1>8. /\ \A h, w : ~Marking(t, h, w)'
      /\ \A h, w : Marking(t, h, w) => w = x
      /\ Marking(t, c, x)
  BY <1>0, <1>2 DEF Marking
<1>9. \A o \in propagations \ {t} : \A w : ~Marking(o, c, w)
  BY <1>1, <1>3, OthersMark
<1>10. CASE v # x
  <2>1. ASSUME NEW u \in Larger(v), ~Marked(v)
        PROVE  Registered(u, v)' <=> Registered(u, v)
    <3>1. PICK h : h = Holder(u)'
      OBVIOUS
    <3>2. u \in Vert
      BY LargerFacts
    <3>3. \A o \in propagations : Marking(o, Holder(u), v)' <=> Marking(o, h, v)
      <4>1. \A o \in propagations : Marking(o, Holder(u), v)' <=> Marking(o, h, v)'
        BY <3>1 DEF Marking
      <4> QED BY <1>7, <1>8, <1>10, <4>1
    <3>4. Saddle(Holder(u))' = Saddle(h)
      BY <1>2, <3>1 DEF Saddle
    <3>5. Registered(u, v)' <=>
             h # Null /\ (Saddle(h) = v \/ \E o \in propagations : Marking(o, h, v))
      BY <1>1, <3>1, <3>3, <3>4, RegisteredNext
    <3>6. CASE u # x
      <4>1. Holder(u) = h
        BY <1>5, <3>1, <3>2, <3>6
      <4> QED BY <3>5, <4>1, RegisteredFacts DEF Marking
    <3>7. CASE u = x
      <4>1. h = c /\ Holder(u) = Null
        BY <1>5, <3>1, <3>7
      <4>2. Saddle(c) # v
        BY <1>4, <1>10, <2>1
      <4>3. \A o \in propagations : ~Marking(o, c, v)
        BY <1>8, <1>9, <1>10
      <4> QED BY <3>5, <4>1, <4>2, <4>3, RegisteredFacts
    <3> QED BY <3>6, <3>7
  <2>2. t \notin Claiming(v) /\ t \notin Claiming(v)'
    BY <1>0, <1>2, <1>10 DEF Claiming
  <2>3. LV(v)!Stay
    BY <1>1, <1>5, <1>10, <2>1, <2>2, StayAt
  <2> QED BY <2>3
<1>11. CASE v = x
  <2>1. Abstract(x) /\ Abstract(x)'
    BY <1>1, <1>3, AbstractState, AbstractStateNext
  <2>2. Pending(x) = {} /\ Pending(x)' = {}
    <3>1. \A u \in Larger(x) : Registered(u, x)
      BY <1>1, <1>3, <1>4, <1>8, RegisteredFacts DEF Marking
    <3>2. Pending(x) = {}
      BY <1>4, <3>1 DEF Pending, Marked
    <3>3. Pending(x)' = {}
      BY <1>5 DEF Pending, Marked
    <3> QED BY <3>2, <3>3
  <2>3. Claiming(x)' = {}
    <3>1. t \notin Claiming(x)'
      BY <1>2 DEF Claiming
    <3>2. ASSUME NEW o \in propagations \ {t}, pc[o] \in {"merge", "unify", "mark"}
          PROVE  cur[o] # x
      BY <1>0, <1>1, <1>2, <3>2, MarksAlone DEF Active, AtWork
    <3>3. \A o \in propagations \ {t} : o \notin Claiming(x)'
      BY <1>1, <3>2 DEF Claiming, OthersStill
    <3> QED BY <1>1, <3>1, <3>3 DEF Claiming
  <2>4. Claimant(x)' = Null
    BY <2>1, <2>3 DEF Abstract
  <2>5. t \in Claiming(x)
    BY <1>0, <1>1, <1>2 DEF Claiming
  <2>6. CASE Larger(x) = {}
    <3>1. Larger(x)' = {} /\ Claimant(x) = Null
      BY <1>1, <1>3, <2>1, <2>6 DEF Abstract
    <3>2. LV(x)!Stay
      BY <2>2, <2>4, <2>6, <3>1 DEF LV!Stay
    <3> QED BY <1>11, <3>2
  <2>7. CASE Larger(x) # {}
    <3>1. Larger(x)' # {} /\ Claimant(x) # Null
      BY <1>1, <1>3, <2>1, <2>5, <2>7 DEF Abstract
    <3>2. /\ ~(Larger(x) # {} /\ propagationMask[x] # Null)
          /\ (Larger(x) # {} /\ propagationMask[x] # Null)'
      BY <1>4, <1>5, <3>1 DEF Marked
    <3>3. LV(x)!Settle
      BY <2>2, <2>4, <3>1, <3>2 DEF LV!Settle
    <3> QED BY <1>11, <3>3 DEF LV!LVNext
  <2> QED BY <2>6, <2>7
<1> QED BY <1>10, <1>11

(* A pass begins with all that is above a vertex missing there.            *)
LEMMA VisitorsBegin ==
    ASSUME IInv, IInv', InitializePropagations, NEW v \in Vert
    PROVE  LV(v)!LVInit(Larger(v))'
<1>1. /\ request' = request /\ order' = order /\ step' = "propagate"
      /\ propagationMask' = [w \in Vert |-> Null]
      /\ pc' = [w \in Vert |-> IF w \in propagations' THEN "start" ELSE "none"]
  BY DEF InitializePropagations, fields
<1>2. Vert' = Vert /\ Larger(v)' = Larger(v) /\ Larger(v) \subseteq Vert
  <2>1. Vert' = Vert /\ Larger(v)' = Larger(v)
    BY <1>1 DEF Vert, Larger, Neighbors
  <2> QED BY <2>1, LargerFacts DEF IInv
<1>3. Base' /\ Types' /\ propagations' \subseteq Vert
  BY <1>1, <1>2 DEF IInv, Between
<1>4. \A u \in Vert : Holder(u)' = Null /\ ~Marked(u)'
  BY <1>1 DEF Holder, Marked
<1>5. Pending(v)' = Larger(v)'
  <2>1. \A u \in Vert : ~Registered(u, v)'
    BY <1>4, RegisteredNext
  <2> QED BY <1>2, <1>4, <2>1 DEF Pending, Marked
<1>6. Claiming(v)' = {}
  BY <1>1, <1>3 DEF Claiming
<1>7. Claimant(v)' = Null
  BY <1>2, <1>3, <1>6, AbstractStateNext DEF Abstract
<1>8. (Larger(v) # {} /\ propagationMask[v] # Null)' = FALSE
  BY <1>1
<1> QED BY <1>5, <1>7, <1>8 DEF LV!LVInit

(* Every step of the propagations is, at every vertex, a step of the       *)
(* abstract visitors or leaves them as they are.                           *)
LEMMA VisitorStep ==
    ASSUME IInv, IInv', NEW t \in Vert, Propagate(t), NEW v \in Vert
    PROVE  LV(v)!Stay \/ LV(v)!LVNext
<1>1. step = "propagate" /\ step' = step
  <2>1. step = "propagate"
    BY PropagateKeeps
  <2>2. step' = step
    BY DEF Propagate, Start, OutOfVertices, Abort, Visit, Capture, RegisterWith,
           Dominant, Unify, Mark, propagating
  <2> QED BY <2>1, <2>2
<1>2. Base /\ Types /\ PInv /\ Base' /\ Types' /\ PInv'
  BY <1>1 DEF IInv
<1>3. CASE Start(t) \/ OutOfVertices(t) \/ Abort(t) \/ Dominant(t)
  BY <1>2, <1>3, QuietStays
<1>4. CASE Visit(t)
  BY <1>2, <1>4, VisitArrives
<1>5. CASE Capture(t)
  BY <1>2, <1>5, CaptureArrives
<1>6. CASE \E p \in Vert : Unify(t, p)
  BY <1>2, <1>6, UnifyStays
<1>7. CASE Mark(t)
  BY <1>2, <1>7, MarkSettles
<1> QED BY <1>3, <1>4, <1>5, <1>6, <1>7 DEF Propagate

(* Which steps begin a pass or lie within one.                             *)
LEMMA PassSteps ==
    ASSUME IInv, [Next]_vars, step' = "propagate"
    PROVE  \/ step = "begin" /\ InitializePropagations
           \/ step = "propagate" /\ \E t \in Vert : Propagate(t)
           \/ step = "propagate" /\ UNCHANGED vars
<1>1. Base /\ Between
  BY DEF IInv
<1>2. CASE \E t \in Vert : Propagate(t)
  BY <1>2, PropagateKeeps
<1>3. CASE \E p \in Vert : Simplify(p)
  <2>1. PICK p \in Vert : Simplify(p)
    BY <1>3
  <2>2. step # "propagate"
    BY <1>1, <2>1, ComputeSegmentKeeps, InitLocalOrderKeeps, IterateKeeps
       DEF Simplify
  <2>3. step' = step
    BY <2>1 DEF Simplify, ComputeSegment, InitLocalOrder, Iterate, ordering
  <2> QED BY <2>2, <2>3
<1>4. CASE UNCHANGED vars
  BY <1>4 DEF vars
<1>5. CASE InitializePropagations
  BY <1>5 DEF InitializePropagations
<1>6. CASE BeginPasses
  BY <1>1, <1>6 DEF BeginPasses, Between
<1>7. CASE FinalizePropagations \/ Fail \/ EndPass \/ Finish \/ Returned
  BY <1>7 DEF FinalizePropagations, Fail, EndPass, Finish, Returned, vars
<1> QED BY <1>2, <1>3, <1>4, <1>5, <1>6, <1>7 DEF Next

(* Whatever the order in which tasks take their shares off the counter of  *)
(* a vertex, each neighbour above it is accounted for once in a pass, and  *)
(* the task that accounts for the last one, nobody else, goes on from      *)
(* there: the propagations implement LastVisitor at every vertex.          *)
THEOREM SimplificationImplementsLastVisitor == Spec => ImplementsLastVisitor
<1>1. ASSUME IInv, IInv', [Next]_vars
      PROVE  [\A v \in Vert :
                /\ step = "begin" /\ step' = "propagate" =>
                      LV(v)!LVInit(Larger(v))'
                /\ step = "propagate" /\ step' = "propagate" =>
                      LV(v)!Stay \/ LV(v)!LVNext]_vars
  <2> SUFFICES ASSUME NEW v \in Vert, step' = "propagate"
               PROVE  /\ step = "begin" => LV(v)!LVInit(Larger(v))'
                      /\ step = "propagate" => \/ LV(v)!Stay \/ LV(v)!LVNext
                                               \/ UNCHANGED vars
    OBVIOUS
  <2>1. CASE step = "begin" /\ InitializePropagations
    BY <1>1, <2>1, VisitorsBegin
  <2>2. CASE step = "propagate" /\ \E t \in Vert : Propagate(t)
    BY <1>1, <2>2, VisitorStep
  <2>3. CASE step = "propagate" /\ UNCHANGED vars
    BY <2>3
  <2> QED BY <1>1, <2>1, <2>2, <2>3, PassSteps
<1> QED BY <1>1, IInvAlways, PTL DEF Spec, ImplementsLastVisitor
-------------------------------------------------------------------------------
(***************************************************************************)
(* Superlevel sets: the invariant of the sweep.                            *)
(***************************************************************************)
(* S does not fall apart in the mesh.                                      *)
Connected(mesh, S) ==
    \A X \in SUBSET S : X # {} /\ X # S =>
        \E a \in X, b \in S \ X : {a, b} \in mesh

(* x has been queued for c, or is next to what c holds.                    *)
Seen(c, x) == queueMask[x] = c \/ \E w \in Neighbors(x) : Holder(w) = c

(* What c holds lies above what it has queued, and leaves out no neighbour *)
(* that is not queued.                                                     *)
Ready(c) ==
    /\ \A w \in Held(c), x \in queue[c] : Marked(x) \/ order[x] < order[w]
    /\ \A x \in Vert : Seen(c, x) => Marked(x) \/ x \in queue[c]

(* The same when v has been taken off the queue.                           *)
At(c, v) ==
    /\ \A w \in Held(c) : order[v] < order[w]
    /\ \A x \in queue[c] : order[x] < order[v]
    /\ \A x \in Vert : Seen(c, x) => Marked(x) \/ x \in queue[c] \/ x = v

(* The neighbours below the vertex v of t are queued.                      *)
Opened(t, v) ==
    \A x \in Neighbors(v) \ Larger(v) :
        Marked(x) \/ \E h \in Holds(t) : x \in queue[h]

SweepOf(t) ==
    \A c, v \in Vert : current[t] = c /\ cur[t] = v =>
        /\ pc[t] \in {"start", "pop"} => Ready(c)
        /\ pc[t] \in {"capture", "mark"} => At(c, v)
        /\ pc[t] \in {"capture", "merge", "unify", "mark"} => Opened(t, v)
        /\ pc[t] \in {"unify", "mark"} =>
              Connected(request.mesh, Held(c) \cup {v})

(* What meets at a saddle falls apart until it is united with the saddle.  *)
Growing(c) == \E t \in propagations : pc[t] \in {"unify", "mark"}
                                       /\ current[t] = c

HillOf(c) ==
    comp[c] = c =>
        /\ segmentSize[c] = Cardinality(Held(c))
        /\ Held(c) # {} => Marked(c)
        /\ \A s \in Vert : Saddle(c) = s /\ ~Marked(s) /\ s # c => At(c, s)
        /\ Growing(c) \/ Connected(request.mesh, Held(c))

SInv == /\ queueMask \in [Vert -> Int]
        /\ \A t \in propagations : SweepOf(t) /\ HillOf(t)

SweepInv == step = "propagate" => SInv
-------------------------------------------------------------------------------
(***************************************************************************)
(* Connected parts of a mesh.                                              *)
(***************************************************************************)
(* The edges of the mesh join neighbours.                                  *)
LEMMA EdgeFacts ==
    ASSUME request \in Requests, NEW x \in Vert, NEW y \in Vert
    PROVE  {x, y} \in request.mesh <=> y \in Neighbors(x)
<1>1. \A e \in request.mesh : \E u, w \in Vert : u # w /\ e = {u, w}
  BY RequestsAssumption DEF Vert
<1>2. ASSUME {x, y} \in request.mesh PROVE y \in Neighbors(x)
  <2>1. x # y
    BY <1>1, <1>2
  <2> QED BY <1>2, <2>1 DEF Neighbors, J!Neighbors
<1>3. ASSUME y \in Neighbors(x) PROVE {x, y} \in request.mesh
  <2>1. PICK e \in request.mesh : x \in e /\ y \in e \ {x}
    BY <1>3 DEF Neighbors, J!Neighbors
  <2>2. e = {x, y}
    BY <1>1, <2>1
  <2> QED BY <2>1, <2>2
<1> QED BY <1>2, <1>3

(* Two connected sets with a common vertex are connected together.         *)
LEMMA ConnectedUnion ==
    ASSUME NEW mesh, NEW A, NEW B, Connected(mesh, A), Connected(mesh, B),
           NEW v, v \in A, v \in B
    PROVE  Connected(mesh, A \cup B)
<1> SUFFICES ASSUME NEW X \in SUBSET (A \cup B), X # {}, X # A \cup B
             PROVE  \E a \in X, b \in (A \cup B) \ X : {a, b} \in mesh
  BY DEF Connected
<1>1. CASE X \cap A # {} /\ ~(A \subseteq X)
  <2>1. X \cap A \in SUBSET A /\ X \cap A # {} /\ X \cap A # A
    BY <1>1
  <2>2. PICK a \in X \cap A, b \in A \ (X \cap A) : {a, b} \in mesh
    BY <2>1 DEF Connected
  <2> QED BY <2>2
<1>2. CASE X \cap B # {} /\ ~(B \subseteq X)
  <2>1. X \cap B \in SUBSET B /\ X \cap B # {} /\ X \cap B # B
    BY <1>2
  <2>2. PICK a \in X \cap B, b \in B \ (X \cap B) : {a, b} \in mesh
    BY <2>1 DEF Connected
  <2> QED BY <2>2
<1>3. CASE (X \cap A = {} \/ A \subseteq X) /\ (X \cap B = {} \/ B \subseteq X)
  BY <1>3
<1> QED BY <1>1, <1>2, <1>3

(* A connected set stays so with a neighbour of one of its vertices.       *)
LEMMA ConnectedNext ==
    ASSUME NEW mesh, NEW S, Connected(mesh, S), NEW u \in S, NEW v,
           {u, v} \in mesh
    PROVE  Connected(mesh, S \cup {v})
<1>1. Connected(mesh, {u, v})
  <2> SUFFICES ASSUME NEW X \in SUBSET {u, v}, X # {}, X # {u, v}
               PROVE  \E a \in X, b \in {u, v} \ X : {a, b} \in mesh
    BY DEF Connected
  <2>1. CASE u \in X
    <3>1. v \in {u, v} \ X
      BY <2>1
    <3> QED BY <2>1, <3>1
  <2>2. CASE v \in X
    <3>1. u \in {u, v} \ X /\ {v, u} \in mesh
      <4>1. {v, u} = {u, v}
        OBVIOUS
      <4> QED BY <2>2, <4>1
    <3> QED BY <2>2, <3>1
  <2> QED BY <2>1, <2>2
<1>2. Connected(mesh, S \cup {u, v})
  BY <1>1, ConnectedUnion
<1>3. S \cup {u, v} = S \cup {v}
  OBVIOUS
<1> QED BY <1>2, <1>3

(* So is a vertex alone, and nothing at all.                               *)
LEMMA ConnectedSmall ==
    ASSUME NEW mesh, NEW v
    PROVE  Connected(mesh, {}) /\ Connected(mesh, {v})
BY DEF Connected
-------------------------------------------------------------------------------
(***************************************************************************)
(* What a step of a task leaves of the sweep.                              *)
(***************************************************************************)
(* The step does not touch what h holds and has queued.                    *)
Alike(h) ==
    /\ \A u \in Vert : Holder(u)' = h <=> Holder(u) = h
    /\ \A u \in Vert : queueMask'[u] = h => queueMask[u] = h
    /\ queue'[h] = queue[h]

LEMMA AlikeFacts ==
    ASSUME Base, Types, UNCHANGED <<request, order>>,
           \A u \in Vert : Marked(u) => Marked(u)',
           NEW h \in Vert, Alike(h)
    PROVE  /\ Held(h)' = Held(h)
           /\ Ready(h) => Ready(h)'
           /\ \A v \in Vert : At(h, v) => At(h, v)'
<1>1. /\ Vert' = Vert /\ queue[h] \subseteq Vert
      /\ \A v \in Vert : Neighbors(v)' = Neighbors(v) /\ Neighbors(v) \subseteq Vert
  BY NeighborFacts DEF Vert, Neighbors, Types, Base
<1>2. Held(h)' = Held(h) /\ Held(h) \subseteq Vert
  BY <1>1 DEF Held, Alike
<1>3. \A x \in Vert : Seen(h, x)' => Seen(h, x)
  BY <1>1 DEF Seen, Alike
<1>4. Ready(h) => Ready(h)'
  BY <1>1, <1>2, <1>3 DEF Ready, Alike
<1>5. \A v \in Vert : At(h, v) => At(h, v)'
  BY <1>1, <1>2, <1>3 DEF At, Alike
<1> QED BY <1>2, <1>4, <1>5

(* Nor where it ends and how much it counts.                               *)
Spared(h) ==
    /\ Alike(h)
    /\ Saddle(h)' = Saddle(h)
    /\ segmentSize'[h] = segmentSize[h]
    /\ comp'[h] = h => comp[h] = h

(* A step of t keeps the invariant if it does so at what t works on and    *)
(* leaves the other propagations alone.                                    *)
LEMMA SweepKept ==
    ASSUME Base, Types, PInv, SInv, NEW t \in propagations, Active(t),
           UNCHANGED <<request, order, propagations>>, OthersStill(t),
           \A u \in Vert : Marked(u) => Marked(u)',
           queueMask' \in [Vert -> Int],
           \A h \in propagations \ Holds(t) : Spared(h),
           SweepOf(t)',
           \A h \in Holds(t) : HillOf(h)'
    PROVE  SInv'
<1>1. /\ Vert' = Vert /\ propagations \subseteq Vert
      /\ \A v \in Vert : /\ Larger(v)' = Larger(v) /\ Larger(v) \subseteq Vert
                         /\ Neighbors(v)' = Neighbors(v)
                         /\ Neighbors(v) \subseteq Vert
  BY LargerFacts, NeighborFacts DEF Vert, Larger, Neighbors, Types, Base
<1>2. ASSUME NEW o \in propagations \ {t}
      PROVE  /\ pc'[o] = pc[o] /\ current'[o] = current[o] /\ cur'[o] = cur[o]
             /\ todo'[o] = todo[o]
  BY DEF OthersStill
<1>3. ASSUME NEW o \in propagations \ {t}, Active(o)
      PROVE  /\ \A h \in Holds(o) : h \in propagations \ Holds(t)
             /\ Holds(o)' = Holds(o)
  <2>1. \A h \in Holds(o) : h \in propagations \ Holds(t)
    <3>1. Holds(t) \cap Holds(o) = {}
      BY <1>3 DEF PInv, Exclusive
    <3> QED BY <1>3, <3>1, ActiveFacts
  <2>2. pc[o] = "merge" => Merged(o)' = Merged(o)
    <3> HAVE pc[o] = "merge"
    <3>1. cur[o] \in Vert /\ \A u \in Larger(cur[o]) : Holder(u) \in Holds(o)
      BY DEF PInv, TaskOf, Types
    <3>2. Larger(cur[o])' = Larger(cur[o]) /\ Larger(cur[o]) \subseteq Vert
      BY <1>1, <1>2, <3>1 DEF Larger, Neighbors
    <3>3. \A u \in Larger(cur[o]) : Holder(u)' = Holder(u)
      <4> TAKE u \in Larger(cur[o])
      <4>1. Alike(Holder(u))
        BY <2>1, <3>1 DEF Spared
      <4>2. PICK h : h = Holder(u)
        OBVIOUS
      <4>3. Alike(h)
        BY <4>1, <4>2
      <4> QED BY <3>2, <4>2, <4>3 DEF Alike
    <3> QED BY <3>2, <3>3 DEF Merged
  <2>3. Holds(o)' = Holds(o)
    BY <1>2, <2>2 DEF Holds
  <2> QED BY <2>1, <2>3
<1>4. ASSUME NEW o \in propagations PROVE SweepOf(o)'
  <2>1. CASE o = t
    BY <2>1
  <2>2. CASE o # t
    <3> SUFFICES ASSUME NEW c \in Vert, NEW v \in Vert,
                        current'[o] = c, cur'[o] = v
                 PROVE  /\ pc'[o] \in {"start", "pop"} => Ready(c)'
                        /\ pc'[o] \in {"capture", "mark"} => At(c, v)'
                        /\ pc'[o] \in {"capture", "merge", "unify", "mark"}
                              => Opened(o, v)'
                        /\ pc'[o] \in {"unify", "mark"} =>
                              Connected(request.mesh, Held(c) \cup {v})'
      BY <1>1 DEF SweepOf
    <3>1. /\ pc'[o] = pc[o] /\ current[o] = c /\ cur[o] = v
          /\ SweepOf(o) /\ c \in Vert /\ v \in Vert
      BY <1>2, <2>2 DEF SInv
    <3> SUFFICES ASSUME Active(o)
                 PROVE  /\ pc[o] \in {"start", "pop"} => Ready(c)'
                        /\ pc[o] \in {"capture", "mark"} => At(c, v)'
                        /\ pc[o] \in {"capture", "merge", "unify", "mark"}
                              => Opened(o, v)'
                        /\ pc[o] \in {"unify", "mark"} =>
                              Connected(request.mesh, Held(c) \cup {v})'
      BY <3>1 DEF Active, AtWork
    <3>2. /\ \A h \in Holds(o) : h \in propagations \ Holds(t)
          /\ Holds(o)' = Holds(o) /\ c \in Holds(o)
      BY <1>3, <2>2, <3>1, ActiveFacts
    <3>3. /\ Held(c)' = Held(c)
          /\ Ready(c) => Ready(c)'
          /\ At(c, v) => At(c, v)'
      BY <3>2, AlikeFacts DEF Spared
    <3>4. Opened(o, v) => Opened(o, v)'
      <4>1. \A h \in Holds(o) : queue'[h] = queue[h]
        BY <3>2 DEF Spared, Alike
      <4>2. \A x \in Neighbors(v) \ Larger(v) : Marked(x) => Marked(x)'
        BY <1>1
      <4> QED BY <1>1, <3>2, <4>1, <4>2 DEF Opened
    <3>5. Connected(request.mesh, Held(c) \cup {v}) =>
             Connected(request.mesh, Held(c) \cup {v})'
      BY <3>3
    <3> QED BY <3>1, <3>3, <3>4, <3>5 DEF SweepOf
  <2> QED BY <2>1, <2>2
<1>5. ASSUME NEW c \in propagations PROVE HillOf(c)'
  <2>1. CASE c \in Holds(t)
    BY <2>1
  <2>2. CASE c \notin Holds(t)
    <3>1. Spared(c) /\ c \in Vert /\ HillOf(c)
      BY <1>1, <2>2 DEF SInv
    <3>2. /\ Held(c)' = Held(c)
          /\ \A s \in Vert : At(c, s) => At(c, s)'
      BY <3>1, AlikeFacts DEF Spared
    <3>3. Marked(c) => Marked(c)'
      BY <3>1
    <3>4. Growing(c) => Growing(c)'
      <4> SUFFICES ASSUME NEW o \in propagations,
                          pc[o] \in {"unify", "mark"}, current[o] = c
                   PROVE  Growing(c)'
        BY DEF Growing
      <4>1. o # t
        BY <2>2 DEF Holds
      <4>2. pc'[o] \in {"unify", "mark"} /\ current'[o] = c
        BY <1>2, <4>1
      <4> QED BY <4>2 DEF Growing
    <3>5. \A s \in Vert : Marked(s) => Marked(s)'
      OBVIOUS
    <3> SUFFICES ASSUME comp[c] = c PROVE HillOf(c)'
      BY <3>1 DEF HillOf, Spared
    <3>6. segmentSize'[c] = Cardinality(Held(c)')
      BY <3>1, <3>2 DEF HillOf, Spared
    <3>7. Held(c)' # {} => Marked(c)'
      BY <3>1, <3>2, <3>3 DEF HillOf
    <3>8. \A s \in Vert : Saddle(c)' = s /\ ~Marked(s)' /\ s # c => At(c, s)'
      BY <3>1, <3>2, <3>5 DEF HillOf, Spared
    <3>9. Growing(c)' \/ Connected(request.mesh, Held(c))'
      BY <3>1, <3>2, <3>4 DEF HillOf
    <3> QED BY <1>1, <3>6, <3>7, <3>8, <3>9 DEF HillOf
  <2> QED BY <2>1, <2>2
<1> QED BY <1>1, <1>4, <1>5 DEF SInv

(* What a task works on is united by nobody else.                          *)
LEMMA NotGrowing ==
    ASSUME Types, PInv, NEW t \in propagations, Active(t), NEW h \in Holds(t),
           pc[t] \notin {"unify", "mark"} \/ current[t] # h
    PROVE  ~Growing(h)
<1> SUFFICES ASSUME NEW o \in propagations, pc[o] \in {"unify", "mark"},
                    current[o] = h
             PROVE  FALSE
  BY DEF Growing
<1>1. o # t /\ Active(o)
  BY DEF Active, AtWork
<1> QED BY <1>1, Sole

(* What an active task works on.                                           *)
LEMMA HoldsHills ==
    ASSUME Base, Types, PInv, SInv, NEW t \in propagations, Active(t),
           NEW h \in Holds(t)
    PROVE  /\ h \in propagations /\ h \in Vert /\ comp[h] = h
           /\ segmentSize[h] = Cardinality(Held(h))
           /\ Held(h) # {} => Marked(h)
           /\ \A s \in Vert : Saddle(h) = s /\ ~Marked(s) /\ s # h => At(h, s)
           /\ Growing(h) \/ Connected(request.mesh, Held(h))
<1>1. h \in propagations /\ h \in Vert /\ comp[h] = h
  BY ActiveFacts DEF PInv, TaskOf, Types
<1> QED BY <1>1 DEF SInv, HillOf

(* A step that leaves a propagation t works on as it is.                   *)
LEMMA HillStays ==
    ASSUME Base, Types, PInv, SInv, UNCHANGED <<request, order>>,
           \A u \in Vert : Marked(u) => Marked(u)',
           NEW t \in propagations, Active(t), NEW h \in Holds(t), Spared(h),
           Growing(h)' \/ ~Growing(h)
    PROVE  HillOf(h)'
<1>1. /\ h \in propagations /\ h \in Vert /\ comp[h] = h
      /\ segmentSize[h] = Cardinality(Held(h))
      /\ Held(h) # {} => Marked(h)
      /\ \A s \in Vert : Saddle(h) = s /\ ~Marked(s) /\ s # h => At(h, s)
      /\ Growing(h) \/ Connected(request.mesh, Held(h))
  BY HoldsHills
<1>2. /\ Held(h)' = Held(h)
      /\ \A s \in Vert : At(h, s) => At(h, s)'
  BY <1>1, AlikeFacts DEF Spared
<1>3. Vert' = Vert /\ (Marked(h) => Marked(h)')
  BY <1>1 DEF Vert
<1>4. \A s \in Vert : Marked(s) => Marked(s)'
  OBVIOUS
<1>5. segmentSize'[h] = Cardinality(Held(h)')
  BY <1>1, <1>2 DEF Spared
<1>6. Held(h)' # {} => Marked(h)'
  BY <1>1, <1>2, <1>3
<1>7. \A s \in Vert : Saddle(h)' = s /\ ~Marked(s)' /\ s # h => At(h, s)'
  BY <1>1, <1>2, <1>4 DEF Spared
<1>8. Growing(h)' \/ Connected(request.mesh, Held(h))'
  BY <1>1, <1>2
<1> QED BY <1>3, <1>5, <1>6, <1>7, <1>8 DEF HillOf
-------------------------------------------------------------------------------
(***************************************************************************)
(* The sweep, action by action.                                            *)
(***************************************************************************)
(* A task queues its maximum: its propagation holds nothing yet.           *)
LEMMA StartSweeps ==
    ASSUME Base, Types, PInv, SInv, NEW t \in Vert, Start(t)
    PROVE  SInv'
<1>1. /\ t \in propagations /\ Active(t) /\ OthersStill(t) /\ Propagate(t)
      /\ UNCHANGED <<request, order, propagations>>
      /\ Vert' = Vert /\ pc[t] = "start"
  <2>1. Propagate(t)
    BY DEF Propagate
  <2> QED BY <2>1, Frame DEF Start
<1>2. /\ UNCHANGED <<propagationMask, comp, criticalPoints, segmentSize>>
      /\ current' = current /\ cur' = cur
      /\ queue' = [queue EXCEPT ![t] = {t}]
      /\ queueMask' = [queueMask EXCEPT ![t] = t]
      /\ pc' = [pc EXCEPT ![t] = "pop"]
  BY DEF Start, locals, Goto
<1>3. /\ current[t] = t /\ cur[t] = t /\ ~Marked(t) /\ Saddle(t) = t
      /\ queue[t] = {} /\ Holds(t) = {t}
  <2>1. TaskOf(t)
    BY <1>1 DEF PInv
  <2> QED BY <1>1, <2>1 DEF TaskOf, Holds
<1>4. /\ \A u \in Vert : /\ Holder(u)' = Holder(u)
                         /\ Marked(u)' <=> Marked(u)
                         /\ Neighbors(u)' = Neighbors(u)
                         /\ Neighbors(u) \subseteq Vert
                         /\ Saddle(u)' = Saddle(u)
      /\ Held(t)' = Held(t)
  <2>1. \A u \in Vert : Holder(u)' = Holder(u) /\ Neighbors(u)' = Neighbors(u)
    BY <1>1, <1>2 DEF Holder, Neighbors
  <2>2. Held(t)' = Held(t)
    BY <1>1, <2>1 DEF Held
  <2> QED BY <1>2, <2>1, <2>2, NeighborFacts DEF Marked, Saddle, Base
<1>5. Vert \subseteq Nat /\ queueMask \in [Vert -> Int]
  BY VertFacts DEF Base, SInv
<1>6. Held(t) = {} /\ segmentSize[t] = Cardinality(Held(t))
  BY <1>1, <1>3, HoldsHills
<1>7. \A u \in Vert : queueMask'[u] = t => queueMask[u] = t \/ u = t
  BY <1>2, <1>5
<1>8. queueMask' \in [Vert -> Int]
  BY <1>2, <1>5
<1>9. queue'[t] = {t} /\ pc'[t] = "pop" /\ current'[t] = t /\ cur'[t] = t
  BY <1>1, <1>2, <1>3 DEF Types, Base
<1>10. SweepOf(t)'
  <2>1. Ready(t)
    BY <1>1, <1>3, <1>5 DEF SInv, SweepOf
  <2>2. \A x \in Vert : Seen(t, x)' => Seen(t, x) \/ x = t
    BY <1>4, <1>7 DEF Seen
  <2>3. \A x \in Vert : Seen(t, x)' => Marked(x)' \/ x \in queue'[t]
    BY <1>3, <1>4, <1>9, <2>1, <2>2 DEF Ready
  <2>4. Ready(t)'
    BY <1>1, <1>4, <1>6, <2>3 DEF Ready
  <2> QED BY <1>9, <2>4 DEF SweepOf
<1>11. HillOf(t)'
  <2>1. Saddle(t)' = t
    BY <1>1, <1>3, <1>4
  <2>2. segmentSize'[t] = Cardinality(Held(t)')
    BY <1>2, <1>4, <1>6
  <2>3. Connected(request.mesh, Held(t))'
    BY <1>4, <1>6, ConnectedSmall
  <2> QED BY <1>4, <1>6, <2>1, <2>2, <2>3 DEF HillOf
<1>12. ASSUME NEW h \in propagations \ Holds(t) PROVE Spared(h)
  <2>1. h \in Vert /\ h # t
    BY <1>3 DEF Types
  <2>2. \A u \in Vert : queueMask'[u] = h => queueMask[u] = h
    BY <1>2, <1>5, <2>1
  <2>3. queue'[h] = queue[h]
    BY <1>2, <2>1 DEF Types
  <2> QED BY <1>2, <1>4, <2>1, <2>2, <2>3 DEF Spared, Alike
<1> QED BY <1>1, <1>3, <1>4, <1>8, <1>10, <1>11, <1>12, SweepKept

(* A task that stops for want of vertices, or at the threshold.            *)
LEMMA StopSweeps ==
    ASSUME Base, Types, PInv, SInv, NEW t \in Vert,
           OutOfVertices(t) \/ Abort(t)
    PROVE  SInv'
<1>0. PICK c : c = current[t]
  OBVIOUS
<1>1. /\ t \in propagations /\ Active(t) /\ OthersStill(t)
      /\ UNCHANGED <<request, order, propagations>>
      /\ Vert' = Vert /\ pc[t] = "pop"
  <2>1. Propagate(t)
    BY DEF Propagate
  <2> QED BY <2>1, Frame DEF OutOfVertices, Abort
<1>2. /\ UNCHANGED <<propagationMask, comp, criticalPoints, segmentSize>>
      /\ queueMask' = queueMask
  BY DEF OutOfVertices, Abort
<1>3. /\ \E left : queue' = [queue EXCEPT ![c] = left]
      /\ pc' = [pc EXCEPT ![t] = "stopped"]
  BY <1>0 DEF OutOfVertices, Abort, Goto
<1>4. Holds(t) = {c} /\ c \in propagations /\ c \in Vert
  BY <1>0, <1>1, ActiveFacts DEF Holds
<1>5. /\ \A u \in Vert : /\ Holder(u)' = Holder(u)
                         /\ Marked(u)' <=> Marked(u)
                         /\ Saddle(u)' = Saddle(u)
      /\ Held(c)' = Held(c)
  <2>1. \A u \in Vert : Holder(u)' = Holder(u)
    BY <1>2 DEF Holder
  <2>2. Held(c)' = Held(c)
    BY <1>1, <2>1 DEF Held
  <2> QED BY <1>2, <2>1, <2>2 DEF Marked, Saddle
<1>6. SweepOf(t)'
  <2>1. pc'[t] = "stopped"
    BY <1>3 DEF Base
  <2> QED BY <2>1 DEF SweepOf
<1>7. HillOf(c)'
  <2>1. /\ segmentSize[c] = Cardinality(Held(c))
        /\ Held(c) # {} => Marked(c)
        /\ Growing(c) \/ Connected(request.mesh, Held(c))
    BY <1>1, <1>4, HoldsHills
  <2>2. ~Growing(c)
    BY <1>1, <1>4, NotGrowing
  <2>3. Marked(Saddle(c)) \/ Saddle(c) = c
    BY <1>0, <1>1 DEF PInv, TaskOf
  <2>4. \A s \in Vert : Saddle(c)' = s => Marked(s)' \/ s = c
    BY <1>4, <1>5, <2>3
  <2>5. Connected(request.mesh, Held(c))'
    BY <1>1, <1>5, <2>1, <2>2
  <2>6. segmentSize'[c] = Cardinality(Held(c)')
    BY <1>2, <1>5, <2>1
  <2>7. Held(c)' # {} => Marked(c)'
    BY <1>4, <1>5, <2>1
  <2> QED BY <1>1, <2>4, <2>5, <2>6, <2>7 DEF HillOf
<1>8. ASSUME NEW h \in propagations \ Holds(t) PROVE Spared(h)
  <2>1. h \in Vert /\ h # c
    BY <1>4 DEF Types
  <2>2. queue'[h] = queue[h]
    BY <1>3, <2>1 DEF Types
  <2> QED BY <1>2, <1>5, <2>1, <2>2 DEF Spared, Alike
<1>9. queueMask' \in [Vert -> Int]
  BY <1>2 DEF SInv
<1> QED BY <1>1, <1>4, <1>5, <1>6, <1>7, <1>8, <1>9, SweepKept

(* A task comes to the highest vertex ahead of it and queues what is       *)
(* below: nothing above that vertex was left out.                          *)
LEMMA VisitSweeps ==
    ASSUME Base, Types, PInv, SInv, NEW t \in Vert, Visit(t)
    PROVE  SInv'
<1>0. PICK c, v, own, new, next :
         /\ c = current[t] /\ v = Highest(Ahead(t))
         /\ own = {u \in Larger(v) : Holder(u) = c}
         /\ new = {u \in Neighbors(v) \ Larger(v) : queueMask[u] # c}
         /\ next = IF own = Larger(v) THEN "mark" ELSE "capture"
  OBVIOUS
<1>1. /\ t \in propagations /\ Active(t) /\ OthersStill(t)
      /\ UNCHANGED <<request, order, propagations>>
      /\ Vert' = Vert /\ pc[t] = "pop"
      /\ \A u \in Vert : Larger(u)' = Larger(u)
  <2>1. Propagate(t)
    BY DEF Propagate
  <2> QED BY <2>1, Frame DEF Visit
<1>2. /\ UNCHANGED <<propagationMask, comp, criticalPoints, segmentSize>>
      /\ current' = current
      /\ queue' = [queue EXCEPT ![c] = Below(t, v) \cup new]
      /\ queueMask' = [u \in Vert |-> IF u \in new THEN c ELSE queueMask[u]]
      /\ cur' = [cur EXCEPT ![t] = v]
      /\ pc' = [pc EXCEPT ![t] = next]
  BY <1>0 DEF Visit, Goto
<1>3. Holds(t) = {c} /\ c \in propagations /\ c \in Vert
  BY <1>0, <1>1, ActiveFacts DEF Holds
<1>4. v \in Vert /\ v \in queue[c] /\ ~Marked(v)
  BY <1>0, AheadFacts DEF Visit
<1>5. /\ v = c \/ \E u \in Larger(v) : Holder(u) = c
      /\ v # c => Marked(Saddle(c))
      /\ Marked(Saddle(c)) \/ Saddle(c) = v
  BY <1>0, <1>1, <1>4, PoppedFacts
<1>6. /\ pc'[t] = next /\ current'[t] = c /\ cur'[t] = v
      /\ queue'[c] = Below(t, v) \cup new
      /\ \A u \in Vert : queueMask'[u] = IF u \in new THEN c ELSE queueMask[u]
  BY <1>0, <1>1, <1>2, <1>3 DEF Types, Base
<1>7. /\ queue[c] \subseteq Vert
      /\ \A x \in Vert : order[x] \in Int
      /\ \A u \in Neighbors(v) \ Larger(v) : u \in Vert /\ order[u] < order[v]
  <2>1. \A x \in Vert : order[x] \in Int
    BY VertFacts DEF Base
  <2>2. ASSUME NEW u \in Neighbors(v) \ Larger(v)
        PROVE  u \in Vert /\ order[u] < order[v]
    <3>1. u \in Vert /\ v \in Larger(u)
      BY <1>4, LargerFacts
    <3> QED BY <1>4, <2>1, <3>1 DEF Larger
  <2> QED BY <1>3, <2>1, <2>2 DEF Types
<1>8. /\ \A u \in Vert : /\ Holder(u)' = Holder(u)
                         /\ Marked(u)' <=> Marked(u)
                         /\ Neighbors(u)' = Neighbors(u)
                         /\ Neighbors(u) \subseteq Vert
                         /\ Saddle(u)' = Saddle(u)
      /\ Held(c)' = Held(c) /\ Held(c) \subseteq Vert
  <2>1. \A u \in Vert : Holder(u)' = Holder(u) /\ Neighbors(u)' = Neighbors(u)
    BY <1>1, <1>2 DEF Holder, Neighbors
  <2>2. Held(c)' = Held(c) /\ Held(c) \subseteq Vert
    BY <1>1, <2>1 DEF Held
  <2> QED BY <1>2, <2>1, <2>2, NeighborFacts DEF Marked, Saddle, Base
<1>9. Ready(c) /\ queueMask \in [Vert -> Int]
  <2>1. SweepOf(t) /\ cur[t] \in Vert
    BY <1>1 DEF SInv, Types
  <2> QED BY <1>0, <1>1, <1>3, <2>1 DEF SInv, SweepOf
\* what is queued is marked, or the vertex, or below it
<1>10. \A x \in queue[c] : Marked(x) \/ x = v \/ x \in Below(t, v)
  <2> SUFFICES ASSUME NEW x \in queue[c], ~Marked(x), x # v
               PROVE  x \in Below(t, v)
    OBVIOUS
  <2>1. Ahead(t) \subseteq Vert /\ x \in Ahead(t)
    BY <1>0, <1>7 DEF Ahead, Marked
  <2>2. order[x] <= order[v]
    BY <1>0, <2>1, HighestFacts
  <2>3. order[x] # order[v]
    BY <1>4, <1>7 DEF Base
  <2>4. order[x] < order[v]
    BY <1>4, <1>7, <2>2, <2>3
  <2> QED BY <1>0, <2>4 DEF Below
<1>11. At(c, v)'
  <2>1. \A w \in Held(c) : order[v] < order[w]
    BY <1>4, <1>9 DEF Ready
  <2>2. \A x \in queue'[c] : order[x] < order[v]
    BY <1>0, <1>6, <1>7 DEF Below
  <2>3. ASSUME NEW x \in Vert, Seen(c, x)'
        PROVE  Marked(x) \/ x \in queue'[c] \/ x = v
    <3>1. Seen(c, x) \/ x \in new
      BY <1>6, <1>8, <2>3 DEF Seen
    <3>2. Seen(c, x) => Marked(x) \/ x \in queue[c]
      BY <1>9 DEF Ready
    <3> QED BY <1>6, <1>10, <3>1, <3>2
  <2> QED BY <1>1, <1>8, <2>1, <2>2, <2>3 DEF At
<1>12. Opened(t, v)'
  <2>1. c \in Holds(t)'
    BY <1>6 DEF Holds
  <2>2. ASSUME NEW x \in Neighbors(v) \ Larger(v)
        PROVE  Marked(x) \/ x \in queue'[c]
    <3>1. CASE x \in new
      BY <1>6, <3>1
    <3>2. CASE x \notin new
      <4>1. queueMask[x] = c /\ x \in Vert
        BY <1>0, <1>7, <3>2
      <4>2. Marked(x) \/ x \in queue[c]
        BY <1>9, <4>1 DEF Ready, Seen
      <4>3. x # v
        BY <1>4, <1>7
      <4> QED BY <1>6, <1>10, <4>2, <4>3
    <3> QED BY <3>1, <3>2
  <2>3. \A x \in Neighbors(v) \ Larger(v) :
           Marked(x)' \/ \E h \in Holds(t)' : x \in queue'[h]
    BY <1>7, <1>8, <2>1, <2>2
  <2>4. Larger(v)' = Larger(v) /\ Neighbors(v)' = Neighbors(v)
    BY <1>1, <1>4, <1>8
  <2> QED BY <2>3, <2>4 DEF Opened
<1>13. /\ segmentSize[c] = Cardinality(Held(c))
       /\ Held(c) # {} => Marked(c)
       /\ Connected(request.mesh, Held(c))
  BY <1>1, <1>3, HoldsHills, NotGrowing
<1>14. next = "mark" => Connected(request.mesh, Held(c) \cup {v})
  <2>1. CASE v = c
    <3>1. Held(c) \cup {v} = {v}
      BY <1>4, <1>13, <2>1
    <3> QED BY <3>1, ConnectedSmall
  <2>2. CASE \E u \in Larger(v) : Holder(u) = c
    <3>1. PICK u \in Larger(v) : Holder(u) = c
      BY <2>2
    <3>2. u \in Held(c) /\ u \in Vert /\ v \in Neighbors(u)
      BY <1>4, <1>8, <3>1, NeighborFacts DEF Held, Larger, Base
    <3>3. {u, v} \in request.mesh
      BY <1>4, <3>2, EdgeFacts DEF Base
    <3> QED BY <1>13, <3>2, <3>3, ConnectedNext
  <2> QED BY <1>5, <2>1, <2>2
<1>15. SweepOf(t)'
  <2>1. next = "mark" => Connected(request.mesh, Held(c) \cup {v})'
    BY <1>1, <1>8, <1>14
  <2>2. next \in {"mark", "capture"}
    BY <1>0
  <2> QED BY <1>6, <1>11, <1>12, <2>1, <2>2 DEF SweepOf
<1>16. HillOf(c)'
  <2>1. \A s \in Vert : Saddle(c)' = s => Marked(s)' \/ s = c
    BY <1>3, <1>5, <1>8
  <2>2. Connected(request.mesh, Held(c))'
    BY <1>1, <1>8, <1>13
  <2>3. segmentSize'[c] = Cardinality(Held(c)')
    BY <1>2, <1>8, <1>13
  <2>4. Held(c)' # {} => Marked(c)'
    BY <1>3, <1>8, <1>13
  <2> QED BY <1>1, <2>1, <2>2, <2>3, <2>4 DEF HillOf
<1>17. ASSUME NEW h \in propagations \ Holds(t) PROVE Spared(h)
  <2>1. h \in Vert /\ h # c
    BY <1>3 DEF Types
  <2>2. \A u \in Vert : queueMask'[u] = h => queueMask[u] = h
    BY <1>6, <2>1
  <2>3. queue'[h] = queue[h]
    BY <1>2, <2>1 DEF Types
  <2> QED BY <1>2, <1>8, <2>1, <2>2, <2>3 DEF Spared, Alike
<1>18. queueMask' \in [Vert -> Int]
  <2>1. c \in Int
    BY <1>3, VertFacts DEF Base
  <2> QED BY <1>2, <1>9, <2>1
<1> QED BY <1>1, <1>3, <1>8, <1>15, <1>16, <1>17, <1>18, SweepKept

(* A task captures a saddle: its propagation ends there.                   *)
LEMMA CaptureSweeps ==
    ASSUME Base, Types, PInv, SInv, NEW t \in Vert, Capture(t)
    PROVE  SInv'
<1>0. PICK c, v : c = current[t] /\ v = cur[t]
  OBVIOUS
<1>1. /\ t \in propagations /\ Active(t) /\ OthersStill(t)
      /\ UNCHANGED <<request, order, propagations>>
      /\ Vert' = Vert /\ pc[t] = "capture"
      /\ \A u \in Vert : Larger(u)' = Larger(u)
  <2>1. Propagate(t)
    BY DEF Propagate
  <2> QED BY <2>1, Frame DEF Capture, RegisterWith
<1>2. /\ UNCHANGED <<propagationMask, comp, queue, segmentSize>>
      /\ current' = current /\ cur' = cur /\ queueMask' = queueMask
      /\ criticalPoints' = [criticalPoints EXCEPT ![c] = Append(@, v)]
      /\ \E next \in {"merge", "stopped"} : pc' = [pc EXCEPT ![t] = next]
  BY <1>0 DEF Capture, RegisterWith, locals, Goto
<1>3. Holds(t) = {c} /\ c \in propagations /\ c \in Vert /\ v \in Vert
  BY <1>0, <1>1, ActiveFacts DEF Holds
<1>4. /\ pc'[t] \in {"merge", "stopped"} /\ current'[t] = c /\ cur'[t] = v
  BY <1>0, <1>1, <1>2 DEF Base
<1>5. /\ \A u \in Vert : /\ Holder(u)' = Holder(u)
                         /\ Marked(u)' <=> Marked(u)
                         /\ Neighbors(u)' = Neighbors(u)
                         /\ Neighbors(u) \subseteq Vert
                         /\ u # c => Saddle(u)' = Saddle(u)
      /\ Held(c)' = Held(c) /\ Saddle(c)' = v
  <2>1. \A u \in Vert : Holder(u)' = Holder(u) /\ Neighbors(u)' = Neighbors(u)
    BY <1>1, <1>2 DEF Holder, Neighbors
  <2>2. Held(c)' = Held(c)
    BY <1>1, <2>1 DEF Held
  <2>3. Saddle(c)' = v
    <3>1. criticalPoints[c] \in Seq(Vert)
      BY <1>3 DEF Types
    <3>2. criticalPoints'[c] = Append(criticalPoints[c], v)
      BY <1>2, <1>3 DEF Types
    <3> QED BY <1>3, <3>1, <3>2 DEF Saddle, Last
  <2>4. \A u \in Vert : u # c => Saddle(u)' = Saddle(u)
    BY <1>2 DEF Saddle, Types
  <2> QED BY <1>2, <2>1, <2>2, <2>3, <2>4, NeighborFacts DEF Marked, Base
<1>6. At(c, v) /\ Opened(t, v)
  <2>1. SweepOf(t)
    BY <1>1 DEF SInv
  <2> QED BY <1>0, <1>1, <1>3, <2>1 DEF SweepOf
<1>7. At(c, v)'
  <2>1. Alike(c)
    BY <1>2, <1>5 DEF Alike
  <2>2. \A u \in Vert : Marked(u) => Marked(u)'
    BY <1>5
  <2> QED BY <1>1, <1>3, <1>6, <2>1, <2>2, AlikeFacts
<1>8. Opened(t, v)'
  <2>1. c \in Holds(t)'
    BY <1>4 DEF Holds
  <2>2. Larger(v)' = Larger(v) /\ Neighbors(v)' = Neighbors(v)
        /\ Neighbors(v) \subseteq Vert
    BY <1>1, <1>3, <1>5
  <2>3. \A x \in Neighbors(v) \ Larger(v) : Marked(x)' \/ x \in queue'[c]
    BY <1>2, <1>3, <1>5, <1>6, <2>2 DEF Opened
  <2> QED BY <2>1, <2>2, <2>3 DEF Opened
<1>9. SweepOf(t)'
  BY <1>4, <1>8 DEF SweepOf
<1>10. HillOf(c)'
  <2>1. /\ segmentSize[c] = Cardinality(Held(c))
        /\ Held(c) # {} => Marked(c)
        /\ Connected(request.mesh, Held(c))
    BY <1>1, <1>3, HoldsHills, NotGrowing
  <2>2. Connected(request.mesh, Held(c))'
    BY <1>1, <1>5, <2>1
  <2>3. segmentSize'[c] = Cardinality(Held(c)')
    BY <1>2, <1>5, <2>1
  <2>4. Held(c)' # {} => Marked(c)'
    BY <1>3, <1>5, <2>1
  <2>5. \A s \in Vert : Saddle(c)' = s => At(c, s)'
    BY <1>5, <1>7
  <2> QED BY <1>1, <2>2, <2>3, <2>4, <2>5 DEF HillOf
<1>11. ASSUME NEW h \in propagations \ Holds(t) PROVE Spared(h)
  <2>1. h \in Vert /\ h # c
    BY <1>3 DEF Types
  <2> QED BY <1>2, <1>5, <2>1 DEF Spared, Alike
<1>12. queueMask' \in [Vert -> Int]
  BY <1>2 DEF SInv
<1> QED BY <1>1, <1>3, <1>5, <1>9, <1>10, <1>11, <1>12, SweepKept

(* What meets at a saddle is next to it.                                   *)
LEMMA MetAtSaddle ==
    ASSUME Base, Types, PInv, NEW t \in propagations,
           pc[t] \in {"merge", "unify"}, NEW h \in Holds(t)
    PROVE  /\ ~Marked(cur[t]) /\ Saddle(h) = cur[t] /\ cur[t] # h
           /\ \E u \in Larger(cur[t]) : Holder(u) = h
<1>1. /\ ~Marked(cur[t]) /\ Larger(cur[t]) # {} /\ Saddle(h) = cur[t]
      /\ h \in propagations /\ comp[h] = h
  BY DEF PInv, TaskOf, Active, AtWork
<1>2. cur[t] # h
  BY <1>1 DEF Types
<1>3. SaddleOf(h)
  BY <1>1 DEF PInv
<1> QED BY <1>1, <1>2, <1>3 DEF SaddleOf

(* What holds a neighbour of v, and is in one piece, is so with v.         *)
LEMMA ConnectedHill ==
    ASSUME Base, NEW v \in Vert, NEW h, NEW u \in Larger(v), Holder(u) = h,
           Connected(request.mesh, Held(h))
    PROVE  Connected(request.mesh, Held(h) \cup {v})
<1>1. u \in Vert /\ v \in Neighbors(u)
  BY NeighborFacts DEF Larger, Base
<1>2. {u, v} \in request.mesh /\ u \in Held(h)
  BY <1>1, EdgeFacts DEF Base, Held
<1> QED BY <1>2, ConnectedNext

(* The last visitor goes on with the propagation of the highest maximum.   *)
LEMMA DominantSweeps ==
    ASSUME Base, Types, PInv, SInv, NEW t \in Vert, Dominant(t)
    PROVE  SInv'
<1>0. PICK c, v, d, met : /\ c = current[t] /\ v = cur[t]
                          /\ met = {Holder(u) : u \in Neighbors(v)} \ {Null}
                          /\ d = Highest(met \cup {c})
  OBVIOUS
<1>1. /\ t \in propagations /\ Active(t) /\ OthersStill(t)
      /\ UNCHANGED <<request, order, propagations>>
      /\ Vert' = Vert /\ pc[t] = "merge"
      /\ \A u \in Vert : Larger(u)' = Larger(u)
  <2>1. Propagate(t)
    BY DEF Propagate
  <2> QED BY <2>1, Frame DEF Dominant
<1>2. /\ UNCHANGED <<propagationMask, comp, criticalPoints, queue, segmentSize>>
      /\ cur' = cur /\ queueMask' = queueMask
      /\ current' = [current EXCEPT ![t] = d]
      /\ todo' = [todo EXCEPT ![t] = met]
      /\ pc' = [pc EXCEPT ![t] = "unify"]
  BY <1>0 DEF Dominant, props, Goto
<1>3. /\ met = Merged(t) /\ Holds(t) = {c} \cup met
      /\ Holds(t) \subseteq propagations /\ propagations \subseteq Vert
      /\ c \in Vert /\ v \in Vert
  BY <1>0, <1>1, ActiveFacts, MetFacts DEF Holds, Types
<1>4. c \in met
  <2>1. \E u \in Larger(cur[t]) : Holder(u) = c
    BY <1>1, <1>3, MetAtSaddle
  <2> QED BY <1>3, <2>1 DEF Merged
<1>5. d \in met /\ d \in Holds(t) /\ d \in Vert
  <2>1. met \cup {c} \in SUBSET Vert
    BY <1>3
  <2>2. d \in met \cup {c}
    BY <1>0, <2>1, HighestFacts
  <2> QED BY <1>3, <1>4, <2>2
<1>6. /\ pc'[t] = "unify" /\ current'[t] = d /\ cur'[t] = v /\ todo'[t] = met
  BY <1>0, <1>1, <1>2 DEF Types, Base
<1>7. Holds(t)' = Holds(t)
  BY <1>3, <1>4, <1>5, <1>6 DEF Holds
<1>8. /\ \A u \in Vert : /\ Holder(u)' = Holder(u)
                         /\ Marked(u)' <=> Marked(u)
                         /\ Neighbors(u)' = Neighbors(u)
                         /\ Neighbors(u) \subseteq Vert
                         /\ Saddle(u)' = Saddle(u)
      /\ Held(d)' = Held(d)
  <2>1. \A u \in Vert : Holder(u)' = Holder(u) /\ Neighbors(u)' = Neighbors(u)
    BY <1>1, <1>2 DEF Holder, Neighbors
  <2>2. Held(d)' = Held(d)
    BY <1>1, <2>1 DEF Held
  <2> QED BY <1>2, <2>1, <2>2, NeighborFacts DEF Marked, Saddle, Base
<1>9. \A h \in Vert : Spared(h)
  BY <1>2, <1>8 DEF Spared, Alike
<1>10. Connected(request.mesh, Held(d) \cup {v})'
  <2>1. \E u \in Larger(v) : Holder(u) = d
    BY <1>0, <1>1, <1>5, MetAtSaddle
  <2>2. Connected(request.mesh, Held(d))
    BY <1>1, <1>5, HoldsHills, NotGrowing
  <2>3. Connected(request.mesh, Held(d) \cup {v})
    BY <1>3, <2>1, <2>2, ConnectedHill
  <2> QED BY <1>1, <1>8, <2>3
<1>11. Opened(t, v)'
  <2>1. Opened(t, v)
    BY <1>0, <1>1, <1>3 DEF SInv, SweepOf
  <2>2. Larger(v)' = Larger(v) /\ Neighbors(v)' = Neighbors(v)
        /\ Neighbors(v) \subseteq Vert
    BY <1>1, <1>3, <1>8
  <2>3. \A x \in Neighbors(v) : Marked(x) => Marked(x)'
    BY <1>8, <2>2
  <2> QED BY <1>2, <1>7, <2>1, <2>2, <2>3 DEF Opened
<1>12. SweepOf(t)'
  BY <1>6, <1>10, <1>11 DEF SweepOf
<1>13. ASSUME NEW h \in Holds(t) PROVE HillOf(h)'
  <2>1. ~Growing(h)
    BY <1>1, NotGrowing
  <2>2. Spared(h)
    BY <1>3, <1>9
  <2>3. \A u \in Vert : Marked(u) => Marked(u)'
    BY <1>8
  <2> QED BY <1>1, <2>1, <2>2, <2>3, HillStays
<1>14. queueMask' \in [Vert -> Int]
  BY <1>2 DEF SInv
<1>15. \A h \in propagations \ Holds(t) : Spared(h)
  BY <1>3, <1>9
<1>16. \A u \in Vert : Marked(u) => Marked(u)'
  BY <1>8
<1> QED BY <1>1, <1>12, <1>13, <1>14, <1>15, <1>16, SweepKept

(* The hill of what is united with v: above v, nothing of it left out.     *)
LEMMA UnitedAt ==
    ASSUME Base, Types, PInv, SInv, NEW t \in propagations, pc[t] = "unify",
           NEW v \in Vert, v = cur[t], NEW h \in Holds(t)
    PROVE  /\ At(h, v) /\ Connected(request.mesh, Held(h) \cup {v})
           /\ Held(h) # {} /\ Marked(h)
<1>1. Active(t)
  BY DEF Active, AtWork
<1>2. ~Marked(v) /\ Saddle(h) = v /\ v # h
  BY MetAtSaddle
<1>3. PICK u \in Larger(v) : Holder(u) = h
  BY MetAtSaddle
<1>4. /\ Held(h) # {} => Marked(h)
      /\ \A s \in Vert : Saddle(h) = s /\ ~Marked(s) /\ s # h => At(h, s)
      /\ Growing(h) \/ Connected(request.mesh, Held(h))
      /\ h \in Vert
  BY <1>1, HoldsHills
<1>5. u \in Vert /\ Held(h) # {}
  BY <1>3, LargerFacts DEF Held
<1>6. Connected(request.mesh, Held(h) \cup {v})
  <2>1. CASE current[t] = h
    BY <1>4, <2>1 DEF SInv, SweepOf
  <2>2. CASE current[t] # h
    <3>1. Connected(request.mesh, Held(h))
      BY <1>1, <1>4, <2>2, NotGrowing
    <3> QED BY <1>3, <3>1, ConnectedHill
  <2> QED BY <2>1, <2>2
<1> QED BY <1>2, <1>4, <1>5, <1>6

(* The propagation that takes the others in is one of them.                *)
LEMMA UnifySameSweeps ==
    ASSUME Base, Types, PInv, SInv, NEW t \in Vert, Unify(t, current[t])
    PROVE  SInv'
<1>0. PICK c, v, rest : c = current[t] /\ v = cur[t] /\ rest = todo[t] \ {c}
  OBVIOUS
<1>1. /\ t \in propagations /\ Active(t) /\ OthersStill(t)
      /\ UNCHANGED <<request, order, propagations>>
      /\ Vert' = Vert /\ pc[t] = "unify" /\ c \in todo[t]
      /\ \A u \in Vert : Larger(u)' = Larger(u)
  <2>1. Propagate(t)
    <3>1. current[t] \in Vert
      BY DEF Types
    <3> QED BY <3>1 DEF Propagate
  <2> QED BY <1>0, <2>1, Frame DEF Unify
<1>2. /\ UNCHANGED <<propagationMask, comp, criticalPoints, queue, segmentSize>>
      /\ cur' = cur /\ queueMask' = queueMask /\ current' = current
      /\ todo' = [todo EXCEPT ![t] = rest]
      /\ pc' = [pc EXCEPT ![t] = IF todo[t] = {c} THEN "mark" ELSE "unify"]
  BY <1>0 DEF Unify, Goto
<1>3. /\ Holds(t) = {c} \cup todo[t] /\ Holds(t) \subseteq propagations
      /\ propagations \subseteq Vert
      /\ c \in Vert /\ v \in Vert /\ c \in Holds(t)
  BY <1>0, <1>1, ActiveFacts DEF Holds, Types
<1>4. /\ pc'[t] = IF todo[t] = {c} THEN "mark" ELSE "unify"
      /\ current'[t] = c /\ cur'[t] = v /\ todo'[t] = rest
  BY <1>0, <1>1, <1>2 DEF Types, Base
<1>5. Holds(t)' = Holds(t)
  <2>1. CASE todo[t] = {c}
    BY <1>3, <1>4, <2>1 DEF Holds
  <2>2. CASE todo[t] # {c}
    BY <1>0, <1>3, <1>4, <2>2 DEF Holds
  <2> QED BY <2>1, <2>2
<1>6. /\ \A u \in Vert : /\ Holder(u)' = Holder(u)
                         /\ Marked(u)' <=> Marked(u)
                         /\ Neighbors(u)' = Neighbors(u)
                         /\ Neighbors(u) \subseteq Vert
                         /\ Saddle(u)' = Saddle(u)
      /\ Held(c)' = Held(c)
  <2>1. \A u \in Vert : Holder(u)' = Holder(u) /\ Neighbors(u)' = Neighbors(u)
    BY <1>1, <1>2 DEF Holder, Neighbors
  <2>2. Held(c)' = Held(c)
    BY <1>1, <2>1 DEF Held
  <2> QED BY <1>2, <2>1, <2>2, NeighborFacts DEF Marked, Saddle, Base
<1>7. \A h \in Vert : Spared(h)
  BY <1>2, <1>6 DEF Spared, Alike
<1>8. At(c, v) /\ Connected(request.mesh, Held(c) \cup {v})
  BY <1>0, <1>1, <1>3, UnitedAt
<1>9. At(c, v)'
  <2>1. \A u \in Vert : Marked(u) => Marked(u)'
    BY <1>6
  <2>2. Alike(c)
    BY <1>3, <1>7 DEF Spared
  <2> QED BY <1>1, <1>3, <1>8, <2>1, <2>2, AlikeFacts
<1>10. Connected(request.mesh, Held(c) \cup {v})'
  BY <1>1, <1>6, <1>8
<1>11. Opened(t, v)'
  <2>1. Opened(t, v)
    BY <1>0, <1>1, <1>3 DEF SInv, SweepOf
  <2>2. Larger(v)' = Larger(v) /\ Neighbors(v)' = Neighbors(v)
        /\ Neighbors(v) \subseteq Vert
    BY <1>1, <1>3, <1>6
  <2>3. \A x \in Neighbors(v) : Marked(x) => Marked(x)'
    BY <1>6, <2>2
  <2> QED BY <1>2, <1>5, <2>1, <2>2, <2>3 DEF Opened
<1>12. SweepOf(t)'
  BY <1>4, <1>9, <1>10, <1>11 DEF SweepOf
<1>13. ASSUME NEW h \in Holds(t) PROVE HillOf(h)'
  <2>1. Growing(h)' \/ ~Growing(h)
    <3>1. CASE h = c
      <4>1. Growing(c)'
        BY <1>1, <1>4 DEF Growing
      <4> QED BY <3>1, <4>1
    <3>2. CASE h # c
      BY <1>0, <1>1, <3>2, NotGrowing
    <3> QED BY <3>1, <3>2
  <2>2. Spared(h)
    BY <1>3, <1>7
  <2>3. \A u \in Vert : Marked(u) => Marked(u)'
    BY <1>6
  <2> QED BY <1>1, <2>1, <2>2, <2>3, HillStays
<1>14. queueMask' \in [Vert -> Int]
  BY <1>2 DEF SInv
<1>15. \A h \in propagations \ Holds(t) : Spared(h)
  BY <1>3, <1>7
<1>16. \A u \in Vert : Marked(u) => Marked(u)'
  BY <1>6
<1> QED BY <1>1, <1>12, <1>13, <1>14, <1>15, <1>16, SweepKept

(* Another one is taken in: its vertices, its queue and its size.          *)
LEMMA UnifyOtherSweeps ==
    ASSUME Base, Types, PInv, SInv, NEW t \in Vert, NEW p \in Vert,
           Unify(t, p), p # current[t]
    PROVE  SInv'
<1>0. PICK c, v, rest : c = current[t] /\ v = cur[t] /\ rest = todo[t] \ {p}
  OBVIOUS
<1>1. /\ t \in propagations /\ Active(t) /\ OthersStill(t)
      /\ UNCHANGED <<request, order, propagations>>
      /\ Vert' = Vert /\ pc[t] = "unify" /\ p \in todo[t]
      /\ \A u \in Vert : Larger(u)' = Larger(u)
  <2>1. Propagate(t)
    BY DEF Propagate
  <2> QED BY <2>1, Frame DEF Unify
<1>2. /\ UNCHANGED <<propagationMask, criticalPoints>>
      /\ cur' = cur /\ queueMask' = queueMask /\ current' = current
      /\ todo' = [todo EXCEPT ![t] = rest]
      /\ pc' = [pc EXCEPT ![t] = IF todo[t] = {p} THEN "mark" ELSE "unify"]
      /\ comp' = [q \in Vert |-> IF comp[q] = p THEN c ELSE comp[q]]
      /\ queue' = [queue EXCEPT ![c] = @ \cup queue[p], ![p] = {}]
      /\ segmentSize' = [segmentSize EXCEPT ![c] = @ + segmentSize[p]]
  BY <1>0 DEF Unify, Goto, MergedQueue, MergedSize
<1>3. /\ Holds(t) = {c} \cup todo[t] /\ Holds(t) \subseteq propagations
      /\ propagations \subseteq Vert
      /\ c \in Vert /\ v \in Vert /\ c \in Holds(t) /\ p \in Holds(t) /\ p # c
      /\ Null \notin Vert
  BY <1>0, <1>1, ActiveFacts, VertFacts DEF Holds, Types, Base
<1>4. /\ pc'[t] = IF todo[t] = {p} THEN "mark" ELSE "unify"
      /\ current'[t] = c /\ cur'[t] = v /\ todo'[t] = rest
      /\ queue'[c] = queue[c] \cup queue[p]
      /\ segmentSize'[c] = segmentSize[c] + segmentSize[p]
      /\ \A q \in Vert : comp'[q] = IF comp[q] = p THEN c ELSE comp[q]
  BY <1>0, <1>1, <1>2, <1>3 DEF Types, Base
<1>5. /\ comp[c] = c /\ comp[p] = p /\ comp'[c] = c /\ comp'[p] = c
  <2>1. comp[c] = c /\ comp[p] = p
    BY <1>1, <1>3, HoldsHills
  <2> QED BY <1>3, <1>4, <2>1
<1>6. Holds(t) = Holds(t)' \cup {p} /\ c \in Holds(t)'
  <2>1. CASE todo[t] = {p}
    BY <1>3, <1>4, <2>1 DEF Holds
  <2>2. CASE todo[t] # {p}
    BY <1>0, <1>1, <1>3, <1>4, <2>2 DEF Holds
  <2> QED BY <2>1, <2>2
<1>7. \A u \in Vert : /\ Holder(u)' = IF Holder(u) = p THEN c ELSE Holder(u)
                      /\ Marked(u)' <=> Marked(u)
                      /\ Neighbors(u)' = Neighbors(u)
                      /\ Neighbors(u) \subseteq Vert
                      /\ Saddle(u)' = Saddle(u)
  <2>1. \A u \in Vert : Holder(u)' = IF Holder(u) = p THEN c ELSE Holder(u)
    <3>1. \A u \in Vert : propagationMask[u] = Null \/ propagationMask[u] \in Vert
      BY <1>3 DEF Types
    <3> QED BY <1>2, <1>3, <1>4, <3>1 DEF Holder
  <2>2. \A u \in Vert : Neighbors(u)' = Neighbors(u) /\ Saddle(u)' = Saddle(u)
    BY <1>1, <1>2 DEF Neighbors, Saddle
  <2> QED BY <1>2, <2>1, <2>2, NeighborFacts DEF Marked, Base
<1>8. /\ Held(c)' = Held(c) \cup Held(p) /\ Held(c) \cap Held(p) = {}
      /\ Held(c) \subseteq Vert /\ Held(p) \subseteq Vert
  <2>1. /\ Held(c) \cap Held(p) = {}
        /\ Held(c) \subseteq Vert /\ Held(p) \subseteq Vert
    BY <1>3 DEF Held
  <2>2. Held(c)' = {u \in Vert : Holder(u)' = c}
    BY <1>1 DEF Held
  <2>3. {u \in Vert : Holder(u)' = c} = Held(c) \cup Held(p)
    BY <1>3, <1>7 DEF Held
  <2> QED BY <2>1, <2>2, <2>3
<1>9. /\ At(c, v) /\ Connected(request.mesh, Held(c) \cup {v})
      /\ At(p, v) /\ Connected(request.mesh, Held(p) \cup {v})
      /\ Marked(c)
  BY <1>0, <1>1, <1>3, UnitedAt
<1>10. At(c, v)'
  <2>1. \A w \in Held(c)' : order[v] < order[w]
    BY <1>8, <1>9 DEF At
  <2>2. \A x \in queue'[c] : order[x] < order[v]
    BY <1>4, <1>9 DEF At
  <2>3. ASSUME NEW x \in Vert, Seen(c, x)'
        PROVE  Marked(x)' \/ x \in queue'[c] \/ x = v
    <3>1. Seen(c, x) \/ Seen(p, x)
      BY <1>2, <1>7, <2>3 DEF Seen
    <3>2. Marked(x) \/ x \in queue[c] \/ x \in queue[p] \/ x = v
      BY <1>9, <3>1 DEF At
    <3> QED BY <1>4, <1>7, <3>2
  <2> QED BY <1>1, <2>1, <2>2, <2>3 DEF At
<1>11. Connected(request.mesh, Held(c) \cup {v})'
  <2>1. Connected(request.mesh, (Held(c) \cup {v}) \cup (Held(p) \cup {v}))
    BY <1>9, ConnectedUnion
  <2>2. (Held(c) \cup {v}) \cup (Held(p) \cup {v}) = Held(c)' \cup {v}
    BY <1>8
  <2> QED BY <1>1, <2>1, <2>2
<1>12. Opened(t, v)'
  <2>1. Opened(t, v)
    BY <1>0, <1>1, <1>3 DEF SInv, SweepOf
  <2>2. Larger(v)' = Larger(v) /\ Neighbors(v)' = Neighbors(v)
        /\ Neighbors(v) \subseteq Vert
    BY <1>1, <1>3, <1>7
  <2>3. ASSUME NEW x \in Neighbors(v) \ Larger(v)
        PROVE  Marked(x)' \/ \E h \in Holds(t)' : x \in queue'[h]
    <3>1. Marked(x) => Marked(x)'
      BY <1>7, <2>2
    <3>2. ASSUME NEW h \in Holds(t), x \in queue[h]
          PROVE  \E q \in Holds(t)' : x \in queue'[q]
      <4>1. CASE h \in {c, p}
        BY <1>4, <1>6, <3>2, <4>1
      <4>2. CASE h \notin {c, p}
        <5>1. h \in Vert /\ h \in Holds(t)'
          BY <1>3, <1>6, <4>2
        <5>2. queue'[h] = queue[h]
          BY <1>2, <4>2, <5>1 DEF Types
        <5> QED BY <3>2, <5>1, <5>2
      <4> QED BY <4>1, <4>2
    <3> QED BY <2>1, <3>1, <3>2 DEF Opened
  <2> QED BY <2>2, <2>3 DEF Opened
<1>13. SweepOf(t)'
  BY <1>4, <1>10, <1>11, <1>12 DEF SweepOf
<1>14. ASSUME NEW h \in Vert \ {c, p} PROVE Spared(h)
  <2>1. \A u \in Vert : Holder(u)' = h <=> Holder(u) = h
    BY <1>7
  <2>2. queue'[h] = queue[h] /\ segmentSize'[h] = segmentSize[h]
    BY <1>2 DEF Types, Base
  <2>3. comp'[h] = h => comp[h] = h
    BY <1>4
  <2> QED BY <1>2, <1>7, <2>1, <2>2, <2>3 DEF Spared, Alike
<1>15. HillOf(c)'
  <2>1. segmentSize'[c] = Cardinality(Held(c)')
    <3>1. IsFiniteSet(Held(c)) /\ IsFiniteSet(Held(p))
      BY <1>8, VertFacts, FS_Subset DEF Base
    <3>2. /\ segmentSize[c] = Cardinality(Held(c))
          /\ segmentSize[p] = Cardinality(Held(p))
      BY <1>1, <1>3, HoldsHills
    <3> QED BY <1>4, <1>8, <3>1, <3>2, CardinalityOfBoth
  <2>2. Marked(c)'
    BY <1>3, <1>7, <1>9
  <2>3. Saddle(c) = v
    BY <1>0, <1>1, <1>3, MetAtSaddle
  <2>4. \A s \in Vert : Saddle(c)' = s => At(c, s)'
    BY <1>3, <1>7, <1>10, <2>3
  <2>5. Growing(c)'
    BY <1>1, <1>4 DEF Growing
  <2> QED BY <1>1, <2>1, <2>2, <2>4, <2>5 DEF HillOf
<1>16. ASSUME NEW h \in Holds(t) PROVE HillOf(h)'
  <2>1. CASE h = c
    BY <1>15, <2>1
  <2>2. CASE h = p
    <3>1. HillOf(p)'
      BY <1>3, <1>5 DEF HillOf
    <3> QED BY <2>2, <3>1
  <2>3. CASE h \notin {c, p}
    <3>1. ~Growing(h)
      BY <1>0, <1>1, <2>3, NotGrowing
    <3>2. Spared(h)
      BY <1>3, <1>14, <2>3
    <3>3. \A u \in Vert : Marked(u) => Marked(u)'
      BY <1>7
    <3> QED BY <1>1, <3>1, <3>2, <3>3, HillStays
  <2> QED BY <2>1, <2>2, <2>3
<1>17. queueMask' \in [Vert -> Int]
  BY <1>2 DEF SInv
<1>18. \A h \in propagations \ Holds(t) : Spared(h)
  BY <1>3, <1>14
<1>19. \A u \in Vert : Marked(u) => Marked(u)'
  BY <1>7
<1> QED BY <1>1, <1>13, <1>16, <1>17, <1>18, <1>19, SweepKept

(* A task marks the vertex it has come to: the sweep stands below it.      *)
LEMMA MarkSweeps ==
    ASSUME Base, Types, PInv, SInv, NEW t \in Vert, Mark(t)
    PROVE  SInv'
<1>0. PICK c, v : c = current[t] /\ v = cur[t]
  OBVIOUS
<1>1. /\ t \in propagations /\ Active(t) /\ OthersStill(t)
      /\ UNCHANGED <<request, order, propagations>>
      /\ Vert' = Vert /\ pc[t] = "mark"
      /\ \A u \in Vert : Larger(u)' = Larger(u)
  <2>1. Propagate(t)
    BY DEF Propagate
  <2> QED BY <2>1, Frame DEF Mark
<1>2. /\ UNCHANGED <<comp, criticalPoints, queue>>
      /\ cur' = cur /\ queueMask' = queueMask /\ current' = current
      /\ propagationMask' = [propagationMask EXCEPT ![v] = c]
      /\ segmentSize' = [segmentSize EXCEPT ![c] = @ + 1]
      /\ pc' = [pc EXCEPT ![t] = "pop"]
  BY <1>0 DEF Mark, Goto, locals
<1>3. /\ Holds(t) = {c} /\ c \in propagations /\ c \in Vert /\ v \in Vert
      /\ comp[c] = c /\ Null \notin Vert
  BY <1>0, <1>1, ActiveFacts, VertFacts DEF Holds, Base
<1>4. /\ pc'[t] = "pop" /\ current'[t] = c /\ cur'[t] = v
      /\ propagationMask'[v] = c
      /\ \A u \in Vert : u # v => propagationMask'[u] = propagationMask[u]
      /\ segmentSize'[c] = segmentSize[c] + 1
  BY <1>0, <1>1, <1>2, <1>3 DEF Types, Base
<1>5. /\ ~Marked(v)
      /\ \A u \in Larger(v) : Holder(u) = c
      /\ Larger(v) = {} => v = c
      /\ Marked(Saddle(c)) \/ Saddle(c) = v
  BY <1>0, <1>1 DEF PInv, TaskOf
<1>6. /\ \A u \in Vert : /\ u # v => Holder(u)' = Holder(u)
                         /\ Marked(u)' <=> Marked(u) \/ u = v
                         /\ Neighbors(u)' = Neighbors(u)
                         /\ Neighbors(u) \subseteq Vert
                         /\ Saddle(u)' = Saddle(u)
      /\ Holder(v)' = c /\ Holder(v) = Null
  <2>1. \A u \in Vert : u # v => Holder(u)' = Holder(u)
    BY <1>2, <1>4 DEF Holder
  <2>2. Holder(v)' = c /\ Holder(v) = Null
    BY <1>2, <1>3, <1>4, <1>5 DEF Holder, Marked
  <2>3. \A u \in Vert : Marked(u)' <=> Marked(u) \/ u = v
    BY <1>3, <1>4 DEF Marked
  <2>4. \A u \in Vert : Neighbors(u)' = Neighbors(u) /\ Saddle(u)' = Saddle(u)
    BY <1>1, <1>2 DEF Neighbors, Saddle
  <2> QED BY <2>1, <2>2, <2>3, <2>4, NeighborFacts DEF Base
<1>7. /\ Held(c)' = Held(c) \cup {v} /\ v \notin Held(c) /\ Held(c) \subseteq Vert
  <2>1. Held(c)' = {u \in Vert : Holder(u)' = c}
    BY <1>1 DEF Held
  <2>2. {u \in Vert : Holder(u)' = c} = Held(c) \cup {v}
    BY <1>3, <1>6 DEF Held
  <2> QED BY <1>3, <1>6, <2>1, <2>2 DEF Held
<1>8. /\ At(c, v) /\ Opened(t, v)
      /\ Connected(request.mesh, Held(c) \cup {v})
  <2>1. SweepOf(t)
    BY <1>1 DEF SInv
  <2> QED BY <1>0, <1>1, <1>3, <2>1 DEF SweepOf
<1>9. /\ segmentSize[c] = Cardinality(Held(c))
      /\ Held(c) # {} => Marked(c)
  BY <1>1, <1>3, HoldsHills
<1>10. queue[c] \subseteq Vert /\ \A x \in Vert : order[x] \in Int
  <2>1. \A x \in Vert : order[x] \in Int
    BY VertFacts DEF Base
  <2>2. queue[c] \subseteq Vert
    BY <1>3 DEF Types
  <2> QED BY <2>1, <2>2
<1>11. Ready(c)'
  <2>1. \A w \in Held(c) \cup {v}, x \in queue[c] : order[x] < order[w]
    <3> SUFFICES ASSUME NEW w \in Held(c) \cup {v}, NEW x \in queue[c]
                 PROVE  order[x] < order[w]
      OBVIOUS
    <3>1. /\ order[x] < order[v]
          /\ w = v \/ order[v] < order[w]
          /\ x \in Vert /\ w \in Vert
      BY <1>3, <1>7, <1>8, <1>10 DEF At
    <3>2. order[x] \in Int /\ order[v] \in Int /\ order[w] \in Int
      BY <1>3, <1>10, <3>1
    <3> QED BY <3>1, <3>2
  <2>2. ASSUME NEW x \in Vert, Seen(c, x)'
        PROVE  Marked(x)' \/ x \in queue'[c]
    <3>1. Seen(c, x) \/ v \in Neighbors(x)
      BY <1>2, <1>6, <2>2 DEF Seen
    <3>2. CASE Seen(c, x)
      <4>1. Marked(x) \/ x \in queue[c] \/ x = v
        BY <1>8, <3>2 DEF At
      <4> QED BY <1>2, <1>6, <4>1
    <3>3. CASE v \in Neighbors(x)
      <4>1. x \in Neighbors(v)
        BY <3>3, NeighborFacts DEF Base
      <4>2. CASE x \in Larger(v)
        <5>1. Holder(x) = c /\ c # Null
          BY <1>3, <1>5, <4>2
        <5>2. Marked(x)
          BY <5>1, HolderFacts
        <5> QED BY <1>6, <5>2
      <4>3. CASE x \notin Larger(v)
        <5>1. Marked(x) \/ x \in queue[c]
          BY <1>3, <1>8, <4>1, <4>3 DEF Opened
        <5> QED BY <1>2, <1>6, <5>1
      <4> QED BY <4>2, <4>3
    <3> QED BY <3>1, <3>2, <3>3
  <2> QED BY <1>1, <1>2, <1>7, <2>1, <2>2 DEF Ready
<1>12. SweepOf(t)'
  BY <1>4, <1>11 DEF SweepOf
<1>13. HillOf(c)'
  <2>1. segmentSize'[c] = Cardinality(Held(c)')
    <3>1. IsFiniteSet(Held(c))
      BY <1>7, VertFacts, FS_Subset DEF Base
    <3>2. Cardinality(Held(c) \cup {v}) = Cardinality(Held(c)) + 1
      BY <1>7, <3>1, FS_AddElement
    <3> QED BY <1>4, <1>7, <1>9, <3>2
  <2>2. Marked(c)'
    <3>1. CASE Held(c) = {}
      <4>1. Larger(v) = {}
        <5>1. Larger(v) \subseteq Vert
          BY <1>3, LargerFacts
        <5> QED BY <1>5, <3>1, <5>1 DEF Held
      <4>2. v = c
        BY <1>5, <4>1
      <4> QED BY <1>3, <1>6, <4>2
    <3>2. CASE Held(c) # {}
      BY <1>3, <1>6, <1>9, <3>2
    <3> QED BY <3>1, <3>2
  <2>3. \A s \in Vert : Saddle(c)' = s => Marked(s)'
    BY <1>3, <1>5, <1>6
  <2>4. Connected(request.mesh, Held(c))'
    BY <1>1, <1>7, <1>8
  <2> QED BY <1>1, <2>1, <2>2, <2>3, <2>4 DEF HillOf
<1>14. ASSUME NEW h \in propagations \ Holds(t) PROVE Spared(h)
  <2>1. h \in Vert /\ h # c /\ h # Null
    BY <1>3 DEF Types
  <2>2. \A u \in Vert : Holder(u)' = h <=> Holder(u) = h
    BY <1>6, <2>1
  <2>3. segmentSize'[h] = segmentSize[h]
    BY <1>2, <2>1 DEF Base
  <2> QED BY <1>2, <1>6, <2>1, <2>2, <2>3 DEF Spared, Alike
<1>15. queueMask' \in [Vert -> Int]
  BY <1>2 DEF SInv
<1>16. \A u \in Vert : Marked(u) => Marked(u)'
  BY <1>6
<1> QED BY <1>1, <1>3, <1>12, <1>13, <1>14, <1>15, <1>16, SweepKept

(* When the propagations begin they hold nothing and have queued nothing.  *)
LEMMA SweepBegins ==
    ASSUME IInv, InitializePropagations
    PROVE  SInv'
<1>1. /\ request' = request
      /\ queueMask' = [v \in Vert |-> IF v \in request.authorized THEN -2
                                      ELSE -1]
      /\ propagationMask' = [v \in Vert |-> Null]
      /\ comp' = [v \in Vert |-> v]
      /\ criticalPoints' = [v \in Vert |-> <<v>>]
      /\ queue' = [v \in Vert |-> {}]
      /\ segmentSize' = [v \in Vert |-> 0]
      /\ current' = [v \in Vert |-> v] /\ cur' = [v \in Vert |-> v]
      /\ pc' = [v \in Vert |-> IF v \in propagations' THEN "start" ELSE "none"]
  BY DEF InitializePropagations
<1>2. propagations' \subseteq Vert
  BY DEF InitializePropagations, SimplifiedMaxima, Discarded, Maxima
<1>3. /\ Vert' = Vert /\ Vert \subseteq Nat /\ Null \notin Vert
      /\ \A v \in Vert : /\ Neighbors(v)' = Neighbors(v)
                         /\ Neighbors(v) \subseteq Vert
  BY <1>1, VertFacts, NeighborFacts DEF Vert, Neighbors, IInv, Base
<1>4. \A v \in Vert : Holder(v)' = Null
  BY <1>1 DEF Holder
<1>5. ASSUME NEW c \in Vert
      PROVE  /\ Held(c)' = {} /\ Saddle(c)' = c
             /\ \A x \in Vert : ~Seen(c, x)'
  <2>1. Held(c)' = {u \in Vert : Holder(u)' = c}
    BY <1>3 DEF Held
  <2>2. Held(c)' = {}
    BY <1>3, <1>4, <2>1
  <2>3. Saddle(c)' = c
    BY <1>1 DEF Saddle, Last
  <2>4. \A x \in Vert : queueMask'[x] # c
    <3>1. c \in Nat
      BY <1>3
    <3>2. \A x \in Vert : queueMask'[x] \in {-1, -2}
      BY <1>1
    <3> QED BY <3>1, <3>2
  <2>5. \A x \in Vert : ~Seen(c, x)'
    BY <1>3, <1>4, <2>4 DEF Seen
  <2> QED BY <2>2, <2>3, <2>5
<1>6. ASSUME NEW t \in propagations' PROVE SweepOf(t)' /\ HillOf(t)'
  <2>1. t \in Vert /\ pc'[t] = "start" /\ current'[t] = t /\ cur'[t] = t
        /\ queue'[t] = {} /\ segmentSize'[t] = 0
    BY <1>1, <1>2
  <2>2. Held(t)' = {} /\ Saddle(t)' = t /\ \A x \in Vert : ~Seen(t, x)'
    BY <1>5, <2>1
  <2>3. Ready(t)'
    BY <1>3, <2>1, <2>2 DEF Ready
  <2>4. SweepOf(t)'
    BY <2>1, <2>3 DEF SweepOf
  <2>5. segmentSize'[t] = Cardinality(Held(t)')
    BY <2>1, <2>2, FS_EmptySet
  <2>6. Connected(request.mesh, Held(t))'
    BY <2>2, ConnectedSmall
  <2>7. HillOf(t)'
    BY <2>2, <2>5, <2>6 DEF HillOf
  <2> QED BY <2>4, <2>7
<1>7. queueMask' \in [Vert -> Int]
  BY <1>1
<1> QED BY <1>3, <1>6, <1>7 DEF SInv

(* Every step keeps it.                                                    *)
LEMMA NextSweepInv ==
    ASSUME IInv, SweepInv, [Next]_vars
    PROVE  SweepInv'
<1> SUFFICES ASSUME step' = "propagate" PROVE SInv'
  BY DEF SweepInv
<1>1. CASE step = "begin" /\ InitializePropagations
  BY <1>1, SweepBegins
<1>2. CASE step = "propagate" /\ \E t \in Vert : Propagate(t)
  <2>1. PICK t \in Vert : Propagate(t)
    BY <1>2
  <2>2. Base /\ Types /\ PInv /\ SInv
    BY <1>2 DEF IInv, SweepInv
  <2>3. ASSUME NEW p \in Vert, Unify(t, p) PROVE SInv'
    BY <2>2, <2>3, UnifySameSweeps, UnifyOtherSweeps
  <2>4. ASSUME OutOfVertices(t) \/ Abort(t) PROVE SInv'
    BY <2>2, <2>4, StopSweeps
  <2> QED BY <2>1, <2>2, <2>3, <2>4, StartSweeps, VisitSweeps, CaptureSweeps,
             DominantSweeps, MarkSweeps DEF Propagate
<1>3. CASE step = "propagate" /\ UNCHANGED vars
  <2>1. SInv
    BY <1>3 DEF SweepInv
  <2>2. /\ UNCHANGED <<request, order, queueMask, propagationMask, propagations>>
        /\ UNCHANGED <<comp, criticalPoints, queue, segmentSize>>
        /\ UNCHANGED <<pc, current, cur, todo>>
    BY <1>3 DEF vars, fields, arrays, props, locals
  <2>3. Vert' = Vert /\ \A v : Neighbors(v)' = Neighbors(v) /\ Larger(v)' = Larger(v)
    BY <2>2 DEF Vert, Neighbors, Larger
  <2>4. \A v : /\ Holder(v)' = Holder(v)
               /\ Saddle(v)' = Saddle(v)
               /\ Marked(v)' <=> Marked(v)
               /\ Growing(v)' <=> Growing(v)
    BY <2>2 DEF Holder, Saddle, Marked, Growing
  <2>5. \A c : Held(c)' = Held(c) /\ Holds(c)' = Holds(c)
    BY <2>2, <2>3, <2>4 DEF Held, Holds, Merged
  <2>6. \A c, x : Seen(c, x)' <=> Seen(c, x)
    BY <2>2, <2>3, <2>4 DEF Seen
  <2>7. \A c : Ready(c)' <=> Ready(c)
    BY <2>2, <2>3, <2>4, <2>5, <2>6 DEF Ready
  <2>8. \A c, v : At(c, v)' <=> At(c, v)
    BY <2>2, <2>3, <2>4, <2>5, <2>6 DEF At
  <2>9. \A t, v : Opened(t, v)' <=> Opened(t, v)
    BY <2>2, <2>3, <2>4, <2>5 DEF Opened
  <2>10. \A t \in propagations : SweepOf(t)' /\ HillOf(t)'
    <3> SUFFICES ASSUME NEW t \in propagations PROVE SweepOf(t)' /\ HillOf(t)'
      OBVIOUS
    <3>1. SweepOf(t) /\ HillOf(t)
      BY <2>1 DEF SInv
    <3>2. SweepOf(t)'
      BY <2>2, <2>3, <2>5, <2>7, <2>8, <2>9, <3>1 DEF SweepOf
    <3>3. HillOf(t)'
      BY <2>2, <2>3, <2>4, <2>5, <2>8, <3>1 DEF HillOf
    <3> QED BY <3>2, <3>3
  <2>11. queueMask' \in [Vert -> Int]'
    BY <2>1, <2>2, <2>3 DEF SInv
  <2> QED BY <2>2, <2>10, <2>11 DEF SInv
<1> QED BY <1>1, <1>2, <1>3, PassSteps

(* SweepInv is an invariant.                                               *)
THEOREM SweepInvAlways == Spec => []SweepInv
<1>1. Init => SweepInv
  BY DEF Init, SweepInv
<1> QED BY <1>1, NextSweepInv, IInvAlways, PTL DEF Spec

(* The finite sets of the instances are those of this module.              *)
LEMMA SameFinite == ASSUME NEW S, IsFiniteSet(S) PROVE JP!IsFiniteSet(S)
  BY DEF IsFiniteSet, JP!IsFiniteSet

LEMMA SameCardinality == ASSUME NEW S PROVE J!Cardinality(S) = JP!Cardinality(S)
  BY DEF J!Cardinality, JP!Cardinality

(* A connected set above v that leaves out none of its neighbours there is *)
(* made of the components of what is next to v.                            *)
LEMMA SweptComponents ==
    ASSUME Base, NEW v \in Vert, NEW H, H \subseteq Above(v), Larger(v) \subseteq H,
           Connected(request.mesh, H \cup {v}),
           \A x \in H, y \in Above(v) : y \in Neighbors(x) => y \in H
    PROVE  H = UNION {J!Component(request.mesh, u, Above(v)) : u \in Larger(v)}
<1> DEFINE S == Above(v)
           C(u) == JP!Component(request.mesh, u, S)
           U == UNION {C(u) : u \in Larger(v)}
<1>1. /\ S \subseteq Vert /\ IsFiniteSet(S) /\ v \in Vert /\ v \notin S
      /\ Larger(v) \subseteq S /\ request \in Requests
  <2>1. S \subseteq Vert
    BY DEF Above
  <2>2. IsFiniteSet(S)
    BY <2>1, VertFacts, FS_Subset DEF Base
  <2>3. v \notin S
    <3>1. order[v] \in Int
      BY DEF Base
    <3> QED BY <3>1 DEF Above
  <2> QED BY <2>1, <2>2, <2>3 DEF Base
<1>2. ASSUME NEW u \in Larger(v)
      PROVE  /\ u \in C(u) /\ C(u) \subseteq S
             /\ JP!Closed(request.mesh, S, C(u))
             /\ \A X : u \in X /\ JP!Closed(request.mesh, S, X) => C(u) \subseteq X
  <2>1. u \in S
    BY <1>1
  <2>2. JP!IsFiniteSet(S)
    BY <1>1, SameFinite
  <2> QED BY <2>1, <2>2, JP!ComponentFacts
<1>3. \A x \in S, y \in S : {y, x} \in request.mesh => y \in Neighbors(x)
  <2> SUFFICES ASSUME NEW x \in S, NEW y \in S, {y, x} \in request.mesh
               PROVE  y \in Neighbors(x)
    OBVIOUS
  <2>1. {x, y} = {y, x} /\ x \in Vert /\ y \in Vert
    BY <1>1
  <2> QED BY <1>1, <2>1, EdgeFacts
<1>4. JP!Closed(request.mesh, S, H)
  BY <1>3 DEF JP!Closed
<1>5. U \subseteq H
  BY <1>2, <1>4
<1>6. H \subseteq U
  <2> SUFFICES ASSUME H \ U # {} PROVE FALSE
    OBVIOUS
  <2> HIDE DEF U
  <2>1. /\ H \ U \in SUBSET (H \cup {v}) /\ H \ U # {} /\ H \ U # H \cup {v}
    BY <1>1
  <2>2. PICK a \in H \ U, b \in (H \cup {v}) \ (H \ U) : {a, b} \in request.mesh
    BY <2>1 DEF Connected
  <2>3. a \in S /\ a \in Vert
    BY <1>1, <2>2
  <2>4. CASE b = v
    <3>1. a \in Neighbors(v)
      <4>1. {v, a} = {a, b}
        BY <2>4
      <4> QED BY <1>1, <2>2, <2>3, <4>1, EdgeFacts
    <3>2. a \in Larger(v)
      BY <2>3, <3>1 DEF Above, Larger
    <3>3. a \in U
      BY <1>2, <3>2 DEF U
    <3> QED BY <2>2, <3>3
  <2>5. CASE b \in U
    <3>1. PICK u \in Larger(v) : b \in C(u)
      BY <2>5 DEF U
    <3>2. a \in C(u)
      BY <1>2, <2>2, <2>3, <3>1 DEF JP!Closed
    <3>3. a \in U
      BY <3>1, <3>2 DEF U
    <3> QED BY <2>2, <3>3
  <2> QED BY <2>2, <2>4, <2>5
<1>7. \A u : C(u) = J!Component(request.mesh, u, S)
  <2>1. J!Cardinality(S) = JP!Cardinality(S)
    BY SameCardinality
  <2> QED BY <2>1 DEF J!Component, JP!Component
<1> QED BY <1>5, <1>6, <1>7

(* The invariants imply it.                                                *)
LEMMA SweepGrows ==
    ASSUME IInv, SweepInv
    PROVE  GrowsSuperlevelSet
<1> SUFFICES ASSUME NEW t \in propagations, pc[t] = "mark"
             PROVE  /\ Held(current[t]) =
                          UNION {J!Component(request.mesh, u, Above(cur[t])) :
                                    u \in Larger(cur[t])}
                    /\ segmentSize[current[t]] = Cardinality(Held(current[t]))
  BY DEF GrowsSuperlevelSet
<1>1. Base /\ Types /\ PInv /\ SInv
  <2>1. t \in Vert
    BY DEF IInv, Between
  <2>2. step = "propagate"
    BY <2>1 DEF IInv, Base
  <2> QED BY <2>2 DEF IInv, SweepInv
<1>2. PICK c, v : c = current[t] /\ v = cur[t]
  OBVIOUS
<1>3. Active(t)
  BY DEF Active, AtWork
<1>4. c \in Holds(t) /\ c \in Vert /\ v \in Vert
  BY <1>1, <1>2, <1>3, ActiveFacts
<1>5. At(c, v) /\ Connected(request.mesh, Held(c) \cup {v})
  <2>1. SweepOf(t)
    BY <1>1 DEF SInv
  <2> QED BY <1>2, <1>4, <2>1 DEF SweepOf
<1>6. \A u \in Larger(v) : Holder(u) = c
  BY <1>1, <1>2 DEF PInv, TaskOf
<1>7. /\ Larger(v) \subseteq Vert /\ Null \notin Vert
      /\ \A x \in Vert : order[x] \in Int
  <2>1. Larger(v) \subseteq Vert /\ Null \notin Vert
    BY <1>1, <1>4, LargerFacts, VertFacts DEF Base
  <2>2. \A x \in Vert : order[x] \in Int
    BY <1>1, VertFacts DEF Base
  <2> QED BY <2>1, <2>2
<1>8. Held(c) \subseteq Above(v) /\ Larger(v) \subseteq Held(c)
  <2>1. Held(c) \subseteq Vert /\ \A w \in Held(c) : order[w] > order[v]
    BY <1>4, <1>5, <1>7 DEF Held, At
  <2> QED BY <1>6, <1>7, <2>1 DEF Held, Above
<1>9. ASSUME NEW x \in Held(c), NEW y \in Above(v), y \in Neighbors(x)
      PROVE  y \in Held(c)
  <2>1. x \in Vert /\ y \in Vert /\ order[y] > order[v] /\ Holder(x) = c
    BY DEF Held, Above
  <2>2. x \in Neighbors(y)
    BY <1>1, <1>9, <2>1, NeighborFacts DEF Base
  <2>3. Marked(y) \/ y \in queue[c] \/ y = v
    BY <1>5, <2>1, <2>2 DEF At, Seen
  <2>4. y \notin queue[c] /\ y # v
    BY <1>4, <1>5, <1>7, <2>1 DEF At
  <2>5. Marked(x) /\ Marked(y)
    <3>1. Marked(x)
      BY <1>1, <1>4, <1>7, <2>1, HolderFacts
    <3> QED BY <2>3, <2>4, <3>1
  <2>6. Holder(y) = c
    <3>1. CASE y \in Larger(x)
      BY <1>1, <2>1, <2>5, <3>1 DEF PInv, Closed
    <3>2. CASE y \notin Larger(x)
      <4>1. x \in Larger(y)
        BY <1>1, <1>9, <2>1, <3>2, LargerFacts
      <4> QED BY <1>1, <2>1, <2>5, <4>1 DEF PInv, Closed
    <3> QED BY <3>1, <3>2
  <2> QED BY <2>1, <2>6 DEF Held
<1>10. Held(c) = UNION {J!Component(request.mesh, u, Above(v)) : u \in Larger(v)}
  BY <1>1, <1>4, <1>5, <1>8, <1>9, SweptComponents
<1>11. segmentSize[c] = Cardinality(Held(c))
  BY <1>1, <1>3, <1>4, HoldsHills
<1> QED BY <1>2, <1>10, <1>11

(* Whatever the mesh, the field and the interleaving of the tasks, what a  *)
(* propagation holds when it goes on to a vertex is one component of the   *)
(* superlevel set above it, or all that meet there, and its size is right. *)
THEOREM GrowsSuperlevelSetAlways == Spec => []GrowsSuperlevelSet
<1>1. IInv /\ SweepInv => GrowsSuperlevelSet
  BY SweepGrows
<1> QED BY <1>1, IInvAlways, SweepInvAlways, PTL
-------------------------------------------------------------------------------
(***************************************************************************)
(* What the propagations record.                                           *)
(***************************************************************************)
(* The part of the mesh above the saddle of p that p lies in.              *)
Dome(p) == J!Component(request.mesh, p, Above(Saddle(p)))

(* The saddle is next to what lies above it.                               *)
Meets(p) == \E u \in Larger(Saddle(p)) : u \in Dome(p)

(* p was taken in by its parent, a higher one that grew on another side of *)
(* the saddle.                                                             *)
Frozen(p) ==
    /\ order[p] > order[Saddle(p)] /\ order[parent[p]] > order[p]
    /\ segmentSize[p] = Cardinality(Dome(p)) /\ Meets(p)
    /\ \A v \in Dome(p) : order[v] <= order[p] /\ Holder(v) = comp[p]
    /\ \A v \in Vert : propagationMask[v] = p => v \in Dome(p)
    /\ comp[p] \notin Dome(p)
    /\ \A o \in propagations \cap Dome(p) : o # p => parent[o] \in Dome(p)
    /\ parent[parent[p]] # parent[p] => p \in Dome(parent[p])
    /\ \E w \in Larger(Saddle(p)) :
          parent[p] \in J!Component(request.mesh, w, Above(Saddle(p)))

Family(p) ==
    /\ parent[p] \in propagations /\ comp[parent[p]] = comp[p]
    /\ comp[p] = p <=> parent[p] = p
    /\ parent[p] # p => Marked(parent[p]) /\ Frozen(p)
    /\ Marked(p) => propagationMask[p] = p

(* No task works on p.                                                     *)
Idle(p) == \A t \in propagations : Active(t) => p \notin Holds(t)

(* What p holds lies above v and leaves out no neighbour there.            *)
Bounds(p, v) ==
    /\ \A w \in Held(p) : order[v] < order[w]
    /\ \A x \in Held(p), y \in Above(v) : y \in Neighbors(x) => y \in Held(p)

(* p gave up below its saddle, at a vertex too far down, which stays open. *)
Sunk(p) ==
    aborted[p] =>
        /\ Persistent /\ comp[p] = p /\ Marked(Saddle(p))
        /\ Idle(p)
        /\ \E v \in Vert : /\ ~Marked(v) /\ Bounds(p, v)
                           /\ \E u \in Larger(v) : Holder(u) = p
                           /\ Dist(scalars[p], scalars[v]) > request.threshold

(* p waits at a saddle nobody has gone on from.                            *)
Resting(p) ==
    status /\ comp[p] = p /\ ~aborted[p] /\ Idle(p) =>
        ~Marked(Saddle(p)) /\ Saddle(p) # p

(* No hill is higher than the threshold.                                   *)
Low(p, v) == Persistent => Dist(scalars[p], scalars[v]) <= request.threshold

(* All came to v, and one of them goes on.                                 *)
Claimed(v) ==
    ~Marked(v) /\ Larger(v) # {} /\ Shares(v) = Larger(v) =>
        \E t \in propagations : /\ pc[t] \in {"merge", "unify", "mark"}
                                /\ cur[t] = v

(* Some part of the domain has no maximum that stays.                      *)
Exhausted ==
    \E H \in SUBSET Vert : /\ H # {}
                           /\ \A v \in H : Neighbors(v) \subseteq H
                           /\ H \cap Maxima \subseteq propagations

HInv ==
    /\ parent \in [Vert -> Vert] /\ aborted \in [Vert -> BOOLEAN]
    /\ status \in BOOLEAN
    /\ status \/ Exhausted
    /\ propagations = SimplifiedMaxima
    /\ \A v \in Vert : Marked(v) => /\ segmentation[v] = propagationMask[v]
                                    /\ order[v] <= order[Holder(v)]
                                    /\ v \in Maxima => v \in propagations
    /\ \A v \in Vert : Claimed(v)
    /\ \A p \in propagations : /\ Family(p) /\ Sunk(p) /\ Resting(p)
                               /\ Saddle(p) # p => Low(p, Saddle(p))
    /\ \A t \in propagations :
          /\ pc[t] = "capture" => Low(current[t], cur[t])
          /\ pc[t] = "unify" =>
                /\ \A p \in todo[t] : order[p] <= order[current[t]]
                /\ \E w \in Larger(cur[t]) :
                      current[t] \in J!Component(request.mesh, w, Above(cur[t]))
-------------------------------------------------------------------------------
(***************************************************************************)
(* Components of the mesh above a vertex.                                  *)
(***************************************************************************)
(* What Component computes is connected, and closed within S.              *)
LEMMA ComponentIs ==
    ASSUME request \in Requests, NEW S \in SUBSET Vert, NEW v \in S,
           NEW C, C = J!Component(request.mesh, v, S)
    PROVE  /\ v \in C /\ C \subseteq S
           /\ \A x \in C, y \in S : y \in Neighbors(x) => y \in C
           /\ \A X : /\ v \in X
                     /\ \A x \in X \cap S, y \in S : y \in Neighbors(x) => y \in X
                     => C \subseteq X
           /\ Connected(request.mesh, C)
<1> DEFINE D == JP!Component(request.mesh, v, S)
<1>1. IsFiniteSet(S)
  BY VertFacts, FS_Subset
<1>2. JP!IsFiniteSet(S)
  BY <1>1, SameFinite
<1>3. /\ v \in D /\ D \subseteq S
      /\ JP!Closed(request.mesh, S, D)
      /\ \A X : v \in X /\ JP!Closed(request.mesh, S, X) => D \subseteq X
  BY <1>2, JP!ComponentFacts
<1>4. C = D
  BY SameCardinality DEF J!Component, JP!Component
<1> HIDE DEF D
<1>5. \A x \in S, y \in S : {y, x} \in request.mesh <=> y \in Neighbors(x)
  <2> SUFFICES ASSUME NEW x \in S, NEW y \in S
               PROVE  {y, x} \in request.mesh <=> y \in Neighbors(x)
    OBVIOUS
  <2>1. {x, y} = {y, x} /\ x \in Vert /\ y \in Vert
    OBVIOUS
  <2> QED BY <2>1, EdgeFacts
<1>6. \A x \in C, y \in S : y \in Neighbors(x) => y \in C
  <2>1. \A x \in D, y \in S : {y, x} \in request.mesh => y \in D
    BY <1>3 DEF JP!Closed
  <2> QED BY <1>3, <1>4, <1>5, <2>1
<1>7. ASSUME NEW X, v \in X,
             \A x \in X \cap S, y \in S : y \in Neighbors(x) => y \in X
      PROVE  C \subseteq X
  <2>1. JP!Closed(request.mesh, S, X \cap S)
    BY <1>5, <1>7 DEF JP!Closed
  <2> QED BY <1>3, <1>4, <1>7, <2>1
<1>8. Connected(request.mesh, C)
  <2> SUFFICES ASSUME NEW X \in SUBSET C, X # {}, X # C,
                      \A a \in X, b \in C \ X : {a, b} \notin request.mesh
               PROVE  FALSE
    BY DEF Connected
  <2>1. \A a \in X, b \in C \ X : a \notin Neighbors(b) /\ b \notin Neighbors(a)
    <3> SUFFICES ASSUME NEW a \in X, NEW b \in C \ X
                 PROVE  a \notin Neighbors(b) /\ b \notin Neighbors(a)
      OBVIOUS
    <3>1. a \in S /\ b \in S /\ {a, b} = {b, a}
      BY <1>3, <1>4
    <3> QED BY <1>5, <3>1
  <2>2. CASE v \in X
    <3>1. \A x \in X \cap S, y \in S : y \in Neighbors(x) => y \in X
      BY <1>6, <2>1
    <3> QED BY <1>7, <2>2, <3>1
  <2>3. CASE v \notin X
    <3> DEFINE Y == C \ X
    <3>1. v \in Y
      BY <1>3, <1>4, <2>3
    <3>2. \A x \in Y \cap S, y \in S : y \in Neighbors(x) => y \in Y
      BY <1>6, <2>1
    <3>3. C \subseteq Y
      BY <1>7, <3>1, <3>2
    <3> QED BY <3>3
  <2> QED BY <2>2, <2>3
<1> QED BY <1>3, <1>4, <1>6, <1>7, <1>8

(* It is the only such set with v.                                         *)
LEMMA ComponentOnly ==
    ASSUME request \in Requests, NEW S \in SUBSET Vert, NEW H \in SUBSET S,
           NEW v \in H, Connected(request.mesh, H),
           \A x \in H, y \in S : y \in Neighbors(x) => y \in H
    PROVE  J!Component(request.mesh, v, S) = H
<1> DEFINE C == J!Component(request.mesh, v, S)
<1>1. /\ v \in C /\ C \subseteq S
      /\ \A x \in C, y \in S : y \in Neighbors(x) => y \in C
      /\ \A X : /\ v \in X
                /\ \A x \in X \cap S, y \in S : y \in Neighbors(x) => y \in X
                => C \subseteq X
  BY ComponentIs
<1> HIDE DEF C
<1>2. C \subseteq H
  <2>1. \A x \in H \cap S, y \in S : y \in Neighbors(x) => y \in H
    OBVIOUS
  <2> QED BY <1>1, <2>1
<1>3. C = H
  <2> SUFFICES ASSUME C # H PROVE FALSE
    OBVIOUS
  <2>1. C \in SUBSET H /\ C # {}
    BY <1>1, <1>2
  <2>2. PICK a \in C, b \in H \ C : {a, b} \in request.mesh
    BY <2>1 DEF Connected
  <2>3. a \in Vert /\ b \in Vert
    BY <1>1
  <2>4. b \in Neighbors(a)
    BY <2>2, <2>3, EdgeFacts
  <2> QED BY <1>1, <2>2, <2>4
<1> QED BY <1>3 DEF C
-------------------------------------------------------------------------------
(***************************************************************************)
(* What a step of a task does to what the propagations record.             *)
(***************************************************************************)
(* p is taken in by the propagation of t.                                  *)
TakenIn(t, p) == pc[t] = "unify" /\ p \in todo[t] \ {current[t]}

StepOf(t) ==
    /\ t \in propagations /\ Active(t) /\ OthersStill(t)
    /\ UNCHANGED <<request, order, scalars, propagations>>
    /\ \A u \in Vert :
          /\ Marked(u) => /\ propagationMask'[u] = propagationMask[u]
                          /\ segmentation'[u] = segmentation[u]
          /\ Marked(u)' /\ ~Marked(u) =>
                /\ pc[t] = "mark" /\ u = cur[t] /\ cur'[t] = cur[t]
                /\ propagationMask'[u] = current[t]
                /\ segmentation'[u] = current[t]
    /\ \A p \in Vert :
          /\ \/ comp'[p] = comp[p]
             \/ /\ TakenIn(t, comp[p]) /\ comp'[p] = current[t]
                /\ parent'[comp[p]] = current[t]
          /\ \/ parent'[p] = parent[p]
             \/ /\ TakenIn(t, p) /\ parent'[p] = current[t]
                /\ comp'[p] = current[t]
          /\ \A o \in Vert : comp[p] = comp[o] => comp'[p] = comp'[o]
          /\ p # current[t] => segmentSize'[p] = segmentSize[p]
          /\ \/ Saddle(p)' = Saddle(p)
             \/ pc[t] = "capture" /\ p = current[t] /\ Saddle(p)' = cur[t]
          /\ aborted'[p] = aborted[p] \/ (Abort(t) /\ p = current[t])
    /\ status' = status \/ OutOfVertices(t)
    /\ parent' \in [Vert -> Vert] /\ aborted' \in [Vert -> BOOLEAN]
    /\ status' \in BOOLEAN

(* Most steps change none of it.                                           *)
LEMMA PlainStep ==
    ASSUME Base, Types, HInv, NEW t \in Vert,
           Start(t) \/ OutOfVertices(t) \/ Abort(t) \/ Visit(t) \/ Dominant(t)
    PROVE  StepOf(t)
<1>1. /\ t \in propagations /\ Active(t) /\ OthersStill(t)
      /\ UNCHANGED <<request, order, propagations>>
  <2>1. Propagate(t)
    BY DEF Propagate
  <2> QED BY <2>1, Frame
<1>2. /\ UNCHANGED <<propagationMask, segmentation, comp, parent, criticalPoints,
                     segmentSize, scalars>>
      /\ aborted' = aborted \/ Abort(t)
      /\ status' = status \/ OutOfVertices(t)
  BY DEF Start, OutOfVertices, Abort, Visit, Dominant, propagating, fields, props
<1>3. \A u : (Marked(u)' <=> Marked(u)) /\ Saddle(u)' = Saddle(u)
  BY <1>2 DEF Marked, Saddle
<1>4. aborted' \in [Vert -> BOOLEAN]
  BY <1>2 DEF HInv, Abort
<1>5. status' \in BOOLEAN
  BY <1>2 DEF HInv, OutOfVertices
<1>6. parent' \in [Vert -> Vert]
  BY <1>2 DEF HInv
<1>7. \A p \in Vert : aborted'[p] = aborted[p] \/ (Abort(t) /\ p = current[t])
  <2>1. CASE aborted' = aborted
    BY <2>1
  <2>2. CASE Abort(t)
    <3>1. aborted' = [aborted EXCEPT ![current[t]] = TRUE]
      BY <2>2 DEF Abort
    <3> QED BY <2>2, <3>1 DEF HInv
  <2> QED BY <1>2, <2>1, <2>2
<1> QED BY <1>1, <1>2, <1>3, <1>4, <1>5, <1>6, <1>7 DEF StepOf

LEMMA CaptureStep ==
    ASSUME Base, Types, PInv, HInv, NEW t \in Vert, Capture(t)
    PROVE  StepOf(t)
<1>0. PICK c, v : c = current[t] /\ v = cur[t]
  OBVIOUS
<1>1. /\ t \in propagations /\ Active(t) /\ OthersStill(t)
      /\ UNCHANGED <<request, order, propagations>>
  <2>1. Propagate(t)
    BY DEF Propagate
  <2> QED BY <2>1, Frame
<1>2. /\ UNCHANGED <<propagationMask, comp, parent, segmentSize, scalars, aborted,
                     status>>
      /\ pc[t] = "capture"
      /\ criticalPoints' = [criticalPoints EXCEPT ![c] = Append(@, v)]
      /\ \E left : segmentation' = [segmentation EXCEPT ![v] = left]
  BY <1>0 DEF Capture, RegisterWith, propagating, fields
<1>3. c \in Vert /\ v \in Vert /\ ~Marked(v)
  <2>1. TaskOf(t)
    BY <1>1 DEF PInv
  <2> QED BY <1>0, <1>1, <1>2, <2>1, ActiveFacts DEF TaskOf
<1>4. \A u : Marked(u)' <=> Marked(u)
  BY <1>2 DEF Marked
<1>5. \A p \in Vert : p # c => Saddle(p)' = Saddle(p)
  BY <1>2, <1>3 DEF Saddle, Types
<1>6. Saddle(c)' = v
  <2>1. criticalPoints[c] \in Seq(Vert) /\ criticalPoints'[c] = Append(criticalPoints[c], v)
    BY <1>2, <1>3 DEF Types
  <2> QED BY <1>3, <2>1 DEF Saddle, Last
<1>7. \A u \in Vert : Marked(u) => segmentation'[u] = segmentation[u]
  BY <1>2, <1>3 DEF Types
<1>8. /\ parent \in [Vert -> Vert] /\ aborted \in [Vert -> BOOLEAN]
      /\ status \in BOOLEAN
  BY DEF HInv
<1> QED BY <1>0, <1>1, <1>2, <1>4, <1>5, <1>6, <1>7, <1>8 DEF StepOf

LEMMA UnifyStep ==
    ASSUME Base, Types, PInv, HInv, NEW t \in Vert, NEW q \in Vert, Unify(t, q)
    PROVE  StepOf(t)
<1>0. PICK c : c = current[t]
  OBVIOUS
<1>1. /\ t \in propagations /\ Active(t) /\ OthersStill(t)
      /\ UNCHANGED <<request, order, propagations>>
      /\ c \in Vert /\ comp[c] = c
      /\ Holds(t) \subseteq propagations /\ propagations \subseteq Vert
  <2>1. Propagate(t)
    BY DEF Propagate
  <2>2. t \in propagations /\ Active(t)
    BY <2>1, Frame
  <2> QED BY <1>0, <2>1, <2>2, Frame, ActiveFacts DEF Types
<1>2. /\ UNCHANGED <<propagationMask, criticalPoints, scalars, aborted, status>>
      /\ UNCHANGED segmentation
      /\ pc[t] = "unify" /\ q \in todo[t]
  BY DEF Unify, propagating, fields
<1>3. \A u : (Marked(u)' <=> Marked(u)) /\ Saddle(u)' = Saddle(u)
  BY <1>2 DEF Marked, Saddle
<1>4. /\ parent \in [Vert -> Vert] /\ aborted \in [Vert -> BOOLEAN]
      /\ status \in BOOLEAN
  BY DEF HInv
<1>5. q \in Vert /\ comp[q] = q
  <2>1. q \in Holds(t)
    BY <1>2 DEF Holds
  <2>2. \A h \in Holds(t) : h \in propagations /\ comp[h] = h
    BY <1>1 DEF PInv, TaskOf
  <2> QED BY <1>1, <2>1, <2>2
<1>6. CASE q = c
  <2>1. UNCHANGED <<comp, parent, segmentSize>>
    BY <1>0, <1>6 DEF Unify
  <2> QED BY <1>1, <1>2, <1>3, <1>4, <2>1 DEF StepOf
<1>7. CASE q # c
  <2>1. /\ comp' = [p \in Vert |-> IF comp[p] = q THEN c ELSE comp[p]]
        /\ parent' = [parent EXCEPT ![q] = c]
        /\ segmentSize' = [segmentSize EXCEPT ![c] = @ + segmentSize[q]]
    BY <1>0, <1>7 DEF Unify, MergedSize
  <2>2. TakenIn(t, q)
    BY <1>0, <1>2, <1>7 DEF TakenIn
  <2>3. \A p \in Vert :
          /\ comp'[p] = comp[p] \/ (comp[p] = q /\ comp'[p] = c /\ parent'[q] = c)
          /\ parent'[p] = parent[p] \/ (p = q /\ parent'[p] = c /\ comp'[p] = c)
          /\ \A o \in Vert : comp[p] = comp[o] => comp'[p] = comp'[o]
          /\ p # c => segmentSize'[p] = segmentSize[p]
    BY <1>4, <1>5, <2>1 DEF Base
  <2>4. parent' \in [Vert -> Vert]
    BY <1>1, <1>4, <2>1
  <2> QED BY <1>0, <1>1, <1>2, <1>3, <1>4, <2>2, <2>3, <2>4 DEF StepOf
<1> QED BY <1>6, <1>7

LEMMA MarkStep ==
    ASSUME Base, Types, PInv, HInv, NEW t \in Vert, Mark(t)
    PROVE  StepOf(t)
<1>0. PICK c, v : c = current[t] /\ v = cur[t]
  OBVIOUS
<1>1. /\ t \in propagations /\ Active(t) /\ OthersStill(t)
      /\ UNCHANGED <<request, order, propagations>>
      /\ c \in Vert /\ v \in Vert
  <2>1. Propagate(t)
    BY DEF Propagate
  <2>2. t \in propagations /\ Active(t)
    BY <2>1, Frame
  <2> QED BY <1>0, <2>1, <2>2, Frame, ActiveFacts
<1>2. /\ UNCHANGED <<criticalPoints, scalars, comp, parent, aborted, status, cur>>
      /\ pc[t] = "mark"
      /\ propagationMask' = [propagationMask EXCEPT ![v] = c]
      /\ segmentation' = [segmentation EXCEPT ![v] = c]
      /\ segmentSize' = [segmentSize EXCEPT ![c] = @ + 1]
  BY <1>0 DEF Mark, propagating, fields, locals
<1>3. ~Marked(v)
  BY <1>0, <1>1, <1>2 DEF PInv, TaskOf
<1>4. \A u : Saddle(u)' = Saddle(u)
  BY <1>2 DEF Saddle
<1>5. /\ parent \in [Vert -> Vert] /\ aborted \in [Vert -> BOOLEAN]
      /\ status \in BOOLEAN
  BY DEF HInv
<1>6. \A u \in Vert :
         IF u = v THEN propagationMask'[u] = c /\ segmentation'[u] = c
         ELSE /\ propagationMask'[u] = propagationMask[u]
              /\ segmentation'[u] = segmentation[u]
  BY <1>2 DEF Types
<1>7. \A p \in Vert : p # c => segmentSize'[p] = segmentSize[p]
  BY <1>2 DEF Base
<1>8. \A u \in Vert :
         /\ Marked(u) => /\ propagationMask'[u] = propagationMask[u]
                         /\ segmentation'[u] = segmentation[u]
         /\ Marked(u)' /\ ~Marked(u) => u = v
  BY <1>3, <1>6 DEF Marked
<1> QED BY <1>0, <1>1, <1>2, <1>4, <1>5, <1>6, <1>7, <1>8 DEF StepOf

LEMMA StepFacts ==
    ASSUME Base, Types, PInv, HInv, NEW t \in Vert, Propagate(t)
    PROVE  StepOf(t)
BY PlainStep, CaptureStep, UnifyStep, MarkStep DEF Propagate
-------------------------------------------------------------------------------
(***************************************************************************)
(* Whom the vertices belong to after a step.                               *)
(***************************************************************************)
(* What t takes in it works on.                                            *)
LEMMA TakenFacts ==
    ASSUME Types, PInv, NEW t \in propagations, Active(t), NEW p, TakenIn(t, p)
    PROVE  /\ p \in Holds(t) /\ p \in propagations /\ p \in Vert
           /\ comp[p] = p /\ p # current[t] /\ pc[t] = "unify"
           /\ current[t] \in Vert
<1>1. p \in Holds(t) /\ p # current[t] /\ pc[t] = "unify"
  BY DEF TakenIn, Holds
<1> QED BY <1>1, ActiveFacts DEF PInv, TaskOf, Types

(* Marked vertices keep their mark and follow their propagation.           *)
LEMMA StepKeeps ==
    ASSUME Base, Types, PInv, NEW t \in Vert, StepOf(t)
    PROVE  /\ t \in propagations /\ Active(t)
           /\ Vert' = Vert /\ propagations \subseteq Vert
           /\ current[t] \in propagations /\ current[t] \in Vert
           /\ comp[current[t]] = current[t] /\ comp'[current[t]] = current[t]
           /\ \A v \in Vert : /\ Neighbors(v)' = Neighbors(v)
                              /\ Larger(v)' = Larger(v)
                              /\ Larger(v) \subseteq Vert
                              /\ Neighbors(v) \subseteq Vert
                              /\ Above(v)' = Above(v)
           /\ \A v \in Vert : Marked(v) =>
                 /\ Marked(v)' /\ Holder(v)' = comp'[Holder(v)]
                 /\ propagationMask'[v] = propagationMask[v]
           /\ \A v \in Vert : Marked(v)' /\ ~Marked(v) =>
                 /\ pc[t] = "mark" /\ v = cur[t] /\ Holder(v)' = current[t]
                 /\ propagationMask'[v] = current[t]
<1>1. /\ t \in propagations /\ Active(t) /\ UNCHANGED <<request, order>>
  BY DEF StepOf
<1>2. /\ current[t] \in propagations /\ current[t] \in Vert
      /\ comp[current[t]] = current[t]
  BY <1>1, ActiveFacts
<1>3. comp'[current[t]] = current[t]
  <2>1. ~TakenIn(t, current[t])
    BY DEF TakenIn
  <2> QED BY <1>2, <2>1 DEF StepOf
<1>4. Vert' = Vert /\ propagations \subseteq Vert
  BY <1>1 DEF Vert, Types
<1>5. \A v \in Vert : /\ Neighbors(v)' = Neighbors(v)
                      /\ Larger(v)' = Larger(v)
                      /\ Larger(v) \subseteq Vert
                      /\ Neighbors(v) \subseteq Vert
                      /\ Above(v)' = Above(v)
  BY <1>1, <1>4, LargerFacts, NeighborFacts DEF Neighbors, Larger, Above, Base
<1>6. ASSUME NEW v \in Vert, Marked(v)
      PROVE  /\ Marked(v)' /\ Holder(v)' = comp'[Holder(v)]
             /\ propagationMask'[v] = propagationMask[v]
  <2>1. propagationMask'[v] = propagationMask[v] /\ Marked(v)'
    BY <1>6 DEF StepOf, Marked
  <2> DEFINE m == propagationMask[v]
  <2>2. m \in Vert /\ Holder(v) = comp[m] /\ Holder(v)' = comp'[m]
    BY <1>4, <1>6, <2>1 DEF Marked, Holder, Types
  <2>3. comp[m] \in Vert /\ comp[comp[m]] = comp[m]
    BY <2>2 DEF PInv, Representatives, Types
  <2>4. comp'[m] = comp'[comp[m]]
    BY <2>2, <2>3 DEF StepOf
  <2> QED BY <2>1, <2>2, <2>4
<1>7. ASSUME NEW v \in Vert, Marked(v)', ~Marked(v)
      PROVE  /\ pc[t] = "mark" /\ v = cur[t] /\ Holder(v)' = current[t]
             /\ propagationMask'[v] = current[t]
  <2>1. /\ pc[t] = "mark" /\ v = cur[t] /\ propagationMask'[v] = current[t]
    BY <1>7 DEF StepOf
  <2>2. Null \notin Vert
    BY VertFacts DEF Base
  <2>3. Holder(v)' = comp'[current[t]]
    BY <1>2, <2>1, <2>2 DEF Holder
  <2> QED BY <1>3, <2>1, <2>3
<1> QED BY <1>1, <1>2, <1>3, <1>4, <1>5, <1>6, <1>7

(* A propagation t does not work on keeps what it holds.                   *)
LEMMA HeldKept ==
    ASSUME Base, Types, PInv, NEW t \in Vert, StepOf(t),
           NEW p \in propagations, comp[p] = p, p \notin Holds(t)
    PROVE  /\ comp'[p] = p /\ parent'[p] = parent[p] /\ Saddle(p)' = Saddle(p)
           /\ aborted'[p] = aborted[p]
           /\ \A u \in Vert : Holder(u)' = p <=> Holder(u) = p
           /\ Held(p)' = Held(p)
<1>1. /\ t \in propagations /\ Active(t) /\ p \in Vert /\ Vert' = Vert
      /\ current[t] \in Holds(t) /\ p # current[t]
  BY StepKeeps, ActiveFacts
<1>2. ~TakenIn(t, p)
  BY <1>1, TakenFacts
<1>3. /\ comp'[p] = p /\ parent'[p] = parent[p] /\ Saddle(p)' = Saddle(p)
      /\ aborted'[p] = aborted[p]
  BY <1>1, <1>2 DEF StepOf
<1>4. ASSUME NEW u \in Vert PROVE Holder(u)' = p <=> Holder(u) = p
  <2>1. CASE Marked(u)
    <3>1. Holder(u)' = comp'[Holder(u)] /\ Holder(u) \in Vert
      BY <2>1, StepKeeps, HolderFacts
    <3>2. comp[Holder(u)] = Holder(u)
      BY <2>1, HolderFacts
    <3>3. comp'[Holder(u)] = Holder(u) \/ comp'[Holder(u)] = current[t]
      BY <3>1, <3>2 DEF StepOf
    <3>4. CASE Holder(u) = p
      BY <1>3, <3>1, <3>4
    <3>5. CASE Holder(u) # p
      BY <1>1, <3>1, <3>3, <3>5
    <3> QED BY <3>4, <3>5
  <2>2. CASE ~Marked(u)
    <3>1. Holder(u) = Null /\ p # Null
      BY <1>1, <2>2, VertFacts DEF Holder, Marked, Base
    <3>2. CASE Marked(u)'
      BY <1>1, <2>2, <3>1, <3>2, StepKeeps
    <3>3. CASE ~Marked(u)'
      BY <3>1, <3>3 DEF Holder, Marked
    <3> QED BY <3>2, <3>3
  <2> QED BY <2>1, <2>2
<1>5. Held(p)' = Held(p)
  BY <1>1, <1>4 DEF Held
<1> QED BY <1>3, <1>4, <1>5

(* What t works on stays with t or with the one that stays.                *)
LEMMA RootKept ==
    ASSUME Base, Types, PInv, NEW t \in Vert, StepOf(t), NEW p \in Vert,
           comp'[p] = p
    PROVE  comp[p] = p
<1>1. CASE comp'[p] = comp[p]
  BY <1>1
<1>2. CASE comp'[p] = current[t]
  BY <1>2, StepKeeps
<1> QED BY <1>1, <1>2 DEF StepOf

(* The other tasks work on what they did.                                  *)
LEMMA OthersHold ==
    ASSUME Base, Types, PInv, NEW t \in Vert, StepOf(t),
           NEW o \in propagations \ {t}, Active(o)
    PROVE  /\ Active(o)' /\ Holds(o)' = Holds(o) /\ Holds(o) \cap Holds(t) = {}
           /\ pc'[o] = pc[o] /\ current'[o] = current[o] /\ cur'[o] = cur[o]
           /\ todo'[o] = todo[o]
<1>1. /\ t \in propagations /\ Active(t) /\ Vert' = Vert
      /\ \A v \in Vert : Larger(v)' = Larger(v) /\ Larger(v) \subseteq Vert
  BY StepKeeps
<1>2. /\ pc'[o] = pc[o] /\ current'[o] = current[o] /\ cur'[o] = cur[o]
      /\ todo'[o] = todo[o]
  BY DEF StepOf, OthersStill
<1>3. Holds(o) \cap Holds(t) = {}
  BY <1>1 DEF PInv, Exclusive
<1>4. pc[o] = "merge" => Merged(o)' = Merged(o)
  <2> HAVE pc[o] = "merge"
  <2>1. cur[o] \in Vert /\ \A u \in Larger(cur[o]) : Holder(u) \in Holds(o)
    BY DEF PInv, TaskOf, Types
  <2>2. ASSUME NEW u \in Larger(cur[o]) PROVE Holder(u)' = Holder(u)
    <3>1. u \in Vert /\ Holder(u) \in Holds(o) /\ Holder(u) \in propagations
      BY <1>1, <2>1, ActiveFacts
    <3>2. comp[Holder(u)] = Holder(u)
      BY <3>1 DEF PInv, TaskOf
    <3> QED BY <1>3, <3>1, <3>2, HeldKept
  <2>3. Larger(cur[o])' = Larger(cur[o])
    BY <1>1, <1>2, <2>1 DEF Larger, Neighbors
  <2> QED BY <2>2, <2>3 DEF Merged
<1>5. Active(o)' /\ Holds(o)' = Holds(o)
  BY <1>2, <1>4 DEF Active, Holds
<1> QED BY <1>2, <1>3, <1>5

(* What a propagation holds that rests at an open saddle is all there is   *)
(* above the saddle.                                                       *)
LEMMA HeldHill ==
    ASSUME Base, Types, PInv, SInv, HInv, NEW h \in propagations, comp[h] = h,
           NEW v, v = Saddle(h), ~Marked(v), v # h, ~Growing(h)
    PROVE  /\ v \in Vert /\ h \in Vert /\ h \in Held(h)
           /\ Held(h) \subseteq Above(v)
           /\ segmentSize[h] = Cardinality(Held(h))
           /\ \A x \in Held(h) : J!Component(request.mesh, x, Above(v)) = Held(h)
           /\ \E u \in Larger(v) : u \in Held(h)
           /\ At(h, v)
<1>1. v \in Vert /\ h \in Vert
  BY SaddleFacts DEF Types
<1>2. \E u \in Larger(v) : Holder(u) = h
  BY DEF PInv, SaddleOf
<1>4. /\ segmentSize[h] = Cardinality(Held(h))
      /\ Held(h) # {} => Marked(h)
      /\ At(h, v)
      /\ Connected(request.mesh, Held(h))
  BY <1>1 DEF SInv, HillOf
<1>5. Larger(v) \subseteq Vert
  BY <1>1, LargerFacts
<1>6. PICK u \in Larger(v) : u \in Held(h)
  BY <1>2, <1>5 DEF Held
<1>7. Marked(h) /\ propagationMask[h] = h /\ h \in Held(h)
  <2>1. Marked(h)
    BY <1>4, <1>6
  <2>2. propagationMask[h] = h
    BY <2>1 DEF HInv, Family
  <2> QED BY <1>1, <2>1, <2>2 DEF Held, Holder, Marked
<1>8. Held(h) \subseteq Vert /\ Held(h) \subseteq Above(v)
  <2>1. \A w \in Held(h) : order[v] < order[w]
    BY <1>4 DEF At
  <2>2. \A w \in Vert : order[w] \in Int
    BY DEF Base
  <2> QED BY <1>1, <2>1, <2>2 DEF Above, Held
<1>9. \A x \in Held(h), y \in Above(v) : y \in Neighbors(x) => y \in Held(h)
  <2> SUFFICES ASSUME NEW x \in Held(h), NEW y \in Above(v), y \in Neighbors(x)
               PROVE  y \in Held(h)
    OBVIOUS
  <2>1. y \in Vert /\ x \in Vert /\ Holder(x) = h /\ order[y] > order[v]
    BY <1>8 DEF Above, Held
  <2>2. x \in Neighbors(y)
    BY <2>1, NeighborFacts DEF Base
  <2>3. Seen(h, y)
    BY <2>1, <2>2 DEF Seen
  <2>4. order[y] \in Int /\ order[v] \in Int
    BY <1>1, <2>1 DEF Base
  <2>5. Marked(y)
    BY <1>4, <2>1, <2>3, <2>4 DEF At
  <2>6. Marked(x)
    BY <1>1, <2>1, VertFacts, HolderFacts DEF Base
  <2>7. CASE y \in Larger(x)
    BY <2>1, <2>6, <2>7 DEF PInv, Closed, Held
  <2>8. CASE y \notin Larger(x)
    <3>1. x \in Larger(y)
      BY <2>1, <2>8, LargerFacts
    <3> QED BY <2>1, <2>5, <3>1 DEF PInv, Closed, Held
  <2> QED BY <2>7, <2>8
<1>10. Above(v) \subseteq Vert
  BY DEF Above
<1>11. \A x \in Held(h) : J!Component(request.mesh, x, Above(v)) = Held(h)
  BY <1>4, <1>8, <1>9, <1>10, ComponentOnly DEF Base
<1> QED BY <1>1, <1>2, <1>4, <1>6, <1>7, <1>8, <1>11

(* What comes together at a saddle ends there.                             *)
LEMMA Whole ==
    ASSUME Base, Types, PInv, SInv, HInv, NEW t \in propagations,
           pc[t] \in {"merge", "unify"}, NEW v, v = cur[t], NEW h \in Holds(t),
           pc[t] = "merge" \/ h # current[t]
    PROVE  /\ v \in Vert /\ h \in propagations /\ h \in Vert /\ comp[h] = h
           /\ Saddle(h) = v /\ ~Marked(v) /\ h \in Held(h)
           /\ Held(h) \subseteq Above(v)
           /\ segmentSize[h] = Cardinality(Held(h))
           /\ \A x \in Held(h) : J!Component(request.mesh, x, Above(v)) = Held(h)
           /\ \E u \in Larger(v) : u \in Held(h)
<1>1. Active(t)
  BY DEF Active, AtWork
<1>2. ~Marked(v) /\ Saddle(h) = v /\ v # h
  BY MetAtSaddle
<1>3. ~Growing(h)
  BY <1>1, NotGrowing
<1>4. h \in propagations /\ comp[h] = h
  BY <1>1, HoldsHills
<1> QED BY <1>2, <1>3, <1>4, HeldHill
-------------------------------------------------------------------------------
(***************************************************************************)
(* A step keeps what the propagations record.                              *)
(***************************************************************************)
(* The records of a propagation that was taken in before.                  *)
LEMMA FrozenKept ==
    ASSUME Base, Types, PInv, SInv, HInv, NEW t \in Vert, StepOf(t),
           NEW p \in propagations, parent[p] # p, parent'[p] = parent[p]
    PROVE  Frozen(p)'
<1>0. PICK c, q : c = current[t] /\ q = parent[p]
  OBVIOUS
<1>1. /\ Frozen(p) /\ comp[p] # p /\ p \in Vert /\ q \in propagations /\ q \in Vert
      /\ comp[q] = comp[p] /\ comp[p] \in propagations /\ Marked(q)
  BY <1>0 DEF HInv, Family, Types
<1>2. /\ t \in propagations /\ Active(t) /\ Vert' = Vert
      /\ c \in propagations /\ c \in Vert /\ comp[c] = c /\ comp'[c] = c
      /\ propagations' = propagations
      /\ UNCHANGED <<request, order>>
  BY <1>0, StepKeeps DEF StepOf
<1>3. p # c
  BY <1>1, <1>2
<1>4. Saddle(p)' = Saddle(p) /\ segmentSize'[p] = segmentSize[p] /\ Saddle(p) \in Vert
  BY <1>0, <1>1, <1>3, SaddleFacts DEF StepOf
<1>5. /\ Above(Saddle(p))' = Above(Saddle(p))
      /\ Larger(Saddle(p))' = Larger(Saddle(p))
  BY <1>2, <1>4 DEF Above, Larger, Neighbors
<1>6. Dome(p)' = Dome(p)
  BY <1>2, <1>5 DEF Dome
<1>7. Dome(p) \subseteq Vert /\ p \in Dome(p)
  <2>1. order[p] \in Int /\ order[Saddle(p)] \in Int
    BY <1>1, <1>4 DEF Base
  <2>2. p \in Above(Saddle(p)) /\ Above(Saddle(p)) \subseteq Vert
    BY <1>1, <2>1 DEF Frozen, Above
  <2>3. p \in Dome(p) /\ Dome(p) \subseteq Above(Saddle(p))
    BY <2>2, ComponentIs DEF Dome, Base
  <2> QED BY <2>2, <2>3
<1>8. comp'[p] = comp'[comp[p]]
  <2>1. comp[comp[p]] = comp[p] /\ comp[p] \in Vert
    BY <1>1 DEF PInv, Representatives, Types
  <2> QED BY <1>1, <2>1 DEF StepOf
<1>9. \A v \in Dome(p) : Marked(v) /\ Holder(v) = comp[p]
  <2> SUFFICES ASSUME NEW v \in Dome(p) PROVE Marked(v) /\ Holder(v) = comp[p]
    OBVIOUS
  <2>1. Holder(v) = comp[p] /\ v \in Vert /\ comp[p] \in Vert
    BY <1>1, <1>7 DEF Frozen, Types
  <2> QED BY <2>1, VertFacts, HolderFacts DEF Base
<1>10. \A v \in Dome(p) : order[v] <= order[p] /\ Holder(v)' = comp'[p]
  BY <1>1, <1>7, <1>8, <1>9, StepKeeps DEF Frozen
<1>11. ASSUME NEW v \in Vert, propagationMask'[v] = p PROVE v \in Dome(p)
  <2>1. p # Null
    BY <1>1, VertFacts DEF Base
  <2>2. Marked(v)'
    BY <1>11, <2>1 DEF Marked
  <2>3. Marked(v) /\ propagationMask[v] = p
    BY <1>0, <1>3, <1>11, <2>2, StepKeeps
  <2> QED BY <1>1, <2>3 DEF Frozen
<1>12. comp'[p] \notin Dome(p)
  <2>1. CASE comp'[p] = comp[p]
    BY <1>1, <2>1 DEF Frozen
  <2>2. CASE comp'[p] = c /\ TakenIn(t, comp[p])
    <3> SUFFICES ASSUME c \in Dome(p) PROVE FALSE
      BY <2>2
    <3>1. Marked(c) /\ Holder(c) = comp[p]
      BY <1>9
    <3>2. propagationMask[c] = c
      BY <1>2, <3>1 DEF HInv, Family
    <3>3. Holder(c) = c
      BY <1>2, <3>1, <3>2 DEF Holder, Marked
    <3> QED BY <1>0, <2>2, <3>1, <3>3 DEF TakenIn
  <2> QED BY <1>0, <1>1, <2>1, <2>2 DEF StepOf
<1>13. ASSUME NEW o \in propagations \cap Dome(p), o # p
       PROVE  parent'[o] \in Dome(p)
  <2>1. CASE parent'[o] = parent[o]
    BY <1>1, <1>13, <2>1 DEF Frozen
  <2>2. CASE TakenIn(t, o)
    <3>1. comp[o] = o
      BY <1>2, <2>2, TakenFacts
    <3>2. Marked(o) /\ Holder(o) = comp[p]
      BY <1>9
    <3>3. propagationMask[o] = o
      BY <3>2 DEF HInv, Family
    <3>4. comp[p] = o
      BY <3>1, <3>2, <3>3 DEF Holder, Marked
    <3> QED BY <1>1, <3>4 DEF Frozen
  <2> QED BY <1>2, <2>1, <2>2 DEF StepOf, Types
<1>14. parent'[q] # q => p \in Dome(q)'
  <2> HAVE parent'[q] # q
  <2>1. CASE parent[q] # q
    <3>1. p \in Dome(q) /\ comp[q] # q
      BY <1>0, <1>1, <2>1 DEF Frozen, HInv, Family
    <3>2. Saddle(q)' = Saddle(q) /\ Saddle(q) \in Vert
      BY <1>0, <1>1, <1>2, <3>1, SaddleFacts DEF StepOf
    <3>3. Dome(q)' = Dome(q)
      BY <1>2, <3>2 DEF Dome, Above
    <3> QED BY <3>1, <3>3
  <2>2. CASE parent[q] = q
    <3>1. TakenIn(t, q)
      BY <1>1, <2>2 DEF StepOf
    <3>2. q \in Holds(t) /\ q # c /\ pc[t] = "unify" /\ comp[q] = q
      BY <1>0, <1>2, <3>1, TakenFacts
    <3>3. PICK v : v = cur[t]
      OBVIOUS
    <3>4. /\ Saddle(q) = v /\ q \in Held(q) /\ v \in Vert
          /\ J!Component(request.mesh, q, Above(v)) = Held(q)
      BY <1>0, <1>2, <3>2, <3>3, Whole
    <3>5. p \in Held(q)
      <4>1. Holder(p) = comp[p]
        BY <1>7, <1>9
      <4> QED BY <1>1, <3>2, <4>1 DEF Held
    <3>6. Saddle(q)' = Saddle(q)
      BY <1>0, <1>1, <1>2, <3>2 DEF StepOf
    <3>7. Dome(q)' = Held(q)
      BY <1>2, <3>4, <3>6 DEF Dome, Above
    <3> QED BY <3>5, <3>7
  <2> QED BY <2>1, <2>2
<1>15. \E w \in Larger(Saddle(p)) :
          q \in J!Component(request.mesh, w, Above(Saddle(p)))
  BY <1>0, <1>1 DEF Frozen
<1>16. order[p] > order[Saddle(p)] /\ order[q] > order[p]
       /\ segmentSize[p] = Cardinality(Dome(p))
  BY <1>0, <1>1 DEF Frozen
<1>17. parent'[p] = q
  BY <1>0
<1> QED
  <2>1. order'[p] > order'[Saddle(p)'] /\ order'[parent'[p]] > order'[p]
        /\ segmentSize'[p] = Cardinality(Dome(p)')
    BY <1>2, <1>4, <1>6, <1>16, <1>17
  <2>2. \A v \in Dome(p)' : order'[v] <= order'[p] /\ Holder(v)' = comp'[p]
    BY <1>2, <1>6, <1>10
  <2>3. \A v \in Vert' : propagationMask'[v] = p => v \in Dome(p)'
    BY <1>2, <1>6, <1>11
  <2>4. \A o \in propagations' \cap Dome(p)' : o # p => parent'[o] \in Dome(p)'
    BY <1>2, <1>6, <1>13
  <2>5. (parent[parent[p]] # parent[p] => p \in Dome(parent[p]))'
    BY <1>14, <1>17 DEF Dome, Above, Saddle
  <2>6. \E w \in Larger(Saddle(p))' :
           parent'[p] \in J!Component(request.mesh, w, Above(Saddle(p)))'
    BY <1>2, <1>5, <1>15, <1>17
  <2>7. Meets(p)'
    BY <1>1, <1>5, <1>6 DEF Frozen, Meets
  <2> QED BY <1>6, <1>12, <2>1, <2>2, <2>3, <2>4, <2>5, <2>6, <2>7 DEF Frozen

(* The records of a propagation that is taken in.                          *)
LEMMA FrozenMade ==
    ASSUME Base, Types, PInv, SInv, HInv, NEW t \in Vert, StepOf(t),
           NEW p \in propagations, TakenIn(t, p), parent'[p] = current[t],
           comp'[p] = current[t]
    PROVE  Frozen(p)' /\ Marked(parent[p])'
<1>0. PICK c, v : c = current[t] /\ v = cur[t]
  OBVIOUS
<1>1. /\ t \in propagations /\ Active(t) /\ Vert' = Vert
      /\ c \in propagations /\ c \in Vert /\ comp[c] = c /\ comp'[c] = c
      /\ propagations' = propagations
      /\ UNCHANGED <<request, order>>
  BY <1>0, StepKeeps DEF StepOf
<1>2. /\ p \in Holds(t) /\ p \in Vert /\ comp[p] = p /\ p # c /\ p \in todo[t]
      /\ pc[t] = "unify"
  BY <1>0, <1>1, TakenFacts DEF TakenIn
<1>3. /\ v \in Vert /\ Saddle(p) = v /\ ~Marked(v) /\ p \in Held(p)
      /\ Held(p) \subseteq Above(v)
      /\ segmentSize[p] = Cardinality(Held(p))
      /\ \A x \in Held(p) : J!Component(request.mesh, x, Above(v)) = Held(p)
  BY <1>0, <1>1, <1>2, Whole
<1>4. Saddle(p)' = v /\ segmentSize'[p] = segmentSize[p]
  BY <1>0, <1>1, <1>2, <1>3 DEF StepOf
<1>5. Dome(p)' = Held(p)
  BY <1>1, <1>3, <1>4 DEF Dome, Above
<1>6. Marked(c) /\ propagationMask[c] = c /\ Holder(c) = c /\ Marked(c)'
  <2>1. Marked(c)
    BY <1>0, <1>1, <1>2, <1>3, UnitedAt DEF Holds
  <2>2. propagationMask[c] = c
    BY <1>1, <2>1 DEF HInv, Family
  <2> QED BY <1>1, <2>1, <2>2, StepKeeps DEF Holder, Marked
<1>7. order'[p] > order'[v] /\ order'[c] > order'[p]
  <2>1. \A u \in Vert : order[u] \in Int
    BY DEF Base
  <2>2. order[p] > order[v]
    BY <1>3 DEF Above
  <2>3. order[p] <= order[c]
    BY <1>0, <1>1, <1>2 DEF HInv
  <2>4. order[p] # order[c]
    BY <1>1, <1>2 DEF Base
  <2> QED BY <1>1, <1>2, <2>1, <2>2, <2>3, <2>4
<1>8. ASSUME NEW x \in Held(p)
      PROVE  /\ order[x] <= order[p] /\ Holder(x)' = c
             /\ Marked(x) /\ x \in Vert /\ Holder(x) = p
  <2>1. x \in Vert /\ Holder(x) = p
    BY DEF Held
  <2>2. Marked(x)
    BY <1>2, <2>1, VertFacts, HolderFacts DEF Base
  <2>3. Holder(x)' = c
    BY <1>0, <2>1, <2>2, StepKeeps
  <2> QED BY <2>1, <2>2, <2>3 DEF HInv
<1>9. ASSUME NEW x \in Vert, propagationMask'[x] = p PROVE x \in Held(p)
  <2>1. p # Null
    BY <1>2, VertFacts DEF Base
  <2>2. Marked(x)'
    BY <1>9, <2>1 DEF Marked
  <2>3. Marked(x) /\ propagationMask[x] = p
    BY <1>2, <1>9, <2>2, StepKeeps
  <2> QED BY <1>2, <2>3 DEF Held, Holder, Marked
<1>10. c \notin Held(p)
  BY <1>2, <1>6 DEF Held
<1>11. ASSUME NEW o \in propagations \cap Held(p), o # p
       PROVE  parent'[o] \in Held(p)
  <2>1. Marked(o) /\ Holder(o) = p /\ o \in Vert
    BY <1>8
  <2>2. propagationMask[o] = o
    BY <2>1 DEF HInv, Family
  <2>3. comp[o] = p
    BY <2>1, <2>2 DEF Holder, Marked
  <2>4. parent[o] \in propagations /\ comp[parent[o]] = p /\ Marked(parent[o])
    BY <1>11, <2>3 DEF HInv, Family
  <2>5. propagationMask[parent[o]] = parent[o] /\ parent[o] \in Vert
    BY <2>4 DEF HInv, Family, Types
  <2>6. parent[o] \in Held(p)
    BY <2>4, <2>5 DEF Held, Holder, Marked
  <2>7. ~TakenIn(t, o)
    BY <1>1, <1>11, <2>3, TakenFacts
  <2> QED BY <2>1, <2>6, <2>7 DEF StepOf
<1>12. parent'[c] = c
  <2>1. ~TakenIn(t, c)
    BY <1>0 DEF TakenIn
  <2>2. parent[c] = c
    BY <1>1 DEF HInv, Family
  <2> QED BY <1>1, <2>1, <2>2 DEF StepOf
<1>13. \E w \in Larger(v) : c \in J!Component(request.mesh, w, Above(v))
  BY <1>0, <1>1, <1>2 DEF HInv
<1>14. Larger(v)' = Larger(v) /\ Above(v)' = Above(v)
  BY <1>3, StepKeeps
<1>15. /\ parent'[p] = c /\ comp'[p] = c
       /\ segmentSize'[p] = Cardinality(Held(p))
  BY <1>0, <1>3, <1>4
<1> QED
  <2>1. order'[p] > order'[Saddle(p)'] /\ order'[parent'[p]] > order'[p]
        /\ segmentSize'[p] = Cardinality(Dome(p)')
    BY <1>4, <1>5, <1>7, <1>15
  <2>2. \A x \in Dome(p)' : order'[x] <= order'[p] /\ Holder(x)' = comp'[p]
    BY <1>1, <1>5, <1>8, <1>15
  <2>3. \A x \in Vert' : propagationMask'[x] = p => x \in Dome(p)'
    BY <1>1, <1>5, <1>9
  <2>4. \A o \in propagations' \cap Dome(p)' : o # p => parent'[o] \in Dome(p)'
    BY <1>1, <1>5, <1>11
  <2>5. parent'[parent'[p]] = parent'[p] /\ comp'[p] \notin Dome(p)'
    BY <1>5, <1>10, <1>12, <1>15
  <2>6. \E w \in Larger(Saddle(p))' :
           parent'[p] \in J!Component(request.mesh, w, Above(Saddle(p)))'
    <3>1. \E w \in Larger(v)' : c \in J!Component(request.mesh, w, Above(v))'
      BY <1>1, <1>13, <1>14
    <3>2. Larger(Saddle(p))' = Larger(v)' /\ Above(Saddle(p))' = Above(v)'
      BY <1>4 DEF Larger, Neighbors, Above
    <3> QED BY <1>15, <3>1, <3>2
  <2>7. Meets(p)'
    <3>1. \E u \in Larger(v) : u \in Held(p)
      BY <1>0, <1>1, <1>2, Whole
    <3>2. Larger(Saddle(p))' = Larger(v)'
      BY <1>4 DEF Larger, Neighbors
    <3> QED BY <1>5, <1>14, <3>1, <3>2 DEF Meets
  <2>8. Frozen(p)'
    BY <2>1, <2>2, <2>3, <2>4, <2>5, <2>6, <2>7 DEF Frozen
  <2>9. Marked(parent[p])'
    BY <1>6, <1>15 DEF Marked
  <2> QED BY <2>8, <2>9

(* A propagation and the ones it has taken in.                             *)
LEMMA FamilyKept ==
    ASSUME Base, Types, PInv, SInv, HInv, NEW t \in Vert, StepOf(t),
           NEW p \in propagations
    PROVE  Family(p)'
<1>0. PICK c, v : c = current[t] /\ v = cur[t]
  OBVIOUS
<1>1. /\ t \in propagations /\ Active(t) /\ Vert' = Vert /\ p \in Vert
      /\ c \in propagations /\ c \in Vert /\ comp[c] = c /\ comp'[c] = c
      /\ propagations' = propagations
  BY <1>0, StepKeeps DEF StepOf, Types
<1>2. /\ parent[p] \in propagations /\ comp[parent[p]] = comp[p]
      /\ comp[p] = p <=> parent[p] = p
      /\ parent[p] # p => Marked(parent[p]) /\ Frozen(p)
      /\ Marked(p) => propagationMask[p] = p
      /\ parent[p] \in Vert
  BY DEF HInv, Family, Types
<1>3. \/ parent'[p] = parent[p]
      \/ TakenIn(t, p) /\ parent'[p] = c /\ comp'[p] = c /\ p # c /\ comp[p] = p
  <2>1. TakenIn(t, p) => p # c /\ comp[p] = p
    BY <1>0, <1>1, TakenFacts
  <2> QED BY <1>0, <1>1, <2>1 DEF StepOf
<1>4. \/ comp'[p] = comp[p]
      \/ /\ TakenIn(t, comp[p]) /\ comp'[p] = c /\ parent'[comp[p]] = c
         /\ comp[p] # c
  BY <1>0, <1>1 DEF StepOf, TakenIn
<1>5. parent'[p] \in propagations /\ comp'[parent'[p]] = comp'[p]
  <2>1. CASE parent'[p] = parent[p]
    BY <1>1, <1>2, <2>1 DEF StepOf
  <2> QED BY <1>1, <1>3, <2>1
<1>6. comp'[p] = p <=> parent'[p] = p
  <2>1. CASE parent'[p] = parent[p] /\ parent[p] # p
    <3>1. comp'[p] # p
      BY <1>1, <1>2, <2>1, RootKept DEF StepOf
    <3> QED BY <2>1, <3>1
  <2>2. CASE parent'[p] = parent[p] /\ parent[p] = p
    BY <1>2, <1>4, <2>2
  <2> QED BY <1>3, <2>1, <2>2
<1>7. parent'[p] # p => Marked(parent[p])' /\ Frozen(p)'
  <2> HAVE parent'[p] # p
  <2>1. CASE parent'[p] = parent[p]
    <3>1. Frozen(p)'
      BY <1>2, <2>1, FrozenKept
    <3>2. Marked(parent[p])'
      <4>1. PICK q : q = parent[p]
        OBVIOUS
      <4>2. Marked(q)'
        BY <1>2, <2>1, <4>1, StepKeeps
      <4> QED BY <2>1, <4>1, <4>2 DEF Marked
    <3> QED BY <3>1, <3>2
  <2>2. CASE TakenIn(t, p) /\ parent'[p] = c /\ comp'[p] = c
    BY <1>0, <2>2, FrozenMade
  <2> QED BY <1>3, <2>1, <2>2
<1>8. Marked(p)' => propagationMask'[p] = p
  <2>1. CASE Marked(p)
    BY <1>1, <1>2, <2>1, StepKeeps
  <2>2. CASE Marked(p)' /\ ~Marked(p)
    <3>1. pc[t] = "mark" /\ p = v /\ propagationMask'[p] = c
      BY <1>0, <1>1, <2>2, StepKeeps
    <3>2. Larger(p) = {}
      BY DEF Types
    <3>3. p = c
      BY <1>0, <1>1, <3>1, <3>2 DEF PInv, TaskOf
    <3> QED BY <3>1, <3>3
  <2> QED BY <2>1, <2>2
<1> QED BY <1>1, <1>5, <1>6, <1>7, <1>8 DEF Family

(* What is marked, lies below the maximum that holds it.                   *)
LEMMA MarksKept ==
    ASSUME Base, Types, PInv, HInv, NEW t \in Vert, StepOf(t), NEW v \in Vert,
           Marked(v)'
    PROVE  /\ segmentation'[v] = propagationMask'[v]
           /\ order'[v] <= order'[Holder(v)']
           /\ v \in Maxima' => v \in propagations'
<1>0. PICK c : c = current[t]
  OBVIOUS
<1>1. /\ t \in propagations /\ Active(t) /\ Vert' = Vert
      /\ c \in propagations /\ c \in Vert
      /\ propagations' = propagations /\ order' = order
      /\ \A x \in Vert : order[x] \in Int
  BY <1>0, StepKeeps DEF StepOf, Base
<1>2. v \in Maxima' => v \in Maxima
  BY StepKeeps DEF Maxima
<1>3. CASE Marked(v)
  <2>1. /\ segmentation'[v] = propagationMask'[v]
        /\ order[v] <= order[Holder(v)]
        /\ v \in Maxima => v \in propagations
    BY <1>3 DEF HInv, StepOf
  <2>2. Holder(v)' = comp'[Holder(v)] /\ Holder(v) \in Vert /\ comp[Holder(v)] = Holder(v)
    BY <1>3, HolderFacts, StepKeeps
  <2>3. CASE comp'[Holder(v)] = Holder(v)
    BY <1>1, <1>2, <2>1, <2>2, <2>3
  <2>4. CASE TakenIn(t, Holder(v)) /\ comp'[Holder(v)] = c
    <3>1. order[Holder(v)] <= order[c]
      BY <1>0, <1>1, <2>4 DEF HInv, TakenIn
    <3> QED BY <1>1, <1>2, <2>1, <2>2, <2>4, <3>1
  <2> QED BY <1>0, <2>2, <2>3, <2>4 DEF StepOf
<1>4. CASE ~Marked(v)
  <2>1. /\ pc[t] = "mark" /\ v = cur[t] /\ Holder(v)' = c
        /\ propagationMask'[v] = c
        /\ segmentation'[v] = c
    BY <1>0, <1>4, StepKeeps DEF StepOf
  <2>2. /\ \A u \in Larger(v) : Holder(u) = c
        /\ Larger(v) = {} => v = c
    BY <1>0, <1>1, <2>1 DEF PInv, TaskOf
  <2>3. order[v] <= order[c]
    <3>1. CASE Larger(v) = {}
      BY <1>1, <2>2, <3>1
    <3>2. CASE Larger(v) # {}
      <4>1. PICK u \in Larger(v) : Holder(u) = c
        BY <2>2, <3>2
      <4>2. u \in Vert /\ order[v] < order[u]
        BY <1>1, StepKeeps DEF Larger
      <4>3. Marked(u)
        BY <1>1, <4>1, <4>2, VertFacts, HolderFacts DEF Base
      <4>4. order[u] <= order[c]
        BY <4>1, <4>2, <4>3 DEF HInv
      <4> QED BY <1>1, <4>2, <4>4
    <3> QED BY <3>1, <3>2
  <2>4. v \in Maxima => v \in propagations
    BY <1>1, <2>2 DEF Maxima
  <2> QED BY <1>1, <1>2, <2>1, <2>3, <2>4
<1> QED BY <1>3, <1>4

(* How a task goes on.                                                     *)
LEMMA TaskStep ==
    ASSUME Base, Types, PInv, HInv, NEW t \in Vert, Propagate(t)
    PROVE  /\ \/ current'[t] = current[t] /\ ~Dominant(t)
              \/ pc[t] = "merge" /\ pc'[t] = "unify" /\ Dominant(t)
           /\ \/ cur'[t] = cur[t] /\ ~Visit(t)
              \/ pc[t] = "pop" /\ pc'[t] \in {"mark", "capture"} /\ Visit(t)
           /\ pc[t] = "merge" => Dominant(t)
           /\ pc[t] = "unify" => /\ pc'[t] \in {"unify", "mark"}
                                 /\ \E q \in Vert : Unify(t, q)
           /\ pc'[t] = "unify" => pc[t] \in {"merge", "unify"}
           /\ pc'[t] = "capture" => Visit(t)
           /\ pc[t] = "mark" => Mark(t)
           /\ pc[t] = "capture" => Capture(t)
<1>1. /\ t \in propagations /\ Active(t) /\ DOMAIN pc = Vert
  BY Frame DEF Base
<1>2. current \in [Vert -> Vert] /\ cur \in [Vert -> Vert]
  BY DEF Types
<1>3. CASE Start(t)
  <2>1. pc[t] = "start" /\ pc'[t] = "pop" /\ current'[t] = current[t] /\ cur'[t] = cur[t]
    BY <1>1, <1>3 DEF Start, Goto, locals
  <2> QED BY <2>1 DEF Dominant, Visit
<1>4. CASE OutOfVertices(t) \/ Abort(t)
  <2>1. pc[t] = "pop" /\ pc'[t] = "stopped" /\ current'[t] = current[t] /\ cur'[t] = cur[t]
    BY <1>1, <1>4 DEF OutOfVertices, Abort, Goto, locals
  <2>2. ~Visit(t)
    BY <1>1, <2>1 DEF Visit, Goto
  <2> QED BY <2>1, <2>2 DEF Dominant
<1>5. CASE Visit(t)
  <2>1. pc[t] = "pop" /\ pc'[t] \in {"mark", "capture"} /\ current'[t] = current[t]
    BY <1>1, <1>5 DEF Visit, Goto
  <2> QED BY <1>5, <2>1 DEF Dominant
<1>6. CASE Capture(t)
  <2>1. /\ pc[t] = "capture" /\ pc'[t] \in {"merge", "stopped"}
        /\ current'[t] = current[t] /\ cur'[t] = cur[t]
    BY <1>1, <1>6 DEF Capture, RegisterWith, Goto, locals
  <2> QED BY <1>6, <2>1 DEF Dominant, Visit
<1>7. CASE Dominant(t)
  <2>1. pc[t] = "merge" /\ pc'[t] = "unify" /\ cur'[t] = cur[t]
    BY <1>1, <1>7 DEF Dominant, Goto
  <2> QED BY <1>7, <2>1 DEF Visit
<1>8. ASSUME NEW q \in Vert, Unify(t, q)
      PROVE  /\ pc[t] = "unify" /\ pc'[t] \in {"unify", "mark"}
             /\ current'[t] = current[t] /\ cur'[t] = cur[t]
  BY <1>1, <1>8 DEF Unify, Goto
<1>9. CASE \E q \in Vert : Unify(t, q)
  <2>1. /\ pc[t] = "unify" /\ pc'[t] \in {"unify", "mark"}
        /\ current'[t] = current[t] /\ cur'[t] = cur[t]
    BY <1>8, <1>9
  <2> QED BY <1>9, <2>1 DEF Dominant, Visit
<1>10. CASE Mark(t)
  <2>1. pc[t] = "mark" /\ pc'[t] = "pop" /\ current'[t] = current[t] /\ cur'[t] = cur[t]
    BY <1>1, <1>10 DEF Mark, Goto, locals
  <2> QED BY <1>10, <2>1 DEF Dominant, Visit
<1> QED BY <1>3, <1>4, <1>5, <1>6, <1>7, <1>9, <1>10 DEF Propagate

(* Nobody takes up what ended at a marked vertex.                          *)
LEMMA IdleKept ==
    ASSUME Base, Types, PInv, HInv, PInv', NEW t \in Vert, Propagate(t),
           NEW p \in propagations, Marked(Saddle(p))',
           \A o \in propagations \ {t} : Active(o) => p # current[o],
           p # current[t] \/ pc'[t] = "stopped"
    PROVE  Idle(p)'
<1>1. /\ StepOf(t) /\ propagations' = propagations /\ t \in propagations
  BY StepFacts DEF StepOf
<1> SUFFICES ASSUME NEW o \in propagations, Active(o)', p \in Holds(o)'
             PROVE  FALSE
  BY <1>1 DEF Idle
<1>2. TaskOf(o)'
  BY <1>1 DEF PInv
<1>3. CASE pc'[o] \in {"merge", "unify"}
  <2>1. PICK s, v : s = Saddle(p)' /\ v = cur'[o]
    OBVIOUS
  <2>2. s = v /\ ~Marked(v)'
    BY <1>2, <1>3, <2>1 DEF TaskOf, Marked
  <2> QED BY <2>1, <2>2 DEF Marked
<1>4. CASE pc'[o] \notin {"merge", "unify"}
  <2>1. p = current'[o]
    BY <1>4 DEF Holds
  <2>2. CASE o = t
    BY <1>4, <2>1, <2>2, TaskStep DEF Active, AtWork
  <2>3. CASE o # t
    <3>1. pc'[o] = pc[o] /\ current'[o] = current[o]
      BY <1>1, <2>3 DEF StepOf, OthersStill
    <3>2. Active(o)
      BY <3>1 DEF Active
    <3> QED BY <2>1, <2>3, <3>1, <3>2
  <2> QED BY <2>2, <2>3
<1> QED BY <1>3, <1>4

(* The scalars are numbers.                                                *)
Field == scalars \in [Vert -> Int]

(* A propagation that gave up, stays where it is.                          *)
LEMMA SunkKept ==
    ASSUME Base, Types, PInv, SInv, HInv, PInv', Field, NEW t \in Vert,
           Propagate(t), ~Abort(t), NEW p \in propagations
    PROVE  Sunk(p)'
<1>0. PICK c : c = current[t]
  OBVIOUS
<1>1. /\ StepOf(t) /\ t \in propagations /\ Active(t) /\ Vert' = Vert
      /\ propagations' = propagations /\ p \in Vert /\ c \in Vert
      /\ UNCHANGED <<request, order, scalars>>
  BY <1>0, StepFacts, StepKeeps DEF StepOf, Types
<1> SUFFICES ASSUME aborted'[p]
             PROVE  /\ Persistent' /\ comp'[p] = p /\ Marked(Saddle(p))'
                    /\ Idle(p)'
                    /\ \E v \in Vert :
                          /\ ~Marked(v)' /\ Bounds(p, v)'
                          /\ \E u \in Larger(v)' : Holder(u)' = p
                          /\ Dist(scalars'[p], scalars'[v]) > request'.threshold
  BY <1>1 DEF Sunk
<1>2. aborted[p]
  BY <1>1 DEF StepOf
<1>3. /\ Persistent /\ comp[p] = p /\ Marked(Saddle(p)) /\ Idle(p)
  BY <1>2 DEF HInv, Sunk
<1>4. PICK v \in Vert : /\ ~Marked(v) /\ Bounds(p, v)
                        /\ \E u \in Larger(v) : Holder(u) = p
                        /\ Dist(scalars[p], scalars[v]) > request.threshold
  BY <1>2 DEF HInv, Sunk
<1>5. p \notin Holds(t)
  BY <1>1, <1>3 DEF Idle
<1>6. /\ comp'[p] = p /\ Saddle(p)' = Saddle(p)
      /\ \A u \in Vert : Holder(u)' = p <=> Holder(u) = p
      /\ Held(p)' = Held(p)
  BY <1>1, <1>3, <1>5, HeldKept
<1>7. p # c
  BY <1>0, <1>1, <1>5, ActiveFacts
<1>8. ~Marked(v)'
  <2> SUFFICES ASSUME Marked(v)' PROVE FALSE
    OBVIOUS
  <2>1. pc[t] = "mark" /\ v = cur[t]
    BY <1>1, <1>4, StepKeeps
  <2>2. \A u \in Larger(v) : Holder(u) = c
    BY <1>0, <1>1, <2>1 DEF PInv, TaskOf
  <2> QED BY <1>4, <1>7, <2>2
<1>9. Marked(Saddle(p))'
  <2>1. Marked(Saddle(p)) /\ Saddle(p) \in Vert
    BY <1>1, <1>3, SaddleFacts
  <2>2. propagationMask'[Saddle(p)] # Null
    BY <1>1, <2>1, StepKeeps DEF Marked
  <2> QED BY <1>6, <2>2 DEF Marked
<1>10. Idle(p)'
  <2>1. \A o \in propagations \ {t} : Active(o) => p # current[o]
    BY <1>3 DEF Idle, Holds
  <2> QED BY <1>0, <1>7, <1>9, <2>1, IdleKept
<1>11. Bounds(p, v)'
  <2>1. Bounds(p, v) /\ Above(v)' = Above(v) /\ order' = order
    BY <1>1, <1>4, StepKeeps
  <2>2. \A x \in Held(p) : Neighbors(x)' = Neighbors(x)
    BY <1>1, StepKeeps DEF Held
  <2> QED BY <1>6, <2>1, <2>2 DEF Bounds
<1>12. \E u \in Larger(v)' : Holder(u)' = p
  <2>1. Larger(v)' = Larger(v) /\ Larger(v) \subseteq Vert
    BY <1>1, StepKeeps
  <2> QED BY <1>4, <1>6, <2>1
<1>13. Persistent'
  BY <1>1, <1>3 DEF Persistent
<1> QED BY <1>1, <1>4, <1>6, <1>8, <1>9, <1>10, <1>11, <1>12, <1>13

(* A step that gives up leaves the next vertex open.                       *)
LEMMA AbortSinks ==
    ASSUME Base, Types, PInv, SInv, HInv, PInv', Field, NEW t \in Vert,
           Abort(t), NEW p \in propagations
    PROVE  Sunk(p)'
<1>0. PICK c, v : c = current[t] /\ v = Highest(Ahead(t))
  OBVIOUS
<1>1. /\ Propagate(t) /\ StepOf(t) /\ t \in propagations /\ Active(t)
      /\ Vert' = Vert /\ propagations' = propagations
      /\ c \in Vert /\ c \in propagations /\ comp[c] = c
      /\ UNCHANGED <<request, order, scalars>>
  <2>1. Propagate(t)
    BY DEF Propagate
  <2> QED BY <1>0, <2>1, StepFacts, StepKeeps DEF StepOf
<1>2. /\ UNCHANGED <<propagationMask, comp, criticalPoints>>
      /\ pc[t] = "pop" /\ pc' = [pc EXCEPT ![t] = "stopped"]
      /\ Ahead(t) # {} /\ Exceeds(t, v)
  BY <1>0 DEF Abort, Goto
<1>3. /\ \A u \in Vert : /\ Holder(u)' = Holder(u)
                         /\ Marked(u)' <=> Marked(u)
                         /\ Neighbors(u)' = Neighbors(u)
                         /\ Larger(u)' = Larger(u)
                         /\ Above(u)' = Above(u)
                         /\ Saddle(u)' = Saddle(u)
      /\ \A q : Held(q)' = Held(q)
      /\ Persistent' <=> Persistent
  BY <1>1, <1>2 DEF Holder, Marked, Neighbors, Larger, Above, Saddle, Held, Persistent
<1>4. aborted'[p] => aborted[p] \/ p = c
  BY <1>0, <1>1 DEF StepOf, Types
<1>5. CASE p # c
  <2> SUFFICES ASSUME aborted'[p]
               PROVE  /\ Persistent' /\ comp'[p] = p /\ Marked(Saddle(p))'
                      /\ Idle(p)'
                      /\ \E x \in Vert :
                            /\ ~Marked(x)' /\ Bounds(p, x)'
                            /\ \E u \in Larger(x)' : Holder(u)' = p
                            /\ Dist(scalars'[p], scalars'[x]) > request'.threshold
    BY <1>1 DEF Sunk
  <2>1. /\ Persistent /\ comp[p] = p /\ Marked(Saddle(p)) /\ Idle(p)
    BY <1>4, <1>5 DEF HInv, Sunk
  <2>2. PICK x \in Vert : /\ ~Marked(x) /\ Bounds(p, x)
                          /\ \E u \in Larger(x) : Holder(u) = p
                          /\ Dist(scalars[p], scalars[x]) > request.threshold
    BY <1>4, <1>5 DEF HInv, Sunk
  <2>3. Marked(Saddle(p))'
    BY <1>2, <2>1 DEF Marked, Saddle
  <2>4. \A o \in propagations \ {t} : Active(o) => p # current[o]
    BY <2>1 DEF Idle, Holds
  <2>5. Idle(p)'
    BY <1>0, <1>1, <1>5, <2>3, <2>4, IdleKept
  <2>6. Bounds(p, x)'
    <3>1. Held(p) \subseteq Vert
      BY DEF Held
    <3> QED BY <1>1, <1>3, <2>2, <3>1 DEF Bounds
  <2>7. Larger(x) \subseteq Vert
    BY LargerFacts
  <2>8. \E u \in Larger(x)' : Holder(u)' = p
    BY <1>3, <2>2, <2>7
  <2> QED BY <1>1, <1>2, <1>3, <2>1, <2>2, <2>3, <2>5, <2>6, <2>8
<1>6. CASE p = c
  <2>1. v \in queue[c] /\ ~Marked(v) /\ v \in Vert /\ v \in Ahead(t)
        /\ Ahead(t) \subseteq Vert /\ \A x \in Ahead(t) : order[x] <= order[v]
    <3>1. Ahead(t) \subseteq Vert
      BY <1>0, <1>1 DEF Ahead, Types
    <3> QED BY <1>0, <1>2, <3>1, HighestFacts, AheadFacts
  <2>2. Persistent /\ Dist(scalars[c], scalars[v]) > request.threshold
    BY <1>0, <1>2 DEF Exceeds
  <2>3. v # c
    <3> SUFFICES ASSUME v = c PROVE FALSE
      OBVIOUS
    <3>1. scalars[c] \in Int /\ request.threshold \in Nat
      BY <1>1, <2>2, RequestsAssumption DEF Field, Base, Persistent
    <3>2. Dist(scalars[c], scalars[c]) = 0
      BY <3>1 DEF Dist
    <3> QED BY <2>2, <3>1, <3>2
  <2>4. Marked(Saddle(c)) /\ \E u \in Larger(v) : Holder(u) = c
    BY <1>0, <1>1, <1>2, <2>1, <2>3, PoppedFacts
  <2>5. Ready(c)
    BY <1>0, <1>1, <1>2 DEF SInv, SweepOf, Types
  <2>6. Bounds(c, v)
    <3>1. \A w \in Held(c) : order[v] < order[w]
      BY <2>1, <2>5 DEF Ready
    <3>2. ASSUME NEW x \in Held(c), NEW y \in Above(v), y \in Neighbors(x)
          PROVE  y \in Held(c)
      <4>1. /\ y \in Vert /\ x \in Vert /\ Holder(x) = c /\ order[y] > order[v]
            /\ order[y] \in Int /\ order[v] \in Int
        BY <2>1, <3>2 DEF Above, Held, Base
      <4>2. x \in Neighbors(y)
        BY <3>2, <4>1, NeighborFacts DEF Base
      <4>3. Seen(c, y)
        BY <4>1, <4>2 DEF Seen
      <4>4. Marked(y)
        BY <1>0, <2>1, <2>5, <4>1, <4>3 DEF Ready, Ahead, Marked
      <4>5. Marked(x)
        BY <1>1, <4>1, VertFacts, HolderFacts DEF Base
      <4>6. CASE y \in Larger(x)
        BY <4>1, <4>5, <4>6 DEF PInv, Closed, Held
      <4>7. CASE y \notin Larger(x)
        <5>1. x \in Larger(y)
          BY <3>2, <4>1, <4>7, LargerFacts
        <5> QED BY <4>1, <4>4, <5>1 DEF PInv, Closed, Held
      <4> QED BY <4>6, <4>7
    <3> QED BY <3>1, <3>2 DEF Bounds
  <2>7. Bounds(c, v)'
    <3>1. Held(c) \subseteq Vert
      BY DEF Held
    <3> QED BY <1>1, <1>3, <2>1, <2>6, <3>1 DEF Bounds
  <2>8. Marked(Saddle(c))'
    BY <1>2, <2>4 DEF Marked, Saddle
  <2>9. \A o \in propagations \ {t} : Active(o) => c # current[o]
    BY <1>0, <1>1, Sole
  <2>10. pc'[t] = "stopped"
    BY <1>1, <1>2 DEF Base
  <2>11. Idle(c)'
    BY <1>1, <2>8, <2>9, <2>10, IdleKept
  <2>12. \E u \in Larger(v)' : Holder(u)' = c
    <3>1. Larger(v) \subseteq Vert
      BY <2>1, LargerFacts
    <3> QED BY <1>3, <2>1, <2>4, <3>1
  <2>13. /\ Persistent' /\ comp'[c] = c /\ ~Marked(v)'
         /\ Dist(scalars'[c], scalars'[v]) > request'.threshold
    BY <1>1, <1>2, <1>3, <2>1, <2>2
  <2> QED BY <1>1, <1>6, <2>1, <2>7, <2>8, <2>11, <2>12, <2>13 DEF Sunk
<1> QED BY <1>5, <1>6

(* A propagation that rests, does so at an open saddle.                    *)
LEMMA RestingKept ==
    ASSUME Base, Types, PInv, SInv, HInv, PInv', NEW t \in Vert,
           Propagate(t), NEW p \in propagations
    PROVE  Resting(p)'
<1>0. PICK c : c = current[t]
  OBVIOUS
<1>1. /\ StepOf(t) /\ t \in propagations /\ Active(t) /\ Vert' = Vert
      /\ propagations' = propagations /\ p \in Vert /\ c \in Vert
      /\ comp[c] = c /\ c \in Holds(t)
      /\ UNCHANGED <<request, order>>
  BY <1>0, StepFacts, StepKeeps, ActiveFacts DEF StepOf, Types
<1> SUFFICES ASSUME status', comp'[p] = p, ~aborted'[p], Idle(p)'
             PROVE  ~Marked(Saddle(p))' /\ Saddle(p)' # p
  BY DEF Resting
<1>2. /\ status \/ OutOfVertices(t)
      /\ comp[p] = p /\ (~aborted[p] \/ Abort(t))
      /\ aborted' = aborted \/ Abort(t)
  <2>1. comp[p] = p
    BY <1>1, RootKept
  <2>2. status' = status \/ OutOfVertices(t)
    BY <1>1 DEF StepOf
  <2>3. aborted' = aborted \/ Abort(t)
    BY DEF Propagate, Start, OutOfVertices, Visit, Capture, RegisterWith,
           Dominant, Unify, Mark, props
  <2>4. status' = status => status
    OBVIOUS
  <2> QED BY <2>1, <2>2, <2>3, <2>4
<1>3. ~OutOfVertices(t)
  BY DEF OutOfVertices
<1>4. ~aborted[p] \/ p = c
  BY <1>0, <1>1, <1>2 DEF StepOf
<1>5. ~(Abort(t) /\ p = c)
  BY <1>0, <1>1 DEF Abort, HInv
<1>6. ~aborted[p]
  <2>1. aborted'[p] = aborted[p]
    BY <1>0, <1>1, <1>5 DEF StepOf
  <2> QED BY <2>1
<1>7. CASE p \notin Holds(t)
  <2>1. Idle(p)
    <3> SUFFICES ASSUME NEW o \in propagations, Active(o), p \in Holds(o)
                 PROVE  FALSE
      BY DEF Idle
    <3>1. o # t
      BY <1>7
    <3>2. Active(o)' /\ Holds(o)' = Holds(o)
      BY <1>1, <3>1, OthersHold
    <3> QED BY <1>1, <3>2 DEF Idle
  <2>2. ~Marked(Saddle(p)) /\ Saddle(p) # p
    BY <1>2, <1>3, <1>6, <2>1 DEF HInv, Resting
  <2>3. Saddle(p)' = Saddle(p) /\ Saddle(p) \in Vert
    BY <1>1, <1>2, <1>7, HeldKept, SaddleFacts
  <2>4. PICK s : s = Saddle(p)
    OBVIOUS
  <2>5. ~Marked(s)'
    <3> SUFFICES ASSUME Marked(s)' PROVE FALSE
      OBVIOUS
    <3>1. pc[t] = "mark" /\ s = cur[t]
      BY <1>1, <2>2, <2>3, <2>4, StepKeeps
    <3>2. \A u \in Larger(s) : Holder(u) = c
      BY <1>0, <1>1, <3>1 DEF PInv, TaskOf
    <3>3. \E u \in Larger(s) : Holder(u) = p
      BY <1>2, <2>2, <2>4 DEF PInv, SaddleOf
    <3> QED BY <1>1, <1>7, <3>2, <3>3
  <2> QED BY <2>2, <2>3, <2>4, <2>5 DEF Marked
<1>8. CASE p \in Holds(t)
  <2>1. ~(Active(t)' /\ p \in Holds(t)')
    BY <1>1 DEF Idle
  <2>2. DOMAIN pc = Vert /\ current \in [Vert -> Vert]
    BY DEF Base, Types
  <2>3. CASE Start(t) \/ Visit(t) \/ Mark(t)
    <3>1. /\ pc[t] \in {"start", "pop", "mark"}
          /\ pc'[t] \in {"pop", "mark", "capture"} /\ current'[t] = current[t]
      BY <1>1, <2>2, <2>3 DEF Start, Visit, Mark, Goto, locals
    <3>2. Active(t)' /\ p \in Holds(t)'
      BY <1>0, <1>8, <3>1 DEF Active, AtWork, Holds
    <3> QED BY <2>1, <3>2
  <2>4. CASE Abort(t)
    <3>1. p = c
      BY <1>0, <1>8, <2>4 DEF Holds, Abort
    <3> QED BY <1>5, <2>4, <3>1
  <2>5. CASE Capture(t)
    <3>1. /\ pc[t] = "capture" /\ current'[t] = c /\ p = c
          /\ pc'[t] \in {"merge", "stopped"}
          /\ propagationMask' = propagationMask
          /\ criticalPoints' = [criticalPoints EXCEPT ![c] = Append(@, cur[t])]
      BY <1>0, <1>1, <1>8, <2>2, <2>5
         DEF Capture, RegisterWith, Goto, locals, Holds
    <3>2. ~Marked(cur[t]) /\ Own(t) # {} /\ cur[t] \in Vert
      BY <1>1, <3>1 DEF PInv, TaskOf, Types
    <3>3. Larger(cur[t]) # {} /\ Larger(c) = {}
      BY <1>0, <1>1, <3>1, <3>2 DEF Own, Types
    <3>4. PICK v : v = cur[t]
      OBVIOUS
    <3>5. v # c
      BY <3>3, <3>4
    <3>6. Saddle(c)' = v
      <4>1. /\ criticalPoints[c] \in Seq(Vert)
            /\ criticalPoints'[c] = Append(criticalPoints[c], v)
        BY <1>1, <3>1, <3>4 DEF Types
      <4> QED BY <3>2, <3>4, <4>1 DEF Saddle, Last
    <3> QED BY <3>1, <3>2, <3>4, <3>5, <3>6 DEF Marked
  <2>6. CASE Dominant(t)
    <3>1. /\ pc[t] = "merge" /\ pc'[t] = "unify"
          /\ todo'[t] = {Holder(u) : u \in Neighbors(cur[t])} \ {Null}
      BY <1>1, <2>2, <2>6 DEF Dominant, Goto, Types
    <3>2. todo'[t] = Merged(t)
      BY <1>1, <3>1, MetFacts
    <3>3. \E u \in Larger(cur[t]) : Holder(u) = p
      BY <1>1, <1>8, <3>1, MetAtSaddle
    <3>4. p \in Holds(t)'
      BY <3>1, <3>2, <3>3 DEF Merged, Holds
    <3>5. Active(t)'
      BY <3>1 DEF Active, AtWork
    <3> QED BY <2>1, <3>4, <3>5
  <2>7. ASSUME NEW q \in Vert, Unify(t, q) PROVE FALSE
    <3>1. /\ pc[t] = "unify" /\ q \in todo[t] /\ current'[t] = c
          /\ todo'[t] = todo[t] \ {q}
          /\ pc'[t] = IF todo[t] = {q} THEN "mark" ELSE "unify"
      BY <1>0, <1>1, <2>2, <2>7 DEF Unify, Goto, Types
    <3>2. Active(t)'
      BY <3>1 DEF Active, AtWork
    <3>3. p # c
      BY <2>1, <3>1, <3>2 DEF Holds
    <3>4. p \in todo[t]
      BY <1>0, <1>8, <3>1, <3>3 DEF Holds
    <3>5. p = q
      BY <2>1, <3>1, <3>2, <3>4 DEF Holds
    <3>6. comp' = [o \in Vert |-> IF comp[o] = q THEN c ELSE comp[o]]
      BY <1>0, <2>7, <3>3, <3>5 DEF Unify
    <3> QED BY <1>1, <1>2, <3>3, <3>5, <3>6
  <2> QED BY <1>3, <2>3, <2>4, <2>5, <2>6, <2>7 DEF Propagate
<1> QED BY <1>7, <1>8

(* The last to come to a saddle goes on from there.                        *)
LEMMA ClaimedKept ==
    ASSUME Base, Types, PInv, SInv, HInv, PInv', NEW t \in Vert,
           Propagate(t), NEW v \in Vert
    PROVE  Claimed(v)'
<1>0. PICK c : c = current[t]
  OBVIOUS
<1>1. /\ StepOf(t) /\ t \in propagations /\ Active(t) /\ Vert' = Vert
      /\ propagations' = propagations /\ c \in Vert /\ comp[c] = c
      /\ Larger(v)' = Larger(v) /\ Larger(v) \subseteq Vert
  BY <1>0, StepFacts, StepKeeps DEF StepOf
<1> SUFFICES ASSUME ~Marked(v)', Larger(v) # {}, Shares(v)' = Larger(v)
             PROVE  \E o \in propagations : /\ pc'[o] \in {"merge", "unify", "mark"}
                                            /\ cur'[o] = v
  BY <1>1 DEF Claimed
<1>2. ~Marked(v)
  BY <1>1, StepKeeps
<1>3. CASE Shares(v) = Larger(v)
  <2>1. PICK o \in propagations : pc[o] \in {"merge", "unify", "mark"} /\ cur[o] = v
    BY <1>2, <1>3 DEF HInv, Claimed
  <2>2. CASE o # t
    <3>1. pc'[o] = pc[o] /\ cur'[o] = cur[o]
      BY <1>1, <2>2 DEF StepOf, OthersStill
    <3> QED BY <2>1, <3>1
  <2>3. CASE o = t
    <3>1. pc[t] # "mark"
      <4> SUFFICES ASSUME pc[t] = "mark" PROVE FALSE
        OBVIOUS
      <4>1. Mark(t)
        BY TaskStep
      <4>2. propagationMask' = [propagationMask EXCEPT ![v] = c]
        BY <1>0, <2>1, <2>3, <4>1 DEF Mark
      <4>3. propagationMask'[v] = c /\ c # Null
        BY <1>1, <4>2, VertFacts DEF Types, Base
      <4> QED BY <4>3 DEF Marked
    <3>2. pc'[t] \in {"unify", "mark"} /\ cur'[t] = cur[t]
      BY <2>1, <2>3, <3>1, TaskStep
    <3> QED BY <1>1, <2>1, <2>3, <3>2
  <2> QED BY <2>2, <2>3
<1>4. CASE Shares(v) # Larger(v)
  <2>1. PICK u \in Larger(v) : u \notin Shares(v) /\ u \in Shares(v)'
    <3>1. Shares(v) \subseteq Larger(v)
      BY DEF Shares
    <3> QED BY <1>4, <3>1
  <2>2. PICK h : h = Holder(u)'
    OBVIOUS
  <2>3. u \in Vert /\ Marked(u)' /\ Saddle(h)' = v
    BY <1>1, <2>1, <2>2 DEF Shares, Saddle
  <2>4. Marked(u)
    <3> SUFFICES ASSUME ~Marked(u) PROVE FALSE
      OBVIOUS
    <3>1. pc[t] = "mark" /\ u = cur[t] /\ h = c
      BY <1>0, <1>1, <2>2, <2>3, StepKeeps
    <3>2. Saddle(c) = v
      BY <1>0, <1>1, <2>3, <3>1 DEF StepOf
    <3>3. Saddle(c) = cur[t]
      BY <1>0, <1>1, <1>2, <3>1, <3>2 DEF PInv, TaskOf
    <3> QED BY <1>1, <2>1, <3>1, <3>2, <3>3, LargerFacts
  <2>5. PICK g : g = Holder(u)
    OBVIOUS
  <2>6. /\ g \in Vert /\ comp[g] = g /\ h = comp'[g] /\ Saddle(g) # v
        /\ g \in propagations
    <3>1. g \in Vert /\ comp[g] = g /\ h = comp'[g] /\ g \in propagations
      BY <1>1, <2>2, <2>3, <2>4, <2>5, HolderFacts, StepKeeps
    <3> QED BY <2>1, <2>4, <2>5, <3>1 DEF Shares
  <2>7. h = g
    <3> SUFFICES ASSUME h # g PROVE FALSE
      OBVIOUS
    <3>1. TakenIn(t, g) /\ h = c
      BY <1>0, <1>1, <2>6 DEF StepOf
    <3>2. g \in Holds(t) /\ c \in Holds(t) /\ pc[t] = "unify"
      BY <1>0, <1>1, <3>1, TakenFacts, ActiveFacts
    <3>3. Saddle(g) = cur[t] /\ Saddle(c) = cur[t]
      BY <1>1, <3>2, MetAtSaddle
    <3>4. Saddle(c)' = Saddle(c)
      BY <1>1, <3>2 DEF StepOf
    <3> QED BY <2>3, <2>6, <3>1, <3>3, <3>4
  <2>8. pc[t] = "capture" /\ g = c /\ cur[t] = v
    BY <1>0, <1>1, <2>3, <2>6, <2>7 DEF StepOf
  <2>9. Capture(t)
    BY <2>8, TaskStep
  <2>10. /\ segmentation' = [segmentation EXCEPT
                                ![v] = segmentation[v] - registered[t]]
         /\ cur'[t] = v
         /\ pc'[t] = IF segmentation[v] - registered[t]
                           = -(Cardinality(Larger(v)) - 0) - 1
                     THEN "merge" ELSE "stopped"
    BY <1>1, <2>8, <2>9 DEF Capture, RegisterWith, Goto, locals, Base
  <2>11. segmentation'[v] = -1 - Cardinality(Larger(v))
    <3>1. CountOf(v)'
      BY <1>1 DEF PInv
    <3>2. Shares(v)' = Larger(v)
      OBVIOUS
    <3> QED BY <3>1, <3>2 DEF CountOf
  <2>12. segmentation[v] - registered[t] = -1 - Cardinality(Larger(v))
    BY <2>10, <2>11 DEF Types
  <2>13. Cardinality(Larger(v)) \in Int
    BY LargerFacts, FS_CardinalityType
  <2>14. -(Cardinality(Larger(v)) - 0) - 1 = -1 - Cardinality(Larger(v))
    BY <2>13
  <2>15. pc'[t] = "merge"
    BY <2>10, <2>12, <2>14
  <2> QED BY <1>1, <2>10, <2>15
<1> QED BY <1>3, <1>4

(* No vertex is visited that lies too far down.                            *)
LEMMA LowKept ==
    ASSUME Base, Types, PInv, HInv, Field, NEW t \in Vert, Propagate(t)
    PROVE  /\ \A p \in propagations : Saddle(p)' # p => Low(p, Saddle(p))'
           /\ \A o \in propagations : pc'[o] = "capture" => Low(current[o], cur[o])'
<1>0. PICK c, v : c = current[t] /\ v = cur[t]
  OBVIOUS
<1>1. /\ StepOf(t) /\ t \in propagations /\ Active(t)
      /\ propagations \subseteq Vert /\ c \in Vert /\ v \in Vert
      /\ UNCHANGED <<request, scalars>>
  BY <1>0, StepFacts, StepKeeps, ActiveFacts DEF StepOf
<1>2. \A a, b : Low(a, b)' <=> Low(a, b)
  BY <1>1 DEF Low, Persistent
<1>3. ASSUME NEW p \in propagations, Saddle(p)' # p PROVE Low(p, Saddle(p))'
  <2>1. PICK s : s = Saddle(p)'
    OBVIOUS
  <2>2. Low(p, s)
    <3>1. CASE Saddle(p) = s
      <4>1. Low(p, Saddle(p))
        BY <1>3, <2>1, <3>1 DEF HInv
      <4> QED BY <3>1, <4>1
    <3>2. CASE pc[t] = "capture" /\ p = c /\ s = v
      BY <1>0, <1>1, <3>2 DEF HInv
    <3> QED BY <1>0, <1>1, <2>1, <3>1, <3>2 DEF StepOf
  <2>3. Low(p, s)'
    BY <1>2, <2>2
  <2> QED BY <2>1, <2>3 DEF Low
<1>4. ASSUME NEW o \in propagations, pc'[o] = "capture"
      PROVE  Low(current[o], cur[o])'
  <2>1. PICK a, b : a = current'[o] /\ b = cur'[o]
    OBVIOUS
  <2>2. Low(a, b)
    <3>1. CASE o # t
      <4>1. pc[o] = "capture" /\ a = current[o] /\ b = cur[o]
        BY <1>1, <1>4, <2>1, <3>1 DEF StepOf, OthersStill
      <4> QED BY <4>1 DEF HInv
    <3>2. CASE o = t
      <4>1. Visit(t)
        BY <1>4, <3>2, TaskStep
      <4>2. PICK x : x = Highest(Ahead(t))
        OBVIOUS
      <4>3. /\ a = c /\ b = x /\ ~Exceeds(t, x) /\ x \in Vert
        BY <1>0, <1>1, <2>1, <3>2, <4>1, <4>2, AheadFacts DEF Visit, Types
      <4>4. Persistent => request.threshold \in Nat
        BY RequestsAssumption DEF Base, Persistent
      <4>5. Dist(scalars[c], scalars[x]) \in Int
        <5>1. scalars[c] \in Int /\ scalars[x] \in Int
          BY <1>1, <4>3 DEF Field
        <5> QED BY <5>1 DEF Dist
      <4> QED BY <1>0, <4>3, <4>4, <4>5 DEF Exceeds, Low
    <3> QED BY <3>1, <3>2
  <2>3. Low(a, b)'
    BY <1>2, <2>2
  <2> QED BY <2>1, <2>3 DEF Low
<1> QED BY <1>3, <1>4

(* The one that takes the others in is the highest.                        *)
LEMMA UnifyKept ==
    ASSUME Base, Types, PInv, SInv, HInv, NEW t \in Vert, Propagate(t),
           NEW o \in propagations, pc'[o] = "unify"
    PROVE  /\ \A p \in todo'[o] : order'[p] <= order'[current'[o]]
           /\ (\E w \in Larger(cur[o]) :
                  current[o] \in J!Component(request.mesh, w, Above(cur[o])))'
<1>1. /\ StepOf(t) /\ t \in propagations /\ Active(t) /\ Vert' = Vert
      /\ UNCHANGED <<request, order>>
  BY StepFacts, StepKeeps DEF StepOf
<1>2. ASSUME NEW c, NEW v \in Vert,
             \E w \in Larger(v) : c \in J!Component(request.mesh, w, Above(v))
      PROVE  (\E w \in Larger(v) :
                  c \in J!Component(request.mesh, w, Above(v)))'
  BY <1>1, <1>2 DEF Larger, Neighbors, Above
<1>3. ASSUME NEW c, NEW v \in Vert, current'[o] = c, cur'[o] = v,
             \A p \in todo'[o] : order[p] <= order[c],
             \E w \in Larger(v) : c \in J!Component(request.mesh, w, Above(v))
      PROVE  /\ \A p \in todo'[o] : order'[p] <= order'[current'[o]]
             /\ (\E w \in Larger(cur[o]) :
                    current[o] \in J!Component(request.mesh, w, Above(cur[o])))'
  <2>1. (\E w \in Larger(v) : c \in J!Component(request.mesh, w, Above(v)))'
    BY <1>2, <1>3
  <2>2. Larger(cur[o])' = Larger(v)' /\ Above(cur[o])' = Above(v)'
    BY <1>3 DEF Larger, Neighbors, Above
  <2> QED BY <1>1, <1>3, <2>1, <2>2
<1>4. cur[o] \in Vert /\ cur[t] \in Vert
  BY <1>1 DEF Types
<1>5. CASE o # t
  <2>1. /\ pc[o] = "unify" /\ current'[o] = current[o] /\ cur'[o] = cur[o]
        /\ todo'[o] = todo[o]
    BY <1>1, <1>5 DEF StepOf, OthersStill
  <2>2. PICK c, v : c = current[o] /\ v = cur[o]
    OBVIOUS
  <2>3. /\ \A p \in todo[o] : order[p] <= order[c]
        /\ \E w \in Larger(v) : c \in J!Component(request.mesh, w, Above(v))
    BY <2>1, <2>2 DEF HInv
  <2> QED BY <1>3, <1>4, <2>1, <2>2, <2>3
<1>6. CASE o = t /\ Dominant(t)
  <2>1. PICK c, v, d, met : /\ c = current[t] /\ v = cur[t]
                            /\ met = {Holder(u) : u \in Neighbors(v)} \ {Null}
                            /\ d = Highest(met \cup {c})
    OBVIOUS
  <2>2. /\ pc[t] = "merge" /\ current'[t] = d /\ todo'[t] = met /\ cur'[t] = v
    BY <1>1, <1>6, <2>1 DEF Dominant, Types
  <2>3. met = Merged(t) /\ met \subseteq Holds(t) /\ c \in Holds(t)
        /\ Holds(t) \subseteq propagations /\ propagations \subseteq Vert
    BY <1>1, <2>1, <2>2, MetFacts, ActiveFacts DEF Types
  <2>4. d \in Holds(t) /\ \A p \in met : order[p] <= order[d]
    <3>1. met \cup {c} \in SUBSET Vert /\ met \cup {c} # {}
      BY <2>3
    <3>2. d \in met \cup {c} /\ \A p \in met \cup {c} : order[p] <= order[d]
      BY <2>1, <3>1, HighestFacts
    <3> QED BY <2>3, <3>2
  <2>5. \E w \in Larger(v) : d \in J!Component(request.mesh, w, Above(v))
    <3>1. PICK u \in Larger(v) : u \in Held(d)
      BY <1>1, <2>1, <2>2, <2>4, Whole
    <3>2. J!Component(request.mesh, u, Above(v)) = Held(d) /\ d \in Held(d)
      BY <1>1, <2>1, <2>2, <2>4, <3>1, Whole
    <3> QED BY <3>1, <3>2
  <2> QED BY <1>3, <1>4, <1>6, <2>1, <2>2, <2>4, <2>5
<1>7. CASE o = t /\ \E q \in Vert : Unify(t, q)
  <2>1. PICK c, v : c = current[t] /\ v = cur[t]
    OBVIOUS
  <2>2. pc[t] = "unify" /\ current'[t] = c /\ cur'[t] = v /\ todo'[t] \subseteq todo[t]
    BY <1>1, <1>7, <2>1 DEF Unify, Types
  <2>3. /\ \A p \in todo[t] : order[p] <= order[c]
        /\ \E w \in Larger(v) : c \in J!Component(request.mesh, w, Above(v))
    BY <1>1, <2>1, <2>2 DEF HInv
  <2> QED BY <1>3, <1>4, <1>7, <2>1, <2>2, <2>3
<1> QED BY <1>5, <1>6, <1>7, TaskStep

(* Where a task runs out of vertices, its propagation has filled the part  *)
(* of the mesh it is in.                                                   *)
LEMMA ExhaustedKept ==
    ASSUME Base, Types, PInv, SInv, HInv, NEW t \in Vert, Propagate(t)
    PROVE  status' \/ Exhausted'
<1>0. PICK c : c = current[t]
  OBVIOUS
<1>1. /\ StepOf(t) /\ t \in propagations /\ Active(t) /\ Vert' = Vert
      /\ c \in propagations /\ c \in Vert /\ comp[c] = c
      /\ UNCHANGED <<request, order, propagations>>
  BY <1>0, StepFacts, StepKeeps DEF StepOf
<1>2. Exhausted => Exhausted'
  <2>1. Maxima' = Maxima /\ \A v \in Vert : Neighbors(v)' = Neighbors(v)
    BY <1>1 DEF Maxima, Larger, Neighbors
  <2> QED BY <1>1, <2>1 DEF Exhausted
<1>3. CASE ~OutOfVertices(t)
  BY <1>1, <1>2, <1>3 DEF StepOf, HInv
<1>4. CASE OutOfVertices(t)
  <2>1. pc[t] = "pop" /\ Ahead(t) = {}
    BY <1>4 DEF OutOfVertices
  <2>2. Ready(c)
    BY <1>0, <1>1, <2>1 DEF SInv, SweepOf, Types
  <2>3. \A x \in queue[c] : Marked(x)
    BY <1>0, <2>1 DEF Ahead, Marked
  <2>4. Held(c) # {}
    <3>1. Marked(Saddle(c)) \/ (Saddle(c) = c /\ queue[c] = {c})
      BY <1>0, <1>1, <2>1 DEF PInv, TaskOf
    <3>2. Marked(Saddle(c)) /\ Saddle(c) \in Vert
      BY <1>1, <2>3, <3>1, SaddleFacts
    <3>3. Holder(Saddle(c)) = c
      BY <1>1, <3>2 DEF PInv, SaddleOf
    <3> QED BY <3>2, <3>3 DEF Held
  <2>5. Held(c) \in SUBSET Vert
    BY DEF Held
  <2>6. ASSUME NEW x \in Held(c), NEW y \in Neighbors(x) PROVE y \in Held(c)
    <3>1. x \in Vert /\ y \in Vert /\ Holder(x) = c /\ x \in Neighbors(y)
      BY <2>5, NeighborFacts DEF Held, Base
    <3>2. Seen(c, y)
      BY <3>1 DEF Seen
    <3>3. Marked(y)
      BY <2>2, <2>3, <3>1, <3>2 DEF Ready
    <3>4. Marked(x)
      BY <1>1, <3>1, VertFacts, HolderFacts DEF Base
    <3>5. CASE y \in Larger(x)
      BY <3>1, <3>4, <3>5 DEF PInv, Closed, Held
    <3>6. CASE y \notin Larger(x)
      <4>1. x \in Larger(y)
        BY <3>1, <3>6, LargerFacts
      <4> QED BY <3>1, <3>3, <4>1 DEF PInv, Closed, Held
    <3> QED BY <3>5, <3>6
  <2>7. \A x \in Held(c) \cap Maxima : x \in propagations
    <3> SUFFICES ASSUME NEW x \in Held(c), x \in Maxima PROVE x \in propagations
      OBVIOUS
    <3>1. x \in Vert /\ Holder(x) = c
      BY DEF Held
    <3>2. Marked(x)
      BY <1>1, <3>1, VertFacts, HolderFacts DEF Base
    <3> QED BY <3>1, <3>2 DEF HInv
  <2>8. Exhausted
    <3>1. \A x \in Held(c) : Neighbors(x) \subseteq Held(c)
      BY <2>6
    <3>2. Held(c) \cap Maxima \subseteq propagations
      BY <2>7
    <3> QED BY <2>4, <2>5, <3>1, <3>2 DEF Exhausted
  <2> QED BY <1>2, <2>8
<1> QED BY <1>3, <1>4

(* A step of a task keeps the invariant.                                   *)
LEMMA PropagateHills ==
    ASSUME Base, Types, PInv, SInv, HInv, Field, PInv', NEW t \in Vert,
           Propagate(t)
    PROVE  HInv'
<1>1. /\ StepOf(t) /\ Vert' = Vert /\ propagations' = propagations
      /\ UNCHANGED <<request, order>>
  BY StepFacts, StepKeeps DEF StepOf
<1>2. /\ parent' \in [Vert -> Vert] /\ aborted' \in [Vert -> BOOLEAN]
      /\ status' \in BOOLEAN
  BY <1>1 DEF StepOf
<1>3. SimplifiedMaxima' = SimplifiedMaxima
  <2>1. Discarded' = Discarded
    BY <1>1 DEF Discarded, Maxima, Larger, Neighbors
  <2>2. Highest(Discarded)' = Highest(Discarded)
    BY <1>1, <2>1 DEF Highest
  <2> QED BY <1>1, <2>1, <2>2 DEF SimplifiedMaxima
<1>4. propagations' = SimplifiedMaxima'
  BY <1>1, <1>3 DEF HInv
<1>5. status' \/ Exhausted'
  BY ExhaustedKept
<1>6. \A v \in Vert : Marked(v)' => /\ segmentation'[v] = propagationMask'[v]
                                    /\ order'[v] <= order'[Holder(v)']
                                    /\ v \in Maxima' => v \in propagations'
  BY <1>1, MarksKept
<1>7. \A v \in Vert : Claimed(v)'
  BY ClaimedKept
<1>8. ASSUME NEW p \in propagations
      PROVE  /\ Family(p)' /\ Sunk(p)' /\ Resting(p)'
             /\ (Saddle(p) # p => Low(p, Saddle(p)))'
  <2>1. Family(p)'
    BY <1>1, FamilyKept
  <2>2. Sunk(p)'
    BY SunkKept, AbortSinks
  <2>3. Resting(p)'
    BY RestingKept
  <2>4. (Saddle(p) # p => Low(p, Saddle(p)))'
    BY LowKept
  <2> QED BY <2>1, <2>2, <2>3, <2>4
<1>9. ASSUME NEW o \in propagations
      PROVE  /\ (pc[o] = "capture" => Low(current[o], cur[o]))'
             /\ (pc[o] = "unify" =>
                   /\ \A p \in todo[o] : order[p] <= order[current[o]]
                   /\ \E w \in Larger(cur[o]) :
                         current[o] \in J!Component(request.mesh, w,
                                                    Above(cur[o])))'
  BY LowKept, UnifyKept
<1> QED BY <1>1, <1>2, <1>4, <1>5, <1>6, <1>7, <1>8, <1>9 DEF HInv
-------------------------------------------------------------------------------
(***************************************************************************)
(* What the hills are when the propagations have come to an end.           *)
(***************************************************************************)
(* The hill of p, which nothing but its flood can change any more.         *)
Hill(p) ==
    /\ pc[p] # "none" /\ order[Saddle(p)] < order[p]
    /\ segmentSize[p] = Cardinality(Dome(p)) /\ Meets(p)
    /\ \A v \in Dome(p) : /\ order[v] <= order[p] /\ segmentation[v] > 0
                          /\ v \in Maxima => v \in propagations
    /\ Low(p, Saddle(p))
    /\ pc[p] # "segment" => segment[p] = Dome(p)

(* The saddle leads up to where no hill that ends there is.                *)
Escape(p) ==
    \E w \in Larger(Saddle(p)) :
        \A q \in Parents : Saddle(q) = Saddle(p) => w \notin Dome(q)

Apart == \A p, q \in Parents : p # q => Dome(p) \cap Dome(q) = {}

(* The hills a pass flattens.                                              *)
GInv ==
    /\ status /\ propagations = SimplifiedMaxima
    /\ segmentation \in [Vert -> Int]
    /\ \A p \in Parents : Hill(p) /\ Escape(p)
    /\ \A p \in Vert \ Parents : pc[p] = "none"
    /\ Apart

(* Of every step: a pass begins with no error, one that failed met a part  *)
(* of the domain all maxima of which were to go, and hills are worked on   *)
(* only in the step of that name.                                          *)
StatusOf ==
    /\ step \in {"begin", "hills", "done"} => status
    /\ step = "failed" => /\ status \/ Exhausted
                          /\ propagations = SimplifiedMaxima
    /\ step # "hills" =>
          \A p \in Vert : pc[p] \notin {"segment", "segmented", "order"}

Segments == segment \in [Vert -> SUBSET Vert]

HillInv == /\ Segments /\ StatusOf
           /\ step # "done" => Field
           /\ step = "propagate" => HInv
           /\ step = "hills" => GInv

(* When all tasks have stopped, nobody works on anything.                  *)
LEMMA AtRest ==
    ASSUME Propagated
    PROVE  \A p : Idle(p) /\ ~Growing(p)
BY DEF Propagated, Idle, Growing, Active, AtWork

(* What a propagation holds that nobody took in and that did not give up.  *)
LEMMA RootHill ==
    ASSUME Base, Types, PInv, SInv, HInv, Propagated, status,
           NEW p \in propagations, parent[p] = p, ~aborted[p]
    PROVE  /\ comp[p] = p /\ p \in Vert /\ ~Marked(Saddle(p)) /\ Saddle(p) \in Vert
           /\ Dome(p) = Held(p) /\ p \in Held(p) /\ Held(p) \subseteq Above(Saddle(p))
           /\ segmentSize[p] = Cardinality(Held(p)) /\ Saddle(p) # p
           /\ Meets(p)
<1>1. comp[p] = p
  BY DEF HInv, Family
<1>2. ~Marked(Saddle(p)) /\ Saddle(p) # p
  BY <1>1, AtRest DEF HInv, Resting
<1>3. PICK v : v = Saddle(p)
  OBVIOUS
<1>4. /\ v \in Vert /\ p \in Vert /\ p \in Held(p)
      /\ Held(p) \subseteq Above(v)
      /\ segmentSize[p] = Cardinality(Held(p))
      /\ \A x \in Held(p) : J!Component(request.mesh, x, Above(v)) = Held(p)
      /\ \E u \in Larger(v) : u \in Held(p)
  BY <1>1, <1>2, <1>3, AtRest, HeldHill
<1>5. Dome(p) = Held(p)
  BY <1>3, <1>4 DEF Dome
<1>6. Meets(p)
  BY <1>3, <1>4, <1>5 DEF Meets
<1> QED BY <1>1, <1>2, <1>3, <1>4, <1>5, <1>6

(* The components of superlevel sets are nested or apart.                  *)
LEMMA Nested ==
    ASSUME Base, NEW a \in Vert, NEW b \in Vert, NEW p, NEW q,
           p \in Above(a), q \in Above(b), order[a] >= order[b],
           NEW x \in J!Component(request.mesh, p, Above(a)),
           x \in J!Component(request.mesh, q, Above(b))
    PROVE  J!Component(request.mesh, p, Above(a))
              \subseteq J!Component(request.mesh, q, Above(b))
<1>1. PICK C, D : /\ C = J!Component(request.mesh, p, Above(a))
                  /\ D = J!Component(request.mesh, q, Above(b))
  OBVIOUS
<1>2. /\ Above(a) \in SUBSET Vert /\ Above(b) \in SUBSET Vert
      /\ Above(a) \subseteq Above(b)
  <2>1. order[a] \in Int /\ order[b] \in Int /\ \A u \in Vert : order[u] \in Int
    BY DEF Base
  <2> QED BY <2>1 DEF Above
<1>3. C \subseteq Above(a) /\ Connected(request.mesh, C)
  BY <1>1, <1>2, ComponentIs DEF Base
<1>4. \A u \in D, y \in Above(b) : y \in Neighbors(u) => y \in D
  BY <1>1, <1>2, ComponentIs DEF Base
<1>5. C \subseteq D
  <2> SUFFICES ASSUME ~(C \subseteq D) PROVE FALSE
    OBVIOUS
  <2>1. C \cap D \in SUBSET C /\ C \cap D # {} /\ C \cap D # C
    BY <1>1
  <2>2. PICK u \in C \cap D, y \in C \ (C \cap D) : {u, y} \in request.mesh
    BY <1>3, <2>1 DEF Connected
  <2>3. u \in Vert /\ y \in Vert /\ y \in Above(b)
    BY <1>2, <1>3
  <2>4. y \in Neighbors(u)
    BY <2>2, <2>3, EdgeFacts DEF Base
  <2> QED BY <1>4, <2>2, <2>3, <2>4
<1> QED BY <1>1, <1>5

(* What the hills are made of.                                             *)
LEMMA ParentDome ==
    ASSUME Base, Types, PInv, SInv, HInv, Propagated, status, NEW p \in Parents
    PROVE  /\ p \in propagations /\ p \in Vert /\ Saddle(p) \in Vert
           /\ ~aborted[p] /\ order[Saddle(p)] < order[p]
           /\ segmentSize[p] = Cardinality(Dome(p))
           /\ p \in Dome(p) /\ Dome(p) \subseteq Vert
           /\ Dome(p) \subseteq Above(Saddle(p))
           /\ \A v \in Dome(p) : /\ order[v] <= order[p] /\ Marked(v)
                                 /\ Holder(v) = comp[p]
           /\ Low(p, Saddle(p)) /\ p \in Above(Saddle(p)) /\ Meets(p)
           /\ \/ parent[p] = p /\ ~Marked(Saddle(p)) /\ Dome(p) = Held(p)
              \/ /\ parent[p] # p /\ aborted[parent[p]] /\ Frozen(p)
                 /\ parent[p] \in propagations
                 /\ comp[p] = parent[p] /\ comp[parent[p]] = parent[p]
<1>1. p \in propagations /\ ~aborted[p] /\ (parent[p] = p \/ aborted[parent[p]])
  BY DEF Parents, IsParent
<1>2. p \in Vert /\ Saddle(p) \in Vert /\ \A v \in Vert : order[v] \in Int
  <2>1. p \in Vert /\ \A v \in Vert : order[v] \in Int
    BY <1>1 DEF Types, Base
  <2> QED BY <2>1, SaddleFacts
<1>3. ASSUME order[Saddle(p)] < order[p]
      PROVE  /\ p \in Dome(p) /\ Dome(p) \subseteq Above(Saddle(p))
             /\ p \in Above(Saddle(p)) /\ Dome(p) \subseteq Vert
  <2>1. Above(Saddle(p)) \in SUBSET Vert /\ p \in Above(Saddle(p))
    BY <1>2, <1>3 DEF Above
  <2>2. p \in Dome(p) /\ Dome(p) \subseteq Above(Saddle(p))
    BY <2>1, ComponentIs DEF Dome, Base
  <2> QED BY <2>1, <2>2
<1>4. CASE parent[p] = p
  <2>1. /\ comp[p] = p /\ ~Marked(Saddle(p)) /\ Dome(p) = Held(p) /\ p \in Held(p)
        /\ Held(p) \subseteq Above(Saddle(p)) /\ Saddle(p) # p
        /\ segmentSize[p] = Cardinality(Held(p)) /\ Meets(p)
    BY <1>1, <1>4, RootHill
  <2>2. order[Saddle(p)] < order[p]
    BY <1>2, <2>1 DEF Above
  <2>3. \A v \in Dome(p) : /\ order[v] <= order[p] /\ Marked(v)
                           /\ Holder(v) = comp[p]
    <3> SUFFICES ASSUME NEW v \in Held(p)
                 PROVE  /\ order[v] <= order[p] /\ Marked(v) /\ Holder(v) = p
      BY <2>1
    <3>1. v \in Vert /\ Holder(v) = p
      BY DEF Held
    <3>2. Marked(v)
      BY <1>2, <3>1, VertFacts, HolderFacts DEF Base
    <3> QED BY <3>1, <3>2 DEF HInv
  <2>4. Low(p, Saddle(p))
    BY <1>1, <2>1 DEF HInv
  <2> QED BY <1>1, <1>2, <1>3, <1>4, <2>1, <2>2, <2>3, <2>4
<1>5. CASE parent[p] # p
  <2>1. /\ Frozen(p) /\ parent[p] \in propagations /\ aborted[parent[p]]
        /\ comp[parent[p]] = comp[p]
    BY <1>1, <1>5 DEF HInv, Family
  <2>2. comp[parent[p]] = parent[p]
    BY <2>1 DEF HInv, Sunk
  <2>3. order[Saddle(p)] < order[p]
    BY <1>2, <2>1 DEF Frozen
  <2>4. \A v \in Dome(p) : /\ order[v] <= order[p] /\ Marked(v)
                           /\ Holder(v) = comp[p]
    <3> SUFFICES ASSUME NEW v \in Dome(p)
                 PROVE  /\ order[v] <= order[p] /\ Marked(v) /\ Holder(v) = comp[p]
      OBVIOUS
    <3>1. v \in Vert /\ Holder(v) = comp[p] /\ order[v] <= order[p]
      BY <1>3, <2>1, <2>3 DEF Frozen
    <3>2. comp[p] \in Vert
      BY <1>2 DEF Types
    <3> QED BY <3>1, <3>2, VertFacts, HolderFacts DEF Base
  <2>5. Low(p, Saddle(p))
    BY <1>1, <1>2, <2>3 DEF HInv
  <2>6. segmentSize[p] = Cardinality(Dome(p)) /\ Meets(p)
    BY <2>1 DEF Frozen
  <2> QED BY <1>1, <1>2, <1>3, <1>5, <2>1, <2>2, <2>3, <2>4, <2>5, <2>6
<1> QED BY <1>4, <1>5

(* No hill is part of another.                                             *)
LEMMA OwnDome ==
    ASSUME Base, Types, PInv, SInv, HInv, Propagated, status, NEW p \in Parents,
           NEW q \in Parents, p \in Dome(q)
    PROVE  p = q
<1> SUFFICES ASSUME p # q PROVE FALSE
  OBVIOUS
<1>1. p \in propagations /\ ~aborted[p] /\ Marked(p) /\ Holder(p) = comp[q]
  BY ParentDome
<1>2. propagationMask[p] = p
  BY <1>1 DEF HInv, Family
<1>3. comp[p] = comp[q]
  BY <1>1, <1>2 DEF Holder, Marked
<1>4. CASE parent[q] = q
  <2>1. comp[q] = q /\ ~aborted[q]
    BY <1>4, ParentDome DEF HInv, Family
  <2>2. parent[p] # p
    BY <1>1, <1>3, <2>1 DEF HInv, Family
  <2>3. aborted[parent[p]] /\ comp[p] = parent[p]
    BY <2>2, ParentDome
  <2> QED BY <1>3, <2>1, <2>3
<1>5. CASE parent[q] # q
  <2>1. Frozen(q)
    BY <1>5, ParentDome
  <2>2. parent[p] = p => comp[p] = p
    BY <1>1 DEF HInv, Family
  <2>3. parent[p] = comp[p]
    BY <2>2, ParentDome
  <2>4. parent[p] \in Dome(q)
    BY <1>1, <2>1 DEF Frozen
  <2> QED BY <1>3, <2>1, <2>3, <2>4 DEF Frozen
<1> QED BY <1>4, <1>5

LEMMA DomesApart ==
    ASSUME Base, Types, PInv, SInv, HInv, Propagated, status
    PROVE  Apart
<1> SUFFICES ASSUME NEW p \in Parents, NEW q \in Parents, NEW x \in Dome(p),
                    x \in Dome(q)
             PROVE  p = q
  BY DEF Apart
<1>1. /\ Saddle(p) \in Vert /\ Saddle(q) \in Vert
      /\ p \in Above(Saddle(p)) /\ q \in Above(Saddle(q))
      /\ p \in Dome(p) /\ q \in Dome(q)
      /\ order[Saddle(p)] \in Int /\ order[Saddle(q)] \in Int
  <2>1. Saddle(p) \in Vert /\ Saddle(q) \in Vert
    BY ParentDome
  <2> QED BY <2>1, ParentDome DEF Base
<1>2. CASE order[Saddle(p)] >= order[Saddle(q)]
  <2>1. Dome(p) \subseteq Dome(q)
    BY <1>1, <1>2, Nested DEF Dome
  <2> QED BY <1>1, <2>1, OwnDome
<1>3. CASE order[Saddle(q)] >= order[Saddle(p)]
  <2>1. Dome(q) \subseteq Dome(p)
    BY <1>1, <1>3, Nested DEF Dome
  <2> QED BY <1>1, <2>1, OwnDome
<1> QED BY <1>1, <1>2, <1>3

(* A connected part of S lies in any closed part of S it meets.            *)
LEMMA ConnectedInside ==
    ASSUME request \in Requests, NEW S \in SUBSET Vert, NEW C \in SUBSET S,
           Connected(request.mesh, C), NEW D,
           \A x \in D \cap S, y \in S : y \in Neighbors(x) => y \in D,
           NEW x \in C, x \in D
    PROVE  C \subseteq D
<1> SUFFICES ASSUME ~(C \subseteq D) PROVE FALSE
  OBVIOUS
<1>1. C \cap D \in SUBSET C /\ C \cap D # {} /\ C \cap D # C
  OBVIOUS
<1>2. PICK u \in C \cap D, y \in C \ (C \cap D) : {u, y} \in request.mesh
  BY <1>1 DEF Connected
<1>3. u \in Vert /\ y \in Vert /\ y \in S /\ u \in S
  OBVIOUS
<1>4. y \in Neighbors(u)
  BY <1>2, <1>3, EdgeFacts
<1> QED BY <1>2, <1>3, <1>4

LEMMA HillsEscape ==
    ASSUME Base, Types, PInv, SInv, HInv, Propagated, status, NEW p \in Parents
    PROVE  Escape(p)
<1>0. PICK s : s = Saddle(p)
  OBVIOUS
<1>1. /\ s \in Vert /\ p \in propagations /\ p \in Vert /\ p \in Above(s)
      /\ Above(s) \in SUBSET Vert
      /\ Larger(s) \subseteq Above(s)
  <2>1. s \in Vert /\ p \in propagations /\ p \in Vert /\ p \in Above(s)
    BY <1>0, ParentDome
  <2>2. Larger(s) \subseteq Vert
    BY <2>1, LargerFacts
  <2> QED BY <2>1, <2>2 DEF Above, Larger
<1>2. ASSUME NEW q \in Parents, Saddle(q) = s
      PROVE  /\ q \in propagations /\ q \in Vert /\ q \in Above(s)
             /\ Dome(q) = J!Component(request.mesh, q, Above(s))
             /\ \A v \in Dome(q) : v \in Vert /\ Marked(v) /\ Holder(v) = comp[q]
             /\ ~aborted[q]
             /\ \A x \in Dome(q), y \in Above(s) : y \in Neighbors(x) => y \in Dome(q)
             /\ \/ parent[q] = q /\ comp[q] = q
                \/ /\ parent[q] # q /\ aborted[parent[q]] /\ Frozen(q)
                   /\ parent[q] \in propagations
                   /\ comp[q] = parent[q] /\ comp[parent[q]] = parent[q]
  <2>1. /\ q \in propagations /\ q \in Vert /\ q \in Above(s)
        /\ Dome(q) = J!Component(request.mesh, q, Above(s))
        /\ \A v \in Dome(q) : v \in Vert /\ Marked(v) /\ Holder(v) = comp[q]
        /\ ~aborted[q]
    BY <1>2, ParentDome DEF Dome
  <2>2. \A x \in Dome(q), y \in Above(s) : y \in Neighbors(x) => y \in Dome(q)
    BY <1>1, <2>1, ComponentIs DEF Base
  <2>3. parent[q] = q => comp[q] = q
    BY <2>1 DEF HInv, Family
  <2> QED BY <2>1, <2>2, <2>3, ParentDome
<1>3. CASE parent[p] # p
  <2>1. PICK a : a = parent[p]
    OBVIOUS
  <2>2. /\ aborted[a] /\ a \in propagations /\ comp[a] = a
        /\ \E w \in Larger(s) : a \in J!Component(request.mesh, w, Above(s))
    BY <1>0, <1>2, <1>3, <2>1 DEF Frozen
  <2>3. PICK w \in Larger(s) : a \in J!Component(request.mesh, w, Above(s))
    BY <2>2
  <2> SUFFICES ASSUME NEW q \in Parents, Saddle(q) = s, w \in Dome(q) PROVE FALSE
    BY <1>0, <2>3 DEF Escape
  <2>4. PICK C : C = J!Component(request.mesh, w, Above(s))
    OBVIOUS
  <2>5. w \in C /\ C \in SUBSET Above(s) /\ Connected(request.mesh, C)
    BY <1>1, <2>4, ComponentIs DEF Base
  <2>6. C \subseteq Dome(q)
    BY <1>1, <1>2, <2>5, ConnectedInside DEF Base
  <2>7. Marked(a) /\ Holder(a) = comp[q] /\ a \in Dome(q)
    BY <1>2, <2>3, <2>4, <2>6
  <2>8. propagationMask[a] = a
    BY <2>2, <2>7 DEF HInv, Family
  <2>9. comp[q] = a
    BY <2>2, <2>7, <2>8 DEF Holder, Marked
  <2> QED BY <1>2, <2>2, <2>7, <2>9 DEF Frozen
<1>4. CASE parent[p] = p
  <2> SUFFICES ASSUME \A w \in Larger(s) :
                         \E q \in Parents : Saddle(q) = s /\ w \in Dome(q)
               PROVE  FALSE
    BY <1>0 DEF Escape
  <2>1. ~Marked(s)
    BY <1>0, <1>4, ParentDome
  <2>2. ASSUME NEW w \in Larger(s) PROVE w \in Shares(s)
    <3>1. PICK q \in Parents : Saddle(q) = s /\ w \in Dome(q)
      OBVIOUS
    <3>2. Marked(w) /\ Holder(w) = comp[q] /\ w \in Vert
      BY <1>2, <3>1
    <3>3. CASE comp[q] = q
      BY <3>1, <3>2, <3>3 DEF Shares
    <3>4. CASE comp[q] # q
      <4>1. PICK a : a = parent[q]
        OBVIOUS
      <4>2. /\ aborted[a] /\ a \in propagations /\ comp[a] = a
            /\ comp[q] = a /\ Frozen(q) /\ a \in Vert
        BY <1>2, <3>1, <3>4, <4>1 DEF Types
      <4>3. PICK v \in Vert : ~Marked(v) /\ Bounds(a, v)
        BY <4>2 DEF HInv, Sunk
      <4>4. w \in Held(a)
        BY <3>2, <4>2 DEF Held
      <4>5. order[s] <= order[v]
        <5> SUFFICES ASSUME ~(order[s] <= order[v]) PROVE FALSE
          OBVIOUS
        <5>1. order[s] \in Int /\ order[v] \in Int
          BY <1>1 DEF Base
        <5>2. s \in Above(v)
          BY <1>1, <5>1 DEF Above
        <5>3. s \in Neighbors(w)
          BY <1>1, <3>2, NeighborFacts DEF Larger, Base
        <5>4. s \in Held(a)
          BY <4>3, <4>4, <5>2, <5>3 DEF Bounds
        <5>5. Holder(s) = a
          BY <5>4 DEF Held
        <5> QED BY <1>1, <2>1, <4>2, <5>5, VertFacts, HolderFacts DEF Base
      <4>6. Held(a) \in SUBSET Above(s)
        <5>1. \A x \in Vert : order[x] \in Int
          BY DEF Base
        <5>2. \A x \in Held(a) : x \in Vert /\ order[v] < order[x]
          BY <4>3 DEF Bounds, Held
        <5>3. \A x \in Held(a) : order[x] > order[s]
          BY <1>1, <4>3, <4>5, <5>1, <5>2
        <5> QED BY <5>2, <5>3 DEF Above
      <4>7. Connected(request.mesh, Held(a)) /\ Marked(a)
        BY <4>2, <4>4, AtRest DEF SInv, HillOf
      <4>8. Held(a) \subseteq Dome(q)
        <5>1. \A x \in Dome(q) \cap Above(s), y \in Above(s) :
                 y \in Neighbors(x) => y \in Dome(q)
          BY <1>2, <3>1
        <5> QED BY <1>1, <3>1, <4>4, <4>6, <4>7, <5>1, ConnectedInside DEF Base
      <4>9. a \in Held(a)
        <5>1. propagationMask[a] = a
          BY <4>2, <4>7 DEF HInv, Family
        <5> QED BY <4>2, <4>7, <5>1 DEF Held, Holder, Marked
      <4> QED BY <4>2, <4>8, <4>9 DEF Frozen
    <3> QED BY <3>3, <3>4
  <2>3. Shares(s) = Larger(s) /\ Larger(s) # {}
    <3>1. Shares(s) \subseteq Larger(s)
      BY DEF Shares
    <3>2. comp[p] = p /\ s # p /\ ~aborted[p]
      BY <1>0, <1>1, <1>4, ParentDome, RootHill
    <3>3. \E u \in Larger(s) : u \in Held(p)
      BY <1>0, <1>1, <2>1, <3>2, AtRest, HeldHill
    <3> QED BY <2>2, <3>1, <3>3
  <2>4. PICK t \in propagations : pc[t] \in {"merge", "unify", "mark"}
    BY <1>1, <2>1, <2>3 DEF HInv, Claimed
  <2> QED BY <2>4 DEF Propagated
<1> QED BY <1>3, <1>4

(* What depends on the order alone.                                        *)
LEMMA FieldNext ==
    ASSUME UNCHANGED <<request, order>>
    PROVE  /\ Vert' = Vert /\ N' = N /\ Maxima' = Maxima
           /\ \A v : /\ Neighbors(v)' = Neighbors(v) /\ Larger(v)' = Larger(v)
                     /\ Above(v)' = Above(v)
           /\ SimplifiedMaxima' = SimplifiedMaxima
<1>1. Vert' = Vert /\ N' = N
  BY DEF Vert, N
<1>2. \A v : /\ Neighbors(v)' = Neighbors(v) /\ Larger(v)' = Larger(v)
             /\ Above(v)' = Above(v)
  BY <1>1 DEF Neighbors, Larger, Above
<1>3. Maxima' = Maxima
  BY <1>1, <1>2 DEF Maxima
<1>4. Discarded' = Discarded
  BY <1>3 DEF Discarded
<1>5. Highest(Discarded)' = Highest(Discarded)
  BY <1>4 DEF Highest
<1> QED BY <1>1, <1>2, <1>3, <1>4, <1>5 DEF SimplifiedMaxima

(* The hills when their floods begin.                                      *)
LEMMA FinalizeHills ==
    ASSUME Base, Types, PInv, SInv, HInv, FinalizePropagations
    PROVE  GInv'
<1>1. /\ Propagated /\ status
      /\ pc' = [p \in Vert |-> IF p \in Parents THEN "segment" ELSE "none"]
      /\ UNCHANGED <<request, scalars, order, segmentation, status, propagations,
                     comp, parent, aborted, criticalPoints, segmentSize>>
  BY DEF FinalizePropagations, fields, arrays, props
<1>2. /\ Vert' = Vert /\ Parents' = Parents /\ Maxima' = Maxima
      /\ SimplifiedMaxima' = SimplifiedMaxima
  <2>1. Parents' = Parents
    BY <1>1 DEF Parents, IsParent
  <2>2. UNCHANGED <<request, order>>
    BY <1>1
  <2> QED BY <2>1, <2>2, FieldNext
<1>3. \A p : Saddle(p)' = Saddle(p) /\ Dome(p)' = Dome(p)
  BY <1>1, <1>2 DEF Saddle, Dome, Above
<1>4. \A p, v : Low(p, v)' <=> Low(p, v)
  BY <1>1 DEF Low, Persistent
<1>5. ASSUME NEW p \in Parents PROVE Hill(p)' /\ Escape(p)'
  <2>1. /\ p \in Vert /\ order[Saddle(p)] < order[p]
        /\ segmentSize[p] = Cardinality(Dome(p)) /\ Low(p, Saddle(p)) /\ Meets(p)
        /\ \A v \in Dome(p) : v \in Vert /\ order[v] <= order[p] /\ Marked(v)
    BY <1>1, ParentDome
  <2>2. pc'[p] = "segment"
    BY <1>1, <2>1
  <2>3. \A v \in Dome(p) : segmentation[v] > 0 /\ (v \in Maxima => v \in propagations)
    <3> SUFFICES ASSUME NEW v \in Dome(p)
                 PROVE  segmentation[v] > 0 /\ (v \in Maxima => v \in propagations)
      OBVIOUS
    <3>1. v \in Vert /\ Marked(v)
      BY <2>1
    <3>2. segmentation[v] = propagationMask[v] /\ (v \in Maxima => v \in propagations)
      BY <3>1 DEF HInv
    <3>3. propagationMask[v] \in Vert
      BY <3>1 DEF Types, Marked
    <3>4. \A u \in Vert : u > 0
      BY VertFacts DEF Base
    <3> QED BY <3>2, <3>3, <3>4
  <2>4. Low(p, Saddle(p))'
    <3>1. PICK s : s = Saddle(p)
      OBVIOUS
    <3>2. Low(p, s)'
      BY <1>4, <2>1, <3>1
    <3> QED BY <1>3, <3>1, <3>2 DEF Low
  <2>5. Hill(p)'
    <3>1. Meets(p)'
      BY <1>1, <1>3, <2>1 DEF Meets, Larger, Neighbors
    <3> QED BY <1>1, <1>2, <1>3, <2>1, <2>2, <2>3, <2>4, <3>1 DEF Hill
  <2>6. Escape(p)'
    <3>1. Escape(p)
      BY <1>1, HillsEscape
    <3>2. Larger(Saddle(p))' = Larger(Saddle(p))
      BY <1>1, <1>3 DEF Larger, Neighbors
    <3> QED BY <1>2, <1>3, <3>1, <3>2 DEF Escape
  <2> QED BY <2>5, <2>6
<1>6. Apart'
  <2>1. Apart
    BY <1>1, DomesApart
  <2> QED BY <1>2, <1>3, <2>1 DEF Apart
<1>7. status' /\ propagations' = SimplifiedMaxima' /\ segmentation' \in [Vert -> Int]
  BY <1>1, <1>2 DEF HInv, Types
<1>8. \A p \in Vert \ Parents : pc'[p] = "none"
  BY <1>1
<1> QED BY <1>2, <1>5, <1>6, <1>7, <1>8 DEF GInv
-------------------------------------------------------------------------------
(***************************************************************************)
(* The records through a whole pass.                                       *)
(***************************************************************************)
(* At the beginning nothing is recorded.                                   *)
LEMMA RecordsBegin ==
    ASSUME Base, status \in BOOLEAN, status, InitializePropagations
    PROVE  HInv'
<1>1. /\ UNCHANGED <<request, order, status>>
      /\ propagationMask' = [v \in Vert |-> Null]
      /\ propagations' = SimplifiedMaxima
      /\ comp' = [v \in Vert |-> v] /\ parent' = [v \in Vert |-> v]
      /\ aborted' = [v \in Vert |-> FALSE]
      /\ criticalPoints' = [v \in Vert |-> <<v>>]
      /\ current' = [v \in Vert |-> v]
      /\ pc' = [v \in Vert |-> IF v \in propagations' THEN "start" ELSE "none"]
  BY DEF InitializePropagations, fields
<1>2. /\ Vert' = Vert /\ SimplifiedMaxima' = SimplifiedMaxima
      /\ \A v : Larger(v)' = Larger(v)
  <2>1. UNCHANGED <<request, order>>
    BY <1>1
  <2> QED BY <2>1, FieldNext
<1>3. propagations' \subseteq Vert
  BY <1>1 DEF SimplifiedMaxima, Discarded, Maxima
<1>4. \A v \in Vert : ~Marked(v)' /\ Saddle(v)' = v
  BY <1>1 DEF Marked, Saddle, Last
<1>5. \A v \in Vert : Claimed(v)'
  <2> SUFFICES ASSUME NEW v \in Vert, Larger(v)' # {} PROVE Shares(v)' = {}
    BY DEF Claimed
  <2>1. \A u \in Larger(v)' : u \in Vert
    BY <1>2, LargerFacts
  <2> QED BY <1>4, <2>1 DEF Shares
<1>6. ASSUME NEW p \in propagations'
      PROVE  /\ Family(p)' /\ Sunk(p)' /\ Resting(p)'
             /\ (Saddle(p) # p => Low(p, Saddle(p)))'
  <2>1. p \in Vert /\ parent'[p] = p /\ comp'[p] = p /\ ~aborted'[p] /\ ~Marked(p)'
        /\ pc'[p] = "start" /\ current'[p] = p /\ Saddle(p)' = p
    BY <1>1, <1>3, <1>4
  <2>2. Family(p)' /\ Sunk(p)'
    BY <2>1 DEF Family, Sunk
  <2>3. ~Idle(p)'
    <3>1. Active(p)' /\ p \in Holds(p)'
      BY <2>1 DEF Active, AtWork, Holds
    <3> QED BY <3>1 DEF Idle
  <2> QED BY <2>1, <2>2, <2>3 DEF Resting
<1>7. \A t \in propagations' : pc'[t] = "start"
  BY <1>1, <1>3
<1>8. /\ parent' \in [Vert -> Vert] /\ aborted' \in [Vert -> BOOLEAN]
      /\ status' \in BOOLEAN /\ status'
  BY <1>1
<1> QED BY <1>1, <1>2, <1>4, <1>5, <1>6, <1>7, <1>8 DEF HInv

(* The flood of a hill fills its dome, of the size that was counted.       *)
LEMMA FloodFills ==
    ASSUME Base, Between, GInv, NEW p \in Parents
    PROVE  Flood(p) = Dome(p) /\ p \in Dome(p) /\ Dome(p) \subseteq Above(Saddle(p))
<1>1. PICK s : s = Saddle(p)
  OBVIOUS
<1>2. p \in Vert /\ s \in Vert /\ order[s] < order[p]
  BY <1>1, ParentFacts DEF Between, GInv, Hill
<1>3. p \in Above(s) /\ Above(s) \in SUBSET Vert
  <2>1. order[s] \in Int /\ order[p] \in Int
    BY <1>2 DEF Base
  <2> QED BY <1>2, <2>1 DEF Above
<1>4. /\ p \in Dome(p) /\ Dome(p) \subseteq Above(s)
      /\ Connected(request.mesh, Dome(p))
      /\ \A x \in Dome(p), y \in Above(s) : y \in Neighbors(x) => y \in Dome(p)
  BY <1>1, <1>3, ComponentIs DEF Dome, Base
<1>5. \A v \in Dome(p) : segmentation[v] > 0
  BY DEF GInv, Hill
<1>6. PICK S : S = {u \in Vert : segmentation[u] > 0 /\ order[u] > order[s]}
  OBVIOUS
<1>7. S \in SUBSET Vert /\ S \subseteq Above(s)
  BY <1>6 DEF Above
<1>8. Dome(p) \in SUBSET S
  BY <1>3, <1>4, <1>5, <1>6 DEF Above
<1>9. J!Component(request.mesh, p, S) = Dome(p)
  BY <1>4, <1>7, <1>8, ComponentOnly DEF Base
<1> QED BY <1>1, <1>4, <1>6, <1>9 DEF Flood

(* What the hills are does not change while they are worked on.            *)
LEMMA HillsStay ==
    ASSUME UNCHANGED <<request, order, scalars, propagations, parent, aborted,
                       criticalPoints>>
    PROVE  /\ Vert' = Vert /\ Parents' = Parents /\ Maxima' = Maxima
           /\ SimplifiedMaxima' = SimplifiedMaxima
           /\ \A p : /\ Saddle(p)' = Saddle(p) /\ Dome(p)' = Dome(p)
                     /\ Low(p, Saddle(p))' <=> Low(p, Saddle(p))
                     /\ Escape(p)' <=> Escape(p)
                     /\ Meets(p)' <=> Meets(p)
           /\ Apart' <=> Apart
<1>1. UNCHANGED <<request, order>>
  OBVIOUS
<1>2. /\ Vert' = Vert /\ Maxima' = Maxima /\ SimplifiedMaxima' = SimplifiedMaxima
      /\ \A v : Larger(v)' = Larger(v) /\ Above(v)' = Above(v)
  BY <1>1, FieldNext
<1>3. Parents' = Parents
  BY DEF Parents, IsParent
<1>4. \A p : /\ Saddle(p)' = Saddle(p) /\ Dome(p)' = Dome(p)
             /\ Low(p, Saddle(p))' <=> Low(p, Saddle(p))
  BY <1>2 DEF Saddle, Dome, Low, Persistent, Above
<1>5. \A p : /\ Escape(p)' <=> Escape(p)
             /\ Meets(p)' <=> Meets(p)
  <2> SUFFICES ASSUME NEW p
               PROVE  /\ Escape(p)' <=> Escape(p)
                      /\ Meets(p)' <=> Meets(p)
    OBVIOUS
  <2>1. Larger(Saddle(p))' = Larger(Saddle(p))
    BY <1>4 DEF Larger, Neighbors
  <2> QED BY <1>3, <1>4, <2>1 DEF Escape, Meets
<1>6. Apart' <=> Apart
  BY <1>3, <1>4 DEF Apart
<1> QED BY <1>2, <1>3, <1>4, <1>5, <1>6

LEMMA SegmentKeeps ==
    ASSUME Base, Between, Segments, GInv, NEW p \in Vert, ComputeSegment(p)
    PROVE  GInv'
<1>1. /\ pc[p] = "segment" /\ Goto(p, "segmented")
      /\ UNCHANGED <<request, order, scalars, propagations, parent, aborted,
                     criticalPoints, segmentSize>>
      /\ segment' = [segment EXCEPT ![p] = Flood(p)]
  BY DEF ComputeSegment, fields, props
<1>2. p \in Parents
  BY <1>1 DEF GInv
<1>3. Flood(p) = Dome(p)
  BY <1>2, FloodFills
<1>4. Cardinality(Flood(p)) = segmentSize[p]
  BY <1>2, <1>3 DEF GInv, Hill
<1>5. /\ status' = status
      /\ segmentation' = [v \in Vert |-> IF v \in Dome(p) THEN p
                                         ELSE segmentation[v]]
  BY <1>3, <1>4 DEF ComputeSegment
<1>6. /\ Vert' = Vert /\ Parents' = Parents /\ Maxima' = Maxima
      /\ SimplifiedMaxima' = SimplifiedMaxima
      /\ \A q : /\ Saddle(q)' = Saddle(q) /\ Dome(q)' = Dome(q)
                /\ Low(q, Saddle(q))' <=> Low(q, Saddle(q))
                /\ Escape(q)' <=> Escape(q)
                /\ Meets(q)' <=> Meets(q)
      /\ Apart' <=> Apart
  BY <1>1, HillsStay
<1>7. \A v \in Vert : v > 0 /\ v \in Int
  BY VertFacts DEF Base
<1>8. segmentation' \in [Vert -> Int]
  BY <1>5, <1>7 DEF GInv
<1>9. pc' = [pc EXCEPT ![p] = "segmented"] /\ DOMAIN pc = Vert
  BY <1>1 DEF Goto, Base
<1>10. ASSUME NEW q \in Parents PROVE Hill(q)' /\ Escape(q)'
  <2>1. Hill(q) /\ Escape(q) /\ q \in Vert /\ Dome(q) \subseteq Vert
    <3>1. Hill(q) /\ Escape(q)
      BY DEF GInv
    <3>2. Dome(q) \subseteq Above(Saddle(q)) /\ q \in Dome(q)
      BY FloodFills
    <3> QED BY <3>1, <3>2 DEF Above
  <2>2. pc'[q] # "none"
    BY <1>9, <2>1 DEF Hill
  <2>3. pc'[q] # "segment" => segment'[q] = Dome(q)
    <3>1. CASE q = p
      BY <1>1, <1>3, <2>1, <3>1 DEF ComputeSegment, Segments
    <3>2. CASE q # p
      BY <1>1, <1>9, <2>1, <3>2 DEF Hill
    <3> QED BY <3>1, <3>2
  <2>4. \A v \in Dome(q) : segmentation'[v] > 0
    BY <1>5, <1>7, <2>1 DEF Hill
  <2> QED BY <1>1, <1>6, <2>1, <2>2, <2>3, <2>4 DEF Hill
<1>11. \A q \in Vert \ Parents : pc'[q] = "none"
  BY <1>2, <1>9 DEF GInv
<1>12. status' /\ propagations' = SimplifiedMaxima' /\ Apart'
  BY <1>1, <1>5, <1>6 DEF GInv
<1> QED BY <1>6, <1>8, <1>10, <1>11, <1>12 DEF GInv

LEMMA OrderKeeps ==
    ASSUME Base, Between, GInv, NEW p \in Vert, InitLocalOrder(p) \/ Iterate(p)
    PROVE  GInv'
<1>1. /\ pc[p] \in {"segmented", "order"}
      /\ pc' = pc \/ \E l \in {"order", "ordered"} : pc' = [pc EXCEPT ![p] = l]
      /\ UNCHANGED <<request, order, scalars, propagations, parent, aborted,
                     criticalPoints, segmentSize, segmentation, segment, status>>
  BY DEF InitLocalOrder, Iterate, ordering, fields, props, Goto
<1>2. /\ Vert' = Vert /\ Parents' = Parents /\ Maxima' = Maxima
      /\ SimplifiedMaxima' = SimplifiedMaxima
      /\ \A q : /\ Saddle(q)' = Saddle(q) /\ Dome(q)' = Dome(q)
                /\ Low(q, Saddle(q))' <=> Low(q, Saddle(q))
                /\ Escape(q)' <=> Escape(q)
                /\ Meets(q)' <=> Meets(q)
      /\ Apart' <=> Apart
  BY <1>1, HillsStay
<1>3. p \in Parents
  BY <1>1 DEF GInv
<1>4. \A q \in Vert : /\ pc'[q] = "none" <=> pc[q] = "none"
                      /\ pc'[q] = "segment" => pc[q] = "segment"
  <2>1. DOMAIN pc = Vert
    BY DEF Base
  <2>2. CASE pc' = pc
    BY <2>2
  <2>3. ASSUME NEW l \in {"order", "ordered"}, pc' = [pc EXCEPT ![p] = l]
        PROVE  \A q \in Vert : /\ pc'[q] = "none" <=> pc[q] = "none"
                               /\ pc'[q] = "segment" => pc[q] = "segment"
    BY <1>1, <2>1, <2>3
  <2>4. pc' = pc \/ \E l \in {"order", "ordered"} : pc' = [pc EXCEPT ![p] = l]
    BY <1>1
  <2> QED BY <2>2, <2>3, <2>4
<1>5. ASSUME NEW q \in Parents PROVE Hill(q)' /\ Escape(q)'
  <2>1. Hill(q) /\ Escape(q) /\ q \in Vert
    BY ParentFacts DEF GInv, Between
  <2>2. UNCHANGED <<order, segmentSize, segmentation, segment, propagations>>
    BY <1>1
  <2>3. pc'[q] # "none" /\ (pc'[q] # "segment" => segment'[q] = Dome(q))
    <3>1. pc[q] # "none" /\ (pc[q] # "segment" => segment[q] = Dome(q))
      BY <2>1 DEF Hill
    <3>2. /\ pc'[q] # "none"
          /\ pc[q] = "segment" => q # p
      BY <1>1, <1>4, <2>1, <3>1
    <3>3. pc'[q] = "segment" <=> pc[q] = "segment"
      BY <1>1, <1>4, <2>1, <3>2 DEF Base
    <3> QED BY <2>2, <3>1, <3>2, <3>3
  <2> QED BY <1>2, <2>1, <2>2, <2>3 DEF Hill
<1>6. \A q \in Vert \ Parents : pc'[q] = "none"
  BY <1>4 DEF GInv
<1>7. /\ status' /\ propagations' = SimplifiedMaxima' /\ Apart'
      /\ segmentation' \in [Vert -> Int]
  BY <1>1, <1>2 DEF GInv
<1> QED BY <1>2, <1>5, <1>6, <1>7 DEF GInv

(* The steps before and after a pass.                                      *)
LEMMA StatusKept ==
    ASSUME Base, StatusOf, UNCHANGED <<status, pc>>, Vert' = Vert,
           step \in {"begin", "done"}, step' \in {"begin", "done"}
    PROVE  StatusOf'
BY DEF StatusOf

(* A pass begins.                                                          *)
LEMMA PassBegins ==
    ASSUME Base, HillInv, InitializePropagations
    PROVE  HillInv'
<1>1. /\ step = "begin" /\ step' = "propagate"
      /\ UNCHANGED <<request, scalars, order, status>>
      /\ segment' = [v \in Vert |-> {}]
      /\ pc' = [v \in Vert |-> IF v \in propagations' THEN "start" ELSE "none"]
  BY DEF InitializePropagations, fields
<1>2. Vert' = Vert
  BY <1>1 DEF Vert
<1>3. Segments' /\ Field'
  BY <1>1, <1>2 DEF Segments, HillInv, Field
<1>4. StatusOf'
  BY <1>1, <1>2 DEF StatusOf
<1>5. status /\ status \in BOOLEAN
  BY <1>1 DEF HillInv, StatusOf
<1>6. HInv'
  BY <1>5, RecordsBegin
<1> QED BY <1>1, <1>3, <1>4, <1>6 DEF HillInv

(* An error is reported only by a propagation.                             *)
LEMMA FailRecords ==
    ASSUME Base, HillInv, Fail
    PROVE  HillInv'
<1>1. /\ ~status /\ step' = "failed"
      /\ step \in {"propagate", "hills"}
      /\ UNCHANGED <<request, scalars, order, status, propagations, segment, pc>>
  BY DEF Fail, Propagated, Segmented, fields
<1>2. step = "propagate"
  BY <1>1 DEF HillInv, GInv
<1>3. /\ Vert' = Vert /\ Maxima' = Maxima /\ SimplifiedMaxima' = SimplifiedMaxima
      /\ \A v : Neighbors(v)' = Neighbors(v)
  <2>1. UNCHANGED <<request, order>>
    BY <1>1
  <2> QED BY <2>1, FieldNext DEF Neighbors
<1>4. Exhausted /\ propagations = SimplifiedMaxima
  BY <1>1, <1>2 DEF HillInv, HInv
<1>5. Exhausted'
  BY <1>1, <1>3, <1>4 DEF Exhausted
<1>6. \A p \in Vert : pc[p] \notin {"segment", "segmented", "order"}
  BY <1>2 DEF Base, AtWork
<1>7. StatusOf'
  BY <1>1, <1>3, <1>4, <1>5, <1>6 DEF StatusOf
<1>8. Segments' /\ Field'
  BY <1>1, <1>2, <1>3 DEF Segments, Field, HillInv
<1> QED BY <1>1, <1>7, <1>8 DEF HillInv

(* The hills are flattened.                                                *)
LEMMA FlattenedField ==
    ASSUME NEW s \in [Vert -> Int], NEW H,
           \A h \in H : h.saddle \in Vert
    PROVE  Flattened(s, H) \in [Vert -> Int]
<1>1. DOMAIN s = Vert
  OBVIOUS
<1>2. ASSUME NEW v \in Vert, \E h \in H : v \in h.segment
      PROVE  s[(CHOOSE h \in H : v \in h.segment).saddle] \in Int
  <2>1. (CHOOSE h \in H : v \in h.segment) \in H
    BY <1>2
  <2> QED BY <2>1
<1> QED BY <1>1, <1>2 DEF Flattened

LEMMA EndPassRecords ==
    ASSUME Base, Between, HillInv, EndPass
    PROVE  HillInv'
<1>1. /\ step = "hills" /\ step' = "begin" /\ \A p \in Parents : pc[p] = "ordered"
      /\ UNCHANGED <<request, status, segment, pc>>
      /\ scalars' = IF Persistent THEN Flattened(scalars, Hills) ELSE scalars
  BY DEF EndPass, Segmented
<1>2. Vert' = Vert
  BY <1>1 DEF Vert
<1>3. GInv /\ Segments /\ Field
  BY <1>1 DEF HillInv
<1>4. \A h \in Hills : h.saddle \in Vert
  BY ParentFacts DEF Hills
<1>5. Field'
  BY <1>1, <1>2, <1>3, <1>4, FlattenedField DEF Field
<1>6. Segments' /\ StatusOf'
  BY <1>1, <1>2, <1>3 DEF Segments, StatusOf, GInv
<1> QED BY <1>1, <1>5, <1>6 DEF HillInv

(* A step of a task.                                                       *)
LEMMA PropagateRecords ==
    ASSUME IInv, SweepInv, HillInv, NEW t \in Vert, Propagate(t)
    PROVE  HillInv'
<1>1. IInv' /\ step = "propagate" /\ step' = "propagate"
  <2>1. IInv' /\ step = "propagate"
    BY PropagateKeeps
  <2>2. step' = step
    BY DEF Propagate, Start, OutOfVertices, Abort, Visit, Capture, RegisterWith,
           Dominant, Unify, Mark, propagating
  <2> QED BY <2>1, <2>2
<1>2. Base /\ Types /\ PInv /\ SInv /\ HInv /\ Field /\ PInv' /\ Segments
  BY <1>1 DEF IInv, SweepInv, HillInv
<1>3. HInv'
  BY <1>2, PropagateHills
<1>4. UNCHANGED <<request, scalars, segment>>
  BY DEF Propagate, Start, OutOfVertices, Abort, Visit, Capture, RegisterWith,
         Dominant, Unify, Mark, propagating, fields
<1>5. Vert' = Vert
  BY <1>4 DEF Vert
<1>6. Segments' /\ Field'
  BY <1>2, <1>4, <1>5 DEF Segments, Field
<1>7. StatusOf'
  BY <1>1 DEF StatusOf, IInv, Base, AtWork
<1> QED BY <1>1, <1>3, <1>6, <1>7 DEF HillInv

(* A step of the work on a hill.                                           *)
LEMMA SimplifyRecords ==
    ASSUME IInv, HillInv, NEW p \in Vert, Simplify(p)
    PROVE  HillInv'
<1>1. /\ pc[p] \in {"segment", "segmented", "order"}
      /\ UNCHANGED <<request, scalars, step>>
  BY DEF Simplify, ComputeSegment, InitLocalOrder, Iterate, ordering, fields
<1>2. step = "hills" /\ step' = "hills"
  BY <1>1 DEF HillInv, StatusOf
<1>3. Base /\ Between /\ Segments /\ GInv /\ Field
  BY <1>2 DEF IInv, HillInv
<1>4. GInv'
  BY <1>3, SegmentKeeps, OrderKeeps DEF Simplify
<1>5. Vert' = Vert
  BY <1>1 DEF Vert
<1>6. Segments'
  <2>1. CASE ComputeSegment(p)
    <3>1. p \in Parents
      BY <1>3, <2>1 DEF ComputeSegment, GInv
    <3>2. Flood(p) \in SUBSET Vert
      BY <1>3, <3>1, FloodFills DEF Above
    <3> QED BY <1>3, <1>5, <2>1, <3>2 DEF ComputeSegment, Segments
  <2>2. CASE InitLocalOrder(p) \/ Iterate(p)
    <3>1. segment' = segment
      BY <2>2 DEF InitLocalOrder, Iterate, ordering
    <3> QED BY <1>3, <1>5, <3>1 DEF Segments
  <2> QED BY <2>1, <2>2 DEF Simplify
<1>7. Field'
  BY <1>1, <1>3, <1>5 DEF Field
<1>8. StatusOf'
  BY <1>2, <1>4 DEF StatusOf, GInv
<1> QED BY <1>2, <1>4, <1>6, <1>7, <1>8 DEF HillInv

(* Stuttering steps.                                                       *)
LEMMA StillRecords ==
    ASSUME HillInv, UNCHANGED vars
    PROVE  HillInv'
<1>1. /\ UNCHANGED <<request, scalars, order, step, status, segmentation,
                     propagationMask, propagations, comp, parent, aborted>>
      /\ UNCHANGED <<criticalPoints, queue, segmentSize, segment, pc, current,
                     cur, todo>>
  BY DEF vars, fields, arrays, props, locals
<1>2. UNCHANGED <<request, order>>
  BY <1>1
<1>3. /\ Vert' = Vert /\ Maxima' = Maxima /\ SimplifiedMaxima' = SimplifiedMaxima
      /\ \A v : Larger(v)' = Larger(v) /\ Above(v)' = Above(v)
                /\ Neighbors(v)' = Neighbors(v)
  BY <1>2, FieldNext DEF Neighbors
<1>4. Segments' /\ (step' # "done" => Field')
  BY <1>1, <1>3 DEF HillInv, Segments, Field
<1>5. Exhausted' <=> Exhausted
  BY <1>1, <1>3 DEF Exhausted
<1>6. StatusOf'
  BY <1>1, <1>3, <1>5 DEF HillInv, StatusOf
<1>7. ASSUME HInv PROVE HInv'
  <2>1. \A p : /\ Saddle(p)' = Saddle(p) /\ Dome(p)' = Dome(p)
               /\ Holder(p)' = Holder(p) /\ (Marked(p)' <=> Marked(p))
    BY <1>1, <1>3 DEF Saddle, Dome, Above, Holder, Marked
  <2>2. \A p : Held(p)' = Held(p) /\ (Active(p)' <=> Active(p))
    BY <1>1, <1>3, <2>1 DEF Held, Active
  <2>3. \A p, v : Low(p, v)' <=> Low(p, v)
    BY <1>1 DEF Low, Persistent
  <2>4. \A p : Holds(p)' = Holds(p)
    BY <1>1, <1>3, <2>1 DEF Holds, Merged
  <2>5. \A p : Idle(p)' <=> Idle(p)
    BY <1>1, <2>2, <2>4 DEF Idle
  <2>6. \A p, v : Bounds(p, v)' <=> Bounds(p, v)
    BY <1>1, <1>3, <2>2 DEF Bounds, Neighbors, Above
  <2>7. \A v : Shares(v)' = Shares(v)
    BY <1>1, <1>3, <2>1 DEF Shares, Larger, Neighbors
  <2>8. \A v \in Vert : Claimed(v)'
    BY <1>1, <1>3, <1>7, <2>1, <2>7 DEF HInv, Claimed
  <2>9. ASSUME NEW p \in propagations
        PROVE  Family(p)' /\ Sunk(p)' /\ Resting(p)'
    <3>1. Family(p) /\ Sunk(p) /\ Resting(p)
      BY <1>7, <2>9 DEF HInv
    <3>2. Frozen(p) => Frozen(p)'
      BY <1>1, <1>3, <2>1 DEF Frozen, Meets, Dome, Above, Saddle, Holder, Larger, Neighbors
    <3>3. Family(p)'
      BY <1>1, <2>1, <3>1, <3>2 DEF Family, Marked
    <3>4. Sunk(p)'
      BY <1>1, <1>3, <2>1, <2>5, <2>6, <3>1
         DEF Sunk, Marked, Saddle, Holder, Larger, Neighbors, Persistent, Idle, Bounds
    <3>5. Resting(p)'
      BY <1>1, <2>1, <2>5, <3>1 DEF Resting, Marked, Saddle
    <3> QED BY <3>3, <3>4, <3>5
  <2> QED BY <1>1, <1>3, <1>5, <1>7, <2>1, <2>3, <2>8, <2>9 DEF HInv
<1>8. ASSUME GInv PROVE GInv'
  <2>1. \A q : /\ Saddle(q)' = Saddle(q) /\ Dome(q)' = Dome(q)
               /\ Low(q, Saddle(q))' <=> Low(q, Saddle(q))
               /\ Escape(q)' <=> Escape(q)
               /\ Meets(q)' <=> Meets(q)
    BY <1>1, HillsStay
  <2>2. Parents' = Parents /\ (Apart' <=> Apart)
    BY <1>1, HillsStay
  <2>3. ASSUME NEW q \in Parents PROVE Hill(q)' /\ Escape(q)'
    <3>1. Hill(q) /\ Escape(q)
      BY <1>8 DEF GInv
    <3> QED BY <1>1, <1>3, <2>1, <3>1 DEF Hill
  <2> QED BY <1>1, <1>3, <1>8, <2>2, <2>3 DEF GInv
<1> QED BY <1>1, <1>4, <1>6, <1>7, <1>8 DEF HillInv

(* Every step keeps the records.                                           *)
LEMMA NextHills ==
    ASSUME IInv, SweepInv, HillInv, [Next]_vars
    PROVE  HillInv'
<1>1. Base /\ Between
  BY DEF IInv
<1>2. CASE \E t \in Vert : Propagate(t)
  BY <1>2, PropagateRecords
<1>3. CASE \E p \in Vert : Simplify(p)
  BY <1>3, SimplifyRecords
<1>4. CASE BeginPasses
  <2>1. /\ step' = step /\ pass = "start"
        /\ UNCHANGED <<request, scalars, status, segment, pc>>
    BY <1>4 DEF BeginPasses
  <2>2. step = "begin" /\ Vert' = Vert
    BY <1>1, <2>1 DEF Between, Vert
  <2>3. StatusOf'
    BY <1>1, <2>1, <2>2, StatusKept DEF HillInv
  <2> QED BY <2>1, <2>2, <2>3 DEF HillInv, Segments, Field
<1>5. CASE FinalizePropagations
  <2>1. /\ step = "propagate" /\ step' = "hills"
        /\ UNCHANGED <<request, scalars, segment, status>>
    BY <1>5 DEF FinalizePropagations, Propagated, fields
  <2>2. Base /\ Types /\ PInv /\ SInv /\ HInv
    BY <2>1 DEF IInv, SweepInv, HillInv
  <2>3. GInv'
    BY <1>5, <2>2, FinalizeHills
  <2>4. Vert' = Vert
    BY <2>1 DEF Vert
  <2>5. StatusOf'
    BY <2>1, <2>3 DEF StatusOf, GInv
  <2> QED BY <2>1, <2>3, <2>4, <2>5 DEF HillInv, Segments, Field
<1>6. CASE Finish
  <2>1. /\ step = "begin" /\ step' = "done"
        /\ UNCHANGED <<request, status, segment, pc>>
    BY <1>6 DEF Finish
  <2>2. Vert' = Vert
    BY <2>1 DEF Vert
  <2>3. StatusOf'
    BY <1>1, <2>1, <2>2, StatusKept DEF HillInv
  <2> QED BY <2>1, <2>2, <2>3 DEF HillInv, Segments
<1> QED BY <1>1, <1>2, <1>3, <1>4, <1>5, <1>6, PassBegins, FailRecords,
           EndPassRecords, StillRecords DEF Next, Returned

LEMMA InitHills ==
    ASSUME Init
    PROVE  HillInv
<1>1. /\ request \in Requests /\ scalars = request.scalar /\ step = "begin"
      /\ status = TRUE /\ segment = [v \in Vert |-> {}]
      /\ pc = [v \in Vert |-> "none"]
  BY DEF Init
<1>2. request.scalar \in [Vert -> Int]
  BY <1>1, RequestsAssumption DEF Vert
<1> QED BY <1>1, <1>2 DEF HillInv, Segments, Field, StatusOf

(* Of every state: what the propagations have recorded of the hills they   *)
(* found, and what the hills are that a pass flattens.                     *)
THEOREM HillInvAlways == Spec => []HillInv
<1>1. IInv /\ SweepInv /\ HillInv /\ [Next]_vars => HillInv'
  BY NextHills
<1>2. Init => HillInv
  BY InitHills
<1> QED BY <1>1, <1>2, IInvAlways, SweepInvAlways, PTL DEF Spec
-------------------------------------------------------------------------------
(***************************************************************************)
(* When the simplification fails.                                          *)
(***************************************************************************)
(* An error is only reported when a part of the domain no edge leads out   *)
(* of loses all its maxima, and no hill ever has another size than the one *)
(* its propagations counted.                                               *)
FailsWhenExhausted ==
    ~status => /\ propagations = SimplifiedMaxima /\ Exhausted
               /\ \A p \in Vert : pc[p] # "segmented"

LEMMA StatusFalse ==
    ASSUME IInv, HillInv
    PROVE  FailsWhenExhausted
<1> SUFFICES ASSUME ~status
             PROVE  /\ propagations = SimplifiedMaxima /\ Exhausted
                    /\ \A p \in Vert : pc[p] # "segmented"
  BY DEF FailsWhenExhausted
<1>1. Base
  BY DEF IInv
<1>2. step \in {"propagate", "failed"}
  BY <1>1 DEF Base, HillInv, StatusOf
<1>3. CASE step = "propagate"
  BY <1>1, <1>3 DEF HillInv, HInv, Base, AtWork
<1>4. CASE step = "failed"
  BY <1>4 DEF HillInv, StatusOf
<1> QED BY <1>2, <1>3, <1>4

(* Whatever the mesh, computePropagations fails only where a part of it    *)
(* loses all its maxima, and computeSegment never finds another size than  *)
(* the propagation has counted.                                            *)
THEOREM FailsWhenExhaustedAlways == Spec => []FailsWhenExhausted
BY StatusFalse, IInvAlways, HillInvAlways, PTL

(* The mesh of every request is connected.                                 *)
ConnectedMeshes == \A r \in Requests : Connected(r.mesh, DOMAIN r.scalar)

(* The highest vertex is a maximum.                                        *)
LEMMA SomeMaximum ==
    ASSUME Base
    PROVE  Maxima # {}
<1>1. Vert # {} /\ \A v \in Vert : order[v] \in Int
  BY VertFacts DEF Base
<1>2. PICK v \in Vert : \A u \in Vert : order[u] <= order[v]
  <2>1. Vert \in SUBSET Vert
    OBVIOUS
  <2> QED BY <1>1, <2>1, HighestFacts
<1>3. Larger(v) \subseteq Vert
  BY LargerFacts DEF Base
<1>4. Larger(v) = {}
  BY <1>1, <1>2, <1>3 DEF Larger
<1> QED BY <1>4 DEF Maxima

LEMMA ExhaustedMeans ==
    ASSUME ConnectedMeshes, Base, propagations = SimplifiedMaxima, Exhausted
    PROVE  ~Persistent /\ Maxima \cap request.authorized = {}
<1>1. PICK H \in SUBSET Vert : /\ H # {}
                               /\ \A v \in H : Neighbors(v) \subseteq H
                               /\ H \cap Maxima \subseteq propagations
  BY DEF Exhausted
<1>2. request \in Requests /\ Connected(request.mesh, Vert)
  BY DEF Base, ConnectedMeshes, Vert
<1>3. H = Vert
  <2> SUFFICES ASSUME H # Vert PROVE FALSE
    OBVIOUS
  <2>1. PICK a \in H, b \in Vert \ H : {a, b} \in request.mesh
    BY <1>1, <1>2 DEF Connected
  <2>2. b \in Neighbors(a)
    BY <1>2, <2>1, EdgeFacts
  <2> QED BY <1>1, <2>1, <2>2
<1>4. Maxima \subseteq SimplifiedMaxima
  BY <1>1, <1>3 DEF Maxima
<1>5. Maxima \cap request.authorized = {}
  BY <1>4 DEF SimplifiedMaxima, Discarded
<1>6. ~Persistent
  <2> SUFFICES ASSUME Persistent PROVE FALSE
    OBVIOUS
  <2>1. request.authorized = {}
    BY <1>2, RequestsAssumption DEF Persistent
  <2>2. Discarded = Maxima /\ Maxima \subseteq Vert
    BY <2>1 DEF Discarded, Maxima
  <2>3. Highest(Discarded) \in Discarded
    BY <2>2, SomeMaximum, HighestFacts
  <2> QED BY <1>4, <2>1, <2>2, <2>3 DEF SimplifiedMaxima
<1> QED BY <1>5, <1>6

(* On a connected mesh the simplification by persistence never fails, and  *)
(* the one with authorized extrema fails only when it is left no maximum.  *)
THEOREM FailsWithoutMaximumAlways ==
    ASSUME ConnectedMeshes
    PROVE  Spec => []FailsWithoutMaximum
<1>1. IInv /\ FailsWhenExhausted => FailsWithoutMaximum
  BY ExhaustedMeans DEF IInv, FailsWhenExhausted, FailsWithoutMaximum
<1> QED BY <1>1, IInvAlways, FailsWhenExhaustedAlways, PTL
-------------------------------------------------------------------------------
(***************************************************************************)
(* Orders and fields.                                                      *)
(***************************************************************************)
(* What comes later in a rank is flattened at least as high.               *)
LEMMA RankFollows ==
    ASSUME request \in Requests, NEW flat \in [Vert -> Int],
           NEW local \in [Vert -> Int], NEW u \in Vert, NEW v \in Vert,
           Rank(flat, local)[u] < Rank(flat, local)[v]
    PROVE  flat[u] <= flat[v]
<1> DEFINE Before(w) == {x \in Vert :
                \/ flat[x] < flat[w]
                \/ flat[x] = flat[w] /\ (local[x] < local[w]
                                         \/ (local[x] = local[w] /\ x < w))}
<1> SUFFICES ASSUME ~(flat[u] <= flat[v]) PROVE FALSE
  OBVIOUS
<1>1. IsFiniteSet(Vert) /\ flat[u] \in Int /\ flat[v] \in Int
  BY VertFacts
<1>2. Before(v) \in SUBSET Before(u)
  <2>1. \A x \in Vert : flat[x] \in Int
    OBVIOUS
  <2> QED BY <1>1, <2>1
<1>3. /\ Rank(flat, local)[u] = Cardinality(Before(u))
      /\ Rank(flat, local)[v] = Cardinality(Before(v))
  BY DEF Rank
<1>4. Before(u) \in SUBSET Vert /\ Before(v) \in SUBSET Vert
  OBVIOUS
<1> HIDE DEF Before
<1>5. /\ IsFiniteSet(Before(u)) /\ Cardinality(Before(u)) \in Nat
      /\ Cardinality(Before(v)) \in Nat
  BY <1>1, <1>4, FS_Subset, FS_CardinalityType
<1>6. Cardinality(Before(v)) <= Cardinality(Before(u))
  BY <1>2, <1>5, FS_Subset
<1> QED BY <1>3, <1>5, <1>6

LEMMA InputOrderFollows ==
    ASSUME request \in Requests, NEW u \in Vert, NEW v \in Vert,
           InputOrder(request.scalar)[u] < InputOrder(request.scalar)[v]
    PROVE  request.scalar[u] <= request.scalar[v]
<1>0. PICK s : s = request.scalar
  OBVIOUS
<1> DEFINE Before(w) == {x \in Vert : s[x] < s[w] \/ (s[x] = s[w] /\ x < w)}
<1> SUFFICES ASSUME ~(s[u] <= s[v]) PROVE FALSE
  BY <1>0
<1>1. IsFiniteSet(Vert) /\ s \in Seq(Int) /\ DOMAIN s = Vert
  BY <1>0, VertFacts, RequestsAssumption DEF Vert
<1>2. \A x \in Vert : s[x] \in Int
  BY <1>1
<1>3. Before(v) \in SUBSET Before(u)
  BY <1>2
<1>4. /\ InputOrder(s)[u] = Cardinality(Before(u))
      /\ InputOrder(s)[v] = Cardinality(Before(v))
  BY <1>1 DEF InputOrder
<1>5. Before(u) \in SUBSET Vert /\ Before(v) \in SUBSET Vert
  OBVIOUS
<1> HIDE DEF Before
<1>6. /\ IsFiniteSet(Before(u)) /\ Cardinality(Before(u)) \in Nat
      /\ Cardinality(Before(v)) \in Nat
  BY <1>1, <1>5, FS_Subset, FS_CardinalityType
<1>7. Cardinality(Before(v)) <= Cardinality(Before(u))
  BY <1>3, <1>6, FS_Subset
<1> QED BY <1>0, <1>4, <1>6, <1>7

(* Every place of a numbering is taken.                                    *)
LEMMA PlacesTaken ==
    ASSUME request \in Requests, NEW o, Numbers(o), NEW i \in 1..N
    PROVE  \E v \in Vert : o[v] = i - 1
<1>1. N \in Nat /\ Vert = 1..N /\ IsFiniteSet(Vert)
  BY VertFacts
<1>2. Cardinality(Vert) = N
  BY <1>1, FS_Interval
<1>3. IsFiniteSet(0..(N - 1)) /\ Cardinality(0..(N - 1)) = N
  <2>1. N - 1 \in Int /\ 0 \in Int
    BY <1>1
  <2>2. /\ IsFiniteSet(0..(N - 1))
        /\ Cardinality(0..(N - 1)) = IF 0 > N - 1 THEN 0 ELSE N - 1 - 0 + 1
    BY <2>1, FS_Interval
  <2> QED BY <1>1, <2>2
<1>4. o \in Injection(Vert, 0..(N - 1))
  BY Fun_IsInj DEF Numbers
<1>5. o \in Surjection(Vert, 0..(N - 1))
  BY <1>1, <1>2, <1>3, <1>4, FS_Injection
<1>6. i - 1 \in 0..(N - 1)
  BY <1>1
<1> QED BY <1>5, <1>6 DEF Surjection

(* Some numbers have a greatest.                                           *)
LEMMA GreatestNumber ==
    ASSUME NEW n \in Nat, n > 0, NEW a \in [1..n -> Int]
    PROVE  \E m \in 1..n : \A j \in 1..n : a[j] <= a[m]
<1> DEFINE Over(j) == {i \in 1..n : a[i] > a[j]}
           counts == {Cardinality(Over(j)) : j \in 1..n}
<1>1. IsFiniteSet(1..n)
  BY FS_Interval
<1>2. \A j \in 1..n : Over(j) \in SUBSET (1..n)
  OBVIOUS
<1>3. \A j \in 1..n : IsFiniteSet(Over(j)) /\ Cardinality(Over(j)) \in Nat
  <2> HIDE DEF Over
  <2> QED BY <1>1, <1>2, FS_Subset, FS_CardinalityType
<1>4. counts \subseteq Nat /\ counts # {}
  <2>1. 1 \in 1..n
    OBVIOUS
  <2> HIDE DEF Over
  <2> QED BY <1>3, <2>1
<1>5. PICK c \in counts : \A d \in counts : c <= d
  <2> HIDE DEF counts
  <2> QED BY <1>4, JP!LeastNumber
<1>6. PICK m \in 1..n : c = Cardinality(Over(m))
  BY <1>5
<1>7. ASSUME NEW j \in 1..n, ~(a[j] <= a[m]) PROVE FALSE
  <2>1. \A i \in 1..n : a[i] \in Int
    OBVIOUS
  <2>2. Over(j) \in SUBSET Over(m) /\ j \in Over(m) /\ j \notin Over(j)
    BY <1>7, <2>1
  <2>3. Cardinality(Over(m)) <= Cardinality(Over(j))
    BY <1>5, <1>6
  <2> HIDE DEF Over
  <2>4. Over(j) # Over(m)
    BY <2>2
  <2> QED BY <1>3, <2>2, <2>3, <2>4, FS_Subset
<1> QED BY <1>7

(* The hills of all passes are flattened one after the other.              *)
Flattenings(s, passes) ==
    IF passes = <<>> THEN s
    ELSE IF Len(passes) = 1 THEN Flattened(s, passes[1])
    ELSE Flattened(Flattened(s, passes[1]), passes[2])

LEMMA FoldedFlattened ==
    ASSUME NEW s, NEW r,
           \/ r = <<>>
           \/ \E a : r = <<a>>
           \/ \E a, b : r = <<a, b>>
    PROVE  FoldLeft(Flattened, s, r) = Flattenings(s, r)
<1> DEFINE Is(it) == it = [x \in SUBSET (DOMAIN r) |->
                              IF x = {} THEN s
                              ELSE Flattened(it[x \ {Max(x)}], r[Max(x)])]
           flat == CHOOSE it : Is(it)
<1>1. FoldLeft(Flattened, s, r) = flat[DOMAIN r]
  BY DEF FoldLeft, MapThenFoldSet
<1>2. CASE r = <<>>
  <2> DEFINE g == [x \in {{}} |-> s]
  <2>1. DOMAIN r = {} /\ SUBSET (DOMAIN r) = {{}}
    BY <1>2
  <2>2. Is(g)
    BY <2>1
  <2>3. Is(flat)
    BY <2>2
  <2>4. flat[{}] = s
    BY <2>1, <2>3
  <2> QED BY <1>1, <1>2, <2>1, <2>4 DEF Flattenings
<1>3. Max({1}) = 1 /\ Max({2}) = 2 /\ Max({1, 2}) = 2
  BY DEF Max
<1>9. {1} # {} /\ {2} # {} /\ {1, 2} # {} /\ {1} # {2} /\ {1} # {1, 2} /\ {2} # {1, 2}
  <2>1. 1 \in {1} /\ 1 \notin {2} /\ 2 \in {2} /\ 2 \notin {1} /\ 1 \in {1, 2} /\ 2 \in {1, 2}
    OBVIOUS
  <2>2. {1} # {} /\ {2} # {} /\ {1, 2} # {}
    BY <2>1
  <2>3. {1} # {2} /\ {1} # {1, 2}
    BY <2>1
  <2>4. {2} # {1, 2}
    BY <2>1
  <2> QED BY <2>2, <2>3, <2>4
<1>10. ASSUME NEW x \in SUBSET (DOMAIN r), x # {}, NEW y, NEW i, i = Max(x),
              y = x \ {i}, NEW it, Is(it)
       PROVE  it[x] = Flattened(it[y], r[i])
  BY <1>10
<1>4. ASSUME NEW a, r = <<a>>
      PROVE  FoldLeft(Flattened, s, r) = Flattenings(s, r)
  <2> DEFINE g == [x \in {{}, {1}} |-> IF x = {} THEN s ELSE Flattened(s, a)]
  <2>1. DOMAIN r = {1} /\ SUBSET (DOMAIN r) = {{}, {1}} /\ r[1] = a /\ Len(r) = 1
        /\ r # <<>>
    BY <1>4
  <2>2. g[{}] = s /\ g[{1}] = Flattened(s, a) /\ {1} \ {1} = {}
    OBVIOUS
  <2>3. Is(g)
    <3> DEFINE h == [x \in SUBSET (DOMAIN r) |->
                        IF x = {} THEN s
                        ELSE Flattened(g[x \ {Max(x)}], r[Max(x)])]
    <3>1. h[{}] = s /\ h[{1}] = Flattened(s, a)
      BY <1>3, <2>1, <2>2
    <3>2. DOMAIN h = {{}, {1}} /\ DOMAIN g = {{}, {1}}
      BY <2>1
    <3>3. h = g
      BY <2>2, <3>1, <3>2
    <3> QED BY <3>3
  <2> HIDE DEF g
  <2>4. Is(flat)
    BY <2>3
  <2> HIDE DEF flat
  <2>5. flat[{}] = s
    BY <2>1, <2>4
  <2>6. flat[{1}] = Flattened(flat[{}], a)
    <3>1. {1} \in SUBSET (DOMAIN r) /\ {} = {1} \ {1} /\ 1 = Max({1})
      BY <1>3, <2>1
    <3> HIDE DEF Is
    <3> QED BY <1>9, <1>10, <2>1, <2>4, <3>1
  <2> QED BY <1>1, <2>1, <2>5, <2>6 DEF Flattenings
<1>5. ASSUME NEW a, NEW b, r = <<a, b>>
      PROVE  FoldLeft(Flattened, s, r) = Flattenings(s, r)
  <2> DEFINE dom == {{}, {1}, {2}, {1, 2}}
             G(x) == IF x = {} THEN s
                     ELSE IF x = {1} THEN Flattened(s, a)
                     ELSE IF x = {2} THEN Flattened(s, b)
                     ELSE Flattened(Flattened(s, a), b)
  <2>1. DOMAIN r = {1, 2} /\ SUBSET (DOMAIN r) = dom /\ r[1] = a /\ r[2] = b
        /\ Len(r) = 2 /\ r # <<>>
    BY <1>5
  <2>2. PICK g : g = [x \in dom |-> G(x)]
    OBVIOUS
  <2>3. /\ g[{}] = s /\ g[{1}] = Flattened(s, a) /\ g[{2}] = Flattened(s, b)
        /\ g[{1, 2}] = Flattened(Flattened(s, a), b)
    BY <1>9, <2>2
  <2>4. {1} \ {1} = {} /\ {2} \ {2} = {} /\ {1, 2} \ {2} = {1}
    OBVIOUS
  <2> DEFINE Next2(x) == IF x = {} THEN s
                         ELSE Flattened(g[x \ {Max(x)}], r[Max(x)])
  <2>5. Is(g)
    <3>1. ASSUME NEW x, x # {}, NEW y, NEW k, k = Max(x), y = x \ {k}
          PROVE  Next2(x) = Flattened(g[y], r[k])
      BY <3>1
    <3>2. Next2({}) = G({})
      OBVIOUS
    <3>3. Next2({1}) = G({1})
      <4>1. {} = {1} \ {1} /\ 1 = Max({1})
        BY <1>3
      <4> HIDE DEF Next2
      <4>2. Next2({1}) = Flattened(g[{}], r[1])
        BY <1>9, <3>1, <4>1
      <4> QED BY <1>9, <2>1, <2>3, <4>2
    <3>4. Next2({2}) = G({2})
      <4>1. {} = {2} \ {2} /\ 2 = Max({2})
        BY <1>3
      <4> HIDE DEF Next2
      <4>2. Next2({2}) = Flattened(g[{}], r[2])
        BY <1>9, <3>1, <4>1
      <4> QED BY <1>9, <2>1, <2>3, <4>2
    <3>5. Next2({1, 2}) = G({1, 2})
      <4>1. {1} = {1, 2} \ {2} /\ 2 = Max({1, 2})
        BY <1>3, <2>4
      <4> HIDE DEF Next2
      <4>2. Next2({1, 2}) = Flattened(g[{1}], r[2])
        BY <1>9, <3>1, <4>1
      <4>3. G({1, 2}) = Flattened(Flattened(s, a), b)
        <5>1. {1, 2} # {} /\ {1, 2} # {1} /\ {1, 2} # {2}
          BY <1>9
        <5> QED BY <5>1
      <4> HIDE DEF G
      <4>4. Flattened(g[{1}], r[2]) = Flattened(Flattened(s, a), b)
        BY <2>1, <2>3
      <4> QED BY <4>2, <4>3, <4>4
    <3>6. \A x \in dom : Next2(x) = G(x)
      <4> HIDE DEF Next2, G
      <4> QED BY <3>2, <3>3, <3>4, <3>5
    <3>7. [x \in dom |-> Next2(x)] = [x \in dom |-> G(x)]
      <4> HIDE DEF Next2, G
      <4> QED BY <3>6
    <3>8. [x \in SUBSET (DOMAIN r) |-> Next2(x)] = g
      <4> HIDE DEF Next2, G
      <4> QED BY <2>1, <2>2, <3>7
    <3> QED BY <3>8
  <2>9. Is(flat)
    BY <2>5
  <2> HIDE DEF flat
  <2>6. flat[{}] = s
    BY <2>1, <2>9
  <2>7. flat[{1}] = Flattened(flat[{}], a)
    <3>1. {1} \in SUBSET (DOMAIN r) /\ {} = {1} \ {1} /\ 1 = Max({1})
      BY <1>3, <2>1
    <3> HIDE DEF Is
    <3> QED BY <1>9, <1>10, <2>1, <2>9, <3>1
  <2>8. flat[{1, 2}] = Flattened(flat[{1}], b)
    <3>1. {1, 2} \in SUBSET (DOMAIN r) /\ {1} = {1, 2} \ {2} /\ 2 = Max({1, 2})
      BY <1>3, <2>1, <2>4
    <3> HIDE DEF Is
    <3> QED BY <1>9, <1>10, <2>1, <2>9, <3>1
  <2> QED BY <1>1, <2>1, <2>6, <2>7, <2>8 DEF Flattenings
<1> QED BY <1>2, <1>4, <1>5

(* The loop that moves the scalars apart makes them follow the order.      *)
LEMMA PerturbedFollows ==
    ASSUME request \in Requests, Numbers(order), NEW s \in [Vert -> Int],
           NEW descending \in BOOLEAN,
           DOMAIN sortedIndices = 1..N, Len(sortedIndices) = N,
           \A i \in 1..N :
              LET v == sortedIndices[IF descending THEN i ELSE N - i + 1]
              IN  v \in Vert /\ order[v] = i - 1
    PROVE  /\ Perturbed(s, descending) \in [Vert -> Int]
           /\ \A u, v \in Vert : order[u] < order[v] =>
                 Perturbed(s, descending)[u] < Perturbed(s, descending)[v]
<1> DEFINE seq == IF descending THEN sortedIndices ELSE Reverse(sortedIndices)
           place(v) == CHOOSE i \in 1..N : seq[i] = v
           Lifted(v) == {s[seq[j]] + (place(v) - j) : j \in 1..place(v)}
<1>1. N \in Nat /\ Vert = 1..N
  BY VertFacts
<1>2. \A i \in 1..N : seq[i] \in Vert /\ order[seq[i]] = i - 1
  <2>1. ASSUME NEW i \in 1..N
        PROVE  seq[i] = sortedIndices[IF descending THEN i ELSE N - i + 1]
    BY <1>1 DEF Reverse
  <2> HIDE DEF seq
  <2> QED BY <2>1
<1> HIDE DEF seq
<1>3. \A v \in Vert : place(v) = order[v] + 1 /\ place(v) \in 1..N
  <2> SUFFICES ASSUME NEW v \in Vert
               PROVE  place(v) = order[v] + 1 /\ place(v) \in 1..N
    OBVIOUS
  <2>1. order[v] \in 0..(N - 1)
    BY DEF Numbers
  <2>2. order[v] + 1 \in 1..N
    BY <1>1, <2>1
  <2>3. PICK i \in 1..N : i = order[v] + 1
    BY <2>2
  <2>4. seq[i] \in Vert /\ order[seq[i]] = i - 1
    BY <1>2
  <2>7. order[seq[i]] = order[v]
    BY <2>1, <2>3, <2>4
  <2>8. seq[i] = v
    BY <2>4, <2>7 DEF Numbers
  <2>5. place(v) \in 1..N /\ seq[place(v)] = v
    BY <2>8
  <2> HIDE DEF place
  <2>6. order[v] = place(v) - 1
    BY <1>2, <2>5
  <2> QED BY <1>1, <2>1, <2>5, <2>6
<1> HIDE DEF place
<1>4. ASSUME NEW v \in Vert
      PROVE  /\ Max(Lifted(v)) \in Int /\ Max(Lifted(v)) \in Lifted(v)
             /\ \A x \in Lifted(v) : x <= Max(Lifted(v))
  <2> DEFINE n == place(v)
             a == [j \in 1..n |-> s[seq[j]] + (n - j)]
  <2>1. n \in Nat /\ n > 0 /\ n \in 1..N
    BY <1>1, <1>3
  <2>2. \A j \in 1..n : s[seq[j]] \in Int
    BY <1>1, <1>2, <2>1
  <2> HIDE DEF n
  <2>3. a \in [1..n -> Int]
    BY <2>1, <2>2
  <2>4. Lifted(v) = {a[j] : j \in 1..n}
    BY DEF n
  <2> HIDE DEF a, Lifted
  <2>5. PICK m \in 1..n : \A j \in 1..n : a[j] <= a[m]
    BY <2>1, <2>3, GreatestNumber
  <2>6. a[m] \in Lifted(v) /\ \A x \in Lifted(v) : x \in Int /\ a[m] >= x
    <3>1. \A j \in 1..n : a[j] \in Int
      BY <2>3
    <3> QED BY <2>4, <2>5, <3>1
  <2>7. /\ Max(Lifted(v)) \in Lifted(v)
        /\ \A x \in Lifted(v) : Max(Lifted(v)) >= x
    BY <2>6 DEF Max
  <2> QED BY <2>6, <2>7
<1>5. \A v \in Vert : Perturbed(s, descending)[v] = Max(Lifted(v))
  BY DEF Perturbed, seq, place
<1>6. Perturbed(s, descending) \in [Vert -> Int]
  <2>1. Perturbed(s, descending) = [v \in Vert |-> Max(Lifted(v))]
    BY DEF Perturbed, seq, place
  <2> HIDE DEF Lifted
  <2> QED BY <1>4, <2>1
<1>7. ASSUME NEW u \in Vert, NEW v \in Vert, order[u] < order[v]
      PROVE  Max(Lifted(u)) < Max(Lifted(v))
  <2>1. /\ place(u) \in 1..N /\ place(v) \in 1..N /\ place(u) < place(v)
        /\ order[u] \in Int /\ order[v] \in Int
    <3>1. order[u] \in Int /\ order[v] \in Int
      BY DEF Numbers
    <3> QED BY <1>3, <1>7, <3>1
  <2>2. PICK j \in 1..place(u) : Max(Lifted(u)) = s[seq[j]] + (place(u) - j)
    BY <1>4
  <2>3. j \in 1..place(v) /\ j \in 1..N /\ s[seq[j]] \in Int
    <3>1. j \in 1..place(v) /\ j \in 1..N
      <4>1. PICK x, y : x = place(u) /\ y = place(v)
        OBVIOUS
      <4>2. j \in 1..x /\ x \in 1..N /\ y \in 1..N /\ x < y
        BY <2>1, <4>1
      <4>3. j \in 1..y /\ j \in 1..N
        BY <1>1, <4>2
      <4> QED BY <4>1, <4>3
    <3>2. seq[j] \in Vert
      BY <1>2, <3>1
    <3> QED BY <3>1, <3>2
  <2>4. s[seq[j]] + (place(v) - j) \in Lifted(v)
    BY <2>3
  <2>5. s[seq[j]] + (place(v) - j) <= Max(Lifted(v)) /\ Max(Lifted(v)) \in Int
    BY <1>4, <2>4
  <2> HIDE DEF Lifted
  <2>6. PICK x, y, z : x = s[seq[j]] /\ y = Max(Lifted(u)) /\ z = Max(Lifted(v))
    OBVIOUS
  <2>7. /\ x \in Int /\ z \in Int /\ y = x + (place(u) - j) /\ x + (place(v) - j) <= z
        /\ place(u) \in Int /\ place(v) \in Int /\ j \in Int /\ place(u) < place(v)
    BY <1>1, <2>1, <2>2, <2>3, <2>5, <2>6
  <2> QED BY <2>6, <2>7
<1> HIDE DEF Lifted
<1> QED BY <1>5, <1>6, <1>7
-------------------------------------------------------------------------------
(***************************************************************************)
(* The field a pass leaves.                                                *)
(***************************************************************************)
LEMMA AppendSecond ==
    ASSUME NEW a, NEW h
    PROVE  Append(<<a>>, h) = <<a, h>>
<1>1. <<a>> \in Seq({a, h}) /\ Len(<<a>>) = 1 /\ h \in {a, h}
  OBVIOUS
<1>2. PICK s : s = Append(<<a>>, h)
  OBVIOUS
<1>3. s \in Seq({a, h}) /\ Len(s) = 2 /\ s[1] = a /\ s[2] = h
  BY <1>1, <1>2
<1>4. PICK r : r = <<a, h>>
  OBVIOUS
<1>5. s \in [1..2 -> {a, h}] /\ r \in [1..2 -> {a, h}] /\ r[1] = a /\ r[2] = h
  BY <1>3, <1>4
<1>6. \A i \in 1..2 : s[i] = r[i]
  BY <1>3, <1>5
<1>7. s = r
  BY <1>5, <1>6
<1> QED BY <1>2, <1>4, <1>7

(* What the hills that were removed make of the field.                     *)
Flat == IF Persistent THEN scalars ELSE Flattenings(scalars, removed)

(* The field that is left follows the order, in the pass for the minima    *)
(* its inverse.                                                            *)
FollowsOrder ==
    \A u, v \in Vert : order[u] < order[v] =>
        IF pass = "minima" THEN Flat[v] <= Flat[u] ELSE Flat[u] <= Flat[v]

(* How far a scalar has moved: the first pass lowers it, the second one    *)
(* raises it, neither by more than the threshold.                          *)
Drift(v) ==
    LET moved == scalars[v] - request.scalar[v]
    IN  /\ pass = "minima" => -request.threshold <= moved /\ moved <= 0
        /\ pass = "end" => /\ -request.threshold <= moved
                           /\ moved <= request.threshold

(* The loop over sortedIndices goes from the lowest vertex to the highest. *)
Descending == Persistent /\ request.pairType = "maxima"
Sorted ==
    /\ DOMAIN sortedIndices = 1..N /\ Len(sortedIndices) = N
    /\ \A i \in 1..N :
          LET v == sortedIndices[IF Descending THEN i ELSE N - i + 1]
          IN  v \in Vert /\ order[v] = i - 1

(* Passes come one after the other and leave their hills in removed.       *)
PassOf ==
    /\ pass \in {"start", "maxima", "minima", "end"}
    /\ step \in {"propagate", "hills"} => pass \in {"maxima", "minima"}
    /\ step = "done" => pass = "end"
    /\ \/ removed = <<>>
       \/ pass \in {"minima", "end"} /\ removed = <<removed[1]>>
       \/ pass = "end" /\ removed = <<removed[1], removed[2]>>
    /\ pass \in {"start", "maxima"} => /\ order = InputOrder(request.scalar)
                                       /\ scalars = request.scalar
    /\ pass = "minima" /\ Persistent => request.pairType # "maxima"

(* If the scalars shall tell the order apart and minima are not examined   *)
(* by their persistence, the input has a minimum that stays.               *)
TellsApart ==
    request.perturb /\ ~Persistent => IsAuthorized("minima")

LevelInv ==
    /\ PassOf
    /\ pass = "end" /\ request.perturb /\ TellsApart => Sorted
    /\ step # "done" => /\ Flat \in [Vert -> Int] /\ FollowsOrder
                        /\ Persistent => \A v \in Vert : Drift(v)
    /\ TellsApart => ScalarsFollowOrder
    /\ ErrorBounded

LEMMA SameTelling ==
    ASSUME request' = request
    PROVE  TellsApart' <=> TellsApart
BY DEF TellsApart, Persistent, IsAuthorized, ShowsMinimum, Neighbors, InputOrder

(* A vertex of a hill goes to the saddle of that hill, the only one it     *)
(* lies in.                                                                *)
LEMMA TopOf ==
    ASSUME Base, Between, GInv, \A p \in Parents : pc[p] = "ordered"
    PROVE  \E top \in [Vert -> Vert] :
              /\ FlatOrder = [v \in Vert |-> order[top[v]]]
              /\ \A s \in [Vert -> Int] :
                    Flattened(s, Hills) = [v \in Vert |-> s[top[v]]]
              /\ \A v \in Vert : \/ top[v] = v
                                 \/ \E p \in Parents : v \in Dome(p)
                                                        /\ top[v] = Saddle(p)
<1> DEFINE In(v) == \E p \in Parents : v \in segment[p]
           own(v) == CHOOSE p \in Parents : v \in segment[p]
           top == [v \in Vert |-> IF In(v) THEN Saddle(own(v)) ELSE v]
<1>1. \A p \in Parents : segment[p] = Dome(p) /\ Saddle(p) \in Vert
  BY ParentFacts DEF GInv, Hill
<1>2. \A v \in Vert : In(v) => own(v) \in Parents /\ v \in segment[own(v)]
  OBVIOUS
<1> HIDE DEF own
<1>3. top \in [Vert -> Vert]
  BY <1>1, <1>2
<1>4. FlatOrder = [v \in Vert |-> order[top[v]]]
  BY DEF FlatOrder, own
<1>5. ASSUME NEW v \in Vert, NEW h \in Hills, v \in h.segment
      PROVE  In(v) /\ h.saddle = Saddle(own(v))
  <2>1. PICK q \in Parents : h = [segment |-> segment[q], saddle |-> Saddle(q)]
    BY DEF Hills
  <2>2. v \in segment[q]
    BY <1>5, <2>1
  <2>3. own(v) = q
    <3>1. v \in Dome(q) /\ v \in Dome(own(v)) /\ own(v) \in Parents
      BY <1>1, <1>2, <2>2
    <3> QED BY <3>1 DEF GInv, Apart
  <2> QED BY <2>1, <2>2, <2>3
<1>6. ASSUME NEW v \in Vert, In(v) PROVE \E h \in Hills : v \in h.segment
  <2>1. PICK q \in Parents : v \in segment[q]
    BY <1>6
  <2>2. PICK h : h = [segment |-> segment[q], saddle |-> Saddle(q)]
    OBVIOUS
  <2> QED BY <2>1, <2>2 DEF Hills
<1>7. ASSUME NEW s \in [Vert -> Int]
      PROVE  Flattened(s, Hills) = [v \in Vert |-> s[top[v]]]
  <2>1. ASSUME NEW v \in Vert
        PROVE  (IF \E h \in Hills : v \in h.segment
                THEN s[(CHOOSE h \in Hills : v \in h.segment).saddle]
                ELSE s[v]) = s[top[v]]
    <3>1. CASE \E h \in Hills : v \in h.segment
      <4>1. PICK h : h = CHOOSE k \in Hills : v \in k.segment
        OBVIOUS
      <4>2. h \in Hills /\ v \in h.segment
        BY <3>1, <4>1
      <4>3. In(v) /\ h.saddle = Saddle(own(v))
        BY <1>5, <4>2
      <4>4. top[v] = h.saddle
        BY <4>3
      <4> QED BY <3>1, <4>1, <4>4
    <3>2. CASE ~\E h \in Hills : v \in h.segment
      <4>1. ~In(v)
        BY <1>6, <3>2
      <4> QED BY <3>2, <4>1
    <3> QED BY <3>1, <3>2
  <2> HIDE DEF top
  <2> QED BY <2>1 DEF Flattened
<1>8. \A v \in Vert : \/ top[v] = v
                      \/ \E p \in Parents : v \in Dome(p) /\ top[v] = Saddle(p)
  BY <1>1, <1>2
<1> HIDE DEF top
<1> QED BY <1>3, <1>4, <1>7, <1>8

(* What the pass leaves of a field that followed the order, in one         *)
(* direction or the other, follows the rank.                               *)
LEMMA FlattenedFollows ==
    ASSUME Base, Between, GInv, \A p \in Parents : pc[p] = "ordered",
           NEW s \in [Vert -> Int], NEW up \in BOOLEAN,
           \A u, v \in Vert : order[u] < order[v] =>
              IF up THEN s[u] <= s[v] ELSE s[v] <= s[u]
    PROVE  \A u, v \in Vert :
              Rank(FlatOrder, FinalLocalOrder)[u]
                 < Rank(FlatOrder, FinalLocalOrder)[v] =>
              IF up THEN Flattened(s, Hills)[u] <= Flattened(s, Hills)[v]
              ELSE Flattened(s, Hills)[v] <= Flattened(s, Hills)[u]
<1>1. PICK top \in [Vert -> Vert] :
              /\ FlatOrder = [v \in Vert |-> order[top[v]]]
              /\ \A r \in [Vert -> Int] :
                    Flattened(r, Hills) = [v \in Vert |-> r[top[v]]]
  BY TopOf
<1>2. /\ N \in Int /\ request \in Requests
      /\ \A v \in Vert : localOrder[v] \in Int /\ order[v] \in Int
  BY VertFacts DEF Base
<1>3. FinalLocalOrder \in [Vert -> Int]
  BY <1>2 DEF FinalLocalOrder
<1>4. FlatOrder \in [Vert -> Int]
  BY <1>1, <1>2
<1> SUFFICES ASSUME NEW u \in Vert, NEW v \in Vert,
                    Rank(FlatOrder, FinalLocalOrder)[u]
                       < Rank(FlatOrder, FinalLocalOrder)[v]
             PROVE  IF up THEN Flattened(s, Hills)[u] <= Flattened(s, Hills)[v]
                    ELSE Flattened(s, Hills)[v] <= Flattened(s, Hills)[u]
  OBVIOUS
<1>5. FlatOrder[u] <= FlatOrder[v]
  BY <1>2, <1>3, <1>4, RankFollows
<1>6. PICK a \in Vert, b \in Vert : a = top[u] /\ b = top[v]
  BY <1>1
<1>7. order[a] <= order[b] /\ order[a] \in Int /\ order[b] \in Int
  BY <1>1, <1>2, <1>5, <1>6
<1>8. Flattened(s, Hills)[u] = s[a] /\ Flattened(s, Hills)[v] = s[b]
  BY <1>1, <1>6
<1>9. s[a] \in Int /\ s[b] \in Int
  OBVIOUS
<1>10. CASE order[a] = order[b]
  <2>1. a = b
    BY <1>10 DEF Base
  <2> QED BY <1>8, <1>9, <2>1
<1>11. CASE order[a] < order[b]
  BY <1>8, <1>11
<1> QED BY <1>7, <1>10, <1>11

(* A vertex is moved to its saddle, and no further than the threshold.     *)
LEMMA TopMoves ==
    ASSUME Base, Between, GInv, \A p \in Parents : pc[p] = "ordered",
           Persistent, scalars \in [Vert -> Int], NEW up \in BOOLEAN,
           \A u, v \in Vert : order[u] < order[v] =>
              IF up THEN scalars[u] <= scalars[v] ELSE scalars[v] <= scalars[u],
           NEW v \in Vert
    PROVE  LET moved == Flattened(scalars, Hills)[v] - scalars[v]
           IN  IF up THEN -request.threshold <= moved /\ moved <= 0
               ELSE 0 <= moved /\ moved <= request.threshold
<1>1. PICK top \in [Vert -> Vert] :
              /\ Flattened(scalars, Hills) = [w \in Vert |-> scalars[top[w]]]
              /\ \A w \in Vert : \/ top[w] = w
                                 \/ \E p \in Parents : w \in Dome(p)
                                                        /\ top[w] = Saddle(p)
  BY TopOf
<1>2. PICK a \in Int, b \in Int, k \in Nat :
          /\ a = scalars[v] /\ b = scalars[top[v]] /\ k = request.threshold
          /\ Flattened(scalars, Hills)[v] = b
  <2>1. request.threshold \in Nat
    BY RequestsAssumption DEF Base, Persistent
  <2>2. scalars[v] \in Int /\ scalars[top[v]] \in Int
    BY <1>1
  <2> QED BY <1>1, <2>1, <2>2
<1>3. CASE top[v] = v
  <2>1. a = b
    BY <1>2, <1>3
  <2>2. b - a = 0 /\ -k <= 0 /\ 0 <= k
    BY <2>1
  <2> QED BY <1>2, <2>2
<1>4. CASE \E p \in Parents : v \in Dome(p) /\ top[v] = Saddle(p)
  <2>1. PICK p \in Parents : v \in Dome(p) /\ top[v] = Saddle(p)
    BY <1>4
  <2>2. p \in Vert /\ Saddle(p) \in Vert /\ Dome(p) \subseteq Above(Saddle(p))
    BY ParentFacts, FloodFills DEF Between
  <2>3. order[Saddle(p)] < order[v] /\ order[v] <= order[p]
    BY <2>1, <2>2 DEF GInv, Hill, Above
  <2>4. PICK c \in Int : c = scalars[p]
    BY <2>2
  <2>5. Dist(c, b) <= k
    BY <1>2, <2>1, <2>4 DEF GInv, Hill, Low
  <2>6. IF up THEN b <= a ELSE a <= b
    BY <1>2, <2>1, <2>2, <2>3
  <2>7. IF up THEN a <= c ELSE c <= a
    <3>1. CASE order[v] = order[p]
      <4>1. v = p
        BY <2>2, <3>1 DEF Base
      <4> QED BY <1>2, <2>4, <4>1
    <3>2. CASE order[v] < order[p]
      BY <1>2, <2>2, <2>4, <3>2
    <3>3. order[v] \in Int /\ order[p] \in Int
      BY <2>2 DEF Base
    <3> QED BY <2>3, <3>1, <3>2, <3>3
  <2>8. IF up THEN -k <= b - a /\ b - a <= 0 ELSE 0 <= b - a /\ b - a <= k
    BY <2>5, <2>6, <2>7 DEF Dist
  <2> QED BY <1>2, <2>8
<1> QED BY <1>1, <1>3, <1>4

(* Steps that edit no field.                                               *)
LEMMA LevelsKept ==
    ASSUME LevelInv,
           UNCHANGED <<request, scalars, order, sortedIndices, removed, pass>>,
           step' = "done" => step = "done",
           step # "done",
           step' \in {"propagate", "hills"} => pass \in {"maxima", "minima"}
    PROVE  LevelInv'
<1>1. Vert' = Vert /\ N' = N /\ (Persistent' <=> Persistent)
  BY DEF Vert, N, Persistent
<1>2. Flat' = Flat
  <2>1. Flattenings(scalars, removed)' = Flattenings(scalars, removed)
    BY DEF Flattenings, Flattened
  <2> QED BY <1>1, <2>1 DEF Flat
<1>3. PassOf'
  BY <1>1 DEF LevelInv, PassOf, InputOrder
<1>4. Sorted => Sorted'
  BY <1>1 DEF Sorted, Descending
<1>5. Flat' \in [Vert' -> Int] /\ FollowsOrder'
  BY <1>1, <1>2 DEF LevelInv, FollowsOrder
<1>6. Persistent' => \A v \in Vert' : Drift(v)'
  BY <1>1 DEF LevelInv, Drift
<1>7. ScalarsFollowOrder' /\ ErrorBounded'
  BY DEF ScalarsFollowOrder, ErrorBounded
<1>8. pass' = "end" /\ request'.perturb /\ TellsApart' => Sorted'
  BY <1>4, SameTelling DEF LevelInv
<1> QED BY <1>3, <1>5, <1>6, <1>7, <1>8 DEF LevelInv

LEMMA InitLevels ==
    ASSUME Init
    PROVE  LevelInv
<1>1. /\ request \in Requests /\ scalars = request.scalar /\ step = "begin"
      /\ pass = "start" /\ removed = <<>> /\ order = InputOrder(request.scalar)
  BY DEF Init
<1>2. PassOf
  BY <1>1 DEF PassOf
<1>3. Flat = request.scalar
  BY <1>1 DEF Flat, Flattenings
<1>4. request.scalar \in [Vert -> Int]
  BY <1>1, RequestsAssumption DEF Vert
<1>5. FollowsOrder
  BY <1>1, <1>3, InputOrderFollows DEF FollowsOrder
<1>6. \A v \in Vert : Drift(v)
  BY <1>1 DEF Drift
<1>7. ScalarsFollowOrder /\ ErrorBounded
  BY <1>1 DEF ScalarsFollowOrder, ErrorBounded
<1> QED BY <1>1, <1>2, <1>3, <1>4, <1>5, <1>6, <1>7 DEF LevelInv

(* Invert turns the order around.                                          *)
LEMMA InvertTurns ==
    ASSUME request \in Requests, NEW o, Numbers(o), NEW u \in Vert, NEW v \in Vert
    PROVE  Invert(o)[u] < Invert(o)[v] <=> o[v] < o[u]
<1>1. N \in Nat
  BY VertFacts
<1>2. o[u] \in 0..(N - 1) /\ o[v] \in 0..(N - 1)
  BY DEF Numbers
<1>3. Invert(o)[u] = N - 1 - o[u] /\ Invert(o)[v] = N - 1 - o[v]
  BY DEF Invert
<1> QED BY <1>1, <1>2, <1>3

(* Where the scalars shall tell the order apart, minima are examined at    *)
(* last unless only maxima are, by their persistence.                      *)
LEMMA LastPass ==
    ASSUME TellsApart, request \in Requests, request.perturb, ~Wanted("minima")
    PROVE  Descending
<1>1. CASE Persistent
  BY <1>1, RequestsAssumption DEF Wanted, Descending
<1>2. CASE ~Persistent
  BY <1>2 DEF TellsApart, Wanted
<1> QED BY <1>1, <1>2

LEMMA BeginPassesLevels ==
    ASSUME Base, Between, LevelInv, BeginPasses
    PROVE  LevelInv'
<1>1. /\ pass = "start" /\ pass' = NextPass("start") /\ step' = step
      /\ order' = IF pass' = "minima" THEN Invert(order) ELSE order
      /\ UNCHANGED <<request, scalars, sortedIndices, removed>>
  BY DEF BeginPasses
<1>2. /\ step = "begin" /\ removed = <<>>
      /\ order = InputOrder(request.scalar) /\ scalars = request.scalar
      /\ Flat \in [Vert -> Int] /\ FollowsOrder
  BY <1>1 DEF Between, LevelInv, PassOf
<1>3. Vert' = Vert /\ (Persistent' <=> Persistent)
  BY <1>1 DEF Vert, Persistent
<1>4. Flat = scalars /\ Flat' = scalars
  BY <1>1, <1>2 DEF Flat, Flattenings
<1>5. /\ pass' \in {"maxima", "minima", "end"}
      /\ pass' = "minima" => Wanted("minima")
      /\ pass' = "end" => ~Wanted("maxima") /\ ~Wanted("minima")
  BY <1>1 DEF NextPass
<1>6. PassOf'
  <2>1. pass' = "minima" /\ Persistent => request.pairType # "maxima"
    BY <1>5 DEF Wanted
  <2>2. InputOrder(request.scalar)' = InputOrder(request.scalar)
    BY <1>1 DEF InputOrder
  <2> QED BY <1>1, <1>2, <1>3, <1>5, <2>1, <2>2 DEF PassOf
<1>7. FollowsOrder'
  <2>1. request \in Requests /\ Numbers(order)
    BY OrderNumbers DEF Base
  <2>2. \A u, v \in Vert : order[u] < order[v] => scalars[u] <= scalars[v]
    BY <1>1, <1>2, <1>4 DEF FollowsOrder
  <2>3. CASE pass' = "minima"
    <3>1. order' = Invert(order)
      BY <1>1, <2>3
    <3>2. \A u, v \in Vert : order'[u] < order'[v] => order[v] < order[u]
      BY <2>1, <3>1, InvertTurns
    <3> QED BY <1>3, <1>4, <2>2, <2>3, <3>2 DEF FollowsOrder
  <2>4. CASE pass' # "minima"
    <3>1. order' = order
      BY <1>1, <2>4
    <3> QED BY <1>3, <1>4, <2>2, <2>4, <3>1 DEF FollowsOrder
  <2> QED BY <2>3, <2>4
<1>8. Persistent' => \A v \in Vert' : Drift(v)'
  <2> SUFFICES ASSUME Persistent, NEW v \in Vert PROVE Drift(v)'
    BY <1>3
  <2>1. PICK k \in Nat : k = request.threshold /\ k = request'.threshold
    BY <1>1, RequestsAssumption DEF Base, Persistent
  <2>2. PICK a \in Int : a = scalars'[v] /\ a = request'.scalar[v]
    BY <1>1, <1>2, <1>4
  <2>3. a - a = 0 /\ -k <= 0 /\ 0 <= k
    OBVIOUS
  <2> QED BY <2>1, <2>2, <2>3 DEF Drift
<1>9. ~(pass' = "end" /\ request'.perturb /\ TellsApart')
  <2> SUFFICES ASSUME pass' = "end", request.perturb, TellsApart PROVE FALSE
    BY <1>1, SameTelling
  <2>1. Descending
    BY <1>2, <1>5, LastPass DEF Base
  <2> QED BY <1>5, <2>1 DEF Descending, Wanted
<1>10. ScalarsFollowOrder' /\ ErrorBounded'
  BY <1>1, <1>2 DEF ScalarsFollowOrder, ErrorBounded
<1>11. Flat' \in [Vert' -> Int]
  BY <1>2, <1>3, <1>4
<1> QED BY <1>6, <1>7, <1>8, <1>9, <1>10, <1>11 DEF LevelInv

(* The pass sorts the vertices by their rank.                              *)
LEMMA SortedByRank ==
    ASSUME request \in Requests, NEW rank, Numbers(rank), NEW i \in 1..N,
           NEW w, w = CHOOSE v \in Vert : rank[v] = i - 1
    PROVE  w \in Vert /\ rank[w] = i - 1
BY PlacesTaken

LEMMA EndPassLevels ==
    ASSUME Base, Between, GInv, LevelInv, EndPass
    PROVE  LevelInv'
<1> DEFINE R == Rank(FlatOrder, FinalLocalOrder)
<1>1. /\ step = "hills" /\ \A p \in Parents : pc[p] = "ordered"
      /\ request' = request /\ step' = "begin"
      /\ sortedIndices' = [i \in 1..N |-> CHOOSE v \in Vert : R[v] = i - 1]
      /\ scalars' = IF Persistent THEN Flattened(scalars, Hills) ELSE scalars
      /\ removed' = Append(removed, Hills)
      /\ pass' = NextPass(pass)
      /\ order' = IF pass' = "minima" THEN Invert(Restored(R)) ELSE Restored(R)
  BY DEF EndPass, Segmented
<1>2. /\ pass \in {"maxima", "minima"} /\ PassOf /\ FollowsOrder
      /\ Flat \in [Vert -> Int] /\ (Persistent => \A v \in Vert : Drift(v))
  BY <1>1 DEF LevelInv, PassOf
<1>3. /\ Vert' = Vert /\ N' = N /\ (Persistent' <=> Persistent)
      /\ N \in Nat /\ Vert = 1..N /\ request \in Requests
  BY <1>1, VertFacts DEF Vert, N, Persistent, Base
<1>4. Numbers(R)
  <2>1. \A v \in Vert : localOrder[v] \in Int /\ order[v] \in Int
    BY <1>3 DEF Base
  <2>2. FinalLocalOrder \in [Vert -> Int]
    BY <1>3, <2>1 DEF FinalLocalOrder
  <2>3. PICK top \in [Vert -> Vert] : FlatOrder = [v \in Vert |-> order[top[v]]]
    BY <1>1, TopOf
  <2>4. FlatOrder \in [Vert -> Int]
    BY <2>1, <2>3
  <2> QED BY <1>3, <2>2, <2>4, RankNumbers
<1> HIDE DEF R
<1>5. /\ pass = "minima" => pass' = "end" /\ order' = Invert(R)
      /\ pass = "maxima" => \/ pass' = "minima" /\ order' = Invert(R)
                                  /\ Wanted("minima")
                            \/ pass' = "end" /\ order' = R /\ ~Wanted("minima")
  BY <1>1, <1>2 DEF NextPass, Restored
<1>6. Flat' = Flattened(Flat, Hills) /\ (~Persistent => scalars' = scalars)
  <2>1. CASE Persistent
    BY <1>1, <1>3, <2>1 DEF Flat
  <2>2. CASE ~Persistent
    <3>1. removed = <<>> \/ removed = <<removed[1]>>
      BY <1>2 DEF PassOf
    <3>2. scalars' = scalars
      BY <1>1, <2>2
    <3>3. Flat = Flattenings(scalars, removed) /\ Flat' = Flattenings(scalars, removed')
      <4>1. Flat' = Flattenings(scalars', removed')
        BY <1>3, <2>2 DEF Flat, Flattenings, Flattened
      <4> QED BY <2>2, <3>2, <4>1 DEF Flat
    <3>4. CASE removed = <<>>
      <4>1. removed' = <<Hills>>
        BY <1>1, <3>4
      <4>2. removed' # <<>> /\ Len(removed') = 1 /\ removed'[1] = Hills
        BY <4>1
      <4> QED BY <3>2, <3>3, <3>4, <4>2 DEF Flattenings
    <3>5. CASE removed = <<removed[1]>>
      <4>0. PICK a : a = removed[1]
        OBVIOUS
      <4>1. removed' = <<a, Hills>> /\ removed = <<a>>
        <5>1. removed = <<a>> /\ removed' = Append(removed, Hills)
          BY <1>1, <3>5, <4>0
        <5>2. \A h : Append(<<a>>, h) = <<a, h>>
          BY AppendSecond
        <5> QED BY <5>1, <5>2
      <4>2. /\ removed' # <<>> /\ Len(removed') = 2 /\ removed'[1] = a
            /\ removed'[2] = Hills
            /\ removed # <<>> /\ Len(removed) = 1 /\ removed[1] = a
        BY <4>1
      <4> QED BY <3>2, <3>3, <4>2 DEF Flattenings
    <3> QED BY <3>1, <3>4, <3>5
  <2> QED BY <2>1, <2>2
<1>7. Flat' \in [Vert -> Int]
  <2>1. \A h \in Hills : h.saddle \in Vert
    BY ParentFacts DEF Hills
  <2> QED BY <1>2, <1>6, <2>1, FlattenedField
<1>8. PassOf'
  <2>1. pass' \in {"minima", "end"}
    BY <1>2, <1>5
  <2>2. pass' = "minima" => pass = "maxima" /\ Wanted("minima")
    BY <1>2, <1>5
  <2>3. removed' = <<removed'[1]>> \/ (pass' = "end" /\ removed' = <<removed'[1], removed'[2]>>)
    <3>1. CASE removed = <<>>
      BY <1>1, <3>1
    <3>2. CASE pass \in {"minima", "end"} /\ removed = <<removed[1]>>
      <4>0. PICK a : a = removed[1]
        OBVIOUS
      <4>1. removed' = <<a, Hills>>
        <5>1. removed = <<a>> /\ removed' = Append(removed, Hills)
          BY <1>1, <3>2, <4>0
        <5>2. \A h : Append(<<a>>, h) = <<a, h>>
          BY AppendSecond
        <5> QED BY <5>1, <5>2
      <4> QED BY <1>2, <1>5, <3>2, <4>1
    <3> QED BY <1>2, <3>1, <3>2 DEF PassOf
  <2>4. pass' = "minima" /\ Persistent => request.pairType # "maxima"
    BY <2>2 DEF Wanted
  <2> QED BY <1>1, <1>3, <2>1, <2>3, <2>4 DEF PassOf
<1>9. PICK up \in BOOLEAN : up <=> pass = "maxima"
  OBVIOUS
<1>10. \A u, v \in Vert : order[u] < order[v] =>
          IF up THEN Flat[u] <= Flat[v] ELSE Flat[v] <= Flat[u]
  BY <1>2, <1>9 DEF FollowsOrder
<1>11. \A u, v \in Vert : R[u] < R[v] =>
          IF up THEN Flat'[u] <= Flat'[v] ELSE Flat'[v] <= Flat'[u]
  BY <1>1, <1>2, <1>6, <1>10, FlattenedFollows DEF R
<1>12. \A u, v \in Vert : Invert(R)[u] < Invert(R)[v] <=> R[v] < R[u]
  BY <1>3, <1>4, InvertTurns
<1>13. FollowsOrder'
  <2>1. ASSUME NEW u \in Vert, NEW v \in Vert, order'[u] < order'[v]
        PROVE  IF pass' = "minima" THEN Flat'[v] <= Flat'[u] ELSE Flat'[u] <= Flat'[v]
    <3>1. CASE pass = "minima"
      BY <1>5, <1>9, <1>11, <1>12, <2>1, <3>1
    <3>2. CASE pass = "maxima" /\ pass' = "minima"
      BY <1>5, <1>9, <1>11, <1>12, <2>1, <3>2
    <3>3. CASE pass = "maxima" /\ pass' = "end"
      BY <1>5, <1>9, <1>11, <2>1, <3>3
    <3> QED BY <1>2, <1>5, <3>1, <3>2, <3>3
  <2> QED BY <1>3, <2>1 DEF FollowsOrder
<1>14. Persistent' => \A v \in Vert' : Drift(v)'
  <2> SUFFICES ASSUME Persistent, NEW v \in Vert PROVE Drift(v)'
    BY <1>3
  <2>1. scalars \in [Vert -> Int] /\ Flat = scalars
    BY <1>2 DEF Flat
  <2>2. PICK k \in Nat : k = request.threshold /\ k = request'.threshold
    BY <1>1, RequestsAssumption DEF Base, Persistent
  <2>3. scalars' = Flattened(scalars, Hills) /\ scalars' \in [Vert -> Int]
    BY <1>1, <1>3, <1>7 DEF Flat
  <2>4. PICK a \in Int, b \in Int, c \in Int :
            /\ a = request.scalar[v] /\ b = scalars[v] /\ c = scalars'[v]
            /\ a = request'.scalar[v]
    <3>1. request.scalar[v] \in Int
      BY <1>3, RequestsAssumption DEF Vert
    <3>2. scalars[v] \in Int /\ scalars'[v] \in Int
      BY <2>1, <2>3
    <3> QED BY <1>1, <3>1, <3>2
  <2>5. IF up THEN -k <= c - b /\ c - b <= 0 ELSE 0 <= c - b /\ c - b <= k
    <3>1. \A x, y \in Vert : order[x] < order[y] =>
             IF up THEN scalars[x] <= scalars[y] ELSE scalars[y] <= scalars[x]
      BY <1>10, <2>1
    <3> QED BY <1>1, <2>1, <2>2, <2>3, <2>4, <3>1, TopMoves
  <2>6. CASE pass = "maxima"
    <3>1. a = b
      BY <1>2, <2>4, <2>6 DEF PassOf
    <3>2. -k <= c - a /\ c - a <= 0 /\ c - a <= k
      BY <1>9, <2>5, <2>6, <3>1
    <3> QED BY <2>2, <2>4, <3>2 DEF Drift
  <2>7. CASE pass = "minima"
    <3>1. -k <= b - a /\ b - a <= 0
      BY <1>2, <2>2, <2>4, <2>7 DEF Drift
    <3>2. -k <= c - a /\ c - a <= k
      BY <1>9, <2>5, <2>7, <3>1
    <3>3. pass' = "end"
      BY <1>5, <2>7
    <3> QED BY <2>2, <2>4, <3>2, <3>3 DEF Drift
  <2> QED BY <1>2, <2>6, <2>7
<1>15. pass' = "end" /\ request'.perturb /\ TellsApart' => Sorted'
  <2> SUFFICES ASSUME pass' = "end", request.perturb, TellsApart PROVE Sorted'
    BY <1>1, SameTelling
  <2>1. DOMAIN sortedIndices' = 1..N /\ Len(sortedIndices') = N
    BY <1>1, <1>3
  <2>2. (Descending' <=> Descending)
    BY <1>1 DEF Descending, Persistent
  <2>3. ASSUME NEW i \in 1..N
        PROVE  /\ sortedIndices'[i] \in Vert /\ R[sortedIndices'[i]] = i - 1
    BY <1>1, <1>3, <1>4, SortedByRank
  <2>4. CASE pass = "maxima"
    <3>1. order' = R /\ ~Wanted("minima") /\ order = InputOrder(request.scalar)
      BY <1>2, <1>5, <2>4 DEF PassOf
    <3>2. Descending
      BY <1>3, <3>1, LastPass
    <3> QED BY <1>3, <2>1, <2>2, <2>3, <3>1, <3>2 DEF Sorted
  <2>5. CASE pass = "minima"
    <3>1. order' = Invert(R)
      BY <1>5, <2>5
    <3>2. ~Descending
      BY <1>2, <2>5 DEF PassOf, Descending
    <3>3. ASSUME NEW i \in 1..N
          PROVE  LET v == sortedIndices'[N - i + 1]
                 IN  v \in Vert /\ order'[v] = i - 1
      <4>1. PICK j \in 1..N : j = N - i + 1
        BY <1>3
      <4>2. PICK v \in Vert : v = sortedIndices'[j] /\ R[v] = j - 1
        BY <2>3
      <4>3. order'[v] = N - 1 - R[v]
        BY <3>1 DEF Invert
      <4>4. N - 1 - (j - 1) = i - 1
        BY <1>3, <4>1
      <4> QED BY <4>1, <4>2, <4>3, <4>4
    <3> QED BY <1>3, <2>1, <2>2, <3>2, <3>3 DEF Sorted
  <2> QED BY <1>2, <2>4, <2>5
<1>16. ScalarsFollowOrder' /\ ErrorBounded'
  BY <1>1 DEF ScalarsFollowOrder, ErrorBounded
<1> QED BY <1>3, <1>7, <1>8, <1>13, <1>14, <1>15, <1>16 DEF LevelInv

(* The field that is returned.                                             *)
LEMMA FinishLevels ==
    ASSUME Base, LevelInv, Finish
    PROVE  LevelInv'
<1>1. /\ pass = "end" /\ step = "begin" /\ step' = "done"
      /\ UNCHANGED <<request, order, sortedIndices, removed, pass>>
  BY DEF Finish
<1>2. /\ Flat \in [Vert -> Int] /\ PassOf /\ (Persistent => \A v \in Vert : Drift(v))
      /\ (request.perturb /\ TellsApart => Sorted)
  BY <1>1 DEF LevelInv
<1>3. \A u, v \in Vert : order[u] < order[v] => Flat[u] <= Flat[v]
  BY <1>1 DEF LevelInv, FollowsOrder
<1>4. scalars' = IF ~request.perturb THEN Flat ELSE Perturbed(Flat, Descending)
  <2>1. FoldLeft(Flattened, scalars, removed) = Flattenings(scalars, removed)
    <3>1. \/ removed = <<>>
          \/ \E a : removed = <<a>>
          \/ \E a, b : removed = <<a, b>>
      BY <1>2 DEF PassOf
    <3> QED BY <3>1, FoldedFlattened
  <2> QED BY <2>1 DEF Finish, Flat, Descending
<1>5. Vert' = Vert /\ N' = N /\ (Persistent' <=> Persistent)
      /\ request \in Requests /\ Numbers(order)
  BY <1>1, OrderNumbers DEF Vert, N, Persistent, Base
<1>6. ASSUME TellsApart PROVE ScalarsFollowOrder'
  <2> SUFFICES ASSUME NEW u \in Vert, NEW v \in Vert, order[u] < order[v]
               PROVE  /\ scalars'[u] <= scalars'[v]
                      /\ request.perturb => scalars'[u] < scalars'[v]
    BY <1>1, <1>5 DEF ScalarsFollowOrder
  <2>1. CASE ~request.perturb
    BY <1>3, <1>4, <2>1
  <2>2. CASE request.perturb
    <3>1. Descending \in BOOLEAN /\ Sorted
      BY <1>2, <1>6, <2>2 DEF Descending
    <3>2. /\ scalars' \in [Vert -> Int]
          /\ scalars'[u] < scalars'[v]
      BY <1>2, <1>4, <1>5, <2>2, <3>1, PerturbedFollows DEF Sorted
    <3>3. scalars'[u] \in Int /\ scalars'[v] \in Int
      BY <3>2
    <3> QED BY <3>2, <3>3
  <2> QED BY <2>1, <2>2
<1>7. ErrorBounded'
  <2> SUFFICES ASSUME Persistent, ~request.perturb, NEW v \in Vert
               PROVE  Dist(scalars'[v], request'.scalar[v]) <= request'.threshold
    BY <1>1, <1>5 DEF ErrorBounded
  <2>1. scalars' = scalars /\ scalars \in [Vert -> Int]
    BY <1>2, <1>4 DEF Flat
  <2>2. PICK k \in Nat : k = request.threshold /\ k = request'.threshold
    BY <1>1, RequestsAssumption DEF Base, Persistent
  <2>3. PICK a \in Int, b \in Int : /\ a = request.scalar[v] /\ b = scalars[v]
                                    /\ a = request'.scalar[v]
    <3>1. request.scalar[v] \in Int
      BY <1>5, RequestsAssumption DEF Vert
    <3> QED BY <1>1, <2>1, <3>1
  <2>4. -k <= b - a /\ b - a <= k
    BY <1>1, <1>2, <2>2, <2>3 DEF Drift
  <2>5. Dist(b, a) <= k
    BY <2>4 DEF Dist
  <2> QED BY <2>1, <2>2, <2>3, <2>5 DEF Dist
<1>8. PassOf'
  <2>1. pass' = "end" /\ pass = "end"
    BY <1>1
  <2> QED BY <1>1, <1>2, <2>1 DEF PassOf
<1>9. Sorted => Sorted'
  BY <1>1, <1>5 DEF Sorted, Descending
<1>10. TellsApart' <=> TellsApart
  BY <1>1, SameTelling
<1> QED BY <1>1, <1>2, <1>6, <1>7, <1>8, <1>9, <1>10 DEF LevelInv

(* Every step keeps the levels.                                            *)
LEMMA NextLevels ==
    ASSUME IInv, HillInv, LevelInv, [Next]_vars
    PROVE  LevelInv'
<1>1. Base /\ Between /\ IInv'
  BY NextIInv DEF IInv
<1>2. CASE EndPass
  <2>1. GInv
    BY <1>2 DEF EndPass, Segmented, HillInv
  <2> QED BY <1>1, <1>2, <2>1, EndPassLevels
<1>3. CASE step = "done"
  <2>1. /\ pass = "end" /\ pass # "start"
        /\ \A p \in Vert : pc[p] \notin AtWork \cup {"segment", "segmented", "order"}
    BY <1>1, <1>3 DEF LevelInv, PassOf, HillInv, StatusOf, Base, AtWork
  <2>2. \A t \in Vert : ~Propagate(t)
    BY <2>1 DEF Propagate, Start, OutOfVertices, Abort, Visit, Capture,
                RegisterWith, Dominant, Unify, Mark, AtWork
  <2>3. \A t \in Vert : ~Simplify(t)
    BY <2>1 DEF Simplify, ComputeSegment, InitLocalOrder, Iterate
  <2>4. ~BeginPasses /\ ~InitializePropagations /\ ~FinalizePropagations
    BY <1>3, <2>1 DEF BeginPasses, InitializePropagations, FinalizePropagations,
                      Propagated
  <2>5. ~Fail /\ ~EndPass /\ ~Finish
    BY <1>3 DEF Fail, EndPass, Segmented, Propagated, Finish
  <2>6. UNCHANGED vars
    BY <2>2, <2>3, <2>4, <2>5 DEF Next, Returned
  <2>7. UNCHANGED <<request, scalars, order, sortedIndices, removed, pass, step>>
    BY <2>6 DEF vars, fields
  <2>8. LevelInv => LevelInv'
    <3>1. Vert' = Vert /\ N' = N /\ (Persistent' <=> Persistent)
      BY <2>7 DEF Vert, N, Persistent
    <3>2. PassOf => PassOf'
      BY <2>7 DEF PassOf, Persistent, InputOrder
    <3>3. Sorted => Sorted'
      BY <2>7, <3>1 DEF Sorted, Descending
    <3>4. ScalarsFollowOrder => ScalarsFollowOrder'
      BY <2>7, <3>1 DEF ScalarsFollowOrder
    <3>5. ErrorBounded => ErrorBounded'
      BY <2>7, <3>1 DEF ErrorBounded
    <3>6. TellsApart' <=> TellsApart
      BY <2>7, SameTelling
    <3>7. /\ step' = "done"
          /\ LevelInv => (pass' = "end" /\ request'.perturb /\ TellsApart' => Sorted')
      BY <1>3, <2>7, <3>3, <3>6 DEF LevelInv
    <3> QED BY <3>2, <3>4, <3>5, <3>6, <3>7 DEF LevelInv
  <2> QED BY <2>8
<1>4. CASE step # "done" /\ ~BeginPasses /\ ~EndPass /\ ~Finish
  <2>1. /\ UNCHANGED <<request, scalars, order, sortedIndices, removed, pass>>
        /\ step' \in {step, "propagate", "hills", "failed"}
        /\ step' \in {"propagate", "hills"} =>
              \/ step \in {"propagate", "hills"}
              \/ pass \in {"maxima", "minima"}
    <3>1. ASSUME NEW t \in Vert, Propagate(t)
          PROVE  /\ UNCHANGED <<request, scalars, order, sortedIndices, removed,
                                pass>>
                 /\ step' = step
      BY <3>1 DEF Propagate, Start, OutOfVertices, Abort, Visit, Capture,
                  RegisterWith, Dominant, Unify, Mark, propagating, fields
    <3>2. ASSUME NEW t \in Vert, Simplify(t)
          PROVE  /\ UNCHANGED <<request, scalars, order, sortedIndices, removed,
                                pass>>
                 /\ step' = step
      BY <3>2 DEF Simplify, ComputeSegment, InitLocalOrder, Iterate, ordering,
                  fields
    <3>3. CASE InitializePropagations
      BY <3>3 DEF InitializePropagations, fields
    <3>4. CASE FinalizePropagations
      BY <3>4 DEF FinalizePropagations, Propagated, fields
    <3>5. CASE Fail
      BY <3>5 DEF Fail, fields
    <3>6. CASE UNCHANGED vars
      BY <3>6 DEF vars, fields
    <3> QED BY <1>4, <3>1, <3>2, <3>3, <3>4, <3>5, <3>6 DEF Next, Returned
  <2>2. step' = "done" => step = "done"
    BY <2>1
  <2>3. step' \in {"propagate", "hills"} => pass \in {"maxima", "minima"}
    BY <2>1 DEF LevelInv, PassOf
  <2> QED BY <1>4, <2>1, <2>2, <2>3, LevelsKept
<1> QED BY <1>1, <1>2, <1>3, <1>4, BeginPassesLevels, FinishLevels

(* What the simplification makes of the field, pass by pass.               *)
THEOREM LevelInvAlways == Spec => []LevelInv
<1>1. IInv /\ HillInv /\ LevelInv /\ [Next]_vars => LevelInv'
  BY NextLevels
<1>2. Init => LevelInv
  BY InitLevels
<1> QED BY <1>1, <1>2, IInvAlways, HillInvAlways, PTL DEF Spec

(* Where only maxima are authorized the loop over sortedIndices that tells *)
(* the scalars apart goes the wrong way; every other request has this.     *)
PerturbsMinima ==
    \A r \in Requests :
        r.perturb /\ r.threshold = NoThreshold =>
            \E e \in r.authorized : J!Neighbors(r.mesh, e) # {} /\ ShowsMinimum(r, e)

(* The scalars and the order that are returned agree, whatever the         *)
(* interleaving of the tasks that found the hills, and the scalars alone   *)
(* give the order where they shall.                                        *)
THEOREM ScalarsFollowOrderAlways ==
    ASSUME PerturbsMinima
    PROVE  Spec => []ScalarsFollowOrder
<1>1. IInv /\ LevelInv => ScalarsFollowOrder
  <2> SUFFICES ASSUME IInv, LevelInv PROVE ScalarsFollowOrder
    OBVIOUS
  <2>1. request \in Requests
    BY DEF IInv, Base
  <2>2. TellsApart
    BY <2>1 DEF PerturbsMinima, TellsApart, Persistent, IsAuthorized, Neighbors
  <2> QED BY <2>2 DEF LevelInv
<1> QED BY <1>1, IInvAlways, LevelInvAlways, PTL

(* No scalar moves further than the threshold, in both passes together.    *)
THEOREM ErrorBoundedAlways == Spec => []ErrorBounded
<1>1. LevelInv => ErrorBounded
  BY DEF LevelInv
<1> QED BY <1>1, LevelInvAlways, PTL
===============================================================================
