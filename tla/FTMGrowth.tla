------------------------------ MODULE FTMGrowth ------------------------------
(***************************************************************************)
(* The task-parallel construction of a merge tree (FTMTree_MT::build): one *)
(* task per leaf grows an arc through the mesh in the order of the scalar  *)
(* field; tasks that meet at a saddle stop there, except the last one to   *)
(* arrive, which merges their sets and goes on; when a single task is left *)
(* the rest of the tree is a path, the trunk, built sequentially.          *)
(*                                                                         *)
(* Vertices are numbered by their order, so vertLower is < (the split tree *)
(* is the same code on the reverse order).  Union-find elements and tasks  *)
(* are named by the leaf they start from, an arc by the vertex of its down *)
(* node.  AtomicUF models the union-find itself: here comp is its abstract *)
(* state, and find and makeUnion are single steps.                         *)
(***************************************************************************)
EXTENDS Integers, Sequences, FiniteSets, FiniteSetsExt, SequencesExt

CONSTANTS N,        \* number of vertices
          Meshes,   \* the edge sets a behaviour may start with
          Overtake  \* TRUE: as in the code, a task that is not the last at
                    \* a saddle may still be about to publish its set there
                    \* while the last one merges

ASSUME NAssumption == N \in Nat /\ N >= 2
ASSUME OvertakeAssumption == Overtake \in BOOLEAN
ASSUME MeshesAssumption ==
    \A m \in Meshes : \A e \in m :
        e \subseteq 1..N /\ \E u, v \in e : u # v /\ e = {u, v}

Vert == 1..N
Null == 0              \* nullptr, nullCorresp
IsNode == N + 1        \* a negative entry of vert2tree
NoOrder == -2          \* nullVertex in visitOrder, which starts at -1

J == INSTANCE JoinTree

VARIABLES
    mesh,          \* the triangulation, which no step changes
    phase,         \* "growth", "trunk", "segment", "done"
    comp, rank,    \* union-find: representative and rank_ of each leaf
    states,        \* the queues (propagation, with duplicates) of the states
                   \* listed in the data of each representative
    openedArcs,    \* openedArcs in the data of each representative
    ufs, propagation, valences, openedNodes, vert2tree, visitOrder,
    nodes,         \* vertices of the nodes made so far
    nbUp,          \* number of up arcs of the node at each vertex
    upNode, lastVisited, verticesSeen,   \* of the arc from each vertex
    roots, activeTasks,
    trunkVerts, trunkClosed,   \* the trunk, how much of it is closed
    \* locals of the task started from each leaf
    pc, startVert, startUF, seenFirst, localOrder, cur, isSaddle, decr, isLast,
    todo

treeVars  == <<nodes, nbUp, upNode, roots>>
segmVars  == <<vert2tree, visitOrder, lastVisited, verticesSeen>>
ufVars    == <<comp, rank, states, openedArcs>>
visitVars == <<isSaddle, decr, isLast, todo>>
callVars  == <<startVert, startUF, seenFirst, localOrder, cur>>
trunkVars == <<trunkVerts, trunkClosed>>
vars == <<mesh, phase, ufVars, ufs, propagation, valences, openedNodes,
          segmVars, treeVars, activeTasks, trunkVars, pc, callVars, visitVars>>

Lower(v) == J!LowerNeighbors(mesh, v)
Upper(v) == J!UpperNeighbors(mesh, v)
Leaves   == J!Minima(mesh, N)

find(u) == comp[u]

(* How often a queue holds each vertex.                                    *)
NoVertex == [v \in Vert |-> 0]
Push(h, S) == [v \in Vert |-> IF v \in S THEN h[v] + 1 ELSE h[v]]
(* Mutant of Sum: the vertices of the other queue are not taken.           *)
SumOfOne(g, h) == g
Sum(g, h) == [v \in Vert |-> g[v] + h[v]]

(* The queue of the state that a set has, or is given, and a write to it.  *)
First(u) == IF states[u] = <<>> THEN NoVertex ELSE states[u][1]
WithFirst(u, h) ==
    [states EXCEPT ![u] = IF @ = <<>> THEN <<h>> ELSE [@ EXCEPT ![1] = h]]
Queued(u) == {v \in Vert : First(u)[v] > 0}

OnArc(v) == vert2tree[v] \notin {Null, IsNode}

(* Mutant of NbLeaves: the task that launches the others is not counted.   *)
NbOtherLeaves == Cardinality(Leaves) - 1
NbLeaves == Cardinality(Leaves)

(* After leafSearch: every vertex knows its number of lower neighbours and *)
(* those that have none are nodes.  leafGrowth is about to create a task   *)
(* for each of them, in order.                                             *)
Init ==
    /\ mesh \in Meshes
    /\ phase = "growth"
    /\ comp = [v \in Vert |-> v]
    /\ rank = [v \in Vert |-> 0]
    /\ states = [v \in Vert |-> <<>>]
    /\ openedArcs = [v \in Vert |-> {}]
    /\ ufs = [v \in Vert |-> Null]
    /\ propagation = [v \in Vert |-> Null]
    /\ valences = [v \in Vert |-> Cardinality(Lower(v))]
    /\ openedNodes = {}
    /\ vert2tree = [v \in Vert |-> IF v \in Leaves THEN IsNode ELSE Null]
    /\ visitOrder = [v \in Vert |-> NoOrder]
    /\ nodes = Leaves
    /\ nbUp = [v \in Vert |-> 0]
    /\ upNode = [v \in Vert |-> Null]
    /\ lastVisited = [v \in Vert |-> Null]
    /\ verticesSeen = [v \in Vert |-> 0]
    /\ roots = {}
    /\ activeTasks = NbLeaves
    /\ trunkVerts = <<>>
    /\ trunkClosed = 0
    /\ pc = [v \in Vert |-> IF v \in Leaves THEN "waiting" ELSE "none"]
    /\ startVert = [v \in Vert |-> v]
    /\ startUF = [v \in Vert |-> v]
    /\ seenFirst = [v \in Vert |-> FALSE]
    /\ localOrder = [v \in Vert |-> -1]
    /\ cur = [v \in Vert |-> Null]
    /\ isSaddle = [v \in Vert |-> FALSE]
    /\ decr = [v \in Vert |-> 0]
    /\ isLast = [v \in Vert |-> FALSE]
    /\ todo = [v \in Vert |-> {}]

Goto(t, label) == pc' = [pc EXCEPT ![t] = label]
-------------------------------------------------------------------------------
(***************************************************************************)
(* leafGrowth.                                                             *)
(***************************************************************************)
(* With one leaf the whole tree is the trunk.                              *)
OnlyLeaf(t) ==
    /\ pc[t] = "waiting"
    /\ Leaves = {t}
    /\ openedNodes' = {t}
    /\ ufs' = [ufs EXCEPT ![t] = t]
    /\ Goto(t, "stopped")
    /\ UNCHANGED <<mesh, phase, ufVars, propagation, valences, segmVars,
                   treeVars, activeTasks, trunkVars, callVars, visitVars>>

Launch(t) ==
    /\ pc[t] = "waiting"
    /\ Leaves # {t}
    /\ \A l \in Leaves : l < t => pc[l] # "waiting"
    /\ ufs' = [ufs EXCEPT ![t] = t]
    /\ Goto(t, "start")
    /\ UNCHANGED <<mesh, phase, ufVars, propagation, valences,
                   openedNodes, segmVars, treeVars, activeTasks, trunkVars,
                   callVars, visitVars>>
-------------------------------------------------------------------------------
(***************************************************************************)
(* arcGrowth.                                                              *)
(***************************************************************************)
(* Recover the state of the set that starts here, or make one, and open an *)
(* arc above the start vertex.                                             *)
Start(t) ==
    LET v == startVert[t]
        u == find(ufs[v])
    IN  /\ pc[t] = "start"
        /\ startUF' = [startUF EXCEPT ![t] = u]
        /\ states' = WithFirst(u, Push(First(u), {v}))
        /\ seenFirst' = [seenFirst EXCEPT ![t] = FALSE]
        /\ localOrder' = [localOrder EXCEPT ![t] = -1]
        /\ nbUp' = [nbUp EXCEPT ![v] = @ + 1]
        /\ openedArcs' = [openedArcs EXCEPT ![u] = @ \cup {v}]
        /\ Goto(t, "pop")
        /\ UNCHANGED <<mesh, phase, comp, rank, ufs, propagation, valences,
                       openedNodes, segmVars, nodes, upNode, roots,
                       activeTasks, trunkVars, startVert, cur, visitVars>>

(* Mutant of Seen: only the start vertex is tested.                        *)
SeenAtStart(t, v) == v = startVert[t] /\ seenFirst[t]

(* Vertices of the queue that were processed already: they are dropped     *)
(* when they come to the head.                                             *)
Seen(t, v) == OnArc(v) \/ (v = startVert[t] /\ seenFirst[t])
Ahead(t) == {v \in Queued(startUF[t]) : ~Seen(t, v)}

(* Mutant of Unclaimed: a vertex is queued by one set only.                *)
NeverClaimed(n, u) == propagation[n] = Null

(* Set u was not the last one to propagate to vertex n.                    *)
Unclaimed(n, u) == propagation[n] = Null \/ find(propagation[n]) # u

(* Take the lowest vertex and look at its neighbours: it became a saddle   *)
(* when a lower one is not in this set; the upper ones join the queue,     *)
(* unless this set was the last to propagate to them.                      *)
Visit(t) ==
    LET u == startUF[t]
        v == Min(Ahead(t))
        left == [w \in Vert |-> IF w < v THEN 0 ELSE
                                IF w = v THEN First(u)[v] - 1 ELSE First(u)[w]]
        own == {n \in Lower(v) : ufs[n] # Null /\ find(ufs[n]) = find(u)}
        new == {n \in Upper(v) : Unclaimed(n, find(u))}
    IN  /\ pc[t] = "pop"
        /\ Ahead(t) # {}
        /\ seenFirst' = [seenFirst EXCEPT ![t] = @ \/ v = startVert[t]]
        /\ visitOrder' = [visitOrder EXCEPT ![v] = localOrder[t]]
        /\ localOrder' = [localOrder EXCEPT ![t] = @ + 1]
        /\ cur' = [cur EXCEPT ![t] = v]
        /\ isSaddle' = [isSaddle EXCEPT ![t] = own # Lower(v)]
        /\ decr' = [decr EXCEPT ![t] = Cardinality(own)]
        /\ states' = WithFirst(u, Push(left, new))
        /\ propagation' =
              [n \in Vert |-> IF n \in new THEN find(u) ELSE propagation[n]]
        /\ Goto(t, "capture")
        /\ UNCHANGED <<mesh, phase, comp, rank, openedArcs, ufs, valences,
                       openedNodes, vert2tree, lastVisited, verticesSeen,
                       treeVars, activeTasks, trunkVars, startVert, startUF,
                       isLast, todo>>

(* atomic capture: take this set's lower neighbours off the valence.       *)
CaptureWith(t, taken, last) ==
    LET v == cur[t] IN
    /\ pc[t] = "capture"
    /\ isLast' = [isLast EXCEPT ![t] = last]
    /\ valences' = [valences EXCEPT ![v] = @ - taken]
    /\ Goto(t, "publish")
    /\ UNCHANGED <<mesh, phase, ufVars, ufs, propagation, openedNodes,
                   segmVars, treeVars, activeTasks, trunkVars, callVars,
                   isSaddle, decr, todo>>

(* Mutants of Capture: last when one neighbour is missing; every lower     *)
(* neighbour is taken off, whoever holds it.                               *)
CaptureEarly(t) == CaptureWith(t, decr[t], valences[cur[t]] <= decr[t] + 1)
CaptureStar(t) == CaptureWith(t, Cardinality(Lower(cur[t])),
                              valences[cur[t]] = decr[t])

Capture(t) == CaptureWith(t, decr[t], valences[cur[t]] = decr[t])

(* Task o is between the first and the last union of the sets that meet at *)
(* v: the write of another task to ufs[v] would now be lost on it.         *)
MergingAt(o, v) == /\ pc[o] = "merge" /\ cur[o] = v
                   /\ todo[o] \notin {{}, Lower(v)}

(* ufs[currentVert] = startUF; a regular vertex is put on the arc.         *)
Publish(t) ==
    LET v == cur[t]
        a == startVert[t]
    IN  /\ pc[t] = "publish"
        /\ ~Overtake => \A o \in Vert \ {t} : ~MergingAt(o, v)
        /\ ufs' = [ufs EXCEPT ![v] = startUF[t]]
        /\ IF isSaddle[t]
           THEN /\ Goto(t, "open")
                /\ UNCHANGED <<vert2tree, lastVisited, verticesSeen>>
           ELSE /\ vert2tree' = IF v = a THEN vert2tree
                                ELSE [vert2tree EXCEPT ![v] = a]
                /\ lastVisited' = [lastVisited EXCEPT ![a] = v]
                /\ verticesSeen' = [verticesSeen EXCEPT ![a] = @ + 1]
                /\ Goto(t, "pop")
        /\ UNCHANGED <<mesh, phase, ufVars, propagation, valences,
                       openedNodes, visitOrder, treeVars, activeTasks,
                       trunkVars, callVars, visitVars>>

(* openedNodes[currentVert] = 1; the last to arrive makes the node.        *)
OpenNode(t) ==
    LET v == cur[t] IN
    /\ pc[t] = "open"
    /\ openedNodes' = openedNodes \cup {v}
    /\ IF isLast[t]
       THEN /\ nodes' = nodes \cup {v}
            /\ vert2tree' = [vert2tree EXCEPT ![v] = IsNode]
            /\ todo' = [todo EXCEPT ![t] = Lower(v)]
            /\ Goto(t, "merge")
       ELSE /\ Goto(t, "retire")
            /\ UNCHANGED <<nodes, vert2tree, todo>>
    /\ UNCHANGED <<mesh, phase, ufVars, ufs, propagation, valences,
                   visitOrder, lastVisited, verticesSeen, nbUp, upNode, roots,
                   activeTasks, trunkVars, callVars, isSaddle, decr, isLast>>

(* activeTasks--                                                           *)
Retire(t) ==
    /\ pc[t] = "retire"
    /\ activeTasks' = activeTasks - 1
    /\ Goto(t, "stopped")
    /\ UNCHANGED <<mesh, phase, ufVars, ufs, propagation, valences,
                   openedNodes, segmVars, treeVars, trunkVars, callVars,
                   visitVars>>
-------------------------------------------------------------------------------
(***************************************************************************)
(* closeAndMergeOnSaddle and what follows it in arcGrowth.                 *)
(***************************************************************************)
(* makeUnion(a, b) of two representatives.                                 *)
Winner(a, b) == IF rank[a] < rank[b] THEN b ELSE a

(* The states and the arcs of the loser are listed after the winner's.     *)
Unite(a, b) ==
    LET w == Winner(a, b)
        l == IF w = a THEN b ELSE a
    IN  /\ comp' = [u \in Vert |-> IF comp[u] = l THEN w ELSE comp[u]]
        /\ rank' = IF rank[a] = rank[b] THEN [rank EXCEPT ![w] = @ + 1]
                   ELSE rank
        /\ states' = [states EXCEPT ![w] = @ \o states[l]]
        /\ openedArcs' = [openedArcs EXCEPT ![w] = @ \cup openedArcs[l]]

(* One lower neighbour, in whatever order the triangulation lists them.    *)
MergeNeighbor(t, n) ==
    LET v == cur[t]
        a == find(ufs[v])
        b == find(ufs[n])
    IN  /\ pc[t] = "merge"
        /\ n \in todo[t]
        /\ todo' = [todo EXCEPT ![t] = @ \ {n}]
        /\ IF a # b
           THEN /\ Unite(a, b)
                /\ ufs' = [ufs EXCEPT ![v] = Winner(a, b)]
           ELSE UNCHANGED <<ufVars, ufs>>
        /\ UNCHANGED <<mesh, phase, propagation, valences, openedNodes,
                       segmVars, treeVars, activeTasks, trunkVars, pc,
                       callVars, isSaddle, decr, isLast>>

(* closeArcsUF: the arcs opened by the merged sets end at the saddle.      *)
CloseArcs(t) ==
    LET v == cur[t]
        u == find(ufs[v])
    IN  /\ pc[t] = "merge"
        /\ todo[t] = {}
        /\ upNode' = [a \in Vert |-> IF a \in openedArcs[u] THEN v
                                     ELSE upNode[a]]
        /\ openedArcs' = [openedArcs EXCEPT ![u] = {}]
        /\ Goto(t, "decide")
        /\ UNCHANGED <<mesh, phase, comp, rank, states, ufs, propagation,
                       valences, openedNodes, segmVars, nodes, nbUp, roots,
                       activeTasks, trunkVars, callVars, visitVars>>

(* One turn of the loop of mergeStates: the first state takes the queue of *)
(* the next one, and reads the top of what it has then.                    *)
ToMerge(t) == Len(states[find(ufs[cur[t]])]) > 1
MergeStates(t) ==
    LET u == find(ufs[cur[t]]) IN
    /\ pc[t] = "decide"
    /\ ToMerge(t)
    /\ states' = [states EXCEPT ![u] =
                     <<Sum(@[1], @[2])>> \o SubSeq(@, 3, Len(@))]
    /\ UNCHANGED <<mesh, phase, comp, rank, openedArcs, ufs, propagation,
                   valences, openedNodes, segmVars, treeVars, activeTasks,
                   trunkVars, pc, callVars, visitVars>>

(* Only the backbone remains when this is the last active task; otherwise  *)
(* openedNodes[currentVert] = 0 and arcGrowth(mesh, currentVert, orig).    *)
Restart(t) ==
    /\ pc[t] = "decide"
    /\ ~ToMerge(t)
    /\ IF activeTasks = 1
       THEN /\ Goto(t, "stopped")
            /\ UNCHANGED <<openedNodes, startVert>>
       ELSE /\ openedNodes' = openedNodes \ {cur[t]}
            /\ startVert' = [startVert EXCEPT ![t] = cur[t]]
            /\ Goto(t, "start")
    /\ UNCHANGED <<mesh, phase, ufVars, ufs, propagation, valences,
                   segmVars, treeVars, activeTasks, trunkVars, startUF,
                   seenFirst, localOrder, cur, visitVars>>

(* The queue is empty: the last vertex of the arc is a root.               *)
CloseRoot(t) ==
    LET a == startVert[t]
        v == lastVisited[a]
    IN  /\ pc[t] = "pop"
        /\ Ahead(t) = {}
        /\ states' = WithFirst(startUF[t], NoVertex)
        /\ nodes' = nodes \cup {v}
        /\ vert2tree' = [vert2tree EXCEPT ![v] = IsNode]
        /\ upNode' = [upNode EXCEPT ![a] = v]
        /\ verticesSeen' = [verticesSeen EXCEPT ![a] = @ - 1]
        /\ roots' = roots \cup {v}
        /\ Goto(t, "stopped")
        /\ UNCHANGED <<mesh, phase, comp, rank, openedArcs, ufs, propagation,
                       valences, openedNodes, visitOrder, lastVisited, nbUp,
                       activeTasks, trunkVars, callVars, visitVars>>
-------------------------------------------------------------------------------
(***************************************************************************)
(* trunk, run by one thread after the taskwait of leafGrowth.              *)
(***************************************************************************)
growthVars == <<mesh, rank, states, propagation, valences, openedNodes,
                visitOrder, roots, activeTasks, pc, callVars, visitVars>>

(* Mutant of StillOpen: no filter.                                         *)
Opened(v) == TRUE
(* parallel leafGrowth can partially build the trunk: a saddle that has an *)
(* upward arc is left out.                                                 *)
StillOpen(v) == vert2tree[v] = IsNode => nbUp[v] = 0

(* sort: the vertices of S, in ascending order.                            *)
InOrder(S) ==
    {s \in [1..Cardinality(S) -> S] : \A i, j \in DOMAIN s : i < j => s[i] < s[j]}

BeginTrunk ==
    /\ phase = "growth"
    /\ \A l \in Leaves : pc[l] = "stopped"
    /\ trunkVerts' \in InOrder({v \in openedNodes : StillOpen(v)})
    /\ phase' = IF trunkVerts' = <<>> THEN "done" ELSE "trunk"
    /\ UNCHANGED <<growthVars, comp, openedArcs, ufs, trunkClosed, vert2tree,
                   lastVisited, verticesSeen, nodes, nbUp, upNode>>

(* closeOnBackBone: the trunk vertex becomes a node, ends the arcs of the  *)
(* sets that reach it and unites them (one thread: neither the order of    *)
(* the neighbours nor the representative that wins can be told apart; the  *)
(* states it lists together are read no more).                             *)
CloseOnBackBone(v) ==
    LET u == find(ufs[v])
        met == {u} \cup {find(ufs[n]) : n \in {m \in Lower(v) : ufs[m] # Null}}
        arcs == UNION {openedArcs[w] : w \in met}
    IN  /\ nodes' = nodes \cup {v}
        /\ vert2tree' = [vert2tree EXCEPT ![v] = IsNode]
        /\ comp' = [w \in Vert |-> IF comp[w] \in met THEN u ELSE comp[w]]
        /\ ufs' = [ufs EXCEPT ![v] = u]
        /\ upNode' = [a \in Vert |-> IF a \in arcs THEN v ELSE upNode[a]]
        /\ openedArcs' = [w \in Vert |-> IF w \in met THEN {}
                                         ELSE openedArcs[w]]

TrunkCloseUpTo(k) ==
    /\ phase = "trunk"
    /\ trunkClosed < k
    /\ CloseOnBackBone(trunkVerts[trunkClosed + 1])
    /\ trunkClosed' = trunkClosed + 1
    /\ UNCHANGED <<growthVars, phase, trunkVerts, lastVisited, verticesSeen,
                   nbUp>>

(* Mutant of TrunkClose: the loop ends one vertex early.                   *)
TrunkCloseButLast == TrunkCloseUpTo(Len(trunkVerts) - 1)
TrunkClose == TrunkCloseUpTo(Len(trunkVerts))

(* An arc between consecutive trunk vertices, and one from the last of     *)
(* them to the greatest vertex, the root.                                  *)
TrunkArcs ==
    LET onTrunk == ToSet(trunkVerts)
        next(v) == LET above == {w \in onTrunk : w > v}
                   IN  IF above = {} THEN N ELSE Min(above)
    IN  /\ phase = "trunk"
        /\ trunkClosed = Len(trunkVerts)
        /\ phase' = "segment"
        /\ nodes' = nodes \cup {N}
        /\ vert2tree' = [vert2tree EXCEPT ![N] = IsNode]
        /\ nbUp' = [v \in Vert |-> IF v \in onTrunk THEN nbUp[v] + 1
                                   ELSE nbUp[v]]
        /\ upNode' = [v \in Vert |-> IF v \in onTrunk THEN next(v)
                                     ELSE upNode[v]]
        /\ lastVisited' = [v \in Vert |-> IF v \in onTrunk THEN next(v)
                                          ELSE lastVisited[v]]
        /\ verticesSeen' = [v \in Vert |-> IF v \in onTrunk
                                           THEN verticesSeen[v] + 1
                                           ELSE verticesSeen[v]]
        /\ UNCHANGED <<growthVars, comp, openedArcs, ufs, trunkVars>>

(* trunkSegmentation: a vertex no task took goes to the arc of the last    *)
(* trunk vertex below it (getVertInRange).                                 *)
VertInRange(v) == Max({w \in ToSet(trunkVerts) : w < v})

TrunkSegment ==
    LET missing == {v \in trunkVerts[1]..N : vert2tree[v] = Null} IN
    /\ phase = "segment"
    /\ phase' = "done"
    /\ vert2tree' = [v \in Vert |-> IF v \in missing THEN VertInRange(v)
                                    ELSE vert2tree[v]]
    /\ verticesSeen' =
          [a \in Vert |-> verticesSeen[a]
              + Cardinality({v \in missing : VertInRange(v) = a})]
    /\ UNCHANGED <<growthVars, comp, openedArcs, ufs, trunkVars, lastVisited,
                   nodes, nbUp, upNode>>

(* build returns.                                                          *)
Built == phase = "done" /\ UNCHANGED vars
-------------------------------------------------------------------------------
(***************************************************************************)
(* buildSegmentation, which reads the finished tree: the vertices of arc a *)
(* a task visited go to the place of their visit, the others to the next   *)
(* place of a counter.                                                     *)
(***************************************************************************)
SegmentSize(a) == Max({0, verticesSeen[a] - 1})
Regular(a) == {v \in Vert : vert2tree[v] = a}
Visited(a) == {v \in Regular(a) : visitOrder[v] # NoOrder}
-------------------------------------------------------------------------------
TaskStep(t) ==
    \/ OnlyLeaf(t) \/ Launch(t) \/ Start(t) \/ Visit(t)
    \/ Capture(t) \/ Publish(t) \/ OpenNode(t) \/ Retire(t)
    \/ \E n \in Vert : MergeNeighbor(t, n)
    \/ CloseArcs(t) \/ Restart(t) \/ CloseRoot(t)

Trunk == BeginTrunk \/ TrunkClose \/ TrunkArcs \/ TrunkSegment

Next == (\E t \in Vert : TaskStep(t) \/ MergeStates(t)) \/ Trunk \/ Built

Spec == Init /\ [][Next]_vars

(* Some thread of the team is always running: the program does not stop    *)
(* between two steps for ever.                                             *)
FairSpec == Spec /\ WF_vars(Next)
-------------------------------------------------------------------------------
(* Types.  A valence may go negative, because a saddle is propagated again *)
(* when its task restarts there.                                           *)
TypeOK ==
    /\ mesh \in Meshes
    /\ phase \in {"growth", "trunk", "segment", "done"}
    /\ comp \in [Vert -> Vert] /\ rank \in [Vert -> 0..N]
    /\ states \in [Vert -> Seq([Vert -> Nat])]
    /\ openedArcs \in [Vert -> SUBSET Vert]
    /\ ufs \in [Vert -> Vert \cup {Null}]
    /\ propagation \in [Vert -> Vert \cup {Null}]
    /\ \A v \in Vert : LET k == Cardinality(Lower(v)) IN valences[v] \in (-k)..k
    /\ openedNodes \subseteq Vert
    /\ vert2tree \in [Vert -> Vert \cup {Null, IsNode}]
    /\ visitOrder \in [Vert -> {NoOrder} \cup (-1)..N]
    /\ nodes \subseteq Vert /\ roots \subseteq Vert
    /\ nbUp \in [Vert -> 0..N]
    /\ upNode \in [Vert -> Vert \cup {Null}]
    /\ lastVisited \in [Vert -> Vert \cup {Null}]
    /\ verticesSeen \in [Vert -> 0..N]
    /\ activeTasks \in 0..N
    /\ trunkVerts \in Seq(Vert) /\ trunkClosed \in 0..Len(trunkVerts)
    /\ pc \in [Vert -> {"none", "waiting", "start", "pop", "capture", "publish",
                       "open", "retire", "merge", "decide", "stopped"}]
    /\ startVert \in [Vert -> Vert] /\ startUF \in [Vert -> Vert]
    /\ seenFirst \in [Vert -> BOOLEAN] /\ localOrder \in [Vert -> (-1)..N]
    /\ cur \in [Vert -> Vert \cup {Null}]
    /\ isSaddle \in [Vert -> BOOLEAN] /\ isLast \in [Vert -> BOOLEAN]
    /\ decr \in [Vert -> 0..N]
    /\ todo \in [Vert -> SUBSET Vert]

Region(t) == {v \in Vert : ufs[v] # Null /\ find(ufs[v]) = find(startUF[t])}

(* Whatever the interleaving of the tasks, a task visits the vertices of   *)
(* its region in the order of the field: at every vertex it takes, what it *)
(* holds is exactly one component of the sublevel set strictly below that  *)
(* vertex, or all those that meet there when it restarts at a saddle.      *)
GrowsSublevelSet ==
    \A t \in Leaves : pc[t] = "capture" =>
        LET v == cur[t]
            below == Region(t) \ {v}
            components == J!LowerComponents(mesh, v)
        IN  IF v = startVert[t] THEN below = UNION components
            ELSE below \in components

(* Exactly one task closes each saddle, and only once every neighbour      *)
(* below it belongs to a set: closeAndMergeOnSaddle dereferences their     *)
(* union-find elements without a test.                                     *)
LastVisitorSeesAll ==
    \A t \in Leaves :
        pc[t] \in {"publish", "open", "merge"} /\ isSaddle[t] /\ isLast[t] =>
            /\ \A n \in Lower(cur[t]) : ufs[n] # Null
            /\ \A o \in Leaves \ {t} :
                  ~(cur[o] = cur[t] /\ pc[o] \in {"pop", "capture", "merge"})

(* The valences implement the last-visitor protocol: whatever the order in *)
(* which tasks take their shares off them, each lower neighbour is         *)
(* accounted for once and one task, the one that takes the last, goes on   *)
(* from the vertex or makes it a node.                                     *)
Taken(n, v) ==
    /\ ufs[n] # Null
    /\ \E t \in Leaves : /\ cur[t] = v
                         /\ pc[t] \in {"publish", "open", "retire", "stopped"}
                         /\ find(startUF[t]) = find(ufs[n])
Settled(v) == Lower(v) # {} /\ vert2tree[v] # Null
Pending(v) == IF Settled(v) THEN {} ELSE {n \in Lower(v) : ~Taken(n, v)}
Claimant(v) ==
    LET claims == {t \in Leaves : /\ cur[t] = v /\ isLast[t]
                                  /\ pc[t] \in {"publish", "open"}}
    IN  IF Lower(v) = {} \/ Settled(v) \/ claims = {} THEN Null ELSE Min(claims)

LV(v) == INSTANCE LastVisitor WITH
             Nobody <- Null, pending <- Pending(v), claimant <- Claimant(v),
             settled <- Settled(v)

ImplementsLastVisitor ==
    /\ \A v \in Vert : LV(v)!LVInit(Lower(v))
    /\ [][phase' = "growth" =>
             \A v \in Vert : LV(v)!Stay \/ LV(v)!LVNext]_vars

(* The sets a task merges at a saddle are its own, until it has merged     *)
(* their states as well: no other task grows from them or merges them at   *)
(* the same time.  The queues and arc lists of AtomicUF's data are merged  *)
(* without a lock on this assumption.                                      *)
Merged(t) == {find(ufs[n]) : n \in Lower(cur[t])} \cup {find(ufs[cur[t]])}

MergesAlone ==
    \A t \in Leaves : pc[t] \in {"merge", "decide"} =>
        \A o \in Leaves \ {t} :
            /\ pc[o] \in {"pop", "capture"} => startUF[o] \notin Merged(t)
            /\ pc[o] = "start" => find(ufs[startVert[o]]) \notin Merged(t)
            /\ pc[o] \in {"merge", "decide"} => Merged(o) \cap Merged(t) = {}

(* The domain of ComputesJoinTree: a mesh in one piece, whose greatest     *)
(* vertex is not a saddle.                                                 *)
OpenAbove == \A m \in Meshes : J!Component(m, N, Vert) = Vert /\ N \notin J!Saddles(m, N)

(* The domain of MergedQueueNotEmpty: of two components that meet at a     *)
(* vertex, one at least goes on above it, through that vertex or not.  In  *)
(* a mesh of a manifold of dimension 2 or more every saddle has an upper   *)
(* neighbour.                                                              *)
PairsGoOn ==
    \A m \in Meshes : \A v \in Vert : \A C, D \in J!LowerComponents(m, v) :
        C # D => \E n \in C \cup D \cup {v} :
                    \E x \in J!UpperNeighbors(m, n) : x > v

(* CurrentState::merge reads the top of the queue each time it has taken   *)
(* another state's: it is not empty, whatever the order in which the       *)
(* unions listed the states of the sets that met.                          *)
MergedQueueNotEmpty ==
    \A t \in Leaves :
        LET s == states[find(ufs[cur[t]])] IN
        pc[t] = "decide" /\ ToMerge(t) => Sum(s[1], s[2]) # NoVertex

(* A task that counts one active task when it decides to leave the rest to *)
(* the trunk is the only one that has not stopped; and there is always one *)
(* that never counts itself out.                                           *)
BackboneAlone ==
    /\ NbLeaves > 1 => activeTasks > 0
    /\ \A t \in Leaves :
          pc[t] = "decide" /\ activeTasks = 1 =>
              \A o \in Leaves \ {t} : pc[o] = "stopped"

(* buildSegmentation writes the vertices of an arc at places of its own in *)
(* a segment sized beforehand, and from several tasks at once: nothing is  *)
(* written twice or outside, and no place is left unwritten.               *)
SegmentsFilled ==
    phase = "done" =>
        \A a \in nodes \ {N} :
            LET visited == {visitOrder[v] : v \in Visited(a)}
                counted == 0..(Cardinality(Regular(a) \ Visited(a)) - 1)
            IN  /\ visited \cup counted = 0..(SegmentSize(a) - 1)
                /\ Cardinality(Regular(a)) = SegmentSize(a)

(* Parallel growth and sequential trunk together compute the join tree of  *)
(* the field, its nodes, its arcs and the arc of every regular vertex,     *)
(* wherever the growth happened to leave off to the trunk.                 *)
ComputesJoinTree ==
    phase = "done" =>
        /\ nodes = J!TreeNodes(mesh, N)
        /\ nbUp = [v \in Vert |-> IF v \in nodes \ {N} THEN 1 ELSE 0]
        /\ {<<a, upNode[a]>> : a \in nodes \ {N}} = J!TreeArcs(mesh, N)
        /\ \A v \in Vert \ nodes : vert2tree[v] = J!NodeBelow(mesh, N, v)

(* build()'s own check, which reports "not a tree!": one super arc less    *)
(* than there are nodes.                                                   *)
TreeCheck ==
    phase \in {"segment", "done"} =>
        Cardinality(nodes) = FoldFunction(+, 0, nbUp) + 1

(* The tree is always finished.                                            *)
Finishes == <>(phase = "done")
===============================================================================
