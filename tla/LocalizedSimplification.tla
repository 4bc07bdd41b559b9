------------------------ MODULE LocalizedSimplification ------------------------
(***************************************************************************)
(* Localized topological simplification: the maxima of a field that are    *)
(* not wanted, and then its minima, are removed by flattening the hill of  *)
(* each to the saddle it ends at.  One task per such maximum takes the     *)
(* highest vertex of its queue again and again, down to a saddle; there it *)
(* stops, unless it is the last to arrive, which merges the propagations   *)
(* that stopped and goes on.  A hill then gets a local order without       *)
(* extrema, and all vertices a new global order.                           *)
(*                                                                         *)
(* Propagations and tasks are named by their maximum.  comp is the state   *)
(* of the union-find ufParent and find() a single step, as in FTMGrowth.   *)
(* A request is a field, what shall remain of it and in which form.        *)
(***************************************************************************)
EXTENDS Integers, Sequences, FiniteSets, FiniteSetsExt, SequencesExt

CONSTANTS Requests, \* what a behaviour may be asked for, see below
          NoThreshold

(* A connected mesh, and the neighbour the list of each vertex starts      *)
(* with; a scalar for each vertex, where 1 is the step from one            *)
(* floating-point number to the next; the extrema that stay, or the        *)
(* persistence they must exceed and which kinds ("both", "maxima",         *)
(* "minima") are examined; whether the scalars shall tell the order apart. *)
ASSUME RequestsAssumption ==
    \A r \in Requests :
        LET V == DOMAIN r.scalar IN
        /\ r.scalar \in Seq(Int) /\ Len(r.scalar) >= 2
        /\ \A e \in r.mesh : \E u, v \in V : u # v /\ e = {u, v}
        /\ \A v \in UNION r.mesh : {v, r.first[v]} \in r.mesh
        /\ r.authorized \subseteq V
        /\ r.threshold \in Nat \cup {NoThreshold}
        /\ r.threshold = NoThreshold <=> r.authorized # {}
        /\ r.pairType \in {"both", "maxima", "minima"}
        /\ r.perturb \in BOOLEAN

VARIABLES
    request,                 \* the arguments, which no step changes
    scalars, order,          \* the field, edited in place
    pass,                    \* extrema removed now: "maxima", "minima"
    step,                    \* "begin", "propagate", "hills", "done", "failed"
    segmentation, queueMask, localOrder, propagationMask,
    sortedIndices,
    status,                  \* FALSE once a task has reported an error
    propagations,            \* the unwanted maxima
    comp, parent, aborted, criticalPoints, queue, segmentSize, segment,
    removed,                 \* hills flattened so far, one set per pass
    \* locals of the task of each propagation
    pc, current, cur, registered, todo,
    performSuperlevel, boundary, sequence

arrays == <<segmentation, queueMask, localOrder, propagationMask>>
fields == <<scalars, order, sortedIndices, removed>>
props  == <<comp, parent, aborted, criticalPoints, queue, segmentSize>>
locals == <<current, cur, registered, todo>>
orders == <<performSuperlevel, boundary, sequence>>
vars == <<request, fields, pass, step, arrays, status, propagations, props,
          segment, pc, locals, orders>>

Vert == DOMAIN request.scalar
N    == Len(request.scalar)
Null == 0                              \* nullptr
Unvisited == -1
J == INSTANCE JoinTree
Neighbors(v) == J!Neighbors(request.mesh, v)
Larger(v)    == {u \in Neighbors(v) : order[u] > order[v]}

Persistent == request.threshold # NoThreshold

(* Ties of the input are broken by the vertex number.                      *)
InputOrder(s) ==
    [v \in DOMAIN s |->
        Cardinality({u \in DOMAIN s : s[u] < s[v] \/ (s[u] = s[v] /\ u < v)})]

Highest(S)   == CHOOSE v \in S : \A u \in S : order[u] <= order[v]
(* S sorted: the i-th vertex has i - 1 others before it.                   *)
Ascending(S) ==
    [i \in 1..Cardinality(S) |->
        CHOOSE v \in S : Cardinality({u \in S : order[u] < order[v]}) = i - 1]
Dist(a, b)   == IF a < b THEN b - a ELSE a - b

(* What is authorized counts, before the passes, for the kind its first    *)
(* neighbour shows: hasMinima, hasMaxima.                                  *)
ShowsMinimum(r, e) == InputOrder(r.scalar)[e] < InputOrder(r.scalar)[r.first[e]]
IsAuthorized(kind) ==
    \E e \in request.authorized :
        Neighbors(e) # {} /\ (kind = "minima" <=> ShowsMinimum(request, e))
Wanted(kind) == IF Persistent THEN request.pairType \in {"both", kind}
                ELSE IsAuthorized(kind)

(* Mutant of Invert: the greatest order is taken to be N.                  *)
InvertPast(o) == [v \in Vert |-> N - o[v]]
Invert(o) == [v \in Vert |-> N - 1 - o[v]]

Init ==
    /\ request \in Requests
    /\ scalars = request.scalar
    /\ order = InputOrder(request.scalar)
    /\ pass = "start" /\ step = "begin"
    /\ segmentation = [v \in Vert |-> 0]
    /\ queueMask = [v \in Vert |-> 0]
    /\ localOrder = [v \in Vert |-> 0]
    /\ propagationMask = [v \in Vert |-> Null]
    /\ sortedIndices = <<>>
    /\ status = TRUE
    /\ propagations = {}
    /\ comp = [v \in Vert |-> v] /\ parent = [v \in Vert |-> v]
    /\ aborted = [v \in Vert |-> FALSE]
    /\ criticalPoints = [v \in Vert |-> <<v>>]
    /\ queue = [v \in Vert |-> {}]
    /\ segmentSize = [v \in Vert |-> 0]
    /\ segment = [v \in Vert |-> {}]
    /\ removed = <<>>
    /\ pc = [v \in Vert |-> "none"]
    /\ current = [v \in Vert |-> v] /\ cur = [v \in Vert |-> v]
    /\ registered = [v \in Vert |-> 0] /\ todo = [v \in Vert |-> {}]
    /\ performSuperlevel = [v \in Vert |-> TRUE]
    /\ boundary = [v \in Vert |-> {}]
    /\ sequence = [v \in Vert |-> <<>>]

Goto(t, label) == pc' = [pc EXCEPT ![t] = label]
-------------------------------------------------------------------------------
(***************************************************************************)
(* removeUnauthorizedExtrema and removeNonPersistentExtrema: one pass for  *)
(* the maxima, one for the minima on the inverted order.                   *)
(***************************************************************************)
(* The next pass to run after p, or "end".                                 *)
NextPass(p) == IF p = "start" /\ Wanted("maxima") THEN "maxima"
               ELSE IF p # "minima" /\ Wanted("minima") THEN "minima"
               ELSE "end"

BeginPasses ==
    /\ pass = "start"
    /\ pass' = NextPass("start")
    /\ order' = IF pass' = "minima" THEN Invert(order) ELSE order
    /\ UNCHANGED <<request, scalars, sortedIndices, removed, step, arrays,
                   status, propagations, props, segment, pc, locals, orders>>

Maxima == {v \in Vert : Larger(v) = {}}
Discarded == Maxima \ request.authorized

(* If nothing is authorized the highest maximum, the last one, stays.      *)
SimplifiedMaxima == IF request.authorized = {}
                    THEN Discarded \ {Highest(Discarded)} ELSE Discarded

(* initializeMemory and initializePropagations.  The queue mask serves as  *)
(* authorization mask and the local order as buffer of the maxima first.   *)
InitializePropagations ==
    LET found == Ascending(Discarded) IN
    /\ pass \in {"maxima", "minima"} /\ step = "begin"
    /\ step' = "propagate"
    /\ segmentation' = [v \in Vert |-> Unvisited]
    /\ queueMask' = [v \in Vert |-> IF v \in request.authorized THEN -2 ELSE -1]
    /\ localOrder' = [v \in Vert |-> IF v <= Len(found) THEN found[v] ELSE -1]
    /\ propagationMask' = [v \in Vert |-> Null]
    /\ propagations' = SimplifiedMaxima
    /\ comp' = [v \in Vert |-> v] /\ parent' = [v \in Vert |-> v]
    /\ aborted' = [v \in Vert |-> FALSE]
    /\ criticalPoints' = [v \in Vert |-> <<v>>]
    /\ queue' = [v \in Vert |-> {}]
    /\ segmentSize' = [v \in Vert |-> 0]
    /\ segment' = [v \in Vert |-> {}]
    /\ current' = [v \in Vert |-> v] /\ cur' = [v \in Vert |-> v]
    /\ pc' = [v \in Vert |-> IF v \in propagations' THEN "start" ELSE "none"]
    /\ UNCHANGED <<request, fields, pass, status, registered, todo, orders>>
-------------------------------------------------------------------------------
(***************************************************************************)
(* computeSimplePropagation, computePersistenceSensitivePropagation.       *)
(***************************************************************************)
propagating == <<request, fields, pass, step, localOrder, propagations,
                 segment, orders>>

Start(t) ==
    /\ pc[t] = "start"
    /\ queue' = [queue EXCEPT ![t] = {t}]
    /\ queueMask' = [queueMask EXCEPT ![t] = t]
    /\ Goto(t, "pop")
    /\ UNCHANGED <<propagating, segmentation, propagationMask, status, comp,
                   parent, aborted, criticalPoints, segmentSize, locals>>

(* What is popped before has been visited and is dropped.                  *)
Ahead(t) == {v \in queue[current[t]] : propagationMask[v] = Null}

OutOfVertices(t) ==
    /\ pc[t] = "pop"
    /\ Ahead(t) = {}
    /\ queue' = [queue EXCEPT ![current[t]] = {}]
    /\ status' = FALSE
    /\ Goto(t, "stopped")
    /\ UNCHANGED <<propagating, segmentation, queueMask, propagationMask, comp,
                   parent, aborted, criticalPoints, segmentSize, locals>>

Below(t, v) == {u \in queue[current[t]] : order[u] < order[v]}

(* Mutant of Exceeds: the height of the task's own maximum is taken after  *)
(* a merge too.                                                            *)
ExceedsOwn(t, v) == Persistent /\ Dist(scalars[t], scalars[v])
                                    > request.threshold
Exceeds(t, v) == Persistent /\ Dist(scalars[current[t]], scalars[v])
                                  > request.threshold

Abort(t) ==
    LET v == Highest(Ahead(t)) IN
    /\ pc[t] = "pop"
    /\ Ahead(t) # {}
    /\ Exceeds(t, v)
    /\ queue' = [queue EXCEPT ![current[t]] = Below(t, v)]
    /\ aborted' = [aborted EXCEPT ![current[t]] = TRUE]
    /\ Goto(t, "stopped")
    /\ UNCHANGED <<propagating, segmentation, queueMask, propagationMask, status,
                   comp, parent, criticalPoints, segmentSize, locals>>

Holder(u) == IF propagationMask[u] = Null THEN Null ELSE comp[propagationMask[u]]

(* Take the highest vertex, queue the lower neighbours and count the       *)
(* larger ones this propagation holds.                                     *)
Visit(t) ==
    LET c == current[t]
        v == Highest(Ahead(t))
        own == {u \in Larger(v) : Holder(u) = c}
        new == {u \in Neighbors(v) \ Larger(v) : queueMask[u] # c}
    IN  /\ pc[t] = "pop"
        /\ Ahead(t) # {}
        /\ ~Exceeds(t, v)
        /\ queue' = [queue EXCEPT ![c] = Below(t, v) \cup new]
        /\ queueMask' = [u \in Vert |-> IF u \in new THEN c ELSE queueMask[u]]
        /\ cur' = [cur EXCEPT ![t] = v]
        /\ registered' = [registered EXCEPT ![t] = Cardinality(own)]
        /\ Goto(t, IF own = Larger(v) THEN "mark" ELSE "capture")
        /\ UNCHANGED <<propagating, segmentation, propagationMask, status, comp,
                       parent, aborted, criticalPoints, segmentSize, current,
                       todo>>

(* At a saddle: take the larger neighbours held off the counter below -1   *)
(* and stop unless all of them are registered now.                         *)
RegisterWith(t, allButSome) ==
    LET v == cur[t]
        left == segmentation[v] - registered[t]
    IN  /\ pc[t] = "capture"
        /\ criticalPoints' = [criticalPoints EXCEPT ![current[t]] = Append(@, v)]
        /\ segmentation' = [segmentation EXCEPT ![v] = left]
        /\ Goto(t, IF left = -(Cardinality(Larger(v)) - allButSome) - 1
                   THEN "merge" ELSE "stopped")
        /\ UNCHANGED <<propagating, queueMask, propagationMask, status, comp,
                       parent, aborted, queue, segmentSize, locals>>

(* Mutant of Capture: the last but one goes on.                            *)
CaptureEarly(t) == RegisterWith(t, 1)
Capture(t) == RegisterWith(t, 0)

(* The propagation of the highest maximum takes the others in.             *)
Dominant(t) ==
    LET met == {Holder(u) : u \in Neighbors(cur[t])} \ {Null} IN
    /\ pc[t] = "merge"
    /\ current' = [current EXCEPT ![t] = Highest(met \cup {current[t]})]
    /\ todo' = [todo EXCEPT ![t] = met]
    /\ Goto(t, "unify")
    /\ UNCHANGED <<propagating, segmentation, queueMask, propagationMask, status,
                   props, cur, registered>>

(* Mutant of MergedQueue: the heap of the other is left behind.            *)
KeptQueue(c, p) == [queue EXCEPT ![p] = {}]
MergedQueue(c, p) == [queue EXCEPT ![c] = @ \cup queue[p], ![p] = {}]

(* Mutant of MergedSize: the size of the other is forgotten.               *)
OwnSize(c, p) == segmentSize
MergedSize(c, p) == [segmentSize EXCEPT ![c] = @ + segmentSize[p]]

(* unify() with one of the neighbours' propagations.                       *)
Unify(t, p) ==
    LET c == current[t] IN
    /\ pc[t] = "unify"
    /\ p \in todo[t]
    /\ todo' = [todo EXCEPT ![t] = @ \ {p}]
    /\ IF p # c
       THEN /\ comp' = [q \in Vert |-> IF comp[q] = p THEN c ELSE comp[q]]
            /\ parent' = [parent EXCEPT ![p] = c]
            /\ segmentSize' = MergedSize(c, p)
            /\ queue' = MergedQueue(c, p)
       ELSE UNCHANGED <<comp, parent, segmentSize, queue>>
    /\ Goto(t, IF todo[t] = {p} THEN "mark" ELSE "unify")
    /\ UNCHANGED <<propagating, segmentation, queueMask, propagationMask, status,
                   aborted, criticalPoints, current, cur, registered>>

Mark(t) ==
    LET c == current[t]
        v == cur[t]
    IN  /\ pc[t] = "mark"
        /\ propagationMask' = [propagationMask EXCEPT ![v] = c]
        /\ segmentation' = [segmentation EXCEPT ![v] = c]
        /\ segmentSize' = [segmentSize EXCEPT ![c] = @ + 1]
        /\ Goto(t, "pop")
        /\ UNCHANGED <<propagating, queueMask, status, comp, parent, aborted,
                       criticalPoints, queue, locals>>
-------------------------------------------------------------------------------
(***************************************************************************)
(* finalizePropagations, computeSegments.                                  *)
(***************************************************************************)
(* Mutant of IsParent: what merged into an aborted propagation is lost.    *)
IsRootPropagation(p) == ~aborted[p] /\ parent[p] = p
IsParent(p) == ~aborted[p] /\ (parent[p] = p \/ aborted[parent[p]])
Parents == {p \in propagations : IsParent(p)}

Propagated == step = "propagate" /\ \A p \in propagations : pc[p] = "stopped"

FinalizePropagations ==
    /\ Propagated /\ status
    /\ step' = "hills"
    /\ pc' = [p \in Vert |-> IF p \in Parents THEN "segment" ELSE "none"]
    /\ UNCHANGED <<request, fields, pass, arrays, status, propagations, props,
                   segment, locals, orders>>

Saddle(p) == Last(criticalPoints[p])

(* Fill the hill from its maximum, above its saddle.                       *)
Flood(p) == J!Component(request.mesh, p,
               {u \in Vert : segmentation[u] > 0 /\ order[u] > order[Saddle(p)]})

ComputeSegment(p) ==
    /\ pc[p] = "segment"
    /\ segment' = [segment EXCEPT ![p] = Flood(p)]
    /\ IF Cardinality(Flood(p)) = segmentSize[p]
       THEN /\ segmentation' = [v \in Vert |-> IF v \in Flood(p) THEN p
                                               ELSE segmentation[v]]
            /\ UNCHANGED status
       ELSE /\ status' = FALSE
            /\ segmentation' = [v \in Vert |-> IF v \in Flood(p) THEN -1000
                                               ELSE segmentation[v]]
    /\ Goto(p, "segmented")
    /\ UNCHANGED <<request, fields, pass, step, queueMask, localOrder,
                   propagationMask, propagations, props, locals, orders>>

Segmented == step = "hills" /\ \A p \in Parents : pc[p] # "segment"

(* An error reported by some task ends the simplification when the others  *)
(* have finished too.                                                      *)
Fail ==
    /\ ~status
    /\ IF step = "hills" THEN Segmented ELSE Propagated
    /\ step' = "failed"
    /\ UNCHANGED <<request, fields, pass, arrays, status, propagations, props,
                   segment, pc, locals, orders>>
-------------------------------------------------------------------------------
(***************************************************************************)
(* computeLocalOrderOfSegment: floods of the hill, alternately from its    *)
(* saddle downwards and from its boundary upwards, until no extremum is    *)
(* left in it.                                                             *)
(***************************************************************************)
ordering == <<request, fields, pass, step, segmentation, queueMask,
              propagationMask, status, propagations, props, segment, locals>>

Size(p) == segmentSize[p]

InitLocalOrder(p) ==
    /\ pc[p] = "segmented" /\ Segmented /\ status
    /\ localOrder' = [v \in Vert |->
          IF v \notin segment[p] THEN localOrder[v]
          ELSE IF Size(p) = 1 THEN -2 ELSE order[v] - N]
    /\ performSuperlevel' = [performSuperlevel EXCEPT ![p] = TRUE]
    /\ boundary' = [boundary EXCEPT ![p] = {}]
    /\ sequence' = [sequence EXCEPT ![p] = [i \in 1..(Size(p) + 1) |-> 1]]
    /\ Goto(p, IF Size(p) = 1 THEN "ordered" ELSE "order")
    /\ UNCHANGED ordering

Highest2(q) == CHOOSE e \in q : \A f \in q :
                  f[1] < e[1] \/ (f[1] = e[1] /\ f[2] <= e[2])

(* The keys of the vertices in this flood: a flood upwards inverts those   *)
(* of the hill.                                                            *)
Keys(p) ==
    [v \in Vert |-> IF performSuperlevel[p] \/ v \notin segment[p]
                    THEN localOrder[v] ELSE -Size(p) - 1 - localOrder[v]]

(* Its queue of entries <<key, vertex>>, the vertices queued so far (the   *)
(* code sets their local order to 0) and the vertices popped.              *)
FloodStart(p) ==
    IF performSuperlevel[p]
    THEN [queue |-> {<<N + 1, Saddle(p)>>}, queued |-> {}, popped |-> <<>>]
    ELSE [queue |-> {<<Keys(p)[v], v>> : v \in boundary[p]}
                       \cup {<<-(2 * N) - 2, Saddle(p)>>},
          queued |-> boundary[p],
          popped |-> <<>>]

FloodPop(p, st) ==
    LET top == Highest2(st.queue)
        near == {u \in Neighbors(top[2]) \ st.queued :
                    segmentation[u] = p /\ Keys(p)[u] < 0}
    IN  [queue |-> (st.queue \ {top}) \cup {<<Keys(p)[u], u>> : u \in near},
         queued |-> st.queued \cup near,
         popped |-> Append(st.popped, top[2])]

(* The one state the flood ends in: the saddle and every vertex of the     *)
(* hill are popped at most once.                                           *)
FloodEnds(p) ==
    LET after[k \in 0..(Size(p) + 1)] ==
            IF k = 0 THEN {FloodStart(p)}
            ELSE {IF st.queue = {} THEN st ELSE FloodPop(p, st) :
                     st \in after[k - 1]}
    IN  after[Size(p) + 1]

(* localVertexSequence after the flood: where nothing was popped it keeps  *)
(* its old entries.                                                        *)
Refilled(p, popped) ==
    [i \in 1..(Size(p) + 1) |-> IF i <= Len(popped) THEN popped[i]
                                ELSE sequence[p][i]]

(* Its entries are numbered -1, -2, ... from the saddle down, or           *)
(* ..., -2, -1 up to it; the place of the saddle is left out.              *)
Renumbered(p, seq, queued) ==
    LET n == Size(p)
        places(v) == {i \in 1..n : seq[IF performSuperlevel[p] THEN i + 1
                                       ELSE i] = v}
    IN  [v \in Vert |-> IF places(v) = {}
                        THEN IF v \in queued THEN 0 ELSE Keys(p)[v]
                        ELSE IF performSuperlevel[p] THEN -Max(places(v))
                        ELSE Max(places(v)) - 1 - n]

OutsideNeighbors(p, v) ==
    {u \in Neighbors(v) \ {Saddle(p)} : segmentation[u] # p}
InsideNeighbors(p, v)  ==
    {u \in Neighbors(v) \ {Saddle(p)} : segmentation[u] = p}
OnBoundary(p) == {v \in segment[p] : OutsideNeighbors(p, v) # {}}

(* Mutant of ResidualMaxima: the way out over the saddle does not count.   *)
TouchingMaxima(p, lo) ==
    {v \in segment[p] : \A u \in InsideNeighbors(p, v) : lo[u] <= lo[v]}
ResidualMaxima(p, lo) ==
    {v \in segment[p] : /\ Saddle(p) \notin Neighbors(v)
                        /\ \A u \in InsideNeighbors(p, v) : lo[u] <= lo[v]}
ResidualMinima(p, lo) ==
    {v \in segment[p] \ OnBoundary(p) :
        \A u \in InsideNeighbors(p, v) : lo[u] > lo[v]}

Iterate(p) == \E flood \in FloodEnds(p) :
    LET seq == Refilled(p, flood.popped)
        edge == Ascending(OnBoundary(p))
        residual == ResidualMaxima(p, localOrder')
                        \cup ResidualMinima(p, localOrder')
    IN  /\ pc[p] = "order"
        /\ localOrder' = Renumbered(p, seq, flood.queued)
        /\ performSuperlevel' = [performSuperlevel EXCEPT ![p] = ~@]
        /\ sequence' = [sequence EXCEPT ![p] =
              [i \in 1..(Size(p) + 1) |-> IF i <= Len(edge) THEN edge[i]
                                          ELSE seq[i]]]
        /\ IF residual = {}
           THEN Goto(p, "ordered") /\ UNCHANGED boundary
           ELSE /\ boundary' = [boundary EXCEPT ![p] =
                      IF @ = {} THEN OnBoundary(p) ELSE @]
                /\ UNCHANGED pc
        /\ UNCHANGED ordering
-------------------------------------------------------------------------------
(***************************************************************************)
(* flattenOrder, computeGlobalOrder, flattenScalars, and what follows the  *)
(* last pass.                                                              *)
(***************************************************************************)
(* The saddle comes above the hills that are flattened to it.              *)
FinalLocalOrder ==
    [v \in Vert |-> IF \E p \in Parents : v = Saddle(p) THEN N + 1
                    ELSE localOrder[v]]
FlatOrder ==
    [v \in Vert |-> IF \E p \in Parents : v \in segment[p]
                    THEN order[Saddle(CHOOSE p \in Parents : v \in segment[p])]
                    ELSE order[v]]

(* The number of vertices before each one, by order, then local order,     *)
(* then number.  Mutant of Rank: the local order is left out.              *)
RankByNumber(flat, local) ==
    [v \in Vert |-> Cardinality({u \in Vert :
        flat[u] < flat[v] \/ (flat[u] = flat[v] /\ u < v)})]
Rank(flat, local) ==
    [v \in Vert |-> Cardinality({u \in Vert :
        \/ flat[u] < flat[v]
        \/ flat[u] = flat[v] /\ (local[u] < local[v]
                                 \/ (local[u] = local[v] /\ u < v))})]

Hills == {[segment |-> segment[p], saddle |-> Saddle(p)] : p \in Parents}
Flattened(s, hills) ==
    [v \in DOMAIN s |-> IF \E h \in hills : v \in h.segment
                        THEN s[(CHOOSE h \in hills : v \in h.segment).saddle]
                        ELSE s[v]]

(* Mutant of Restored: the order stays inverted.                           *)
NotRestored(o) == o
Restored(o) == IF pass = "minima" THEN Invert(o) ELSE o

EndPass ==
    LET rank == Rank(FlatOrder, FinalLocalOrder)
        restored == Restored(rank)
    IN
    /\ Segmented /\ status
    /\ \A p \in Parents : pc[p] = "ordered"
    /\ localOrder' = FinalLocalOrder
    /\ sortedIndices' = [i \in 1..N |-> CHOOSE v \in Vert : rank[v] = i - 1]
    /\ scalars' = IF Persistent THEN Flattened(scalars, Hills) ELSE scalars
    /\ removed' = Append(removed, Hills)
    /\ pass' = NextPass(pass)
    /\ order' = IF pass' = "minima" THEN Invert(restored) ELSE restored
    /\ step' = "begin"
    /\ UNCHANGED <<request, segmentation, queueMask, propagationMask, status,
                   propagations, props, segment, pc, locals, orders>>

(* Going through sortedIndices, from the end unless descending, every      *)
(* scalar not above the one before it is set to the next float after that  *)
(* one: a vertex ends up as far above each one before it as it comes later.*)
Perturbed(s, descending) ==
    LET seq == IF descending THEN sortedIndices ELSE Reverse(sortedIndices)
        place(v) == CHOOSE i \in 1..N : seq[i] = v
    IN  [v \in Vert |-> Max({s[seq[j]] + (place(v) - j) : j \in 1..place(v)})]

Finish ==
    LET flat == IF Persistent THEN scalars
                ELSE FoldLeft(Flattened, scalars, removed)
    IN  /\ pass = "end" /\ step = "begin"
        /\ scalars' = IF ~request.perturb THEN flat
                      ELSE Perturbed(flat, Persistent
                                              /\ request.pairType = "maxima")
        /\ step' = "done"
        /\ UNCHANGED <<request, order, sortedIndices, removed, pass, arrays,
                       status, propagations, props, segment, pc, locals, orders>>

Returned == step \in {"done", "failed"} /\ UNCHANGED vars
-------------------------------------------------------------------------------
Propagate(t) ==
    \/ Start(t) \/ OutOfVertices(t) \/ Abort(t) \/ Visit(t) \/ Capture(t)
    \/ Dominant(t) \/ (\E p \in Vert : Unify(t, p)) \/ Mark(t)

Simplify(p) == ComputeSegment(p) \/ InitLocalOrder(p) \/ Iterate(p)

Next == \/ \E t \in Vert : Propagate(t) \/ Simplify(t)
        \/ BeginPasses \/ InitializePropagations \/ FinalizePropagations
        \/ Fail \/ EndPass \/ Finish \/ Returned

Spec == Init /\ [][Next]_vars

(* Some thread of the team is always running, and no task waits for        *)
(* another one.                                                            *)
FairSpec == Spec /\ WF_vars(Next)
-------------------------------------------------------------------------------
TypeOK ==
    /\ scalars \in [Vert -> Int]
    /\ order \in [Vert -> 0..(N - 1)] /\ IsInjective(order)
    /\ pass \in {"start", "maxima", "minima", "end"}
    /\ step \in {"begin", "propagate", "hills", "done", "failed"}
    /\ segmentation \in [Vert -> {-1000} \cup -(N + 1)..N]
    /\ queueMask \in [Vert -> -2..N]
    /\ localOrder \in [Vert -> -N..(N + 1)]
    /\ propagationMask \in [Vert -> propagations \cup {Null}]
    /\ sortedIndices \in Seq(Vert)
    /\ status \in BOOLEAN
    /\ propagations \subseteq Vert
    /\ comp \in [Vert -> Vert] /\ parent \in [Vert -> Vert]
    /\ aborted \in [Vert -> BOOLEAN]
    /\ criticalPoints \in [Vert -> Seq(Vert)]
    /\ queue \in [Vert -> SUBSET Vert]
    /\ segmentSize \in [Vert -> 0..N]
    /\ segment \in [Vert -> SUBSET Vert]
    /\ Len(removed) <= 2
    /\ pc \in [Vert -> {"none", "start", "pop", "capture", "merge", "unify",
                        "mark", "stopped", "segment", "segmented", "order",
                        "ordered"}]
    /\ current \in [Vert -> Vert] /\ cur \in [Vert -> Vert]
    /\ registered \in [Vert -> 0..N] /\ todo \in [Vert -> SUBSET Vert]
    /\ performSuperlevel \in [Vert -> BOOLEAN]
    /\ boundary \in [Vert -> SUBSET Vert]
    /\ sequence \in [Vert -> Seq(Vert)]

Held(c) == {v \in Vert : Holder(v) = c}
Above(v) == {u \in Vert : order[u] > order[v]}

(* Whatever the interleaving of the tasks, what a propagation holds when   *)
(* it goes on to a vertex is exactly one component of the superlevel set   *)
(* above that vertex, or all that meet there when it merged them: no       *)
(* vertex of the hill was overtaken or left out.                           *)
GrowsSuperlevelSet ==
    \A t \in propagations : pc[t] = "mark" =>
        LET v == cur[t]
            components == {J!Component(request.mesh, u, Above(v)) : u \in Larger(v)}
        IN  /\ Held(current[t]) = UNION components
            /\ segmentSize[current[t]] = Cardinality(Held(current[t]))

(* The propagations the last visitor of a saddle unites all stopped there  *)
(* for good: unify() changes their sizes and queues without a lock.        *)
MergesAlone ==
    \A t \in propagations : pc[t] \in {"merge", "unify"} =>
        LET met == {Holder(u) : u \in Neighbors(cur[t])} \ {Null} IN
        /\ \A p \in met : Saddle(p) = cur[t]
        /\ \A u \in Larger(cur[t]) : propagationMask[u] # Null
        /\ \A o \in propagations \ {t} :
              pc[o] \in {"pop", "capture", "merge", "unify", "mark"} =>
                  current[o] \notin met /\ cur[o] # cur[t]

(* The counters below -1 implement the last-visitor protocol in each pass: *)
(* every larger neighbour of a vertex is registered once, and the task     *)
(* that registers the last one, no other, goes on from there.              *)
Registered(u, v) ==
    /\ Holder(u) # Null
    /\ \/ Saddle(Holder(u)) = v
       \/ \E t \in propagations : /\ pc[t] = "mark" /\ cur[t] = v
                                   /\ current[t] = Holder(u)
Pending(v) == IF propagationMask[v] # Null THEN {}
              ELSE {u \in Larger(v) : ~Registered(u, v)}
Claimant(v) ==
    LET claims == {t \in propagations :
                      cur[t] = v /\ pc[t] \in {"merge", "unify", "mark"}}
    IN  IF Larger(v) = {} \/ claims = {} THEN Null ELSE Min(claims)

LV(v) == INSTANCE LastVisitor WITH
             Nobody <- Null, pending <- Pending(v), claimant <- Claimant(v),
             settled <- Larger(v) # {} /\ propagationMask[v] # Null

ImplementsLastVisitor ==
    [][\A v \in Vert :
          /\ step = "begin" /\ step' = "propagate" => LV(v)!LVInit(Larger(v))'
          /\ step = "propagate" /\ step' = "propagate" =>
                LV(v)!Stay \/ LV(v)!LVNext]_vars

(* The code reports an error, and leaves the field half edited, when a     *)
(* propagation runs out of vertices or a hill has not the size that was    *)
(* counted.  The latter never happens, the former only if no maximum is    *)
(* left that is authorized.                                                *)
FailsWithoutMaximum ==
    ~status => /\ ~Persistent /\ Maxima \cap request.authorized = {}
               /\ \A p \in Vert : pc[p] # "segmented"

IsMaximum(v, o) == \A u \in Neighbors(v) : o[u] < o[v]
IsMinimum(v, o) == \A u \in Neighbors(v) : o[u] > o[v]

(* The reference: a maximum of order o dies at the highest vertex from     *)
(* where the superlevel set connects it to a higher one; those that are    *)
(* more persistent than the threshold.                                     *)
Exceeding(o, s) ==
    {m \in Vert :
        /\ IsMaximum(m, o)
        /\ \A v \in Vert :
              (\E h \in J!Component(request.mesh, m, {u \in Vert : o[u] >= o[v]}) :
                    o[h] > o[m]) => Dist(s[m], s[v]) > request.threshold}

(* A pass leaves exactly the maxima that were authorized, or that were     *)
(* more persistent than the threshold when it began, and makes no new      *)
(* minimum: the local orders put no extremum inside a hill or on its edge, *)
(* where it joins the field again.                                         *)
PassSimplifies ==
    [][step = "hills" /\ step' = "begin" =>
        LET after == IF "minima" \in {pass, pass'} THEN Invert(order')
                     ELSE order'
        IN  /\ {v \in Vert : IsMaximum(v, after)} =
                  IF Persistent THEN Exceeding(order, scalars)
                  ELSE {v \in request.authorized : IsMaximum(v, order)}
            /\ \A v \in Vert : IsMinimum(v, after) => IsMinimum(v, order)]_vars

(* In the end no extremum of a kind that was asked for is left that was    *)
(* not authorized; one that was is gone only if it lay in a hill the pass  *)
(* for the other kind removed.                                             *)
AuthorizedRemain ==
    step = "done" /\ ~Persistent =>
        /\ \A v \in Vert \ request.authorized :
              /\ Wanted("maxima") => ~IsMaximum(v, order)
              /\ Wanted("minima") => ~IsMinimum(v, order)
        /\ \A e \in request.authorized :
              \/ IsMaximum(e, order) \/ IsMinimum(e, order)
              \/ \E i \in DOMAIN removed : \E h \in removed[i] : e \in h.segment

(* The scalars and the order that is returned with them agree, and with a  *)
(* perturbation the scalars alone give the order.                          *)
ScalarsFollowOrder ==
    step = "done" =>
        \A u, v \in Vert : order[u] < order[v] =>
            /\ scalars[u] <= scalars[v]
            /\ request.perturb => scalars[u] < scalars[v]

(* Where extrema up to a threshold are removed no scalar moves further     *)
(* than the threshold, in both passes together.                            *)
ErrorBounded ==
    step = "done" /\ Persistent /\ ~request.perturb =>
        \A v \in Vert : Dist(scalars[v], request.scalar[v]) <= request.threshold

(* The simplification returns.                                             *)
Finishes == <>(step \in {"done", "failed"})
===============================================================================
