----------------------------- MODULE IntegralLines -----------------------------
(***************************************************************************)
(* Integral lines over a mesh whose vertices are distributed over MPI      *)
(* ranks.  A rank traces the lines of its seeds upwards; a line that comes *)
(* to a vertex of another rank is handed over with its last two vertices,  *)
(* and a line may fork at saddles.  The ranks work in rounds: they trace   *)
(* what they have, add up how many lines were finished and added, stop     *)
(* when the counter of unfinished lines is zero, and else exchange first   *)
(* the sizes and then the elements of their messages.  In the end the      *)
(* points and edges of the lines get global identifiers.                   *)
(*                                                                         *)
(* Vertices are numbered by their order in the direction of the lines.     *)
(* The lists of the threads of a rank are one list, in any order.          *)
(***************************************************************************)
EXTENDS Integers, Sequences, FiniteSets, FiniteSetsExt, SequencesExt

CONSTANTS MPIsize,
          Requests  \* what a behaviour may be asked for, see below

Ranks == 0..(MPIsize - 1)

(* A mesh on the vertices 1..n, which of them lie on the boundary of the   *)
(* domain if that is of dimension 3, the rank of each, the seeds of each   *)
(* rank (its own vertices), and whether lines fork.                        *)
ASSUME RequestsAssumption ==
    /\ MPIsize \in Nat /\ MPIsize >= 2
    /\ \A r \in Requests :
          /\ r.rank \in Seq(Ranks)
          /\ \A e \in r.mesh : \E u, v \in DOMAIN r.rank : u # v /\ e = {u, v}
          /\ r.boundary \subseteq DOMAIN r.rank
          /\ r.seeds \in [Ranks -> Seq(DOMAIN r.rank)]
          /\ \A p \in Ranks : \A i \in DOMAIN r.seeds[p] :
                r.rank[r.seeds[p][i]] = p
          /\ r.forking \in BOOLEAN

VARIABLES
    request,                      \* the arguments, which no step changes
    pc,
    \* outputIntegralLines_ and the lines being traced, by their place there
    lines, open,
    finishedElement, addedElement, globalElementCounter,
    toSend, sendBuf, recvBuf, recvMessageSize,
    \* MPI: the contributions of each rank to the reductions, how many
    \* reductions it has the result of, and the messages on their way
    contributed, rounds, sizes, data,
    \* identifiers of points and edges, ghosts for each neighbour, and how
    \* many neighbours they have been exchanged with
    globalVertexId, globalCellId, unmatchedGhosts, exchanged

counters == <<finishedElement, addedElement, globalElementCounter>>
buffers  == <<toSend, sendBuf, recvBuf, recvMessageSize>>
mpi      == <<contributed, rounds, sizes, data>>
ids      == <<globalVertexId, globalCellId, unmatchedGhosts, exchanged>>
vars == <<request, pc, lines, open, counters, buffers, mpi, ids>>

J == INSTANCE JoinTree
Owner(v) == request.rank[v]
Neighbors(v) == J!Neighbors(request.mesh, v)
Upper(v) == {u \in Neighbors(v) : u > v}
Lower(v) == {u \in Neighbors(v) : u < v}
Components(S) == {J!Component(request.mesh, u, S) : u \in S}

(* The numbers of S in ascending order.                                    *)
InOrder(S) == [k \in 1..Cardinality(S) |->
                  CHOOSE x \in S : Cardinality({y \in S : y < x}) = k - 1]

(* A rank neighbours those it has ghost vertices of; in ascending order.   *)
NeighborRanks(r) ==
    {q \in Ranks \ {r} : \E e \in request.mesh : {Owner(v) : v \in e} = {r, q}}
RankList(r) == InOrder(NeighborRanks(r))

NoFork == -1
NoId == -1
Line(seed, fork, first, path) ==
    [seed |-> seed, fork |-> fork, first |-> first, trajectory |-> path]

Nothing == [r \in Ranks |-> [q \in Ranks |-> <<>>]]
Total(number) == MapThenSumSet(LAMBDA x : number[x], DOMAIN number)
TotalSeeds(seeds) == Total([r \in Ranks |-> Len(seeds[r])])

Init ==
    /\ request \in Requests
    /\ pc = [r \in Ranks |-> "trace"]
    /\ lines = [r \in Ranks |->
                   [i \in DOMAIN request.seeds[r] |->
                       LET v == request.seeds[r][i] IN Line(v, NoFork, 0, <<v>>)]]
    /\ open = [r \in Ranks |-> DOMAIN request.seeds[r]]
    /\ finishedElement = [r \in Ranks |-> 0]
    /\ addedElement = [r \in Ranks |-> 0]
    /\ globalElementCounter = [r \in Ranks |-> TotalSeeds(request.seeds)]
    /\ toSend = Nothing /\ sendBuf = Nothing /\ recvBuf = Nothing
    /\ recvMessageSize = [r \in Ranks |-> [q \in Ranks |-> 0]]
    /\ contributed = [r \in Ranks |-> <<>>]
    /\ rounds = [r \in Ranks |-> 0]
    /\ sizes = Nothing /\ data = Nothing
    /\ globalVertexId = [r \in Ranks |-> <<>>]
    /\ globalCellId = [r \in Ranks |-> <<>>]
    /\ unmatchedGhosts = Nothing
    /\ exchanged = [r \in Ranks |-> 0]

Goto(r, label) == pc' = [pc EXCEPT ![r] = label]
-------------------------------------------------------------------------------
(***************************************************************************)
(* computeIntegralLine: a task does this for each line.                    *)
(***************************************************************************)
tracing == <<request, pc, globalElementCounter, sendBuf, recvBuf,
             recvMessageSize, mpi, ids>>

Tip(r, i) == Last(lines[r][i].trajectory)
Tracing(r, i) == pc[r] = "trace" /\ i \in open[r]

Close(r, i) == open' = [open EXCEPT ![r] = @ \ {i}]

IsMaximum(v) == Upper(v) = {}
OnBoundary(S) == S \cap request.boundary # {}
IsSaddle(v) == \/ Cardinality(Components(Upper(v))) > 1
               \/ Cardinality(Components(Lower(v))) > 1
               \/ /\ Lower(v) # {}
                  /\ OnBoundary({v}) /\ OnBoundary(Upper(v)) # OnBoundary(Lower(v))
Forks(v) == request.forking /\ ~IsMaximum(v) /\ IsSaddle(v)

Finish(r, i) ==
    /\ Tracing(r, i)
    /\ Owner(Tip(r, i)) = r
    /\ IsMaximum(Tip(r, i))
    /\ finishedElement' = [finishedElement EXCEPT ![r] = @ + 1]
    /\ Close(r, i)
    /\ UNCHANGED <<tracing, lines, addedElement, toSend>>

Advance(r, i) ==
    LET v == Tip(r, i) IN
    /\ Tracing(r, i)
    /\ Owner(v) = r
    /\ ~IsMaximum(v) /\ ~Forks(v)
    /\ lines' = [lines EXCEPT ![r][i].trajectory = Append(@, Max(Upper(v)))]
    /\ UNCHANGED <<tracing, open, finishedElement, addedElement, toSend>>

Branches(l, v) ==
    LET n == l.first + Len(l.trajectory) - 1
        next == InOrder({Max(c) : c \in Components(Upper(v))})
    IN  [k \in DOMAIN next |-> Line(l.seed, next[k], n, <<v, next[k]>>)]

(* Mutant of Added: the line that ends at the fork is taken off here too.  *)
OthersAdded(v) == Cardinality(Components(Upper(v))) - 1
Added(v) == Cardinality(Components(Upper(v)))

(* The line ends here and one for each component of the upper link begins. *)
Fork(r, i) ==
    LET v == Tip(r, i)
        branches == Branches(lines[r][i], v)
    IN  /\ Tracing(r, i)
        /\ Owner(v) = r
        /\ Forks(v)
        /\ finishedElement' = [finishedElement EXCEPT ![r] = @ + 1]
        /\ addedElement' = [addedElement EXCEPT ![r] = @ + Added(v)]
        /\ lines' = [lines EXCEPT ![r] = @ \o branches]
        /\ open' = [open EXCEPT ![r] =
                       (@ \ {i}) \cup
                       {Len(lines[r]) + k : k \in DOMAIN branches}]
        /\ UNCHANGED <<tracing, toSend>>

Element(l) ==
    LET n == Len(l.trajectory) IN
    [from |-> l.trajectory[n - 1], to |-> l.trajectory[n],
     local |-> l.first + n - 2, seed |-> l.seed, fork |-> l.fork]

(* storeToSendIfNecessary.                                                 *)
HandOver(r, i) ==
    /\ Tracing(r, i)
    /\ Owner(Tip(r, i)) # r
    /\ toSend' = [toSend EXCEPT ![r][Owner(Tip(r, i))] =
                     Append(@, Element(lines[r][i]))]
    /\ Close(r, i)
    /\ UNCHANGED <<tracing, lines, finishedElement, addedElement>>
-------------------------------------------------------------------------------
(***************************************************************************)
(* execute: the rounds.                                                    *)
(***************************************************************************)
(* Balance and enter MPI_Allreduce, when all tasks have ended.             *)
Contribute(r) ==
    LET balance == finishedElement[r] - addedElement[r] IN
    /\ pc[r] = "trace"
    /\ open[r] = {}
    /\ finishedElement' = [finishedElement EXCEPT ![r] = balance]
    /\ addedElement' = [addedElement EXCEPT ![r] = 0]
    /\ contributed' = [contributed EXCEPT ![r] = Append(@, balance)]
    /\ Goto(r, "reduce")
    /\ UNCHANGED <<request, lines, open, globalElementCounter, buffers, rounds,
                   sizes, data, ids>>

finishedElementReceived(k) == Total([r \in Ranks |-> contributed[r][k]])

(* Mutant of Left: a rank takes off only what it finished itself.          *)
LeftHere(r) == globalElementCounter[r] - contributed[r][rounds[r] + 1]
Left(r) == globalElementCounter[r] - finishedElementReceived(rounds[r] + 1)

Reduced(r) ==
    /\ pc[r] = "reduce"
    /\ \A q \in Ranks : Len(contributed[q]) > rounds[r]
    /\ rounds' = [rounds EXCEPT ![r] = @ + 1]
    /\ globalElementCounter' = [globalElementCounter EXCEPT ![r] = Left(r)]
    /\ finishedElement' = [finishedElement EXCEPT ![r] = 0]

Stop(r) ==
    /\ Reduced(r)
    /\ Left(r) = 0
    /\ Goto(r, "count")
    /\ UNCHANGED <<request, lines, open, addedElement, buffers, contributed,
                   sizes, data, ids>>

Gathered(r, q) == sendBuf[r][q] \o toSend[r][q]

(* Mutant of MessageSize: what the tasks handed over is not counted yet.   *)
OldSize(r, q) == Len(sendBuf[r][q])
MessageSize(r, q) == Len(Gathered(r, q))

Continue(r) ==
    /\ Reduced(r)
    /\ Left(r) # 0
    /\ sendBuf' = [sendBuf EXCEPT ![r] = [q \in Ranks |-> Gathered(r, q)]]
    /\ toSend' = [toSend EXCEPT ![r] = [q \in Ranks |-> <<>>]]
    /\ sizes' = [sizes EXCEPT ![r] = [q \in Ranks |->
                    IF q \in NeighborRanks(r)
                    THEN Append(@[q], MessageSize(r, q)) ELSE @[q]]]
    /\ Goto(r, "sizes")
    /\ UNCHANGED <<request, lines, open, addedElement, recvBuf, recvMessageSize,
                   contributed, data, ids>>

(* MPI_Waitall for the sizes, then the receives and sends of the elements. *)
ReceiveSizes(r) ==
    LET near == NeighborRanks(r) IN
    /\ pc[r] = "sizes"
    /\ \A q \in near : sizes[q][r] # <<>>
    /\ recvMessageSize' = [recvMessageSize EXCEPT ![r] = [q \in Ranks |->
                              IF q \in near THEN Head(sizes[q][r]) ELSE 0]]
    /\ sizes' = [q \in Ranks |-> IF q \in near
                                 THEN [sizes[q] EXCEPT ![r] = Tail(@)]
                                 ELSE sizes[q]]
    /\ data' = [data EXCEPT ![r] = [q \in Ranks |->
                   IF sendBuf[r][q] # <<>> THEN Append(@[q], sendBuf[r][q])
                   ELSE @[q]]]
    /\ Goto(r, "data")
    /\ UNCHANGED <<request, lines, open, counters, toSend, sendBuf, recvBuf,
                   contributed, rounds, ids>>

Expecting(r) == {q \in NeighborRanks(r) : recvMessageSize[r][q] > 0}

(* A receive buffer is never made smaller.                                 *)
Overwritten(buf, m) == m \o SubSeq(buf, Len(m) + 1, Len(buf))
Filled(r) == [q \in Ranks |-> IF q \in Expecting(r)
                              THEN Overwritten(recvBuf[r][q], Head(data[q][r]))
                              ELSE recvBuf[r][q]]

(* Mutant of Received: the whole buffer is read.                           *)
WholeBuffer(r, q) == Filled(r)[q]
Received(r, q) == SubSeq(Filled(r)[q], 1, recvMessageSize[r][q])

(* receiveElement.                                                         *)
Unpacked(e) == Line(e.seed, e.fork, e.local, <<e.from, e.to>>)

NewLines(r) ==
    LET from == RankList(r)
        part == [k \in DOMAIN from |-> Received(r, from[k])]
        all  == FlattenSeq(part)
    IN  [k \in DOMAIN all |-> Unpacked(all[k])]

(* Mutant of Sent: the send buffers keep what they held.                   *)
Kept(r) == sendBuf[r]
Sent(r) == [q \in Ranks |-> <<>>]

ReceiveElements(r) ==
    /\ pc[r] = "data"
    /\ \A q \in Expecting(r) : data[q][r] # <<>>
    /\ recvBuf' = [recvBuf EXCEPT ![r] = Filled(r)]
    /\ data' = [q \in Ranks |-> IF q \in Expecting(r)
                                THEN [data[q] EXCEPT ![r] = Tail(@)]
                                ELSE data[q]]
    /\ sendBuf' = [sendBuf EXCEPT ![r] = Sent(r)]
    /\ lines' = [lines EXCEPT ![r] = @ \o NewLines(r)]
    /\ open' = [open EXCEPT ![r] = {Len(lines[r]) + k : k \in DOMAIN NewLines(r)}]
    /\ Goto(r, "trace")
    /\ UNCHANGED <<request, counters, toSend, recvMessageSize, contributed,
                   rounds, sizes, ids>>
-------------------------------------------------------------------------------
(***************************************************************************)
(* getGlobalIdentifiers and exchangeGhosts.                                *)
(***************************************************************************)
traced == <<request, lines, open, counters, buffers, mpi>>

(* The ends of a line that belong to other ranks.                          *)
Ghosts(r, l) == {k \in {1, Len(l.trajectory)} : Owner(l.trajectory[k]) # r}

RealVertices(r, l) == Len(l.trajectory) - Cardinality(Ghosts(r, l))
RealCells(r, l) == Len(l.trajectory) - 1 - Cardinality(Ghosts(r, l) \cap {1})

(* Enter MPI_Exscan with the numbers of vertices and edges.                *)
Count(r) ==
    /\ pc[r] = "count"
    /\ Goto(r, "number")
    /\ UNCHANGED <<traced, ids>>

realVertexNumber(r) ==
    MapThenSumSet(LAMBDA i : RealVertices(r, lines[r][i]), DOMAIN lines[r])
realCellNumber(r) ==
    MapThenSumSet(LAMBDA i : RealCells(r, lines[r][i]), DOMAIN lines[r])

Places(r) == UNION {{i} \X (DOMAIN lines[r][i].trajectory) : i \in DOMAIN lines[r]}
OwnVertices(r) == {p \in Places(r) : p[2] \notin Ghosts(r, lines[r][p[1]])}
Steps(r) == {p \in Places(r) : p[2] < Len(lines[r][p[1]].trajectory)}
OwnCells(r) == {p \in Steps(r) : p[2] = 1 => 1 \notin Ghosts(r, lines[r][p[1]])}

(* Its own are numbered in the order of the lines.                         *)
Numbered(own, offset, i, k) ==
    IF <<i, k>> \notin own THEN NoId
    ELSE offset + Cardinality({o \in own : o[1] < i \/ (o[1] = i /\ o[2] < k)})

(* What is sent for the segments that begin or end with a ghost of q.      *)
Unmatched(r, q, vertexId, cellId) ==
    LET segment(i, k, ghost, id, edge) ==
            [key |-> <<lines[r][i].seed, lines[r][i].fork, lines[r][i].first + k - 1>>,
             ownedGlobalId |-> id, globalEdgeId |-> edge,
             line |-> i, vertex |-> ghost, cell |-> k]
        long == {i \in DOMAIN lines[r] : Len(lines[r][i].trajectory) > 1}
        of(i, k) == /\ k \in Ghosts(r, lines[r][i])
                    /\ Owner(lines[r][i].trajectory[k]) = q
        end(i) == Len(lines[r][i].trajectory)
    IN  {segment(i, 1, 1, vertexId[i][2], NoId) : i \in {j \in long : of(j, 1)}}
        \cup
        {segment(i, end(i) - 1, end(i), vertexId[i][end(i) - 1],
                 cellId[i][end(i) - 1]) : i \in {j \in long : of(j, end(j))}}

Before(a, b) == \E n \in DOMAIN a : a[n] < b[n] /\ \A m \in 1..(n - 1) : a[m] = b[m]

(* The sort is not stable: equal keys come in any order.  Mutant of        *)
(* Sortings: the ghosts are not sorted.                                    *)
Arrangements(S) == {s \in [1..Cardinality(S) -> S] : IsInjective(s)}
Sortings(S) == {s \in Arrangements(S) :
                   \A m, n \in DOMAIN s : Before(s[m].key, s[n].key) => m < n}

Number(r) ==
    LET ownV == OwnVertices(r)
        ownC == OwnCells(r)
        offV == MapThenSumSet(realVertexNumber, 0..(r - 1))
        offC == MapThenSumSet(realCellNumber, 0..(r - 1))
        vertexId == [i \in DOMAIN lines[r] |->
                        [k \in DOMAIN lines[r][i].trajectory |->
                            Numbered(ownV, offV, i, k)]]
        cellId == [i \in DOMAIN lines[r] |->
                      [k \in 1..(Len(lines[r][i].trajectory) - 1) |->
                          Numbered(ownC, offC, i, k)]]
        sortings(q) == Sortings(Unmatched(r, q, vertexId, cellId))
    IN  /\ pc[r] = "number"
        /\ \A q \in 0..(r - 1) : pc[q] \in {"number", "exchange", "done"}
        /\ globalVertexId' = [globalVertexId EXCEPT ![r] = vertexId]
        /\ globalCellId' = [globalCellId EXCEPT ![r] = cellId]
        /\ \E f \in [Ranks -> UNION {sortings(q) : q \in Ranks}] :
              /\ \A q \in Ranks : f[q] \in sortings(q)
              /\ unmatchedGhosts' = [unmatchedGhosts EXCEPT ![r] = f]
        /\ Goto(r, IF NeighborRanks(r) = {} THEN "done" ELSE "exchange")
        /\ UNCHANGED <<traced, exchanged>>

(* Whether q has come to its MPI_Sendrecv with r.                          *)
Reached(q, r) ==
    /\ pc[q] \in {"exchange", "done"}
    /\ \E n \in DOMAIN RankList(q) : n <= exchanged[q] + 1 /\ RankList(q)[n] = r

(* Where nothing was received the zeros of the buffer are taken.           *)
Exchange(r) ==
    LET q == RankList(r)[exchanged[r] + 1]
        mine == unmatchedGhosts[r][q]
        theirs == unmatchedGhosts[q][r]
        answer == [n \in DOMAIN mine |-> IF n \in DOMAIN theirs THEN theirs[n]
                       ELSE [ownedGlobalId |-> 0, globalEdgeId |-> 0]]
        for(i, k) == {n \in DOMAIN mine : mine[n].line = i /\ mine[n].vertex = k}
        forCell(i, k) == {n \in DOMAIN mine : mine[n].line = i /\ mine[n].cell = k}
    IN  /\ pc[r] = "exchange"
        /\ Reached(q, r)
        /\ globalVertexId' = [globalVertexId EXCEPT ![r] =
              [i \in DOMAIN @ |-> [k \in DOMAIN @[i] |->
                  IF for(i, k) = {} THEN @[i][k]
                  ELSE answer[Max(for(i, k))].ownedGlobalId]]]
        /\ globalCellId' = [globalCellId EXCEPT ![r] =
              [i \in DOMAIN @ |-> [k \in DOMAIN @[i] |->
                  IF @[i][k] # NoId \/ forCell(i, k) = {} THEN @[i][k]
                  ELSE answer[Max(forCell(i, k))].globalEdgeId]]]
        /\ exchanged' = [exchanged EXCEPT ![r] = @ + 1]
        /\ Goto(r, IF exchanged[r] + 1 = Len(RankList(r)) THEN "done"
                   ELSE "exchange")
        /\ UNCHANGED <<traced, unmatchedGhosts>>

AllDone == \A r \in Ranks : pc[r] = "done"
Returned == AllDone /\ UNCHANGED vars
-------------------------------------------------------------------------------
Trace(r, i) == Finish(r, i) \/ Advance(r, i) \/ Fork(r, i) \/ HandOver(r, i)
Round(r) == Contribute(r) \/ Stop(r) \/ Continue(r) \/ ReceiveSizes(r)
                \/ ReceiveElements(r)
Identify(r) == Count(r) \/ Number(r) \/ Exchange(r)

Next == \/ \E r \in Ranks : Round(r) \/ Identify(r)
        \/ \E r \in Ranks : \E i \in open[r] : Trace(r, i)
        \/ Returned

Spec == Init /\ [][Next]_vars

(* Every rank has a process that runs on until it waits for another rank.  *)
FairSpec == Spec /\ WF_vars(Next)
-------------------------------------------------------------------------------
Stopped(r) == pc[r] \in {"count", "number", "exchange", "done"}
Vertices == DOMAIN request.rank

TypeOK ==
    /\ pc \in [Ranks -> {"trace", "reduce", "sizes", "data", "count", "number",
                         "exchange", "done"}]
    /\ \A r \in Ranks :
          /\ \A i \in DOMAIN lines[r] :
                LET l == lines[r][i] IN
                /\ l.seed \in Vertices /\ l.fork \in Vertices \cup {NoFork}
                /\ l.first \in 0..Cardinality(Vertices)
                /\ l.trajectory \in Seq(Vertices) /\ l.trajectory # <<>>
          /\ open[r] \subseteq DOMAIN lines[r]
          /\ finishedElement[r] \in Int /\ addedElement[r] \in Nat
          /\ globalElementCounter[r] \in Nat
          /\ contributed[r] \in Seq(Int)
          /\ rounds[r] \in 0..Len(contributed[r])
          /\ exchanged[r] \in 0..Len(RankList(r))
          /\ \A q \in Ranks :
                /\ recvMessageSize[r][q] \in Nat
                /\ sizes[r][q] \in Seq(Nat)
                /\ toSend[r][q] # <<>> => q \in NeighborRanks(r)

(* Lines on their way from rank r to rank q,                               *)
Underway(r, q) ==
    Len(toSend[r][q])
    + (IF pc[r] = "sizes" THEN Len(sendBuf[r][q]) ELSE 0)
    + Total([m \in DOMAIN data[r][q] |-> Len(data[r][q][m])])

(* and those that are being traced or on their way, wherever they are.     *)
Held(r) == Cardinality(open[r]) + Total([q \in Ranks |-> Underway(r, q)])
Unfinished == Total([r \in Ranks |-> Held(r)])

(* What rank q has to tell the counter of rank r yet, and all of them.     *)
UntoldBy(q, r) ==
    (IF pc[q] = "reduce" THEN 0 ELSE finishedElement[q] - addedElement[q])
    + Total([k \in (rounds[r] + 1)..Len(contributed[q]) |-> contributed[q][k]])
Untold(r) == Total([q \in Ranks |-> UntoldBy(q, r)])

(* Through all hand-overs, forks and rounds the counter of every rank is   *)
(* the number of unfinished lines, up to what its next reductions bring:   *)
(* no line is counted as finished that was handed over or lost on the way. *)
(* When a rank has stopped, none is left anywhere.                         *)
CounterExact ==
    \A r \in Ranks : /\ globalElementCounter[r] = Unfinished + Untold(r)
                     /\ Stopped(r) => Unfinished = 0

(* The ranks leave the rounds together: once one has stopped, each other   *)
(* one only has the result of the same reduction to take, and stops on it. *)
(* A rank that went on would wait for the messages of one that stopped.    *)
StopsTogether ==
    \A r, q \in Ranks : Stopped(r) =>
        /\ rounds[q] <= rounds[r]
        /\ rounds[q] = rounds[r] => Stopped(q)
        /\ rounds[q] < rounds[r] => pc[q] = "reduce" /\ rounds[q] + 1 = rounds[r]

(* A receive that is posted is met by a message of exactly its size, and   *)
(* none comes that is not awaited, although ranks may be in different      *)
(* rounds.                                                                 *)
SizesMatch ==
    \A r, q \in Ranks : q \in NeighborRanks(r) =>
        /\ pc[r] = "data" =>
              \/ data[q][r] = <<>>
              \/ /\ Len(data[q][r]) = 1
                 /\ Len(data[q][r][1]) = recvMessageSize[r][q]
                 /\ recvMessageSize[r][q] > 0
        /\ pc[r] \in {"trace", "reduce"} => data[q][r] = <<>>

Branching(v) == IF IsMaximum(v) THEN {}
                ELSE IF Forks(v) THEN {Max(c) : c \in Components(Upper(v))}
                ELSE {Max(Upper(v))}

(* How many lines pass each vertex, without ranks or rounds.               *)
Passing ==
    LET seeds(v) == Cardinality(
                        {p \in Ranks \X Vertices :
                            /\ p[2] \in DOMAIN request.seeds[p[1]]
                            /\ request.seeds[p[1]][p[2]] = v})
        passing[v \in Vertices] ==
            seeds(v) + MapThenSumSet(LAMBDA u : passing[u],
                                     {u \in Lower(v) : v \in Branching(u)})
    IN  passing

(* In the end the ranks have traced, in pieces, all lines and nothing else:*)
(* each edge of a line is once in the output of the rank of its lower end  *)
(* and once, as the first of a piece, in that of the rank that took over.  *)
TracesAll ==
    AllDone =>
        LET passing == Passing IN
        \A r \in Ranks : \A u \in Vertices : \A w \in Upper(u) :
            Cardinality({p \in Steps(r) :
                SubSeq(lines[r][p[1]].trajectory, p[2], p[2] + 1) = <<u, w>>})
            = IF w \in Branching(u) /\ r \in {Owner(u), Owner(w)}
              THEN passing[u] ELSE 0

VertexCopies(r) ==
    {[own |-> p \in OwnVertices(r), at |-> <<r, p>>,
      id |-> globalVertexId[r][p[1]][p[2]],
      point |-> lines[r][p[1]].trajectory[p[2]]] : p \in Places(r)}
CellCopies(r) ==
    {[own |-> p \in OwnCells(r), at |-> <<r, p>>,
      id |-> globalCellId[r][p[1]][p[2]],
      points |-> SubSeq(lines[r][p[1]].trajectory, p[2], p[2] + 1),
      ends |-> SubSeq(globalVertexId[r][p[1]], p[2], p[2] + 1)] : p \in Steps(r)}

(* The identifiers number the points and the edges of the ranks without a  *)
(* gap, and the copies of an edge that two ranks have agree on its         *)
(* identifier, its points and theirs.                                      *)
IdsAgree ==
    AllDone =>
        LET points == UNION {VertexCopies(r) : r \in Ranks}
            edges  == UNION {CellCopies(r) : r \in Ranks}
            dense(S) == {c.id : c \in S} = 0..(Cardinality(S) - 1)
        IN  /\ dense({c \in points : c.own}) /\ dense({c \in edges : c.own})
            /\ \A c \in points : \E d \in points : d.own /\ d.id = c.id
            /\ \A c, d \in points : c.id = d.id => c.point = d.point
            /\ \A c, d \in edges : c.id = d.id =>
                  c.points = d.points /\ c.ends = d.ends

(* The lines are traced and numbered at last.                              *)
Finishes == <>AllDone
===============================================================================
