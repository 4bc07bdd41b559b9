# Verification of the Topology ToolKit (TTK)

TLA+ modules, TLC configurations and TLAPS proofs about the concurrent core of
TTK. TTK is a C++ library of topological data analysis: `src/core/base` holds
the algorithms, `src/core/vtk` wraps each of them as a VTK filter,
`src/paraview` and `src/standalone` expose the filters. Parallelism comes from
OpenMP (tasks and data-parallel loops), MPI (ghost layers and collective
exchanges) and, in one module, a thread that serves web sockets.

Paths below are relative to `src/core/base` unless they begin with `src/`.

## 1. Inventory

| component | state | operations | what is hard | what makes it correct |
|---|---|---|---|---|
| Lock-free union-find, `ftmTree/FTMAtomicUF.h` | `parent_`, `rank_`, `data_` (states, open arcs) per element | `find`, `makeUnion`, `mergeStates` | finds compress paths with plain reads and atomic writes while another task links roots | the pointers are a forest of the united sets; a find answers a current representative; no data lost |
| Merge tree, `ftmTree/FTMTree_MT*` | mesh-sized arrays `ufs`, `propagation`, `valences`, `openedNodes`, `vert2tree`, `visitOrder`; nodes and arcs; `activeTasks`; a queue per set | `leafSearch`, `leafGrowth`, `arcGrowth`, `propagate`, `closeAndMergeOnSaddle`, `trunk`, `trunkSegmentation`, `buildSegmentation` | one task per leaf, meeting at saddles in any order; the hand-over to the sequential trunk | the result is the join tree, with every vertex on its arc |
| `ftmTree/FTMAtomicVector.h` | a vector and an atomic counter | `getNext`, `reserve`, `reset` | second plain read of the counter; resizing while others hold references | distinct indices, all within the vector |
| Contour tree, `ftmTree/FTMTree_CT*` | join tree, split tree, result | `insertNodes`, `combine`, `delNode` | long sequences of local rewrites | the contour tree of the field |
| Localized simplification, `localizedTopologicalSimplification` | propagations (queue, size, saddle, parent), `segmentation`, `queueMask`, `localOrder`, the field | remove maxima, then minima: propagate, `unify`, parents, segments, local orders, flatten, perturb | a second last-visitor protocol; unify is not synchronised; two passes over one field; what an aborted propagation took over | only extrema that were to remain remain; no scalar moves further than the threshold; scalars and order agree |
| `webSocketIO` | `serverThreadRunning`, connections, message queue | `startServer`, `stopServer`, `on_open`, `on_close`, `on_message`, queue | host and server thread; shutdown; queue without lock | one client; messages in order; a stop that ends and really stops |
| `integralLines` (MPI) | lines, `toSend_`, send and receive buffers, counters of finished and added lines, identifiers | trace, fork, hand over, rounds of reduction and exchange, numbering and matching of ghosts | distributed termination, ranks in different rounds, matching by sorting on both sides | the ranks stop together, exactly when all lines are done; every line traced once; one identifier per point and edge |
| Triangulation registry, `src/core/vtk/ttkAlgorithm/ttkTriangulationFactory.cpp` | map from data set to triangulation, observers | `GetTriangulation`, deletion callback | objects change, share cells and are deleted behind the map | never a stale or dangling triangulation |
| LRU cache `common/Cache.h`, cluster cache `compactTriangulation` | list and map | `insert`, `get`, `searchCache` | eviction at the limit, pointers into the list | map and list agree; the reserved entry stays |
| FTR graph, discrete gradient, Morse-Smale complex, merge tree distances, auctions, MPI utilities, contour forests, triangulation classes, geometry, wrappers | see `components` in `PROJECT.json` | | mostly data-parallel or numerical | not modelled, with the reason in `PROJECT.json` |

How the modelled parts interact. A growth task owns a local queue
(`CurrentState`) that hangs on the union-find element of its set, so a union
also merges queues and lists of open arcs. `propagate` asks `find` for the set
of every neighbour; the atomic decrement of `valences` elects the task that
closes the saddle; that task calls `makeUnion` for each lower neighbour, closes
the open arcs of the united set and goes on from the saddle. `activeTasks`
tells it whether it is the last of all, in which case the rest of the tree is a
path that `trunk` builds after the `taskwait`, from the saddles whose
`openedNodes` flag is still set. `buildSegmentation` then sorts the vertices
into the arcs, from the places `visitOrder` recorded.

Localized simplification is called by the filters of topological simplification
with authorised extrema or a persistence threshold. It uses no part of the merge
tree, but the same scheme: tasks grow superlevel sets and meet at saddles, where
an atomic counter elects the last. `LastVisitor` is what both promise there.
Integral lines talk to other ranks only: through a reduction that counts
unfinished lines, messages of a size announced before, and a prefix sum and a
pairwise exchange at the end. The registry is called by every filter.

## 2. Modules

| module | models |
|---|---|
| `UnionFind` | abstract specification: sets, one representative each, finds that take effect at one instant |
| `AtomicUF` | `FTMAtomicUF.h` at one memory access per action, with any number of tasks |
| `AtomicUF_proofs` | its theorems |
| `MCAtomicUF` | two tasks and four or five elements, symmetric, or numbered for liveness |
| `JoinTree` | reference definition of a join tree, from the components of sublevel sets, without traversal |
| `JoinTree_proofs` | what its `Component` computes |
| `LastVisitor` | abstract specification of the counters at saddles: every neighbour of a vertex is accounted for once, and the visitor that accounts for the last one, nobody else, settles the vertex |
| `FTMGrowth` | `FTMTree_MT::build` for a join tree; shown to implement `LastVisitor` |
| `FTMGrowth_proofs` | the inductive invariant of the growth, what follows from it alone, the proof that it implements `LastVisitor`, and the invariant of the sweep (sublevel sets, and who is the last task) |
| `FTMTree_proofs` | the counts, from the launch to the segments, and the types; the invariant of the tree, and that the finished tree is the join tree; the queues merged at saddles |
| `MCFTMGrowth` | five domains of six vertices |
| `TriangulationRegistry` | `ttkTriangulationFactory.cpp`, with an external pipeline of data sets around it |
| `TriangulationRegistry_proofs` | its theorems |
| `LocalizedSimplification` | `removeUnauthorizedExtrema` and `removeNonPersistentExtrema` with all they call; shown to implement `LastVisitor` |
| `LocalizedSimplification_proofs` | its theorems: who holds what, the refinement, and the sweep; what a pass flattens, when it fails, and what the passes leave of the scalars |
| `LocalizedOrders_proofs` | the local orders of the hills, and what the passes leave of the extrema |
| `MCLocalizedSimplification` | triangulated grids of 2x3 and 3x3 vertices with their fields |
| `IntegralLines` | `execute` and `getGlobalIdentifiers` on the ranks of a communicator |
| `IntegralLines_proofs` | its theorems, with the laws of finite sums they rest on |
| `MCIntegralLines` | a triangulated 3x3 grid and a ball of eight tetrahedra on three ranks, a fan on two |
| `MCTriangulationRegistry` | three data sets, two cell arrays, two point arrays, two grids, symmetric |

### AtomicUF

`parent`, `rank`, `data` are the members of the same names. A call of `find` is
a walk: `Recurse` is the read of `parent_` and the recursive call, `FoundRoot`
the read of a null `parent_`, `Compress` the `omp atomic write` as the recursion
unwinds (`frames` is the stack of pending `this`), and `ReturnParent` the read
of `parent_` in the return statement. `makeUnion` is two finds (`FirstFound`
passes from one to the other), then `SameSet` or `LinkByRank`, `SetRank` when
the ranks were equal, and `MergeData`. `CallUnion` is only enabled for sets that
no other union works on: that is how `closeAndMergeOnSaddle` uses it, and
`MergesAlone` of `FTMGrowth` checks that its tasks do.

`comp`, `clock`, `linkedAt` and `calledAt` are history variables: the sets as
the unions made them, and the order of links and calls.

The constant `Reload` says whether `find` reads `parent_` again in its return
statement, as the source has it (`return parent_;` after the atomic write).
`FALSE` stands for a build in which the call returns the value it wrote.

### FTMGrowth

Vertices are `1..N` in the order of the scalar field, a mesh is its set of edges
and an element of the union-find is named by its leaf. One action per step that
other tasks can see:

| action | code (`FTMTree_MT_Template.h`) |
|---|---|
| `OnlyLeaf`, `Launch` | `leafGrowth` |
| `Start` | `arcGrowth` up to the loop: state, first vertex, new arc |
| `Visit` | next vertex, duplicates dropped, the scan of `propagate` |
| `Capture` | the atomic capture of `valences` |
| `Publish` | `ufs[currentVert] = startUF`, the arc of a regular vertex |
| `OpenNode`, `Retire` | `openedNodes`, `activeTasks--` |
| `MergeNeighbor`, `CloseArcs`, `MergeStates` | `closeAndMergeOnSaddle`: its unions, `closeArcsUF`, one turn of the loop of `mergeStates` |
| `Restart` | `activeTasks` read, and the recursive `arcGrowth` |
| `CloseRoot` | the queue is empty |
| `BeginTrunk`, `TrunkClose`, `TrunkArcs`, `TrunkSegment` | `trunk`, `closeOnBackBone`, `trunkSegmentation` |

Simplifications, each of which leaves the reachable results alone:

- `find` and `makeUnion` are atomic here, which is what `AtomicUF` shows of a
  build without the second read;
- a set has a list of states (`states`), to which a union appends those of the
  loser. `mergeStates` goes through the list and cuts it to one at the end; here
  each turn drops the state whose queue was taken. The list is only read by the
  task itself, whose set nobody else has (`MergesAlone`). `setExtrema` is left out;
- duplicates are dropped together with the visit that follows: the queue is
  local to the task;
- the scan of the neighbours in `propagate` is one action. `propagation` is
  shared and unsynchronised in the code, but only saves a second push of a
  vertex that would be dropped as a duplicate later;
- the read of `activeTasks` and the reset of `openedNodes` are one action: no
  other task reads that flag before the trunk;
- the trunk runs on one thread, so the order of its unions does not matter;
- the split tree is the same code on the reversed order.

The constant `Overtake` says whether a task that is not the last at a saddle may
publish its set while the last one is between its first and last union there.
The code does not prevent it.

### TriangulationRegistry

`registry` is the map of the same name and an `Entry` its `RegistryValue`: the
owner and the modification time or grid that `isValid` compares, and, in place of
the triangulation, what it was built from (`conn`, `points`). Keys are addresses:
of an image, or of the cell array of a point set (`GetKey`). `observed` holds the
objects that have at least one `ttkOnDeleteCommand`; several on one object all
erase the same key, so their number does not matter. `answer` is the outcome of
the last request until the pipeline goes on.

A request is one of `Retrieve` (valid entry), `RetrieveEquivalent` (the invalid
entry is erased, another image of the same grid has one), `Create` and `Fail`
(the invalid entry is erased, and a new one made or not). Requests are atomic:
the filters of a process run one after the other. The hash map is searched in an
unspecified order, so `RetrieveEquivalent` takes any of the equivalents. The
constructor does not set the grid of a point set's entry; `Create` chooses any.

The pipeline is VTK's and external: data sets are made, shallow-copied (sharing
arrays by reference count), given other points, cells or grids, and deleted.
`Execute` is the observer, called by the deletion of an image, of a point set and
of a cell array nobody shares any more. Addresses may be taken again after a
deletion. VTK's modification time grows with every change of any object and is
never used twice; `MaxTime` bounds it.

The constant `Outlived` says whether a data set may be deleted while a
triangulation it was the first to request lives on with a shared cell array. The
code does not prevent it.

### LocalizedSimplification

Propagations and tasks are named by their maximum, `segmentation`, `queueMask`,
`localOrder`, `propagationMask`, `sortedIndices` and the members of
`Propagation` have their names. A behaviour begins with a request: a field, the
authorised extrema or a threshold and the kinds of pairs, and whether to perturb.
Whether authorised extrema are maxima or minima is decided once, on the input
order, by the first neighbour the triangulation lists (`first`, `ShowsMinimum`).

| action | code (`LocalizedTopologicalSimplification.h`) |
|---|---|
| `BeginPasses`, `NextPass` | the two `remove...Extrema`, which pass runs next, inversion |
| `InitializePropagations` | `initializeMemory`, `initializePropagations` |
| `Start`, `Visit`, `Abort`, `OutOfVertices`, `Mark` | `computeSimplePropagation`, `computePersistenceSensitivePropagation` (the former is the latter without threshold) |
| `Capture` | the atomic capture of `segmentation[v]` |
| `Dominant`, `Unify` | the most dominant propagation, one `unify` per neighbour |
| `FinalizePropagations` | parents |
| `ComputeSegment`, `Fail` | `computeSegment`, and the returns with an error |
| `InitLocalOrder`, `Iterate` | `computeLocalOrderOfSegment`, one turn of its loop |
| `EndPass` | `flattenOrder`, `computeGlobalOrder`, `flattenScalars` of a pass |
| `Finish` | `flattenScalars` of both passes, `computeNumericalPerturbation` |

The propagation without threshold reports an error when it runs out of vertices;
with a threshold the same return is reached when the one propagation left out,
that of the highest maximum, is missing, so both are `OutOfVertices`. Queues are
sets: what is popped is the highest vertex, and duplicates of visited vertices are
dropped with the pop that follows, as in `FTMGrowth`. Hills are disjoint, so the
loops over segments, boundaries and vertices that run in parallel are one step
per hill or one for all. Scalars are integers, with 1 for the distance from one
float to the next.

### IntegralLines

One process per rank: `pc` is where it is between tracing (`trace`), the
reduction (`reduce`), the sizes, the data, and the numbering (`count`, `number`,
`exchange`). MPI is external: `contributed` and `rounds` are the reductions a
rank has entered and has the result of, `sizes` and `data` the messages in
flight, in order between two ranks; a prefix sum gives its result to a rank when
all lower ranks have entered it; `MPI_Sendrecv` waits until the neighbour has come
to the call with this rank (the strictest reading, without buffering).

| action | code (`IntegralLines.h`) |
|---|---|
| `Finish`, `Advance`, `Fork` | `computeIntegralLine` at a maximum, a regular vertex, a saddle |
| `HandOver` | `storeToSendIfNecessary` |
| `Contribute`, `Stop`, `Continue` | the head of the round in `execute` |
| `ReceiveSizes`, `ReceiveElements` | its exchanges, `receiveElement` |
| `Count`, `Number`, `Exchange` | `getGlobalIdentifiers`, `exchangeGhosts` |

The lists of the threads of a rank are one list to which tasks append in any
order, vertices are numbered by the field in the direction of the lines, and
distances from the seed are left out. The seeds of a rank are its own vertices.
A line forks at whatever `getCriticalType` calls a saddle: by the components of
the links, or, on the boundary of a domain of three dimensions (`boundary`), where
only the upper or only the lower neighbours include boundary vertices. The line
then goes on as a single branch.
The sort of `TTK_PSORT` is not stable: `Sortings` is every order the comparator
allows.

## 3. Runs

| run | what it shows |
|---|---|
| `atomic_uf` | 4 elements, 2 tasks, `Reload = FALSE`: `TypeOK`, `Forest`, `FindIsCurrent`, `LinksRoots`, `DataConserved`, `RecursionDepth`, and the refinement `ImplementsUnionFind` |
| `atomic_uf_live` | 4 elements, 2 tasks, `Reload = TRUE`, fairness: every call returns |
| `atomic_uf_tear` | 5 elements, `Reload = TRUE`: `DataConserved` is violated |
| `ftm_growth` | 5 domains of 6 vertices, `Overtake = FALSE`: eight invariants, termination and the refinement `ImplementsLastVisitor` |
| `ftm_overtake` | the same domains, `Overtake = TRUE`: `TreeCheck` is violated |
| `registry` | 3 data sets, 2 cell arrays, `Outlived = FALSE`: `TypeOK`, `KeysAlive`, `AnswerCurrent`, `UniqueGrids`, `KeptWhileCurrent` |
| `registry_points` | the same bounds: `PointsCurrent` is violated |
| `registry_owners` | `Outlived = TRUE`: `OwnersAlive` is violated |
| `lts` | 2x3 and 3x3 grids, thresholds and authorised sets: seven invariants, what a pass leaves (`PassSimplifies`), the refinement `ImplementsLastVisitor`, termination |
| `lts_perturb` | one authorised maximum and perturbation: `ScalarsFollowOrder` is violated |
| `lines` | a 3x3 grid on three ranks, with and without forks, and a ball of tetrahedra: six invariants and termination |
| `lines_forks` | one seed, two saddles, two ranks: `IdsAgree` is violated |

Bounds. Four elements give trees of depth two, the least depth at which one
task's path runs through an element another task moves; rank, compression and
link races all need no more. With the second read (`Reload`) four elements are
enough to break `FindIsCurrent` and `LinksRoots`, but no data are lost: the union
that takes an inner node for a root needs a fifth element to unite it with. With
five, the pointers still form trees, one for each united set; to cut one apart
takes six, which is more than TLC goes through. Two tasks are
enough for every pairwise race; the proofs cover any number. The unions make the
state space finite: `clock` counts links, of which there are at most
`Cardinality(UF) - 1`.

`atomic_uf_live` cannot use symmetry, which is not sound for liveness. Instead its
elements are numbers, and `NumberedSpec` makes only unions of two sets in which
the winner is less than the loser: the links of a behaviour make a forest, whose
elements can be numbered so. The unions of a set with itself, which are left out,
are two finds that change nothing but paths, as finds do.

The domains of `MCFTMGrowth` are chosen by what can happen on them: two saddles
one above the other (`Chain`), three arcs at one saddle (`Monkey`), regular
vertices on arcs and trunk with an inner maximum in two dimensions (`Disc`),
regular vertices on both arcs and none on the trunk (`Branches`), a single
minimum (`Single`). Between them every action fires, the trunk begins at every
possible place and each mutant is caught. `Capture` and `Publish` interleave
freely in all of them. `CurrentState::merge` (`FTMStructures.h:95-98`) reads the
top of the queue after each of the pairwise merges at a saddle. On some meshes
that are no manifolds of dimension 2 or more the queue is empty then: in a star
of edges from 1, 2 and 3 to 4, with an edge from 3 to 5, the states of 1 and 2 may
be merged first, and neither goes on above 4. No run includes such a mesh, and
`MergedQueueNotEmpty` is claimed for those where for any two components that meet at
a vertex an edge leads to above it, from one of them or from the vertex (`PairsGoOn`).

Three data sets are an owner, a copy that shares its cells, and an image; two
cell arrays let a data set exchange its own and an address be taken again; the
time 3 lets an array be made, changed and made again at its old address. Every
mutant is caught with these, and the theorems hold for all sizes.

The `lts` run takes every field with six different values on the 2x3 grid under
a threshold, and on the 3x3 grid six fields with up to four maxima or minima, with
thresholds that remove none, some and all of them (0, 20, 35, 60), each kind of
pairs and with perturbation for some, and every set of authorised extrema of three
of these fields that is of one kind or contains the greatest and the least vertex.
Four propagations on nine vertices meet in all ways that matter: two at one
saddle, a third at the saddle of the merged, an aborted one that took others in
(`Twins`, `Steps`), hills that touch. `LostMinimum` is the request whose only
authorised minimum lies in a hill that is removed, which ends in an error.
Every domain is a triangulated square: a hill there has a boundary beyond its
saddle, which `computeLocalOrderOfSegment` needs to end (see below).

The `lines` run partitions the 3x3 grid in columns, stripes (three columns of two
ranks, so that a line leaves a rank and comes back) and around a corner where
three ranks meet, with five fields, three sets of seeds, with forks and without.
The ball of eight tetrahedra is there for the saddles of the boundary: a line of
it forks at a vertex whose links are in one piece each.
Ranks are up to one round apart, which is as far as they can be: `StopsTogether`
and the proof say so for any number.

Deadlock is checked in every run; `Built` is the idle step of a finished build,
and `Returned` that of a finished simplification or trace.

Fairness. `AtomicUF` has weak fairness of the steps of each task inside a call:
OpenMP runs a task it has started to its end, and a step of `find` or
`makeUnion` waits for nothing. There is none for starting a call. `FTMGrowth`
has weak fairness of `Next` only: the threads of the team run until `taskwait`
has joined all tasks, but nothing is assumed about which task advances.
`LocalizedSimplification` and `IntegralLines` have the same: some task or process
that can go on does, and since every behaviour of them is finite this is enough.

What the properties say:

- `Forest`: only representatives are roots, a parent belongs to the set of its
  child and was linked after it, hence no cycle.
- `FindIsCurrent`: a find returns an element that was the representative at some
  instant of the call.
- `LinksRoots`: what the first find of `makeUnion` found is still a root at the
  link.
- `DataConserved`: every state and arc list belongs to one set, its own.
- `RecursionDepth`: the recursion of `find` is at most `log2` of the elements.
- `GrowsSublevelSet`: at every vertex a task takes, what it holds is exactly a
  component of the sublevel set below.
- `LastVisitorSeesAll`, `MergesAlone`: one task closes a saddle, after all
  others have published their sets, and nobody else works on the sets it merges.
- `MergedQueueNotEmpty`: the queue whose top `CurrentState::merge` reads is not
  empty after any of the merges of two states at a saddle.
- `BackboneAlone`: the trunk is left to itself only when all others stopped.
- `SegmentsFilled`: the places of an arc's vertices are exactly those of the
  segment allocated for it.
- `ComputesJoinTree`: nodes, arcs and the arc of every vertex are those of the
  reference definition.
- `TreeCheck`: build()'s own test.
- `CallsReturn`, `Finishes`: liveness of the two.
- `KeysAlive`: no entry outlives the object whose address is its key, and its
  deletion will be noticed, however often the entry was replaced.
- `AnswerCurrent`: a request is given the connectivity or grid its data set has.
- `UniqueGrids`: images of the same grid share one triangulation.
- `KeptWhileCurrent`: a triangulation is dropped or replaced only when its object
  goes or has changed since it was built.
- `OwnersAlive`: owners asked for their class are alive; `PointsCurrent`: a
  request is given the points its data set has.

Of localized simplification:

- `GrowsSuperlevelSet`: what a propagation holds when it takes a vertex is exactly
  a component of the superlevel set above, or all those that meet there, and its
  size is counted right.
- `MergesAlone`: nobody else works on what the last visitor of a saddle unites.
- `ImplementsLastVisitor`: at every vertex, in each pass, the counters implement
  `LastVisitor`.
- `PassSimplifies`: a pass leaves exactly the maxima that were authorised, or more
  persistent than the threshold by the reference definition, and makes no minimum.
- `AuthorizedRemain`: at the end no extremum is left that was not authorised, and
  one that was is gone only with a hill of the other kind.
- `FailsWithoutMaximum`: an error is reported only if no authorised maximum is
  left, and never because a hill has another size than was counted.
- `ScalarsFollowOrder`, `ErrorBounded`: scalars and order agree; no scalar moves
  further than the threshold in both passes together.

Of integral lines:

- `CounterExact`: the counter of every rank is the number of unfinished lines,
  wherever they are, up to what its next reductions bring.
- `StopsTogether`: once a rank has left the rounds each other one has too, or has
  only the result of the same reduction to take, and stops on it.
- `SizesMatch`: a receive is met by one message of exactly its size.
- `TracesAll`: the ranks have traced all lines, each edge once on the rank of its
  lower end and once as the first edge of the piece that took over.
- `IdsAgree`: identifiers have no gaps, and the copies of an edge agree on its
  identifier, its points and theirs.

Each property of a passing run has a mutant in `PROJECT.json`: an operator of
the module, marked as a mutant in its comment, that changes one mapped
definition the way a plausible bug would and breaks that property.

## 4. What disagrees with the code's comments

1. `find()` returns `parent_`, read again after its atomic write
   (`FTMAtomicUF.h:44-48`). A task that computed a representative before a link
   may write it there in between; the call then returns an element that stopped
   being a representative before the call began. `makeUnion` then links the other
   root below that inner node and appends its states and open arcs to data no
   later find leads to: they are neither merged nor closed
   (`atomic_uf_tear`, five elements; with four, `FindIsCurrent` and `LinksRoots`
   fail already).
2. A task delayed between its capture of `valences` and its write to `ufs`
   overwrites the set the last task is merging at that saddle; an arc stays open
   and build()'s own check fails.
3. `isValid` compares the modification time of the cells only
   (`src/core/vtk/ttkAlgorithm/ttkTriangulationFactory.cpp:134`), while the
   triangulation keeps a pointer to the points: a copy with new points, as
   `ttkProjectionFromField` makes, is given the triangulation of the old ones.
4. An entry's owner is the data set that first asked; a copy that shares its
   cells keeps the entry alive after that data set is deleted, and the search for
   an equivalent image (line 393) calls a method of the deleted owner.
5. `removeUnauthorizedExtrema` perturbs without saying that the sorted vertices are
   ascending, as they are when only maxima are authorised
   (`LocalizedTopologicalSimplification.h:1396`, against line 1481): every scalar
   is lifted above its successor and the field is reversed.
6. Two segments of one forked line may have equal sort keys
   (`IntegralLines.h:75-84`), although the comment above the sort takes them to
   be told apart by it: the ranks then match them crosswise.

The first two need a task to be suspended between two neighbouring instructions.
Returning `tmp` from `find` removes the first: that is the build
`Reload = FALSE` describes, and the one the theorems are about.

Two things the models leave to the reader, because the sources say nothing that
contradicts them: the loop of `computeLocalOrderOfSegment` does not end on a hill
that touches the rest only through its saddle (one-dimensional or pinched
domains; the code warns `Unable to converge with less than 20 iterations!`), and
a simplification by persistence of both kinds is two passes: the second may raise
the saddle of a maximum that the first one kept, whose persistence then falls to
the threshold or below. `PassSimplifies` is therefore about one pass.

## 5. Proofs

`AtomicUF_proofs` proves for every set of elements, every set of tasks and
every `Null` outside the elements:

| theorem | statement | assumption |
|---|---|---|
| `TypeCorrect` | `Spec => []TypeOK` | none |
| `ForestCorrect` | `Spec => []Forest` | `~Reload` |
| `FindCorrect` | `Spec => []FindIsCurrent` | `~Reload` |
| `UnionCorrect` | `Spec => []LinksRoots` | `~Reload` |
| `DataCorrect` | `Spec => []DataConserved` | `~Reload` |
| `Refinement` | `Spec => ImplementsUnionFind` | `~Reload` |
| `RecursionDepthAlways` | `Spec => []RecursionDepth` | `~Reload`, finitely many elements, at least one |

`TypeOK` is not inductive, because what a local variable holds depends on where
the task is: `Typed` adds `CallOK` (a call in progress has its arguments, and
pending frames only while it walks or unwinds) and `ReloadOK` (the element read
again has a parent, since nobody resets one).

`Forest` is not inductive either: a task that unwinds writes a value it found
long ago. The inductive invariant is

    Safe == Typed /\ Forest /\ (for every task: WalkOK, AnswerOK, UnionOK)
            /\ Exclusive /\ DataConserved

- `WalkOK`: every pending frame is below the element now held, in the same set,
  and lost its root status before it (`Below`). So a late compression points to
  an element linked later than the one it re-parents: order, hence acyclicity,
  is kept even when that element is no longer the representative.
- `AnswerOK`: the answer was a representative after the call began.
- `UnionOK`: between the first find and the link the representatives found
  remain roots.
- `Exclusive`: unions in progress work on different sets, which is what makes
  `UnionOK` stable under the links of other tasks.

`Before`, an order by time of linking, replaces a measure such as depth or rank,
which other tasks change at every step. The proof has one lemma per kind of
step: `CompressFacts`/`CompressStable`, `LinkFacts`/`LinkStable`, then one step
per action. The refinement maps a find to the instant it reads the null
`parent_` (`Resolved`), every link to `Unite`, and everything else to a stutter.

`RecursionDepth` does need ranks, and they are wrong for a moment: `makeUnion`
sets the parent first and raises the rank of the winner after it, so that a
pointer may lead to an element of no higher rank while another task walks along
it. The invariant `Ranked` therefore speaks of the rank an element is about to
have (`Eff`, one more while a `setRank` on it is due; `Exclusive` shows that no
two are due on one element). It says that `Eff` grows along every pointer
(`Heaped`), that a root of rank `r` heads at least `2^r` elements (`Weighed`), and
that a walk has no more frames than the rank it has come to, and only frames of
lower rank (`DepthOK`), which is why a compression keeps `Heaped`. The prover
knows `^` for numbers only; that `2^(n+1)` is twice `2^n` is counted from
subsets (`PowerStep`, by the library's `FS_SUBSET`).

`TriangulationRegistry_proofs` proves for any sets of data sets, arrays and grids
and any `MaxTime`, from the named assumptions of the module (addresses of data
sets and of cell arrays differ, `Null` is none of them):

| theorem | statement | assumption |
|---|---|---|
| `RegistryTypes` | `Spec => []TypeOK` | none |
| `RegistryKeys` | `Spec => []KeysAlive` | none |
| `RegistryKeeps` | `Spec => KeptWhileCurrent` | none |
| `RegistryUniqueGrids` | `Spec => []UniqueGrids` | none |
| `RegistryAnswers` | `Spec => []AnswerCurrent` | `~Outlived` |

Every step is of one of three kinds: it adds or changes objects and leaves the
registry alone (`Grows`), deletes objects and lets their observers erase
(`Deletes`), or is a request, which replaces at most the entry of its own key
(`Requests`). `KeysAlive` is inductive next to `TypeOK` by these three. The
answers need more: `TimesOK` (no array is newer than the clock, so that a changed
array has a time it never had) and `EntriesOK` (an entry with the time of its
array has seen all its changes; an image's entry is its own). `AnswerCurrent`
also needs `OwnersOK` (the owner of a cell array's entry is a point set): if an
owner could be deleted and an image made at its address, the search for
equivalent images would compare the grid of an entry that never had one. This is
where `~Outlived` is used.

`IntegralLines_proofs` proves, for any number of ranks and any requests that
satisfy `RequestsAssumption`:

| theorem | statement | assumption |
|---|---|---|
| `RanksStopTogether` | `Spec => []StopsTogether` | none |
| `SizesMatchAlways` | `Spec => []SizesMatch` | none |
| `CounterExactAlways` | `Spec => []CounterExact` | none |
| `TypeOKAlways` | `Spec => []TypeOK` | none |

`StopsTogether` is about ranks that stopped; that the others will is a matter of
their counters. The inductive invariant has three parts beside types: `Entered`
(a rank has entered one reduction more than it has the result of while it waits,
and has no result of one that some rank did not enter), `Agreement` (the counters
of two ranks are equal in the same round and differ by the sum of the reduction
between them otherwise) and `AtZero` (a rank has stopped if and only if its
counter is zero after a reduction). The sum itself stays opaque: the argument
only needs that it is a function of the contributions, which a later `Contribute`
extends and does not change (`ContributeStep`). That `Fork` adds a whole number
needs the upper link to have finitely many components (`AddedIsNumber`).

`SizesMatch` needs to know what the messages are and where the ranks stand. The
invariant `Exchanged` adds to the above:

- `Kinds`: a line is a piece (`Pieces`) that has come up at least one vertex with
  each step; a line to trace ends at a vertex of its rank or one step from it
  (`Carried`), and what is sent to a rank ends at a vertex of that rank. Hence a
  line is handed over to a neighbour only (`ElementFacts`), for which there are
  buffers and messages.
- `Resting`: what is empty or zero at each place in the round, and always for
  ranks that are not neighbours.
- `Channels`: for each pair of neighbours the state of the two messages between
  them. The size is on its way while the receiver is before it in the same round,
  or waits in the reduction before (`Due`); the elements are as many as the size
  says (`Awaited`), in the send buffer until their rank has its own sizes, then
  on their way. That no third case occurs follows from `Entered`: two ranks are
  at most one reduction apart, and the one behind waits for its result
  (`RoundsClose`).

`CounterExact` then says that four things balance: the lines that are open, those
underway (`Underway`: handed over, gathered or on their way), what a rank has
finished and added and not contributed, and what it has contributed to reductions
another rank has not the result of. Each step moves lines from one to the next,
and there is one lemma for each (`TraceCounted` to `ContinueCounted`): tracing
moves them between open, underway and told, `Contribute` puts what is told into a
reduction, a result of a reduction takes it off the counter, and a receive turns
elements underway into open lines, as many as the sizes said (`NewLinesFacts`).
That the counter is not negative is part of the induction: the first rank to take
a result finds all others waiting with nothing untold, so that its counter is the
number of unfinished lines, and the others come to the same number by `Agreement`.
Once a rank has stopped nothing is untold to it (`StoppedTold`), so nothing is
unfinished. `TypeOK` needs all of this, and `Exchanging` for the exchange of
identifiers.

The sums are `MapThenSumSet` of the community modules, folds of a finite set in an
order that `CHOOSE` fixes. Their laws (any argument may be taken first, the sum of
a sum, a change of one argument, a renumbering, the length of `FlattenSeq`) are
inductions over data, for which the library's theorems cannot be used; they are
proved by the least size of a set for which the law fails (`LeastNumber` of
`JoinTree_proofs`). `InOrder` is a definition of its own, instead of the community
modules' sorting of a set, because it says where each number comes to stand.

`FTMGrowth_proofs` proves, for any number of vertices, any set of meshes on them and any interleaving of the tasks:

| theorem | statement | assumption |
|---|---|---|
| `GrowthInvariant` | `Spec => []IInv`, the inductive invariant | `~Overtake` |
| `MergesAloneAlways` | `Spec => []MergesAlone` | `~Overtake` |
| `LastVisitorSeesAllAlways` | `Spec => []LastVisitorSeesAll` | `~Overtake` |
| `GrowthImplementsLastVisitor` | `Spec => ImplementsLastVisitor` | `~Overtake` |
| `BackboneAloneAlways` | `Spec => []BackboneAlone` | `~Overtake` |
| `GrowsSublevelSetAlways` | `Spec => []GrowsSublevelSet` | `~Overtake` |

`~Overtake` is not a property of the code: it stands for the executions in which
no task that stops at a saddle writes `ufs` of it while the last one is merging
there. `ftm_overtake` shows what the others may come to. Nothing
is assumed of the mesh but that its edges join two different vertices; it need
not even be connected.

What a task relies on without a lock is that its sets are its own. This is
`Exclusive`, but it is kept only because everything else is in order, so the
inductive invariant `GInv` has ten parts:

- `Representatives`, `Exclusive`: a growing task's element is its own
  representative, and no set is in the hands of two tasks. A task that stopped at
  a saddle hands its set over when the saddle is closed (`Absorbed`).
- `Swept`, `Queues`: a set lies at or below the vertex its task has come to, its
  queue above it, and what is queued has a neighbour in the set. A vertex that is
  popped is therefore new to the set, except for the duplicates.
- `Arcs`, `LowerClosed`: an arc begins at a node, and a vertex on an arc has all
  its lower neighbours in its set, or in those still to be merged. So two tasks
  never come to a vertex that one of them has made regular.
- `Visits`, `AtSaddle`, `Published`: what the locals of a task say of its vertex;
  a vertex with a set and no arc is a saddle at which somebody waits.
- `Counts`: the valence of an open vertex plus the lower neighbours whose share
  was taken off (`Accounted`) is the number of its lower neighbours. The task
  that sees zero is alone in seeing it, and no lower neighbour is missing.

Each part is a definition of its own, and the proof has a lemma for each kind of
step: `QuietStep` for those that unite nothing, then `CaptureKeeps`, the steps at
a saddle, `UniteKeeps` for `makeUnion`. `MergesAlone` and `LastVisitorSeesAll`
follow from the invariant without more steps.

The refinement maps a task's atomic capture to `Arrive`, which accounts for the
neighbours the scan had counted, and the step that gives the vertex its arc or
node to `Settle`. It needs two more facts: a task that found its vertex regular
took the last share of it (`LastOfRegular`), and a task that ended elsewhere than
at a saddle left no vertex open (`Ended`).

The sweep adds what makes the sets components of sublevel sets (`SInv`): every
upper neighbour of a set is queued (`Pushed`), the set leaves out no neighbour
below the vertex of its task (`Complete`), and it is connected with that vertex
(`Connected`, a definition without paths: no part of it has no edge to the rest).
`GrowsSublevelSet` then follows from `ComponentFacts`, since a set that is
connected, within the sublevel set, and closed in it can only be the component.
That a single task is left when `activeTasks` says so is a matter of existence:
`CountsOut` relates the counter to the tasks parked at saddles, and
`SomeoneGoesOn` shows that not all can be parked. At the least open vertex where
one is, every lower neighbour is in a set that a task holds (`Held`), and
that task has either passed it, which `Complete` excludes, or stopped there: all
shares are taken, and by the refinement somebody claimed the vertex (`Claimed`).

`FTMTree_proofs` proves what all of this is for, and first that the counts are right:

| theorem | statement | assumption |
|---|---|---|
| `SegmentsFilledAlways` | `Spec => []SegmentsFilled` | `~Overtake` |
| `TypeOKAlways` | `Spec => []TypeOK` | `~Overtake` |
| `TreeInvariant` | `Spec => [](IInv /\ SweepInv /\ CountInv /\ TreeInv)`, the invariant of the tree | `~Overtake`, `OpenAbove` |
| `ComputesJoinTreeAlways` | `Spec => []ComputesJoinTree` | `~Overtake`, `OpenAbove` |
| `MergedQueueNotEmptyAlways` | `Spec => []MergedQueueNotEmpty` | `~Overtake`, `PairsGoOn` |

`OpenAbove` names the meshes in one piece whose greatest vertex is not a saddle
(`MCFTMGrowth` asserts it, and `PairsGoOn`, of its domains).

`SegmentsFilled` speaks of the end, after the trunk, and its invariant, `CountInv`,
has a form for each phase. While the tasks grow (`ArcInv`): the vertices of an arc
have the orders 0 to `k - 1`, each once, and `k + 1` vertices were seen of it, its
first one included (`Placed`); what a task is about to write is the next place
(`Grows`, which says it of the locals at each label, since the order is written at
the visit and the vertex joins the arc only when it is found regular); an arc is
opened once at a node (`Opening`, `Fresh`), because two tasks never start at the
same one (`AnchorsApart`, from `Exclusive`). A root loses its place again when it
becomes a node: it is the last, so that no gap is left, and a saddle that a task
has numbered and left open is on no arc (`OpenedNodes`). For the trunk it matters
that a vertex with an order and no arc is in `openedNodes` or on its way there
(`MetOpen`): such a vertex becomes a trunk node, so that the vertices
`trunkSegmentation` adds have no order and take the counted places, on arcs
that had no vertex before (`TrunkInv`). `TypeOK` needs the same invariant, for the orders and
sizes; that a rank or a number of states stays within the number of leaves of its
set (`SizeOf`), as unions make a set of at least as many; and that a valence is
spent once more only after a task started again at its saddle (`Spent`, `Fresh`).
The trunk sorts its vertices: `InOrder` says which sequence that is, and
`InOrderFacts` that each vertex occurs in it once.

The reference compares nodes by `Piece(v)`, the component of `v` in the sublevel set of
`v`: two pieces are disjoint or one holds the other (`PiecesMeet`), so an arc from `a`
ends at the least node above whose piece holds `a` (`Up`), and `v` is on the arc of the
highest node in its own piece (`Down`). Nothing is said of the tree as a graph. What
the sweep says of the sets of the tasks is turned into this language first: below the
vertex a task has come to, its set holds whole pieces (`Spill`, `SetBelow`).

The difficulty is that tree and traversal part ways in three places, and `TreeInv` has a
form for each. `Growing`: every task is still at work or waits at a saddle. Nodes made
so far are nodes of the tree and arcs closed so far end where they should; no arc is
open below a node, but while its saddle is being closed (`Passed`); the set of a task
has one open arc, the one it works on, which starts at its highest node (`TopOf`), and
an arc list holds exactly the open arcs of its set (`OpenedListed`), so that
`CloseArcs` neither forgets one nor closes one twice. A late publication at a closed
saddle moves the saddle between sets that are being merged (`LatePublish`); that is
where `~Overtake` is needed once more. `Full`: a task found its queue empty. On a
mesh in one piece it then holds all of it (`RootReached`), and what others still do
at saddles that are closed changes nothing (`FullStep`). `End`: the last active task
stopped and left the rest. What is open then, `Left`, are its saddle and those where
others wait; all of them lie above its own, one above the other (`LeftAbove`), every
critical vertex that is no node is one of them, and a vertex nobody took is on the arc
of the last of them below it (`Backbone`, from `LeftBetween`: between a vertex that was
reached and one above it that was not there is a saddle somebody waits at). The arcs
still open end at the first of them that their set meets (`HomeOf`).

The trunk keeps `Backbone` and `BackboneArcs` with ever fewer vertices to close
(`TrunkCloseTree`): `closeOnBackBone` unites the sets that meet at a vertex, and those
it empties are just the ones whose arcs end there. `TrunkArcs` and `TrunkSegment` then
give the backbone its arcs and the rest of the vertices theirs, which makes the tree
that of the reference (`TreeDone`, `DoneTree`). `OpenAbove` is needed: a greatest
vertex that is a saddle would be given an arc to itself by the trunk, and a mesh in
several pieces has a root for each, which the reference does not know. Nothing else is
asked of the mesh.

`MergedQueueNotEmpty` is about each turn of `mergeStates`, so about two states at a
time, in whatever order the unions listed them. The invariant `StatesApart` says that
any two states of the sets a task merges are `Apart`: they stand for two different
components that meet at the saddle, and the queue of each holds what is above the
saddle and next to it or to its component (`Covers`). A set that comes to the saddle
has one state, and covers its component because it queued every upper neighbour
(`Pushed`, `MeetApart`). A union lists the states of one set after those of the other,
whose components differ (`UniteApart`), and a turn of the loop leaves a queue that
covers no less (`MergeApart`). By `PairsGoOn` an edge leads to above the saddle from one
of the two components or from the saddle itself, and its end is queued.

`LocalizedSimplification_proofs` proves for any set of requests that satisfies
`RequestsAssumption` (any meshes and fields, any authorized extrema or threshold)
and any interleaving of the tasks:

| theorem | statement | assumption |
|---|---|---|
| `IInvAlways` | `Spec => []IInv`, the inductive invariant | none |
| `MergesAloneAlways` | `Spec => []MergesAlone` | none |
| `SimplificationImplementsLastVisitor` | `Spec => ImplementsLastVisitor` | none |
| `SweepInvAlways` | `Spec => []SweepInv`, the invariant of the sweep | none |
| `GrowsSuperlevelSetAlways` | `Spec => []GrowsSuperlevelSet` | none |

Here nothing has to be assumed about the tasks: a task that stops at a saddle
writes nothing of it after its atomic capture. Outside the propagations `IInv` only
says that `order` numbers the vertices (`Base`), which each pass restores: every
order it computes ranks the vertices by a strict total order (`RankFacts`), so that
an order never repeats a number whatever the local orders are. Within them

- `Representatives`, `Exclusive`: as in `FTMGrowth`; a propagation belongs to the
  task whose `currentPropagation` it is, or to the last visitor of the saddle it
  stopped at (`Holds`).
- `Closed`, `SaddleOf`, `QueueOf`: what is above a marked vertex is held with it; a
  propagation has a vertex above its saddle, and what it has queued lies below one
  it holds, below its saddle, or below the vertex its task is about to mark
  (`Visiting`). So the highest vertex that is not marked is next to what the
  propagation holds, and a vertex with something above it is reached only through
  that.
- `CountOf`: the counter of a vertex that is not marked is -1 less the neighbours
  above whose propagation stopped there (`Shares`). The task that finds all of them
  taken is alone in finding it.
- `TaskOf`: what the locals of a task say of its vertex, at each label.

A share is taken for a propagation and not for a neighbour: a merge changes whose
propagation a vertex is in, and `Shares` is stable under it because all that merge
have their saddle at the same vertex.

That is also what the refinement turns on. `InitializePropagations` is `LVInit` at
every vertex: all neighbours above are pending. A task arrives at a saddle by its
atomic capture, which accounts for the neighbours its propagation holds, or, where it
holds all of them, by the visit itself; the mark settles the vertex. The steps of
`unify` re-register neighbours under the main propagation and change nobody's share.
The task that arrives last claims the vertex, and no step of another task (abortion,
a start elsewhere, a mark) touches a vertex that is claimed.

`GrowsSuperlevelSet` needs the invariant of the sweep, `SInv`. The queue of a
propagation is a priority queue, and the hill is a component only because of its
order: what a propagation holds lies above what it has queued, and every vertex it
ever queued, or that is next to what it holds, is marked or still queued (`Ready`;
`At` says the same when the highest one has been taken off, to visit it or to wait at
it). `queueMask` keeps a vertex from being queued again for the propagation that
queued it last, and other propagations overwrite it: a vertex counts as `Seen` when the
mask says so or when a neighbour of it is held. `Opened` says that the neighbours below
the vertex a task works on are marked or in the queue of a propagation it holds. What a propagation
holds is connected (`HillOf`), with the vertex next to be marked too (`SweepOf`);
while propagations are being united over a saddle the main one falls apart until the
saddle is marked, so that `HillOf` says nothing of its connection then (`Growing`).
`HillOf` also counts: `segmentSize` is the number of vertices held, through all
unions. A step of one task leaves all of this of the others alone (`Spared`,
`SweepKept`); there is a lemma for each action, `StartSweeps` to `MarkSweeps`. The
theorem follows as in `FTMGrowth`, from `ComponentFacts`: a set that is connected
with the vertex, holds all its neighbours above and leaves out none of its own
neighbours there is the union of their components (`SweptComponents`).

The second half of `LocalizedSimplification_proofs` is about what a pass does when
its tasks have ended, for any requests again:

| theorem | statement | assumption |
|---|---|---|
| `HillInvAlways` | `Spec => []HillInv`, what is recorded of the hills | none |
| `FailsWhenExhaustedAlways` | `Spec => []FailsWhenExhausted` | none |
| `FailsWithoutMaximumAlways` | `Spec => []FailsWithoutMaximum` | `ConnectedMeshes` |
| `LevelInvAlways` | `Spec => []LevelInv`, how passes change the field | none |
| `ScalarsFollowOrderAlways` | `Spec => []ScalarsFollowOrder` | `PerturbsMinima` |
| `ErrorBoundedAlways` | `Spec => []ErrorBounded` | none |

`computeSegment` floods a hill from its maximum, down to the saddle, and reports an
error when it finds another number of vertices than the propagation has counted. The
count is of what is held when the propagation stops; the flood comes much later, when
others have taken the propagation in. `HInv` is what lies between: a propagation that
was taken in at a saddle is `Frozen`, that is, its size is that of the component above
the saddle (`Dome`), and all of the component is held by whoever took it in; one that
gave up below its saddle is `Sunk`: it has come to a vertex that is too far down and
stays open; and one nobody took in rests at a saddle that is open (`Resting`). A
vertex all of whose larger neighbours have arrived has a task that goes on from it
(`Claimed`), so at the end of the propagations every hill that is a parent of itself
ends where the threshold, or an authorised maximum on another side of the saddle,
stops it. The other error is a task that runs out of vertices: what it holds then is
closed under adjacency (`Exhausted`), with no maximum left. `FailsWhenExhausted`
says that these are the only failures. `ConnectedMeshes`, that the mesh of a request
does not fall apart, makes a part of the mesh that is closed the whole of it. While
the hills are made segments, `GInv` says that they are disjoint
(`Apart`) and that the saddle of each leads up to where no hill that ends there is
(`Escape`).

`ScalarsFollowOrder` and `ErrorBounded` speak of the field after all passes.
`FollowsOrder` says that the flattened field `Flat` and the order agree in every
state, inverted in the pass for the minima. The order of a pass is computed from the
local orders of the hills; it keeps vertices of different flattened scalars apart
whatever these orders are, because a hill lies above its saddle and no hill is
adjacent to another one above it. `Drift` says in which direction the scalars have
moved: the pass for the maxima lowers a scalar by no more than the threshold, the one
for the minima raises it by no more, so the two do not add up. `Sorted` is the order of
`sortedIndices`, of which the perturbation relies on the direction. `PerturbsMinima`
is the proviso that it is the right one: a request without a threshold that perturbs
authorises an extremum whose first neighbour is higher, which is how the code tells minima. What
it excludes is disagreement 5 above, which `lts_perturb` shows; every request of
`lts` satisfies it.

`LocalizedOrders_proofs` proves what the passes make of the extrema, again for any
interleaving of the tasks:

| theorem | statement | assumption |
|---|---|---|
| `LocalInvAlways` | `Spec => []LocalInv`, which hills are flattened and their local orders | `NoCutVertices` |
| `PassSimplifiesAlways` | `Spec => PassSimplifies` | `NoCutVertices` |
| `AuthorizedRemainAlways` | `Spec => []AuthorizedRemain` | `NoCutVertices`, `LinksConnected`, `AuthorizedExtrema` |
| `TypeOKAlways` | `Spec => []TypeOK` | `ConnectedMeshes` |

The assumptions are about the requests, and every request of `lts` satisfies
them. `NoCutVertices`: a mesh does not fall apart when one of its vertices is taken
away. It is a condition the code needs: behind a cut vertex a hill has no
neighbour but its saddle, so that nothing is left to flood it from, and what is
flattened there may have a minimum that was not in the field. A triangulated
manifold of two dimensions or more has no cut vertex. `LinksConnected`: the
neighbours of a vertex are connected with each other, as in those manifolds, so
that a minimum is never the saddle of a hill, whose flattening would leave it
none. `AuthorizedExtrema`: what a request authorizes are maxima or minima of its
field.

`Chosen` relates the hills to the maxima. One that is to stay is in no hill, and
each other is in one: with a threshold because the component above the highest
saddle of a hill is that of a maximum less than the threshold higher
(`DomeFalls`), while a propagation that gave up says that its maximum is further
up (`OthersExceed`, from `Sunk`); else because the propagations of the maxima that
are not authorized end only where one that is holds the other side
(`AuthorizedChosen`).
`Filled` says that the flood of a hill reaches the component above its saddle and
no more. The local orders are the core of it. A flood of
`computeLocalOrderOfSegmentIteration` pops each vertex of the hill and the saddle
once (`FloodResult`), with what it has popped connected to where it began: from the
saddle no maximum is left, from the boundary no minimum. The iteration ends when
neither is, which is all that can be said of it here, and enough (`OrderOf`);
that it does end is liveness, and is checked. `PassExtrema` puts the local orders
together: the order of a pass is that of the flattened scalars first and of the
local orders then, so a vertex in a hill is an extremum only if it is one in its
hill, the neighbours outside lie below the saddle, and of the vertices outside
none has become one.

`AuthorizedRemain` follows the order, the right way up (`Upright`), through the
passes: each removes the maxima that are to go and makes no minimum. That the
minima stay in the pass for the maxima is `MinimaStay`: a minimum could only be lost
where a neighbour of it is flattened below it, that is, at a saddle.

`TypeOK` bounds the arrays as well as typing them, and the bounds are what takes
an argument. A counter of `segmentation` is the number of larger neighbours that
have registered, a size that of the vertices held or of the component above the
saddle, neither more than `N`. For the local orders `Turning` keeps a range that
does not depend on what the floods of a hill reach: each flood turns the numbers of
the one before round, `x` to `-x - 1 - n` in a hill of `n` vertices (`n` is at most
`N - 1`, the saddle being outside: `SizeBound`), and `-N..(N - 1 - n)` is its own
image. `Permuted`, that `sortedIndices` holds each vertex once when the passes are
over, is what the perturbation needs to compute numbers. It needs a pass to have
been made, hence `ConnectedMeshes`: an authorized vertex without neighbours counts
neither as a maximum nor as a minimum, the call then makes no pass and
`sortedIndices` stays empty.

`JoinTree_proofs` proves of the reference definition:

| theorem | statement | assumption |
|---|---|---|
| `ComponentFacts` | `Component(mesh, v, S)` is the least set that holds `v` and is closed under adjacency in `S` | `S` finite, `v \in S` |

`Component` is a recursive function over the rounds of a spread. The library's
induction theorems cannot be used, since they take a predicate; but its theorem
that a well-founded relation has minimal elements (`WFMin`) takes a set, and the
least round for which a statement fails leads to a contradiction (`LeastNumber`,
`RoundsExist`). That as many rounds as `S` has vertices are enough is a count: a
round that adds nothing is the last that matters, and each other one adds one.

Only model-checked: liveness (`CallsReturn`, `Finishes`, the termination of the
growth and of the simplification; the prover does not treat fairness), and what
`IntegralLines` has traced and numbered in the end (`TracesAll`, `IdsAgree`).

## 6. Plan

Done, the most important behaviour first: `UnionFind`, `AtomicUF` with proofs;
`JoinTree`, `FTMGrowth`; `TriangulationRegistry` with proofs; `LastVisitor` and
`LocalizedSimplification`; `IntegralLines` with the proofs about its rounds; the
proofs about the growth of the merge tree, the segments its trunk completes and the
tree they make together; the proofs about the propagations, the
hills and the passes of `LocalizedSimplification`, up to the extrema it leaves. What would come next:

1. `ContourTree`: `combine` against a reference definition on small fields.
2. `WebSocketIO`: host thread, server thread, client; a run for shutdown and one
   for the order of queued messages.
3. `LRUCache`, `ClusterCache` against an abstract cache; theorem: list and map
   keep the same keys.
4. `AtomicVector`: the counter and the resize, composed with the tasks that hold
   references.
5. the proofs of `TracesAll` and `IdsAgree`, from the counter of the rounds and the
   order in which ghosts are matched.

## 7. Not modelled

The split tree and the contour tree combination, statistics and output of the
merge tree; `FTMAtomicVector`'s resizing (the models take a new arc or node as
given); the web socket server, most of whose behaviour is that of a library
outside the repository; the caches, which are private to a thread; ghost seeds of
integral lines, which two ranks would both trace; and every component
`PROJECT.json` lists as not modelled, with its reason. Numerical algorithms
(distances, barycentres, geometry) compute real numbers that TLC cannot
represent; wrappers and readers convert data and do input and output. The
triangulation classes, by far the largest part of the repository by lines, are
tables of adjacency computed once; the models take a mesh as a set of edges.
