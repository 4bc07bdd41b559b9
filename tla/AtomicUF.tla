------------------------------ MODULE AtomicUF ------------------------------
(***************************************************************************)
(* The lock-free union-find forest of ftmTree/FTMAtomicUF.h, shared by the *)
(* tasks that grow a merge tree.  A find walks the parent_ pointers with   *)
(* plain reads and, as its recursion unwinds, compresses the path it       *)
(* walked with one `omp atomic write` per element; makeUnion does two      *)
(* finds, links one representative below the other by rank, and appends    *)
(* the data of the loser to the data of the winner.  Any task may run a    *)
(* find at any time.  makeUnion is only called by the task that arrives    *)
(* last at a saddle, which owns the sets that meet there: no two unions in *)
(* progress touch the same set (FTMGrowth checks that its tasks do this).  *)
(***************************************************************************)
EXTENDS Integers, Sequences, FiniteSets

CONSTANTS UF,      \* the elements: mt_data_.storage, one per leaf
          Task,    \* the concurrent callers
          Null,    \* nullptr
          Reload   \* find returns parent_, read again after its write; FALSE
                   \* stands for a build that returns the value it wrote

ASSUME NullAssumption == Null \notin UF
ASSUME ReloadAssumption == Reload \in BOOLEAN

VARIABLES
    parent,   \* parent_
    rank,     \* rank_
    data,     \* data_.states and data_.openedArcs: whose entries it lists
    pc,       \* where each task is in find or makeUnion
    op,       \* "find", or the find of makeUnion in progress: "uf0", "uf1"
    arg,      \* argument of find, first argument of makeUnion
    peer,     \* second argument of makeUnion
    rep0,     \* value of uf0 in makeUnion once found; then the winner
    node,     \* `this` of the innermost call, then the value being returned
    frames,   \* `this` of the pending recursive calls, outermost first
    \* history: the sets as the unions made them, and when links were set
    comp, clock, linkedAt, calledAt

shared  == <<parent, rank, data>>
local   == <<pc, op, arg, peer, rep0, node, frames>>
history == <<comp, clock, linkedAt, calledAt>>
vars    == <<shared, local, history>>

Init == /\ parent = [u \in UF |-> Null]
        /\ rank = [u \in UF |-> 0]
        /\ data = [u \in UF |-> {u}]
        /\ pc = [t \in Task |-> "idle"]
        /\ op = [t \in Task |-> "none"]
        /\ arg = [t \in Task |-> Null]
        /\ peer = [t \in Task |-> Null]
        /\ rep0 = [t \in Task |-> Null]
        /\ node = [t \in Task |-> Null]
        /\ frames = [t \in Task |-> <<>>]
        /\ comp = [u \in UF |-> u]
        /\ clock = 0
        /\ linkedAt = [u \in UF |-> 0]
        /\ calledAt = [t \in Task |-> 0]

IsRoot(u) == parent[u] = Null

Merging(t) == op[t] \in {"uf0", "uf1"}

(* The sets a union in progress works on.                                  *)
Owned(t) == {comp[arg[t]], comp[peer[t]]}

Top(s) == s[Len(s)]
Pop(s) == SubSeq(s, 1, Len(s) - 1)

(* Enter find() on x.                                                      *)
Enter(t, x) == /\ pc' = [pc EXCEPT ![t] = "walk"]
               /\ node' = [node EXCEPT ![t] = x]
               /\ frames' = [frames EXCEPT ![t] = <<>>]

(* Leave find() or makeUnion(): the locals are gone.                       *)
Leave(t) == /\ pc' = [pc EXCEPT ![t] = "idle"]
            /\ op' = [op EXCEPT ![t] = "none"]
            /\ arg' = [arg EXCEPT ![t] = Null]
            /\ peer' = [peer EXCEPT ![t] = Null]
            /\ rep0' = [rep0 EXCEPT ![t] = Null]
            /\ node' = [node EXCEPT ![t] = Null]
            /\ calledAt' = [calledAt EXCEPT ![t] = 0]
            /\ UNCHANGED <<frames, comp, clock, linkedAt>>

CallFind(t, x) ==
    /\ pc[t] = "idle"
    /\ Enter(t, x)
    /\ op' = [op EXCEPT ![t] = "find"]
    /\ arg' = [arg EXCEPT ![t] = x]
    /\ calledAt' = [calledAt EXCEPT ![t] = clock]
    /\ UNCHANGED <<shared, peer, rep0, comp, clock, linkedAt>>

(* Mutant of CallUnion: two tasks may merge the same sets.                 *)
CallUnionShared(t, x, y) ==
    /\ pc[t] = "idle"
    /\ Enter(t, x)
    /\ op' = [op EXCEPT ![t] = "uf0"]
    /\ arg' = [arg EXCEPT ![t] = x]
    /\ peer' = [peer EXCEPT ![t] = y]
    /\ UNCHANGED <<shared, rep0, history>>

CallUnion(t, x, y) ==
    /\ pc[t] = "idle"
    /\ \A o \in Task \ {t} :
          Merging(o) => Owned(o) \cap {comp[x], comp[y]} = {}
    /\ Enter(t, x)
    /\ op' = [op EXCEPT ![t] = "uf0"]
    /\ arg' = [arg EXCEPT ![t] = x]
    /\ peer' = [peer EXCEPT ![t] = y]
    /\ UNCHANGED <<shared, rep0, history>>

(* Mutant of FoundRoot: a call may return this without the test.           *)
FoundAny(t) ==
    /\ pc[t] = "walk"
    /\ pc' = [pc EXCEPT ![t] = "unwind"]
    /\ UNCHANGED <<shared, op, arg, peer, rep0, node, frames, history>>

(* parent_ == nullptr: the innermost call returns this.                    *)
FoundRoot(t) ==
    /\ pc[t] = "walk"
    /\ IsRoot(node[t])
    /\ pc' = [pc EXCEPT ![t] = "unwind"]
    /\ UNCHANGED <<shared, op, arg, peer, rep0, node, frames, history>>

(* parent_->find(): one recursive call deeper.                             *)
Recurse(t) ==
    /\ pc[t] = "walk"
    /\ ~IsRoot(node[t])
    /\ node' = [node EXCEPT ![t] = parent[node[t]]]
    /\ frames' = [frames EXCEPT ![t] = Append(@, node[t])]
    /\ UNCHANGED <<shared, pc, op, arg, peer, rep0, history>>

(* Mutant of Compress: parent_ is always read again after the write.       *)
CompressReread(t) ==
    /\ pc[t] = "unwind"
    /\ frames[t] # <<>>
    /\ parent' = [parent EXCEPT ![Top(frames[t])] = node[t]]
    /\ pc' = [pc EXCEPT ![t] = "reload"]
    /\ UNCHANGED <<rank, data, op, arg, peer, rep0, node, frames, history>>

(* parent_ = tmp                                                           *)
Compress(t) ==
    /\ pc[t] = "unwind"
    /\ frames[t] # <<>>
    /\ parent' = [parent EXCEPT ![Top(frames[t])] = node[t]]
    /\ IF Reload
       THEN /\ pc' = [pc EXCEPT ![t] = "reload"]
            /\ UNCHANGED frames
       ELSE /\ frames' = [frames EXCEPT ![t] = Pop(@)]
            /\ UNCHANGED pc
    /\ UNCHANGED <<rank, data, op, arg, peer, rep0, node, history>>

(* return parent_                                                          *)
ReturnParent(t) ==
    /\ pc[t] = "reload"
    /\ node' = [node EXCEPT ![t] = parent[Top(frames[t])]]
    /\ frames' = [frames EXCEPT ![t] = Pop(@)]
    /\ pc' = [pc EXCEPT ![t] = "unwind"]
    /\ UNCHANGED <<shared, op, arg, peer, rep0, history>>

(* The outermost call of find is about to return node[t].                  *)
Answers(t) == pc[t] = "unwind" /\ frames[t] = <<>>

FindReturns(t) ==
    /\ Answers(t)
    /\ op[t] = "find"
    /\ Leave(t)
    /\ UNCHANGED shared

(* Mutant of FirstFound: the result of uf0->find() is dropped.             *)
FirstIgnored(t) ==
    /\ Answers(t)
    /\ op[t] = "uf0"
    /\ rep0' = [rep0 EXCEPT ![t] = arg[t]]
    /\ op' = [op EXCEPT ![t] = "uf1"]
    /\ Enter(t, peer[t])
    /\ UNCHANGED <<shared, arg, peer, history>>

(* uf0 = uf0->find() is done: on to uf1->find().                           *)
FirstFound(t) ==
    /\ Answers(t)
    /\ op[t] = "uf0"
    /\ rep0' = [rep0 EXCEPT ![t] = node[t]]
    /\ op' = [op EXCEPT ![t] = "uf1"]
    /\ Enter(t, peer[t])
    /\ UNCHANGED <<shared, arg, peer, history>>

(* Both finds of makeUnion are done, in rep0[t] (uf0) and node[t] (uf1).   *)
BothFound(t) == Answers(t) /\ op[t] = "uf1"

SameSet(t) ==
    /\ BothFound(t)
    /\ rep0[t] = node[t]
    /\ Leave(t)
    /\ UNCHANGED shared

(* loser->setParent(winner).  The history unites the sets the two are in:  *)
(* when find has answered with an element that is no representative any    *)
(* more, the set is still that of its representative.                      *)
LinkBelow(t, winner, loser) ==
    /\ parent' = [parent EXCEPT ![loser] = winner]
    /\ rep0' = [rep0 EXCEPT ![t] = winner]
    /\ node' = [node EXCEPT ![t] = loser]
    /\ comp' = [u \in UF |-> IF comp[u] = comp[loser] THEN comp[winner]
                              ELSE comp[u]]
    /\ clock' = clock + 1
    /\ linkedAt' = [linkedAt EXCEPT ![loser] = clock + 1]
    /\ UNCHANGED <<rank, data, op, arg, peer, frames, calledAt>>

(* Mutants of LinkByRank: uf0 always wins; equal ranks are forgotten.      *)
LinkFirst(t) ==
    /\ BothFound(t)
    /\ rep0[t] # node[t]
    /\ LinkBelow(t, rep0[t], node[t])
    /\ pc' = [pc EXCEPT ![t] = "merge"]
LinkNoTie(t) ==
    /\ BothFound(t)
    /\ \/ /\ rank[rep0[t]] > rank[node[t]]
          /\ LinkBelow(t, rep0[t], node[t])
       \/ /\ rank[rep0[t]] < rank[node[t]]
          /\ LinkBelow(t, node[t], rep0[t])
    /\ pc' = [pc EXCEPT ![t] = "merge"]

LinkByRank(t) ==
    /\ BothFound(t)
    /\ rep0[t] # node[t]
    /\ \/ /\ rank[rep0[t]] > rank[node[t]]
          /\ LinkBelow(t, rep0[t], node[t])
          /\ pc' = [pc EXCEPT ![t] = "merge"]
       \/ /\ rank[rep0[t]] < rank[node[t]]
          /\ LinkBelow(t, node[t], rep0[t])
          /\ pc' = [pc EXCEPT ![t] = "merge"]
       \/ /\ rank[rep0[t]] = rank[node[t]]
          /\ LinkBelow(t, rep0[t], node[t])
          /\ pc' = [pc EXCEPT ![t] = "rank"]

(* Mutant of SetRank: the sign is lost.                                    *)
SetRankDown(t) ==
    /\ pc[t] = "rank"
    /\ rank' = [rank EXCEPT ![rep0[t]] = @ - 1]
    /\ pc' = [pc EXCEPT ![t] = "merge"]
    /\ UNCHANGED <<parent, data, op, arg, peer, rep0, node, frames, history>>

(* uf0->setRank(uf0->getRank() + 1), only when the ranks were equal.       *)
SetRank(t) ==
    /\ pc[t] = "rank"
    /\ rank' = [rank EXCEPT ![rep0[t]] = @ + 1]
    /\ pc' = [pc EXCEPT ![t] = "merge"]
    /\ UNCHANGED <<parent, data, op, arg, peer, rep0, node, frames, history>>

(* Mutant of MergeData: the winner's data go to the loser.                 *)
MergeBack(t) ==
    /\ pc[t] = "merge"
    /\ data' = [data EXCEPT ![node[t]] = @ \cup data[rep0[t]]]
    /\ Leave(t)
    /\ UNCHANGED <<parent, rank>>

(* winner->data_.merge(loser->data_)                                       *)
MergeData(t) ==
    /\ pc[t] = "merge"
    /\ data' = [data EXCEPT ![rep0[t]] = @ \cup data[node[t]]]
    /\ Leave(t)
    /\ UNCHANGED <<parent, rank>>

(* A call in progress takes its next step.                                 *)
Step(t) == \/ FoundRoot(t) \/ Recurse(t) \/ Compress(t) \/ ReturnParent(t)
           \/ FindReturns(t) \/ FirstFound(t) \/ SameSet(t) \/ LinkByRank(t)
           \/ SetRank(t) \/ MergeData(t)

Next == \E t \in Task : \/ \E x \in UF : CallFind(t, x)
                        \/ \E x, y \in UF : CallUnion(t, x, y)
                        \/ Step(t)

Spec == Init /\ [][Next]_vars

(* OpenMP runs a task it has started to its end; tasks need not call.      *)
FairSpec == Spec /\ \A t \in Task : WF_vars(Step(t))
-------------------------------------------------------------------------------
TypeOK ==
    /\ parent \in [UF -> UF \cup {Null}]
    /\ rank \in [UF -> Nat]
    /\ data \in [UF -> SUBSET UF]
    /\ pc \in [Task -> {"idle", "walk", "unwind", "reload",
                     "rank", "merge"}]
    /\ op \in [Task -> {"none", "find", "uf0", "uf1"}]
    /\ arg \in [Task -> UF \cup {Null}]
    /\ peer \in [Task -> UF \cup {Null}]
    /\ rep0 \in [Task -> UF \cup {Null}]
    /\ node \in [Task -> UF \cup {Null}]
    /\ frames \in [Task -> Seq(UF)]
    /\ comp \in [UF -> UF]
    /\ clock \in Nat
    /\ linkedAt \in [UF -> Nat]
    /\ calledAt \in [Task -> Nat]

(* u lost its root status before v did, or v is still a root.              *)
Before(u, v) == IsRoot(v) \/ linkedAt[u] < linkedAt[v]

(* The parent pointers form a forest whose trees are exactly the sets the  *)
(* unions made: only representatives are roots, a parent is in the set of  *)
(* its child and was linked after it, so the pointers cannot loop however  *)
(* compressions by several tasks interleave with links.                    *)
Forest ==
    \A u \in UF :
        /\ comp[comp[u]] = comp[u]
        /\ IsRoot(u) <=> comp[u] = u
        /\ ~IsRoot(u) => /\ comp[parent[u]] = comp[u]
                         /\ linkedAt[u] \in 1..clock
                         /\ Before(u, parent[u])

(* The element a find returns was the representative of its argument at    *)
(* some instant of the call: it is one still, or it stopped being one      *)
(* after the call began.  propagate() compares such an answer with a       *)
(* representative it took `once for all` (FTMTree_MT_Template.h:350).      *)
FindIsCurrent ==
    \A t \in Task :
        (Answers(t) /\ op[t] = "find") =>
            /\ comp[node[t]] = comp[arg[t]]
            /\ IsRoot(node[t]) \/ linkedAt[node[t]] > calledAt[t]

(* While makeUnion is between its first find and its link, the             *)
(* representatives it found stay roots: it never re-parents an inner node, *)
(* which would cut a tree in two.                                          *)
LinksRoots ==
    \A t \in Task :
        /\ Merging(t) /\ op[t] = "uf1" /\ pc[t] \in {"walk", "unwind"}
              => IsRoot(rep0[t]) /\ comp[rep0[t]] = comp[arg[t]]
        /\ BothFound(t) => IsRoot(node[t]) /\ comp[node[t]] = comp[peer[t]]

(* Nothing a leaf contributed is lost or leaks: its states and opened arcs *)
(* are listed by the representative of its set, or by the loser whose data *)
(* the union in progress is about to append, and by no other set.          *)
DataConserved ==
    \A u \in UF :
        /\ \/ u \in data[comp[u]]
           \/ \E t \in Task : /\ pc[t] \in {"rank", "merge"}
                              /\ comp[rep0[t]] = comp[u]
                              /\ u \in data[node[t]]
        /\ \A d \in data[u] : comp[d] = comp[u]

(* Union by rank bounds the depth of the "heavy" recursion of find by the  *)
(* logarithm of the number of elements, whatever the interleaving.         *)
RecursionDepth == \A t \in Task : 2 ^ Len(frames[t]) <= Cardinality(UF)

(* Every call returns, whatever the other tasks do to the forest.          *)
CallsReturn == \A t \in Task : (pc[t] # "idle") ~> (pc[t] = "idle")
-------------------------------------------------------------------------------
(* A find takes effect when it reads the null parent_ of the root.         *)
Resolved(t) == op[t] = "find" /\ pc[t] \in {"unwind", "reload"}

Asked  == [t \in Task |-> IF op[t] = "find" THEN arg[t] ELSE Null]
Answer == [t \in Task |-> IF Resolved(t) THEN node[t] ELSE Null]

Sets == INSTANCE UnionFind WITH asked <- Asked, answer <- Answer

(* The forest implements the abstract union-find.                          *)
ImplementsUnionFind == Sets!USpec
===============================================================================
