--------------------------- MODULE AtomicUF_proofs ---------------------------
(***************************************************************************)
(* Proofs about AtomicUF, for every set of elements and every set of       *)
(* tasks: type correctness of every build, and for a build whose find      *)
(* returns the value it wrote (~Reload) the safety of the forest, its      *)
(* refinement of the abstract union-find and, for finitely many elements,  *)
(* the logarithmic depth of its recursion.                                 *)
(***************************************************************************)
EXTENDS AtomicUF, FiniteSetTheorems, TLAPS

(* Pushing a frame, popping one and reading the last one.                  *)
LEMMA PushFacts ==
    ASSUME NEW S, NEW s \in Seq(S), NEW x \in S
    PROVE  /\ Append(s, x) \in Seq(S)
           /\ Len(Append(s, x)) = Len(s) + 1
           /\ \A i \in 1..Len(s) : Append(s, x)[i] = s[i]
           /\ Append(s, x)[Len(s) + 1] = x
           /\ Len(s) \in Nat
  OBVIOUS

(* Popping the innermost call leaves the calls below it as they were.      *)
LEMMA PopFacts ==
    ASSUME NEW S, NEW s \in Seq(S), s # <<>>
    PROVE  /\ Len(s) \in Nat \ {0}
           /\ Top(s) \in S
           /\ Pop(s) \in Seq(S)
           /\ Len(Pop(s)) = Len(s) - 1
           /\ \A i \in 1..(Len(s) - 1) : Pop(s)[i] = s[i]
  <1> DEFINE n == Len(s) - 1
  <1>1. n \in Nat /\ Len(s) \in Nat \ {0} /\ s[Len(s)] \in S
    OBVIOUS
  <1> HIDE DEF n
  <1>2. n <= Len(s) /\ Len(s) = n + 1
    BY <1>1 DEF n
  <1>3. SubSeq(s, 1, n) \in Seq(S)
    BY <1>1, <1>2
  <1>4. Len(SubSeq(s, 1, n)) = n
    BY <1>1, <1>2
  <1>5. \A i \in 1..n : SubSeq(s, 1, n)[i] = s[i]
    BY <1>1, <1>2
  <1> QED BY <1>1, <1>3, <1>4, <1>5 DEF n, Top, Pop

(* Type correctness needs what the control state says of the locals: a     *)
(* call in progress has its arguments, frames are empty when no recursion  *)
(* is pending, and the element whose parent_ is read again has one.        *)
CallOK(t) ==
    /\ pc[t] = "idle" <=> op[t] = "none"
    /\ op[t] # "none" => arg[t] \in UF /\ node[t] \in UF
    /\ op[t] \in {"uf0", "uf1"} => peer[t] \in UF
    /\ op[t] = "uf1" => rep0[t] \in UF
    /\ pc[t] \in {"rank", "merge"} => op[t] = "uf1"
    /\ pc[t] = "reload" => frames[t] # <<>>
    /\ pc[t] \notin {"walk", "unwind", "reload"} => frames[t] = <<>>

ReloadOK(t) == pc[t] = "reload" => Reload /\ parent[Top(frames[t])] # Null

Typed == TypeOK /\ \A t \in Task : CallOK(t) /\ ReloadOK(t)

(* The initial state has its types.                                        *)
LEMMA TypedInit == Init => Typed
  BY DEF Init, Typed, TypeOK, CallOK, ReloadOK

(* A link hangs one of the two elements makeUnion found below the other.   *)
LEMMA LinkPicks ==
    ASSUME Typed, NEW t \in Task, LinkByRank(t)
    PROVE  \E winner \in UF, loser \in UF :
              /\ LinkBelow(t, winner, loser)
              /\ {winner, loser} = {rep0[t], node[t]}
              /\ winner # loser
              /\ pc' \in {[pc EXCEPT ![t] = "merge"], [pc EXCEPT ![t] = "rank"]}
  <1>1. rep0[t] \in UF /\ node[t] \in UF /\ rep0[t] # node[t]
    BY DEF LinkByRank, BothFound, Answers, Typed, CallOK
  <1>2. CASE LinkBelow(t, rep0[t], node[t])
    BY <1>1, <1>2 DEF LinkByRank
  <1>3. CASE LinkBelow(t, node[t], rep0[t])
    BY <1>1, <1>3 DEF LinkByRank
  <1> QED BY <1>2, <1>3 DEF LinkByRank

(* Every step keeps the types.                                             *)
LEMMA TypedNext == Typed /\ [Next]_vars => Typed'
  <1> SUFFICES ASSUME Typed, [Next]_vars PROVE Typed'
    OBVIOUS
  <1> USE NullAssumption, ReloadAssumption
  <1>1. ASSUME NEW t \in Task, NEW x \in UF, CallFind(t, x)
       PROVE  Typed'
    <2>1. TypeOK'
      BY <1>1 DEF CallFind, Enter, shared, Typed, TypeOK, CallOK, ReloadOK
    <2>2. ASSUME NEW s \in Task PROVE CallOK(s)'
      BY <1>1 DEF CallFind, Enter, shared, Typed, TypeOK, CallOK, ReloadOK
    <2>3. ASSUME NEW s \in Task PROVE ReloadOK(s)'
      BY <1>1 DEF CallFind, Enter, shared, Typed, TypeOK, CallOK, ReloadOK
    <2> QED BY <2>1, <2>2, <2>3 DEF Typed
  <1>2. ASSUME NEW t \in Task, NEW x \in UF, NEW y \in UF, CallUnion(t, x, y)
       PROVE  Typed'
    <2>1. TypeOK'
      BY <1>2 DEF CallUnion, Enter, shared, history, Typed, TypeOK, CallOK, ReloadOK
    <2>2. ASSUME NEW s \in Task PROVE CallOK(s)'
      BY <1>2 DEF CallUnion, Enter, shared, history, Typed, TypeOK, CallOK, ReloadOK
    <2>3. ASSUME NEW s \in Task PROVE ReloadOK(s)'
      BY <1>2 DEF CallUnion, Enter, shared, history, Typed, TypeOK, CallOK, ReloadOK
    <2> QED BY <2>1, <2>2, <2>3 DEF Typed
  <1>3. ASSUME NEW t \in Task, FoundRoot(t)
       PROVE  Typed'
    <2>1. TypeOK'
      BY <1>3 DEF FoundRoot, shared, history, Typed, TypeOK, CallOK, ReloadOK
    <2>2. ASSUME NEW s \in Task PROVE CallOK(s)'
      BY <1>3 DEF FoundRoot, shared, history, Typed, TypeOK, CallOK, ReloadOK
    <2>3. ASSUME NEW s \in Task PROVE ReloadOK(s)'
      BY <1>3 DEF FoundRoot, shared, history, Typed, TypeOK, CallOK, ReloadOK
    <2> QED BY <2>1, <2>2, <2>3 DEF Typed
  <1>4. ASSUME NEW t \in Task, Recurse(t)
       PROVE  Typed'
    <2>0. frames[t] \in Seq(UF) /\ node[t] \in UF
      BY <1>4 DEF Recurse, Typed, TypeOK, CallOK
    <2>1. Append(frames[t], node[t]) \in Seq(UF)
      BY <2>0, PushFacts
    <2>2. Append(frames[t], node[t]) # <<>>
      BY <2>0
    <2>3. TypeOK'
      BY <1>4, <2>0, <2>1, <2>2 DEF Recurse, IsRoot, shared, history, Typed, TypeOK, CallOK, ReloadOK
    <2>4. ASSUME NEW s \in Task PROVE CallOK(s)'
      BY <1>4, <2>0, <2>1, <2>2 DEF Recurse, IsRoot, shared, history, Typed, TypeOK, CallOK, ReloadOK
    <2>5. ASSUME NEW s \in Task PROVE ReloadOK(s)'
      BY <1>4, <2>0, <2>1, <2>2 DEF Recurse, IsRoot, shared, history, Typed, TypeOK, CallOK, ReloadOK
    <2> QED BY <2>3, <2>4, <2>5 DEF Typed
  <1>5. ASSUME NEW t \in Task, Compress(t)
       PROVE  Typed'
    <2>0. frames[t] \in Seq(UF) /\ node[t] \in UF /\ frames[t] # <<>>
      BY <1>5 DEF Compress, Typed, TypeOK, CallOK
    <2>1. Top(frames[t]) \in UF /\ Pop(frames[t]) \in Seq(UF)
      BY <2>0, PopFacts
    <2>2. TypeOK'
      <3>1. parent' \in [UF -> UF \cup {Null}]
        BY <1>5, <2>0, <2>1 DEF Compress, Typed, TypeOK
      <3>2. /\ frames' \in [Task -> Seq(UF)]
            /\ pc' \in [Task -> {"idle", "walk", "unwind", "reload",
                                "rank", "merge"}]
        <4>1. CASE Reload
          BY <1>5, <4>1 DEF Compress, Typed, TypeOK
        <4>2. CASE ~Reload
          <5>1. frames' = [frames EXCEPT ![t] = Pop(frames[t])] /\ pc' = pc
            BY <1>5, <4>2 DEF Compress
          <5>2. frames \in [Task -> Seq(UF)]
            BY DEF Typed, TypeOK
          <5>3. frames' \in [Task -> Seq(UF)]
            BY <2>1, <5>1, <5>2
          <5> QED BY <5>1, <5>3 DEF Typed, TypeOK
        <4> QED BY <4>1, <4>2
      <3> QED BY <1>5, <3>1, <3>2 DEF Compress, history, Typed, TypeOK
    <2>3. ASSUME NEW s \in Task PROVE CallOK(s)'
      <3>1. /\ frames'[t] # <<>> \/ pc'[t] = "unwind"
            /\ pc'[t] \in {"unwind", "reload"}
            /\ s # t => frames'[s] = frames[s] /\ pc'[s] = pc[s]
        BY <1>5, <2>0 DEF Compress, Typed, TypeOK
      <3>2. op[t] # "none" /\ pc[t] = "unwind"
        BY <1>5 DEF Compress, Typed, CallOK
      <3> QED
        BY <1>5, <2>0, <3>1, <3>2 DEF Compress, history, Typed, CallOK
    <2>4. ASSUME NEW s \in Task PROVE ReloadOK(s)'
      <3>1. CASE pc[s] = "reload" /\ s # t
        <4>1. frames[s] \in Seq(UF) /\ frames[s] # <<>>
          BY <3>1 DEF Typed, TypeOK, CallOK
        <4>2. Top(frames[s]) \in UF
          BY <4>1, PopFacts
        <4> QED
          BY <1>5, <2>0, <3>1, <4>2
             DEF Compress, history, Typed, TypeOK, ReloadOK
      <3>2. CASE s = t
        <4>1. parent'[Top(frames[t])] = node[t]
          BY <1>5, <2>1 DEF Compress, Typed, TypeOK
        <4> QED
          BY <1>5, <2>0, <3>2, <4>1
             DEF Compress, history, Typed, TypeOK, ReloadOK
      <3>3. CASE pc[s] # "reload" /\ s # t
        BY <1>5, <3>3 DEF Compress, history, Typed, TypeOK, ReloadOK
      <3> QED BY <3>1, <3>2, <3>3
    <2> QED BY <2>2, <2>3, <2>4 DEF Typed
  <1>6. ASSUME NEW t \in Task, ReturnParent(t)
       PROVE  Typed'
    <2>0. frames[t] \in Seq(UF) /\ node[t] \in UF /\ frames[t] # <<>>
      BY <1>6 DEF ReturnParent, Typed, TypeOK, CallOK
    <2>1. Top(frames[t]) \in UF /\ Pop(frames[t]) \in Seq(UF)
      BY <2>0, PopFacts
    <2>2. TypeOK'
      BY <1>6, <2>0, <2>1 DEF ReturnParent, shared, history, Typed, TypeOK, CallOK, ReloadOK
    <2>3. ASSUME NEW s \in Task PROVE CallOK(s)'
      BY <1>6, <2>0, <2>1 DEF ReturnParent, shared, history, Typed, TypeOK, CallOK, ReloadOK
    <2>4. ASSUME NEW s \in Task PROVE ReloadOK(s)'
      BY <1>6, <2>0, <2>1 DEF ReturnParent, shared, history, Typed, TypeOK, CallOK, ReloadOK
    <2> QED BY <2>2, <2>3, <2>4 DEF Typed
  <1>7. ASSUME NEW t \in Task, FindReturns(t)
       PROVE  Typed'
    <2>1. TypeOK'
      BY <1>7 DEF FindReturns, Answers, Leave, shared, Typed, TypeOK, CallOK, ReloadOK
    <2>2. ASSUME NEW s \in Task PROVE CallOK(s)'
      BY <1>7 DEF FindReturns, Answers, Leave, shared, Typed, TypeOK, CallOK, ReloadOK
    <2>3. ASSUME NEW s \in Task PROVE ReloadOK(s)'
      BY <1>7 DEF FindReturns, Answers, Leave, shared, Typed, TypeOK, CallOK, ReloadOK
    <2> QED BY <2>1, <2>2, <2>3 DEF Typed
  <1>8. ASSUME NEW t \in Task, FirstFound(t)
       PROVE  Typed'
    <2>1. TypeOK'
      BY <1>8 DEF FirstFound, Answers, Enter, shared, history, Typed, TypeOK, CallOK, ReloadOK
    <2>2. ASSUME NEW s \in Task PROVE CallOK(s)'
      BY <1>8 DEF FirstFound, Answers, Enter, shared, history, Typed, TypeOK, CallOK, ReloadOK
    <2>3. ASSUME NEW s \in Task PROVE ReloadOK(s)'
      BY <1>8 DEF FirstFound, Answers, Enter, shared, history, Typed, TypeOK, CallOK, ReloadOK
    <2> QED BY <2>1, <2>2, <2>3 DEF Typed
  <1>9. ASSUME NEW t \in Task, SameSet(t)
       PROVE  Typed'
    <2>1. TypeOK'
      BY <1>9 DEF SameSet, BothFound, Answers, Leave, shared, Typed, TypeOK, CallOK, ReloadOK
    <2>2. ASSUME NEW s \in Task PROVE CallOK(s)'
      BY <1>9 DEF SameSet, BothFound, Answers, Leave, shared, Typed, TypeOK, CallOK, ReloadOK
    <2>3. ASSUME NEW s \in Task PROVE ReloadOK(s)'
      BY <1>9 DEF SameSet, BothFound, Answers, Leave, shared, Typed, TypeOK, CallOK, ReloadOK
    <2> QED BY <2>1, <2>2, <2>3 DEF Typed
  <1>10. ASSUME NEW t \in Task, LinkByRank(t)
         PROVE  Typed'
    <2>1. PICK winner \in UF, loser \in UF :
             /\ LinkBelow(t, winner, loser)
             /\ pc' \in {[pc EXCEPT ![t] = "merge"], [pc EXCEPT ![t] = "rank"]}
      BY <1>10, LinkPicks DEF Typed
    <2>2. pc[t] = "unwind" /\ frames[t] = <<>> /\ op[t] = "uf1"
      BY <1>10 DEF LinkByRank, BothFound, Answers
    <2>3. pc'[t] \in {"merge", "rank"} /\ \A s \in Task \ {t} : pc'[s] = pc[s]
      BY <2>1 DEF Typed, TypeOK
    <2>4. TypeOK'
      <3>1. pc' \in [Task -> {"idle", "walk", "unwind", "reload",
                             "rank", "merge"}]
        BY <2>1 DEF Typed, TypeOK
      <3>2. comp' \in [UF -> UF] /\ parent' \in [UF -> UF \cup {Null}]
        BY <2>1 DEF LinkBelow, Typed, TypeOK
      <3>3. clock' \in Nat /\ linkedAt' \in [UF -> Nat]
        BY <2>1 DEF LinkBelow, Typed, TypeOK
      <3> QED BY <2>1, <3>1, <3>2, <3>3 DEF LinkBelow, Typed, TypeOK
    <2>5. ASSUME NEW s \in Task PROVE CallOK(s)'
      BY <2>1, <2>2, <2>3 DEF LinkBelow, Typed, TypeOK, CallOK
    <2>6. ASSUME NEW s \in Task PROVE ReloadOK(s)'
      <3>1. CASE pc[s] = "reload"
        <4>1. frames[s] \in Seq(UF) /\ frames[s] # <<>>
          BY <3>1 DEF Typed, TypeOK, CallOK
        <4>2. Top(frames[s]) \in UF
          BY <4>1, PopFacts
        <4> QED
          BY <2>1, <4>2 DEF LinkBelow, Typed, TypeOK, ReloadOK
      <3>2. CASE pc[s] # "reload"
        BY <2>3, <3>2 DEF ReloadOK
      <3> QED BY <3>1, <3>2
    <2> QED BY <2>4, <2>5, <2>6 DEF Typed
  <1>11. ASSUME NEW t \in Task, SetRank(t)
        PROVE  Typed'
    <2>1. TypeOK'
      BY <1>11 DEF SetRank, history, Typed, TypeOK, CallOK, ReloadOK
    <2>2. ASSUME NEW s \in Task PROVE CallOK(s)'
      BY <1>11 DEF SetRank, history, Typed, TypeOK, CallOK, ReloadOK
    <2>3. ASSUME NEW s \in Task PROVE ReloadOK(s)'
      BY <1>11 DEF SetRank, history, Typed, TypeOK, CallOK, ReloadOK
    <2> QED BY <2>1, <2>2, <2>3 DEF Typed
  <1>12. ASSUME NEW t \in Task, MergeData(t)
        PROVE  Typed'
    <2>1. TypeOK'
      BY <1>12 DEF MergeData, Leave, Typed, TypeOK, CallOK, ReloadOK
    <2>2. ASSUME NEW s \in Task PROVE CallOK(s)'
      BY <1>12 DEF MergeData, Leave, Typed, TypeOK, CallOK, ReloadOK
    <2>3. ASSUME NEW s \in Task PROVE ReloadOK(s)'
      BY <1>12 DEF MergeData, Leave, Typed, TypeOK, CallOK, ReloadOK
    <2> QED BY <2>1, <2>2, <2>3 DEF Typed
  <1>13. ASSUME UNCHANGED vars PROVE Typed'
    <2>1. TypeOK'
      BY <1>13 DEF vars, shared, local, history, Typed, TypeOK
    <2>2. ASSUME NEW s \in Task PROVE CallOK(s)' /\ ReloadOK(s)'
      BY <1>13 DEF vars, shared, local, history, Typed, CallOK, ReloadOK
    <2> QED BY <2>1, <2>2 DEF Typed
  <1> QED
    BY <1>1, <1>2, <1>3, <1>4, <1>5, <1>6, <1>7, <1>8, <1>9, <1>10, <1>11,
       <1>12, <1>13 DEF Next, Step

(* Every variable keeps its type, whatever the tasks do and whether or not *)
(* find reads parent_ again.                                               *)
THEOREM TypeCorrect == Spec => []TypeOK
  <1>1. Typed => TypeOK
    BY DEF Typed
  <1> QED BY TypedInit, TypedNext, <1>1, PTL DEF Spec
-------------------------------------------------------------------------------
(***************************************************************************)
(* The inductive invariant of a build whose find returns what it wrote.    *)
(* The clock of the links is what keeps it inductive: a stale compression  *)
(* may undo a newer one, but it always writes an element linked later than *)
(* the one it writes to, in the same set.                                  *)
(***************************************************************************)
Target(t) == IF op[t] = "uf1" THEN peer[t] ELSE arg[t]

Below(u, v) == ~IsRoot(u) /\ comp[u] = comp[v] /\ Before(u, v)

WalkOK(t) ==
    pc[t] \in {"walk", "unwind"} =>
        /\ comp[node[t]] = comp[Target(t)]
        /\ \A i \in 1..Len(frames[t]) : Below(frames[t][i], node[t])

AnswerOK(t) ==
    /\ calledAt[t] <= clock
    /\ pc[t] = "unwind" => IsRoot(node[t]) \/ linkedAt[node[t]] > calledAt[t]

UnionOK(t) ==
    /\ Merging(t) /\ pc[t] = "unwind" => IsRoot(node[t])
    /\ op[t] = "uf1" /\ pc[t] \in {"walk", "unwind"}
          => IsRoot(rep0[t]) /\ comp[rep0[t]] = comp[arg[t]]
    /\ pc[t] \in {"rank", "merge"}
          => /\ IsRoot(rep0[t])
             /\ comp[arg[t]] = rep0[t]
             /\ comp[peer[t]] = rep0[t]
             /\ comp[node[t]] = rep0[t]

Exclusive ==
    \A s, t \in Task :
        s # t /\ Merging(s) /\ Merging(t) => Owned(s) \cap Owned(t) = {}

Safe == /\ Typed
        /\ Forest
        /\ \A t \in Task : WalkOK(t) /\ AnswerOK(t) /\ UnionOK(t)
        /\ Exclusive
        /\ DataConserved

(* The initial state, where every element is alone, satisfies the          *)
(* invariant.                                                              *)
LEMMA SafeInit == Init => Safe
  <1> SUFFICES ASSUME Init PROVE Safe
    OBVIOUS
  <1> USE NullAssumption
  <1>1. Typed
    BY TypedInit
  <1>2. Forest
    BY DEF Init, Forest, IsRoot, Before
  <1>3. ASSUME NEW t \in Task PROVE WalkOK(t) /\ AnswerOK(t) /\ UnionOK(t)
    BY DEF Init, WalkOK, AnswerOK, UnionOK, Merging
  <1>4. Exclusive
    BY DEF Init, Exclusive, Merging
  <1>5. DataConserved
    BY DEF Init, DataConserved
  <1> QED BY <1>1, <1>2, <1>3, <1>4, <1>5 DEF Safe

(* Going one parent up keeps every pending frame below the walk.           *)
LEMMA BelowParent ==
    ASSUME Typed, Forest, NEW u \in UF, NEW v \in UF,
           Below(u, v), ~IsRoot(v)
    PROVE  /\ parent[v] \in UF
           /\ Below(v, parent[v])
           /\ Below(u, parent[v])
  <1>1. parent[v] \in UF
    BY DEF IsRoot, Typed, TypeOK
  <1>2. Below(v, parent[v])
    BY DEF Forest, Below
  <1>3. linkedAt[u] < linkedAt[v] /\ comp[u] = comp[v]
    BY DEF Below, Before
  <1>4. Before(u, parent[v])
    BY <1>1, <1>2, <1>3 DEF Below, Before, Typed, TypeOK
  <1> QED BY <1>1, <1>2, <1>3, <1>4 DEF Below

(* A root represents its set.                                              *)
LEMMA RootRepresents ==
    ASSUME Forest, NEW u \in UF, IsRoot(u)
    PROVE  comp[u] = u
  BY DEF Forest

(* What a compression changes: one parent, to an element above the old     *)
(* place of the child; neither roots nor the order of the links.           *)
LEMMA CompressFacts ==
    ASSUME Safe, ~Reload, NEW t \in Task, Compress(t)
    PROVE  \E x \in UF :
              /\ x = frames[t][Len(frames[t])]
              /\ parent' = [parent EXCEPT ![x] = node[t]]
              /\ Below(x, node[t])
              /\ node[t] \in UF
              /\ frames' = [frames EXCEPT ![t] = Pop(frames[t])]
              /\ pc' = pc
              /\ UNCHANGED <<rank, data, op, arg, peer, rep0, node, history>>
  <1>1. frames[t] \in Seq(UF) /\ frames[t] # <<>> /\ node[t] \in UF
    BY DEF Compress, Safe, Typed, TypeOK, CallOK
  <1>2. Top(frames[t]) \in UF /\ Len(frames[t]) \in 1..Len(frames[t])
    BY <1>1, PopFacts
  <1>3. Below(Top(frames[t]), node[t])
    BY <1>2 DEF Top, Safe, WalkOK, Compress
  <1>4. /\ parent' = [parent EXCEPT ![Top(frames[t])] = node[t]]
        /\ frames' = [frames EXCEPT ![t] = Pop(frames[t])]
        /\ pc' = pc
        /\ UNCHANGED <<rank, data, op, arg, peer, rep0, node, history>>
    BY DEF Compress
  <1> QED BY <1>1, <1>2, <1>3, <1>4 DEF Top

(* A compression changes nobody's representative.                          *)
LEMMA CompressStable ==
    ASSUME Safe, ~Reload, NEW t \in Task, Compress(t)
    PROVE  /\ \A u \in UF : IsRoot(u)' <=> IsRoot(u)
           /\ \A u, v \in UF : Before(u, v)' <=> Before(u, v)
           /\ \A u, v \in UF : Below(u, v)' <=> Below(u, v)
  <1>1. PICK x \in UF : /\ parent' = [parent EXCEPT ![x] = node[t]]
                        /\ Below(x, node[t])
                        /\ node[t] \in UF
                        /\ UNCHANGED history
    BY CompressFacts
  <1>2. ASSUME NEW u \in UF PROVE IsRoot(u)' <=> IsRoot(u)
    BY <1>1, NullAssumption DEF IsRoot, Below, Safe, Typed, TypeOK
  <1>3. ASSUME NEW u \in UF, NEW v \in UF PROVE Before(u, v)' <=> Before(u, v)
    BY <1>1, <1>2 DEF Before, history
  <1>4. ASSUME NEW u \in UF, NEW v \in UF PROVE Below(u, v)' <=> Below(u, v)
    BY <1>1, <1>2, <1>3 DEF Below, history
  <1> QED BY <1>2, <1>3, <1>4

(* What a link changes: the loser, a root until now, gets a parent in the  *)
(* set it joins, and a link time later than every other.                   *)
LEMMA LinkFacts ==
    ASSUME Safe, NEW t \in Task, LinkByRank(t)
    PROVE  \E winner \in UF, loser \in UF :
              /\ LinkBelow(t, winner, loser)
              /\ {winner, loser} = {rep0[t], node[t]}
              /\ pc' \in {[pc EXCEPT ![t] = "merge"], [pc EXCEPT ![t] = "rank"]}
              /\ winner # loser
              /\ IsRoot(winner) /\ comp[winner] = winner
              /\ IsRoot(loser) /\ comp[loser] = loser
              /\ Owned(t) = {winner, loser}
              /\ \A s \in Task \ {t} :
                    Merging(s) => Owned(s) \cap {winner, loser} = {}
  <1>1. /\ op[t] = "uf1" /\ pc[t] = "unwind" /\ frames[t] = <<>>
        /\ rep0[t] \in UF /\ node[t] \in UF
    BY DEF LinkByRank, BothFound, Answers, Safe, Typed, CallOK
  <1>2. IsRoot(rep0[t]) /\ comp[rep0[t]] = comp[arg[t]]
    BY <1>1 DEF Safe, UnionOK
  <1>3. IsRoot(node[t]) /\ comp[node[t]] = comp[peer[t]]
    BY <1>1 DEF Safe, UnionOK, WalkOK, Target, Merging
  <1>4. comp[rep0[t]] = rep0[t] /\ comp[node[t]] = node[t]
    BY <1>1, <1>2, <1>3, RootRepresents DEF Safe
  <1>5. Owned(t) = {rep0[t], node[t]} /\ Merging(t)
    BY <1>1, <1>2, <1>3, <1>4 DEF Owned, Merging
  <1>6. PICK winner \in UF, loser \in UF :
              /\ LinkBelow(t, winner, loser)
              /\ {winner, loser} = {rep0[t], node[t]}
              /\ winner # loser
              /\ pc' \in {[pc EXCEPT ![t] = "merge"], [pc EXCEPT ![t] = "rank"]}
    BY LinkPicks DEF Safe
  <1>7. \A s \in Task \ {t} :
           Merging(s) => Owned(s) \cap {winner, loser} = {}
    BY <1>5, <1>6 DEF Safe, Exclusive
  <1>8. /\ IsRoot(winner) /\ comp[winner] = winner
        /\ IsRoot(loser) /\ comp[loser] = loser
    BY <1>2, <1>3, <1>4, <1>6
  <1>9. Owned(t) = {winner, loser}
    BY <1>5, <1>6
  <1> QED BY <1>6, <1>7, <1>8, <1>9

(* The facts about the elements that a link keeps.                         *)
LEMMA LinkStable ==
    ASSUME Safe, NEW t \in Task, NEW winner \in UF, NEW loser \in UF,
           LinkBelow(t, winner, loser), winner # loser,
           IsRoot(winner), comp[winner] = winner,
           IsRoot(loser), comp[loser] = loser
    PROVE  /\ \A u \in UF : IsRoot(u)' <=> (IsRoot(u) /\ u # loser)
           /\ \A u \in UF : comp'[u] = IF comp[u] = loser THEN winner
                                      ELSE comp[u]
           /\ \A u \in UF : u # loser => linkedAt'[u] = linkedAt[u]
           /\ linkedAt'[loser] = clock + 1 /\ clock' = clock + 1
           /\ \A u, v \in UF : ~IsRoot(u) /\ Before(u, v) => Before(u, v)'
           /\ \A u, v \in UF : Below(u, v) => Below(u, v)'
  <1>1. ASSUME NEW u \in UF PROVE IsRoot(u)' <=> (IsRoot(u) /\ u # loser)
    BY NullAssumption DEF LinkBelow, IsRoot, Safe, Typed, TypeOK
  <1>2. ASSUME NEW u \in UF
        PROVE  comp'[u] = IF comp[u] = loser THEN winner ELSE comp[u]
    BY DEF LinkBelow, Safe, Typed, TypeOK
  <1>3. /\ \A u \in UF : u # loser => linkedAt'[u] = linkedAt[u]
        /\ linkedAt'[loser] = clock + 1 /\ clock' = clock + 1
    BY DEF LinkBelow, Safe, Typed, TypeOK
  <1>4. ASSUME NEW u \in UF, NEW v \in UF, ~IsRoot(u), Before(u, v)
        PROVE  Before(u, v)'
    <2>1. linkedAt[u] \in 1..clock /\ clock \in Nat /\ u # loser
      BY <1>4 DEF Safe, Forest, Typed, TypeOK
    <2>2. CASE v = loser
      BY <1>3, <2>1, <2>2 DEF Before
    <2>3. CASE v # loser
      BY <1>1, <1>3, <1>4, <2>1, <2>3 DEF Before
    <2> QED BY <2>2, <2>3
  <1>5. ASSUME NEW u \in UF, NEW v \in UF, Below(u, v) PROVE Below(u, v)'
    BY <1>1, <1>2, <1>4, <1>5 DEF Below
  <1> QED BY <1>1, <1>2, <1>3, <1>4, <1>5

(* The forest is kept by every step.                                       *)
LEMMA ForestNext ==
    ASSUME Safe, ~Reload, [Next]_vars
    PROVE  Forest'
  <1> USE NullAssumption
  <1>1. ASSUME UNCHANGED <<parent, comp, clock, linkedAt>> PROVE Forest'
    BY <1>1 DEF Safe, Forest, IsRoot, Before
  <1>2. ASSUME NEW t \in Task, Compress(t) PROVE Forest'
    <2>1. PICK x \in UF : /\ parent' = [parent EXCEPT ![x] = node[t]]
                          /\ Below(x, node[t])
                          /\ node[t] \in UF
                          /\ UNCHANGED history
      BY <1>2, CompressFacts
    <2>2. ASSUME NEW u \in UF
          PROVE  /\ comp'[comp'[u]] = comp'[u]
                 /\ IsRoot(u)' <=> comp'[u] = u
      BY <1>2, <2>1, CompressStable DEF Safe, Forest, history
    <2>3. ASSUME NEW u \in UF, ~IsRoot(u)'
          PROVE  /\ comp'[parent'[u]] = comp'[u]
                 /\ linkedAt'[u] \in 1..clock'
                 /\ Before(u, parent[u])' 
      <3>1. ~IsRoot(u) /\ parent[u] \in UF
        BY <1>2, <2>3, CompressStable DEF IsRoot, Safe, Typed, TypeOK
      <3>2. /\ comp[parent[u]] = comp[u] /\ linkedAt[u] \in 1..clock
            /\ Before(u, parent[u])
        BY <3>1 DEF Safe, Forest
      <3>3. parent'[u] = IF u = x THEN node[t] ELSE parent[u]
        BY <2>1 DEF Safe, Typed, TypeOK
      <3>4. Before(u, IF u = x THEN node[t] ELSE parent[u])
        BY <2>1, <3>2 DEF Below
      <3>5. IsRoot(parent[u])' <=> IsRoot(IF u = x THEN node[t] ELSE parent[u])
        <4>1. (IF u = x THEN node[t] ELSE parent[u]) \in UF
          BY <2>1, <3>1
        <4> QED
          BY <1>2, <3>3, <4>1, CompressStable DEF IsRoot
      <3>6. Before(u, parent[u])'
        BY <2>1, <3>3, <3>4, <3>5 DEF Before, history
      <3> QED BY <2>1, <3>2, <3>3, <3>6 DEF Below, history
    <2> QED BY <2>2, <2>3 DEF Forest
  <1>3. ASSUME NEW t \in Task, LinkByRank(t) PROVE Forest'
    <2>1. PICK winner \in UF, loser \in UF :
              /\ LinkBelow(t, winner, loser) /\ winner # loser
              /\ IsRoot(winner) /\ comp[winner] = winner
              /\ IsRoot(loser) /\ comp[loser] = loser
      BY <1>3, LinkFacts
    <2>2. /\ \A u \in UF : IsRoot(u)' <=> (IsRoot(u) /\ u # loser)
          /\ \A u \in UF : comp'[u] = IF comp[u] = loser THEN winner
                                     ELSE comp[u]
          /\ \A u \in UF : u # loser => linkedAt'[u] = linkedAt[u]
          /\ linkedAt'[loser] = clock + 1 /\ clock' = clock + 1
          /\ \A u, v \in UF : ~IsRoot(u) /\ Before(u, v) => Before(u, v)'
      BY <2>1, LinkStable
    <2>3. ASSUME NEW u \in UF
          PROVE  /\ comp'[comp'[u]] = comp'[u]
                 /\ IsRoot(u)' <=> comp'[u] = u
      BY <2>1, <2>2 DEF Safe, Forest, Typed, TypeOK
    <2>4. ASSUME NEW u \in UF, ~IsRoot(u)'
          PROVE  /\ comp'[parent'[u]] = comp'[u]
                 /\ linkedAt'[u] \in 1..clock'
                 /\ Before(u, parent[u])'
      <3>1. parent'[u] = IF u = loser THEN winner ELSE parent[u]
        BY <2>1 DEF LinkBelow, Safe, Typed, TypeOK
      <3>2. CASE u = loser
        <4>1. parent'[u] = winner /\ comp'[winner] = winner /\ comp'[u] = winner
          BY <2>1, <2>2, <3>1, <3>2
        <4>2. IsRoot(winner)'
          BY <2>1, <2>2
        <4>3. Before(u, parent[u])'
          BY <4>1, <4>2 DEF Before, IsRoot
        <4>4. linkedAt'[u] \in 1..clock'
          <5>1. clock \in Nat
            BY DEF Safe, Typed, TypeOK
          <5>2. linkedAt'[u] = clock + 1 /\ clock' = clock + 1
            BY <2>2, <3>2
          <5>3. clock + 1 \in 1..(clock + 1)
            BY <5>1
          <5> QED BY <5>2, <5>3
        <4> QED BY <4>1, <4>3, <4>4
      <3>3. CASE u # loser
        <4>1. ~IsRoot(u) /\ parent'[u] = parent[u] /\ parent[u] \in UF
          BY <2>2, <2>4, <3>1, <3>3 DEF IsRoot, Safe, Typed, TypeOK
        <4>2. /\ comp[parent[u]] = comp[u] /\ linkedAt[u] \in 1..clock
              /\ Before(u, parent[u])
          BY <4>1 DEF Safe, Forest
        <4>3. \/ IsRoot(parent[u]) /\ parent[u] # loser
              \/ linkedAt'[u] < linkedAt'[parent[u]]
          <5>1. clock \in Nat
            BY DEF Safe, Typed, TypeOK
          <5> QED BY <2>2, <3>3, <4>1, <4>2, <5>1 DEF Before
        <4>4. Before(u, parent[u])'
          BY <2>2, <4>1, <4>3 DEF Before, IsRoot
        <4>5. linkedAt'[u] \in 1..clock'
          <5>1. clock \in Nat
            BY DEF Safe, Typed, TypeOK
          <5> QED BY <2>2, <3>3, <4>2, <5>1
        <4> QED BY <2>2, <4>1, <4>2, <4>4, <4>5
      <3> QED BY <3>2, <3>3
    <2> QED BY <2>3, <2>4 DEF Forest
  <1>4. ASSUME [Next]_vars, \A t \in Task : ~Compress(t) /\ ~LinkByRank(t)
        PROVE  UNCHANGED <<parent, comp, clock, linkedAt>>
    BY <1>4 DEF Next, Step, CallFind, CallUnion, FoundRoot, Recurse,
                ReturnParent, FindReturns, FirstFound, SameSet, SetRank,
                MergeData, Leave, vars, shared, history
  <1> QED BY <1>1, <1>2, <1>3, <1>4

(***************************************************************************)
(* The calls in progress.  CallsOK(s) is kept by a step that changes       *)
(* neither the locals of s nor the forest, by a compression of another     *)
(* task and by a link of another task, because that link is between sets   *)
(* that a union in progress at s does not own.                             *)
(***************************************************************************)
CallsOK(s) == WalkOK(s) /\ AnswerOK(s) /\ UnionOK(s)

Same(s) == /\ pc'[s] = pc[s] /\ op'[s] = op[s] /\ arg'[s] = arg[s]
           /\ peer'[s] = peer[s] /\ rep0'[s] = rep0[s] /\ node'[s] = node[s]
           /\ frames'[s] = frames[s] /\ calledAt'[s] = calledAt[s]

(* A step that writes no pointer keeps the forest and its sets.            *)
LEMMA SameForest ==
    ASSUME NEW s \in Task, CallsOK(s), Same(s),
           UNCHANGED <<parent, comp, clock, linkedAt>>
    PROVE  CallsOK(s)'
  BY DEF CallsOK, Same, WalkOK, AnswerOK, UnionOK, Target, Below, Before,
         IsRoot, Merging

(* Only the acting task changes its locals.                                *)
LEMMA OthersSame ==
    ASSUME Typed, ~Reload, NEW t \in Task, NEW s \in Task \ {t},
           \/ \E x \in UF : CallFind(t, x)
           \/ \E x, y \in UF : CallUnion(t, x, y)
           \/ Step(t)
    PROVE  Same(s)
  <1>1. ASSUME NEW x \in UF, CallFind(t, x) PROVE Same(s)
    BY <1>1 DEF CallFind, Enter, Same, Typed, TypeOK
  <1>2. ASSUME NEW x \in UF, NEW y \in UF, CallUnion(t, x, y) PROVE Same(s)
    BY <1>2 DEF CallUnion, Enter, history, Same, Typed, TypeOK
  <1>3. CASE FoundRoot(t) \/ Recurse(t) \/ ReturnParent(t)
    BY <1>3 DEF FoundRoot, Recurse, ReturnParent, history, Same, Typed, TypeOK
  <1>4. CASE Compress(t)
    BY <1>4 DEF Compress, history, Same, Typed, TypeOK
  <1>5. CASE FindReturns(t) \/ SameSet(t) \/ MergeData(t)
    BY <1>5 DEF FindReturns, SameSet, MergeData, Leave, Same, Typed, TypeOK
  <1>6. CASE FirstFound(t)
    BY <1>6 DEF FirstFound, Enter, history, Same, Typed, TypeOK
  <1>7. CASE LinkByRank(t)
    BY <1>7 DEF LinkByRank, LinkBelow, Same, Typed, TypeOK
  <1>8. CASE SetRank(t)
    BY <1>8 DEF SetRank, history, Same, Typed, TypeOK
  <1> QED BY <1>1, <1>2, <1>3, <1>4, <1>5, <1>6, <1>7, <1>8 DEF Step

(* A compression keeps what is known of the calls in progress.             *)
LEMMA CallsCompress ==
    ASSUME Safe, ~Reload, NEW t \in Task, Compress(t), NEW s \in Task
    PROVE  CallsOK(s)'
  <1>1. /\ frames' = [frames EXCEPT ![t] = Pop(frames[t])] /\ pc' = pc
        /\ UNCHANGED <<op, arg, peer, rep0, node, history>>
    BY CompressFacts
  <1>2. /\ \A i \in 1..Len(frames'[s]) : /\ i \in 1..Len(frames[s])
                                       /\ frames'[s][i] = frames[s][i]
                                       /\ frames[s][i] \in UF
    <2>1. frames[s] \in Seq(UF)
      BY DEF Safe, Typed, TypeOK
    <2>2. CASE s = t
      <3>1. frames[t] # <<>> /\ frames'[t] = Pop(frames[t])
        BY <1>1 DEF Compress, Safe, Typed, TypeOK
      <3>2. /\ Len(frames[t]) \in Nat \ {0}
            /\ Len(Pop(frames[t])) = Len(frames[t]) - 1
            /\ \A i \in 1..(Len(frames[t]) - 1) :
                   Pop(frames[t])[i] = frames[t][i]
        BY <2>1, <2>2, <3>1, PopFacts
      <3> QED BY <2>1, <2>2, <3>1, <3>2
    <2>3. CASE s # t
      <3>1. frames'[s] = frames[s]
        BY <1>1, <2>3 DEF Safe, Typed, TypeOK
      <3> QED BY <2>1, <3>1
    <2> QED BY <2>2, <2>3
  <1>3. pc[s] \in {"walk", "unwind"} => node[s] \in UF
    BY DEF Safe, Typed, CallOK
  <1>4. op[s] = "uf1" => rep0[s] \in UF
    BY DEF Safe, Typed, CallOK
  <1>5. WalkOK(s)'
    <2> SUFFICES ASSUME pc[s] \in {"walk", "unwind"}
                 PROVE  /\ comp[node[s]] = comp[Target(s)]
                        /\ \A i \in 1..Len(frames'[s]) :
                              Below(frames[s][i], node[s])'
      BY <1>1 DEF WalkOK, Target, history
    <2>1. comp[node[s]] = comp[Target(s)]
      BY DEF Safe, WalkOK
    <2>2. ASSUME NEW i \in 1..Len(frames'[s])
          PROVE  Below(frames[s][i], node[s])'
      <3>1. Below(frames[s][i], node[s])
        BY <1>2 DEF Safe, WalkOK
      <3>2. frames[s][i] \in UF /\ node[s] \in UF
        BY <1>2, <1>3
      <3>3. \A u, v \in UF : Below(u, v) => Below(u, v)'
        BY CompressStable
      <3> QED BY <1>1, <1>2, <3>1, <3>2, <3>3 DEF Below, Before, IsRoot
    <2> QED BY <2>1, <2>2
  <1>6. AnswerOK(s)'
    BY <1>1, <1>3, CompressStable DEF Safe, AnswerOK, IsRoot, history
  <1>7. UnionOK(s)'
    <2>1. \A u \in UF : IsRoot(u) => parent'[u] = Null
      BY CompressStable DEF IsRoot
    <2>2. pc[s] \in {"rank", "merge"} => rep0[s] \in UF
      BY DEF Safe, Typed, CallOK
    <2> QED
      BY <1>1, <1>3, <1>4, <2>1, <2>2
         DEF Safe, UnionOK, Merging, IsRoot, history
  <1> QED BY <1>5, <1>6, <1>7 DEF CallsOK

(* A link keeps what is known of the calls in progress.                    *)
LEMMA CallsLink ==
    ASSUME Safe, ~Reload, NEW t \in Task, LinkByRank(t), NEW s \in Task
    PROVE  CallsOK(s)'
  <1>1. PICK winner \in UF, loser \in UF :
            /\ LinkBelow(t, winner, loser)
            /\ pc' \in {[pc EXCEPT ![t] = "merge"], [pc EXCEPT ![t] = "rank"]}
            /\ winner # loser
            /\ IsRoot(winner) /\ comp[winner] = winner
            /\ IsRoot(loser) /\ comp[loser] = loser
            /\ Owned(t) = {winner, loser}
            /\ \A o \in Task \ {t} :
                  Merging(o) => Owned(o) \cap {winner, loser} = {}
    BY LinkFacts
  <1>2. /\ \A u \in UF : IsRoot(u)' <=> (IsRoot(u) /\ u # loser)
        /\ \A u \in UF : comp'[u] = IF comp[u] = loser THEN winner
                                   ELSE comp[u]
        /\ \A u \in UF : u # loser => linkedAt'[u] = linkedAt[u]
        /\ linkedAt'[loser] = clock + 1 /\ clock' = clock + 1
        /\ \A u, v \in UF : Below(u, v) => Below(u, v)'
    BY <1>1, LinkStable
  <1>3. clock \in Nat /\ calledAt[s] \in Nat /\ calledAt'[s] = calledAt[s]
    BY <1>1 DEF LinkBelow, Safe, Typed, TypeOK
  <1>4. op' = op /\ arg' = arg /\ peer' = peer /\ frames' = frames
    BY <1>1 DEF LinkBelow
  <1>5. CASE s = t
    <2>1. /\ pc'[t] \in {"merge", "rank"}
          /\ rep0'[t] = winner /\ node'[t] = loser
      BY <1>1 DEF LinkBelow, Safe, Typed, TypeOK
    <2>2. arg[t] \in UF /\ peer[t] \in UF /\ op[t] = "uf1"
      BY DEF LinkByRank, BothFound, Safe, Typed, CallOK
    <2>3. comp[arg[t]] \in {winner, loser} /\ comp[peer[t]] \in {winner, loser}
      BY <1>1 DEF Owned
    <2>4. UnionOK(t)'
      <3>1. IsRoot(winner)' /\ comp'[winner] = winner /\ comp'[loser] = winner
        BY <1>1, <1>2
      <3>2. comp'[arg[t]] = winner /\ comp'[peer[t]] = winner
        BY <1>1, <1>2, <2>2, <2>3
      <3>3. parent'[winner] = Null
        BY <3>1 DEF IsRoot
      <3> QED BY <1>4, <2>1, <3>1, <3>2, <3>3 DEF UnionOK, IsRoot
    <2>5. WalkOK(t)' /\ AnswerOK(t)'
      BY <1>2, <1>3, <1>5, <2>1 DEF WalkOK, AnswerOK, Safe
    <2> QED BY <1>5, <2>4, <2>5 DEF CallsOK
  <1>6. CASE s # t
    <2>1. pc'[s] = pc[s] /\ rep0'[s] = rep0[s] /\ node'[s] = node[s]
      BY <1>1, <1>6 DEF LinkBelow, Safe, Typed, TypeOK
    <2>2. /\ op[s] # "none" => arg[s] \in UF /\ node[s] \in UF
          /\ op[s] \in {"uf0", "uf1"} => peer[s] \in UF
          /\ op[s] = "uf1" => rep0[s] \in UF
          /\ pc[s] \in {"walk", "unwind", "rank", "merge"} => op[s] # "none"
          /\ pc[s] \in {"rank", "merge"} => op[s] = "uf1"
          /\ op[s] \in {"none", "find", "uf0", "uf1"}
          /\ frames[s] \in Seq(UF)
      BY DEF Safe, Typed, TypeOK, CallOK
    <2>3. WalkOK(s)'
      <3> SUFFICES ASSUME pc[s] \in {"walk", "unwind"}
                   PROVE  /\ comp'[node[s]] = (comp[Target(s)])'
                          /\ \A i \in 1..Len(frames[s]) :
                                Below(frames[s][i], node[s])'
        BY <1>4, <2>1 DEF WalkOK
      <3>1. comp[node[s]] = comp[Target(s)]
        BY DEF Safe, WalkOK
      <3>2. Target(s) \in UF /\ Target(s)' = Target(s)
        BY <1>4, <2>1, <2>2 DEF Target
      <3>3. comp'[node[s]] = (comp[Target(s)])'
        BY <1>2, <2>2, <3>1, <3>2
      <3>4. ASSUME NEW i \in 1..Len(frames[s])
            PROVE  Below(frames[s][i], node[s])'
        <4>1. Below(frames[s][i], node[s])
          BY DEF Safe, WalkOK
        <4>2. frames[s][i] \in UF /\ node[s] \in UF
          BY <2>2
        <4>3. \A u, v \in UF : Below(u, v) => Below(u, v)'
          BY <1>2
        <4> QED BY <1>4, <2>1, <4>1, <4>2, <4>3 DEF Below, Before, IsRoot
      <3> QED BY <3>3, <3>4
    <2>4. AnswerOK(s)'
      <3>1. calledAt[s] <= clock
        BY DEF Safe, AnswerOK
      <3>2. ASSUME pc[s] = "unwind"
            PROVE  IsRoot(node[s])' \/ linkedAt'[node[s]] > calledAt[s]
        <4>1. node[s] \in UF /\ (IsRoot(node[s]) \/ linkedAt[node[s]] > calledAt[s])
          BY <2>2, <3>2 DEF Safe, AnswerOK
        <4>2. CASE node[s] = loser
          BY <1>2, <1>3, <3>1, <4>2
        <4>3. CASE node[s] # loser
          BY <1>2, <2>1, <4>1, <4>3 DEF IsRoot
        <4> QED BY <4>2, <4>3
      <3> QED BY <1>2, <1>3, <2>1, <3>1, <3>2 DEF AnswerOK, IsRoot
    <2>5. UnionOK(s)'
      <3>1. ASSUME NEW r \in UF, IsRoot(r), Merging(s), comp[r] \in Owned(s)
            PROVE  r # loser /\ parent'[r] = Null
        BY <1>1, <1>2, <1>6, <3>1, RootRepresents DEF IsRoot, Safe
      <3>2. ASSUME NEW u \in UF, Merging(s), comp[u] \in Owned(s)
            PROVE  comp'[u] = comp[u]
        BY <1>1, <1>2, <1>6, <3>2
      <3>3. ASSUME Merging(s), pc[s] = "unwind"
            PROVE  parent'[node[s]] = Null
        <4>1. comp[node[s]] = comp[Target(s)] /\ IsRoot(node[s]) /\ node[s] \in UF
          BY <2>2, <3>3 DEF Safe, WalkOK, UnionOK
        <4>2. comp[Target(s)] \in Owned(s)
          BY DEF Target, Owned
        <4> QED BY <3>1, <3>3, <4>1, <4>2
      <3>4. ASSUME op[s] = "uf1", pc[s] \in {"walk", "unwind"}
            PROVE  parent'[rep0[s]] = Null /\ comp'[rep0[s]] = comp'[arg[s]]
        <4>1. IsRoot(rep0[s]) /\ comp[rep0[s]] = comp[arg[s]] /\ Merging(s)
          BY <3>4 DEF Safe, UnionOK, Merging
        <4>2. comp[arg[s]] \in Owned(s) /\ rep0[s] \in UF /\ arg[s] \in UF
          BY <2>2, <3>4 DEF Owned
        <4> QED BY <3>1, <3>2, <4>1, <4>2
      <3>5. ASSUME pc[s] \in {"rank", "merge"}
            PROVE  /\ parent'[rep0[s]] = Null
                   /\ comp'[arg[s]] = rep0[s]
                   /\ comp'[peer[s]] = rep0[s]
                   /\ comp'[node[s]] = rep0[s]
        <4>1. /\ IsRoot(rep0[s]) /\ comp[arg[s]] = rep0[s]
              /\ comp[peer[s]] = rep0[s] /\ comp[node[s]] = rep0[s]
          BY <3>5 DEF Safe, UnionOK
        <4>2. /\ Merging(s) /\ rep0[s] \in UF /\ arg[s] \in UF
              /\ peer[s] \in UF /\ node[s] \in UF
          BY <2>2, <3>5 DEF Merging
        <4>3. comp[rep0[s]] = rep0[s] /\ rep0[s] \in Owned(s)
          BY <4>1, <4>2, RootRepresents DEF Owned, Safe
        <4> QED BY <3>1, <3>2, <4>1, <4>2, <4>3
      <3> QED
        BY <1>4, <2>1, <3>3, <3>4, <3>5 DEF UnionOK, Merging, IsRoot
    <2> QED BY <2>3, <2>4, <2>5 DEF CallsOK
  <1> QED BY <1>5, <1>6

(* The acting task, when it leaves the forest alone.                       *)
LEMMA CallsActing ==
    ASSUME Safe, ~Reload, NEW t \in Task,
           \/ \E x \in UF : CallFind(t, x)
           \/ \E x, y \in UF : CallUnion(t, x, y)
           \/ Step(t) /\ ~Compress(t) /\ ~LinkByRank(t)
    PROVE  CallsOK(t)' /\ UNCHANGED <<parent, comp, clock, linkedAt>>
  <1> USE NullAssumption DEF CallsOK
  <1>0. CallsOK(t) /\ Typed /\ clock \in Nat
    BY DEF Safe, Typed, TypeOK
  <1>1. ASSUME NEW x \in UF, CallFind(t, x) PROVE CallsOK(t)'
    BY <1>0, <1>1 DEF CallFind, Enter, shared, Typed, TypeOK, WalkOK, AnswerOK,
                      UnionOK, Target, Merging
  <1>2. ASSUME NEW x \in UF, NEW y \in UF, CallUnion(t, x, y) PROVE CallsOK(t)'
    BY <1>0, <1>2 DEF CallUnion, Enter, shared, history, Typed, TypeOK, WalkOK,
                      AnswerOK, UnionOK, Target, Merging
  <1>3. ASSUME FoundRoot(t) PROVE CallsOK(t)'
    BY <1>0, <1>3 DEF FoundRoot, shared, history, Typed, TypeOK, WalkOK,
                AnswerOK, UnionOK, Target, Merging, Below, Before, IsRoot
  <1>4. ASSUME Recurse(t) PROVE CallsOK(t)'
    <2>1. /\ frames[t] \in Seq(UF) /\ node[t] \in UF /\ pc[t] = "walk"
          /\ ~IsRoot(node[t]) /\ node'[t] = parent[node[t]]
          /\ frames'[t] = Append(frames[t], node[t])
          /\ pc'[t] = pc[t] /\ UNCHANGED <<op, arg, peer, rep0>>
          /\ UNCHANGED <<shared, history>>
      BY <1>4 DEF Recurse, Safe, Typed, TypeOK, CallOK
    <2>2. comp[node[t]] = comp[Target(t)] /\ parent[node[t]] \in UF
      BY <2>1 DEF Safe, WalkOK, IsRoot, Typed, TypeOK
    <2>3. Below(node[t], parent[node[t]])
      BY <2>1, <2>2 DEF Safe, Forest, Below
    <2>4. ASSUME NEW i \in 1..Len(frames'[t])
          PROVE  Below(frames'[t][i], parent[node[t]])
      <3>1. CASE i \in 1..Len(frames[t])
        <4>1. Below(frames[t][i], node[t]) /\ frames[t][i] \in UF
          BY <2>1, <3>1 DEF Safe, WalkOK
        <4>2. Below(frames[t][i], parent[node[t]])
          BY <2>1, <4>1, BelowParent DEF Safe
        <4> QED BY <2>1, <3>1, <4>2, PushFacts
      <3>2. CASE i = Len(frames[t]) + 1
        BY <2>1, <2>3, <3>2, PushFacts
      <3> QED BY <2>1, <3>1, <3>2, PushFacts
    <2>5. comp[parent[node[t]]] = comp[Target(t)]
      BY <2>2, <2>3 DEF Below
    <2>6. WalkOK(t)'
      BY <2>1, <2>4, <2>5
         DEF WalkOK, Target, Below, Before, IsRoot, shared, history
    <2>7. AnswerOK(t)' /\ UnionOK(t)'
      BY <1>0, <2>1
         DEF AnswerOK, UnionOK, Merging, IsRoot, shared, history
    <2> QED BY <2>6, <2>7
  <1>5. ASSUME FindReturns(t) \/ SameSet(t) \/ MergeData(t) PROVE CallsOK(t)'
    <2>1. Leave(t) /\ parent' = parent
      BY <1>5 DEF FindReturns, SameSet, MergeData, shared
    <2> QED BY <1>0, <2>1 DEF Leave, Typed, TypeOK, WalkOK, AnswerOK, UnionOK,
                              Merging
  <1>6. ASSUME FirstFound(t) PROVE CallsOK(t)'
    <2>1. /\ op[t] = "uf0" /\ pc[t] = "unwind" /\ Target(t) = arg[t]
          /\ IsRoot(node[t]) /\ comp[node[t]] = comp[arg[t]]
      BY <1>6 DEF FirstFound, Answers, Safe, WalkOK, UnionOK, Merging, Target
    <2>2. /\ op'[t] = "uf1" /\ pc'[t] = "walk" /\ rep0'[t] = node[t]
          /\ node'[t] = peer[t] /\ frames'[t] = <<>>
          /\ UNCHANGED <<arg, peer, parent, history>>
      BY <1>6 DEF FirstFound, Enter, shared, Safe, Typed, TypeOK
    <2> QED BY <1>0, <2>1, <2>2
            DEF WalkOK, AnswerOK, UnionOK, Target, Merging, IsRoot, history
  <1>7. ASSUME SetRank(t) PROVE CallsOK(t)'
    <2>1. /\ pc[t] = "rank" /\ pc'[t] = "merge"
          /\ UNCHANGED <<parent, op, arg, peer, rep0, node, history>>
      BY <1>7 DEF SetRank, Safe, Typed, TypeOK
    <2> QED BY <1>0, <2>1 DEF WalkOK, AnswerOK, UnionOK, IsRoot, Merging,
                              history
  <1>8. ~ReturnParent(t)
    BY <1>0 DEF ReturnParent, Typed, ReloadOK
  <1>9. UNCHANGED <<parent, comp, clock, linkedAt>>
    BY <1>8 DEF Step, CallFind, CallUnion, FoundRoot, Recurse, FindReturns,
                FirstFound, SameSet, SetRank, MergeData, Leave, shared, history
  <1> QED
    BY <1>1, <1>2, <1>3, <1>4, <1>5, <1>6, <1>7, <1>8, <1>9 DEF Step

(* No two unions in progress ever come to share a set.                     *)
LEMMA ExclusiveNext ==
    ASSUME Safe, ~Reload, [Next]_vars
    PROVE  Exclusive'
  <1>1. ASSUME UNCHANGED comp,
               \A s \in Task : Merging(s)' => /\ Merging(s)
                                             /\ arg'[s] = arg[s]
                                             /\ peer'[s] = peer[s]
        PROVE  Exclusive'
    BY <1>1 DEF Safe, Exclusive, Owned
  <1>2. ASSUME NEW t \in Task, NEW x \in UF, NEW y \in UF, CallUnion(t, x, y)
        PROVE  Exclusive'
    <2>1. /\ UNCHANGED comp
          /\ arg'[t] = x /\ peer'[t] = y
          /\ \A s \in Task \ {t} : op'[s] = op[s] /\ arg'[s] = arg[s]
                                                 /\ peer'[s] = peer[s]
      BY <1>2 DEF CallUnion, history, Safe, Typed, TypeOK
    <2>2. \A s \in Task \ {t} :
             Merging(s) => Owned(s) \cap {comp[x], comp[y]} = {}
      BY <1>2 DEF CallUnion
    <2>3. ASSUME NEW r \in Task, NEW s \in Task, r # s,
                 Merging(r)', Merging(s)'
          PROVE  Owned(r)' \cap Owned(s)' = {}
      <3>1. CASE r = t
        BY <2>1, <2>2, <2>3, <3>1 DEF Owned, Merging
      <3>2. CASE s = t
        BY <2>1, <2>2, <2>3, <3>2 DEF Owned, Merging
      <3>3. CASE r # t /\ s # t
        BY <2>1, <2>3, <3>3 DEF Exclusive, Safe, Owned, Merging
      <3> QED BY <3>1, <3>2, <3>3
    <2> QED BY <2>3 DEF Exclusive
  <1>3. ASSUME NEW t \in Task, LinkByRank(t) PROVE Exclusive'
    <2>1. PICK winner \in UF, loser \in UF :
            /\ LinkBelow(t, winner, loser)
            /\ winner # loser
            /\ IsRoot(winner) /\ comp[winner] = winner
            /\ IsRoot(loser) /\ comp[loser] = loser
            /\ Owned(t) = {winner, loser}
            /\ \A o \in Task \ {t} :
                  Merging(o) => Owned(o) \cap {winner, loser} = {}
      BY <1>3, LinkFacts
    <2>2. /\ op' = op /\ arg' = arg /\ peer' = peer
          /\ \A u \in UF : comp'[u] = IF comp[u] = loser THEN winner
                                     ELSE comp[u]
      BY <2>1, LinkStable DEF LinkBelow
    <2>3. \A s \in Task : Merging(s) => arg[s] \in UF /\ peer[s] \in UF
      BY DEF Safe, Typed, CallOK, Merging
    <2>4. Merging(t) /\ Owned(t)' = {winner}
      <3>1. Merging(t)
        BY <1>3 DEF LinkByRank, BothFound, Merging
      <3> QED BY <2>1, <2>2, <2>3, <3>1 DEF Owned
    <2>5. ASSUME NEW s \in Task \ {t}, Merging(s) PROVE Owned(s)' = Owned(s)
      BY <2>1, <2>2, <2>3, <2>5 DEF Owned
    <2>6. \A s \in Task : Merging(s)' <=> Merging(s)
      BY <2>2 DEF Merging
    <2> QED BY <2>1, <2>4, <2>5, <2>6 DEF Exclusive, Safe
  <1> DEFINE Kept == /\ UNCHANGED comp
                     /\ \A s \in Task : Merging(s)' => /\ Merging(s)
                                                      /\ arg'[s] = arg[s]
                                                      /\ peer'[s] = peer[s]
  <1>4. ASSUME NEW t \in Task,
               \/ \E x \in UF : CallFind(t, x)
               \/ Step(t) /\ ~LinkByRank(t)
        PROVE  Kept
    <2> USE DEF Merging, Safe, Typed, TypeOK
    <2>1. ASSUME NEW x \in UF, CallFind(t, x) PROVE Kept
      BY <2>1 DEF CallFind
    <2>2. CASE FoundRoot(t) \/ Recurse(t) \/ ReturnParent(t) \/ Compress(t)
      BY <2>2 DEF FoundRoot, Recurse, ReturnParent, Compress, history
    <2>3. CASE FindReturns(t) \/ SameSet(t) \/ MergeData(t)
      BY <2>3 DEF FindReturns, SameSet, MergeData, Leave
    <2>4. CASE FirstFound(t) \/ SetRank(t)
      BY <2>4 DEF FirstFound, SetRank, history
    <2> HIDE DEF Kept, Merging, Safe, Typed, TypeOK
    <2> QED BY <1>4, <2>1, <2>2, <2>3, <2>4 DEF Step
  <1>5. CASE UNCHANGED vars
    BY <1>1, <1>5 DEF vars, local, history, Merging
  <1> QED BY <1>1, <1>2, <1>3, <1>4, <1>5 DEF Next

(* What each task contributed stays with its set.                          *)
Pending(t) == pc[t] \in {"rank", "merge"}

(* Every step keeps the leaves' states and arcs with one set each.         *)
LEMMA DataNext ==
    ASSUME Safe, ~Reload, [Next]_vars
    PROVE  DataConserved'
  <1>1. ASSUME UNCHANGED <<comp, data>>,
               \A t \in Task : Pending(t) => /\ Pending(t)'
                                            /\ rep0'[t] = rep0[t]
                                            /\ node'[t] = node[t]
        PROVE  DataConserved'
    BY <1>1 DEF Safe, DataConserved, Pending
  <1>2. ASSUME NEW t \in Task, LinkByRank(t) PROVE DataConserved'
    <2>1. PICK winner \in UF, loser \in UF :
            /\ LinkBelow(t, winner, loser)
            /\ pc' \in {[pc EXCEPT ![t] = "merge"], [pc EXCEPT ![t] = "rank"]}
            /\ winner # loser
            /\ IsRoot(winner) /\ comp[winner] = winner
            /\ IsRoot(loser) /\ comp[loser] = loser
            /\ Owned(t) = {winner, loser}
            /\ \A o \in Task \ {t} :
                  Merging(o) => Owned(o) \cap {winner, loser} = {}
      BY <1>2, LinkFacts
    <2>2. \A u \in UF : comp'[u] = IF comp[u] = loser THEN winner ELSE comp[u]
      BY <2>1, LinkStable
    <2>3. /\ data' = data
          /\ rep0'[t] = winner /\ node'[t] = loser /\ Pending(t)'
          /\ \A o \in Task \ {t} : /\ rep0'[o] = rep0[o] /\ node'[o] = node[o]
                                  /\ pc'[o] = pc[o]
      BY <2>1 DEF LinkBelow, Pending, Safe, Typed, TypeOK
    <2>4. ~Pending(t)
      BY <1>2 DEF LinkByRank, BothFound, Answers, Pending
    <2>5. ASSUME NEW u \in UF
          PROVE  \/ u \in data'[comp'[u]]
                 \/ \E o \in Task : /\ Pending(o)'
                                    /\ comp'[rep0'[o]] = comp'[u]
                                    /\ u \in data'[node'[o]]
      <3>1. CASE u \in data[comp[u]]
        BY <2>1, <2>2, <2>3, <3>1
      <3>2. CASE u \notin data[comp[u]]
        <4>1. PICK o \in Task : /\ Pending(o) /\ comp[rep0[o]] = comp[u]
                                /\ u \in data[node[o]]
          BY <3>2 DEF Safe, DataConserved, Pending
        <4>2. /\ o # t /\ Merging(o) /\ comp[arg[o]] = rep0[o]
              /\ rep0[o] \in UF /\ comp[rep0[o]] = rep0[o]
          <5>1. /\ o # t /\ Merging(o) /\ comp[arg[o]] = rep0[o]
                /\ rep0[o] \in UF /\ IsRoot(rep0[o])
            BY <2>4, <4>1 DEF Safe, UnionOK, Pending, Typed, CallOK, Merging
          <5> QED BY <5>1, RootRepresents DEF Safe
        <4>3. comp[u] # loser
          BY <2>1, <4>1, <4>2 DEF Owned
        <4>4. comp'[u] = comp[u] /\ comp'[rep0[o]] = comp[u]
          BY <2>2, <4>1, <4>2, <4>3
        <4>5. rep0'[o] = rep0[o] /\ node'[o] = node[o] /\ pc'[o] = pc[o]
          BY <2>3, <4>2
        <4> QED BY <2>3, <4>1, <4>4, <4>5 DEF Pending
      <3> QED BY <3>1, <3>2
    <2>6. ASSUME NEW u \in UF, NEW d \in data'[u] PROVE comp'[d] = comp'[u]
      <3>1. d \in UF /\ comp[d] = comp[u]
        BY <2>3, <2>6 DEF Safe, DataConserved, Typed, TypeOK
      <3> QED BY <2>2, <3>1
    <2> QED BY <2>5, <2>6 DEF DataConserved, Pending
  <1>3. ASSUME NEW t \in Task, MergeData(t) PROVE DataConserved'
    <2>1. /\ pc[t] = "merge" /\ rep0[t] \in UF /\ node[t] \in UF
          /\ comp[node[t]] = rep0[t] /\ comp[rep0[t]] = rep0[t]
          /\ data' = [data EXCEPT ![rep0[t]] = @ \cup data[node[t]]]
          /\ comp' = comp
          /\ \A o \in Task \ {t} : /\ rep0'[o] = rep0[o] /\ node'[o] = node[o]
                                  /\ pc'[o] = pc[o]
      <3>1. pc[t] = "merge" /\ rep0[t] \in UF /\ node[t] \in UF
        BY <1>3 DEF MergeData, Safe, Typed, CallOK
      <3>2. comp[node[t]] = rep0[t] /\ comp[rep0[t]] = rep0[t]
        BY <3>1, RootRepresents DEF Safe, UnionOK
      <3> QED BY <1>3, <3>1, <3>2 DEF MergeData, Leave, Safe, Typed, TypeOK
    <2>2. \A u \in UF : data'[u] = IF u = rep0[t] THEN data[u] \cup data[node[t]]
                                   ELSE data[u]
      BY <2>1 DEF Safe, Typed, TypeOK
    <2>3. ASSUME NEW u \in UF
          PROVE  \/ u \in data'[comp[u]]
                 \/ \E o \in Task : /\ Pending(o)'
                                    /\ comp[rep0'[o]] = comp[u]
                                    /\ u \in data'[node'[o]]
      <3>0. comp[u] \in UF
        BY DEF Safe, Typed, TypeOK
      <3>1. CASE u \in data[comp[u]]
        BY <2>2, <3>0, <3>1
      <3>2. CASE u \notin data[comp[u]]
        <4>1. PICK o \in Task : /\ Pending(o) /\ comp[rep0[o]] = comp[u]
                                /\ u \in data[node[o]]
          BY <3>2 DEF Safe, DataConserved, Pending
        <4>2. CASE o = t
          BY <2>1, <2>2, <3>0, <4>1, <4>2
        <4>3. CASE o # t
          <5>1. node[o] \in UF
            BY <4>1 DEF Pending, Safe, Typed, CallOK
          <5> QED BY <2>1, <2>2, <4>1, <4>3, <5>1 DEF Pending
        <4> QED BY <4>2, <4>3
      <3> QED BY <3>1, <3>2
    <2>4. ASSUME NEW u \in UF, NEW d \in data'[u] PROVE comp[d] = comp[u]
      BY <2>1, <2>2, <2>4 DEF Safe, DataConserved
    <2> QED BY <2>1, <2>3, <2>4 DEF DataConserved, Pending
  <1> DEFINE Kept == /\ UNCHANGED <<comp, data>>
                     /\ \A s \in Task : Pending(s) => /\ Pending(s)'
                                                     /\ rep0'[s] = rep0[s]
                                                     /\ node'[s] = node[s]
  <1>4. ASSUME NEW t \in Task,
               \/ \E x \in UF : CallFind(t, x)
               \/ \E x, y \in UF : CallUnion(t, x, y)
               \/ Step(t) /\ ~LinkByRank(t) /\ ~MergeData(t)
        PROVE  Kept
    <2> USE DEF Pending, Safe, Typed, TypeOK
    <2>1. ASSUME NEW x \in UF, CallFind(t, x) PROVE Kept
      BY <2>1 DEF CallFind, Enter, shared
    <2>2. ASSUME NEW x \in UF, NEW y \in UF, CallUnion(t, x, y) PROVE Kept
      BY <2>2 DEF CallUnion, Enter, shared, history
    <2>3. CASE FoundRoot(t) \/ Recurse(t) \/ ReturnParent(t)
      BY <2>3 DEF FoundRoot, Recurse, ReturnParent, shared, history
    <2>4. CASE Compress(t)
      BY <2>4, CompressFacts DEF history
    <2>5. CASE FindReturns(t) \/ SameSet(t)
      BY <2>5 DEF FindReturns, SameSet, BothFound, Answers, Leave, shared
    <2>6. CASE FirstFound(t) \/ SetRank(t)
      BY <2>6 DEF FirstFound, Answers, Enter, SetRank, shared, history
    <2> HIDE DEF Kept, Pending, Safe, Typed, TypeOK
    <2> QED BY <1>4, <2>1, <2>2, <2>3, <2>4, <2>5, <2>6 DEF Step
  <1>5. CASE UNCHANGED vars
    BY <1>1, <1>5 DEF vars, shared, local, history, Pending
  <1> QED BY <1>1, <1>2, <1>3, <1>4, <1>5 DEF Next

(* Every step keeps the invariant.                                         *)
LEMMA SafeNext ==
    ASSUME Safe, ~Reload, [Next]_vars
    PROVE  Safe'
  <1>1. Typed' /\ Forest' /\ Exclusive' /\ DataConserved'
    BY TypedNext, ForestNext, ExclusiveNext, DataNext DEF Safe
  <1>2. ASSUME NEW s \in Task PROVE CallsOK(s)'
    <2>1. CallsOK(s) /\ Typed
      BY DEF Safe, CallsOK
    <2>2. CASE UNCHANGED vars
      <3>1. Same(s) /\ UNCHANGED <<parent, comp, clock, linkedAt>>
        BY <2>2 DEF vars, shared, local, history, Same
      <3> QED BY <2>1, <3>1, SameForest
    <2>3. ASSUME NEW t \in Task,
                 \/ \E x \in UF : CallFind(t, x)
                 \/ \E x, y \in UF : CallUnion(t, x, y)
                 \/ Step(t) /\ ~Compress(t) /\ ~LinkByRank(t)
          PROVE  CallsOK(s)'
      <3>1. CallsOK(t)' /\ UNCHANGED <<parent, comp, clock, linkedAt>>
        BY <2>3, CallsActing
      <3>2. s # t => Same(s)
        BY <2>1, <2>3, OthersSame
      <3> QED BY <2>1, <3>1, <3>2, SameForest
    <2>4. ASSUME NEW t \in Task, Compress(t) \/ LinkByRank(t)
          PROVE  CallsOK(s)'
      BY <2>4, CallsCompress, CallsLink
    <2> QED BY <2>2, <2>3, <2>4 DEF Next
  <1> QED BY <1>1, <1>2 DEF Safe, CallsOK

(* Of a build whose find returns what it wrote: the pointers are always a  *)
(* forest whose trees are the sets that were united, although compressions *)
(* of several tasks overwrite each other.                                  *)
THEOREM ForestCorrect == ASSUME ~Reload PROVE Spec => []Forest
  <1>1. Safe => Forest
    BY DEF Safe
  <1>2. Safe /\ [Next]_vars => Safe'
    BY SafeNext
  <1> QED BY SafeInit, <1>1, <1>2, PTL DEF Spec

(* Of the same build: every find answers with an element that represented  *)
(* its argument at some instant of the call.                               *)
THEOREM FindCorrect == ASSUME ~Reload PROVE Spec => []FindIsCurrent
  <1>1. Safe => FindIsCurrent
    <2> SUFFICES ASSUME Safe, NEW t \in Task, Answers(t), op[t] = "find"
                 PROVE  /\ comp[node[t]] = comp[arg[t]]
                        /\ IsRoot(node[t]) \/ linkedAt[node[t]] > calledAt[t]
      BY DEF FindIsCurrent
    <2> QED BY DEF Answers, Safe, WalkOK, AnswerOK, Target
  <1>2. Safe /\ [Next]_vars => Safe'
    BY SafeNext
  <1> QED BY SafeInit, <1>1, <1>2, PTL DEF Spec

(* Of the same build: makeUnion only ever links roots.                     *)
THEOREM UnionCorrect == ASSUME ~Reload PROVE Spec => []LinksRoots
  <1>1. Safe => LinksRoots
    <2> SUFFICES ASSUME Safe, NEW t \in Task
                 PROVE  /\ Merging(t) /\ op[t] = "uf1" /\ pc[t] \in {"walk", "unwind"}
                              => IsRoot(rep0[t]) /\ comp[rep0[t]] = comp[arg[t]]
                        /\ BothFound(t) => IsRoot(node[t]) /\ comp[node[t]] = comp[peer[t]]
      BY DEF LinksRoots
    <2> QED BY DEF BothFound, Answers, Safe, WalkOK, UnionOK, Target, Merging
  <1>2. Safe /\ [Next]_vars => Safe'
    BY SafeNext
  <1> QED BY SafeInit, <1>1, <1>2, PTL DEF Spec

(* Of the same build: no state or arc that a leaf contributed is lost, and *)
(* none reaches another set.                                               *)
THEOREM DataCorrect == ASSUME ~Reload PROVE Spec => []DataConserved
  <1>1. Safe => DataConserved
    BY DEF Safe
  <1>2. Safe /\ [Next]_vars => Safe'
    BY SafeNext
  <1> QED BY SafeInit, <1>1, <1>2, PTL DEF Spec

-------------------------------------------------------------------------------
(***************************************************************************)
(* Refinement: the sets are comp, a find takes effect when it reads the    *)
(* null parent_ of a root, a union when it sets a parent.                  *)
(***************************************************************************)
(* The initial forest is the initial partition.                            *)
LEMMA RefinesInit == Init => Sets!UInit
  BY DEF Init, Sets!UInit, Asked, Answer, Resolved

(* A step that keeps the sets and what each find has asked and got.        *)
LEMMA RefinesNext ==
    ASSUME Safe, ~Reload, [Next]_vars
    PROVE  [Sets!UNext]_(Sets!uvars)
  <1> USE NullAssumption
  <1>1. ASSUME NEW t \in Task, NEW x \in UF, CallFind(t, x)
        PROVE  Sets!Ask(t, x)
    <2>1. /\ comp' = comp
          /\ op' = [op EXCEPT ![t] = "find"] /\ arg' = [arg EXCEPT ![t] = x]
          /\ pc' = [pc EXCEPT ![t] = "walk"] /\ node' = [node EXCEPT ![t] = x]
      BY <1>1 DEF CallFind, Enter
    <2>2. Asked' = [Asked EXCEPT ![t] = x]
      BY <2>1 DEF Asked, Safe, Typed, TypeOK
    <2>3. Answer' = [Answer EXCEPT ![t] = Null]
      BY <2>1 DEF Answer, Resolved, Safe, Typed, TypeOK
    <2> QED BY <2>1, <2>2, <2>3 DEF Sets!Ask
  <1>2. ASSUME NEW t \in Task, NEW x \in UF, NEW y \in UF, CallUnion(t, x, y)
        PROVE  Sets!Ask(t, Null)
    <2>1. /\ comp' = comp
          /\ op' = [op EXCEPT ![t] = "uf0"] /\ arg' = [arg EXCEPT ![t] = x]
          /\ pc' = [pc EXCEPT ![t] = "walk"] /\ node' = [node EXCEPT ![t] = x]
      BY <1>2 DEF CallUnion, Enter, history
    <2>2. Asked' = [Asked EXCEPT ![t] = Null]
      BY <2>1 DEF Asked, Safe, Typed, TypeOK
    <2>3. Answer' = [Answer EXCEPT ![t] = Null]
      BY <2>1 DEF Answer, Resolved, Safe, Typed, TypeOK
    <2> QED BY <2>1, <2>2, <2>3 DEF Sets!Ask
  <1>3. ASSUME NEW t \in Task, FindReturns(t) PROVE Sets!Ask(t, Null)
    <2>1. /\ comp' = comp
          /\ op' = [op EXCEPT ![t] = "none"] /\ arg' = [arg EXCEPT ![t] = Null]
          /\ pc' = [pc EXCEPT ![t] = "idle"]
          /\ node' = [node EXCEPT ![t] = Null]
      BY <1>3 DEF FindReturns, Leave
    <2>2. Asked' = [Asked EXCEPT ![t] = Null]
      BY <2>1 DEF Asked, Safe, Typed, TypeOK
    <2>3. Answer' = [Answer EXCEPT ![t] = Null]
      BY <2>1 DEF Answer, Resolved, Safe, Typed, TypeOK
    <2> QED BY <2>1, <2>2, <2>3 DEF Sets!Ask
  <1>4. ASSUME NEW t \in Task, FoundRoot(t), op[t] = "find"
        PROVE  Sets!Resolve(t)
    <2>1. /\ pc[t] = "walk" /\ IsRoot(node[t])
          /\ pc' = [pc EXCEPT ![t] = "unwind"]
          /\ UNCHANGED <<op, arg, node, comp>>
      BY <1>4 DEF FoundRoot, history
    <2>2. arg[t] \in UF /\ node[t] \in UF /\ comp[node[t]] = comp[arg[t]]
      BY <1>4, <2>1 DEF Safe, Typed, CallOK, WalkOK, Target
    <2>3. node[t] = comp[arg[t]]
      BY <2>1, <2>2, RootRepresents DEF Safe
    <2>4. Asked' = Asked /\ Asked[t] = arg[t] /\ Answer[t] = Null
      BY <1>4, <2>1 DEF Asked, Answer, Resolved
    <2>5. Answer' = [Answer EXCEPT ![t] = comp[arg[t]]]
      BY <1>4, <2>1, <2>3 DEF Answer, Resolved, Safe, Typed, TypeOK
    <2> QED BY <2>1, <2>2, <2>4, <2>5 DEF Sets!Resolve
  <1>5. ASSUME NEW t \in Task, LinkByRank(t)
        PROVE  \E r, s \in UF : Sets!Unite(r, s)
    <2>1. PICK winner \in UF, loser \in UF :
            /\ LinkBelow(t, winner, loser)
            /\ pc' \in {[pc EXCEPT ![t] = "merge"], [pc EXCEPT ![t] = "rank"]}
            /\ winner # loser
            /\ comp[winner] = winner /\ comp[loser] = loser
      BY <1>5, LinkFacts
    <2>2. op[t] = "uf1" /\ UNCHANGED <<op, arg>>
      BY <1>5, <2>1 DEF LinkByRank, BothFound, LinkBelow
    <2>3. Asked' = Asked
      BY <2>2 DEF Asked
    <2>4. ASSUME NEW s \in Task, op[s] = "find"
          PROVE  pc'[s] = pc[s] /\ node'[s] = node[s]
      BY <2>1, <2>2, <2>4 DEF LinkBelow, Safe, Typed, TypeOK
    <2>5. Answer' = Answer
      BY <2>2, <2>4 DEF Answer, Resolved
    <2>6. comp' = [u \in UF |-> IF comp[u] = loser THEN winner ELSE comp[u]]
      BY <2>1 DEF LinkBelow
    <2> QED BY <2>1, <2>3, <2>5, <2>6 DEF Sets!Unite
  <1>6. ASSUME NEW t \in Task,
               \/ FoundRoot(t) /\ op[t] # "find"
               \/ Recurse(t) \/ Compress(t)
               \/ FirstFound(t) \/ SameSet(t) \/ SetRank(t) \/ MergeData(t)
        PROVE  UNCHANGED <<comp, Asked, Answer>>
    <2>1. ASSUME UNCHANGED comp,
                 \A s \in Task : op[s] = "find" <=> op'[s] = "find",
                 \A s \in Task : op[s] = "find" => arg'[s] = arg[s],
                 \A s \in Task : Resolved(s) <=> Resolved(s)',
                 \A s \in Task : Resolved(s) => node'[s] = node[s]
          PROVE  UNCHANGED <<comp, Asked, Answer>>
      BY <2>1 DEF Asked, Answer
    <2> USE DEF Resolved, Safe, Typed, TypeOK, CallOK
    <2>2. CASE (FoundRoot(t) /\ op[t] # "find") \/ Recurse(t)
      BY <2>1, <2>2 DEF FoundRoot, Recurse, history
    <2>3. CASE Compress(t)
      BY <2>1, <2>3, CompressFacts DEF history
    <2>4. CASE FirstFound(t) \/ SetRank(t)
      BY <2>1, <2>4 DEF FirstFound, Enter, SetRank, history
    <2>5. CASE SameSet(t) \/ MergeData(t)
      BY <2>1, <2>5 DEF SameSet, MergeData, BothFound, Leave
    <2> QED BY <1>6, <2>2, <2>3, <2>4, <2>5
  <1>7. ASSUME NEW t \in Task PROVE ~ReturnParent(t)
    BY DEF ReturnParent, Safe, Typed, ReloadOK
  <1>8. CASE UNCHANGED vars
    BY <1>8 DEF vars, local, history, Sets!uvars, Asked, Answer, Resolved
  <1>9. ASSUME NEW t \in Task, NEW x \in UF \cup {Null}, Sets!Ask(t, x)
        PROVE  Sets!UNext
    BY <1>9 DEF Sets!UNext
  <1> QED
    BY <1>1, <1>2, <1>3, <1>4, <1>5, <1>6, <1>7, <1>8, <1>9
       DEF Next, Step, Sets!UNext, Sets!uvars

(* Of the same build: the lock-free forest implements union-find with      *)
(* finds that take effect at one instant.                                  *)
THEOREM Refinement == ASSUME ~Reload PROVE Spec => ImplementsUnionFind
  <1>1. Safe /\ [Next]_vars => Safe'
    BY SafeNext
  <1>2. Safe /\ [Next]_vars => [Sets!UNext]_(Sets!uvars)
    BY RefinesNext
  <1> QED
    BY SafeInit, RefinesInit, <1>1, <1>2, PTL
       DEF Spec, ImplementsUnionFind, Sets!USpec

-------------------------------------------------------------------------------
(***************************************************************************)
(* Union by rank.  Between a link of equal ranks and setRank() the rank of *)
(* the winner is one behind the tree it heads, and other tasks may walk    *)
(* into that tree already; Eff is the rank the element is about to have.   *)
(***************************************************************************)
RankDue(u) == \E t \in Task : pc[t] = "rank" /\ rep0[t] = u

Eff == [u \in UF |-> IF RankDue(u) THEN rank[u] + 1 ELSE rank[u]]

Members(u) == {x \in UF : comp[x] = u}

(* Ranks grow along the pointers, whichever of them compressions write.    *)
Heaped == \A u \in UF : ~IsRoot(u) => Eff[u] < Eff[parent[u]]

(* A tree of rank r has at least 2^r elements, and an element that is no   *)
(* longer a root keeps the rank it had as one.                             *)
Weighed == \A u \in UF : /\ IsRoot(u) => 2^Eff[u] <= Cardinality(Members(u))
                         /\ 2^Eff[u] <= Cardinality(UF)

(* A walk is no deeper than the rank it has come to.                       *)
DepthOK(t) ==
    pc[t] \in {"walk", "unwind"} =>
        /\ Len(frames[t]) <= Eff[node[t]]
        /\ \A i \in 1..Len(frames[t]) : Eff[frames[t][i]] < Eff[node[t]]

Ranked == Heaped /\ Weighed /\ \A t \in Task : DepthOK(t)

(* The powers of two, counted as subsets.                                  *)
LEMMA PowerType == ASSUME NEW n \in Nat
                   PROVE  /\ IsFiniteSet(SUBSET (1..n))
                          /\ Cardinality(SUBSET (1..n)) = 2^n
                          /\ 2^n \in Nat
  <1>1. IsFiniteSet(1..n) /\ Cardinality(1..n) = n
    BY FS_Interval
  <1> QED BY <1>1, FS_SUBSET, FS_CardinalityType

(* The next power of two: the subsets with n + 1 are as many as those      *)
(* without.                                                                *)
LEMMA PowerStep == ASSUME NEW n \in Nat
                   PROVE  2^(n + 1) = 2^n + 2^n
  <1> DEFINE A == SUBSET (1..n)
             B == SUBSET (1..(n + 1))
             C == B \ A
             f == [s \in A |-> s \cup {n + 1}]
  <1>1. /\ IsFiniteSet(A) /\ Cardinality(A) = 2^n /\ 2^n \in Nat
        /\ IsFiniteSet(B) /\ Cardinality(B) = 2^(n + 1) /\ 2^(n + 1) \in Nat
    BY PowerType, n + 1 \in Nat
  <1>2. A \subseteq B
    <2>1. 1..n \subseteq 1..(n + 1)
      OBVIOUS
    <2> QED BY <2>1
  <1>3. n + 1 \in 1..(n + 1) /\ n + 1 \notin 1..n
    OBVIOUS
  <1>4. 1..(n + 1) = 1..n \cup {n + 1}
    OBVIOUS
  <1>5. f \in Bijection(A, C)
    <2>1. ASSUME NEW s \in A PROVE f[s] \in C
      BY <1>3, <1>4
    <2>2. ASSUME NEW s \in A, NEW r \in A, f[s] = f[r] PROVE s = r
      BY <1>3, <2>2
    <2>3. ASSUME NEW c \in C PROVE \E s \in A : f[s] = c
      <3>1. n + 1 \in c
        BY <1>4
      <3>2. c \ {n + 1} \in A
        BY <1>4
      <3>3. f[c \ {n + 1}] = c
        BY <3>1, <3>2
      <3> QED BY <3>2, <3>3
    <2>4. f \in [A -> C]
      BY <2>1
    <2> HIDE DEF f
    <2>5. f \in Injection(A, C)
      BY <2>2, <2>4 DEF Injection, IsInjective
    <2>6. f \in Surjection(A, C)
      BY <2>3, <2>4 DEF Surjection
    <2> QED BY <2>5, <2>6 DEF Bijection
  <1>6. IsFiniteSet(C) /\ Cardinality(C) = 2^n
    BY <1>1, <1>5, FS_Bijection DEF ExistsBijection
  <1>7. A \cap C = {} /\ A \cup C = B
    BY <1>2
  <1>8. Cardinality(B) = 2^n + 2^n - Cardinality({})
    BY <1>1, <1>6, <1>7, FS_Union
  <1> HIDE DEF A, B, C
  <1> QED BY <1>1, <1>8, FS_EmptySet

(* Powers of two grow with their exponents.                                *)
LEMMA PowerMonotone == ASSUME NEW n \in Nat, NEW m \in Nat, m <= n
                       PROVE  2^m <= 2^n
  <1>1. /\ IsFiniteSet(SUBSET (1..n))
        /\ Cardinality(SUBSET (1..n)) = 2^n
        /\ Cardinality(SUBSET (1..m)) = 2^m
    BY PowerType
  <1>2. 1..m \subseteq 1..n
    OBVIOUS
  <1>3. SUBSET (1..m) \in SUBSET (SUBSET (1..n))
    BY <1>2
  <1>4. Cardinality(SUBSET (1..m)) <= Cardinality(SUBSET (1..n))
    BY <1>1, <1>3, FS_Subset
  <1> QED BY <1>1, <1>4
(* Effective ranks are natural numbers.                                    *)
LEMMA EffType == Typed => Eff \in [UF -> Nat]
  BY DEF Typed, TypeOK, Eff

(* At the start every element is a tree of its own.                        *)
LEMMA RankedInit ==
    ASSUME Init, IsFiniteSet(UF)
    PROVE  Ranked
  <1>1. Eff = [u \in UF |-> 0]
    BY DEF Init, Eff, RankDue
  <1>2. Heaped
    BY DEF Init, Heaped, IsRoot
  <1>3. ASSUME NEW u \in UF
        PROVE  2^Eff[u] <= Cardinality(Members(u)) /\ 2^Eff[u] <= Cardinality(UF)
    <2>1. Members(u) = {u}
      BY DEF Init, Members
    <2>2. Cardinality(Members(u)) = 1
      BY <2>1, FS_Singleton
    <2>3. {u} \in SUBSET UF
      OBVIOUS
    <2>4. Cardinality({u}) <= Cardinality(UF)
      BY <2>3, FS_Subset
    <2>5. 2^Eff[u] = 1
      BY <1>1
    <2> QED BY <2>1, <2>2, <2>4, <2>5
  <1>4. \A t \in Task : DepthOK(t)
    BY DEF Init, DepthOK
  <1> QED BY <1>2, <1>3, <1>4 DEF Ranked, Weighed

(* Only a link changes an effective rank: setRank() makes good what the    *)
(* link has left due, and no other task has one due on the same root.      *)
LEMMA EffKept ==
    ASSUME Safe, [Next]_vars, \A t \in Task : ~LinkByRank(t)
    PROVE  Eff' = Eff
  <1> DEFINE Due(s) == pc[s] = "rank"
  <1>1. ASSUME rank' = rank,
               \A s \in Task : Due(s)' <=> Due(s),
               \A s \in Task : Due(s) => rep0'[s] = rep0[s]
        PROVE  Eff' = Eff
    <2>1. \A u \in UF : RankDue(u)' <=> RankDue(u)
      BY <1>1 DEF RankDue
    <2> QED BY <1>1, <2>1 DEF Eff
  <1>2. ASSUME NEW t \in Task, SetRank(t) PROVE Eff' = Eff
    <2>1. /\ pc[t] = "rank" /\ rep0[t] \in UF /\ rep0' = rep0
          /\ pc' = [pc EXCEPT ![t] = "merge"]
          /\ rank' = [rank EXCEPT ![rep0[t]] = rank[rep0[t]] + 1]
      BY <1>2 DEF SetRank, Safe, Typed, CallOK
    <2>2. ASSUME NEW s \in Task, Due(s)
          PROVE  Merging(s) /\ rep0[s] \in Owned(s)
      BY <2>2 DEF Merging, Owned, Safe, Typed, CallOK, UnionOK
    <2>3. ASSUME NEW s \in Task \ {t}, Due(s) PROVE rep0[s] # rep0[t]
      BY <2>1, <2>2, <2>3 DEF Safe, Exclusive
    <2>4. ASSUME NEW u \in UF, u # rep0[t]
          PROVE  rank'[u] = rank[u] /\ (RankDue(u)' <=> RankDue(u))
      <3>1. rank'[u] = rank[u]
        BY <2>1, <2>4 DEF Safe, Typed, TypeOK
      <3>2. \A s \in Task : (pc'[s] = "rank" /\ rep0'[s] = u)
                              <=> (pc[s] = "rank" /\ rep0[s] = u)
        BY <2>1, <2>4 DEF Safe, Typed, TypeOK
      <3> QED BY <3>1, <3>2 DEF RankDue
    <2>5. /\ rank'[rep0[t]] = rank[rep0[t]] + 1
          /\ RankDue(rep0[t])
          /\ ~\E s \in Task : pc'[s] = "rank" /\ rep0'[s] = rep0[t]
      BY <2>1, <2>3 DEF RankDue, Safe, Typed, TypeOK
    <2>6. ASSUME NEW u \in UF
          PROVE  (IF RankDue(u)' THEN rank'[u] + 1 ELSE rank'[u])
                   = (IF RankDue(u) THEN rank[u] + 1 ELSE rank[u])
      <3>1. CASE u = rep0[t]
        <4>1. ~RankDue(u)'
          BY <2>5, <3>1 DEF RankDue
        <4> QED BY <2>5, <3>1, <4>1
      <3>2. CASE u # rep0[t]
        BY <2>4, <3>2
      <3> QED BY <3>1, <3>2
    <2> QED BY <2>6 DEF Eff
  <1> DEFINE Kept == /\ rank' = rank
                     /\ \A s \in Task : Due(s)' <=> Due(s)
                     /\ \A s \in Task : Due(s) => rep0'[s] = rep0[s]
  <1>3. ASSUME NEW t \in Task,
               \/ \E x \in UF : CallFind(t, x)
               \/ \E x, y \in UF : CallUnion(t, x, y)
               \/ Step(t) /\ ~LinkByRank(t) /\ ~SetRank(t)
        PROVE  Kept
    <2> USE DEF Safe, Typed, TypeOK
    <2>1. ASSUME NEW x \in UF, CallFind(t, x) PROVE Kept
      BY <2>1 DEF CallFind, Enter, shared
    <2>2. ASSUME NEW x \in UF, NEW y \in UF, CallUnion(t, x, y) PROVE Kept
      BY <2>2 DEF CallUnion, Enter, shared
    <2>3. CASE FoundRoot(t) \/ Recurse(t) \/ ReturnParent(t)
      BY <2>3 DEF FoundRoot, Recurse, ReturnParent, shared
    <2>4. CASE Compress(t)
      BY <2>4 DEF Compress
    <2>5. CASE FindReturns(t) \/ SameSet(t) \/ MergeData(t)
      BY <2>5 DEF FindReturns, SameSet, MergeData, BothFound, Answers, Leave,
                  shared
    <2>6. CASE FirstFound(t)
      BY <2>6 DEF FirstFound, Answers, Enter, shared
    <2> HIDE DEF Kept, Safe, Typed, TypeOK
    <2> QED BY <1>3, <2>1, <2>2, <2>3, <2>4, <2>5, <2>6 DEF Step
  <1>4. CASE UNCHANGED vars
    BY <1>1, <1>4 DEF vars, shared, local
  <1>5. ASSUME Kept PROVE Eff' = Eff
    BY <1>1, <1>5
  <1> HIDE DEF Kept, Due
  <1> QED BY <1>2, <1>3, <1>4, <1>5 DEF Next

(* A link raises the effective rank of the winner on a tie only, and hangs *)
(* a loser of less effective rank below it.                                *)
LEMMA EffLink ==
    ASSUME Safe, NEW t \in Task, LinkByRank(t)
    PROVE  \E winner \in UF, loser \in UF :
              /\ LinkBelow(t, winner, loser)
              /\ winner # loser
              /\ IsRoot(winner) /\ comp[winner] = winner
              /\ IsRoot(loser) /\ comp[loser] = loser
              /\ pc'[t] \notin {"walk", "unwind"}
              /\ \A s \in Task \ {t} : pc'[s] = pc[s] /\ node'[s] = node[s]
              /\ \A u \in UF \ {winner} : Eff'[u] = Eff[u]
              /\ \/ /\ Eff'[winner] = Eff[winner]
                    /\ Eff[loser] < Eff[winner]
                 \/ /\ Eff'[winner] = Eff[winner] + 1
                    /\ Eff[loser] = Eff[winner]
  <1>1. PICK winner \in UF, loser \in UF :
              /\ LinkBelow(t, winner, loser)
              /\ {winner, loser} = {rep0[t], node[t]}
              /\ pc' \in {[pc EXCEPT ![t] = "merge"], [pc EXCEPT ![t] = "rank"]}
              /\ winner # loser
              /\ IsRoot(winner) /\ comp[winner] = winner
              /\ IsRoot(loser) /\ comp[loser] = loser
              /\ \A s \in Task \ {t} :
                    Merging(s) => Owned(s) \cap {winner, loser} = {}
    BY LinkFacts
  <1>2. /\ pc[t] = "unwind" /\ rank' = rank /\ rep0'[t] = winner
        /\ \A s \in Task \ {t} : /\ pc'[s] = pc[s] /\ rep0'[s] = rep0[s]
                                 /\ node'[s] = node[s]
    BY <1>1 DEF LinkByRank, BothFound, Answers, LinkBelow, Safe, Typed, TypeOK
  <1>3. ASSUME NEW s \in Task, pc[s] = "rank"
        PROVE  rep0[s] \notin {winner, loser}
    <2>1. s # t
      BY <1>2, <1>3
    <2>2. Merging(s) /\ rep0[s] \in Owned(s)
      BY <1>3 DEF Merging, Owned, Safe, Typed, CallOK, UnionOK
    <2> QED BY <1>1, <2>1, <2>2
  <1>4. ~RankDue(winner) /\ ~RankDue(loser)
    BY <1>3 DEF RankDue
  <1>5. ASSUME NEW u \in UF \ {winner} PROVE Eff'[u] = Eff[u]
    <2>1. \A s \in Task : (pc'[s] = "rank" /\ rep0'[s] = u)
                            <=> (pc[s] = "rank" /\ rep0[s] = u)
      BY <1>2
    <2>2. RankDue(u)' <=> RankDue(u)
      BY <2>1 DEF RankDue
    <2> QED BY <1>2, <2>2 DEF Eff
  <1>6. Eff[winner] = rank[winner] /\ Eff[loser] = rank[loser]
    BY <1>4 DEF Eff
  <1>7. \/ /\ rank[winner] > rank[loser] /\ pc'[t] = "merge"
        \/ /\ rank[winner] = rank[loser] /\ pc'[t] = "rank"
    <2>1. pc \in [Task -> {"idle", "walk", "unwind", "reload", "rank", "merge"}]
      BY DEF Safe, Typed, TypeOK
    <2>2. CASE winner = rep0[t] /\ loser = node[t]
      <3>1. rep0'[t] = rep0[t] /\ rep0[t] # node[t]
        BY <1>1, <1>2, <2>2
      <3>2. ~LinkBelow(t, node[t], rep0[t])
        <4>1. ASSUME LinkBelow(t, node[t], rep0[t]) PROVE rep0'[t] = node[t]
          BY <4>1 DEF LinkBelow, Safe, Typed, TypeOK
        <4> QED BY <3>1, <4>1
      <3> QED BY <2>1, <2>2, <3>2 DEF LinkByRank
    <2>3. CASE winner = node[t] /\ loser = rep0[t]
      <3>1. rep0'[t] = node[t] /\ rep0[t] # node[t]
        BY <1>1, <1>2, <2>3
      <3>2. ~LinkBelow(t, rep0[t], node[t])
        <4>1. ASSUME LinkBelow(t, rep0[t], node[t]) PROVE rep0'[t] = rep0[t]
          BY <4>1 DEF LinkBelow, Safe, Typed, TypeOK
        <4> QED BY <3>1, <4>1
      <3>3. rank[rep0[t]] < rank[node[t]] /\ pc'[t] = "merge"
        BY <2>1, <3>2 DEF LinkByRank
      <3>4. rank[rep0[t]] \in Nat /\ rank[node[t]] \in Nat
        BY <2>3 DEF Safe, Typed, TypeOK
      <3> QED BY <2>3, <3>3, <3>4
    <2> QED BY <1>1, <2>2, <2>3
  <1>8. RankDue(winner)' <=> pc'[t] = "rank"
    <2>1. (\E s \in Task : pc'[s] = "rank" /\ rep0'[s] = winner)
             <=> pc'[t] = "rank"
      BY <1>2, <1>3
    <2> QED BY <2>1 DEF RankDue
  <1>9. Eff'[winner] = IF pc'[t] = "rank" THEN rank[winner] + 1
                       ELSE rank[winner]
    BY <1>2, <1>8 DEF Eff
  <1>10. rank[winner] \in Nat /\ rank[loser] \in Nat
    BY DEF Safe, Typed, TypeOK
  <1>11. \/ Eff'[winner] = Eff[winner] /\ Eff[loser] < Eff[winner]
         \/ Eff'[winner] = Eff[winner] + 1 /\ Eff[loser] = Eff[winner]
    BY <1>6, <1>7, <1>9, <1>10
  <1>12. pc'[t] \notin {"walk", "unwind"}
    BY <1>7
  <1> QED BY <1>1, <1>2, <1>5, <1>11, <1>12

(* Two trees of the same rank make one that is twice as large.             *)
LEMMA RankedLink ==
    ASSUME Safe, Ranked, IsFiniteSet(UF), NEW t \in Task, LinkByRank(t)
    PROVE  Ranked'
  <1>1. PICK winner \in UF, loser \in UF :
              /\ LinkBelow(t, winner, loser)
              /\ winner # loser
              /\ IsRoot(winner) /\ comp[winner] = winner
              /\ IsRoot(loser) /\ comp[loser] = loser
              /\ pc'[t] \notin {"walk", "unwind"}
              /\ \A s \in Task \ {t} : pc'[s] = pc[s] /\ node'[s] = node[s]
              /\ \A u \in UF \ {winner} : Eff'[u] = Eff[u]
              /\ \/ /\ Eff'[winner] = Eff[winner]
                    /\ Eff[loser] < Eff[winner]
                 \/ /\ Eff'[winner] = Eff[winner] + 1
                    /\ Eff[loser] = Eff[winner]
    BY EffLink
  <1>2. /\ \A u \in UF : IsRoot(u)' <=> (IsRoot(u) /\ u # loser)
        /\ \A u \in UF : comp'[u] = IF comp[u] = loser THEN winner
                                   ELSE comp[u]
    BY <1>1, LinkStable
  <1>3. \A u \in UF : Eff[u] \in Nat
    BY EffType DEF Safe
  <1>4. /\ \A u \in UF : Eff[u] <= Eff'[u]
        /\ Eff'[loser] < Eff'[winner]
    BY <1>1, <1>3
  <1>5. \A u \in UF : Eff'[u] \in Nat
    BY <1>1, <1>3
  <1>6. Heaped'
    <2>1. ASSUME NEW u \in UF, ~IsRoot(u)' PROVE Eff'[u] < Eff'[parent'[u]]
      <3>1. parent'[u] = IF u = loser THEN winner ELSE parent[u]
        BY <1>1 DEF LinkBelow, Safe, Typed, TypeOK
      <3>2. CASE u = loser
        BY <1>4, <3>1, <3>2
      <3>3. CASE u # loser
        <4>1. ~IsRoot(u) /\ u # winner
          BY <1>1, <1>2, <2>1, <3>3
        <4>2. parent[u] \in UF
          BY <4>1 DEF IsRoot, Safe, Typed, TypeOK
        <4>3. Eff'[u] = Eff[u] /\ Eff[u] < Eff[parent[u]]
          BY <1>1, <4>1 DEF Ranked, Heaped
        <4>4. Eff[u] \in Nat /\ Eff[parent[u]] \in Nat /\ Eff'[parent[u]] \in Nat
              /\ Eff[parent[u]] <= Eff'[parent[u]]
          BY <1>3, <1>4, <1>5, <4>2
        <4>5. Eff'[u] < Eff'[parent[u]]
          BY <4>3, <4>4
        <4> QED BY <3>1, <3>3, <4>5
      <3> QED BY <3>2, <3>3
    <2> QED BY <2>1 DEF Heaped
  <1>7. ASSUME NEW u \in UF
        PROVE  /\ IsFiniteSet(Members(u)') /\ Cardinality(Members(u)') \in Nat
               /\ Cardinality(Members(u)') <= Cardinality(UF)
    <2>1. Members(u)' \in SUBSET UF
      BY DEF Members
    <2>2. IsFiniteSet(Members(u)')
      BY <2>1, FS_Subset
    <2>3. Cardinality(Members(u)') <= Cardinality(UF)
      BY <2>1, FS_Subset
    <2> QED BY <2>2, <2>3, FS_CardinalityType
  <1>8. 2^Eff'[winner] <= Cardinality(Members(winner)')
    <2> DEFINE W == Members(winner)
               L == Members(loser)
    <2>1. W \in SUBSET UF /\ L \in SUBSET UF /\ W \cap L = {}
      BY <1>1 DEF Members
    <2>2. Members(winner)' = W \cup L
      <3>1. {x \in UF : comp'[x] = winner} = W \cup L
        BY <1>1, <1>2 DEF Members
      <3> QED BY <3>1 DEF Members
    <2>3. 2^Eff[winner] <= Cardinality(W) /\ 2^Eff[loser] <= Cardinality(L)
      BY <1>1 DEF Ranked, Weighed
    <2> HIDE DEF W, L
    <2>4. IsFiniteSet(W) /\ IsFiniteSet(L)
      BY <2>1, FS_Subset
    <2>5. Cardinality(W \cup L) = Cardinality(W) + Cardinality(L) - Cardinality({})
      BY <2>1, <2>4, FS_Union
    <2>6. Cardinality(W) \in Nat /\ Cardinality(L) \in Nat
      BY <2>4, FS_CardinalityType
    <2>7. Cardinality(W \cup L) = Cardinality(W) + Cardinality(L)
      BY <2>5, <2>6, FS_EmptySet
    <2>8. /\ 2^Eff[winner] \in Nat /\ 2^Eff[loser] \in Nat
          /\ 2^(Eff[winner] + 1) = 2^Eff[winner] + 2^Eff[winner]
      BY <1>3, PowerType, PowerStep
    <2>9. CASE Eff'[winner] = Eff[winner]
      BY <2>2, <2>3, <2>6, <2>7, <2>8, <2>9
    <2>10. CASE Eff'[winner] = Eff[winner] + 1 /\ Eff[loser] = Eff[winner]
      BY <2>2, <2>3, <2>6, <2>7, <2>8, <2>10
    <2> QED BY <1>1, <2>9, <2>10
  <1>9. Weighed'
    <2>1. ASSUME NEW u \in UF
          PROVE  /\ IsRoot(u)' => 2^Eff'[u] <= Cardinality(Members(u)')
                 /\ 2^Eff'[u] <= Cardinality(UF)
      <3>1. CASE u = winner
        <4>1. 2^Eff'[u] \in Nat
          BY <1>5, PowerType
        <4>2. Cardinality(UF) \in Nat
          BY FS_CardinalityType
        <4> QED BY <1>7, <1>8, <3>1, <4>1, <4>2
      <3>2. CASE u # winner
        <4>1. Eff'[u] = Eff[u] /\ 2^Eff[u] <= Cardinality(UF)
          BY <1>1, <3>2 DEF Ranked, Weighed
        <4>2. ASSUME IsRoot(u)' PROVE 2^Eff'[u] <= Cardinality(Members(u)')
          <5>1. IsRoot(u) /\ u # loser
            BY <1>2, <4>2
          <5>2. {x \in UF : comp'[x] = u} = {x \in UF : comp[x] = u}
            BY <1>2, <3>2, <5>1
          <5>3. Members(u)' = Members(u)
            BY <5>2 DEF Members
          <5> QED BY <4>1, <5>1, <5>3 DEF Ranked, Weighed
        <4> QED BY <4>1, <4>2
      <3> QED BY <3>1, <3>2
    <2> QED BY <2>1 DEF Weighed
  <1>10. ASSUME NEW s \in Task PROVE DepthOK(s)'
    <2> SUFFICES ASSUME pc'[s] \in {"walk", "unwind"}
                 PROVE  /\ Len(frames'[s]) <= Eff'[node'[s]]
                        /\ \A i \in 1..Len(frames'[s]) :
                              Eff'[frames'[s][i]] < Eff'[node'[s]]
      BY DEF DepthOK
    <2>1. /\ s # t /\ pc[s] \in {"walk", "unwind"} /\ node'[s] = node[s]
          /\ frames' = frames
      BY <1>1 DEF LinkBelow
    <2>2. node[s] \in UF /\ frames[s] \in Seq(UF)
      BY <2>1 DEF Safe, Typed, TypeOK, CallOK
    <2>3. /\ Eff[node[s]] \in Nat /\ Eff'[node[s]] \in Nat
          /\ Eff[node[s]] <= Eff'[node[s]] /\ Len(frames[s]) <= Eff[node[s]]
      BY <1>3, <1>4, <1>5, <2>1, <2>2 DEF Ranked, DepthOK
    <2>4. Len(frames[s]) <= Eff'[node[s]]
      BY <2>2, <2>3
    <2>5. ASSUME NEW i \in 1..Len(frames[s])
          PROVE  Eff'[frames[s][i]] < Eff'[node[s]]
      <3>1. frames[s][i] \in UF /\ Eff[frames[s][i]] < Eff[node[s]]
        BY <2>1, <2>2 DEF Ranked, DepthOK
      <3>2. ~IsRoot(frames[s][i])
        BY <2>1 DEF Safe, WalkOK, Below
      <3>3. Eff'[frames[s][i]] = Eff[frames[s][i]] /\ Eff[frames[s][i]] \in Nat
        BY <1>1, <1>3, <3>1, <3>2
      <3> QED BY <2>3, <3>1, <3>3
    <2> QED BY <2>1, <2>4, <2>5
  <1> QED BY <1>6, <1>9, <1>10 DEF Ranked

(* A step that is no link keeps the bounds: a walk goes up one rank at     *)
(* least with each frame, and what a compression writes is higher than     *)
(* what it overwrites, or as high.                                         *)
LEMMA RankedOther ==
    ASSUME Safe, ~Reload, Ranked, [Next]_vars,
           \A t \in Task : ~LinkByRank(t)
    PROVE  Ranked'
  <1>1. Eff' = Eff
    BY EffKept
  <1>2. \A u \in UF : Eff[u] \in Nat
    BY EffType DEF Safe
  <1>3. UNCHANGED <<parent, comp>> \/ \E t \in Task : Compress(t)
    BY DEF Next, Step, CallFind, CallUnion, FoundRoot, Recurse, ReturnParent,
           FindReturns, FirstFound, SameSet, SetRank, MergeData, Leave, vars,
           shared, history
  <1>4. ASSUME NEW t \in Task, Compress(t)
        PROVE  /\ UNCHANGED <<comp, node>> /\ pc[t] = "unwind" /\ pc' = pc
               /\ \E x \in UF : /\ parent' = [parent EXCEPT ![x] = node[t]]
                                /\ Eff[x] < Eff[node[t]]
    <2>1. PICK x \in UF :
              /\ x = frames[t][Len(frames[t])]
              /\ parent' = [parent EXCEPT ![x] = node[t]]
              /\ pc' = pc
              /\ UNCHANGED <<rank, data, op, arg, peer, rep0, node, history>>
      BY <1>4, CompressFacts
    <2>2. pc[t] = "unwind" /\ frames[t] \in Seq(UF) /\ frames[t] # <<>>
      BY <1>4 DEF Compress, Safe, Typed, TypeOK
    <2>3. Len(frames[t]) \in 1..Len(frames[t])
      BY <2>2
    <2>4. Eff[x] < Eff[node[t]]
      BY <2>1, <2>2, <2>3 DEF Ranked, DepthOK
    <2> QED BY <2>1, <2>2, <2>4 DEF history
  <1>5. comp' = comp /\ \A u \in UF : IsRoot(u)' <=> IsRoot(u)
    <2>1. CASE UNCHANGED <<parent, comp>>
      BY <2>1 DEF IsRoot
    <2>2. ASSUME NEW t \in Task, Compress(t)
          PROVE  comp' = comp /\ \A u \in UF : IsRoot(u)' <=> IsRoot(u)
      BY <1>4, <2>2, CompressStable
    <2> QED BY <1>3, <2>1, <2>2
  <1>6. Weighed'
    <2>1. \A u \in UF : Members(u)' = Members(u)
      BY <1>5 DEF Members
    <2>2. \A u \in UF : /\ IsRoot(u)' => 2^Eff'[u] <= Cardinality(Members(u)')
                        /\ 2^Eff'[u] <= Cardinality(UF)
      BY <1>1, <1>5, <2>1 DEF Ranked, Weighed
    <2> QED BY <2>2 DEF Weighed
  <1>7. Heaped'
    <2>1. ASSUME NEW u \in UF, ~IsRoot(u)' PROVE Eff[u] < Eff[parent'[u]]
      <3>1. Eff[u] < Eff[parent[u]]
        BY <1>5, <2>1 DEF Ranked, Heaped
      <3>2. CASE UNCHANGED <<parent, comp>>
        BY <3>1, <3>2
      <3>3. ASSUME NEW t \in Task, Compress(t) PROVE Eff[u] < Eff[parent'[u]]
        <4>1. PICK x \in UF : /\ parent' = [parent EXCEPT ![x] = node[t]]
                              /\ Eff[x] < Eff[node[t]]
          BY <1>4, <3>3
        <4>2. parent'[u] = IF u = x THEN node[t] ELSE parent[u]
          BY <4>1 DEF Safe, Typed, TypeOK
        <4> QED BY <3>1, <4>1, <4>2
      <3> QED BY <1>3, <3>2, <3>3
    <2> QED BY <1>1, <2>1 DEF Heaped
  <1>8. ASSUME NEW s \in Task, Same(s) PROVE DepthOK(s)'
    BY <1>1, <1>8 DEF Same, Ranked, DepthOK
  <1>9. ASSUME NEW t \in Task, NEW x \in UF, Enter(t, x) PROVE DepthOK(t)'
    <2>1. frames'[t] = <<>> /\ node'[t] = x
      BY <1>9 DEF Enter, Safe, Typed, TypeOK
    <2>2. Len(frames'[t]) = 0 /\ Eff'[node'[t]] \in Nat
      BY <1>1, <1>2, <2>1
    <2> QED BY <2>2 DEF DepthOK
  <1>10. ASSUME NEW t \in Task, pc'[t] \notin {"walk", "unwind"}
         PROVE  DepthOK(t)'
    BY <1>10 DEF DepthOK
  <1>11. ASSUME NEW t \in Task, FoundRoot(t) PROVE DepthOK(t)'
    <2>1. pc[t] = "walk" /\ frames' = frames /\ node' = node
      BY <1>11 DEF FoundRoot
    <2> QED BY <1>1, <2>1 DEF Ranked, DepthOK
  <1>12. ASSUME NEW t \in Task, Recurse(t) PROVE DepthOK(t)'
    <2>1. /\ frames[t] \in Seq(UF) /\ node[t] \in UF /\ pc[t] = "walk"
          /\ ~IsRoot(node[t]) /\ node'[t] = parent[node[t]]
          /\ frames'[t] = Append(frames[t], node[t])
      BY <1>12 DEF Recurse, Safe, Typed, TypeOK, CallOK
    <2>2. parent[node[t]] \in UF
      BY <2>1 DEF IsRoot, Safe, Typed, TypeOK
    <2>3. /\ Len(frames[t]) <= Eff[node[t]]
          /\ \A i \in 1..Len(frames[t]) : Eff[frames[t][i]] < Eff[node[t]]
          /\ Eff[node[t]] < Eff[parent[node[t]]]
      BY <2>1 DEF Ranked, DepthOK, Heaped
    <2>4. /\ Len(frames'[t]) = Len(frames[t]) + 1 /\ Len(frames[t]) \in Nat
          /\ \A i \in 1..Len(frames[t]) : frames'[t][i] = frames[t][i]
          /\ frames'[t][Len(frames[t]) + 1] = node[t]
      BY <2>1, PushFacts
    <2>5. Eff[node[t]] \in Nat /\ Eff[parent[node[t]]] \in Nat
      BY <1>2, <2>1, <2>2
    <2>6. Len(frames'[t]) <= Eff[parent[node[t]]]
      BY <2>3, <2>4, <2>5
    <2>7. ASSUME NEW i \in 1..Len(frames'[t])
          PROVE  Eff[frames'[t][i]] < Eff[parent[node[t]]]
      <3>1. CASE i \in 1..Len(frames[t])
        <4>1. frames[t][i] \in UF
          BY <2>1, <3>1
        <4>2. Eff[frames[t][i]] \in Nat /\ Eff[frames[t][i]] < Eff[node[t]]
          BY <1>2, <2>3, <3>1, <4>1
        <4>3. Eff[frames[t][i]] < Eff[parent[node[t]]]
          BY <2>3, <2>5, <4>2
        <4> QED BY <2>4, <3>1, <4>3
      <3>2. CASE i = Len(frames[t]) + 1
        BY <2>3, <2>4, <3>2
      <3> QED BY <2>4, <3>1, <3>2
    <2> QED BY <1>1, <2>1, <2>6, <2>7 DEF DepthOK
  <1>13. ASSUME NEW t \in Task, Compress(t) PROVE DepthOK(t)'
    <2>1. /\ frames[t] \in Seq(UF) /\ frames[t] # <<>> /\ pc[t] = "unwind"
          /\ frames'[t] = Pop(frames[t]) /\ node' = node
      <3>1. /\ frames' = [frames EXCEPT ![t] = Pop(frames[t])]
            /\ node' = node
        BY <1>13, CompressFacts
      <3> QED BY <1>13, <3>1 DEF Compress, Safe, Typed, TypeOK
    <2>2. /\ Len(frames[t]) \in Nat \ {0}
          /\ Len(frames'[t]) = Len(frames[t]) - 1
          /\ \A i \in 1..(Len(frames[t]) - 1) : frames'[t][i] = frames[t][i]
      BY <2>1, PopFacts
    <2>3. /\ Len(frames[t]) <= Eff[node[t]]
          /\ \A i \in 1..Len(frames[t]) : Eff[frames[t][i]] < Eff[node[t]]
          /\ Eff[node[t]] \in Nat
      BY <1>2, <2>1 DEF Ranked, DepthOK, Safe, Typed, CallOK
    <2>4. Len(frames'[t]) <= Eff[node[t]]
      BY <2>2, <2>3
    <2>5. ASSUME NEW i \in 1..Len(frames'[t])
          PROVE  Eff[frames'[t][i]] < Eff[node[t]]
      <3>1. i \in 1..(Len(frames[t]) - 1) /\ i \in 1..Len(frames[t])
        BY <2>2
      <3> QED BY <2>2, <2>3, <3>1
    <2> QED BY <1>1, <2>1, <2>4, <2>5 DEF DepthOK
  <1>14. ASSUME NEW t \in Task,
                \/ \E x \in UF : CallFind(t, x)
                \/ \E x, y \in UF : CallUnion(t, x, y)
                \/ Step(t)
         PROVE  DepthOK(t)'
    <2>1. CASE \E x \in UF : CallFind(t, x)
      BY <1>9, <2>1 DEF CallFind
    <2>2. CASE \E x, y \in UF : CallUnion(t, x, y)
      BY <1>9, <2>2 DEF CallUnion
    <2>3. CASE FirstFound(t)
      <3>1. peer[t] \in UF /\ Enter(t, peer[t])
        BY <2>3 DEF FirstFound, Safe, Typed, CallOK
      <3> QED BY <1>9, <3>1
    <2>4. CASE FindReturns(t) \/ SameSet(t) \/ MergeData(t) \/ SetRank(t)
      <3>1. pc'[t] \in {"idle", "merge"}
        BY <2>4 DEF FindReturns, SameSet, MergeData, SetRank, Leave, Safe,
                    Typed, TypeOK
      <3> QED BY <1>10, <3>1
    <2>5. ~ReturnParent(t)
      BY DEF ReturnParent, Safe, Typed, ReloadOK
    <2> QED
      BY <1>11, <1>12, <1>13, <1>14, <2>1, <2>2, <2>3, <2>4, <2>5 DEF Step
  <1>15. ASSUME NEW s \in Task PROVE DepthOK(s)'
    <2>1. CASE UNCHANGED vars
      BY <1>8, <2>1 DEF vars, local, history, Same
    <2>2. ASSUME NEW t \in Task,
                 \/ \E x \in UF : CallFind(t, x)
                 \/ \E x, y \in UF : CallUnion(t, x, y)
                 \/ Step(t)
          PROVE  DepthOK(s)'
      <3>1. CASE s = t
        BY <1>14, <2>2, <3>1
      <3>2. CASE s # t
        <4>1. Same(s)
          BY <2>2, <3>2, OthersSame DEF Safe
        <4> QED BY <1>8, <4>1
      <3> QED BY <3>1, <3>2
    <2> QED BY <2>1, <2>2 DEF Next
  <1> QED BY <1>6, <1>7, <1>15 DEF Ranked

(* Of the same build, for any finite number of elements but none: the      *)
(* recursion of a find is never deeper than the logarithm of their number, *)
(* although links and compressions of other tasks move the path while it   *)
(* walks, and a rank is raised only after the link that called for it.     *)
THEOREM RecursionDepthAlways ==
    ASSUME ~Reload, IsFiniteSet(UF), UF # {}
    PROVE  Spec => []RecursionDepth
  <1>1. Safe /\ [Next]_vars => Safe'
    BY SafeNext
  <1>2. Safe /\ Ranked /\ [Next]_vars => Ranked'
    BY RankedLink, RankedOther
  <1>3. Init => Ranked
    BY RankedInit
  <1>4. Safe /\ Ranked => RecursionDepth
    <2> SUFFICES ASSUME Safe, Ranked, NEW t \in Task
                 PROVE  2^Len(frames[t]) <= Cardinality(UF)
      BY DEF RecursionDepth
    <2>0. Cardinality(UF) \in Nat /\ frames[t] \in Seq(UF)
      BY FS_CardinalityType DEF Safe, Typed, TypeOK
    <2>1. CASE pc[t] \in {"walk", "unwind"}
      <3>1. node[t] \in UF /\ Len(frames[t]) <= Eff[node[t]]
        BY <2>1 DEF Ranked, DepthOK, Safe, Typed, CallOK
      <3>2. Len(frames[t]) \in Nat /\ Eff[node[t]] \in Nat
        BY <2>0, <3>1, EffType DEF Safe
      <3>3. 2^Len(frames[t]) <= 2^Eff[node[t]]
        BY <3>1, <3>2, PowerMonotone
      <3>4. 2^Eff[node[t]] <= Cardinality(UF)
        BY <3>1 DEF Ranked, Weighed
      <3>5. 2^Len(frames[t]) \in Nat /\ 2^Eff[node[t]] \in Nat
        BY <3>2, PowerType
      <3> QED BY <2>0, <3>3, <3>4, <3>5
    <2>2. CASE pc[t] \notin {"walk", "unwind"}
      <3>1. frames[t] = <<>>
        BY <2>2 DEF Safe, Typed, CallOK, ReloadOK
      <3>2. 2^Len(frames[t]) = 1
        BY <3>1
      <3>3. Cardinality(UF) # 0
        BY FS_EmptySet
      <3> QED BY <2>0, <3>2, <3>3
    <2> QED BY <2>1, <2>2
  <1> QED BY SafeInit, <1>1, <1>2, <1>3, <1>4, PTL DEF Spec
===============================================================================
