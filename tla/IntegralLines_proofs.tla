-------------------------- MODULE IntegralLines_proofs --------------------------
(***************************************************************************)
(* The rounds of IntegralLines, for any number of ranks and any mesh,      *)
(* field and seeds.                                                        *)
(*                                                                         *)
(* The ranks leave the rounds together (RanksStopTogether): whatever the   *)
(* sum of the contributions is, the counters of two ranks differ by the    *)
(* reduction one of them has not the result of yet.                        *)
(*                                                                         *)
(* A receive is met by a message of its size (SizesMatchAlways): a pair of *)
(* neighbours is at most one message apart, and the sizes that are sent    *)
(* are those of what is gathered.                                          *)
(*                                                                         *)
(* The counters are exact (CounterExactAlways): each step moves lines      *)
(* between those a rank holds, those underway and those it has to tell,    *)
(* and the sum of all is what the counter says. Sums are MapThenSumSet of  *)
(* finite sets, whose laws come first: they are proved by the least size   *)
(* of a set for which one would fail, since the library's induction takes  *)
(* an operator.                                                            *)
(*                                                                         *)
(* The types and bounds of the state (TypeOKAlways) follow from the same   *)
(* invariants: a piece has at most as many steps behind it as there are    *)
(* vertices below its end.                                                 *)
(***************************************************************************)
EXTENDS IntegralLines, FiniteSetTheorems, TLAPS

Labels == {"trace", "reduce", "sizes", "data", "count", "number", "exchange",
           "done"}

Types ==
    /\ request \in Requests
    /\ pc \in [Ranks -> Labels]
    /\ rounds \in [Ranks -> Nat]
    /\ contributed \in [Ranks -> Seq(Int)]
    /\ finishedElement \in [Ranks -> Int]
    /\ addedElement \in [Ranks -> Int]
    /\ globalElementCounter = [r \in Ranks |-> globalElementCounter[r]]

(* A rank has entered one reduction more than it has results while it      *)
(* waits for it, and it has the result of none that a rank has not entered.*)
Entered ==
    /\ \A r \in Ranks : Len(contributed[r]) =
                           IF pc[r] = "reduce" THEN rounds[r] + 1 ELSE rounds[r]
    /\ \A p, q \in Ranks : rounds[p] <= Len(contributed[q])

(* The counters agree, up to the reduction a rank has not the result of.   *)
Agreement ==
    \A p, q \in Ranks :
        /\ rounds[p] = rounds[q] =>
              globalElementCounter[p] = globalElementCounter[q]
        /\ rounds[p] = rounds[q] + 1 =>
              globalElementCounter[p] = globalElementCounter[q]
                                            - finishedElementReceived(rounds[p])

(* A rank has stopped if its counter came to zero.                         *)
AtZero ==
    \A r \in Ranks :
        /\ Stopped(r) => rounds[r] > 0 /\ globalElementCounter[r] = 0
        /\ ~Stopped(r) /\ rounds[r] > 0 => globalElementCounter[r] # 0

IInv == Types /\ Entered /\ Agreement /\ AtZero
-------------------------------------------------------------------------------
(* A fork adds a whole number of lines: an upper link has finitely many    *)
(* components.                                                             *)
LEMMA AddedIsNumber ==
    ASSUME request \in Requests, NEW v
    PROVE  Added(v) \in Nat
<1> DEFINE V == DOMAIN request.rank
<1>1. request.rank \in Seq(Ranks)
      /\ \A e \in request.mesh : \E a, b \in V : a # b /\ e = {a, b}
  BY RequestsAssumption
<1>2. V = 1..Len(request.rank) /\ Len(request.rank) \in Nat
  BY <1>1
<1>3. IsFiniteSet(V)
  BY <1>2, FS_Interval
<1>4. Neighbors(v) \subseteq V
  BY <1>1 DEF Neighbors, J!Neighbors
<1>5. IsFiniteSet(Upper(v))
  BY <1>3, <1>4, FS_Subset DEF Upper
<1>6. IsFiniteSet(Components(Upper(v)))
  <2> DEFINE U == Upper(v)
             comp == [u \in U |-> J!Component(request.mesh, u, U)]
  <2>1. comp \in Surjection(U, {comp[u] : u \in U})
    BY DEF Surjection
  <2>2. Components(U) = {comp[u] : u \in U}
    BY DEF Components
  <2>3. IsFiniteSet({comp[u] : u \in U})
    <3> HIDE DEF comp
    <3> QED BY <1>5, <2>1, FS_Surjection
  <2> QED BY <2>2, <2>3
<1> QED BY <1>6, FS_CardinalityType DEF Added

(* No rank has entered a reduction at first.                               *)
LEMMA InitIInv == Init => IInv
<1> SUFFICES ASSUME Init PROVE IInv
  OBVIOUS
<1>1. Types
  BY DEF Init, Types, Labels
<1>2. Entered
  BY DEF Init, Entered
<1>3. Agreement
  BY DEF Init, Agreement
<1>4. AtZero
  BY DEF Init, AtZero, Stopped
<1> QED BY <1>1, <1>2, <1>3, <1>4 DEF IInv

(* What the rounds of the others read is not touched by the tracing of     *)
(* lines and the numbering of what is traced.                              *)
LEMMA QuietStep ==
    ASSUME IInv, NEW r \in Ranks,
           UNCHANGED <<request, globalElementCounter, contributed, rounds>>,
           finishedElement' \in [Ranks -> Int], addedElement' \in [Ranks -> Int],
           pc' \in [Ranks -> Labels],
           \A q \in Ranks : /\ Stopped(q)' = Stopped(q)
                            /\ pc'[q] = "reduce" <=> pc[q] = "reduce"
    PROVE  IInv'
<1>1. Types'
  BY DEF IInv, Types
<1>2. Entered'
  BY DEF IInv, Entered
<1>3. Agreement'
  BY DEF IInv, Agreement, finishedElementReceived
<1>4. AtZero'
  BY DEF IInv, AtZero
<1> QED BY <1>1, <1>2, <1>3, <1>4 DEF IInv

(* The tracing of lines.                                                   *)
LEMMA TraceStep ==
    ASSUME IInv, NEW r \in Ranks, NEW i \in open[r], Trace(r, i)
    PROVE  IInv'
<1>1. UNCHANGED <<request, pc, globalElementCounter, contributed, rounds>>
  BY DEF Trace, Finish, Advance, Fork, HandOver, tracing, mpi
<1>2. finishedElement' \in [Ranks -> Int]
  <2>1. \/ UNCHANGED finishedElement
        \/ finishedElement' = [finishedElement EXCEPT ![r] = @ + 1]
    BY DEF Trace, Finish, Advance, Fork, HandOver
  <2> QED BY <2>1 DEF IInv, Types
<1>3. addedElement' \in [Ranks -> Int]
  <2>1. Added(Tip(r, i)) \in Nat
    BY AddedIsNumber DEF IInv, Types
  <2>2. \/ UNCHANGED addedElement
        \/ addedElement' = [addedElement EXCEPT ![r] = @ + Added(Tip(r, i))]
    BY DEF Trace, Finish, Advance, Fork, HandOver
  <2> QED BY <2>1, <2>2 DEF IInv, Types
<1>4. \A q \in Ranks : Stopped(q)' = Stopped(q) /\ pc'[q] = pc[q]
  BY <1>1 DEF Stopped
<1>5. pc' \in [Ranks -> Labels]
  BY <1>1 DEF IInv, Types
<1> QED BY <1>1, <1>2, <1>3, <1>4, <1>5, QuietStep

(* The steps of a round that take no result of a reduction.                *)
LEMMA QuietRound ==
    ASSUME IInv, NEW r \in Ranks, ReceiveSizes(r) \/ ReceiveElements(r)
    PROVE  IInv'
<1>1. UNCHANGED <<request, counters, contributed, rounds>>
  BY DEF ReceiveSizes, ReceiveElements
<1>2. \/ pc[r] = "sizes" /\ pc' = [pc EXCEPT ![r] = "data"]
      \/ pc[r] = "data" /\ pc' = [pc EXCEPT ![r] = "trace"]
  BY DEF ReceiveSizes, ReceiveElements, Goto
<1>3. pc' \in [Ranks -> Labels]
  BY <1>2 DEF IInv, Types, Labels
<1>4. \A q \in Ranks : /\ Stopped(q)' = Stopped(q)
                       /\ pc'[q] = "reduce" <=> pc[q] = "reduce"
  BY <1>2 DEF IInv, Types, Stopped
<1>5. finishedElement' \in [Ranks -> Int] /\ addedElement' \in [Ranks -> Int]
  BY <1>1 DEF IInv, Types, counters
<1> QED BY <1>1, <1>3, <1>4, <1>5, QuietStep DEF counters

(* The numbering of what is traced.                                        *)
LEMMA IdentifyStep ==
    ASSUME IInv, NEW r \in Ranks, Identify(r)
    PROVE  IInv'
<1>1. UNCHANGED <<request, counters, contributed, rounds>>
  BY DEF Identify, Count, Number, Exchange, traced, mpi
<1>2. \E a \in {"number", "exchange", "done"} :
          pc[r] \in {"count", "number", "exchange"} /\ pc' = [pc EXCEPT ![r] = a]
  BY DEF Identify, Count, Number, Exchange, Goto
<1>3. pc' \in [Ranks -> Labels]
  BY <1>2 DEF IInv, Types, Labels
<1>4. \A q \in Ranks : /\ Stopped(q)' = Stopped(q)
                       /\ pc'[q] = "reduce" <=> pc[q] = "reduce"
  BY <1>2 DEF IInv, Types, Stopped
<1>5. finishedElement' \in [Ranks -> Int] /\ addedElement' \in [Ranks -> Int]
  BY <1>1 DEF IInv, Types, counters
<1> QED BY <1>1, <1>3, <1>4, <1>5, QuietStep DEF counters
-------------------------------------------------------------------------------
(* Entering a reduction leaves what was contributed to the earlier ones.   *)
LEMMA ContributeStep ==
    ASSUME IInv, NEW r \in Ranks, Contribute(r)
    PROVE  IInv'
<1> DEFINE balance == finishedElement[r] - addedElement[r]
<1>1. /\ pc[r] = "trace" /\ pc' = [pc EXCEPT ![r] = "reduce"]
      /\ finishedElement' = [finishedElement EXCEPT ![r] = balance]
      /\ addedElement' = [addedElement EXCEPT ![r] = 0]
      /\ contributed' = [contributed EXCEPT ![r] = Append(@, balance)]
      /\ UNCHANGED <<request, globalElementCounter, rounds>>
  BY DEF Contribute, Goto
<1>2. balance \in Int
  BY DEF IInv, Types
<1>3. Types'
  BY <1>1, <1>2 DEF IInv, Types, Labels
<1>4. \A q \in Ranks :
          /\ contributed'[q] \in Seq(Int)
          /\ Len(contributed'[q]) = IF q = r THEN Len(contributed[q]) + 1
                                    ELSE Len(contributed[q])
          /\ \A k \in 1..Len(contributed[q]) : contributed'[q][k] = contributed[q][k]
  BY <1>1, <1>2 DEF IInv, Types
<1>5. Entered'
  <2>1. \A q \in Ranks : pc'[q] = IF q = r THEN "reduce" ELSE pc[q]
    BY <1>1 DEF IInv, Types
  <2>2. \A q \in Ranks : Len(contributed[q]) \in Nat /\ rounds[q] \in Nat
    BY DEF IInv, Types
  <2> QED BY <1>1, <1>4, <2>1, <2>2 DEF IInv, Entered
<1>6. Agreement'
  <2> SUFFICES ASSUME NEW p \in Ranks, NEW q \in Ranks
               PROVE  /\ rounds[p] = rounds[q] =>
                            globalElementCounter[p] = globalElementCounter[q]
                      /\ rounds[p] = rounds[q] + 1 =>
                            globalElementCounter[p] = globalElementCounter[q]
                                - finishedElementReceived(rounds[p])'
    BY <1>1 DEF Agreement, finishedElementReceived
  <2>1. ASSUME rounds[p] = rounds[q] + 1
        PROVE  finishedElementReceived(rounds[p])' = finishedElementReceived(rounds[p])
    <3>1. \A s \in Ranks : rounds[p] \in 1..Len(contributed[s])
      BY <2>1 DEF IInv, Types, Entered
    <3>2. [s \in Ranks |-> contributed'[s][rounds[p]]]
              = [s \in Ranks |-> contributed[s][rounds[p]]]
      BY <3>1, <1>4
    <3> QED BY <1>1, <3>2 DEF finishedElementReceived
  <2> QED BY <2>1 DEF IInv, Agreement
<1>7. AtZero'
  <2>1. \A q \in Ranks : Stopped(q)' = Stopped(q)
    BY <1>1 DEF IInv, Types, Stopped
  <2> QED BY <1>1, <2>1 DEF IInv, AtZero
<1> QED BY <1>3, <1>5, <1>6, <1>7 DEF IInv

(* The result of a reduction brings the counter of the rank to that of the *)
(* ranks that have it already.                                             *)
LEMMA ReducedStep ==
    ASSUME IInv, NEW r \in Ranks, Reduced(r),
           UNCHANGED <<request, addedElement, contributed>>,
           \/ Left(r) = 0 /\ pc' = [pc EXCEPT ![r] = "count"]
           \/ Left(r) # 0 /\ pc' = [pc EXCEPT ![r] = "sizes"]
    PROVE  IInv'
<1> DEFINE k == rounds[r] + 1
<1>1. /\ pc[r] = "reduce"
      /\ \A q \in Ranks : Len(contributed[q]) > rounds[r]
      /\ rounds' = [rounds EXCEPT ![r] = k]
      /\ globalElementCounter' = [globalElementCounter EXCEPT ![r] = Left(r)]
      /\ finishedElement' = [finishedElement EXCEPT ![r] = 0]
      /\ Left(r) = globalElementCounter[r] - finishedElementReceived(k)
  BY DEF Reduced, Left
<1>2. \A q \in Ranks :
          /\ rounds[q] \in Nat /\ Len(contributed[q]) \in Nat
          /\ rounds'[q] = IF q = r THEN k ELSE rounds[q]
          /\ globalElementCounter'[q] = IF q = r THEN Left(r)
                                        ELSE globalElementCounter[q]
          /\ pc'[q] = IF q # r THEN pc[q]
                      ELSE IF Left(r) = 0 THEN "count" ELSE "sizes"
  BY <1>1 DEF IInv, Types
<1>3. Len(contributed[r]) = k /\ \A q \in Ranks : rounds[q] <= k
  BY <1>1, <1>2 DEF IInv, Entered
<1>4. Types'
  <2>1. pc' \in [Ranks -> Labels]
    BY DEF IInv, Types, Labels
  <2>2. rounds' \in [Ranks -> Nat] /\ finishedElement' \in [Ranks -> Int]
    BY <1>1 DEF IInv, Types
  <2>3. globalElementCounter' = [q \in Ranks |-> globalElementCounter'[q]]
    BY <1>1 DEF IInv, Types
  <2> QED BY <2>1, <2>2, <2>3 DEF IInv, Types
<1>5. Entered'
  BY <1>1, <1>2, <1>3 DEF IInv, Entered
<1>6. Agreement'
  <2> SUFFICES ASSUME NEW p \in Ranks, NEW q \in Ranks
               PROVE  /\ rounds'[p] = rounds'[q] =>
                            globalElementCounter'[p] = globalElementCounter'[q]
                      /\ rounds'[p] = rounds'[q] + 1 =>
                            globalElementCounter'[p] = globalElementCounter'[q]
                                - finishedElementReceived(rounds'[p])
    BY DEF Agreement, finishedElementReceived
  <2>0. /\ rounds[p] = rounds[q] =>
              globalElementCounter[p] = globalElementCounter[q]
        /\ rounds[p] = rounds[q] + 1 =>
              globalElementCounter[p] = globalElementCounter[q]
                                            - finishedElementReceived(rounds[p])
        /\ rounds[q] = rounds[p] + 1 =>
              globalElementCounter[q] = globalElementCounter[p]
                                            - finishedElementReceived(rounds[q])
    BY DEF IInv, Agreement
  <2>1. CASE p = r /\ q = r
    BY <2>1, <1>2
  <2>2. CASE p = r /\ q # r
    BY <2>0, <2>2, <1>1, <1>2, <1>3
  <2>3. CASE p # r /\ q = r
    BY <2>0, <2>3, <1>1, <1>2, <1>3
  <2>4. CASE p # r /\ q # r
    BY <2>0, <2>4, <1>2
  <2> QED BY <2>1, <2>2, <2>3, <2>4
<1>7. AtZero'
  <2>1. Stopped(r)' <=> Left(r) = 0
    BY <1>2 DEF Stopped
  <2>2. \A q \in Ranks \ {r} : Stopped(q)' = Stopped(q)
    BY <1>2 DEF Stopped
  <2>3. k > 0
    BY <1>2
  <2> QED BY <1>2, <2>1, <2>2, <2>3 DEF IInv, AtZero
<1> QED BY <1>4, <1>5, <1>6, <1>7 DEF IInv
-------------------------------------------------------------------------------
(* Every step keeps the counters of the ranks together.                    *)
LEMMA NextIInv == IInv /\ [Next]_vars => IInv'
<1> SUFFICES ASSUME IInv, [Next]_vars PROVE IInv'
  OBVIOUS
<1>1. ASSUME NEW r \in Ranks, Round(r) PROVE IInv'
  <2>1. CASE Contribute(r)
    BY <2>1, ContributeStep
  <2>2. CASE Stop(r)
    BY <2>2, ReducedStep DEF Stop, Goto
  <2>3. CASE Continue(r)
    BY <2>3, ReducedStep DEF Continue, Goto
  <2>4. CASE ReceiveSizes(r) \/ ReceiveElements(r)
    BY <2>4, QuietRound
  <2> QED BY <1>1, <2>1, <2>2, <2>3, <2>4 DEF Round
<1>2. ASSUME NEW r \in Ranks, Identify(r) PROVE IInv'
  BY <1>2, IdentifyStep
<1>3. ASSUME NEW r \in Ranks, NEW i \in open[r], Trace(r, i) PROVE IInv'
  BY <1>3, TraceStep
<1>4. CASE UNCHANGED vars
  <2>1. UNCHANGED <<request, pc, globalElementCounter, contributed, rounds,
                    finishedElement, addedElement>>
    BY <1>4 DEF vars, counters, mpi
  <2> QED BY <2>1 DEF IInv, Types, Entered, Agreement, AtZero, Stopped,
                      finishedElementReceived
<1> QED BY <1>1, <1>2, <1>3, <1>4 DEF Next, Returned

(* Once a rank has left the rounds each other one has left them too or has *)
(* only the result of the same reduction to take, which makes it stop.     *)
THEOREM RanksStopTogether == Spec => []StopsTogether
<1>1. Init => IInv
  BY InitIInv
<1>2. IInv /\ [Next]_vars => IInv'
  BY NextIInv
<1>3. IInv => StopsTogether
  <2> SUFFICES ASSUME IInv, NEW r \in Ranks, NEW q \in Ranks, Stopped(r)
               PROVE  /\ rounds[q] <= rounds[r]
                      /\ rounds[q] = rounds[r] => Stopped(q)
                      /\ rounds[q] < rounds[r] =>
                            pc[q] = "reduce" /\ rounds[q] + 1 = rounds[r]
    BY DEF StopsTogether
  <2>1. /\ rounds[r] \in Nat /\ rounds[q] \in Nat
        /\ Len(contributed[r]) = rounds[r]
        /\ rounds[q] <= Len(contributed[r])
        /\ rounds[r] <= Len(contributed[q])
        /\ Len(contributed[q]) = IF pc[q] = "reduce" THEN rounds[q] + 1
                                 ELSE rounds[q]
    BY DEF IInv, Types, Entered, Stopped
  <2>2. rounds[q] = rounds[r] => Stopped(q)
    BY <2>1 DEF IInv, Agreement, AtZero
  <2> QED BY <2>1, <2>2
<1> QED BY <1>1, <1>2, <1>3, PTL DEF Spec
-------------------------------------------------------------------------------
JP == INSTANCE JoinTree_proofs

(* g adds up the values of f over every part of S, one after the other.    *)
Accumulates(f, S, g) ==
    g = [s \in SUBSET S |-> IF s = {} THEN 0
                            ELSE f[CHOOSE x \in s : TRUE] + g[s \ {CHOOSE x \in s : TRUE}]]

(* The function without one of its arguments.                              *)
Without(f, x) == [y \in DOMAIN f \ {x} |-> f[y]]
-------------------------------------------------------------------------------
(* A sum is taken from the values added up over the parts of the           *)
(* arguments.                                                              *)
LEMMA TotalDef ==
    ASSUME NEW f
    PROVE  Total(f) = (CHOOSE g : Accumulates(f, DOMAIN f, g))[DOMAIN f]
BY DEF Total, MapThenSumSet, MapThenFoldSet, Accumulates

(* The sums of the parts exist, by the sizes of the parts.                 *)
LEMMA SumsExist ==
    ASSUME NEW f, NEW S, IsFiniteSet(S)
    PROVE  \E g : Accumulates(f, S, g)
<1> DEFINE pick(s) == CHOOSE x \in s : TRUE
           value(s, g) == IF s = {} THEN 0 ELSE f[pick(s)] + g[s \ {pick(s)}]
           upTo(n, g) == \A s \in SUBSET S : Cardinality(s) <= n => g[s] = value(s, g)
           bad == {n \in Nat : ~\E g : upTo(n, g)}
<1>0. \A s \in SUBSET S : /\ IsFiniteSet(s) /\ Cardinality(s) \in Nat
                          /\ Cardinality(s) = 0 <=> s = {}
                          /\ s # {} => /\ pick(s) \in s
                                       /\ Cardinality(s \ {pick(s)}) = Cardinality(s) - 1
  BY FS_Subset, FS_CardinalityType, FS_EmptySet, FS_RemoveElement
<1> HIDE DEF pick
<1>1. bad = {}
  <2> SUFFICES ASSUME bad # {} PROVE FALSE
    OBVIOUS
  <2>1. PICK m \in bad : \A x \in bad : m <= x
    <3>1. bad \in SUBSET Nat
      OBVIOUS
    <3> HIDE DEF bad
    <3> QED BY <3>1, JP!LeastNumber
  <2>2. m # 0
    <3> DEFINE g == [s \in SUBSET S |-> 0]
    <3>1. ASSUME NEW s \in SUBSET S, Cardinality(s) <= 0 PROVE g[s] = value(s, g)
      <4>1. Cardinality(s) \in Nat /\ (Cardinality(s) = 0 => s = {})
        BY <1>0
      <4>2. s = {}
        BY <3>1, <4>1
      <4> QED BY <4>2
    <3>2. \E k : upTo(0, k)
      <4>1. upTo(0, g)
        <5> HIDE DEF g, value
        <5> QED BY <3>1
      <4> HIDE DEF g, upTo
      <4> QED BY <4>1
    <3> HIDE DEF upTo
    <3> QED BY <2>1, <3>2
  <2>3. m - 1 \in Nat /\ ~(m <= m - 1) /\ m \in Nat
    BY <2>1, <2>2
  <2>4. PICK g : upTo(m - 1, g)
    BY <2>1, <2>3
  <2> DEFINE h == [s \in SUBSET S |-> IF Cardinality(s) = m THEN value(s, g) ELSE g[s]]
  <2>5. ASSUME NEW s \in SUBSET S, Cardinality(s) <= m PROVE h[s] = value(s, h)
    <3>1. s # {} => /\ s \ {pick(s)} \in SUBSET S
                    /\ Cardinality(s \ {pick(s)}) = Cardinality(s) - 1
      BY <1>0
    <3>2. s # {} => h[s \ {pick(s)}] = g[s \ {pick(s)}]
      BY <1>0, <2>3, <2>5, <3>1
    <3>3. value(s, h) = value(s, g)
      <4> HIDE DEF h
      <4> QED BY <3>2
    <3>4. h[s] = value(s, g)
      <4>1. CASE Cardinality(s) = m
        <5> HIDE DEF value
        <5> QED BY <4>1
      <4>2. CASE Cardinality(s) # m
        <5>1. Cardinality(s) <= m - 1
          <6>1. Cardinality(s) \in Nat
            BY <1>0
          <6> QED BY <2>3, <2>5, <4>2, <6>1
        <5>2. g[s] = value(s, g)
          BY <2>4, <5>1
        <5> HIDE DEF value
        <5> QED BY <4>2, <5>2
      <4> QED BY <4>1, <4>2
    <3> HIDE DEF value
    <3> QED BY <3>3, <3>4
  <2>6. upTo(m, h)
    <3> HIDE DEF h, value
    <3> QED BY <2>5
  <2>7. \E k : upTo(m, k)
    <3> HIDE DEF h
    <3> QED BY <2>6
  <2> QED BY <2>1, <2>7
<1>2. PICK g : upTo(Cardinality(S), g)
  <2>1. Cardinality(S) \in Nat
    BY FS_CardinalityType
  <2> HIDE DEF upTo
  <2> QED BY <1>1, <2>1
<1> DEFINE h == [s \in SUBSET S |-> g[s]]
<1>3. ASSUME NEW s \in SUBSET S PROVE h[s] = value(s, h)
  <2>1. Cardinality(s) <= Cardinality(S)
    BY FS_Subset
  <2>2. g[s] = value(s, g)
    BY <1>2, <2>1
  <2>3. h[s] = g[s] /\ h[s \ {pick(s)}] = g[s \ {pick(s)}]
    OBVIOUS
  <2> HIDE DEF h
  <2> QED BY <2>2, <2>3
<1>4. h = [s \in SUBSET S |-> value(s, h)]
  <2>1. DOMAIN h = SUBSET S /\ h = [s \in SUBSET S |-> h[s]]
    OBVIOUS
  <2> HIDE DEF h, value
  <2> QED BY <1>3, <2>1
<1>5. Accumulates(f, S, h)
  <2> HIDE DEF h
  <2> QED BY <1>4 DEF Accumulates, pick
<1> QED BY <1>5

(* What is added up over a part depends on the values there only.          *)
LEMMA SumsAgree ==
    ASSUME NEW f, NEW e, NEW S, IsFiniteSet(S), NEW T \in SUBSET S, NEW g, NEW h,
           Accumulates(f, S, g), Accumulates(e, T, h), \A x \in T : e[x] = f[x]
    PROVE  \A t \in SUBSET T : h[t] = g[t]
<1> DEFINE pick(s) == CHOOSE x \in s : TRUE
           bad == {n \in Nat : \E t \in SUBSET T : Cardinality(t) = n /\ h[t] # g[t]}
<1>0. \A t \in SUBSET T :
          /\ Cardinality(t) \in Nat
          /\ t # {} => /\ pick(t) \in t
                       /\ Cardinality(t \ {pick(t)}) = Cardinality(t) - 1
  BY FS_Subset, FS_CardinalityType, FS_RemoveElement
<1>1. \A t \in SUBSET T :
          /\ h[t] = IF t = {} THEN 0 ELSE e[pick(t)] + h[t \ {pick(t)}]
          /\ g[t] = IF t = {} THEN 0 ELSE f[pick(t)] + g[t \ {pick(t)}]
  BY DEF Accumulates
<1> HIDE DEF pick
<1> SUFFICES ASSUME bad # {} PROVE FALSE
  <2>1. ASSUME bad = {}, NEW t \in SUBSET T PROVE h[t] = g[t]
    <3>1. Cardinality(t) \in Nat /\ Cardinality(t) \notin bad
      BY <1>0, <2>1
    <3> QED BY <3>1
  <2> HIDE DEF bad
  <2> QED BY <2>1
<1>2. PICK m \in bad : \A x \in bad : m <= x
  <2>1. bad \in SUBSET Nat
    OBVIOUS
  <2> HIDE DEF bad
  <2> QED BY <2>1, JP!LeastNumber
<1>3. PICK t \in SUBSET T : Cardinality(t) = m /\ h[t] # g[t] /\ m \in Nat
  BY <1>2
<1>4. t # {}
  BY <1>1, <1>3
<1>5. t \ {pick(t)} \in SUBSET T /\ pick(t) \in T /\ Cardinality(t \ {pick(t)}) = m - 1
  BY <1>0, <1>3, <1>4
<1>6. m - 1 \in Nat /\ ~(m <= m - 1)
  <2>1. m - 1 \in Nat
    BY <1>0, <1>3, <1>5
  <2> QED BY <1>3, <2>1
<1>7. h[t \ {pick(t)}] = g[t \ {pick(t)}]
  <2>1. m - 1 \notin bad
    <3> HIDE DEF bad
    <3> QED BY <1>2, <1>6
  <2> QED BY <1>5, <1>6, <2>1
<1> QED BY <1>1, <1>3, <1>4, <1>5, <1>7

(* A sum over nothing is zero; else it is the value at some argument and   *)
(* the sum of the others.                                                  *)
LEMMA TotalStep ==
    ASSUME NEW f, IsFiniteSet(DOMAIN f)
    PROVE  /\ DOMAIN f = {} => Total(f) = 0
           /\ DOMAIN f # {} => \E x \in DOMAIN f :
                                  Total(f) = f[x] + Total(Without(f, x))
<1> DEFINE S == DOMAIN f
           g == CHOOSE k : Accumulates(f, S, k)
<1>1. Accumulates(f, S, g) /\ Total(f) = g[S]
  <2>1. \E k : Accumulates(f, S, k)
    BY SumsExist
  <2> QED BY <2>1, TotalDef
<1>2. g[S] = IF S = {} THEN 0
             ELSE f[CHOOSE x \in S : TRUE] + g[S \ {CHOOSE x \in S : TRUE}]
  <2> HIDE DEF g
  <2> QED BY <1>1 DEF Accumulates
<1>3. ASSUME S # {}
      PROVE  \E x \in S : Total(f) = f[x] + Total(Without(f, x))
  <2>1. PICK x \in S : g[S] = f[x] + g[S \ {x}]
    <3> HIDE DEF g, S
    <3> QED BY <1>2, <1>3
  <2> DEFINE e == Without(f, x)
             h == CHOOSE k : Accumulates(e, DOMAIN e, k)
  <2>2. DOMAIN e = S \ {x} /\ \A y \in DOMAIN e : e[y] = f[y]
    BY DEF Without
  <2>3. IsFiniteSet(DOMAIN e)
    BY <2>2, FS_Subset
  <2> HIDE DEF e, g
  <2>4. Accumulates(e, DOMAIN e, h) /\ Total(e) = h[DOMAIN e]
    <3>1. \E k : Accumulates(e, DOMAIN e, k)
      BY <2>3, SumsExist
    <3> QED BY <3>1, TotalDef
  <2> HIDE DEF h
  <2>5. h[DOMAIN e] = g[DOMAIN e]
    <3>1. DOMAIN e \in SUBSET S
      BY <2>2
    <3>2. \A t \in SUBSET DOMAIN e : h[t] = g[t]
      BY <1>1, <2>2, <2>4, <3>1, SumsAgree
    <3> QED BY <3>2
  <2> QED BY <1>1, <2>1, <2>2, <2>4, <2>5 DEF e
<1> QED BY <1>1, <1>2, <1>3

(* A function of finitely many arguments to numbers.                       *)
Numbers(f) == IsFiniteSet(DOMAIN f) /\ \A x \in DOMAIN f : f[x] \in Int

(* One argument less.                                                      *)
LEMMA WithoutFacts ==
    ASSUME NEW f, Numbers(f), NEW x \in DOMAIN f
    PROVE  /\ Numbers(Without(f, x)) /\ DOMAIN Without(f, x) = DOMAIN f \ {x}
           /\ \A y \in DOMAIN f \ {x} : Without(f, x)[y] = f[y]
           /\ Cardinality(DOMAIN f) \in Nat
           /\ Cardinality(DOMAIN Without(f, x)) = Cardinality(DOMAIN f) - 1
           /\ Cardinality(DOMAIN Without(f, x)) \in Nat
BY FS_RemoveElement, FS_CardinalityType DEF Without, Numbers

(* A sum of numbers is a number, and any argument may be taken first.      *)
LEMMA TotalFacts ==
    ASSUME NEW f, Numbers(f)
    PROVE  /\ Total(f) \in Int
           /\ \A x \in DOMAIN f : Total(f) = f[x] + Total(Without(f, x))
<1> DEFINE P(e) == /\ Total(e) \in Int
                   /\ \A x \in DOMAIN e : Total(e) = e[x] + Total(Without(e, x))
           bad == {n \in Nat : \E e : Numbers(e) /\ Cardinality(DOMAIN e) = n /\ ~P(e)}
<1> SUFFICES ASSUME bad # {} PROVE FALSE
  <2>1. Cardinality(DOMAIN f) \in Nat
    BY FS_CardinalityType DEF Numbers
  <2>2. bad = {} => P(f)
    <3> HIDE DEF P
    <3> QED BY <2>1
  <2> HIDE DEF bad
  <2> QED BY <2>2
<1>1. PICK m \in bad : \A x \in bad : m <= x
  <2>1. bad \in SUBSET Nat
    OBVIOUS
  <2> HIDE DEF bad
  <2> QED BY <2>1, JP!LeastNumber
<1>2. PICK e : Numbers(e) /\ Cardinality(DOMAIN e) = m /\ ~P(e)
  <2> HIDE DEF P
  <2> QED BY <1>1
<1>3. ASSUME NEW k, Numbers(k), Cardinality(DOMAIN k) \in Nat,
             Cardinality(DOMAIN k) < m
      PROVE  P(k)
  <2>1. Cardinality(DOMAIN k) \notin bad
    <3>1. m \in Nat
      BY <1>1
    <3> HIDE DEF bad
    <3> QED BY <1>1, <1>3, <3>1
  <2> HIDE DEF P
  <2> QED BY <1>3, <2>1
<1>m. m \in Nat
  BY <1>1
<1> HIDE DEF P, bad
<1>4. ASSUME NEW x \in DOMAIN e PROVE P(Without(e, x))
  <2>1. /\ Numbers(Without(e, x)) /\ Cardinality(DOMAIN Without(e, x)) \in Nat
        /\ Cardinality(DOMAIN Without(e, x)) = m - 1
    BY <1>2, WithoutFacts
  <2> QED BY <1>3, <1>m, <2>1
<1>5. DOMAIN e # {}
  <2>1. DOMAIN e = {} => P(e)
    BY <1>2, TotalStep DEF Numbers, P
  <2> QED BY <1>2, <2>1
<1>6. PICK c \in DOMAIN e : Total(e) = e[c] + Total(Without(e, c))
  BY <1>2, <1>5, TotalStep DEF Numbers
<1>7. Total(e) \in Int /\ Total(Without(e, c)) \in Int /\ e[c] \in Int
  BY <1>2, <1>4, <1>6 DEF Numbers, P
<1>8. ASSUME NEW x \in DOMAIN e, x # c PROVE Total(e) = e[x] + Total(Without(e, x))
  <2>1. /\ Total(Without(e, c)) = e[x] + Total(Without(Without(e, c), x))
        /\ Total(Without(e, x)) = e[c] + Total(Without(Without(e, x), c))
    <3>1. /\ x \in DOMAIN Without(e, c) /\ Without(e, c)[x] = e[x]
          /\ c \in DOMAIN Without(e, x) /\ Without(e, x)[c] = e[c]
      BY <1>2, <1>8, WithoutFacts
    <3> QED BY <1>4, <3>1 DEF P
  <2>2. Without(Without(e, c), x) = Without(Without(e, x), c)
    <3>1. /\ DOMAIN Without(e, c) = DOMAIN e \ {c} /\ DOMAIN Without(e, x) = DOMAIN e \ {x}
          /\ \A y \in DOMAIN e \ {c} : Without(e, c)[y] = e[y]
          /\ \A y \in DOMAIN e \ {x} : Without(e, x)[y] = e[y]
      BY <1>2, WithoutFacts
    <3>2. (DOMAIN e \ {c}) \ {x} = (DOMAIN e \ {x}) \ {c}
      OBVIOUS
    <3>3. Without(Without(e, c), x) = [y \in (DOMAIN e \ {c}) \ {x} |-> e[y]]
      <4>1. Without(Without(e, c), x) = [y \in (DOMAIN e \ {c}) \ {x} |-> Without(e, c)[y]]
        BY <3>1 DEF Without
      <4> QED BY <3>1, <4>1
    <3>4. Without(Without(e, x), c) = [y \in (DOMAIN e \ {x}) \ {c} |-> e[y]]
      <4>1. Without(Without(e, x), c) = [y \in (DOMAIN e \ {x}) \ {c} |-> Without(e, x)[y]]
        BY <3>1 DEF Without
      <4> QED BY <3>1, <4>1
    <3> QED BY <3>2, <3>3, <3>4
  <2>3. Total(Without(Without(e, c), x)) \in Int /\ e[x] \in Int
    <3>1. Numbers(Without(e, c)) /\ x \in DOMAIN Without(e, c)
      BY <1>2, <1>8, WithoutFacts
    <3>2. /\ Numbers(Without(Without(e, c), x))
          /\ Cardinality(DOMAIN Without(Without(e, c), x)) \in Nat
          /\ Cardinality(DOMAIN Without(Without(e, c), x)) < m
      <4>1. Cardinality(DOMAIN Without(e, c)) = m - 1
        BY <1>2, WithoutFacts
      <4>2. /\ Numbers(Without(Without(e, c), x))
            /\ Cardinality(DOMAIN Without(Without(e, c), x)) \in Nat
            /\ Cardinality(DOMAIN Without(Without(e, c), x))
                  = Cardinality(DOMAIN Without(e, c)) - 1
        BY <3>1, WithoutFacts
      <4> QED BY <1>m, <4>1, <4>2
    <3>3. P(Without(Without(e, c), x))
      BY <1>3, <3>2
    <3> QED BY <1>2, <1>8, <3>3 DEF Numbers, P
  <2> QED BY <1>6, <1>7, <2>1, <2>2, <2>3
<1> QED BY <1>2, <1>6, <1>7, <1>8 DEF P

(* Two functions that differ at one argument.                              *)
LEMMA TotalChange ==
    ASSUME NEW f, NEW g, Numbers(f), Numbers(g), DOMAIN f = DOMAIN g,
           NEW x \in DOMAIN f, \A y \in DOMAIN f \ {x} : g[y] = f[y]
    PROVE  Total(g) = Total(f) - f[x] + g[x]
<1>1. Without(f, x) = Without(g, x)
  BY DEF Without
<1>2. Total(f) = f[x] + Total(Without(f, x)) /\ Total(g) = g[x] + Total(Without(g, x))
  BY TotalFacts
<1>3. f[x] \in Int /\ g[x] \in Int /\ Total(Without(f, x)) \in Int
  BY TotalFacts, WithoutFacts DEF Numbers
<1> QED BY <1>1, <1>2, <1>3

(* A sum of sums, by the least number of arguments it would fail for.      *)
LEMMA TotalAdd ==
    ASSUME NEW f, NEW g, NEW h, Numbers(f), Numbers(g), Numbers(h),
           DOMAIN g = DOMAIN f, DOMAIN h = DOMAIN f,
           \A x \in DOMAIN f : h[x] = f[x] + g[x]
    PROVE  Total(h) = Total(f) + Total(g)
<1> DEFINE Adds(a, b, c) == /\ Numbers(a) /\ Numbers(b) /\ Numbers(c)
                            /\ DOMAIN b = DOMAIN a /\ DOMAIN c = DOMAIN a
                            /\ \A x \in DOMAIN a : c[x] = a[x] + b[x]
           bad == {n \in Nat : \E a, b, c :
                      /\ Adds(a, b, c) /\ Cardinality(DOMAIN a) = n
                      /\ Total(c) # Total(a) + Total(b)}
<1>a. Adds(f, g, h)
  OBVIOUS
<1>b. \A a, b, c : Adds(a, b, c) => Numbers(a) /\ Numbers(b) /\ Numbers(c)
  OBVIOUS
<1>c. \A a, b, c : Adds(a, b, c) =>
          /\ DOMAIN b = DOMAIN a /\ DOMAIN c = DOMAIN a
          /\ \A x \in DOMAIN a : c[x] = a[x] + b[x]
  OBVIOUS
<1> SUFFICES ASSUME bad # {} PROVE FALSE
  <2>1. Cardinality(DOMAIN f) \in Nat
    BY FS_CardinalityType DEF Numbers
  <2> HIDE DEF Adds
  <2>2. bad = {} => Total(h) = Total(f) + Total(g)
    BY <1>a, <2>1
  <2> HIDE DEF bad
  <2> QED BY <2>2
<1>1. PICK m \in bad : \A x \in bad : m <= x
  <2>1. bad \in SUBSET Nat
    OBVIOUS
  <2> HIDE DEF bad
  <2> QED BY <2>1, JP!LeastNumber
<1> HIDE DEF Adds
<1>2. PICK a, b, c : /\ Adds(a, b, c) /\ Cardinality(DOMAIN a) = m
                     /\ Total(c) # Total(a) + Total(b)
  BY <1>1
<1>3. m \in Nat
  BY <1>1
<1> HIDE DEF bad
<1>4. DOMAIN a # {}
  <2> SUFFICES ASSUME DOMAIN a = {} PROVE Total(c) = Total(a) + Total(b)
    BY <1>2
  <2>1. Total(a) = 0 /\ Total(b) = 0 /\ Total(c) = 0
    BY <1>2, <1>b, <1>c, TotalStep DEF Numbers
  <2> QED BY <2>1
<1>5. PICK x \in DOMAIN a : TRUE
  BY <1>4
<1> DEFINE a1 == Without(a, x)
           b1 == Without(b, x)
           c1 == Without(c, x)
<1>6. x \in DOMAIN b /\ x \in DOMAIN c /\ Numbers(a) /\ Numbers(b) /\ Numbers(c)
  BY <1>2, <1>5, <1>b, <1>c
<1>7. /\ Numbers(a1) /\ Numbers(b1) /\ Numbers(c1)
      /\ DOMAIN a1 = DOMAIN a \ {x} /\ DOMAIN b1 = DOMAIN b \ {x}
      /\ DOMAIN c1 = DOMAIN c \ {x}
      /\ \A y \in DOMAIN a \ {x} : a1[y] = a[y]
      /\ \A y \in DOMAIN b \ {x} : b1[y] = b[y]
      /\ \A y \in DOMAIN c \ {x} : c1[y] = c[y]
      /\ Cardinality(DOMAIN a1) = m - 1 /\ Cardinality(DOMAIN a1) \in Nat
  BY <1>2, <1>6, WithoutFacts
<1>8. /\ Total(a) = a[x] + Total(a1) /\ Total(b) = b[x] + Total(b1)
      /\ Total(c) = c[x] + Total(c1)
      /\ Total(a1) \in Int /\ Total(b1) \in Int /\ Total(c1) \in Int
      /\ a[x] \in Int /\ b[x] \in Int
  BY <1>6, <1>7, TotalFacts DEF Numbers
<1> HIDE DEF a1, b1, c1
<1>9. Adds(a1, b1, c1)
  <2>1. /\ DOMAIN b1 = DOMAIN a1 /\ DOMAIN c1 = DOMAIN a1
        /\ \A y \in DOMAIN a1 : c1[y] = a1[y] + b1[y]
    BY <1>2, <1>7, <1>c
  <2> QED BY <1>7, <2>1 DEF Adds
<1>10. Total(c1) = Total(a1) + Total(b1)
  <2>1. m - 1 \notin bad /\ m - 1 \in Nat
    BY <1>1, <1>3, <1>7
  <2> QED BY <1>7, <1>9, <2>1 DEF bad
<1>11. c[x] = a[x] + b[x]
  BY <1>2, <1>5, <1>c
<1> QED BY <1>2, <1>8, <1>10, <1>11

(* A sum of natural numbers is one.                                        *)
LEMMA TotalNat ==
    ASSUME NEW f, IsFiniteSet(DOMAIN f), \A x \in DOMAIN f : f[x] \in Nat
    PROVE  Total(f) \in Nat
<1> DEFINE Naturals1(e) == IsFiniteSet(DOMAIN e) /\ \A x \in DOMAIN e : e[x] \in Nat
           bad == {n \in Nat : \E e : /\ Naturals1(e) /\ Cardinality(DOMAIN e) = n
                                      /\ Total(e) \notin Nat}
<1> SUFFICES ASSUME bad # {} PROVE FALSE
  <2>1. Cardinality(DOMAIN f) \in Nat
    BY FS_CardinalityType
  <2>2. bad = {} => Total(f) \in Nat
    BY <2>1
  <2> HIDE DEF bad
  <2> QED BY <2>2
<1>1. PICK m \in bad : \A x \in bad : m <= x
  <2>1. bad \in SUBSET Nat
    OBVIOUS
  <2> HIDE DEF bad
  <2> QED BY <2>1, JP!LeastNumber
<1>2. PICK e : /\ Naturals1(e) /\ Cardinality(DOMAIN e) = m /\ Total(e) \notin Nat
  BY <1>1
<1>0. m \in Nat
  BY <1>1
<1> HIDE DEF bad
<1>3. DOMAIN e # {} /\ Numbers(e)
  <2>1. DOMAIN e = {} => Total(e) = 0
    BY <1>2, TotalStep
  <2>2. Numbers(e)
    BY <1>2 DEF Numbers
  <2> QED BY <1>2, <2>1, <2>2
<1>4. PICK x \in DOMAIN e : Total(e) = e[x] + Total(Without(e, x))
  BY <1>2, <1>3, TotalStep
<1>5. /\ Naturals1(Without(e, x))
      /\ Cardinality(DOMAIN Without(e, x)) = m - 1 /\ m - 1 \in Nat /\ ~(m <= m - 1)
  <2>1. /\ IsFiniteSet(DOMAIN Without(e, x))
        /\ DOMAIN Without(e, x) = DOMAIN e \ {x}
        /\ \A y \in DOMAIN e \ {x} : Without(e, x)[y] = e[y]
        /\ Cardinality(DOMAIN Without(e, x)) = m - 1 /\ m - 1 \in Nat
    BY <1>2, <1>3, WithoutFacts DEF Numbers
  <2> QED BY <1>0, <1>2, <2>1
<1>6. Total(Without(e, x)) \in Nat
  <2>1. m - 1 \notin bad
    BY <1>1, <1>5
  <2> QED BY <1>5, <2>1 DEF bad
<1>7. e[x] \in Nat
  BY <1>2
<1> QED BY <1>2, <1>4, <1>6, <1>7

(* A sum of zeros is zero: it is twice what it is.                         *)
LEMMA TotalZero ==
    ASSUME NEW f, IsFiniteSet(DOMAIN f), \A x \in DOMAIN f : f[x] = 0
    PROVE  Total(f) = 0
<1>1. Numbers(f)
  BY DEF Numbers
<1>2. Total(f) = Total(f) + Total(f)
  BY <1>1, TotalAdd
<1> QED BY <1>1, <1>2, TotalFacts
-------------------------------------------------------------------------------
(* A set of numbers in ascending order: the place of each is the count of  *)
(* those below it.                                                         *)
LEMMA InOrderFacts ==
    ASSUME NEW S, IsFiniteSet(S), S \subseteq Int
    PROVE  /\ Cardinality(S) \in Nat /\ DOMAIN InOrder(S) = 1..Cardinality(S)
           /\ InOrder(S) \in Bijection(1..Cardinality(S), S)
<1> DEFINE n == Cardinality(S)
           below(x) == {y \in S : y < x}
           place == [x \in S |-> Cardinality(below(x))]
<1>1. n \in Nat
  BY FS_CardinalityType
<1>2. ASSUME NEW x \in S PROVE place[x] \in 0..(n - 1)
  <2>1. IsFiniteSet(S \ {x}) /\ Cardinality(S \ {x}) = n - 1
    BY FS_RemoveElement
  <2>2. below(x) \in SUBSET (S \ {x})
    BY <1>2
  <2>3. IsFiniteSet(below(x)) /\ Cardinality(below(x)) <= n - 1
    BY <2>1, <2>2, FS_Subset
  <2>4. Cardinality(below(x)) \in Nat
    BY <2>3, FS_CardinalityType
  <2> QED BY <1>1, <2>3, <2>4
<1>3. ASSUME NEW x \in S, NEW y \in S, x < y PROVE place[x] # place[y]
  <2>1. below(x) \in SUBSET below(y) /\ x \in below(y) /\ x \notin below(x)
    <3>1. \A z \in S : z < x => z < y
      <4>1. x \in Int /\ y \in Int /\ \A z \in S : z \in Int
        OBVIOUS
      <4> QED BY <1>3, <4>1
    <3>2. x \in Int
      OBVIOUS
    <3>3. below(x) \subseteq below(y)
      BY <3>1
    <3>4. x \in below(y)
      BY <1>3
    <3>5. x \notin below(x)
      BY <3>2
    <3> HIDE DEF below
    <3> QED BY <3>3, <3>4, <3>5
  <2>2. IsFiniteSet(below(y))
    <3>1. below(y) \in SUBSET S
      OBVIOUS
    <3> QED BY <3>1, FS_Subset
  <2>3. Cardinality(below(y)) # Cardinality(below(x))
    BY <2>1, <2>2, FS_Subset
  <2> QED BY <2>3
<1>4. place \in Injection(S, 0..(n - 1))
  <2>1. place \in [S -> 0..(n - 1)]
    BY <1>2
  <2>2. \A x, y \in S : place[x] = place[y] => x = y
    BY <1>3
  <2>3. IsInjective(place)
    BY <2>1, <2>2 DEF IsInjective
  <2> HIDE DEF place
  <2> QED BY <2>1, <2>3 DEF Injection
<1>5. place \in Surjection(S, 0..(n - 1))
  <2>1. IsFiniteSet(0..(n - 1)) /\ Cardinality(0..(n - 1)) = n
    BY <1>1, FS_Interval
  <2> HIDE DEF place
  <2> QED BY <1>4, <2>1, FS_Injection
<1>6. ASSUME NEW k \in 1..n
      PROVE  InOrder(S)[k] \in S /\ place[InOrder(S)[k]] = k - 1
  <2>1. k - 1 \in 0..(n - 1)
    BY <1>1
  <2>2. \E x \in S : place[x] = k - 1
    <3> HIDE DEF place
    <3> QED BY <1>5, <2>1 DEF Surjection
  <2>3. InOrder(S)[k] = CHOOSE x \in S : Cardinality({y \in S : y < x}) = k - 1
    <3>1. InOrder(S) = [j \in 1..n |->
                           CHOOSE x \in S : Cardinality({y \in S : y < x}) = j - 1]
      <4> HIDE DEF place, below
      <4> QED BY DEF InOrder
    <3> HIDE DEF place, below, n
    <3> QED BY <3>1, Zenon
  <2>4. \E x \in S : Cardinality(below(x)) = k - 1
    BY <2>2
  <2>5. /\ InOrder(S)[k] \in S
        /\ Cardinality({y \in S : y < InOrder(S)[k]}) = k - 1
    <3> HIDE DEF place
    <3> QED BY <2>3, <2>4
  <2> QED BY <2>5
<1>7. DOMAIN InOrder(S) = 1..n /\ InOrder(S) \in [1..n -> S]
  <2> DEFINE at(k) == CHOOSE x \in S : Cardinality({y \in S : y < x}) = k - 1
  <2>1. InOrder(S) = [k \in 1..n |-> at(k)]
    <3> HIDE DEF place, below
    <3> QED BY DEF InOrder
  <2> HIDE DEF place, at, n
  <2> QED BY <1>6, <2>1
<1> HIDE DEF place
<1>8. IsInjective(InOrder(S))
  BY <1>1, <1>6, <1>7 DEF IsInjective
<1>9. ASSUME NEW x \in S PROVE \E k \in 1..n : InOrder(S)[k] = x
  <2>1. place[x] + 1 \in 1..n /\ (place[x] + 1) - 1 = place[x]
    BY <1>1, <1>2
  <2>2. place[InOrder(S)[place[x] + 1]] = place[x] /\ InOrder(S)[place[x] + 1] \in S
    BY <1>6, <2>1
  <2>3. InOrder(S)[place[x] + 1] = x
    BY <1>4, <2>2 DEF Injection, IsInjective
  <2> QED BY <2>1, <2>3
<1> QED BY <1>1, <1>7, <1>8, <1>9 DEF Bijection, Injection, Surjection

(* The order in which a sum is taken does not matter.                      *)
LEMMA TotalReindex ==
    ASSUME NEW f, Numbers(f), NEW e, Numbers(e), NEW b,
           b \in Bijection(DOMAIN e, DOMAIN f), \A k \in DOMAIN e : e[k] = f[b[k]]
    PROVE  Total(e) = Total(f)
<1> DEFINE Same(x, y, c) == /\ Numbers(x) /\ Numbers(y)
                            /\ c \in Bijection(DOMAIN y, DOMAIN x)
                            /\ \A k \in DOMAIN y : y[k] = x[c[k]]
           bad == {n \in Nat : \E x, y, c : /\ Same(x, y, c) /\ Cardinality(DOMAIN y) = n
                                            /\ Total(y) # Total(x)}
<1>a. Same(f, e, b)
  OBVIOUS
<1>b. \A x, y, c : Same(x, y, c) =>
          /\ Numbers(x) /\ Numbers(y) /\ c \in [DOMAIN y -> DOMAIN x]
          /\ \A k, m \in DOMAIN y : c[k] = c[m] => k = m
          /\ \A u \in DOMAIN x : \E k \in DOMAIN y : c[k] = u
          /\ \A k \in DOMAIN y : y[k] = x[c[k]]
  BY DEF Bijection, Injection, Surjection, IsInjective
<1> HIDE DEF Same
<1> SUFFICES ASSUME bad # {} PROVE FALSE
  <2>1. Cardinality(DOMAIN e) \in Nat
    BY FS_CardinalityType DEF Numbers
  <2>2. bad = {} => Total(e) = Total(f)
    BY <1>a, <2>1
  <2> HIDE DEF bad
  <2> QED BY <2>2
<1>1. PICK m \in bad : \A x \in bad : m <= x
  <2>1. bad \in SUBSET Nat
    OBVIOUS
  <2> HIDE DEF bad
  <2> QED BY <2>1, JP!LeastNumber
<1>2. PICK x, y, c : /\ Same(x, y, c) /\ Cardinality(DOMAIN y) = m
                     /\ Total(y) # Total(x)
  BY <1>1
<1>3. m \in Nat
  BY <1>1
<1> HIDE DEF bad
<1>4. /\ Numbers(x) /\ Numbers(y) /\ c \in [DOMAIN y -> DOMAIN x]
      /\ \A k, l \in DOMAIN y : c[k] = c[l] => k = l
      /\ \A u \in DOMAIN x : \E k \in DOMAIN y : c[k] = u
      /\ \A k \in DOMAIN y : y[k] = x[c[k]]
  BY <1>2, <1>b
<1>5. DOMAIN y # {}
  <2> SUFFICES ASSUME DOMAIN y = {} PROVE Total(y) = Total(x)
    BY <1>2
  <2>1. DOMAIN x = {}
    BY <1>4
  <2> QED BY <1>4, <2>1, TotalStep DEF Numbers
<1>6. PICK k \in DOMAIN y : TRUE
  BY <1>5
<1> DEFINE x1 == Without(x, c[k])
           y1 == Without(y, k)
           c1 == [l \in DOMAIN y \ {k} |-> c[l]]
<1>n. Numbers(x) /\ Numbers(y) /\ c[k] \in DOMAIN x /\ Cardinality(DOMAIN y) = m
  BY <1>2, <1>4, <1>6
<1>7. /\ Numbers(y1) /\ DOMAIN y1 = DOMAIN y \ {k}
      /\ \A l \in DOMAIN y \ {k} : y1[l] = y[l]
      /\ Cardinality(DOMAIN y1) = m - 1 /\ Cardinality(DOMAIN y1) \in Nat
  BY <1>n, <1>6, WithoutFacts
<1>8. /\ c[k] \in DOMAIN x /\ Numbers(x1) /\ DOMAIN x1 = DOMAIN x \ {c[k]}
      /\ \A u \in DOMAIN x \ {c[k]} : x1[u] = x[u]
  BY <1>n, WithoutFacts
<1>9. Total(y) = y[k] + Total(y1) /\ Total(x) = x[c[k]] + Total(x1) /\ y[k] = x[c[k]]
  BY <1>4, <1>6, <1>8, TotalFacts
<1> HIDE DEF x1, y1
<1>10. Same(x1, y1, c1)
  <2>1. /\ DOMAIN c1 = DOMAIN y1 /\ \A l \in DOMAIN y1 : c1[l] = c[l]
        /\ c1 = [l \in DOMAIN y1 |-> c[l]]
    BY <1>7
  <2> HIDE DEF c1
  <2>2. \A l \in DOMAIN y1 : c1[l] \in DOMAIN x1 /\ y1[l] = x1[c1[l]]
    BY <1>4, <1>6, <1>7, <1>8, <2>1
  <2>3. c1 \in [DOMAIN y1 -> DOMAIN x1]
    BY <2>1, <2>2
  <2>4. IsInjective(c1)
    BY <1>4, <1>7, <2>1 DEF IsInjective
  <2>5. \A u \in DOMAIN x1 : \E l \in DOMAIN y1 : c1[l] = u
    BY <1>4, <1>6, <1>7, <1>8, <2>1
  <2> QED BY <1>7, <1>8, <2>2, <2>3, <2>4, <2>5 DEF Same, Bijection, Injection, Surjection
<1>11. Total(y1) = Total(x1)
  <2> HIDE DEF c1
  <2>1. m - 1 \notin bad /\ m - 1 \in Nat
    BY <1>1, <1>3, <1>7
  <2> QED BY <1>7, <1>10, <2>1 DEF bad
<1> QED BY <1>2, <1>9, <1>11

(* Zeros may be left out.                                                  *)
LEMMA TotalPad ==
    ASSUME NEW f, Numbers(f), NEW e, IsFiniteSet(DOMAIN e), DOMAIN f \subseteq DOMAIN e,
           \A x \in DOMAIN e : e[x] = IF x \in DOMAIN f THEN f[x] ELSE 0
    PROVE  Total(e) = Total(f)
<1> DEFINE Pads(g) == /\ IsFiniteSet(DOMAIN g) /\ DOMAIN f \subseteq DOMAIN g
                      /\ \A x \in DOMAIN g : g[x] = IF x \in DOMAIN f THEN f[x] ELSE 0
           bad == {n \in Nat : \E g : /\ Pads(g) /\ Cardinality(DOMAIN g) = n
                                      /\ Total(g) # Total(f)}
<1>a. Pads(e)
  OBVIOUS
<1>b. \A g : Pads(g) =>
          /\ Numbers(g) /\ DOMAIN f \subseteq DOMAIN g
          /\ \A x \in DOMAIN g : g[x] = IF x \in DOMAIN f THEN f[x] ELSE 0
  BY DEF Numbers
<1>c. \A g : /\ Numbers(g) /\ DOMAIN f \subseteq DOMAIN g
             /\ \A x \in DOMAIN g : g[x] = IF x \in DOMAIN f THEN f[x] ELSE 0
             => Pads(g)
  BY DEF Numbers
<1> HIDE DEF Pads
<1> SUFFICES ASSUME bad # {} PROVE FALSE
  <2>1. Cardinality(DOMAIN e) \in Nat
    BY FS_CardinalityType
  <2>2. bad = {} => Total(e) = Total(f)
    BY <1>a, <2>1
  <2> HIDE DEF bad
  <2> QED BY <2>2
<1>1. PICK m \in bad : \A x \in bad : m <= x
  <2>1. bad \in SUBSET Nat
    OBVIOUS
  <2> HIDE DEF bad
  <2> QED BY <2>1, JP!LeastNumber
<1>2. PICK g : Pads(g) /\ Cardinality(DOMAIN g) = m /\ Total(g) # Total(f)
  BY <1>1
<1>3. m \in Nat
  BY <1>1
<1> HIDE DEF bad
<1>4. /\ Numbers(g) /\ DOMAIN f \subseteq DOMAIN g
      /\ \A x \in DOMAIN g : g[x] = IF x \in DOMAIN f THEN f[x] ELSE 0
  BY <1>2, <1>b
<1>5. DOMAIN g # DOMAIN f
  <2> SUFFICES ASSUME DOMAIN g = DOMAIN f PROVE Total(g) = Total(f)
    BY <1>2
  <2>1. [x \in DOMAIN f |-> x] \in Bijection(DOMAIN g, DOMAIN f)
    BY DEF Bijection, Injection, Surjection, IsInjective
  <2>2. \A x \in DOMAIN g : g[x] = f[[y \in DOMAIN f |-> y][x]]
    BY <1>4
  <2> QED BY <1>4, <2>1, <2>2, TotalReindex
<1>6. PICK x \in DOMAIN g : x \notin DOMAIN f
  BY <1>4, <1>5
<1> DEFINE g1 == Without(g, x)
<1>7. /\ Numbers(g1) /\ DOMAIN g1 = DOMAIN g \ {x}
      /\ \A l \in DOMAIN g \ {x} : g1[l] = g[l]
      /\ Cardinality(DOMAIN g1) = m - 1 /\ Cardinality(DOMAIN g1) \in Nat
  BY <1>2, <1>4, <1>6, WithoutFacts
<1>8. Total(g) = g[x] + Total(g1) /\ Total(g1) \in Int
  BY <1>4, <1>6, <1>7, TotalFacts
<1> HIDE DEF g1
<1>9. g[x] = 0
  BY <1>4, <1>6
<1>10. Pads(g1)
  <2>1. DOMAIN f \subseteq DOMAIN g1
    BY <1>4, <1>6, <1>7
  <2>2. \A l \in DOMAIN g1 : g1[l] = IF l \in DOMAIN f THEN f[l] ELSE 0
    BY <1>4, <1>7
  <2> QED BY <1>7, <2>1, <2>2, <1>c
<1>11. Total(g1) = Total(f)
  <2>1. m - 1 \notin bad /\ m - 1 \in Nat
    BY <1>1, <1>3, <1>7
  <2> QED BY <1>7, <1>10, <2>1 DEF bad
<1> QED BY <1>2, <1>8, <1>9, <1>11
-------------------------------------------------------------------------------
(* f[i] joins the first i of the sequences, for each i up to n.            *)
Joins(part, n, f) ==
    f = [i \in 1..n |-> IF i = 1 THEN part[i] ELSE f[i - 1] \o part[i]]

(* The first sequences can be joined one after the other.                  *)
LEMMA JoinsExist ==
    ASSUME NEW part, NEW n \in Nat
    PROVE  \E f : Joins(part, n, f)
<1> DEFINE bad == {k \in Nat : ~\E f : Joins(part, k, f)}
<1> SUFFICES ASSUME bad # {} PROVE FALSE
  OBVIOUS
<1>1. PICK m \in bad : \A x \in bad : m <= x
  <2>1. bad \in SUBSET Nat
    OBVIOUS
  <2> HIDE DEF bad
  <2> QED BY <2>1, JP!LeastNumber
<1>2. m # 0
  <2>1. Joins(part, 0, [i \in 1..0 |-> {}])
    BY DEF Joins
  <2> QED BY <1>1, <2>1
<1>3. m - 1 \in Nat /\ ~(m <= m - 1) /\ m \in Nat
  BY <1>1, <1>2
<1>4. PICK f : Joins(part, m - 1, f)
  BY <1>1, <1>3
<1> DEFINE at(i, g) == IF i = 1 THEN part[i] ELSE g[i - 1] \o part[i]
           h == [i \in 1..m |-> at(i, f)]
<1>5. ASSUME NEW i \in 1..m PROVE h[i] = at(i, h)
  <2>1. h[i] = at(i, f)
    <3> HIDE DEF at
    <3> QED OBVIOUS
  <2>2. i # 1 => h[i - 1] = f[i - 1]
    <3> SUFFICES ASSUME i # 1 PROVE h[i - 1] = f[i - 1]
      OBVIOUS
    <3>1. i - 1 \in 1..(m - 1) /\ i - 1 \in 1..m
      BY <1>3
    <3>2. f[i - 1] = at(i - 1, f)
      <4> DEFINE j == i - 1
      <4>1. f = [k \in 1..(m - 1) |-> at(k, f)]
        BY <1>4 DEF Joins
      <4>2. j \in 1..(m - 1)
        BY <3>1
      <4>3. f[j] = at(j, f)
        <5> HIDE DEF j, at
        <5> QED BY <4>1, <4>2, Zenon
      <4> QED BY <4>3
    <3>3. h[i - 1] = at(i - 1, f)
      <4> HIDE DEF at
      <4> QED BY <3>1
    <3> QED BY <3>2, <3>3
  <2> HIDE DEF h
  <2> QED BY <2>1, <2>2
<1>6. h = [i \in 1..m |-> at(i, h)]
  <2>1. h = [i \in 1..m |-> h[i]]
    OBVIOUS
  <2> HIDE DEF h, at
  <2> QED BY <1>5, <2>1
<1>7. Joins(part, m, h)
  <2> HIDE DEF h
  <2> QED BY <1>6 DEF Joins
<1> HIDE DEF h
<1> QED BY <1>1, <1>7

(* The lengths of the first n of the sequences.                            *)
Lengths(part, n) == [k \in 1..n |-> Len(part[k])]

(* The lengths add up one after the other.                                 *)
LEMMA LengthsStep ==
    ASSUME NEW S, NEW part \in Seq(Seq(S)), NEW n \in 0..Len(part)
    PROVE  /\ Numbers(Lengths(part, n)) /\ Total(Lengths(part, 0)) = 0
           /\ n # 0 => Total(Lengths(part, n))
                           = Len(part[n]) + Total(Lengths(part, n - 1))
<1>0. Len(part) \in Nat /\ \A k \in 1..Len(part) : Len(part[k]) \in Int
  OBVIOUS
<1>1. \A k \in 0..Len(part) : Numbers(Lengths(part, k))
  BY <1>0, FS_Interval DEF Numbers, Lengths
<1>2. Total(Lengths(part, 0)) = 0
  <2>1. DOMAIN Lengths(part, 0) = {} /\ 0 \in 0..Len(part)
    BY <1>0 DEF Lengths
  <2> QED BY <1>1, <2>1, TotalStep DEF Numbers
<1>3. ASSUME n # 0
      PROVE  Total(Lengths(part, n)) = Len(part[n]) + Total(Lengths(part, n - 1))
  <2>1. n \in 1..n /\ 1..n \ {n} = 1..(n - 1) /\ 1..(n - 1) \subseteq 1..n
    BY <1>3
  <2>2. Without(Lengths(part, n), n) = Lengths(part, n - 1)
    BY <2>1 DEF Without, Lengths
  <2>3. n \in DOMAIN Lengths(part, n) /\ Lengths(part, n)[n] = Len(part[n])
    BY <2>1 DEF Lengths
  <2> QED BY <1>1, <2>2, <2>3, TotalFacts
<1> QED BY <1>1, <1>2, <1>3

(* Joined sequences are a sequence of all their elements.                  *)
LEMMA FlattenFacts ==
    ASSUME NEW S, NEW part \in Seq(Seq(S))
    PROVE  /\ FlattenSeq(part) \in Seq(S)
           /\ Len(FlattenSeq(part)) = Total(Lengths(part, Len(part)))
<1> DEFINE n == Len(part)
           f == CHOOSE g : Joins(part, n, g)
<1>0. n \in Nat
  OBVIOUS
<1>1. Joins(part, n, f)
  BY <1>0, JoinsExist
<1>2. FlattenSeq(part) = IF n = 0 THEN part ELSE f[n]
  BY DEF FlattenSeq, Joins
<1> HIDE DEF f
<1>3. ASSUME NEW i \in 1..n PROVE f[i] = IF i = 1 THEN part[i] ELSE f[i - 1] \o part[i]
  <2> DEFINE at(k) == IF k = 1 THEN part[k] ELSE f[k - 1] \o part[k]
  <2>1. f = [k \in 1..n |-> at(k)]
    BY <1>1 DEF Joins
  <2> HIDE DEF at
  <2>2. f[i] = at(i)
    <3> HIDE DEF n
    <3> QED BY <2>1, Zenon
  <2> QED BY <2>2 DEF at
<1>4. \A i \in 1..n : part[i] \in Seq(S)
  OBVIOUS
<1> DEFINE P(i) == f[i] \in Seq(S) /\ Len(f[i]) = Total(Lengths(part, i))
           bad == {i \in 1..n : ~P(i)}
<1>5. bad = {}
  <2> SUFFICES ASSUME bad # {} PROVE FALSE
    OBVIOUS
  <2>1. PICK m \in bad : \A x \in bad : m <= x
    <3>1. bad \in SUBSET Nat
      OBVIOUS
    <3> HIDE DEF bad
    <3> QED BY <3>1, JP!LeastNumber
  <2>2. m \in 1..n /\ ~P(m)
    BY <2>1
  <2>3. m # 1
    <3> SUFFICES ASSUME m = 1 PROVE P(1)
      BY <2>2
    <3>1. f[1] = part[1] /\ part[1] \in Seq(S) /\ 1 \in 0..Len(part)
      BY <1>0, <1>3, <1>4, <2>2
    <3>2. Total(Lengths(part, 1)) = Len(part[1]) + Total(Lengths(part, 0))
      BY <3>1, LengthsStep
    <3>3. Total(Lengths(part, 0)) = 0
      BY <3>1, LengthsStep
    <3> QED BY <3>1, <3>2, <3>3
  <2>4. m - 1 \in 1..n /\ ~(m <= m - 1) /\ m \in 0..Len(part)
    BY <1>0, <2>2, <2>3
  <2>5. P(m - 1)
    <3>1. m - 1 \notin bad
      <4> HIDE DEF bad
      <4> QED BY <2>1, <2>4
    <3> HIDE DEF P
    <3> QED BY <2>4, <3>1
  <2>6. f[m] = f[m - 1] \o part[m] /\ part[m] \in Seq(S)
    BY <1>3, <1>4, <2>2, <2>3
  <2>7. Total(Lengths(part, m)) = Len(part[m]) + Total(Lengths(part, m - 1))
    BY <2>2, <2>4, LengthsStep
  <2>8. P(m)
    <3>1. /\ f[m - 1] \in Seq(S) /\ part[m] \in Seq(S)
          /\ Len(f[m - 1]) = Total(Lengths(part, m - 1))
      BY <2>5, <2>6
    <3>2. Len(f[m]) = Len(f[m - 1]) + Len(part[m]) /\ f[m] \in Seq(S)
      <4>1. ASSUME NEW a \in Seq(S), NEW b \in Seq(S)
            PROVE  a \o b \in Seq(S) /\ Len(a \o b) = Len(a) + Len(b)
        OBVIOUS
      <4> HIDE DEF n, bad
      <4> QED BY <2>6, <3>1, <4>1
    <3>3. Len(f[m - 1]) \in Nat /\ Len(part[m]) \in Nat
      BY <3>1
    <3> HIDE DEF n
    <3> QED BY <2>7, <3>1, <3>2, <3>3
  <2> QED BY <2>2, <2>8
<1>6. CASE n = 0
  <2>1. part = <<>> /\ FlattenSeq(part) = part
    BY <1>2, <1>6
  <2>2. Total(Lengths(part, 0)) = 0
    <3>1. 0 \in 0..Len(part)
      BY <1>0
    <3> QED BY <3>1, LengthsStep
  <2>3. FlattenSeq(part) \in Seq(S) /\ Len(FlattenSeq(part)) = 0
    <3>1. <<>> \in Seq(S) /\ Len(<<>>) = 0
      OBVIOUS
    <3> QED BY <2>1, <3>1
  <2>4. Lengths(part, Len(part)) = Lengths(part, 0)
    BY <1>6
  <2> QED BY <2>2, <2>3, <2>4
<1>7. CASE n # 0
  <2>1. n \in 1..n
    BY <1>0, <1>7
  <2>2. P(n)
    <3> HIDE DEF P
    <3> QED BY <1>5, <2>1
  <2> QED BY <1>2, <1>7, <2>2
<1> QED BY <1>6, <1>7
-------------------------------------------------------------------------------
(* The mesh of a request is a graph on finitely many vertices.             *)
LEMMA RequestFacts ==
    ASSUME request \in Requests
    PROVE  /\ Len(request.rank) \in Nat /\ Vertices = 1..Len(request.rank)
           /\ IsFiniteSet(Vertices) /\ Cardinality(Vertices) = Len(request.rank)
           /\ \A v \in Vertices : Owner(v) \in Ranks
           /\ \A v : \A u \in Neighbors(v) :
                 v \in Vertices /\ u \in Vertices /\ u # v /\ {v, u} \in request.mesh
           /\ IsFiniteSet(Ranks) /\ Ranks \subseteq Nat
<1>1. /\ request.rank \in Seq(Ranks)
      /\ \A e \in request.mesh : \E a, b \in Vertices : a # b /\ e = {a, b}
  BY RequestsAssumption DEF Vertices
<1>2. Vertices = 1..Len(request.rank) /\ Len(request.rank) \in Nat
  BY <1>1 DEF Vertices
<1>3. IsFiniteSet(Vertices) /\ Cardinality(Vertices) = Len(request.rank)
  BY <1>2, FS_Interval
<1>4. \A v \in Vertices : Owner(v) \in Ranks
  BY <1>1 DEF Vertices, Owner
<1>5. ASSUME NEW v, NEW u \in Neighbors(v)
      PROVE  v \in Vertices /\ u \in Vertices /\ u # v /\ {v, u} \in request.mesh
  <2>1. PICK e \in request.mesh : v \in e /\ u \in e /\ u # v
    BY DEF Neighbors, J!Neighbors
  <2>2. PICK a \in Vertices, b \in Vertices : a # b /\ e = {a, b}
    BY <1>1
  <2>3. e = {v, u}
    BY <2>1, <2>2
  <2> QED BY <2>1, <2>2, <2>3
<1>6. IsFiniteSet(Ranks) /\ Ranks \subseteq Nat
  BY RequestsAssumption, FS_Interval DEF Ranks
<1> QED BY <1>2, <1>3, <1>4, <1>5, <1>6

(* The ranks a rank lists are its neighbours, which neighbour it.          *)
LEMMA NeighborFacts ==
    ASSUME request \in Requests, NEW r \in Ranks
    PROVE  /\ NeighborRanks(r) \subseteq Ranks \ {r}
           /\ \A q \in NeighborRanks(r) : r \in NeighborRanks(q)
           /\ RankList(r) \in Bijection(DOMAIN RankList(r), NeighborRanks(r))
           /\ RankList(r) \in Seq(Ranks)
           /\ Len(RankList(r)) = Cardinality(NeighborRanks(r))
           /\ Len(RankList(r)) = 0 <=> NeighborRanks(r) = {}
           /\ Len(RankList(r)) \in Nat /\ DOMAIN RankList(r) = 1..Len(RankList(r))
           /\ IsFiniteSet(NeighborRanks(r))
<1>1. NeighborRanks(r) \subseteq Ranks \ {r}
  BY DEF NeighborRanks
<1>2. \A q \in NeighborRanks(r) : r \in NeighborRanks(q)
  <2> SUFFICES ASSUME NEW q \in NeighborRanks(r) PROVE r \in NeighborRanks(q)
    OBVIOUS
  <2>1. q \in Ranks \ {r} /\ r \in Ranks \ {q} /\ {r, q} = {q, r}
    BY <1>1
  <2> QED BY <2>1 DEF NeighborRanks
<1>3. IsFiniteSet(NeighborRanks(r)) /\ NeighborRanks(r) \subseteq Int
  <2>1. IsFiniteSet(Ranks) /\ Ranks \subseteq Nat
    BY RequestFacts
  <2>2. NeighborRanks(r) \in SUBSET Ranks
    BY <1>1
  <2>3. IsFiniteSet(NeighborRanks(r))
    BY <2>1, <2>2, FS_Subset
  <2>4. \A q \in NeighborRanks(r) : q \in Ranks
    BY <2>2
  <2>5. \A q \in Ranks : q \in Int
    BY <2>1
  <2> QED BY <2>3, <2>4, <2>5
<1>4. LET n == Cardinality(NeighborRanks(r)) IN
      /\ n \in Nat /\ DOMAIN RankList(r) = 1..n
      /\ RankList(r) \in Bijection(1..n, NeighborRanks(r))
  BY <1>3, InOrderFacts DEF RankList
<1>5. /\ RankList(r) \in Seq(Ranks)
      /\ Len(RankList(r)) = Cardinality(NeighborRanks(r))
  <2>1. RankList(r) \in [1..Cardinality(NeighborRanks(r)) -> Ranks]
    BY <1>1, <1>4 DEF Bijection, Injection
  <2> QED BY <1>4, <2>1
<1>6. Cardinality(NeighborRanks(r)) = 0 <=> NeighborRanks(r) = {}
  BY <1>3, FS_EmptySet
<1> QED BY <1>1, <1>2, <1>3, <1>4, <1>5, <1>6

(* A finite set of numbers has a greatest one.                             *)
LEMMA MaxFacts ==
    ASSUME NEW n \in Nat, NEW S, S \subseteq 1..n, S # {}
    PROVE  Max(S) \in S /\ \A x \in S : x <= Max(S)
<1> DEFINE up == {b \in Nat : \A x \in S : x <= b}
<1>1. PICK b \in up : \A c \in up : b <= c
  <2>1. up \in SUBSET Nat /\ n \in up
    OBVIOUS
  <2> HIDE DEF up
  <2> QED BY <2>1, JP!LeastNumber
<1>2. b \in S
  <2> SUFFICES ASSUME b \notin S PROVE FALSE
    OBVIOUS
  <2>1. \A x \in S : x \in Nat /\ x >= 1 /\ x <= b /\ x # b
    BY <1>1
  <2>2. b - 1 \in Nat /\ \A x \in S : x <= b - 1
    <3>1. b \in Nat
      BY <1>1
    <3>2. PICK x \in S : TRUE
      OBVIOUS
    <3>3. b >= 1
      BY <2>1, <3>1, <3>2
    <3> QED BY <2>1, <3>1, <3>3
  <2>3. b - 1 \in up
    BY <2>2
  <2> QED BY <1>1, <2>3
<1>3. \A x \in S : b >= x /\ x <= b
  BY <1>1
<1>4. \E m \in S : \A x \in S : m >= x
  BY <1>2, <1>3
<1>5. Max(S) = CHOOSE m \in S : \A x \in S : m >= x
  BY DEF Max
<1>6. Max(S) \in S /\ \A x \in S : Max(S) >= x
  BY <1>4, <1>5
<1>7. \A x \in S : x \in Nat
  OBVIOUS
<1> QED BY <1>6, <1>7

(* Two components of a set are the same one or apart, and each has its own *)
(* greatest vertex.                                                        *)
LEMMA UpperComponents ==
    ASSUME request \in Requests, NEW v
    PROVE  LET C == Components(Upper(v))
               M == {Max(c) : c \in C}
           IN  /\ M \subseteq Upper(v) /\ IsFiniteSet(M)
               /\ Cardinality(M) = Cardinality(C) /\ Cardinality(M) \in Nat
<1> DEFINE U == Upper(v)
           comp(u) == J!Component(request.mesh, u, U)
           C == Components(U)
           M == {Max(c) : c \in C}
           n == Len(request.rank)
<1>1. U \subseteq 1..n /\ n \in Nat /\ IsFiniteSet(U)
  <2>1. U \subseteq Vertices
    BY RequestFacts DEF Upper
  <2> QED BY <2>1, RequestFacts, FS_Subset
<1>2. \A u \in U : /\ u \in comp(u) /\ comp(u) \subseteq U
                   /\ JP!Closed(request.mesh, U, comp(u))
                   /\ \A X : u \in X /\ JP!Closed(request.mesh, U, X)
                                => comp(u) \subseteq X
  <2> SUFFICES ASSUME NEW u \in U
               PROVE  /\ u \in comp(u) /\ comp(u) \subseteq U
                      /\ JP!Closed(request.mesh, U, comp(u))
                      /\ \A X : u \in X /\ JP!Closed(request.mesh, U, X)
                                   => comp(u) \subseteq X
    OBVIOUS
  <2>1. comp(u) = JP!Component(request.mesh, u, U)
    BY DEF J!Component, JP!Component, J!Cardinality, JP!Cardinality
  <2> HIDE DEF comp, U
  <2>2. JP!IsFiniteSet(U)
    BY <1>1 DEF JP!IsFiniteSet, IsFiniteSet
  <2>3. /\ u \in JP!Component(request.mesh, u, U)
        /\ JP!Component(request.mesh, u, U) \subseteq U
        /\ JP!Closed(request.mesh, U, JP!Component(request.mesh, u, U))
        /\ \A X : u \in X /\ JP!Closed(request.mesh, U, X)
                     => JP!Component(request.mesh, u, U) \subseteq X
    BY <2>2, JP!ComponentFacts
  <2> QED BY <2>1, <2>3
<1>c. C = {comp(u) : u \in U}
  BY DEF Components
<1> HIDE DEF comp, U, C
<1>3. ASSUME NEW u \in U, NEW w \in comp(u) PROVE comp(w) = comp(u)
  <2>0. w \in U
    BY <1>2, <1>3
  <2>1. comp(w) \subseteq comp(u)
    BY <1>2, <1>3, <2>0
  <2>2. u \in comp(w)
    <3> SUFFICES ASSUME u \notin comp(w) PROVE FALSE
      OBVIOUS
    <3> DEFINE X == U \ comp(w)
    <3>1. JP!Closed(request.mesh, U, X)
      <4>1. JP!Closed(request.mesh, U, comp(w))
        BY <1>2, <2>0
      <4>2. \A x, y : {x, y} = {y, x}
        OBVIOUS
      <4> QED BY <4>1, <4>2 DEF JP!Closed
    <3>2. comp(u) \subseteq X
      BY <1>2, <3>1
    <3>3. w \in comp(w)
      BY <1>2, <2>0
    <3> QED BY <1>3, <3>2, <3>3
  <2> QED BY <1>2, <2>0, <2>1, <2>2
<1>4. ASSUME NEW c \in C PROVE Max(c) \in c /\ c \subseteq U /\ c = comp(Max(c))
  <2>1. PICK u \in U : c = comp(u)
    BY <1>4, <1>c
  <2>2. c # {} /\ c \subseteq U
    BY <1>2, <2>1
  <2>3. Max(c) \in c
    BY <1>1, <2>2, MaxFacts
  <2> QED BY <1>3, <2>1, <2>2, <2>3
<1>5. M \subseteq U
  BY <1>4
<1> DEFINE f == [c \in C |-> Max(c)]
<1>6. f \in Bijection(C, M)
  <2>1. f \in [C -> M]
    OBVIOUS
  <2>2. ASSUME NEW c \in C, NEW d \in C, f[c] = f[d] PROVE c = d
    BY <1>4, <2>2
  <2>3. \A m \in M : \E c \in C : f[c] = m
    OBVIOUS
  <2>4. IsInjective(f)
    BY <2>1, <2>2 DEF IsInjective
  <2> HIDE DEF f, M
  <2> QED BY <2>1, <2>3, <2>4 DEF Bijection, Injection, Surjection
<1>7. IsFiniteSet(M) /\ Cardinality(M) \in Nat
  BY <1>1, <1>5, FS_Subset, FS_CardinalityType
<1>8. IsFiniteSet(C)
  <2> DEFINE g == [u \in U |-> comp(u)]
  <2>1. g \in Surjection(U, C)
    BY <1>c DEF Surjection
  <2> HIDE DEF g
  <2> QED BY <1>1, <2>1, FS_Surjection
<1>9. Cardinality(M) = Cardinality(C)
  <2> HIDE DEF f, M
  <2>1. ExistsBijection(C, M)
    BY <1>6 DEF ExistsBijection
  <2> QED BY <1>8, <2>1, FS_Bijection
<1> QED BY <1>5, <1>7, <1>9 DEF C, U
-------------------------------------------------------------------------------
(* The pieces of lines a rank keeps: the line has come up at least one     *)
(* vertex with each step.                                                  *)
Pieces ==
    {l \in [seed : Vertices, fork : Vertices \cup {NoFork}, first : Nat,
            trajectory : Seq(Vertices)] :
        l.trajectory # <<>> /\ l.first + Len(l.trajectory) <= Last(l.trajectory)}

(* The elements of messages.                                               *)
Elements == [from : Vertices, to : Vertices, local : Nat, seed : Vertices,
             fork : Vertices \cup {NoFork}]

(* What is sent to rank q.                                                 *)
Messages(q) == {e \in Elements : Owner(e.to) = q /\ e.local + 2 <= e.to}

(* A line that is traced ends at a vertex of the rank or one step from it. *)
Carried(r, l) ==
    LET n == Len(l.trajectory) IN
    \/ Owner(l.trajectory[n]) = r
    \/ /\ n >= 2 /\ Owner(l.trajectory[n - 1]) = r
       /\ {l.trajectory[n - 1], l.trajectory[n]} \in request.mesh

(* What is known of a piece of a line.                                     *)
LEMMA PieceFacts ==
    ASSUME request \in Requests, NEW l \in Pieces
    PROVE  /\ l.seed \in Vertices /\ l.fork \in Vertices \cup {NoFork}
           /\ l.first \in Nat /\ l.trajectory \in Seq(Vertices)
           /\ l.trajectory # <<>> /\ Len(l.trajectory) \in Nat
           /\ Len(l.trajectory) >= 1
           /\ Last(l.trajectory) = l.trajectory[Len(l.trajectory)]
           /\ Last(l.trajectory) \in Vertices /\ Last(l.trajectory) \in Nat
           /\ l.first + Len(l.trajectory) <= Last(l.trajectory)
           /\ l = [seed |-> l.seed, fork |-> l.fork, first |-> l.first,
                   trajectory |-> l.trajectory]
<1>1. /\ l \in [seed : Vertices, fork : Vertices \cup {NoFork}, first : Nat,
                trajectory : Seq(Vertices)]
      /\ l.trajectory # <<>> /\ l.first + Len(l.trajectory) <= Last(l.trajectory)
  BY DEF Pieces
<1>2. /\ l.trajectory \in Seq(Vertices) /\ l.trajectory # <<>>
      /\ l.seed \in Vertices /\ l.fork \in Vertices \cup {NoFork}
      /\ l.first \in Nat
      /\ l = [seed |-> l.seed, fork |-> l.fork, first |-> l.first,
              trajectory |-> l.trajectory]
  BY <1>1
<1>3. Len(l.trajectory) \in Nat /\ Len(l.trajectory) >= 1
  BY <1>2
<1>4. /\ Last(l.trajectory) = l.trajectory[Len(l.trajectory)]
      /\ Last(l.trajectory) \in Vertices
  BY <1>2, <1>3 DEF Last
<1>5. Last(l.trajectory) \in Nat
  BY <1>4, RequestFacts
<1> QED BY <1>1, <1>2, <1>3, <1>4, <1>5

(* A piece of two vertices, the second above the first.                    *)
LEMMA StepPiece ==
    ASSUME request \in Requests, NEW s \in Vertices,
           NEW k \in Vertices \cup {NoFork}, NEW n \in Nat, NEW a \in Vertices,
           NEW b \in Vertices, n + 2 <= b
    PROVE  Line(s, k, n, <<a, b>>) \in Pieces
<1> DEFINE t == <<a, b>>
<1>1. t \in Seq(Vertices) /\ t # <<>> /\ Len(t) = 2 /\ t[2] = b
  OBVIOUS
<1>2. Last(t) = b
  BY <1>1 DEF Last
<1>3. n + Len(t) <= Last(t)
  BY <1>1, <1>2
<1> HIDE DEF t
<1>4. [seed |-> s, fork |-> k, first |-> n, trajectory |-> t] \in Pieces
  BY <1>1, <1>3 DEF Pieces
<1> QED BY <1>4 DEF Line, t

(* A piece that is advanced to an upper neighbour is one, and its rank has *)
(* it still or can hand it over.                                           *)
LEMMA AdvancedPiece ==
    ASSUME request \in Requests, NEW r \in Ranks, NEW l \in Pieces,
           Owner(Last(l.trajectory)) = r, NEW u \in Upper(Last(l.trajectory))
    PROVE  LET t == Append(l.trajectory, u)
               m == [seed |-> l.seed, fork |-> l.fork, first |-> l.first,
                     trajectory |-> t]
           IN  m \in Pieces /\ Carried(r, m)
<1> DEFINE v == Last(l.trajectory)
           n == Len(l.trajectory)
           t == Append(l.trajectory, u)
           m == [seed |-> l.seed, fork |-> l.fork, first |-> l.first,
                 trajectory |-> t]
<1>1. u \in Vertices /\ {v, u} \in request.mesh /\ u > v
  BY RequestFacts DEF Upper
<1>2. /\ l.seed \in Vertices /\ l.fork \in Vertices \cup {NoFork}
      /\ l.first \in Nat /\ l.trajectory \in Seq(Vertices) /\ n \in Nat /\ n >= 1
      /\ v = l.trajectory[n] /\ v \in Nat /\ l.first + n <= v
  BY PieceFacts
<1>3. u \in Nat
  BY <1>1, RequestFacts
<1>4. /\ t \in Seq(Vertices) /\ Len(t) = n + 1 /\ t[n + 1] = u /\ t[n] = v
      /\ t # <<>>
  BY <1>1, <1>2
<1>5. Last(t) = u
  BY <1>4 DEF Last
<1> HIDE DEF t, v, n
<1>6. m \in Pieces
  <2>1. l.first + Len(t) <= Last(t)
    BY <1>1, <1>2, <1>3, <1>4, <1>5
  <2> QED BY <1>2, <1>4, <2>1 DEF Pieces
<1>7. Carried(r, m)
  <2>1. Len(m.trajectory) = n + 1 /\ (n + 1) - 1 = n /\ n + 1 >= 2
    BY <1>2, <1>4
  <2>2. m.trajectory = t
    OBVIOUS
  <2>3. Owner(t[n]) = r /\ {t[n], t[n + 1]} \in request.mesh
    BY <1>1, <1>4 DEF v
  <2> HIDE DEF m
  <2> QED BY <2>1, <2>2, <2>3 DEF Carried
<1> QED BY <1>6, <1>7 DEF t

(* As many lines begin at a fork as it is said to add.                     *)
LEMMA BranchFacts ==
    ASSUME request \in Requests, NEW r \in Ranks, NEW l \in Pieces,
           Owner(Last(l.trajectory)) = r
    PROVE  LET v == Last(l.trajectory) IN
           /\ Branches(l, v) \in Seq(Pieces)
           /\ Len(Branches(l, v)) = Added(v) /\ Added(v) \in Nat
           /\ \A k \in DOMAIN Branches(l, v) : Carried(r, Branches(l, v)[k])
<1> DEFINE v == Last(l.trajectory)
           n == l.first + Len(l.trajectory) - 1
           M == {Max(c) : c \in Components(Upper(v))}
           next == InOrder(M)
           B == Branches(l, v)
<1>1. /\ M \subseteq Upper(v) /\ IsFiniteSet(M) /\ Cardinality(M) = Added(v)
      /\ Cardinality(M) \in Nat
  BY UpperComponents DEF Added
<1>2. \A u \in Upper(v) : /\ u \in Vertices /\ u > v /\ {v, u} \in request.mesh
                          /\ u \in Int
  <2>1. \A u \in Upper(v) : u \in Vertices /\ u > v /\ {v, u} \in request.mesh
    BY RequestFacts DEF Upper
  <2>2. \A u \in Vertices : u \in Int
    BY RequestFacts
  <2> QED BY <2>1, <2>2
<1>3. v \in Vertices /\ v \in Nat /\ n \in Nat /\ n + 1 <= v /\ l.seed \in Vertices
  BY PieceFacts
<1>4. B = [k \in DOMAIN next |-> Line(l.seed, next[k], n, <<v, next[k]>>)]
  BY DEF Branches
<1> HIDE DEF M, B, v, n
<1>5. DOMAIN next = 1..Added(v) /\ next \in [1..Added(v) -> M]
  <2>1. M \subseteq Int
    BY <1>1, <1>2
  <2> QED BY <1>1, <2>1, InOrderFacts DEF Bijection, Injection
<1> HIDE DEF next
<1>6. ASSUME NEW k \in 1..Added(v)
      PROVE  Line(l.seed, next[k], n, <<v, next[k]>>) \in Pieces
  <2>1. next[k] \in Vertices /\ n + 2 <= next[k]
    <3>1. next[k] \in Upper(v)
      BY <1>1, <1>5
    <3>2. next[k] \in Vertices /\ next[k] > v /\ next[k] \in Int
      BY <1>2, <3>1
    <3> QED BY <1>3, <3>2
  <2> QED BY <1>3, <2>1, StepPiece
<1>7. ASSUME NEW k \in 1..Added(v)
      PROVE  Carried(r, Line(l.seed, next[k], n, <<v, next[k]>>))
  <2> DEFINE t == <<v, next[k]>>
  <2>1. Len(t) = 2 /\ Len(t) - 1 = 1 /\ t[1] = v /\ t[2] = next[k]
    OBVIOUS
  <2>a. Owner(v) = r
    BY DEF v
  <2>b. {v, next[k]} \in request.mesh
    <3>1. next[k] \in Upper(v)
      BY <1>1, <1>5
    <3> QED BY <1>2, <3>1
  <2> HIDE DEF t
  <2> DEFINE m == Line(l.seed, next[k], n, t)
  <2>c. m.trajectory = t
    BY DEF Line
  <2> HIDE DEF m
  <2>d. Carried(r, m)
    <3>1. /\ Len(m.trajectory) >= 2 /\ m.trajectory[Len(m.trajectory) - 1] = v
          /\ m.trajectory[Len(m.trajectory)] = next[k]
      <4>1. Len(m.trajectory) = 2 /\ Len(m.trajectory) - 1 = 1
        BY <2>1, <2>c
      <4>2. m.trajectory[1] = v /\ m.trajectory[2] = next[k]
        BY <2>1, <2>c
      <4> QED BY <4>1, <4>2
    <3> QED BY <2>a, <2>b, <3>1 DEF Carried
  <2>2. Carried(r, Line(l.seed, next[k], n, t))
    BY <2>d DEF m
  <2> QED BY <2>2 DEF t
<1>8. B \in Seq(Pieces) /\ Len(B) = Added(v) /\ DOMAIN B = 1..Added(v)
  <2> DEFINE b(k) == Line(l.seed, next[k], n, <<v, next[k]>>)
  <2>1. B = [k \in 1..Added(v) |-> b(k)] /\ \A k \in 1..Added(v) : b(k) \in Pieces
    BY <1>4, <1>5, <1>6
  <2>2. Added(v) \in Nat
    BY <1>1
  <2> HIDE DEF b
  <2> QED BY <2>1, <2>2
<1>9. \A k \in DOMAIN B : Carried(r, B[k])
  BY <1>4, <1>5, <1>7, <1>8
<1> QED BY <1>1, <1>8, <1>9 DEF B, v

(* A line that has left the rank goes to a neighbour.                      *)
LEMMA ElementFacts ==
    ASSUME request \in Requests, NEW r \in Ranks, NEW l \in Pieces, Carried(r, l),
           Owner(Last(l.trajectory)) # r
    PROVE  LET q == Owner(Last(l.trajectory)) IN
           q \in NeighborRanks(r) /\ q \in Ranks /\ Element(l) \in Messages(q)
<1> DEFINE v == Last(l.trajectory)
           n == Len(l.trajectory)
           u == l.trajectory[n - 1]
<1>1. /\ l.seed \in Vertices /\ l.fork \in Vertices \cup {NoFork}
      /\ l.first \in Nat /\ l.trajectory \in Seq(Vertices) /\ n \in Nat
      /\ v = l.trajectory[n] /\ v \in Nat /\ v \in Vertices /\ l.first + n <= v
  BY PieceFacts
<1>2. n >= 2 /\ Owner(u) = r /\ {u, v} \in request.mesh
  BY <1>1 DEF Carried
<1>3. u \in Vertices
  BY <1>1, <1>2
<1>4. Owner(v) \in Ranks
  BY <1>1, RequestFacts
<1> HIDE DEF u, v, n
<1>5. Owner(v) \in NeighborRanks(r)
  <2>1. {Owner(x) : x \in {u, v}} = {r, Owner(v)}
    BY <1>2
  <2> QED BY <1>2, <1>4, <2>1 DEF NeighborRanks, v
<1>6. Element(l) = [from |-> u, to |-> v, local |-> l.first + n - 2,
                    seed |-> l.seed, fork |-> l.fork]
  BY <1>1 DEF Element, u, n
<1>7. l.first + n - 2 \in Nat /\ (l.first + n - 2) + 2 <= v
  BY <1>1, <1>2
<1>8. Element(l) \in Messages(Owner(v))
  BY <1>1, <1>3, <1>6, <1>7 DEF Messages, Elements
<1> QED BY <1>4, <1>5, <1>8 DEF v

(* An element that is received makes a piece that its receiver goes on     *)
(* with.                                                                   *)
LEMMA UnpackedFacts ==
    ASSUME request \in Requests, NEW r \in Ranks, NEW e \in Messages(r)
    PROVE  Unpacked(e) \in Pieces /\ Carried(r, Unpacked(e))
<1>1. /\ e.from \in Vertices /\ e.to \in Vertices /\ e.local \in Nat
      /\ e.seed \in Vertices /\ e.fork \in Vertices \cup {NoFork}
      /\ Owner(e.to) = r /\ e.local + 2 <= e.to
  BY DEF Messages, Elements
<1>2. Unpacked(e) \in Pieces
  BY <1>1, StepPiece DEF Unpacked
<1>3. Carried(r, Unpacked(e))
  <2> DEFINE t == <<e.from, e.to>>
  <2>1. Len(t) = 2 /\ t[2] = e.to
    OBVIOUS
  <2> HIDE DEF t
  <2>2. Unpacked(e).trajectory = t
    BY DEF Unpacked, Line, t
  <2> QED BY <1>1, <2>1, <2>2 DEF Carried
<1> QED BY <1>2, <1>3
-------------------------------------------------------------------------------
(* What the variables hold.                                                *)
Addressed(r, q) ==
    /\ toSend[r][q] \in Seq(Messages(q)) /\ sendBuf[r][q] \in Seq(Messages(q))
    /\ data[r][q] \in Seq(Seq(Messages(q))) /\ recvBuf[r][q] \in Seq(Messages(r))

(* The lines to trace are ones the rank can trace or hand over.            *)
Traceable(r) ==
    \A i \in open[r] : i \in DOMAIN lines[r] /\ Carried(r, lines[r][i])

(* What is sent or received between any two ranks.                         *)
Boxes == [Ranks -> [Ranks -> Seq(Elements)]]

(* All variables of the lines and messages.                                *)
Kinds ==
    /\ lines \in [Ranks -> Seq(Pieces)] /\ open \in [Ranks -> SUBSET Nat]
    /\ toSend \in Boxes /\ sendBuf \in Boxes /\ recvBuf \in Boxes
    /\ data \in [Ranks -> [Ranks -> Seq(Seq(Elements))]]
    /\ recvMessageSize \in [Ranks -> [Ranks -> Nat]]
    /\ sizes \in [Ranks -> [Ranks -> Seq(Nat)]]
    /\ addedElement \in [Ranks -> Nat]
    /\ \A r \in Ranks : Traceable(r)
    /\ \A r, q \in Ranks : Addressed(r, q)

(* What a rank does not hold where it stands, and never for other ranks    *)
(* than its neighbours.                                                    *)
Unused(r, q) ==
    /\ toSend[r][q] = <<>> /\ sendBuf[r][q] = <<>> /\ data[r][q] = <<>>
    /\ recvMessageSize[r][q] = 0

(* What a rank at its place in the round has empty or zero.                *)
AtRest(r) ==
    /\ pc[r] \notin {"sizes", "data"} => \A q \in Ranks : sendBuf[r][q] = <<>>
    /\ pc[r] # "trace" => addedElement[r] = 0 /\ open[r] = {}
    /\ pc[r] \notin {"trace", "reduce"} => finishedElement[r] = 0
    /\ \A q \in Ranks \ NeighborRanks(r) : Unused(r, q)

Resting == \A r \in Ranks : AtRest(r)
-------------------------------------------------------------------------------
(* The kinds depend on the request only.                                   *)
LEMMA SameKinds ==
    ASSUME request' = request
    PROVE  /\ Pieces' = Pieces /\ Elements' = Elements /\ Boxes' = Boxes
           /\ \A q : Messages(q)' = Messages(q)
           /\ \A r : NeighborRanks(r)' = NeighborRanks(r)
           /\ \A r : RankList(r)' = RankList(r)
           /\ \A v : Owner(v)' = Owner(v)
<1>1. Pieces' = Pieces
  BY DEF Pieces, Vertices
<1>2. Elements' = Elements
  BY DEF Elements, Vertices
<1>3. \A q : Messages(q)' = Messages(q)
  BY <1>2 DEF Messages, Owner
<1>4. \A r : NeighborRanks(r)' = NeighborRanks(r)
  BY DEF NeighborRanks, Owner
<1>5. \A r : RankList(r)' = RankList(r)
  BY <1>4 DEF RankList
<1> QED BY <1>1, <1>2, <1>3, <1>4, <1>5 DEF Boxes, Owner

(* The kinds of the next state, from those of its variables.               *)
LEMMA KindsAssembled ==
    ASSUME request' = request, lines' \in [Ranks -> Seq(Pieces)],
           open' \in [Ranks -> SUBSET Nat],
           toSend' \in Boxes, sendBuf' \in Boxes, recvBuf' \in Boxes,
           data' \in [Ranks -> [Ranks -> Seq(Seq(Elements))]],
           recvMessageSize' \in [Ranks -> [Ranks -> Nat]],
           sizes' \in [Ranks -> [Ranks -> Seq(Nat)]],
           addedElement' \in [Ranks -> Nat],
           \A r \in Ranks : \A i \in open'[r] :
              i \in DOMAIN lines'[r] /\ Carried(r, lines'[r][i]),
           \A r, q \in Ranks :
              /\ toSend'[r][q] \in Seq(Messages(q))
              /\ sendBuf'[r][q] \in Seq(Messages(q))
              /\ data'[r][q] \in Seq(Seq(Messages(q)))
              /\ recvBuf'[r][q] \in Seq(Messages(r))
    PROVE  Kinds'
<1>1. /\ Pieces' = Pieces /\ Elements' = Elements /\ Boxes' = Boxes
      /\ \A q : Messages(q)' = Messages(q)
  BY SameKinds
<1>2. \A r \in Ranks : Traceable(r)'
  BY DEF Traceable, Carried, Owner
<1>3. \A r, q \in Ranks : Addressed(r, q)'
  BY <1>1 DEF Addressed
<1> QED BY <1>1, <1>2, <1>3 DEF Kinds

(* What does not touch what the ranks hold.                                *)
LEMMA KindsKept ==
    ASSUME Kinds, UNCHANGED <<request, lines, open, toSend, sendBuf, recvBuf,
                              data, recvMessageSize, sizes, addedElement>>
    PROVE  Kinds'
<1>1. \A r \in Ranks : \A i \in open[r] :
         i \in DOMAIN lines[r] /\ Carried(r, lines[r][i])
  BY DEF Kinds, Traceable
<1>2. \A r, q \in Ranks :
              /\ toSend[r][q] \in Seq(Messages(q))
              /\ sendBuf[r][q] \in Seq(Messages(q))
              /\ data[r][q] \in Seq(Seq(Messages(q)))
              /\ recvBuf[r][q] \in Seq(Messages(r))
  BY DEF Kinds, Addressed
<1> QED BY <1>1, <1>2, KindsAssembled DEF Kinds

(* The seeds are pieces of one vertex.                                     *)
LEMMA InitKinds == Init => Kinds
<1> SUFFICES ASSUME Init PROVE Kinds
  OBVIOUS
<1>0. request \in Requests
  BY DEF Init
<1>1. /\ request.seeds \in [Ranks -> Seq(Vertices)]
      /\ \A p \in Ranks : \A i \in DOMAIN request.seeds[p] :
            Owner(request.seeds[p][i]) = p
  BY <1>0, RequestsAssumption DEF Vertices, Owner
<1>2. \A v \in Vertices : v \in Nat /\ v >= 1
  BY <1>0, RequestFacts
<1> DEFINE first(v) == Line(v, NoFork, 0, <<v>>)
<1>3. ASSUME NEW v \in Vertices PROVE first(v) \in Pieces /\ first(v).trajectory = <<v>>
  <2> DEFINE t == <<v>>
  <2>1. t \in Seq(Vertices) /\ t # <<>> /\ Len(t) = 1 /\ t[1] = v
    OBVIOUS
  <2>2. Last(t) = v
    BY <2>1 DEF Last
  <2>3. 0 + Len(t) <= Last(t)
    BY <1>2, <2>1, <2>2
  <2> HIDE DEF t
  <2>4. [seed |-> v, fork |-> NoFork, first |-> 0, trajectory |-> t] \in Pieces
    BY <2>1, <2>3 DEF Pieces
  <2> QED BY <2>4 DEF Line, t
<1>4. ASSUME NEW r \in Ranks
      PROVE  /\ lines[r] = [i \in 1..Len(request.seeds[r]) |->
                               first(request.seeds[r][i])]
             /\ open[r] = 1..Len(request.seeds[r])
             /\ Len(request.seeds[r]) \in Nat
             /\ \A i \in 1..Len(request.seeds[r]) : request.seeds[r][i] \in Vertices
  <2>1. request.seeds[r] \in Seq(Vertices)
    BY <1>1
  <2>2. DOMAIN request.seeds[r] = 1..Len(request.seeds[r])
    BY <2>1
  <2> QED BY <2>1, <2>2 DEF Init
<1> HIDE DEF first
<1>5. ASSUME NEW r \in Ranks PROVE lines[r] \in Seq(Pieces) /\ Traceable(r)
  <2>1. lines[r] \in Seq(Pieces)
    <3> DEFINE b(i) == first(request.seeds[r][i])
               n == Len(request.seeds[r])
    <3>1. lines[r] = [i \in 1..n |-> b(i)] /\ n \in Nat
      BY <1>4
    <3>2. \A i \in 1..n : b(i) \in Pieces
      BY <1>3, <1>4
    <3> HIDE DEF b, n
    <3> QED BY <3>1, <3>2
  <2>2. ASSUME NEW i \in open[r]
        PROVE  i \in DOMAIN lines[r] /\ Carried(r, lines[r][i])
    <3> DEFINE v == request.seeds[r][i]
    <3>1. i \in 1..Len(request.seeds[r]) /\ v \in Vertices /\ lines[r][i] = first(v)
      BY <1>4
    <3>2. Owner(v) = r
      <4>1. i \in DOMAIN request.seeds[r]
        BY <1>1, <3>1
      <4> QED BY <1>1, <4>1
    <3> HIDE DEF v
    <3>3. lines[r][i].trajectory = <<v>>
      BY <1>3, <3>1
    <3>4. Carried(r, lines[r][i])
      BY <3>2, <3>3 DEF Carried
    <3> QED BY <1>4, <3>1, <3>4
  <2> QED BY <2>1, <2>2 DEF Traceable
<1>6. lines \in [Ranks -> Seq(Pieces)] /\ open \in [Ranks -> SUBSET Nat]
  <2>1. lines \in [Ranks -> Seq(Pieces)]
    BY <1>5 DEF Init
  <2>2. open \in [Ranks -> SUBSET Nat]
    BY <1>4 DEF Init
  <2> QED BY <2>1, <2>2
<1>7. /\ toSend = Nothing /\ sendBuf = Nothing /\ recvBuf = Nothing
      /\ data = Nothing /\ sizes = Nothing
      /\ recvMessageSize \in [Ranks -> [Ranks -> Nat]]
      /\ addedElement \in [Ranks -> Nat]
  BY DEF Init
<1>8. \A S : Nothing \in [Ranks -> [Ranks -> Seq(S)]]
  BY DEF Nothing
<1>9. \A r, q \in Ranks : Nothing[r][q] = <<>>
  BY DEF Nothing
<1>10. \A r, q \in Ranks : Addressed(r, q)
  <2>1. \A S : <<>> \in Seq(S)
    OBVIOUS
  <2> QED BY <1>7, <1>9, <2>1 DEF Addressed
<1> QED BY <1>5, <1>6, <1>7, <1>8, <1>10 DEF Kinds, Boxes

(* Nothing is in the buffers at first.                                     *)
LEMMA InitResting == Init => Resting
BY DEF Init, Resting, AtRest, Unused, Nothing
-------------------------------------------------------------------------------
(* The tracing of lines: what is common to its four steps.                 *)
LEMMA TraceFacts ==
    ASSUME IInv, Kinds, Resting, NEW r \in Ranks, NEW i \in open[r], Trace(r, i)
    PROVE  /\ request \in Requests /\ pc[r] = "trace" /\ UNCHANGED tracing
           /\ lines[r][i] \in Pieces /\ i \in 1..Len(lines[r]) /\ i \in Nat
           /\ lines[r] \in Seq(Pieces) /\ Len(lines[r]) \in Nat
           /\ Carried(r, lines[r][i]) /\ Tip(r, i) = Last(lines[r][i].trajectory)
           /\ \A q \in Ranks : \A j \in open[q] :
                 j \in DOMAIN lines[q] /\ Carried(q, lines[q][j])
<1>1. request \in Requests
  BY DEF IInv, Types
<1>2. pc[r] = "trace" /\ UNCHANGED tracing
  BY DEF Trace, Finish, Advance, Fork, HandOver, Tracing
<1>3. \A q \in Ranks : \A j \in open[q] :
                 j \in DOMAIN lines[q] /\ Carried(q, lines[q][j])
  BY DEF Kinds, Traceable
<1>4. lines[r] \in Seq(Pieces)
  BY DEF Kinds
<1>5. Len(lines[r]) \in Nat /\ DOMAIN lines[r] = 1..Len(lines[r])
  BY <1>4
<1>6. i \in 1..Len(lines[r])
  BY <1>3, <1>5
<1> QED BY <1>1, <1>2, <1>3, <1>4, <1>5, <1>6 DEF Tip

(* A line that ends at a maximum is closed.                                *)
LEMMA FinishKinds ==
    ASSUME IInv, Kinds, Resting, NEW r \in Ranks, NEW i \in open[r], Finish(r, i)
    PROVE  Kinds'
<1>1. /\ \A q \in Ranks : \A j \in open[q] :
            j \in DOMAIN lines[q] /\ Carried(q, lines[q][j])
  BY DEF Kinds, Traceable
<1>2. /\ open' = [open EXCEPT ![r] = @ \ {i}]
      /\ UNCHANGED <<request, lines, toSend, sendBuf, recvBuf, data,
                     recvMessageSize, sizes, addedElement>>
  BY DEF Finish, Close, tracing, mpi
<1>3. open' \in [Ranks -> SUBSET Nat] /\ \A q \in Ranks : open'[q] \subseteq open[q]
  BY <1>2 DEF Kinds
<1>4. \A a, q \in Ranks :
              /\ toSend[a][q] \in Seq(Messages(q))
              /\ sendBuf[a][q] \in Seq(Messages(q))
              /\ data[a][q] \in Seq(Seq(Messages(q)))
              /\ recvBuf[a][q] \in Seq(Messages(a))
  BY DEF Kinds, Addressed
<1> QED BY <1>1, <1>2, <1>3, <1>4, KindsAssembled DEF Kinds

(* A line that goes on stays one that its rank has or can hand over.       *)
LEMMA AdvanceKinds ==
    ASSUME IInv, Kinds, Resting, NEW r \in Ranks, NEW i \in open[r], Advance(r, i)
    PROVE  Kinds'
<1> DEFINE l == lines[r][i]
           u == Max(Upper(Last(l.trajectory)))
           m == [seed |-> l.seed, fork |-> l.fork, first |-> l.first,
                 trajectory |-> Append(l.trajectory, u)]
<1>1. /\ request \in Requests /\ l \in Pieces /\ i \in 1..Len(lines[r])
      /\ lines[r] \in Seq(Pieces) /\ Tip(r, i) = Last(l.trajectory)
      /\ UNCHANGED tracing
      /\ \A q \in Ranks : \A j \in open[q] :
            j \in DOMAIN lines[q] /\ Carried(q, lines[q][j])
  BY TraceFacts DEF Trace
<1>2. /\ Owner(Last(l.trajectory)) = r /\ Upper(Last(l.trajectory)) # {}
      /\ lines' = [lines EXCEPT ![r][i].trajectory = Append(@, u)]
      /\ UNCHANGED <<request, open, toSend, sendBuf, recvBuf, data,
                     recvMessageSize, sizes, addedElement>>
  BY <1>1 DEF Advance, IsMaximum, tracing, mpi
<1>3. u \in Upper(Last(l.trajectory))
  <2>1. /\ Upper(Last(l.trajectory)) \subseteq 1..Len(request.rank)
        /\ Len(request.rank) \in Nat
    BY <1>1, RequestFacts DEF Upper
  <2> QED BY <1>2, <2>1, MaxFacts
<1>4. m \in Pieces /\ Carried(r, m)
  BY <1>1, <1>2, <1>3, AdvancedPiece
<1>5. l = [seed |-> l.seed, fork |-> l.fork, first |-> l.first,
           trajectory |-> l.trajectory]
  BY <1>1, PieceFacts
<1>6. /\ lines' = [lines EXCEPT ![r] = [lines[r] EXCEPT ![i] = m]]
  <2>1. [l EXCEPT !.trajectory = Append(@, u)] = m
    <3> HIDE DEF l, u
    <3> QED BY <1>5
  <2>2. lines' = [lines EXCEPT ![r] = [lines[r] EXCEPT ![i] =
                                        [l EXCEPT !.trajectory = Append(@, u)]]]
    BY <1>2
  <2> QED BY <2>1, <2>2
<1> HIDE DEF m
<1>7. \A q \in Ranks : lines'[q] = IF q = r THEN [lines[r] EXCEPT ![i] = m]
                                   ELSE lines[q]
  BY <1>6 DEF Kinds
<1>8. [lines[r] EXCEPT ![i] = m] \in Seq(Pieces)
  BY <1>1, <1>4
<1>9. lines' \in [Ranks -> Seq(Pieces)]
  BY <1>6, <1>8 DEF Kinds
<1>10. ASSUME NEW q \in Ranks, NEW j \in open[q]
       PROVE  j \in DOMAIN lines'[q] /\ Carried(q, lines'[q][j])
  <2>1. j \in DOMAIN lines[q] /\ Carried(q, lines[q][j])
    BY <1>1
  <2>2. DOMAIN lines'[q] = DOMAIN lines[q]
    BY <1>7
  <2>3. lines'[q][j] = IF q = r /\ j = i THEN m ELSE lines[q][j]
    BY <1>7, <2>1
  <2> QED BY <1>4, <2>1, <2>2, <2>3
<1>11. \A a, q \in Ranks :
              /\ toSend[a][q] \in Seq(Messages(q))
              /\ sendBuf[a][q] \in Seq(Messages(q))
              /\ data[a][q] \in Seq(Seq(Messages(q)))
              /\ recvBuf[a][q] \in Seq(Messages(a))
  BY DEF Kinds, Addressed
<1> QED BY <1>2, <1>9, <1>10, <1>11, KindsAssembled DEF Kinds

(* Lines are put behind those of a rank.                                   *)
LEMMA LinesAppended ==
    ASSUME Kinds, NEW r \in Ranks, NEW new \in Seq(Pieces), NEW more, NEW old,
           \A k \in DOMAIN new : Carried(r, new[k]), old \subseteq open[r],
           more = {Len(lines[r]) + k : k \in DOMAIN new},
           lines' = [lines EXCEPT ![r] = @ \o new],
           open' = [open EXCEPT ![r] = old \cup more]
    PROVE  /\ lines' \in [Ranks -> Seq(Pieces)] /\ open' \in [Ranks -> SUBSET Nat]
           /\ \A q \in Ranks : \A j \in open'[q] :
                 j \in DOMAIN lines'[q] /\ Carried(q, lines'[q][j])
<1>1. /\ lines[r] \in Seq(Pieces) /\ Len(lines[r]) \in Nat /\ open[r] \subseteq Nat
      /\ Len(new) \in Nat /\ DOMAIN new = 1..Len(new)
  BY DEF Kinds
<1>2. \A q \in Ranks :
         /\ lines'[q] = IF q = r THEN lines[r] \o new ELSE lines[q]
         /\ open'[q] = IF q = r THEN old \cup more ELSE open[q]
  BY DEF Kinds
<1>3. \A q \in Ranks : \A j \in open[q] :
            j \in DOMAIN lines[q] /\ Carried(q, lines[q][j])
  BY DEF Kinds, Traceable
<1>4. /\ lines[r] \o new \in Seq(Pieces)
      /\ DOMAIN (lines[r] \o new) = 1..(Len(lines[r]) + Len(new))
      /\ \A j \in 1..Len(lines[r]) : (lines[r] \o new)[j] = lines[r][j]
      /\ \A k \in 1..Len(new) : (lines[r] \o new)[Len(lines[r]) + k] = new[k]
      /\ DOMAIN lines[r] = 1..Len(lines[r])
  BY <1>1
<1>5. more \subseteq Nat
  BY <1>1
<1>6. lines' \in [Ranks -> Seq(Pieces)] /\ open' \in [Ranks -> SUBSET Nat]
  BY <1>1, <1>4, <1>5 DEF Kinds
<1>7. ASSUME NEW q \in Ranks, NEW j \in open'[q]
      PROVE  j \in DOMAIN lines'[q] /\ Carried(q, lines'[q][j])
  <2>1. CASE q # r
    BY <1>2, <1>3, <2>1
  <2>2. CASE q = r /\ j \in old
    <3>1. j \in 1..Len(lines[r]) /\ Carried(r, lines[r][j])
      BY <1>3, <1>4, <2>2
    <3>2. lines'[r][j] = lines[r][j] /\ DOMAIN lines'[r] = 1..(Len(lines[r]) + Len(new))
      BY <1>2, <1>4, <3>1
    <3> QED BY <1>1, <2>2, <3>1, <3>2
  <2>3. CASE q = r /\ j \in more
    <3>1. PICK k \in 1..Len(new) : j = Len(lines[r]) + k
      BY <1>1, <2>3
    <3>2. /\ lines'[r][j] = new[k]
          /\ DOMAIN lines'[r] = 1..(Len(lines[r]) + Len(new))
      BY <1>2, <1>4, <3>1
    <3>3. j \in 1..(Len(lines[r]) + Len(new))
      BY <1>1, <3>1
    <3>4. Carried(r, new[k])
      BY <1>1, <3>1
    <3> QED BY <2>3, <3>2, <3>3, <3>4
  <2>4. q = r => j \in old \/ j \in more
    <3>1. open'[r] = old \cup more
      BY <1>2
    <3> QED BY <3>1
  <2> QED BY <2>1, <2>2, <2>3, <2>4
<1> QED BY <1>6, <1>7

(* The branches of a fork are pieces that begin at a vertex of the rank.   *)
LEMMA ForkKinds ==
    ASSUME IInv, Kinds, Resting, NEW r \in Ranks, NEW i \in open[r], Fork(r, i)
    PROVE  Kinds'
<1> DEFINE l == lines[r][i]
           v == Last(l.trajectory)
           B == Branches(l, v)
<1>1. /\ request \in Requests /\ l \in Pieces /\ Tip(r, i) = v
      /\ UNCHANGED tracing
  BY TraceFacts DEF Trace
<1>2. /\ Owner(v) = r
      /\ lines' = [lines EXCEPT ![r] = @ \o B]
      /\ open' = [open EXCEPT ![r] =
                     (@ \ {i}) \cup {Len(lines[r]) + k : k \in DOMAIN B}]
      /\ addedElement' = [addedElement EXCEPT ![r] = @ + Added(v)]
      /\ UNCHANGED <<request, toSend, sendBuf, recvBuf, data,
                     recvMessageSize, sizes>>
  BY <1>1 DEF Fork, tracing, mpi
<1>3. /\ B \in Seq(Pieces) /\ \A k \in DOMAIN B : Carried(r, B[k])
      /\ Added(v) \in Nat
  BY <1>1, <1>2, BranchFacts
<1> HIDE DEF B, v, l
<1>4. /\ lines' \in [Ranks -> Seq(Pieces)] /\ open' \in [Ranks -> SUBSET Nat]
      /\ \A q \in Ranks : \A j \in open'[q] :
            j \in DOMAIN lines'[q] /\ Carried(q, lines'[q][j])
  <2>1. open[r] \ {i} \subseteq open[r]
    OBVIOUS
  <2>2. open' = [open EXCEPT ![r] = (open[r] \ {i}) \cup
                                        {Len(lines[r]) + k : k \in DOMAIN B}]
    BY <1>2 DEF Kinds
  <2> QED BY <1>2, <1>3, <2>1, <2>2, LinesAppended
<1>5. addedElement' \in [Ranks -> Nat]
  BY <1>2, <1>3 DEF Kinds
<1>6. \A a, q \in Ranks :
              /\ toSend[a][q] \in Seq(Messages(q))
              /\ sendBuf[a][q] \in Seq(Messages(q))
              /\ data[a][q] \in Seq(Seq(Messages(q)))
              /\ recvBuf[a][q] \in Seq(Messages(a))
  BY DEF Kinds, Addressed
<1> QED BY <1>2, <1>4, <1>5, <1>6, KindsAssembled DEF Kinds

(* What a hand-over changes: one more message for the owner of the tip.    *)
LEMMA HandOverFacts ==
    ASSUME IInv, Kinds, Resting, NEW r \in Ranks, NEW i \in open[r], HandOver(r, i)
    PROVE  \E q \in NeighborRanks(r) : \E e \in Messages(q) :
              /\ q \in Ranks /\ e \in Elements
              /\ open' = [open EXCEPT ![r] = @ \ {i}]
              /\ toSend' \in Boxes
              /\ \A a, b \in Ranks : toSend'[a][b] =
                    IF a = r /\ b = q THEN Append(toSend[a][b], e) ELSE toSend[a][b]
              /\ UNCHANGED <<tracing, lines, finishedElement, addedElement>>
<1> DEFINE l == lines[r][i]
           q == Owner(Last(l.trajectory))
           e == Element(l)
<1>1. /\ request \in Requests /\ l \in Pieces /\ Carried(r, l)
      /\ Tip(r, i) = Last(l.trajectory)
  BY TraceFacts DEF Trace
<1>2. /\ q # r
      /\ toSend' = [toSend EXCEPT ![r][q] = Append(@, e)]
      /\ open' = [open EXCEPT ![r] = @ \ {i}]
      /\ UNCHANGED <<tracing, lines, finishedElement, addedElement>>
  BY <1>1 DEF HandOver, Close
<1>3. q \in NeighborRanks(r) /\ q \in Ranks /\ e \in Messages(q)
  BY <1>1, <1>2, ElementFacts
<1>4. e \in Elements
  BY <1>3 DEF Messages
<1> HIDE DEF q, e
<1>5. \A a, b \in Ranks : toSend'[a][b] =
          IF a = r /\ b = q THEN Append(toSend[a][b], e) ELSE toSend[a][b]
  BY <1>2, <1>3 DEF Kinds, Boxes
<1>6. toSend' \in Boxes
  <2>1. toSend[r][q] \in Seq(Elements)
    BY <1>3 DEF Kinds, Boxes
  <2>2. Append(toSend[r][q], e) \in Seq(Elements)
    BY <1>4, <2>1
  <2> QED BY <1>2, <1>3, <2>2 DEF Kinds, Boxes
<1> QED BY <1>2, <1>3, <1>4, <1>5, <1>6

(* A line is handed over as an element for the rank that owns its end.     *)
LEMMA HandOverKinds ==
    ASSUME IInv, Kinds, Resting, NEW r \in Ranks, NEW i \in open[r], HandOver(r, i)
    PROVE  Kinds'
<1>1. PICK q \in NeighborRanks(r) : \E e \in Messages(q) :
              /\ q \in Ranks /\ e \in Elements
              /\ open' = [open EXCEPT ![r] = @ \ {i}]
              /\ toSend' \in Boxes
              /\ \A a, b \in Ranks : toSend'[a][b] =
                    IF a = r /\ b = q THEN Append(toSend[a][b], e) ELSE toSend[a][b]
              /\ UNCHANGED <<tracing, lines, finishedElement, addedElement>>
  BY HandOverFacts
<1>2. PICK e \in Messages(q) :
              /\ q \in Ranks /\ e \in Elements
              /\ open' = [open EXCEPT ![r] = @ \ {i}]
              /\ toSend' \in Boxes
              /\ \A a, b \in Ranks : toSend'[a][b] =
                    IF a = r /\ b = q THEN Append(toSend[a][b], e) ELSE toSend[a][b]
              /\ UNCHANGED <<tracing, lines, finishedElement, addedElement>>
  BY <1>1
<1>3. open' \in [Ranks -> SUBSET Nat] /\ \A a \in Ranks : open'[a] \subseteq open[a]
  BY <1>2 DEF Kinds
<1>4. \A a \in Ranks : \A j \in open[a] :
            j \in DOMAIN lines[a] /\ Carried(a, lines[a][j])
  BY DEF Kinds, Traceable
<1>5. \A a, b \in Ranks :
              /\ toSend[a][b] \in Seq(Messages(b))
              /\ sendBuf[a][b] \in Seq(Messages(b))
              /\ data[a][b] \in Seq(Seq(Messages(b)))
              /\ recvBuf[a][b] \in Seq(Messages(a))
  BY DEF Kinds, Addressed
<1>6. \A a, b \in Ranks : toSend'[a][b] \in Seq(Messages(b))
  <2>1. Append(toSend[r][q], e) \in Seq(Messages(q))
    BY <1>2, <1>5
  <2> QED BY <1>2, <1>5, <2>1
<1>7. UNCHANGED <<request, lines, sendBuf, recvBuf, data, recvMessageSize, sizes,
                  addedElement>>
  BY <1>2 DEF tracing, mpi
<1> QED BY <1>2, <1>3, <1>4, <1>5, <1>6, <1>7, KindsAssembled DEF Kinds

(* The tracing of lines keeps the kinds.                                   *)
LEMMA TraceKinds ==
    ASSUME IInv, Kinds, Resting, NEW r \in Ranks, NEW i \in open[r], Trace(r, i)
    PROVE  Kinds'
BY FinishKinds, AdvanceKinds, ForkKinds, HandOverKinds DEF Trace

(* Only a rank that traces has lines open, and it fills only toSend.       *)
LEMMA TraceResting ==
    ASSUME IInv, Kinds, Resting, NEW r \in Ranks, NEW i \in open[r], Trace(r, i)
    PROVE  Resting'
<1>1. pc[r] = "trace" /\ UNCHANGED <<request, pc, sendBuf, data, recvMessageSize>>
  BY TraceFacts DEF tracing, mpi
<1>2. \A a \in Ranks \ {r} : /\ open'[a] = open[a]
                             /\ finishedElement'[a] = finishedElement[a]
                             /\ addedElement'[a] = addedElement[a]
  <2>1. CASE Finish(r, i) \/ Advance(r, i) \/ Fork(r, i)
    BY <2>1 DEF Finish, Advance, Fork, Close, IInv, Types, Kinds
  <2>2. CASE HandOver(r, i)
    BY <2>2 DEF HandOver, Close, Kinds
  <2> QED BY <2>1, <2>2 DEF Trace
<1>3. \A a \in Ranks : \A q \in Ranks \ NeighborRanks(a) : toSend'[a][q] = toSend[a][q]
  <2>1. CASE Finish(r, i) \/ Advance(r, i) \/ Fork(r, i)
    BY <2>1 DEF Finish, Advance, Fork
  <2>2. CASE HandOver(r, i)
    <3>1. PICK q \in NeighborRanks(r) : \E e \in Messages(q) :
              \A a, b \in Ranks : toSend'[a][b] =
                  IF a = r /\ b = q THEN Append(toSend[a][b], e) ELSE toSend[a][b]
      BY <2>2, HandOverFacts
    <3> QED BY <3>1
  <2> QED BY <2>1, <2>2 DEF Trace
<1>4. \A a \in Ranks : NeighborRanks(a)' = NeighborRanks(a)
  BY <1>1, SameKinds
<1>5. ASSUME NEW a \in Ranks PROVE AtRest(a)'
  <2>1. AtRest(a)
    BY DEF Resting
  <2>2. \A q \in Ranks \ NeighborRanks(a) : Unused(a, q)'
    BY <1>1, <1>3, <2>1 DEF AtRest, Unused
  <2>3. CASE a = r
    BY <1>1, <1>4, <2>1, <2>2, <2>3 DEF AtRest
  <2>4. CASE a # r
    BY <1>1, <1>2, <1>4, <2>1, <2>2, <2>4 DEF AtRest
  <2> QED BY <2>3, <2>4
<1> QED BY <1>5 DEF Resting
-------------------------------------------------------------------------------
(* The rounds.                                                             *)
LEMMA ContributeKinds ==
    ASSUME IInv, Kinds, Resting, NEW r \in Ranks, Contribute(r)
    PROVE  Kinds' /\ Resting'
<1>1. /\ pc[r] = "trace" /\ open[r] = {} /\ pc' = [pc EXCEPT ![r] = "reduce"]
      /\ addedElement' = [addedElement EXCEPT ![r] = 0]
      /\ \E b : finishedElement' = [finishedElement EXCEPT ![r] = b]
      /\ UNCHANGED <<request, lines, open, toSend, sendBuf, recvBuf,
                     data, recvMessageSize, sizes>>
  BY DEF Contribute, Goto, buffers
<1>2. Kinds'
  <2>1. \A a \in Ranks : \A i \in open[a] :
           i \in DOMAIN lines[a] /\ Carried(a, lines[a][i])
    BY DEF Kinds, Traceable
  <2>2. \A a, q \in Ranks :
              /\ toSend[a][q] \in Seq(Messages(q))
              /\ sendBuf[a][q] \in Seq(Messages(q))
              /\ data[a][q] \in Seq(Seq(Messages(q)))
              /\ recvBuf[a][q] \in Seq(Messages(a))
    BY DEF Kinds, Addressed
  <2>3. addedElement' \in [Ranks -> Nat]
    BY <1>1 DEF Kinds
  <2> QED BY <1>1, <2>1, <2>2, <2>3, KindsAssembled DEF Kinds
<1>3. ASSUME NEW a \in Ranks PROVE AtRest(a)'
  <2>1. AtRest(a) /\ NeighborRanks(a)' = NeighborRanks(a)
    BY <1>1, SameKinds DEF Resting
  <2>2. /\ pc'[a] = IF a = r THEN "reduce" ELSE pc[a]
        /\ addedElement'[a] = IF a = r THEN 0 ELSE addedElement[a]
        /\ a # r => finishedElement'[a] = finishedElement[a]
    BY <1>1 DEF IInv, Types, Kinds
  <2> QED BY <1>1, <2>1, <2>2 DEF AtRest, Unused
<1> QED BY <1>2, <1>3 DEF Resting

(* A rank that stops has told everything.                                  *)
LEMMA StopKinds ==
    ASSUME IInv, Kinds, Resting, NEW r \in Ranks, Stop(r)
    PROVE  Kinds' /\ Resting'
<1>1. /\ pc[r] = "reduce" /\ pc' = [pc EXCEPT ![r] = "count"]
      /\ finishedElement' = [finishedElement EXCEPT ![r] = 0]
      /\ UNCHANGED <<request, lines, open, toSend, sendBuf, recvBuf,
                     data, recvMessageSize, sizes, addedElement>>
  BY DEF Stop, Reduced, Goto, buffers
<1>2. Kinds'
  BY <1>1, KindsKept
<1>3. ASSUME NEW a \in Ranks PROVE AtRest(a)'
  <2>1. AtRest(a) /\ NeighborRanks(a)' = NeighborRanks(a)
    BY <1>1, SameKinds DEF Resting
  <2>2. /\ pc'[a] = IF a = r THEN "count" ELSE pc[a]
        /\ finishedElement'[a] = IF a = r THEN 0 ELSE finishedElement[a]
    BY <1>1 DEF IInv, Types
  <2> QED BY <1>1, <2>1, <2>2 DEF AtRest, Unused
<1> QED BY <1>2, <1>3 DEF Resting

(* What going on changes.                                                  *)
LEMMA ContinueFacts ==
    ASSUME IInv, Kinds, Resting, NEW r \in Ranks, Continue(r)
    PROVE  /\ request \in Requests
           /\ pc[r] = "reduce" /\ pc' = [pc EXCEPT ![r] = "sizes"]
           /\ finishedElement' = [finishedElement EXCEPT ![r] = 0]
           /\ UNCHANGED <<request, lines, open, addedElement, recvBuf,
                          recvMessageSize, contributed, data>>
           /\ \A a, b \in Ranks :
                 /\ sendBuf'[a][b] = IF a = r THEN toSend[a][b] ELSE sendBuf[a][b]
                 /\ toSend'[a][b] = IF a = r THEN <<>> ELSE toSend[a][b]
                 /\ sizes'[a][b] = IF a = r /\ b \in NeighborRanks(r)
                                   THEN Append(sizes[a][b], Len(toSend[a][b]))
                                   ELSE sizes[a][b]
           /\ sendBuf' \in Boxes /\ toSend' \in Boxes
           /\ sizes' \in [Ranks -> [Ranks -> Seq(Nat)]]
<1>1. /\ pc[r] = "reduce" /\ pc' = [pc EXCEPT ![r] = "sizes"]
      /\ finishedElement' = [finishedElement EXCEPT ![r] = 0]
      /\ sendBuf' = [sendBuf EXCEPT ![r] = [q \in Ranks |-> Gathered(r, q)]]
      /\ toSend' = [toSend EXCEPT ![r] = [q \in Ranks |-> <<>>]]
      /\ sizes' = [sizes EXCEPT ![r] = [q \in Ranks |->
                    IF q \in NeighborRanks(r)
                    THEN Append(@[q], MessageSize(r, q)) ELSE @[q]]]
      /\ UNCHANGED <<request, lines, open, addedElement, recvBuf,
                     recvMessageSize, contributed, data>>
  BY DEF Continue, Reduced, Goto
<1>2. \A q \in Ranks : /\ Gathered(r, q) = toSend[r][q]
                       /\ MessageSize(r, q) = Len(toSend[r][q])
                       /\ toSend[r][q] \in Seq(Elements)
                       /\ Len(toSend[r][q]) \in Nat
  <2> SUFFICES ASSUME NEW q \in Ranks
               PROVE  /\ Gathered(r, q) = toSend[r][q]
                      /\ MessageSize(r, q) = Len(toSend[r][q])
                      /\ toSend[r][q] \in Seq(Elements)
                      /\ Len(toSend[r][q]) \in Nat
    OBVIOUS
  <2>1. sendBuf[r][q] = <<>>
    BY <1>1 DEF Resting, AtRest
  <2>2. toSend[r][q] \in Seq(Elements)
    BY DEF Kinds, Boxes
  <2>3. <<>> \o toSend[r][q] = toSend[r][q]
    BY <2>2
  <2>4. Len(toSend[r][q]) \in Nat
    BY <2>2
  <2> QED BY <2>1, <2>2, <2>3, <2>4 DEF Gathered, MessageSize
<1>3. \A a, b \in Ranks :
         /\ sendBuf'[a][b] = IF a = r THEN toSend[a][b] ELSE sendBuf[a][b]
         /\ toSend'[a][b] = IF a = r THEN <<>> ELSE toSend[a][b]
  BY <1>1, <1>2 DEF Kinds, Boxes
<1>4. \A a, b \in Ranks :
         sizes'[a][b] = IF a = r /\ b \in NeighborRanks(r)
                        THEN Append(sizes[a][b], Len(toSend[a][b])) ELSE sizes[a][b]
  BY <1>1, <1>2 DEF Kinds
<1>5. sendBuf' \in Boxes
  <2>1. [q \in Ranks |-> Gathered(r, q)] \in [Ranks -> Seq(Elements)]
    BY <1>2
  <2> QED BY <1>1, <2>1 DEF Kinds, Boxes
<1>6. toSend' \in Boxes
  <2>1. [q \in Ranks |-> <<>>] \in [Ranks -> Seq(Elements)]
    OBVIOUS
  <2> QED BY <1>1, <2>1 DEF Kinds, Boxes
<1>7. sizes' \in [Ranks -> [Ranks -> Seq(Nat)]]
  <2>1. sizes[r] \in [Ranks -> Seq(Nat)]
    BY DEF Kinds
  <2>2. [q \in Ranks |-> IF q \in NeighborRanks(r)
            THEN Append(sizes[r][q], MessageSize(r, q)) ELSE sizes[r][q]]
        \in [Ranks -> Seq(Nat)]
    BY <1>2, <2>1
  <2>3. sizes' = [sizes EXCEPT ![r] = [q \in Ranks |-> IF q \in NeighborRanks(r)
            THEN Append(sizes[r][q], MessageSize(r, q)) ELSE sizes[r][q]]]
    BY <1>1 DEF Kinds
  <2> QED BY <2>2, <2>3 DEF Kinds
<1>8. request \in Requests
  BY DEF IInv, Types
<1> QED BY <1>1, <1>3, <1>4, <1>5, <1>6, <1>7, <1>8

(* A rank that goes on gathers what it sends.                              *)
LEMMA ContinueKinds ==
    ASSUME IInv, Kinds, Resting, NEW r \in Ranks, Continue(r)
    PROVE  Kinds' /\ Resting'
<1>1. /\ request \in Requests
      /\ pc[r] = "reduce" /\ pc' = [pc EXCEPT ![r] = "sizes"]
      /\ finishedElement' = [finishedElement EXCEPT ![r] = 0]
      /\ UNCHANGED <<request, lines, open, addedElement, recvBuf,
                     recvMessageSize, contributed, data>>
      /\ \A a, b \in Ranks :
            /\ sendBuf'[a][b] = IF a = r THEN toSend[a][b] ELSE sendBuf[a][b]
            /\ toSend'[a][b] = IF a = r THEN <<>> ELSE toSend[a][b]
      /\ sendBuf' \in Boxes /\ toSend' \in Boxes
      /\ sizes' \in [Ranks -> [Ranks -> Seq(Nat)]]
  BY ContinueFacts
<1>2. Kinds'
  <2>1. \A a \in Ranks : \A i \in open[a] :
           i \in DOMAIN lines[a] /\ Carried(a, lines[a][i])
    BY DEF Kinds, Traceable
  <2>2. \A a, q \in Ranks :
              /\ toSend[a][q] \in Seq(Messages(q))
              /\ sendBuf[a][q] \in Seq(Messages(q))
              /\ data[a][q] \in Seq(Seq(Messages(q)))
              /\ recvBuf[a][q] \in Seq(Messages(a))
    BY DEF Kinds, Addressed
  <2>3. \A S : <<>> \in Seq(S)
    OBVIOUS
  <2>4. \A a, q \in Ranks : /\ toSend'[a][q] \in Seq(Messages(q))
                            /\ sendBuf'[a][q] \in Seq(Messages(q))
    BY <1>1, <2>2, <2>3
  <2> QED BY <1>1, <2>1, <2>2, <2>4, KindsAssembled DEF Kinds
<1>3. ASSUME NEW a \in Ranks PROVE AtRest(a)'
  <2>1. AtRest(a) /\ NeighborRanks(a)' = NeighborRanks(a)
    BY <1>1, SameKinds DEF Resting
  <2>2. /\ pc'[a] = IF a = r THEN "sizes" ELSE pc[a]
        /\ finishedElement'[a] = IF a = r THEN 0 ELSE finishedElement[a]
    BY <1>1 DEF IInv, Types
  <2>3. NeighborRanks(a) \subseteq Ranks
    BY DEF NeighborRanks
  <2>4. \A q \in Ranks \ NeighborRanks(a) : Unused(a, q)'
    BY <1>1, <2>1 DEF AtRest, Unused
  <2> QED BY <1>1, <2>1, <2>2, <2>4 DEF AtRest
<1> QED BY <1>2, <1>3 DEF Resting
-------------------------------------------------------------------------------
(* The size of a message from rank q that rank r has not read yet: they    *)
(* are in the same round, or q is one ahead.                               *)
Due(q, r) == \/ rounds[q] = rounds[r] /\ pc[r] = "sizes"
             \/ rounds[q] = rounds[r] + 1 /\ pc[q] = "sizes"

(* The size of the message that rank r has to read from rank q.            *)
Awaited(q, r) == IF pc[r] = "data" THEN recvMessageSize[r][q]
                 ELSE IF Due(q, r) THEN sizes[q][r][1] ELSE 0

(* A message of that size is in the send buffer, and then on its way.      *)
Channel(q, r) ==
    /\ IF Due(q, r) THEN Len(sizes[q][r]) = 1 ELSE sizes[q][r] = <<>>
    /\ pc[q] = "sizes" => data[q][r] = <<>> /\ Len(sendBuf[q][r]) = Awaited(q, r)
    /\ pc[q] # "sizes" => IF Awaited(q, r) = 0 THEN data[q][r] = <<>>
                          ELSE /\ Len(data[q][r]) = 1
                               /\ Len(data[q][r][1]) = Awaited(q, r)
    /\ rounds[q] = rounds[r] + 1 /\ ~Stopped(q) => pc[q] = "sizes"

(* All pairs of neighbours.                                                *)
Channels == \A r \in Ranks : \A q \in NeighborRanks(r) : Channel(q, r)
-------------------------------------------------------------------------------
(* Two ranks are in the same round or one apart, and then the one behind   *)
(* waits for a reduction.                                                  *)
LEMMA RoundsClose ==
    ASSUME IInv, NEW q \in Ranks, NEW r \in Ranks
    PROVE  /\ rounds[q] \in Nat /\ rounds[r] \in Nat
           /\ rounds[q] = rounds[r] \/ rounds[q] = rounds[r] + 1
                 \/ rounds[r] = rounds[q] + 1
           /\ rounds[q] = rounds[r] + 1 => pc[r] = "reduce"
           /\ rounds[r] = rounds[q] + 1 => pc[q] = "reduce"
           /\ Len(contributed[r]) \in Nat
           /\ Len(contributed[r]) = IF pc[r] = "reduce" THEN rounds[r] + 1
                                    ELSE rounds[r]
<1>1. /\ rounds[q] \in Nat /\ rounds[r] \in Nat /\ Len(contributed[r]) \in Nat
  BY DEF IInv, Types
<1>2. /\ Len(contributed[r]) = IF pc[r] = "reduce" THEN rounds[r] + 1 ELSE rounds[r]
      /\ Len(contributed[q]) = IF pc[q] = "reduce" THEN rounds[q] + 1 ELSE rounds[q]
      /\ rounds[q] <= Len(contributed[r]) /\ rounds[r] <= Len(contributed[q])
  BY DEF IInv, Entered
<1> QED BY <1>1, <1>2

(* When a reduction has its result, each rank has entered it: it waits for *)
(* the result or is one round ahead, and then it has stopped exactly if    *)
(* this rank is to stop.                                                   *)
LEMMA ReducedFacts ==
    ASSUME IInv, NEW r \in Ranks, Reduced(r), NEW q \in Ranks
    PROVE  /\ pc[r] = "reduce"
           /\ \/ rounds[q] = rounds[r] /\ pc[q] = "reduce"
              \/ rounds[q] = rounds[r] + 1 /\ (Stopped(q) <=> Left(r) = 0)
           /\ rounds[q] \in Nat /\ rounds[r] \in Nat
<1>1. /\ pc[r] = "reduce" /\ Len(contributed[q]) > rounds[r]
  BY DEF Reduced
<1>2. /\ rounds[q] \in Nat /\ rounds[r] \in Nat /\ Len(contributed[q]) \in Nat
      /\ Len(contributed[q]) = IF pc[q] = "reduce" THEN rounds[q] + 1 ELSE rounds[q]
      /\ rounds[q] <= rounds[r] + 1
  BY RoundsClose
<1>3. rounds[q] = rounds[r] \/ rounds[q] = rounds[r] + 1
  BY <1>1, <1>2
<1>4. rounds[q] = rounds[r] => pc[q] = "reduce"
  BY <1>1, <1>2
<1>5. ASSUME rounds[q] = rounds[r] + 1 PROVE Stopped(q) <=> Left(r) = 0
  <2>1. globalElementCounter[q] = Left(r)
    BY <1>5 DEF IInv, Agreement, Left
  <2>2. rounds[q] > 0
    BY <1>2, <1>5
  <2> QED BY <2>1, <2>2 DEF IInv, AtZero
<1> QED BY <1>1, <1>2, <1>3, <1>4, <1>5

(* What receiving the sizes changes.                                       *)
LEMMA ReceiveSizesFacts ==
    ASSUME IInv, Kinds, Resting, NEW r \in Ranks, ReceiveSizes(r)
    PROVE  /\ request \in Requests
           /\ pc[r] = "sizes" /\ pc' = [pc EXCEPT ![r] = "data"]
           /\ \A q \in NeighborRanks(r) : sizes[q][r] # <<>>
           /\ UNCHANGED <<request, lines, open, counters, toSend, sendBuf, recvBuf,
                          contributed, rounds>>
           /\ \A a, b \in Ranks :
                 /\ recvMessageSize'[a][b] =
                       IF a # r THEN recvMessageSize[a][b]
                       ELSE IF b \in NeighborRanks(r) THEN Head(sizes[b][a]) ELSE 0
                 /\ sizes'[a][b] = IF b = r /\ a \in NeighborRanks(r)
                                   THEN Tail(sizes[a][b]) ELSE sizes[a][b]
                 /\ data'[a][b] = IF a = r /\ sendBuf[a][b] # <<>>
                                  THEN Append(data[a][b], sendBuf[a][b])
                                  ELSE data[a][b]
           /\ recvMessageSize' \in [Ranks -> [Ranks -> Nat]]
           /\ sizes' \in [Ranks -> [Ranks -> Seq(Nat)]]
           /\ data' \in [Ranks -> [Ranks -> Seq(Seq(Elements))]]
<1> DEFINE near == NeighborRanks(r)
<1>0. request \in Requests /\ near \subseteq Ranks
  BY DEF IInv, Types, NeighborRanks
<1>1. /\ pc[r] = "sizes" /\ pc' = [pc EXCEPT ![r] = "data"]
      /\ \A q \in near : sizes[q][r] # <<>>
      /\ recvMessageSize' = [recvMessageSize EXCEPT ![r] = [q \in Ranks |->
                                IF q \in near THEN Head(sizes[q][r]) ELSE 0]]
      /\ sizes' = [q \in Ranks |-> IF q \in near
                                   THEN [sizes[q] EXCEPT ![r] = Tail(@)]
                                   ELSE sizes[q]]
      /\ data' = [data EXCEPT ![r] = [q \in Ranks |->
                     IF sendBuf[r][q] # <<>> THEN Append(@[q], sendBuf[r][q])
                     ELSE @[q]]]
      /\ UNCHANGED <<request, lines, open, counters, toSend, sendBuf, recvBuf,
                     contributed, rounds>>
  BY DEF ReceiveSizes, Goto
<1> HIDE DEF near
<1>2. \A q \in near : Head(sizes[q][r]) \in Nat /\ Tail(sizes[q][r]) \in Seq(Nat)
  <2>1. \A q \in near : sizes[q][r] \in Seq(Nat)
    BY <1>0 DEF Kinds
  <2>2. \A s \in Seq(Nat) : s # <<>> => Head(s) \in Nat /\ Tail(s) \in Seq(Nat)
    OBVIOUS
  <2> QED BY <1>1, <2>1, <2>2
<1>3. \A q \in Ranks : Append(data[r][q], sendBuf[r][q]) \in Seq(Seq(Elements))
  <2>1. \A q \in Ranks : /\ data[r][q] \in Seq(Seq(Elements))
                         /\ sendBuf[r][q] \in Seq(Elements)
    BY DEF Kinds, Boxes
  <2>2. \A d \in Seq(Seq(Elements)), s \in Seq(Elements) :
           Append(d, s) \in Seq(Seq(Elements))
    OBVIOUS
  <2> QED BY <2>1, <2>2
<1>4. \A a, b \in Ranks :
         /\ recvMessageSize'[a][b] =
               IF a # r THEN recvMessageSize[a][b]
               ELSE IF b \in near THEN Head(sizes[b][a]) ELSE 0
         /\ data'[a][b] = IF a = r /\ sendBuf[a][b] # <<>>
                          THEN Append(data[a][b], sendBuf[a][b]) ELSE data[a][b]
  BY <1>1 DEF Kinds
<1>5. \A a, b \in Ranks : sizes'[a][b] = IF b = r /\ a \in near
                                         THEN Tail(sizes[a][b]) ELSE sizes[a][b]
  BY <1>1 DEF Kinds
<1>6. recvMessageSize' \in [Ranks -> [Ranks -> Nat]]
  <2>1. [q \in Ranks |-> IF q \in near THEN Head(sizes[q][r]) ELSE 0] \in [Ranks -> Nat]
    BY <1>2
  <2> QED BY <1>1, <2>1 DEF Kinds
<1>7. sizes' \in [Ranks -> [Ranks -> Seq(Nat)]]
  <2>1. \A q \in near : [sizes[q] EXCEPT ![r] = Tail(@)] \in [Ranks -> Seq(Nat)]
    BY <1>0, <1>2 DEF Kinds
  <2> QED BY <1>1, <2>1 DEF Kinds
<1>8. data' \in [Ranks -> [Ranks -> Seq(Seq(Elements))]]
  <2> DEFINE d == [q \in Ranks |-> IF sendBuf[r][q] # <<>>
                                   THEN Append(data[r][q], sendBuf[r][q])
                                   ELSE data[r][q]]
  <2>1. d \in [Ranks -> Seq(Seq(Elements))]
    BY <1>3 DEF Kinds
  <2>2. data' = [data EXCEPT ![r] = d]
    BY <1>1 DEF Kinds
  <2> HIDE DEF d
  <2> QED BY <2>1, <2>2 DEF Kinds
<1> QED BY <1>0, <1>1, <1>4, <1>5, <1>6, <1>7, <1>8 DEF near

(* The sizes come in and what was gathered is sent.                        *)
LEMMA ReceiveSizesKinds ==
    ASSUME IInv, Kinds, Resting, NEW r \in Ranks, ReceiveSizes(r)
    PROVE  Kinds' /\ Resting'
<1>1. /\ request \in Requests
      /\ pc[r] = "sizes" /\ pc' = [pc EXCEPT ![r] = "data"]
      /\ UNCHANGED <<request, lines, open, finishedElement, addedElement, toSend,
                     sendBuf, recvBuf>>
      /\ \A a, b \in Ranks :
            /\ recvMessageSize'[a][b] =
                  IF a # r THEN recvMessageSize[a][b]
                  ELSE IF b \in NeighborRanks(r) THEN Head(sizes[b][a]) ELSE 0
            /\ data'[a][b] = IF a = r /\ sendBuf[a][b] # <<>>
                             THEN Append(data[a][b], sendBuf[a][b]) ELSE data[a][b]
      /\ recvMessageSize' \in [Ranks -> [Ranks -> Nat]]
      /\ sizes' \in [Ranks -> [Ranks -> Seq(Nat)]]
      /\ data' \in [Ranks -> [Ranks -> Seq(Seq(Elements))]]
  BY ReceiveSizesFacts DEF counters
<1>2. Kinds'
  <2>1. \A a \in Ranks : \A i \in open[a] :
           i \in DOMAIN lines[a] /\ Carried(a, lines[a][i])
    BY DEF Kinds, Traceable
  <2>2. \A a, q \in Ranks :
              /\ toSend[a][q] \in Seq(Messages(q))
              /\ sendBuf[a][q] \in Seq(Messages(q))
              /\ data[a][q] \in Seq(Seq(Messages(q)))
              /\ recvBuf[a][q] \in Seq(Messages(a))
    BY DEF Kinds, Addressed
  <2>3. \A S : \A d \in Seq(Seq(S)), s \in Seq(S) : Append(d, s) \in Seq(Seq(S))
    OBVIOUS
  <2>4. ASSUME NEW a \in Ranks, NEW q \in Ranks
        PROVE  data'[a][q] \in Seq(Seq(Messages(q)))
    <3>1. Append(data[a][q], sendBuf[a][q]) \in Seq(Seq(Messages(q)))
      BY <2>2, <2>3
    <3>2. data'[a][q] = Append(data[a][q], sendBuf[a][q]) \/ data'[a][q] = data[a][q]
      BY <1>1
    <3> QED BY <2>2, <3>1, <3>2
  <2> QED BY <1>1, <2>1, <2>2, <2>4, KindsAssembled DEF Kinds
<1>3. ASSUME NEW a \in Ranks PROVE AtRest(a)'
  <2>1. AtRest(a) /\ NeighborRanks(a)' = NeighborRanks(a)
    BY <1>1, SameKinds DEF Resting
  <2>2. pc'[a] = IF a = r THEN "data" ELSE pc[a]
    BY <1>1 DEF IInv, Types
  <2>3. \A q \in Ranks \ NeighborRanks(a) : Unused(a, q)'
    BY <1>1, <2>1 DEF AtRest, Unused
  <2> QED BY <1>1, <2>1, <2>2, <2>3 DEF AtRest
<1> QED BY <1>2, <1>3 DEF Resting
-------------------------------------------------------------------------------
(* A sequence of one element.                                              *)
LEMMA SingleFacts ==
    ASSUME NEW S, NEW s \in Seq(S), Len(s) = 1
    PROVE  /\ Head(s) = s[1] /\ s[1] \in S /\ Tail(s) = <<>> /\ s # <<>>
           /\ DOMAIN s = {1}
<1>1. DOMAIN s = 1..1 /\ s[1] \in S /\ Head(s) = s[1] /\ s # <<>>
  OBVIOUS
<1>2. Tail(s) \in Seq(S) /\ Len(Tail(s)) = 0
  OBVIOUS
<1>3. Tail(s) = <<>>
  <2>1. \A t \in Seq(S) : Len(t) = 0 => t = <<>>
    OBVIOUS
  <2> QED BY <1>2, <2>1
<1> QED BY <1>1, <1>3

(* A channel is as it was when neither end moves in the rounds.            *)
LEMMA ChannelKept ==
    ASSUME NEW q, NEW r, Channel(q, r), rounds'[q] = rounds[q], rounds'[r] = rounds[r],
           sizes'[q][r] = sizes[q][r], data'[q][r] = data[q][r],
           sendBuf'[q][r] = sendBuf[q][r],
           recvMessageSize'[r][q] = recvMessageSize[r][q],
           pc'[q] = "sizes" <=> pc[q] = "sizes",
           pc'[r] = "sizes" <=> pc[r] = "sizes", pc'[r] = "data" <=> pc[r] = "data",
           Stopped(q)' <=> Stopped(q)
    PROVE  Channel(q, r)'
<1>1. Due(q, r)' <=> Due(q, r)
  BY DEF Due
<1>2. Awaited(q, r)' = Awaited(q, r)
  BY <1>1 DEF Awaited
<1> QED BY <1>1, <1>2 DEF Channel

(* A step that touches neither messages nor rounds keeps the channels.     *)
LEMMA QuietChannels ==
    ASSUME Channels, UNCHANGED <<request, rounds, sizes, data, sendBuf, recvMessageSize>>,
           \A q \in Ranks : /\ pc'[q] = "sizes" <=> pc[q] = "sizes"
                            /\ pc'[q] = "data" <=> pc[q] = "data"
                            /\ Stopped(q)' <=> Stopped(q)
    PROVE  Channels'
<1>1. \A r \in Ranks : /\ NeighborRanks(r)' = NeighborRanks(r)
                       /\ NeighborRanks(r) \subseteq Ranks
  BY SameKinds DEF NeighborRanks
<1>2. ASSUME NEW r \in Ranks, NEW q \in NeighborRanks(r) PROVE Channel(q, r)'
  <2>1. q \in Ranks /\ Channel(q, r)
    BY <1>1 DEF Channels
  <2> QED BY <2>1, ChannelKept
<1> QED BY <1>1, <1>2 DEF Channels

(* The tracing of lines keeps the channels.                                *)
LEMMA TraceChannels ==
    ASSUME IInv, Kinds, Resting, Channels, NEW r \in Ranks, NEW i \in open[r],
           Trace(r, i)
    PROVE  Channels'
<1>1. UNCHANGED <<request, pc, rounds, sizes, data, sendBuf, recvMessageSize>>
  BY TraceFacts DEF tracing, mpi
<1> QED BY <1>1, QuietChannels DEF Stopped

(* Entering a reduction keeps the channels.                                *)
LEMMA ContributeChannels ==
    ASSUME IInv, Channels, NEW r \in Ranks, Contribute(r)
    PROVE  Channels'
<1>1. /\ pc[r] = "trace" /\ pc' = [pc EXCEPT ![r] = "reduce"]
      /\ UNCHANGED <<request, rounds, sizes, data, sendBuf, recvMessageSize>>
  BY DEF Contribute, Goto, buffers
<1>2. \A q \in Ranks : pc'[q] = IF q = r THEN "reduce" ELSE pc[q]
  BY <1>1 DEF IInv, Types
<1> QED BY <1>1, <1>2, QuietChannels DEF Stopped

(* The numbering of what is traced keeps the channels.                     *)
LEMMA IdentifyChannels ==
    ASSUME IInv, Channels, NEW r \in Ranks, Identify(r)
    PROVE  Channels'
<1>1. UNCHANGED <<request, rounds, sizes, data, sendBuf, recvMessageSize>>
  BY DEF Identify, Count, Number, Exchange, traced, mpi, buffers
<1>2. \E a \in {"number", "exchange", "done"} :
          pc[r] \in {"count", "number", "exchange"} /\ pc' = [pc EXCEPT ![r] = a]
  BY DEF Identify, Count, Number, Exchange, Goto
<1>3. \A q \in Ranks \ {r} : pc'[q] = pc[q]
  BY <1>2 DEF IInv, Types
<1>4. /\ pc[r] \in {"count", "number", "exchange"}
      /\ pc'[r] \in {"number", "exchange", "done"}
  BY <1>2 DEF IInv, Types
<1> QED BY <1>1, <1>3, <1>4, QuietChannels DEF Stopped

(* A rank stops only together with the ranks that are a round ahead.       *)
LEMMA StopChannels ==
    ASSUME IInv, Channels, NEW r \in Ranks, Stop(r)
    PROVE  Channels'
<1>1. /\ Reduced(r) /\ Left(r) = 0 /\ rounds' = [rounds EXCEPT ![r] = @ + 1]
      /\ pc' = [pc EXCEPT ![r] = "count"]
      /\ UNCHANGED <<request, sizes, data, sendBuf, recvMessageSize>>
  BY DEF Stop, Reduced, Goto, buffers
<1>2. \A a \in Ranks : /\ pc'[a] = IF a = r THEN "count" ELSE pc[a]
                       /\ rounds'[a] = IF a = r THEN rounds[r] + 1 ELSE rounds[a]
  BY <1>1 DEF IInv, Types
<1>3. \A a \in Ranks :
         /\ pc[r] = "reduce"
         /\ \/ rounds[a] = rounds[r] /\ pc[a] = "reduce"
            \/ rounds[a] = rounds[r] + 1 /\ Stopped(a)
         /\ rounds[a] \in Nat /\ rounds[r] \in Nat
  BY <1>1, ReducedFacts
<1>4. \A a \in Ranks : /\ NeighborRanks(a)' = NeighborRanks(a)
                       /\ NeighborRanks(a) \subseteq Ranks \ {a}
  BY <1>1, SameKinds DEF NeighborRanks
<1>5. ASSUME NEW s \in Ranks, NEW q \in NeighborRanks(s) PROVE Channel(q, s)'
  <2>1. q \in Ranks /\ q # s /\ Channel(q, s)
    BY <1>4 DEF Channels
  <2>2. CASE q # r /\ s # r
    BY <1>1, <1>2, <2>1, <2>2, ChannelKept DEF Stopped
  <2>3. CASE q = r \/ s = r
    <3>1. ~Due(q, s) /\ pc[q] # "sizes" /\ pc[s] # "data"
      BY <1>3, <2>1, <2>3 DEF Due, Stopped
    <3>2. /\ pc'[q] \notin {"sizes", "data"} /\ pc'[s] \notin {"sizes", "data"}
      BY <1>2, <1>3, <2>1, <2>3 DEF Stopped
    <3>3. ~Due(q, s)'
      BY <3>2 DEF Due
    <3>4. Awaited(q, s) = 0 /\ Awaited(q, s)' = 0
      BY <3>1, <3>2, <3>3 DEF Awaited
    <3>5. sizes[q][s] = <<>> /\ data[q][s] = <<>>
      BY <2>1, <3>1, <3>4 DEF Channel
    <3>6. rounds'[q] = rounds'[s] + 1 => Stopped(q)'
      BY <1>2, <1>3, <2>1, <2>3 DEF Stopped
    <3> QED BY <1>1, <3>2, <3>3, <3>4, <3>5, <3>6 DEF Channel
  <2> QED BY <2>2, <2>3
<1> QED BY <1>4, <1>5 DEF Channels

(* A rank that goes on sends its sizes to ranks that are to go on, and has *)
(* those of the ranks that are a round ahead.                              *)
LEMMA ContinueChannels ==
    ASSUME IInv, Kinds, Resting, Channels, NEW r \in Ranks, Continue(r)
    PROVE  Channels'
<1>1. /\ Reduced(r) /\ Left(r) # 0 /\ rounds' = [rounds EXCEPT ![r] = @ + 1]
  BY DEF Continue, Reduced
<1>2. /\ pc' = [pc EXCEPT ![r] = "sizes"]
      /\ UNCHANGED <<request, recvMessageSize, data>>
      /\ \A a, b \in Ranks :
            /\ sendBuf'[a][b] = IF a = r THEN toSend[a][b] ELSE sendBuf[a][b]
            /\ sizes'[a][b] = IF a = r /\ b \in NeighborRanks(r)
                              THEN Append(sizes[a][b], Len(toSend[a][b]))
                              ELSE sizes[a][b]
  BY ContinueFacts
<1>3. \A a \in Ranks : /\ pc'[a] = IF a = r THEN "sizes" ELSE pc[a]
                       /\ rounds'[a] = IF a = r THEN rounds[r] + 1 ELSE rounds[a]
  BY <1>1, <1>2 DEF IInv, Types
<1>4. \A a \in Ranks :
         /\ pc[r] = "reduce"
         /\ \/ rounds[a] = rounds[r] /\ pc[a] = "reduce"
            \/ rounds[a] = rounds[r] + 1 /\ ~Stopped(a)
         /\ rounds[a] \in Nat /\ rounds[r] \in Nat
  BY <1>1, ReducedFacts
<1>5. \A a \in Ranks : /\ NeighborRanks(a)' = NeighborRanks(a)
                       /\ NeighborRanks(a) \subseteq Ranks \ {a}
                       /\ \A b \in NeighborRanks(a) : a \in NeighborRanks(b)
  <2>1. request \in Requests
    BY DEF IInv, Types
  <2> QED BY <1>2, <2>1, SameKinds, NeighborFacts
<1>6. ASSUME NEW s \in Ranks, NEW q \in NeighborRanks(s) PROVE Channel(q, s)'
  <2>1. q \in Ranks /\ q # s /\ Channel(q, s) /\ s \in NeighborRanks(q) /\ Channel(s, q)
    BY <1>5 DEF Channels
  <2>2. CASE q # r /\ s # r
    BY <1>2, <1>3, <2>1, <2>2, ChannelKept DEF Stopped
  <2>3. CASE q = r
    <3>1. rounds[s] = rounds[r] + 1 => pc[s] = "sizes"
      BY <1>4, <2>1, <2>3 DEF Channel
    <3>2. ~Due(q, s) /\ pc[q] # "sizes" /\ pc[s] # "data"
      BY <1>4, <2>3, <3>1 DEF Due
    <3>3. Awaited(q, s) = 0 /\ sizes[q][s] = <<>> /\ data[q][s] = <<>>
      BY <2>1, <3>2 DEF Channel, Awaited
    <3>4. Due(q, s)' /\ pc'[q] = "sizes" /\ pc'[s] # "data"
      BY <1>3, <1>4, <2>1, <2>3, <3>1 DEF Due
    <3>5. sizes'[q][s] = <<Len(toSend[q][s])>> /\ sendBuf'[q][s] = toSend[q][s]
      <4>1. sizes'[q][s] = Append(sizes[q][s], Len(toSend[q][s]))
        BY <1>2, <2>1, <2>3
      <4>2. Append(<<>>, Len(toSend[q][s])) = <<Len(toSend[q][s])>>
        OBVIOUS
      <4> QED BY <1>2, <2>1, <2>3, <3>3, <4>1, <4>2
    <3>6. Awaited(q, s)' = Len(sendBuf'[q][s]) /\ Len(sizes'[q][s]) = 1
      BY <3>4, <3>5 DEF Awaited
    <3> QED BY <1>2, <3>3, <3>4, <3>6 DEF Channel
  <2>4. CASE s = r
    <3>1. rounds[q] = rounds[r] + 1 => pc[q] = "sizes"
      BY <1>4, <2>1, <2>4 DEF Channel
    <3>2. Due(q, s)' <=> Due(q, s)
      BY <1>3, <1>4, <2>1, <2>4, <3>1 DEF Due
    <3>3. /\ sizes'[q][s] = sizes[q][s] /\ data'[q][s] = data[q][s]
          /\ sendBuf'[q][s] = sendBuf[q][s] /\ pc'[q] = pc[q]
          /\ pc[s] # "data" /\ pc'[s] # "data"
      BY <1>2, <1>3, <1>4, <2>1, <2>4
    <3>4. Awaited(q, s)' = Awaited(q, s)
      BY <3>2, <3>3 DEF Awaited
    <3>5. rounds'[q] # rounds'[s] + 1
      BY <1>3, <1>4, <2>1, <2>4
    <3> QED BY <2>1, <3>2, <3>3, <3>4, <3>5 DEF Channel
  <2> QED BY <2>2, <2>3, <2>4
<1> QED BY <1>5, <1>6 DEF Channels

(* A rank that took the sizes awaits what they say, and what it has sent   *)
(* is what its neighbours were told.                                       *)
LEMMA ReceiveSizesChannels ==
    ASSUME IInv, Kinds, Resting, Channels, NEW r \in Ranks, ReceiveSizes(r)
    PROVE  Channels'
<1>1. /\ request \in Requests
      /\ pc[r] = "sizes" /\ pc' = [pc EXCEPT ![r] = "data"]
      /\ \A q \in NeighborRanks(r) : sizes[q][r] # <<>>
      /\ UNCHANGED <<request, sendBuf, rounds>>
      /\ \A a, b \in Ranks :
            /\ recvMessageSize'[a][b] =
                  IF a # r THEN recvMessageSize[a][b]
                  ELSE IF b \in NeighborRanks(r) THEN Head(sizes[b][a]) ELSE 0
            /\ sizes'[a][b] = IF b = r /\ a \in NeighborRanks(r)
                              THEN Tail(sizes[a][b]) ELSE sizes[a][b]
            /\ data'[a][b] = IF a = r /\ sendBuf[a][b] # <<>>
                             THEN Append(data[a][b], sendBuf[a][b])
                             ELSE data[a][b]
  BY ReceiveSizesFacts
<1>2. \A a \in Ranks : pc'[a] = IF a = r THEN "data" ELSE pc[a]
  BY <1>1 DEF IInv, Types
<1>3. \A a \in Ranks : /\ NeighborRanks(a)' = NeighborRanks(a)
                       /\ NeighborRanks(a) \subseteq Ranks \ {a}
                       /\ \A b \in NeighborRanks(a) : a \in NeighborRanks(b)
  BY <1>1, SameKinds, NeighborFacts
<1>4. \A a, b \in Ranks : /\ sizes[a][b] \in Seq(Nat) /\ sendBuf[a][b] \in Seq(Elements)
                          /\ data[a][b] \in Seq(Seq(Elements))
  BY DEF Kinds, Boxes
<1>5. ASSUME NEW s \in Ranks, NEW q \in NeighborRanks(s) PROVE Channel(q, s)'
  <2>1. q \in Ranks /\ q # s /\ Channel(q, s) /\ s \in NeighborRanks(q) /\ Channel(s, q)
    BY <1>3 DEF Channels
  <2>2. /\ rounds[q] \in Nat /\ rounds[s] \in Nat
        /\ rounds[q] = rounds[s] + 1 => pc[s] = "reduce"
        /\ rounds[s] = rounds[q] + 1 => pc[q] = "reduce"
    BY <2>1, RoundsClose
  <2>3. CASE q # r /\ s # r
    BY <1>1, <1>2, <2>1, <2>3, ChannelKept DEF Stopped
  <2>4. CASE s = r
    <3>1. sizes[q][s] # <<>> /\ pc[s] = "sizes"
      BY <1>1, <2>4
    <3>2. Due(q, s) /\ Len(sizes[q][s]) = 1
      BY <2>1, <3>1 DEF Channel
    <3>3. Head(sizes[q][s]) = sizes[q][s][1] /\ Tail(sizes[q][s]) = <<>>
      BY <1>4, <2>1, <3>2, SingleFacts
    <3>4. pc'[s] = "data" /\ pc'[q] = pc[q] /\ ~Due(q, s)'
      BY <1>1, <1>2, <2>1, <2>2, <2>4 DEF Due
    <3>5. /\ sizes'[q][s] = <<>> /\ data'[q][s] = data[q][s]
          /\ sendBuf'[q][s] = sendBuf[q][s]
          /\ recvMessageSize'[s][q] = sizes[q][s][1]
      BY <1>1, <2>1, <2>4, <3>3
    <3>6. Awaited(q, s)' = Awaited(q, s)
      BY <3>1, <3>2, <3>4, <3>5 DEF Awaited
    <3>7. rounds'[q] # rounds'[s] + 1
      BY <1>1, <2>2, <2>4
    <3> QED BY <2>1, <3>4, <3>5, <3>6, <3>7 DEF Channel
  <2>5. CASE q = r
    <3>1. Due(s, q)
      BY <1>1, <2>1, <2>5 DEF Channel
    <3>2. rounds[q] # rounds[s] + 1
      BY <1>1, <2>2, <2>5, <3>1 DEF Due
    <3>3. Due(q, s)' <=> Due(q, s)
      BY <1>1, <1>2, <2>1, <2>5, <3>2 DEF Due
    <3>4. /\ pc[q] = "sizes" /\ pc'[q] = "data" /\ pc'[s] = pc[s]
          /\ sizes'[q][s] = sizes[q][s]
          /\ recvMessageSize'[s][q] = recvMessageSize[s][q]
          /\ data'[q][s] = IF sendBuf[q][s] # <<>>
                           THEN Append(data[q][s], sendBuf[q][s]) ELSE data[q][s]
      BY <1>1, <1>2, <2>1, <2>5
    <3>5. Awaited(q, s)' = Awaited(q, s)
      BY <3>3, <3>4 DEF Awaited
    <3>6. data[q][s] = <<>> /\ Len(sendBuf[q][s]) = Awaited(q, s)
      BY <2>1, <3>4 DEF Channel
    <3>7. IF Awaited(q, s) = 0 THEN data'[q][s] = <<>>
          ELSE /\ Len(data'[q][s]) = 1 /\ Len(data'[q][s][1]) = Awaited(q, s)
      <4>1. CASE sendBuf[q][s] = <<>>
        BY <3>4, <3>6, <4>1
      <4>2. CASE sendBuf[q][s] # <<>>
        <5>1. Len(sendBuf[q][s]) # 0
          BY <1>4, <2>1, <4>2
        <5>2. data'[q][s] = <<sendBuf[q][s]>>
          BY <3>4, <3>6, <4>2
        <5> QED BY <3>6, <5>1, <5>2
      <4> QED BY <4>1, <4>2
    <3>8. rounds'[q] # rounds'[s] + 1
      BY <1>1, <3>2
    <3>9. IF Due(q, s) THEN Len(sizes[q][s]) = 1 ELSE sizes[q][s] = <<>>
      BY <2>1 DEF Channel
    <3> QED BY <3>3, <3>4, <3>5, <3>7, <3>8, <3>9 DEF Channel
  <2> QED BY <2>3, <2>4, <2>5
<1> QED BY <1>3, <1>5 DEF Channels
-------------------------------------------------------------------------------
(* What was written to a buffer is read from it, whatever it held.         *)
LEMMA ReadBack ==
    ASSUME NEW S, NEW m \in Seq(S), NEW buf \in Seq(S)
    PROVE  /\ Overwritten(buf, m) \in Seq(S)
           /\ SubSeq(Overwritten(buf, m), 1, Len(m)) = m
           /\ SubSeq(buf, 1, 0) = <<>>
<1> DEFINE rest == SubSeq(buf, Len(m) + 1, Len(buf))
<1>1. Len(m) \in Nat /\ Len(buf) \in Nat
  OBVIOUS
<1>2. rest \in Seq(S)
  <2>1. \A i \in (Len(m) + 1)..Len(buf) : buf[i] \in S
    BY <1>1
  <2> QED BY <1>1, <2>1
<1> HIDE DEF rest
<1>3. /\ m \o rest \in Seq(S) /\ Len(m \o rest) = Len(m) + Len(rest)
      /\ \A i \in 1..Len(m) : (m \o rest)[i] = m[i]
      /\ Len(rest) \in Nat
  BY <1>2
<1>4. SubSeq(m \o rest, 1, Len(m)) = m
  BY <1>1, <1>3
<1>5. SubSeq(buf, 1, 0) = <<>>
  OBVIOUS
<1> QED BY <1>3, <1>4, <1>5 DEF Overwritten, rest

(* Each receive that is posted has its message, and the others none.       *)
LEMMA ExpectedFacts ==
    ASSUME IInv, Kinds, Resting, Channels, NEW r \in Ranks, ReceiveElements(r),
           NEW q \in NeighborRanks(r)
    PROVE  /\ q \in Ranks /\ recvMessageSize[r][q] \in Nat
           /\ q \in Expecting(r) =>
                 /\ pc[q] # "sizes" /\ recvMessageSize[r][q] # 0
                 /\ Head(data[q][r]) \in Seq(Messages(r))
                 /\ Len(Head(data[q][r])) = recvMessageSize[r][q]
                 /\ Len(data[q][r]) = 1 /\ Head(data[q][r]) = data[q][r][1]
                 /\ Tail(data[q][r]) = <<>>
           /\ q \notin Expecting(r) => recvMessageSize[r][q] = 0 /\ data[q][r] = <<>>
<1>1. /\ pc[r] = "data" /\ \A p \in Expecting(r) : data[p][r] # <<>>
  BY DEF ReceiveElements
<1>2. q \in Ranks /\ Channel(q, r)
  BY DEF Channels, NeighborRanks
<1>3. recvMessageSize[r][q] \in Nat /\ data[q][r] \in Seq(Seq(Messages(r)))
  BY <1>2 DEF Kinds, Addressed
<1>4. Awaited(q, r) = recvMessageSize[r][q]
  BY <1>1 DEF Awaited
<1>5. ASSUME q \in Expecting(r)
      PROVE  /\ pc[q] # "sizes" /\ recvMessageSize[r][q] # 0
             /\ Len(data[q][r]) = 1 /\ Len(data[q][r][1]) = recvMessageSize[r][q]
  <2>1. data[q][r] # <<>> /\ recvMessageSize[r][q] > 0
    BY <1>1, <1>5 DEF Expecting
  <2>2. pc[q] # "sizes" /\ recvMessageSize[r][q] # 0
    BY <1>2, <1>3, <2>1 DEF Channel
  <2> QED BY <1>2, <1>4, <2>2 DEF Channel
<1>6. ASSUME q \notin Expecting(r)
      PROVE  recvMessageSize[r][q] = 0 /\ data[q][r] = <<>>
  <2>1. recvMessageSize[r][q] = 0
    BY <1>3, <1>6 DEF Expecting
  <2> QED BY <1>2, <1>4, <2>1 DEF Channel
<1>7. q \in Expecting(r) =>
         /\ Head(data[q][r]) = data[q][r][1] /\ Tail(data[q][r]) = <<>>
         /\ data[q][r][1] \in Seq(Messages(r))
  BY <1>3, <1>5, SingleFacts
<1> QED BY <1>2, <1>3, <1>5, <1>6, <1>7

(* A rank reads what it was sent, as many lines as the sizes say.          *)
LEMMA ReceivedFacts ==
    ASSUME IInv, Kinds, Resting, Channels, NEW r \in Ranks, ReceiveElements(r)
    PROVE  /\ \A q \in NeighborRanks(r) :
                 /\ Received(r, q) \in Seq(Messages(r))
                 /\ Len(Received(r, q)) = recvMessageSize[r][q]
           /\ \A q \in Ranks : Filled(r)[q] \in Seq(Messages(r))
           /\ Filled(r) \in [Ranks -> Seq(Elements)]
<1>1. \A q \in Ranks : recvBuf[r][q] \in Seq(Messages(r))
  BY DEF Kinds, Addressed
<1>2. \A q \in Ranks : Filled(r)[q] = IF q \in Expecting(r)
                              THEN Overwritten(recvBuf[r][q], Head(data[q][r]))
                              ELSE recvBuf[r][q]
  BY DEF Filled
<1>3. Expecting(r) \subseteq NeighborRanks(r)
  BY DEF Expecting
<1>4. ASSUME NEW q \in Ranks PROVE Filled(r)[q] \in Seq(Messages(r))
  <2>1. CASE q \in Expecting(r)
    <3>1. Head(data[q][r]) \in Seq(Messages(r))
      BY <1>3, <2>1, ExpectedFacts
    <3>2. Overwritten(recvBuf[r][q], Head(data[q][r])) \in Seq(Messages(r))
      BY <1>1, <3>1, ReadBack
    <3> QED BY <1>2, <2>1, <3>2
  <2>2. CASE q \notin Expecting(r)
    BY <1>1, <1>2, <2>2
  <2> QED BY <2>1, <2>2
<1>5. ASSUME NEW q \in NeighborRanks(r)
      PROVE  /\ Received(r, q) \in Seq(Messages(r))
             /\ Len(Received(r, q)) = recvMessageSize[r][q]
  <2>1. q \in Ranks
    BY DEF NeighborRanks
  <2>2. CASE q \in Expecting(r)
    <3>1. /\ Head(data[q][r]) \in Seq(Messages(r))
          /\ Len(Head(data[q][r])) = recvMessageSize[r][q]
      BY <2>2, ExpectedFacts
    <3>2. SubSeq(Overwritten(recvBuf[r][q], Head(data[q][r])), 1,
                 Len(Head(data[q][r]))) = Head(data[q][r])
      BY <1>1, <2>1, <3>1, ReadBack
    <3>3. Received(r, q) = Head(data[q][r])
      BY <1>2, <2>1, <2>2, <3>1, <3>2 DEF Received
    <3> QED BY <3>1, <3>3
  <2>3. CASE q \notin Expecting(r)
    <3>1. recvMessageSize[r][q] = 0
      BY <2>3, ExpectedFacts
    <3>2. SubSeq(recvBuf[r][q], 1, 0) = <<>>
      BY <1>1, <2>1, ReadBack
    <3>3. Received(r, q) = <<>>
      BY <1>2, <2>1, <2>3, <3>1, <3>2 DEF Received
    <3>4. <<>> \in Seq(Messages(r)) /\ Len(<<>>) = 0
      OBVIOUS
    <3> QED BY <3>1, <3>3, <3>4
  <2> QED BY <2>2, <2>3
<1>6. Filled(r) \in [Ranks -> Seq(Elements)]
  <2>1. \A s \in Seq(Messages(r)) : s \in Seq(Elements)
    <3>1. Messages(r) \subseteq Elements
      BY DEF Messages
    <3> QED BY <3>1
  <2>2. Filled(r) = [q \in Ranks |-> Filled(r)[q]]
    BY DEF Filled
  <2> QED BY <1>4, <2>1, <2>2
<1> QED BY <1>4, <1>5, <1>6

(* The lines that are received are as many as the sizes said.              *)
LEMMA NewLinesFacts ==
    ASSUME IInv, Kinds, Resting, Channels, NEW r \in Ranks, ReceiveElements(r)
    PROVE  /\ NewLines(r) \in Seq(Pieces)
           /\ \A k \in DOMAIN NewLines(r) : Carried(r, NewLines(r)[k])
           /\ Len(NewLines(r)) = Total(recvMessageSize[r])
<1> DEFINE from == RankList(r)
           n == Len(from)
           part == [k \in DOMAIN from |-> Received(r, from[k])]
           all == FlattenSeq(part)
           near == NeighborRanks(r)
<1>0. request \in Requests
  BY DEF IInv, Types
<1>1. /\ near \subseteq Ranks /\ from \in Bijection(DOMAIN from, near)
      /\ n \in Nat /\ DOMAIN from = 1..n /\ \A k \in 1..n : from[k] \in near
      /\ IsFiniteSet(near)
  BY <1>0, NeighborFacts DEF Bijection, Injection
<1>2. \A q \in near : /\ Received(r, q) \in Seq(Messages(r))
                      /\ Len(Received(r, q)) = recvMessageSize[r][q]
  BY ReceivedFacts
<1> HIDE DEF from, n, near
<1>3. /\ part \in Seq(Seq(Messages(r))) /\ Len(part) = n
      /\ \A k \in 1..n : part[k] = Received(r, from[k])
  <2> DEFINE b(k) == Received(r, from[k])
  <2>1. part = [k \in 1..n |-> b(k)] /\ \A k \in 1..n : b(k) \in Seq(Messages(r))
    BY <1>1, <1>2
  <2> HIDE DEF b, part
  <2>2. part \in Seq(Seq(Messages(r))) /\ Len(part) = n
    BY <1>1, <2>1
  <2>3. \A k \in 1..n : part[k] = b(k)
    BY <2>1
  <2> QED BY <2>2, <2>3 DEF b
<1> HIDE DEF part
<1>4. all \in Seq(Messages(r)) /\ Len(all) = Total(Lengths(part, n))
  BY <1>3, FlattenFacts
<1>5. NewLines(r) = [k \in DOMAIN all |-> Unpacked(all[k])]
  BY DEF NewLines, all, part, from
<1> HIDE DEF all
<1>6. /\ NewLines(r) \in Seq(Pieces) /\ Len(NewLines(r)) = Len(all)
      /\ \A k \in DOMAIN NewLines(r) : Carried(r, NewLines(r)[k])
  <2> DEFINE m == Len(all)
             b(k) == Unpacked(all[k])
  <2>1. m \in Nat /\ DOMAIN all = 1..m /\ \A k \in 1..m : all[k] \in Messages(r)
    BY <1>4
  <2>2. \A k \in 1..m : b(k) \in Pieces /\ Carried(r, b(k))
    BY <1>0, <2>1, UnpackedFacts
  <2>3. NewLines(r) = [k \in 1..m |-> b(k)]
    BY <1>5, <2>1
  <2> HIDE DEF b, m
  <2>4. NewLines(r) \in Seq(Pieces) /\ Len(NewLines(r)) = m
    BY <2>1, <2>2, <2>3
  <2>5. \A k \in DOMAIN NewLines(r) : Carried(r, NewLines(r)[k])
    BY <2>2, <2>3
  <2> QED BY <2>4, <2>5 DEF m
<1>7. Total(Lengths(part, n)) = Total(recvMessageSize[r])
  <2> DEFINE f == [q \in near |-> recvMessageSize[r][q]]
  <2>1. DOMAIN f = near /\ \A q \in near : f[q] = recvMessageSize[r][q]
    OBVIOUS
  <2>2. recvMessageSize[r] \in [Ranks -> Nat]
    BY DEF Kinds
  <2>3. DOMAIN recvMessageSize[r] = Ranks /\ \A q \in Ranks : recvMessageSize[r][q] \in Int
    BY <2>2
  <2> HIDE DEF f
  <2>4. Numbers(f)
    BY <1>1, <2>1, <2>3 DEF Numbers
  <2>5. /\ DOMAIN Lengths(part, n) = 1..n /\ Numbers(Lengths(part, n))
        /\ \A k \in 1..n : Lengths(part, n)[k] = f[from[k]]
    <3>1. \A k \in 1..n : Lengths(part, n)[k] = Len(part[k])
      BY DEF Lengths
    <3>2. \A k \in 1..n : Len(part[k]) = f[from[k]] /\ f[from[k]] \in Int
      BY <1>1, <1>2, <1>3, <2>1, <2>3
    <3>3. DOMAIN Lengths(part, n) = 1..n
      BY DEF Lengths
    <3>4. Numbers(Lengths(part, n))
      BY <1>1, <3>1, <3>2, <3>3, FS_Interval DEF Numbers
    <3> QED BY <3>1, <3>2, <3>3, <3>4
  <2>6. Total(Lengths(part, n)) = Total(f)
    <3>1. from \in Bijection(DOMAIN Lengths(part, n), DOMAIN f)
      BY <1>1, <2>1, <2>5
    <3>2. /\ Numbers(Lengths(part, n))
          /\ \A k \in DOMAIN Lengths(part, n) : Lengths(part, n)[k] = f[from[k]]
      BY <2>5
    <3> QED BY <2>4, <3>1, <3>2, TotalReindex
  <2>7. \A q \in Ranks \ near : recvMessageSize[r][q] = 0
    BY DEF Resting, AtRest, Unused, near
  <2>8. Total(recvMessageSize[r]) = Total(f)
    <3>1. IsFiniteSet(Ranks)
      BY <1>0, RequestFacts
    <3>2. \A q \in Ranks : recvMessageSize[r][q] = IF q \in DOMAIN f THEN f[q] ELSE 0
      BY <2>1, <2>7
    <3> QED BY <1>1, <2>1, <2>3, <2>4, <3>1, <3>2, TotalPad
  <2> QED BY <2>6, <2>8
<1> QED BY <1>4, <1>6, <1>7

(* What receiving the elements changes.                                    *)
LEMMA ReceiveElementsFacts ==
    ASSUME IInv, Kinds, Resting, Channels, NEW r \in Ranks, ReceiveElements(r)
    PROVE  /\ request \in Requests
           /\ pc[r] = "data" /\ pc' = [pc EXCEPT ![r] = "trace"]
           /\ lines' = [lines EXCEPT ![r] = @ \o NewLines(r)]
           /\ open' = [open EXCEPT ![r] =
                          {Len(lines[r]) + k : k \in DOMAIN NewLines(r)}]
           /\ UNCHANGED <<request, counters, toSend, recvMessageSize, contributed,
                          rounds, sizes>>
           /\ \A a, b \in Ranks :
                 /\ recvBuf'[a][b] = IF a = r THEN Filled(r)[b] ELSE recvBuf[a][b]
                 /\ data'[a][b] = IF b = r /\ a \in NeighborRanks(r) THEN <<>>
                                  ELSE data[a][b]
                 /\ sendBuf'[a][b] = IF a = r THEN <<>> ELSE sendBuf[a][b]
           /\ recvBuf' \in Boxes /\ sendBuf' \in Boxes
           /\ data' \in [Ranks -> [Ranks -> Seq(Seq(Elements))]]
<1>0. /\ request \in Requests /\ Expecting(r) \subseteq NeighborRanks(r)
      /\ NeighborRanks(r) \subseteq Ranks
  BY DEF IInv, Types, Expecting, NeighborRanks
<1>1. /\ pc[r] = "data" /\ pc' = [pc EXCEPT ![r] = "trace"]
      /\ recvBuf' = [recvBuf EXCEPT ![r] = Filled(r)]
      /\ data' = [q \in Ranks |-> IF q \in Expecting(r)
                                  THEN [data[q] EXCEPT ![r] = Tail(@)]
                                  ELSE data[q]]
      /\ sendBuf' = [sendBuf EXCEPT ![r] = [q \in Ranks |-> <<>>]]
      /\ lines' = [lines EXCEPT ![r] = @ \o NewLines(r)]
      /\ open' = [open EXCEPT ![r] =
                     {Len(lines[r]) + k : k \in DOMAIN NewLines(r)}]
      /\ UNCHANGED <<request, counters, toSend, recvMessageSize, contributed,
                     rounds, sizes>>
  BY DEF ReceiveElements, Goto, Sent
<1>2. \A a, b \in Ranks :
         /\ recvBuf'[a][b] = IF a = r THEN Filled(r)[b] ELSE recvBuf[a][b]
         /\ sendBuf'[a][b] = IF a = r THEN <<>> ELSE sendBuf[a][b]
  BY <1>1 DEF Kinds, Boxes
<1>3. \A a \in Ranks : data[a] \in [Ranks -> Seq(Seq(Elements))]
  BY DEF Kinds
<1>4. \A a \in NeighborRanks(r) :
         /\ a \in Expecting(r) => Tail(data[a][r]) = <<>>
         /\ a \notin Expecting(r) => data[a][r] = <<>>
  BY ExpectedFacts
<1>5. ASSUME NEW a \in Ranks, NEW b \in Ranks
      PROVE  data'[a][b] = IF b = r /\ a \in NeighborRanks(r) THEN <<>>
                           ELSE data[a][b]
  <2>1. CASE a \in Expecting(r)
    <3>1. data'[a] = [data[a] EXCEPT ![r] = Tail(@)]
      BY <1>1, <2>1
    <3> QED BY <1>0, <1>3, <1>4, <2>1, <3>1
  <2>2. CASE a \notin Expecting(r)
    <3>1. data'[a] = data[a]
      BY <1>1, <2>2
    <3> QED BY <1>4, <2>2, <3>1
  <2> QED BY <2>1, <2>2
<1>6. recvBuf' \in Boxes
  BY <1>1, ReceivedFacts DEF Kinds, Boxes
<1>7. sendBuf' \in Boxes
  <2>1. [q \in Ranks |-> <<>>] \in [Ranks -> Seq(Elements)]
    OBVIOUS
  <2> QED BY <1>1, <2>1 DEF Kinds, Boxes
<1>8. data' \in [Ranks -> [Ranks -> Seq(Seq(Elements))]]
  <2>1. \A S : <<>> \in Seq(S)
    OBVIOUS
  <2>2. \A a \in Expecting(r) : [data[a] EXCEPT ![r] = Tail(@)]
                                   \in [Ranks -> Seq(Seq(Elements))]
    <3> SUFFICES ASSUME NEW a \in Expecting(r)
                 PROVE  [data[a] EXCEPT ![r] = Tail(@)]
                           \in [Ranks -> Seq(Seq(Elements))]
      OBVIOUS
    <3>1. Tail(data[a][r]) \in Seq(Seq(Elements)) /\ a \in Ranks
      BY <1>0, <1>4, <2>1
    <3> QED BY <1>3, <3>1
  <2> QED BY <1>1, <1>3, <2>2
<1> QED BY <1>0, <1>1, <1>2, <1>5, <1>6, <1>7, <1>8

(* What is received are pieces again.                                      *)
LEMMA ReceiveElementsKinds ==
    ASSUME IInv, Kinds, Resting, Channels, NEW r \in Ranks, ReceiveElements(r)
    PROVE  Kinds' /\ Resting'
<1>1. /\ request \in Requests
      /\ pc[r] = "data" /\ pc' = [pc EXCEPT ![r] = "trace"]
      /\ lines' = [lines EXCEPT ![r] = @ \o NewLines(r)]
      /\ open' = [open EXCEPT ![r] =
                     {Len(lines[r]) + k : k \in DOMAIN NewLines(r)}]
      /\ UNCHANGED <<request, counters, toSend, recvMessageSize, contributed,
                     rounds, sizes>>
      /\ \A a, b \in Ranks :
            /\ recvBuf'[a][b] = IF a = r THEN Filled(r)[b] ELSE recvBuf[a][b]
            /\ data'[a][b] = IF b = r /\ a \in NeighborRanks(r) THEN <<>>
                             ELSE data[a][b]
            /\ sendBuf'[a][b] = IF a = r THEN <<>> ELSE sendBuf[a][b]
      /\ recvBuf' \in Boxes /\ sendBuf' \in Boxes
      /\ data' \in [Ranks -> [Ranks -> Seq(Seq(Elements))]]
  BY ReceiveElementsFacts
<1>2. /\ NewLines(r) \in Seq(Pieces)
      /\ \A k \in DOMAIN NewLines(r) : Carried(r, NewLines(r)[k])
  BY NewLinesFacts
<1>3. /\ lines' \in [Ranks -> Seq(Pieces)] /\ open' \in [Ranks -> SUBSET Nat]
      /\ \A q \in Ranks : \A j \in open'[q] :
            j \in DOMAIN lines'[q] /\ Carried(q, lines'[q][j])
  <2> DEFINE more == {Len(lines[r]) + k : k \in DOMAIN NewLines(r)}
             old == {}
  <2>1. old \subseteq open[r] /\ open' = [open EXCEPT ![r] = old \cup more]
    BY <1>1
  <2>2. more = {Len(lines[r]) + k : k \in DOMAIN NewLines(r)}
    OBVIOUS
  <2> HIDE DEF more, old
  <2> QED BY <1>1, <1>2, <2>1, <2>2, LinesAppended
<1>4. Kinds'
  <2>1. \A a, q \in Ranks :
              /\ toSend[a][q] \in Seq(Messages(q))
              /\ sendBuf[a][q] \in Seq(Messages(q))
              /\ data[a][q] \in Seq(Seq(Messages(q)))
              /\ recvBuf[a][q] \in Seq(Messages(a))
    BY DEF Kinds, Addressed
  <2>2. \A S : <<>> \in Seq(S)
    OBVIOUS
  <2>3. \A q \in Ranks : Filled(r)[q] \in Seq(Messages(r))
    BY ReceivedFacts
  <2>4. ASSUME NEW a \in Ranks, NEW q \in Ranks
        PROVE  /\ sendBuf'[a][q] \in Seq(Messages(q))
               /\ data'[a][q] \in Seq(Seq(Messages(q)))
               /\ recvBuf'[a][q] \in Seq(Messages(a))
    <3>1. sendBuf'[a][q] = <<>> \/ sendBuf'[a][q] = sendBuf[a][q]
      BY <1>1
    <3>2. data'[a][q] = <<>> \/ data'[a][q] = data[a][q]
      BY <1>1
    <3>3. recvBuf'[a][q] \in Seq(Messages(a))
      BY <1>1, <2>1, <2>3
    <3> QED BY <2>1, <2>2, <3>1, <3>2, <3>3
  <2> QED BY <1>1, <1>3, <2>1, <2>4, KindsAssembled DEF Kinds, counters
<1>5. ASSUME NEW a \in Ranks PROVE AtRest(a)'
  <2>1. AtRest(a) /\ NeighborRanks(a)' = NeighborRanks(a)
    BY <1>1, SameKinds DEF Resting
  <2>2. /\ pc'[a] = IF a = r THEN "trace" ELSE pc[a]
        /\ a # r => open'[a] = open[a]
    BY <1>1 DEF IInv, Types, Kinds
  <2>3. \A q \in Ranks \ NeighborRanks(a) : Unused(a, q)'
    BY <1>1, <2>1 DEF AtRest, Unused
  <2>4. finishedElement' = finishedElement /\ addedElement' = addedElement
    BY <1>1 DEF counters
  <2> QED BY <1>1, <2>1, <2>2, <2>3, <2>4 DEF AtRest
<1> QED BY <1>4, <1>5 DEF Resting

(* After its receives nothing is on the way to a rank.                     *)
LEMMA ReceiveElementsChannels ==
    ASSUME IInv, Kinds, Resting, Channels, NEW r \in Ranks, ReceiveElements(r)
    PROVE  Channels'
<1>1. /\ request \in Requests
      /\ pc[r] = "data" /\ pc' = [pc EXCEPT ![r] = "trace"]
      /\ UNCHANGED <<request, recvMessageSize, rounds, sizes>>
      /\ \A a, b \in Ranks :
            /\ data'[a][b] = IF b = r /\ a \in NeighborRanks(r) THEN <<>>
                             ELSE data[a][b]
            /\ sendBuf'[a][b] = IF a = r THEN <<>> ELSE sendBuf[a][b]
  BY ReceiveElementsFacts
<1>2. \A a \in Ranks : pc'[a] = IF a = r THEN "trace" ELSE pc[a]
  BY <1>1 DEF IInv, Types
<1>3. \A a \in Ranks : /\ NeighborRanks(a)' = NeighborRanks(a)
                       /\ NeighborRanks(a) \subseteq Ranks \ {a}
  BY <1>1, SameKinds DEF NeighborRanks
<1>4. ASSUME NEW s \in Ranks, NEW q \in NeighborRanks(s) PROVE Channel(q, s)'
  <2>1. q \in Ranks /\ q # s /\ Channel(q, s)
    BY <1>3 DEF Channels
  <2>2. /\ rounds[q] \in Nat /\ rounds[s] \in Nat
        /\ rounds[q] = rounds[s] + 1 => pc[s] = "reduce"
        /\ rounds[s] = rounds[q] + 1 => pc[q] = "reduce"
    BY <2>1, RoundsClose
  <2>3. CASE q # r /\ s # r
    BY <1>1, <1>2, <2>1, <2>3, ChannelKept DEF Stopped
  <2>4. CASE s = r
    <3>1. ~Due(q, s) /\ ~Due(q, s)'
      BY <1>1, <1>2, <2>1, <2>2, <2>4 DEF Due
    <3>2. Awaited(q, s)' = 0
      BY <1>2, <2>4, <3>1 DEF Awaited
    <3>3. sizes'[q][s] = <<>>
      BY <1>1, <2>1, <3>1 DEF Channel
    <3>4. data'[q][s] = <<>>
      BY <1>1, <2>1, <2>4
    <3>5. pc'[q] = "sizes" => Len(sendBuf'[q][s]) = 0
      <4> SUFFICES ASSUME pc[q] = "sizes" PROVE Len(sendBuf[q][s]) = 0
        BY <1>1, <1>2, <2>1, <2>4
      <4>1. Len(sendBuf[q][s]) = Awaited(q, s)
        BY <2>1 DEF Channel
      <4>2. Awaited(q, s) = recvMessageSize[s][q]
        BY <1>1, <2>4 DEF Awaited
      <4>3. q \notin Expecting(r)
        BY <2>4, ExpectedFacts
      <4>4. recvMessageSize[r][q] = 0
        BY <2>4, <4>3, ExpectedFacts
      <4> QED BY <2>4, <4>1, <4>2, <4>4
    <3>6. rounds'[q] # rounds'[s] + 1
      BY <1>1, <2>2, <2>4
    <3> QED BY <3>1, <3>2, <3>3, <3>4, <3>5, <3>6 DEF Channel
  <2>5. CASE q = r
    <3>1. pc[q] = "data" /\ pc'[q] = "trace" /\ pc'[s] = pc[s]
      BY <1>1, <1>2, <2>1, <2>5
    <3>2. /\ sizes'[q][s] = sizes[q][s] /\ data'[q][s] = data[q][s]
          /\ recvMessageSize'[s][q] = recvMessageSize[s][q]
      BY <1>1, <2>1, <2>5
    <3>3. Due(q, s)' <=> Due(q, s)
      BY <1>1, <3>1 DEF Due
    <3>4. Awaited(q, s)' = Awaited(q, s)
      BY <3>1, <3>2, <3>3 DEF Awaited
    <3>5. rounds[q] # rounds[s] + 1
      BY <2>1, <3>1 DEF Channel, Stopped
    <3> QED BY <1>1, <2>1, <3>1, <3>2, <3>3, <3>4, <3>5 DEF Channel
  <2> QED BY <2>3, <2>4, <2>5
<1> QED BY <1>3, <1>4 DEF Channels
-------------------------------------------------------------------------------
(* The numbering of what is traced keeps the kinds.                        *)
LEMMA IdentifyKinds ==
    ASSUME IInv, Kinds, Resting, NEW r \in Ranks, Identify(r)
    PROVE  Kinds' /\ Resting'
<1>1. UNCHANGED <<request, lines, open, toSend, sendBuf, recvBuf, data,
                  recvMessageSize, sizes, addedElement, finishedElement>>
  BY DEF Identify, Count, Number, Exchange, traced, counters, buffers, mpi
<1>2. \E a \in {"number", "exchange", "done"} :
          pc[r] \in {"count", "number", "exchange"} /\ pc' = [pc EXCEPT ![r] = a]
  BY DEF Identify, Count, Number, Exchange, Goto
<1>3. \A a \in Ranks \ {r} : pc'[a] = pc[a]
  BY <1>2 DEF IInv, Types
<1>4. /\ pc[r] \in {"count", "number", "exchange"}
      /\ pc'[r] \in {"number", "exchange", "done"}
  BY <1>2 DEF IInv, Types
<1>5. Kinds'
  BY <1>1, KindsKept
<1>6. ASSUME NEW a \in Ranks PROVE AtRest(a)'
  <2>1. AtRest(a) /\ NeighborRanks(a)' = NeighborRanks(a)
    BY <1>1, SameKinds DEF Resting
  <2>2. \A q \in Ranks \ NeighborRanks(a) : Unused(a, q)'
    BY <1>1, <2>1 DEF AtRest, Unused
  <2>3. CASE a = r
    BY <1>1, <1>4, <2>1, <2>2, <2>3 DEF AtRest
  <2>4. CASE a # r
    BY <1>1, <1>3, <2>1, <2>2, <2>4 DEF AtRest
  <2> QED BY <2>3, <2>4
<1> QED BY <1>5, <1>6 DEF Resting

(* What the ranks hold and send, together.                                 *)
Exchanged == IInv /\ Kinds /\ Resting /\ Channels

(* The invariant of the exchange holds at first,                           *)
LEMMA InitExchanged == Init => Exchanged
<1> SUFFICES ASSUME Init PROVE Channels
  BY InitIInv, InitKinds, InitResting DEF Exchanged
<1>1. \A q, r \in Ranks :
         /\ pc[q] = "trace" /\ rounds[q] = 0
         /\ sizes[q][r] = <<>> /\ data[q][r] = <<>>
  BY DEF Init, Nothing
<1>2. \A r \in Ranks : NeighborRanks(r) \subseteq Ranks
  BY DEF NeighborRanks
<1>3. \A q, r \in Ranks : Channel(q, r)
  BY <1>1 DEF Channel, Due, Awaited
<1> QED BY <1>2, <1>3 DEF Channels

(* and every step keeps it.                                                *)
LEMMA NextExchanged == Exchanged /\ [Next]_vars => Exchanged'
<1> SUFFICES ASSUME Exchanged, [Next]_vars PROVE Kinds' /\ Resting' /\ Channels'
  BY NextIInv DEF Exchanged
<1>0. IInv /\ Kinds /\ Resting /\ Channels
  BY DEF Exchanged
<1>1. ASSUME NEW r \in Ranks, Round(r) PROVE Kinds' /\ Resting' /\ Channels'
  <2>1. CASE Contribute(r)
    BY <1>0, <2>1, ContributeKinds, ContributeChannels
  <2>2. CASE Stop(r)
    BY <1>0, <2>2, StopKinds, StopChannels
  <2>3. CASE Continue(r)
    BY <1>0, <2>3, ContinueKinds, ContinueChannels
  <2>4. CASE ReceiveSizes(r)
    BY <1>0, <2>4, ReceiveSizesKinds, ReceiveSizesChannels
  <2>5. CASE ReceiveElements(r)
    BY <1>0, <2>5, ReceiveElementsKinds, ReceiveElementsChannels
  <2> QED BY <1>1, <2>1, <2>2, <2>3, <2>4, <2>5 DEF Round
<1>2. ASSUME NEW r \in Ranks, Identify(r) PROVE Kinds' /\ Resting' /\ Channels'
  BY <1>0, <1>2, IdentifyKinds, IdentifyChannels
<1>3. ASSUME NEW r \in Ranks, NEW i \in open[r], Trace(r, i)
      PROVE  Kinds' /\ Resting' /\ Channels'
  BY <1>0, <1>3, TraceKinds, TraceResting, TraceChannels
<1>4. CASE UNCHANGED vars
  <2>1. UNCHANGED <<request, pc, lines, open, toSend, sendBuf, recvBuf, data,
                    recvMessageSize, sizes, rounds, addedElement, finishedElement>>
    BY <1>4 DEF vars, counters, buffers, mpi
  <2>2. Kinds'
    BY <1>0, <2>1, KindsKept
  <2>3. Resting'
    BY <1>0, <2>1, SameKinds DEF Resting, AtRest, Unused
  <2>4. Channels'
    BY <1>0, <2>1, QuietChannels DEF Stopped
  <2> QED BY <2>2, <2>3, <2>4
<1> QED BY <1>1, <1>2, <1>3, <1>4 DEF Next, Returned

(* A receive that is posted is met by a message of its size, and a rank    *)
(* that traces or reduces is not sent anything it does not await.          *)
THEOREM SizesMatchAlways == Spec => []SizesMatch
<1>1. Init => Exchanged
  BY InitExchanged
<1>2. Exchanged /\ [Next]_vars => Exchanged'
  BY NextExchanged
<1>3. Exchanged => SizesMatch
  <2> SUFFICES ASSUME Exchanged, NEW r \in Ranks, NEW q \in Ranks,
                      q \in NeighborRanks(r)
               PROVE  /\ pc[r] = "data" =>
                            \/ data[q][r] = <<>>
                            \/ /\ Len(data[q][r]) = 1
                               /\ Len(data[q][r][1]) = recvMessageSize[r][q]
                               /\ recvMessageSize[r][q] > 0
                      /\ pc[r] \in {"trace", "reduce"} => data[q][r] = <<>>
    BY DEF SizesMatch
  <2>1. Channel(q, r) /\ recvMessageSize[r][q] \in Nat
    BY DEF Exchanged, Channels, Kinds
  <2>2. ASSUME pc[r] = "data", data[q][r] # <<>>
        PROVE  /\ Len(data[q][r]) = 1
               /\ Len(data[q][r][1]) = recvMessageSize[r][q]
               /\ recvMessageSize[r][q] > 0
    <3>1. Awaited(q, r) = recvMessageSize[r][q]
      BY <2>2 DEF Awaited
    <3>2. pc[q] # "sizes" /\ recvMessageSize[r][q] # 0
      BY <2>1, <2>2, <3>1 DEF Channel
    <3> QED BY <2>1, <2>2, <3>1, <3>2 DEF Channel
  <2>3. ASSUME pc[r] \in {"trace", "reduce"}, data[q][r] # <<>> PROVE FALSE
    <3>1. pc[q] # "sizes"
      BY <2>1, <2>3 DEF Channel
    <3>2. Awaited(q, r) = 0
      BY <2>3, <3>1 DEF Awaited, Due
    <3> QED BY <2>1, <2>3, <3>1, <3>2 DEF Channel
  <2> QED BY <2>2, <2>3
<1> QED BY <1>1, <1>2, <1>3, PTL DEF Spec
-------------------------------------------------------------------------------
(* What is left of a sequence of numbers after the first k.                *)
Remainder(s, k) == Total([j \in (k + 1)..Len(s) |-> s[j]])

(* A remainder of a sequence of numbers loses its first number with the    *)
(* next place and gains what is appended.                                  *)
LEMMA RemainderFacts ==
    ASSUME NEW s \in Seq(Int), NEW k \in Nat, k <= Len(s)
    PROVE  /\ Remainder(s, k) \in Int
           /\ k = Len(s) => Remainder(s, k) = 0
           /\ k < Len(s) => Remainder(s, k) = s[k + 1] + Remainder(s, k + 1)
           /\ \A x \in Int : Remainder(Append(s, x), k) = Remainder(s, k) + x
<1> DEFINE f(t, i) == [j \in (i + 1)..Len(t) |-> t[j]]
<1>1. ASSUME NEW t \in Seq(Int), NEW i \in Nat
      PROVE  /\ Numbers(f(t, i)) /\ DOMAIN f(t, i) = (i + 1)..Len(t)
             /\ \A j \in (i + 1)..Len(t) : f(t, i)[j] = t[j] /\ t[j] \in Int
             /\ Remainder(t, i) = Total(f(t, i))
  <2>1. Len(t) \in Nat /\ \A j \in (i + 1)..Len(t) : t[j] \in Int
    OBVIOUS
  <2>2. IsFiniteSet((i + 1)..Len(t))
    BY <2>1, FS_Interval
  <2> QED BY <2>1, <2>2 DEF Numbers, Remainder
<1>2. Len(s) \in Nat
  OBVIOUS
<1>3. Remainder(s, k) \in Int
  BY <1>1, TotalFacts
<1>4. ASSUME k = Len(s) PROVE Remainder(s, k) = 0
  <2>1. DOMAIN f(s, k) = {}
    BY <1>1, <1>2, <1>4
  <2> HIDE DEF f
  <2> QED BY <1>1, <2>1, TotalStep DEF Numbers
<1>5. ASSUME k < Len(s) PROVE Remainder(s, k) = s[k + 1] + Remainder(s, k + 1)
  <2>1. /\ k + 1 \in (k + 1)..Len(s) /\ k + 1 \in Nat
        /\ ((k + 1)..Len(s)) \ {k + 1} = ((k + 1) + 1)..Len(s)
        /\ ((k + 1) + 1)..Len(s) \subseteq (k + 1)..Len(s)
    BY <1>2, <1>5
  <2>2. Without(f(s, k), k + 1) = f(s, k + 1)
    BY <2>1 DEF Without
  <2>3. /\ Numbers(f(s, k)) /\ k + 1 \in DOMAIN f(s, k) /\ f(s, k)[k + 1] = s[k + 1]
        /\ Remainder(s, k) = Total(f(s, k))
        /\ Remainder(s, k + 1) = Total(f(s, k + 1))
    BY <1>1, <2>1
  <2> HIDE DEF f
  <2> QED BY <2>2, <2>3, TotalFacts
<1>6. ASSUME NEW x \in Int PROVE Remainder(Append(s, x), k) = Remainder(s, k) + x
  <2> DEFINE t == Append(s, x)
             n == Len(s) + 1
  <2>1. /\ t \in Seq(Int) /\ Len(t) = n /\ t[n] = x
        /\ \A j \in 1..Len(s) : t[j] = s[j]
    OBVIOUS
  <2>2. /\ n \in (k + 1)..n /\ ((k + 1)..n) \ {n} = (k + 1)..Len(s)
        /\ (k + 1)..Len(s) \subseteq (k + 1)..n /\ (k + 1)..Len(s) \subseteq 1..Len(s)
    BY <1>2
  <2> HIDE DEF t
  <2>3. Without(f(t, k), n) = f(s, k)
    <3>1. /\ f(t, k) = [j \in (k + 1)..n |-> t[j]]
          /\ Without(f(t, k), n) = [j \in (k + 1)..Len(s) |-> f(t, k)[j]]
      BY <2>1, <2>2 DEF Without
    <3>2. \A j \in (k + 1)..Len(s) : f(t, k)[j] = s[j]
      BY <2>1, <2>2, <3>1
    <3> QED BY <3>1, <3>2
  <2>4. /\ Numbers(f(t, k)) /\ n \in DOMAIN f(t, k) /\ f(t, k)[n] = x
        /\ Remainder(t, k) = Total(f(t, k)) /\ Remainder(s, k) = Total(f(s, k))
    BY <1>1, <2>1, <2>2
  <2> HIDE DEF f, n
  <2>5. Total(f(t, k)) = x + Total(f(s, k))
    BY <2>3, <2>4, TotalFacts
  <2> QED BY <1>3, <2>4, <2>5 DEF t
<1> QED BY <1>3, <1>4, <1>5, <1>6

(* One more message is as many more lines as it holds.                     *)
LEMMA LengthsAppend ==
    ASSUME NEW S, NEW d \in Seq(Seq(S)), NEW s \in Seq(S)
    PROVE  LET on(p) == Total([m \in DOMAIN p |-> Len(p[m])]) IN
           /\ on(d) \in Nat /\ on(<<>>) = 0
           /\ on(Append(d, s)) = on(d) + Len(s)
           /\ Len(d) = 1 => on(d) = Len(d[1])
<1> DEFINE on(p) == Total([m \in DOMAIN p |-> Len(p[m])])
           n == Len(d)
           e == Append(d, s)
<1>1. /\ n \in Nat /\ e \in Seq(Seq(S)) /\ Len(e) = n + 1 /\ e[n + 1] = s
      /\ \A m \in 1..n : e[m] = d[m]
  OBVIOUS
<1>2. ASSUME NEW p \in Seq(Seq(S)) PROVE on(p) = Total(Lengths(p, Len(p)))
  <2>1. DOMAIN p = 1..Len(p)
    OBVIOUS
  <2> QED BY <2>1 DEF Lengths
<1>3. on(<<>>) = 0
  <2>1. <<>> \in Seq(Seq(S)) /\ Len(<<>>) = 0 /\ 0 \in 0..Len(<<>>)
    OBVIOUS
  <2>2. Total(Lengths(<<>>, 0)) = 0
    BY <2>1, LengthsStep
  <2> HIDE DEF on
  <2> QED BY <1>2, <2>1, <2>2
<1> HIDE DEF on, e
<1>4. on(d) \in Nat
  <2>1. /\ IsFiniteSet(DOMAIN Lengths(d, n))
        /\ \A k \in DOMAIN Lengths(d, n) : Lengths(d, n)[k] \in Nat
    <3>1. \A k \in 1..n : d[k] \in Seq(S)
      OBVIOUS
    <3>2. \A k \in 1..n : Len(d[k]) \in Nat
      BY <3>1
    <3>3. IsFiniteSet(1..n)
      BY <1>1, FS_Interval
    <3> QED BY <3>2, <3>3 DEF Lengths
  <2>2. on(d) = Total(Lengths(d, n))
    BY <1>2
  <2> HIDE DEF n
  <2> QED BY <2>1, <2>2, TotalNat
<1>5. on(e) = on(d) + Len(s)
  <2>1. n + 1 \in 0..Len(e) /\ n + 1 # 0 /\ (n + 1) - 1 = n
    BY <1>1
  <2>2. Total(Lengths(e, n + 1)) = Len(e[n + 1]) + Total(Lengths(e, (n + 1) - 1))
    BY <1>1, <2>1, LengthsStep
  <2>3. Lengths(e, n) = Lengths(d, n)
    BY <1>1 DEF Lengths
  <2>4. Len(s) \in Nat
    OBVIOUS
  <2>5. on(e) = Total(Lengths(e, n + 1)) /\ on(d) = Total(Lengths(d, n))
    BY <1>1, <1>2
  <2> HIDE DEF n
  <2> QED BY <1>1, <1>4, <2>1, <2>2, <2>3, <2>4, <2>5
<1>6. ASSUME Len(d) = 1 PROVE on(d) = Len(d[1])
  <2>1. 1 \in 0..Len(d) /\ 1 - 1 = 0 /\ 1 # 0
    BY <1>6
  <2>2. /\ Total(Lengths(d, 1)) = Len(d[1]) + Total(Lengths(d, 0))
        /\ Total(Lengths(d, 0)) = 0
    BY <2>1, LengthsStep
  <2>3. Len(d[1]) \in Nat
    BY <1>6
  <2>4. on(d) = Total(Lengths(d, 1))
    BY <1>2, <1>6
  <2> QED BY <2>2, <2>3, <2>4
<1> QED BY <1>3, <1>4, <1>5, <1>6 DEF e, on
-------------------------------------------------------------------------------
(* The elements of the messages on their way from rank r to rank q.        *)
OnTheirWay(r, q) == Total([m \in DOMAIN data[r][q] |-> Len(data[r][q][m])])

(* The counts of the model by the names used here.                         *)
LEMMA UnderwayDef ==
    ASSUME NEW r, NEW q
    PROVE  /\ Underway(r, q) = Len(toSend[r][q])
                 + (IF pc[r] = "sizes" THEN Len(sendBuf[r][q]) ELSE 0)
                 + OnTheirWay(r, q)
           /\ UntoldBy(q, r) =
                 (IF pc[q] = "reduce" THEN 0 ELSE finishedElement[q] - addedElement[q])
                 + Remainder(contributed[q], rounds[r])
BY DEF Underway, OnTheirWay, UntoldBy, Remainder

(* What is added up are numbers.                                           *)
LEMMA CountsAreNumbers ==
    ASSUME Exchanged
    PROVE  /\ IsFiniteSet(Ranks)
           /\ \A r, q \in Ranks :
                 /\ Len(toSend[r][q]) \in Nat /\ Len(sendBuf[r][q]) \in Nat
                 /\ OnTheirWay(r, q) \in Nat /\ Underway(r, q) \in Nat
                 /\ contributed[q] \in Seq(Int)
                 /\ rounds[r] \in Nat /\ rounds[r] <= Len(contributed[q])
                 /\ Remainder(contributed[q], rounds[r]) \in Int
                 /\ UntoldBy(q, r) \in Int
           /\ \A r \in Ranks :
                 /\ IsFiniteSet(open[r]) /\ Cardinality(open[r]) \in Nat
                 /\ open[r] \subseteq 1..Len(lines[r]) /\ Len(lines[r]) \in Nat
                 /\ Total([q \in Ranks |-> Underway(r, q)]) \in Nat
                 /\ Held(r) \in Nat /\ Untold(r) \in Int
           /\ Unfinished \in Nat
<1>1. IsFiniteSet(Ranks)
  BY RequestFacts DEF Exchanged, IInv, Types
<1>2. ASSUME NEW r \in Ranks, NEW q \in Ranks
      PROVE  /\ Len(toSend[r][q]) \in Nat /\ Len(sendBuf[r][q]) \in Nat
             /\ OnTheirWay(r, q) \in Nat /\ Underway(r, q) \in Nat
  <2>1. /\ toSend[r][q] \in Seq(Elements) /\ sendBuf[r][q] \in Seq(Elements)
        /\ data[r][q] \in Seq(Seq(Elements))
    BY DEF Exchanged, Kinds, Boxes
  <2>2. Len(toSend[r][q]) \in Nat /\ Len(sendBuf[r][q]) \in Nat
    BY <2>1
  <2>3. OnTheirWay(r, q) \in Nat
    BY <2>1, LengthsAppend DEF OnTheirWay
  <2>4. Underway(r, q) = Len(toSend[r][q])
                 + (IF pc[r] = "sizes" THEN Len(sendBuf[r][q]) ELSE 0)
                 + OnTheirWay(r, q)
    BY UnderwayDef
  <2>5. (IF pc[r] = "sizes" THEN Len(sendBuf[r][q]) ELSE 0) \in Nat
    BY <2>2
  <2>6. \A a, b, c \in Nat : a + b + c \in Nat
    OBVIOUS
  <2>7. Underway(r, q) \in Nat
    BY <2>2, <2>3, <2>4, <2>5, <2>6
  <2> QED BY <2>2, <2>3, <2>7
<1>3. ASSUME NEW r \in Ranks, NEW q \in Ranks
      PROVE  /\ contributed[q] \in Seq(Int)
             /\ rounds[r] \in Nat /\ rounds[r] <= Len(contributed[q])
             /\ Remainder(contributed[q], rounds[r]) \in Int
             /\ UntoldBy(q, r) \in Int
  <2>1. /\ contributed[q] \in Seq(Int) /\ rounds[r] \in Nat
        /\ rounds[r] <= Len(contributed[q])
        /\ finishedElement[q] \in Int /\ addedElement[q] \in Int
    BY DEF Exchanged, IInv, Types, Entered
  <2>2. Remainder(contributed[q], rounds[r]) \in Int
    BY <2>1, RemainderFacts
  <2>3. UntoldBy(q, r) =
           (IF pc[q] = "reduce" THEN 0 ELSE finishedElement[q] - addedElement[q])
           + Remainder(contributed[q], rounds[r])
    BY UnderwayDef
  <2> QED BY <2>1, <2>2, <2>3
<1>4. ASSUME NEW r \in Ranks
      PROVE  /\ IsFiniteSet(open[r]) /\ Cardinality(open[r]) \in Nat
             /\ open[r] \subseteq 1..Len(lines[r]) /\ Len(lines[r]) \in Nat
             /\ Total([q \in Ranks |-> Underway(r, q)]) \in Nat
             /\ Held(r) \in Nat /\ Untold(r) \in Int
  <2>1. /\ lines[r] \in Seq(Pieces) /\ open[r] \subseteq DOMAIN lines[r]
    BY DEF Exchanged, Kinds, Traceable
  <2>2. /\ Len(lines[r]) \in Nat /\ open[r] \in SUBSET (1..Len(lines[r]))
    BY <2>1
  <2>3. IsFiniteSet(open[r]) /\ Cardinality(open[r]) \in Nat
    <3>1. IsFiniteSet(1..Len(lines[r]))
      BY <2>2, FS_Interval
    <3> QED BY <2>2, <3>1, FS_Subset, FS_CardinalityType
  <2>4. Total([q \in Ranks |-> Underway(r, q)]) \in Nat
    BY <1>1, <1>2, TotalNat
  <2>5. Held(r) \in Nat
    BY <2>3, <2>4 DEF Held
  <2>6. Untold(r) \in Int
    <3>1. Numbers([q \in Ranks |-> UntoldBy(q, r)])
      BY <1>1, <1>3 DEF Numbers
    <3> QED BY <3>1, TotalFacts DEF Untold
  <2> QED BY <2>2, <2>3, <2>4, <2>5, <2>6
<1>5. Unfinished \in Nat
  BY <1>1, <1>4, TotalNat DEF Unfinished
<1> QED BY <1>1, <1>2, <1>3, <1>4, <1>5
-------------------------------------------------------------------------------
(* The counters are what CounterExact says, and never below zero.          *)
Counted ==
    \A r \in Ranks : /\ globalElementCounter[r] \in Nat
                     /\ globalElementCounter[r] = Unfinished + Untold(r)

(* A rank that holds d more lines.                                         *)
LEMMA HeldMoves ==
    ASSUME Exchanged, NEW r \in Ranks, NEW d \in Int,
           \A a \in Ranks : Held(a)' = IF a = r THEN Held(a) + d ELSE Held(a)
    PROVE  Unfinished' = Unfinished + d
<1> DEFINE f == [a \in Ranks |-> Held(a)]
           g == [a \in Ranks |-> Held(a)']
<1>1. Unfinished = Total(f) /\ Unfinished' = Total(g)
  BY DEF Unfinished
<1>2. IsFiniteSet(Ranks) /\ \A a \in Ranks : Held(a) \in Int
  <2>1. IsFiniteSet(Ranks) /\ \A a \in Ranks : Held(a) \in Nat
    BY CountsAreNumbers
  <2> QED BY <2>1
<1>3. /\ DOMAIN f = Ranks /\ DOMAIN g = Ranks
      /\ \A a \in Ranks : f[a] = Held(a) /\ f[a] \in Int
      /\ \A a \in Ranks : g[a] = (IF a = r THEN f[a] + d ELSE f[a]) /\ g[a] \in Int
  BY <1>2
<1> HIDE DEF f, g
<1>4. Numbers(f) /\ Numbers(g)
  BY <1>2, <1>3 DEF Numbers
<1>5. Total(g) = Total(f) - f[r] + g[r]
  BY <1>3, <1>4, TotalChange
<1>6. Total(f) \in Int
  BY <1>4, TotalFacts
<1> QED BY <1>1, <1>3, <1>5, <1>6

(* A rank that has d more finished lines to tell.                          *)
LEMMA UntoldMoves ==
    ASSUME Exchanged, NEW r \in Ranks, NEW s \in Ranks, NEW d \in Int,
           \A a \in Ranks : UntoldBy(a, s)' =
               IF a = r THEN UntoldBy(a, s) - d ELSE UntoldBy(a, s)
    PROVE  Untold(s)' = Untold(s) - d
<1> DEFINE f == [a \in Ranks |-> UntoldBy(a, s)]
           g == [a \in Ranks |-> UntoldBy(a, s)']
<1>1. Untold(s) = Total(f) /\ Untold(s)' = Total(g)
  BY DEF Untold
<1>2. IsFiniteSet(Ranks) /\ \A a \in Ranks : UntoldBy(a, s) \in Int
  BY CountsAreNumbers
<1>3. /\ DOMAIN f = Ranks /\ DOMAIN g = Ranks
      /\ \A a \in Ranks : f[a] = UntoldBy(a, s) /\ f[a] \in Int
      /\ \A a \in Ranks : g[a] = (IF a = r THEN f[a] - d ELSE f[a]) /\ g[a] \in Int
  BY <1>2
<1> HIDE DEF f, g
<1>4. Numbers(f) /\ Numbers(g)
  BY <1>2, <1>3 DEF Numbers
<1>5. Total(g) = Total(f) - f[r] + g[r]
  BY <1>3, <1>4, TotalChange
<1>6. Total(f) \in Int
  BY <1>4, TotalFacts
<1> QED BY <1>1, <1>3, <1>5, <1>6

(* A step that takes lines from the ones held to the ones to be told, or   *)
(* back, keeps the counters exact.                                         *)
LEMMA CountedMoves ==
    ASSUME Exchanged, Counted, NEW r \in Ranks, NEW d \in Int,
           globalElementCounter' = globalElementCounter,
           \A a \in Ranks : Held(a)' = IF a = r THEN Held(a) + d ELSE Held(a),
           \A a, s \in Ranks : UntoldBy(a, s)' =
               IF a = r THEN UntoldBy(a, s) - d ELSE UntoldBy(a, s)
    PROVE  Counted'
<1>1. Unfinished' = Unfinished + d
  BY HeldMoves
<1>2. \A s \in Ranks : Untold(s)' = Untold(s) - d
  BY UntoldMoves
<1>3. Unfinished \in Nat /\ \A s \in Ranks : Untold(s) \in Int
  BY CountsAreNumbers
<1>4. \A s \in Ranks : /\ globalElementCounter[s] \in Nat
                       /\ globalElementCounter[s] = Unfinished + Untold(s)
  BY DEF Counted
<1>5. ASSUME NEW s \in Ranks
      PROVE  /\ globalElementCounter'[s] \in Nat
             /\ globalElementCounter'[s] = Unfinished' + Untold(s)'
  BY <1>1, <1>2, <1>3, <1>4
<1> QED BY <1>5 DEF Counted

(* The lines a rank holds when its buffers do not change.                  *)
LEMMA UnderwayKept ==
    ASSUME NEW a, NEW b, toSend'[a][b] = toSend[a][b], data'[a][b] = data[a][b],
           pc'[a] = "sizes" <=> pc[a] = "sizes",
           pc[a] = "sizes" => sendBuf'[a][b] = sendBuf[a][b]
    PROVE  Underway(a, b)' = Underway(a, b)
<1>1. OnTheirWay(a, b)' = OnTheirWay(a, b)
  BY DEF OnTheirWay
<1>2. Underway(a, b)' = Len(toSend'[a][b])
                 + (IF pc'[a] = "sizes" THEN Len(sendBuf'[a][b]) ELSE 0)
                 + OnTheirWay(a, b)'
  BY DEF Underway, OnTheirWay
<1> QED BY <1>1, <1>2, UnderwayDef

(* A rank whose messages stay as they are holds as many lines more as it   *)
(* has more open.                                                          *)
LEMMA HeldKept ==
    ASSUME Exchanged, NEW a \in Ranks, NEW d \in Int,
           Cardinality(open'[a]) = Cardinality(open[a]) + d,
           \A b \in Ranks : Underway(a, b)' = Underway(a, b)
    PROVE  Held(a)' = Held(a) + d
<1>1. [b \in Ranks |-> Underway(a, b)'] = [b \in Ranks |-> Underway(a, b)]
  OBVIOUS
<1>2. /\ Held(a)' = Cardinality(open'[a]) + Total([b \in Ranks |-> Underway(a, b)'])
      /\ Held(a) = Cardinality(open[a]) + Total([b \in Ranks |-> Underway(a, b)])
  BY DEF Held
<1>3. /\ Cardinality(open[a]) \in Nat /\ Total([b \in Ranks |-> Underway(a, b)]) \in Nat
  BY CountsAreNumbers
<1> QED BY <1>1, <1>2, <1>3

(* A rank with a balance of d less has d less to tell.                     *)
LEMMA UntoldKept ==
    ASSUME Exchanged, NEW a \in Ranks, NEW s \in Ranks, NEW d \in Int,
           contributed'[a] = contributed[a], rounds'[s] = rounds[s],
           pc'[a] = "reduce" <=> pc[a] = "reduce",
           pc[a] # "reduce" => finishedElement'[a] - addedElement'[a]
                                  = finishedElement[a] - addedElement[a] - d,
           pc[a] = "reduce" => d = 0
    PROVE  UntoldBy(a, s)' = UntoldBy(a, s) - d
<1> DEFINE left == IF pc[a] = "reduce" THEN 0 ELSE finishedElement[a] - addedElement[a]
           left1 == IF pc'[a] = "reduce" THEN 0 ELSE finishedElement'[a] - addedElement'[a]
<1>1. UntoldBy(a, s) = left + Remainder(contributed[a], rounds[s])
  BY UnderwayDef
<1>2. UntoldBy(a, s)' = left1 + Remainder(contributed'[a], rounds'[s])
  BY DEF UntoldBy, Remainder
<1>3. Remainder(contributed'[a], rounds'[s]) = Remainder(contributed[a], rounds[s])
  OBVIOUS
<1>4. left \in Int /\ Remainder(contributed[a], rounds[s]) \in Int
  BY CountsAreNumbers DEF Exchanged, IInv, Types
<1>5. left1 = left - d
  BY <1>4
<1> HIDE DEF left, left1
<1> QED BY <1>1, <1>2, <1>3, <1>4, <1>5
-------------------------------------------------------------------------------
(* The tracing of lines moves a line from the ones held to the ones told.  *)
LEMMA TraceCounted ==
    ASSUME Exchanged, Counted, NEW r \in Ranks, NEW i \in open[r], Trace(r, i)
    PROVE  Counted'
<1>0. IInv /\ Kinds /\ Resting
  BY DEF Exchanged
<1>1. /\ request \in Requests /\ pc[r] = "trace"
      /\ UNCHANGED <<request, pc, globalElementCounter, sendBuf, data, contributed,
                     rounds>>
      /\ lines[r][i] \in Pieces /\ Tip(r, i) = Last(lines[r][i].trajectory)
  BY <1>0, TraceFacts DEF tracing, mpi
<1>2. /\ IsFiniteSet(open[r]) /\ Cardinality(open[r]) \in Nat
      /\ open[r] \subseteq 1..Len(lines[r]) /\ Len(lines[r]) \in Nat
      /\ Cardinality(open[r] \ {i}) = Cardinality(open[r]) - 1
      /\ IsFiniteSet(open[r] \ {i}) /\ Cardinality(open[r] \ {i}) \in Nat
  <2>1. /\ IsFiniteSet(open[r]) /\ Cardinality(open[r]) \in Nat
        /\ open[r] \subseteq 1..Len(lines[r]) /\ Len(lines[r]) \in Nat
    BY CountsAreNumbers
  <2>2. /\ Cardinality(open[r] \ {i}) = Cardinality(open[r]) - 1
        /\ IsFiniteSet(open[r] \ {i})
    BY <2>1, FS_RemoveElement
  <2> QED BY <2>1, <2>2, FS_CardinalityType
<1>3. /\ finishedElement \in [Ranks -> Int] /\ addedElement \in [Ranks -> Nat]
      /\ open \in [Ranks -> SUBSET Nat]
  BY <1>0 DEF IInv, Types, Kinds
<1>4. ASSUME NEW d \in Int, toSend' = toSend,
             \A a \in Ranks : Cardinality(open'[a]) = Cardinality(open[a])
                                                         + (IF a = r THEN d ELSE 0),
             \A a \in Ranks : finishedElement'[a] - addedElement'[a] =
                 finishedElement[a] - addedElement[a] - (IF a = r THEN d ELSE 0)
      PROVE  Counted'
  <2>1. \A a, b \in Ranks : Underway(a, b)' = Underway(a, b)
    BY <1>1, <1>4, UnderwayKept
  <2>2. \A a \in Ranks : Held(a)' = IF a = r THEN Held(a) + d ELSE Held(a)
    <3> SUFFICES ASSUME NEW a \in Ranks
                 PROVE  Held(a)' = IF a = r THEN Held(a) + d ELSE Held(a)
      OBVIOUS
    <3> DEFINE e == IF a = r THEN d ELSE 0
    <3>1. e \in Int /\ Cardinality(open'[a]) = Cardinality(open[a]) + e
      BY <1>4
    <3>2. Held(a) \in Nat
      BY CountsAreNumbers
    <3>3. Held(a)' = Held(a) + e
      <4> HIDE DEF e
      <4> QED BY <2>1, <3>1, HeldKept
    <3> QED BY <3>2, <3>3
  <2>3. \A a, s \in Ranks : UntoldBy(a, s)' =
               IF a = r THEN UntoldBy(a, s) - d ELSE UntoldBy(a, s)
    <3> SUFFICES ASSUME NEW a \in Ranks, NEW s \in Ranks
                 PROVE  UntoldBy(a, s)' = IF a = r THEN UntoldBy(a, s) - d
                                          ELSE UntoldBy(a, s)
      OBVIOUS
    <3> DEFINE e == IF a = r THEN d ELSE 0
    <3>1. /\ e \in Int /\ (pc[a] = "reduce" => e = 0)
          /\ finishedElement'[a] - addedElement'[a]
                = finishedElement[a] - addedElement[a] - e
      BY <1>1, <1>4
    <3>2. UntoldBy(a, s) \in Int
      BY CountsAreNumbers
    <3>3. UntoldBy(a, s)' = UntoldBy(a, s) - e
      <4> HIDE DEF e
      <4> QED BY <1>1, <3>1, UntoldKept
    <3> QED BY <3>2, <3>3
  <2> QED BY <1>1, <2>2, <2>3, CountedMoves
<1>5. CASE Finish(r, i)
  <2>1. /\ finishedElement' = [finishedElement EXCEPT ![r] = @ + 1]
        /\ open' = [open EXCEPT ![r] = @ \ {i}]
        /\ addedElement' = addedElement /\ toSend' = toSend
    BY <1>5 DEF Finish, Close
  <2>2. \A a \in Ranks : Cardinality(open'[a]) = Cardinality(open[a])
                                                    + (IF a = r THEN -1 ELSE 0)
    <3>1. \A a \in Ranks : Cardinality(open[a]) \in Nat
      BY CountsAreNumbers
    <3> QED BY <1>2, <1>3, <2>1, <3>1
  <2>3. \A a \in Ranks : finishedElement'[a] - addedElement'[a] =
            finishedElement[a] - addedElement[a] - (IF a = r THEN -1 ELSE 0)
    BY <1>3, <2>1
  <2>4. -1 \in Int
    OBVIOUS
  <2> QED BY <1>4, <2>1, <2>2, <2>3, <2>4
<1>6. CASE Advance(r, i)
  <2>1. UNCHANGED <<open, finishedElement, addedElement, toSend>>
    BY <1>6 DEF Advance
  <2>2. \A a \in Ranks : Cardinality(open'[a]) = Cardinality(open[a])
                                                    + (IF a = r THEN 0 ELSE 0)
    <3>1. \A a \in Ranks : Cardinality(open[a]) \in Nat
      BY CountsAreNumbers
    <3> QED BY <2>1, <3>1
  <2>3. \A a \in Ranks : finishedElement'[a] - addedElement'[a] =
            finishedElement[a] - addedElement[a] - (IF a = r THEN 0 ELSE 0)
    BY <1>3, <2>1
  <2> QED BY <1>4, <2>1, <2>2, <2>3
<1>7. CASE Fork(r, i)
  <2> DEFINE v == Last(lines[r][i].trajectory)
             B == Branches(lines[r][i], v)
             m == Added(v)
             L == Len(lines[r])
             more == {L + k : k \in DOMAIN B}
  <2>1. /\ Owner(v) = r
        /\ finishedElement' = [finishedElement EXCEPT ![r] = @ + 1]
        /\ addedElement' = [addedElement EXCEPT ![r] = @ + m]
        /\ open' = [open EXCEPT ![r] = (@ \ {i}) \cup more]
        /\ toSend' = toSend
    BY <1>1, <1>7 DEF Fork
  <2>2. m \in Nat /\ Len(B) = m /\ B \in Seq(Pieces)
    BY <1>1, <2>1, BranchFacts
  <2> HIDE DEF B, v, m
  <2>3. more = (L + 1)..(L + m)
    <3>1. more = {L + k : k \in 1..m} /\ L \in Nat
      <4>1. DOMAIN B = 1..m
        BY <2>2
      <4>2. L \in Nat
        BY <1>2
      <4> QED BY <4>1, <4>2
    <3> HIDE DEF L, more
    <3>2. ASSUME NEW x \in (L + 1)..(L + m) PROVE x \in more
      <4>1. x - L \in 1..m /\ x = L + (x - L)
        BY <2>2, <3>1
      <4> QED BY <3>1, <4>1
    <3>3. ASSUME NEW x \in more PROVE x \in (L + 1)..(L + m)
      BY <2>2, <3>1
    <3> QED BY <3>2, <3>3
  <2>4. IsFiniteSet(more) /\ Cardinality(more) = m
    <3>1. L \in Nat
      BY <1>2
    <3> HIDE DEF L, more
    <3>2. /\ L + 1 \in Int /\ L + m \in Int
          /\ IF L + 1 > L + m THEN m = 0 ELSE (L + m) - (L + 1) + 1 = m
      BY <2>2, <3>1
    <3> QED BY <2>3, <3>2, FS_Interval
  <2>5. (open[r] \ {i}) \cap more = {}
    BY <1>2, <2>3
  <2> HIDE DEF more
  <2>6. Cardinality((open[r] \ {i}) \cup more) = Cardinality(open[r]) - 1 + m
    <3>1. Cardinality((open[r] \ {i}) \cup more)
              = Cardinality(open[r] \ {i}) + Cardinality(more)
                    - Cardinality((open[r] \ {i}) \cap more)
      BY <1>2, <2>4, FS_Union
    <3>2. Cardinality((open[r] \ {i}) \cap more) = 0
      BY <2>5, FS_EmptySet
    <3> QED BY <1>2, <2>2, <2>4, <3>1, <3>2
  <2>7. \A a \in Ranks : Cardinality(open'[a]) = Cardinality(open[a])
                                                    + (IF a = r THEN m - 1 ELSE 0)
    <3>1. \A a \in Ranks : Cardinality(open[a]) \in Nat
      BY CountsAreNumbers
    <3> QED BY <1>2, <1>3, <2>1, <2>2, <2>6, <3>1
  <2>8. \A a \in Ranks : finishedElement'[a] - addedElement'[a] =
            finishedElement[a] - addedElement[a] - (IF a = r THEN m - 1 ELSE 0)
    BY <1>3, <2>1, <2>2
  <2>9. m - 1 \in Int
    BY <2>2
  <2> QED BY <1>4, <2>1, <2>7, <2>8, <2>9
<1>8. CASE HandOver(r, i)
  <2>1. PICK q \in Ranks : \E e \in Elements :
              /\ open' = [open EXCEPT ![r] = @ \ {i}]
              /\ \A a, b \in Ranks : toSend'[a][b] =
                    IF a = r /\ b = q THEN Append(toSend[a][b], e) ELSE toSend[a][b]
              /\ UNCHANGED <<finishedElement, addedElement>>
    BY <1>0, <1>8, HandOverFacts
  <2>2. PICK e \in Elements :
              /\ open' = [open EXCEPT ![r] = @ \ {i}]
              /\ \A a, b \in Ranks : toSend'[a][b] =
                    IF a = r /\ b = q THEN Append(toSend[a][b], e) ELSE toSend[a][b]
              /\ UNCHANGED <<finishedElement, addedElement>>
    BY <2>1
  <2>3. \A a, b \in Ranks : ~(a = r /\ b = q) => Underway(a, b)' = Underway(a, b)
    BY <1>1, <2>2, UnderwayKept
  <2>4. Underway(r, q)' = Underway(r, q) + 1
    <3>1. toSend[r][q] \in Seq(Elements)
      BY <1>0 DEF Kinds, Boxes
    <3>2. Len(toSend'[r][q]) = Len(toSend[r][q]) + 1
      <4>1. toSend'[r][q] = Append(toSend[r][q], e)
        BY <2>2
      <4>2. ASSUME NEW t \in Seq(Elements) PROVE Len(Append(t, e)) = Len(t) + 1
        OBVIOUS
      <4> QED BY <3>1, <4>1, <4>2
    <3>3. OnTheirWay(r, q)' = OnTheirWay(r, q)
      BY <1>1 DEF OnTheirWay
    <3>4. Underway(r, q)' = Len(toSend'[r][q]) + 0 + OnTheirWay(r, q)'
      BY <1>1 DEF Underway, OnTheirWay
    <3>5. Underway(r, q) = Len(toSend[r][q]) + 0 + OnTheirWay(r, q)
      BY <1>1, UnderwayDef
    <3>6. Len(toSend[r][q]) \in Nat /\ OnTheirWay(r, q) \in Nat
      BY CountsAreNumbers
    <3> QED BY <3>2, <3>3, <3>4, <3>5, <3>6
  <2>5. Held(r)' = Held(r)
    <3> DEFINE f == [b \in Ranks |-> Underway(r, b)]
               g == [b \in Ranks |-> Underway(r, b)']
    <3>1. /\ IsFiniteSet(Ranks) /\ \A b \in Ranks : Underway(r, b) \in Int
          /\ Total(f) \in Nat
      <4>1. /\ IsFiniteSet(Ranks) /\ \A b \in Ranks : Underway(r, b) \in Nat
            /\ Total([b \in Ranks |-> Underway(r, b)]) \in Nat
        BY CountsAreNumbers
      <4> QED BY <4>1
    <3>2. /\ DOMAIN f = Ranks /\ DOMAIN g = Ranks
          /\ \A b \in Ranks : f[b] \in Int /\ g[b] = IF b = q THEN f[b] + 1 ELSE f[b]
      BY <2>3, <2>4, <3>1
    <3>3. Held(r) = Cardinality(open[r]) + Total(f)
          /\ Held(r)' = Cardinality(open'[r]) + Total(g)
      BY DEF Held
    <3> HIDE DEF f, g
    <3>4. Numbers(f) /\ Numbers(g)
      BY <3>1, <3>2 DEF Numbers
    <3>5. Total(g) = Total(f) - f[q] + g[q]
      BY <3>2, <3>4, TotalChange
    <3>6. Total(g) = Total(f) + 1
      BY <3>1, <3>2, <3>5
    <3>7. Cardinality(open'[r]) = Cardinality(open[r]) - 1
      BY <1>2, <1>3, <2>2
    <3> QED BY <1>2, <3>1, <3>3, <3>6, <3>7
  <2>6. ASSUME NEW a \in Ranks PROVE Held(a)' = IF a = r THEN Held(a) + 0 ELSE Held(a)
    <3>1. Held(a) \in Nat /\ Cardinality(open[a]) \in Nat
      BY CountsAreNumbers
    <3>2. CASE a = r
      BY <2>5, <3>1, <3>2
    <3>3. CASE a # r
      <4>1. open'[a] = open[a]
        BY <1>3, <2>2, <3>3
      <4>2. Cardinality(open'[a]) = Cardinality(open[a]) + 0
        BY <3>1, <4>1
      <4>3. Held(a)' = Held(a) + 0
        BY <2>3, <3>3, <4>2, HeldKept
      <4> QED BY <3>1, <3>3, <4>3
    <3> QED BY <3>2, <3>3
  <2>7. ASSUME NEW a \in Ranks, NEW s \in Ranks
        PROVE  UntoldBy(a, s)' = IF a = r THEN UntoldBy(a, s) - 0 ELSE UntoldBy(a, s)
    <3>1. UntoldBy(a, s) \in Int
      BY CountsAreNumbers
    <3>2. finishedElement'[a] - addedElement'[a]
             = finishedElement[a] - addedElement[a] - 0
      BY <1>3, <2>2
    <3>3. UntoldBy(a, s)' = UntoldBy(a, s) - 0
      BY <1>1, <3>2, UntoldKept
    <3> QED BY <3>1, <3>3
  <2> QED BY <1>1, <2>6, <2>7, CountedMoves
<1> QED BY <1>5, <1>6, <1>7, <1>8 DEF Trace
-------------------------------------------------------------------------------
(* A step that changes neither what is unfinished nor what is untold.      *)
LEMMA CountedKept ==
    ASSUME Counted, globalElementCounter' = globalElementCounter,
           Unfinished' = Unfinished, \A s \in Ranks : Untold(s)' = Untold(s)
    PROVE  Counted'
BY DEF Counted

(* What is unfinished is what the ranks hold.                              *)
LEMMA UnfinishedKept ==
    ASSUME \A a \in Ranks : Held(a)' = Held(a)
    PROVE  Unfinished' = Unfinished
<1>1. [a \in Ranks |-> Held(a)'] = [a \in Ranks |-> Held(a)]
  OBVIOUS
<1>2. /\ Unfinished' = Total([a \in Ranks |-> Held(a)'])
      /\ Unfinished = Total([a \in Ranks |-> Held(a)])
  BY DEF Unfinished
<1> QED BY <1>1, <1>2

(* Nothing is finished or added when the open lines and those on their way *)
(* are as many as before.                                                  *)
LEMMA HeldSame ==
    ASSUME Exchanged, open' = open,
           \A a, b \in Ranks : Underway(a, b)' = Underway(a, b)
    PROVE  Unfinished' = Unfinished
<1>1. ASSUME NEW a \in Ranks PROVE Held(a)' = Held(a)
  <2>1. Cardinality(open[a]) \in Nat /\ Held(a) \in Nat
    BY CountsAreNumbers
  <2>2. Cardinality(open'[a]) = Cardinality(open[a]) + 0
    BY <2>1
  <2>3. 0 \in Int /\ \A b \in Ranks : Underway(a, b)' = Underway(a, b)
    OBVIOUS
  <2>4. Held(a)' = Held(a) + 0
    BY <2>2, <2>3, HeldKept
  <2> QED BY <2>1, <2>4
<1> QED BY <1>1, UnfinishedKept

(* What is untold is what each rank has to tell.                           *)
LEMMA UntoldSame ==
    ASSUME NEW s, \A a \in Ranks : UntoldBy(a, s)' = UntoldBy(a, s)
    PROVE  Untold(s)' = Untold(s)
<1>1. [a \in Ranks |-> UntoldBy(a, s)'] = [a \in Ranks |-> UntoldBy(a, s)]
  OBVIOUS
<1>2. /\ Untold(s)' = Total([a \in Ranks |-> UntoldBy(a, s)'])
      /\ Untold(s) = Total([a \in Ranks |-> UntoldBy(a, s)])
  BY DEF Untold
<1> QED BY <1>1, <1>2

(* A rank that neither takes the result of a reduction nor finishes a line *)
(* nor enters a reduction.                                                 *)
LEMMA UntoldByKept ==
    ASSUME Exchanged, NEW a \in Ranks, NEW s \in Ranks,
           contributed'[a] = contributed[a], rounds'[s] = rounds[s],
           pc'[a] = "reduce" <=> pc[a] = "reduce",
           finishedElement'[a] = finishedElement[a],
           addedElement'[a] = addedElement[a]
    PROVE  UntoldBy(a, s)' = UntoldBy(a, s)
<1>1. finishedElement[a] \in Int /\ addedElement[a] \in Int
  BY DEF Exchanged, IInv, Types
<1>2. finishedElement'[a] - addedElement'[a] = finishedElement[a] - addedElement[a] - 0
  BY <1>1
<1>3. UntoldBy(a, s)' = UntoldBy(a, s) - 0
  BY <1>2, UntoldKept
<1>4. UntoldBy(a, s) \in Int
  BY CountsAreNumbers
<1> QED BY <1>3, <1>4

(* What a rank enters a reduction with was untold before and still is.     *)
LEMMA ContributeCounted ==
    ASSUME Exchanged, Counted, NEW r \in Ranks, Contribute(r)
    PROVE  Counted'
<1> DEFINE balance == finishedElement[r] - addedElement[r]
<1>0. IInv /\ Kinds /\ Resting
  BY DEF Exchanged
<1>1. /\ pc[r] = "trace" /\ pc' = [pc EXCEPT ![r] = "reduce"]
      /\ finishedElement' = [finishedElement EXCEPT ![r] = balance]
      /\ addedElement' = [addedElement EXCEPT ![r] = 0]
      /\ contributed' = [contributed EXCEPT ![r] = Append(@, balance)]
      /\ UNCHANGED <<open, globalElementCounter, toSend, sendBuf, data, rounds>>
  BY DEF Contribute, Goto, buffers
<1>2. /\ balance \in Int /\ pc \in [Ranks -> Labels]
      /\ finishedElement \in [Ranks -> Int] /\ addedElement \in [Ranks -> Int]
      /\ contributed \in [Ranks -> Seq(Int)]
  BY <1>0 DEF IInv, Types
<1>3. \A a \in Ranks : pc'[a] = "sizes" <=> pc[a] = "sizes"
  BY <1>1, <1>2
<1>4. \A a, b \in Ranks : Underway(a, b)' = Underway(a, b)
  BY <1>1, <1>3, UnderwayKept
<1>5. ASSUME NEW a \in Ranks, NEW s \in Ranks
      PROVE  UntoldBy(a, s)' = UntoldBy(a, s)
  <2>1. CASE a # r
    <3>1. /\ contributed'[a] = contributed[a] /\ rounds'[s] = rounds[s]
          /\ pc'[a] = pc[a]
          /\ finishedElement'[a] = finishedElement[a]
          /\ addedElement'[a] = addedElement[a]
      BY <1>1, <1>2, <2>1
    <3> QED BY <3>1, UntoldByKept
  <2>2. CASE a = r
    <3>1. /\ contributed[r] \in Seq(Int) /\ rounds[s] \in Nat
          /\ rounds[s] <= Len(contributed[r])
          /\ Remainder(contributed[r], rounds[s]) \in Int
      BY CountsAreNumbers
    <3>2. UntoldBy(r, s) = balance + Remainder(contributed[r], rounds[s])
      BY <1>1, UnderwayDef
    <3>3. UntoldBy(r, s)' = (IF pc'[r] = "reduce" THEN 0
                                  ELSE finishedElement'[r] - addedElement'[r])
                                + Remainder(contributed'[r], rounds'[s])
      BY DEF UntoldBy, Remainder
    <3>4. pc'[r] = "reduce" /\ contributed'[r] = Append(contributed[r], balance)
          /\ rounds'[s] = rounds[s]
      BY <1>1, <1>2
    <3>5. Remainder(Append(contributed[r], balance), rounds[s])
              = Remainder(contributed[r], rounds[s]) + balance
      <4> HIDE DEF balance
      <4> QED BY <1>2, <3>1, RemainderFacts
    <3> HIDE DEF balance
    <3> QED BY <1>2, <2>2, <3>1, <3>2, <3>3, <3>4, <3>5
  <2> QED BY <2>1, <2>2
<1>6. Unfinished' = Unfinished
  BY <1>1, <1>4, HeldSame
<1>7. \A s \in Ranks : Untold(s)' = Untold(s)
  BY <1>5, UntoldSame
<1> QED BY <1>1, <1>6, <1>7, CountedKept

(* The numbering of what is traced.                                        *)
LEMMA IdentifyCounted ==
    ASSUME Exchanged, Counted, NEW r \in Ranks, Identify(r)
    PROVE  Counted'
<1>1. UNCHANGED <<open, counters, toSend, sendBuf, data, contributed, rounds>>
  BY DEF Identify, Count, Number, Exchange, traced, buffers, mpi
<1>2. \E a \in {"number", "exchange", "done"} :
          pc[r] \in {"count", "number", "exchange"} /\ pc' = [pc EXCEPT ![r] = a]
  BY DEF Identify, Count, Number, Exchange, Goto
<1>3. pc \in [Ranks -> Labels]
  BY DEF Exchanged, IInv, Types
<1>4. \A a \in Ranks : /\ pc'[a] = "sizes" <=> pc[a] = "sizes"
                       /\ pc'[a] = "reduce" <=> pc[a] = "reduce"
  BY <1>2, <1>3
<1>5. \A a, b \in Ranks : Underway(a, b)' = Underway(a, b)
  BY <1>1, <1>4, UnderwayKept
<1>6. \A a, s \in Ranks : UntoldBy(a, s)' = UntoldBy(a, s)
  BY <1>1, <1>4, UntoldByKept DEF counters
<1>7. Unfinished' = Unfinished
  BY <1>1, <1>5, HeldSame
<1>8. \A s \in Ranks : Untold(s)' = Untold(s)
  BY <1>6, UntoldSame
<1> QED BY <1>1, <1>7, <1>8, CountedKept DEF counters

(* A send buffer that is sent was underway before and still is.            *)
LEMMA ReceiveSizesCounted ==
    ASSUME Exchanged, Counted, NEW r \in Ranks, ReceiveSizes(r)
    PROVE  Counted'
<1>0. IInv /\ Kinds /\ Resting
  BY DEF Exchanged
<1>1. /\ pc[r] = "sizes" /\ pc' = [pc EXCEPT ![r] = "data"]
      /\ UNCHANGED <<open, counters, toSend, sendBuf, contributed, rounds>>
      /\ \A a, b \in Ranks :
            data'[a][b] = IF a = r /\ sendBuf[a][b] # <<>>
                          THEN Append(data[a][b], sendBuf[a][b]) ELSE data[a][b]
  BY <1>0, ReceiveSizesFacts
<1>2. pc \in [Ranks -> Labels]
  BY <1>0 DEF IInv, Types
<1>3. \A a \in Ranks : /\ a # r => (pc'[a] = "sizes" <=> pc[a] = "sizes")
                       /\ pc'[a] = "reduce" <=> pc[a] = "reduce"
  BY <1>1, <1>2
<1>4. ASSUME NEW a \in Ranks, NEW b \in Ranks PROVE Underway(a, b)' = Underway(a, b)
  <2>1. CASE a # r
    BY <1>1, <1>3, <2>1, UnderwayKept
  <2>2. CASE a = r
    <3>1. data[r][b] \in Seq(Seq(Elements)) /\ sendBuf[r][b] \in Seq(Elements)
      BY <1>0 DEF Kinds, Boxes
    <3>2. OnTheirWay(r, b)' = OnTheirWay(r, b) + Len(sendBuf[r][b])
      <4> DEFINE on(p) == Total([m \in DOMAIN p |-> Len(p[m])])
      <4>1. OnTheirWay(r, b)' = on(data'[r][b]) /\ OnTheirWay(r, b) = on(data[r][b])
        BY DEF OnTheirWay
      <4>2. on(data[r][b]) \in Nat
            /\ on(Append(data[r][b], sendBuf[r][b])) = on(data[r][b]) + Len(sendBuf[r][b])
        BY <3>1, LengthsAppend
      <4> HIDE DEF on
      <4>3. CASE sendBuf[r][b] # <<>>
        <5>1. data'[r][b] = Append(data[r][b], sendBuf[r][b])
          BY <1>1, <4>3
        <5> QED BY <4>1, <4>2, <5>1
      <4>4. CASE sendBuf[r][b] = <<>>
        <5>1. data'[r][b] = data[r][b]
          BY <1>1, <4>4
        <5>2. Len(sendBuf[r][b]) = 0
          BY <4>4
        <5> QED BY <4>1, <4>2, <5>1, <5>2
      <4> QED BY <4>3, <4>4
    <3>3. Underway(r, b)' = Len(toSend'[r][b])
              + (IF pc'[r] = "sizes" THEN Len(sendBuf'[r][b]) ELSE 0)
              + OnTheirWay(r, b)'
      BY DEF Underway, OnTheirWay
    <3>4. Underway(r, b) = Len(toSend[r][b]) + Len(sendBuf[r][b]) + OnTheirWay(r, b)
      BY <1>1, UnderwayDef
    <3>5. pc'[r] = "data" /\ toSend' = toSend
      BY <1>1, <1>2
    <3>6. /\ Len(toSend[r][b]) \in Nat /\ Len(sendBuf[r][b]) \in Nat
          /\ OnTheirWay(r, b) \in Nat
      BY CountsAreNumbers
    <3>7. Underway(r, b)' = Len(toSend[r][b]) + 0 + OnTheirWay(r, b)'
      BY <3>3, <3>5
    <3>8. Underway(r, b)' = Underway(r, b)
      <4> DEFINE t == Len(toSend[r][b])
                 u == Len(sendBuf[r][b])
                 o == OnTheirWay(r, b)
      <4>1. Underway(r, b)' = t + 0 + (o + u)
        BY <3>2, <3>7
      <4>2. Underway(r, b) = t + u + o
        BY <3>4
      <4>3. t \in Nat /\ u \in Nat /\ o \in Nat
        BY <3>6
      <4> HIDE DEF t, u, o
      <4>4. t + 0 + (o + u) = t + u + o
        BY <4>3
      <4> QED BY <4>1, <4>2, <4>4
    <3> QED BY <2>2, <3>8
  <2> QED BY <2>1, <2>2
<1>5. \A a, s \in Ranks : UntoldBy(a, s)' = UntoldBy(a, s)
  BY <1>1, <1>3, UntoldByKept DEF counters
<1>6. Unfinished' = Unfinished
  BY <1>1, <1>4, HeldSame
<1>7. \A s \in Ranks : Untold(s)' = Untold(s)
  BY <1>5, UntoldSame
<1> QED BY <1>1, <1>6, <1>7, CountedKept DEF counters
-------------------------------------------------------------------------------
(* A message that arrives is as many lines on their way less as its        *)
(* receiver has more to trace.                                             *)
LEMMA ReceivedUnderway ==
    ASSUME Exchanged, NEW r \in Ranks, ReceiveElements(r)
    PROVE  /\ \A a \in Ranks : recvMessageSize[r][a] \in Nat
           /\ \A a, b \in Ranks : Underway(a, b)' =
                 IF b = r THEN Underway(a, r) - recvMessageSize[r][a]
                 ELSE Underway(a, b)
<1>0. IInv /\ Kinds /\ Resting /\ Channels
  BY DEF Exchanged
<1>1. /\ pc[r] = "data" /\ pc' = [pc EXCEPT ![r] = "trace"]
      /\ UNCHANGED <<toSend>>
      /\ \A a, b \in Ranks :
            /\ data'[a][b] = IF b = r /\ a \in NeighborRanks(r) THEN <<>>
                             ELSE data[a][b]
            /\ sendBuf'[a][b] = IF a = r THEN <<>> ELSE sendBuf[a][b]
      /\ request \in Requests
  BY <1>0, ReceiveElementsFacts
<1>2. pc \in [Ranks -> Labels]
  BY <1>0 DEF IInv, Types
<1>3. \A a \in Ranks : /\ pc'[a] = "sizes" <=> pc[a] = "sizes"
                       /\ a # r => pc'[a] = pc[a]
                       /\ pc[a] = "sizes" => a # r
  BY <1>1, <1>2
<1>4. ASSUME NEW a \in Ranks, NEW b \in Ranks, b # r \/ a \notin NeighborRanks(r)
      PROVE  Underway(a, b)' = Underway(a, b)
  BY <1>1, <1>3, <1>4, UnderwayKept
<1>5. ASSUME NEW a \in NeighborRanks(r)
      PROVE  /\ a \in Ranks /\ recvMessageSize[r][a] \in Nat
             /\ Underway(a, r)' = Underway(a, r) - recvMessageSize[r][a]
  <2>1. /\ a \in Ranks /\ recvMessageSize[r][a] \in Nat
        /\ a \in Expecting(r) =>
              /\ Len(Head(data[a][r])) = recvMessageSize[r][a]
              /\ Len(data[a][r]) = 1 /\ Head(data[a][r]) = data[a][r][1]
        /\ a \notin Expecting(r) => recvMessageSize[r][a] = 0 /\ data[a][r] = <<>>
    BY <1>0, ExpectedFacts
  <2>2. data[a][r] \in Seq(Seq(Elements))
    BY <1>0, <2>1 DEF Kinds
  <2>3. data'[a][r] = <<>>
    BY <1>1, <2>1
  <2>4. OnTheirWay(a, r) = recvMessageSize[r][a] /\ OnTheirWay(a, r)' = 0
    <3> DEFINE on(p) == Total([m \in DOMAIN p |-> Len(p[m])])
    <3>1. OnTheirWay(a, r)' = on(data'[a][r]) /\ OnTheirWay(a, r) = on(data[a][r])
      BY DEF OnTheirWay
    <3>2. on(<<>>) = 0 /\ (Len(data[a][r]) = 1 => on(data[a][r]) = Len(data[a][r][1]))
      <4>1. <<>> \in Seq(Elements)
        OBVIOUS
      <4> QED BY <2>2, <4>1, LengthsAppend
    <3> HIDE DEF on
    <3> QED BY <2>1, <2>3, <3>1, <3>2
  <2>5. Underway(a, r)' = Len(toSend'[a][r])
            + (IF pc'[a] = "sizes" THEN Len(sendBuf'[a][r]) ELSE 0)
            + OnTheirWay(a, r)'
    BY DEF Underway, OnTheirWay
  <2>6. Underway(a, r) = Len(toSend[a][r])
            + (IF pc[a] = "sizes" THEN Len(sendBuf[a][r]) ELSE 0)
            + OnTheirWay(a, r)
    BY UnderwayDef
  <2>7. /\ toSend' = toSend
        /\ (IF pc'[a] = "sizes" THEN Len(sendBuf'[a][r]) ELSE 0)
               = (IF pc[a] = "sizes" THEN Len(sendBuf[a][r]) ELSE 0)
    BY <1>1, <1>3, <2>1
  <2>8. Len(toSend[a][r]) \in Nat /\ Len(sendBuf[a][r]) \in Nat
    BY <2>1, CountsAreNumbers
  <2>9. (IF pc[a] = "sizes" THEN Len(sendBuf[a][r]) ELSE 0) \in Nat
    BY <2>8
  <2> DEFINE t == Len(toSend[a][r])
             u == IF pc[a] = "sizes" THEN Len(sendBuf[a][r]) ELSE 0
  <2>10. Underway(a, r)' = t + u + 0 /\ Underway(a, r) = t + u + recvMessageSize[r][a]
    BY <2>4, <2>5, <2>6, <2>7
  <2>11. t \in Nat /\ u \in Nat
    BY <2>8, <2>9
  <2> HIDE DEF t, u
  <2> QED BY <2>1, <2>10, <2>11
<1>6. ASSUME NEW a \in Ranks \ NeighborRanks(r) PROVE recvMessageSize[r][a] = 0
  BY <1>0 DEF Resting, AtRest, Unused
<1>7. \A a \in Ranks : recvMessageSize[r][a] \in Nat
  BY <1>5, <1>6
<1>8. ASSUME NEW a \in Ranks, NEW b \in Ranks
      PROVE  Underway(a, b)' = IF b = r THEN Underway(a, r) - recvMessageSize[r][a]
                               ELSE Underway(a, b)
  <2>1. CASE b # r
    BY <1>4, <2>1
  <2>2. CASE b = r /\ a \in NeighborRanks(r)
    BY <1>5, <2>2
  <2>3. CASE b = r /\ a \notin NeighborRanks(r)
    <3>1. Underway(a, b) \in Nat
      BY CountsAreNumbers
    <3> QED BY <1>4, <1>6, <2>3, <3>1
  <2> QED BY <2>1, <2>2, <2>3
<1> QED BY <1>7, <1>8

(* What the ranks hold after the receives of one of them.                  *)
LEMMA ReceivedHeld ==
    ASSUME Exchanged, NEW r \in Ranks, ReceiveElements(r)
    PROVE  \A a \in Ranks : Held(a)' = Held(a) - recvMessageSize[r][a]
                               + (IF a = r THEN Len(NewLines(r)) ELSE 0)
<1>0. IInv /\ Kinds /\ Resting /\ Channels
  BY DEF Exchanged
<1>1. /\ pc[r] = "data"
      /\ open' = [open EXCEPT ![r] = {Len(lines[r]) + k : k \in DOMAIN NewLines(r)}]
  BY <1>0, ReceiveElementsFacts
<1>2. NewLines(r) \in Seq(Pieces) /\ open \in [Ranks -> SUBSET Nat]
  BY <1>0, NewLinesFacts DEF Kinds
<1>3. open[r] = {}
  BY <1>0, <1>1 DEF Resting, AtRest
<1>4. Cardinality(open'[r]) = Len(NewLines(r)) /\ Cardinality(open[r]) = 0
  <2> DEFINE L == Len(lines[r])
             m == Len(NewLines(r))
  <2>1. L \in Nat /\ m \in Nat
    BY <1>2, CountsAreNumbers
  <2>2. open'[r] = {L + k : k \in 1..m}
    <3>1. DOMAIN NewLines(r) = 1..m
      BY <1>2
    <3> QED BY <1>1, <1>2, <3>1
  <2> HIDE DEF L, m
  <2>3. open'[r] = (L + 1)..(L + m)
    <3>1. ASSUME NEW x \in (L + 1)..(L + m) PROVE x \in open'[r]
      <4>1. x - L \in 1..m /\ x = L + (x - L)
        BY <2>1
      <4> QED BY <2>2, <4>1
    <3>2. ASSUME NEW x \in open'[r] PROVE x \in (L + 1)..(L + m)
      BY <2>1, <2>2
    <3> QED BY <3>1, <3>2
  <2>4. /\ L + 1 \in Int /\ L + m \in Int
        /\ IF L + 1 > L + m THEN m = 0 ELSE (L + m) - (L + 1) + 1 = m
    BY <2>1
  <2>5. Cardinality(open'[r]) = m
    BY <2>3, <2>4, FS_Interval
  <2>6. Cardinality(open[r]) = 0
    BY <1>3, FS_EmptySet
  <2> QED BY <2>5, <2>6 DEF m
<1>5. /\ \A a \in Ranks : recvMessageSize[r][a] \in Nat
      /\ \A a, b \in Ranks : Underway(a, b)' =
            IF b = r THEN Underway(a, r) - recvMessageSize[r][a] ELSE Underway(a, b)
  BY ReceivedUnderway
<1>6. ASSUME NEW a \in Ranks
      PROVE  Total([b \in Ranks |-> Underway(a, b)'])
                 = Total([b \in Ranks |-> Underway(a, b)]) - recvMessageSize[r][a]
  <2> DEFINE f == [b \in Ranks |-> Underway(a, b)]
             g == [b \in Ranks |-> Underway(a, b)']
  <2>1. /\ IsFiniteSet(Ranks) /\ \A b \in Ranks : Underway(a, b) \in Nat
        /\ Total(f) \in Nat
    BY CountsAreNumbers
  <2>2. /\ DOMAIN f = Ranks /\ DOMAIN g = Ranks
        /\ \A b \in Ranks : /\ f[b] \in Nat
                            /\ g[b] = IF b = r THEN f[b] - recvMessageSize[r][a]
                                      ELSE f[b]
    BY <1>5, <2>1
  <2>3. recvMessageSize[r][a] \in Nat
    BY <1>5
  <2> SUFFICES Total(g) = Total(f) - recvMessageSize[r][a]
    OBVIOUS
  <2> HIDE DEF f, g
  <2>4. \A b \in Ranks : f[b] \in Int /\ g[b] \in Int
    BY <2>2, <2>3
  <2>5. Numbers(f) /\ Numbers(g)
    BY <2>1, <2>2, <2>4 DEF Numbers
  <2>6. Total(g) = Total(f) - f[r] + g[r]
    BY <2>2, <2>5, TotalChange
  <2> QED BY <2>1, <2>2, <2>3, <2>6
<1>7. ASSUME NEW a \in Ranks
      PROVE  Held(a)' = Held(a) - recvMessageSize[r][a]
                            + (IF a = r THEN Len(NewLines(r)) ELSE 0)
  <2>1. /\ Held(a)' = Cardinality(open'[a]) + Total([b \in Ranks |-> Underway(a, b)'])
        /\ Held(a) = Cardinality(open[a]) + Total([b \in Ranks |-> Underway(a, b)])
    BY DEF Held
  <2>2. Cardinality(open[a]) \in Nat /\ Total([b \in Ranks |-> Underway(a, b)]) \in Nat
    BY CountsAreNumbers
  <2>3. recvMessageSize[r][a] \in Nat /\ Len(NewLines(r)) \in Nat
    BY <1>2, <1>5
  <2>4. Cardinality(open'[a]) = Cardinality(open[a])
                                    + (IF a = r THEN Len(NewLines(r)) ELSE 0)
    <3>1. CASE a = r
      BY <1>4, <2>3, <3>1
    <3>2. CASE a # r
      <4>1. open'[a] = open[a]
        BY <1>1, <1>2, <3>2
      <4> QED BY <2>2, <3>2, <4>1
    <3> QED BY <3>1, <3>2
  <2> DEFINE n == IF a = r THEN Len(NewLines(r)) ELSE 0
  <2>5. n \in Nat /\ Cardinality(open'[a]) = Cardinality(open[a]) + n
    BY <2>3, <2>4
  <2> DEFINE c == Cardinality(open[a])
             t == Total([b \in Ranks |-> Underway(a, b)])
             m == recvMessageSize[r][a]
  <2>6. Held(a)' = (c + n) + (t - m) /\ Held(a) = c + t
    BY <1>6, <2>1, <2>5
  <2>7. c \in Nat /\ t \in Nat /\ m \in Nat /\ n \in Nat
    BY <2>2, <2>3, <2>5
  <2> SUFFICES Held(a)' = Held(a) - m + n
    OBVIOUS
  <2> HIDE DEF c, t, m, n
  <2>8. (c + n) + (t - m) = (c + t) - m + n
    BY <2>7
  <2> QED BY <2>6, <2>8
<1> QED BY <1>7

(* All of the messages that arrive are the new lines to trace.             *)
LEMMA ReceiveElementsCounted ==
    ASSUME Exchanged, Counted, NEW r \in Ranks, ReceiveElements(r)
    PROVE  Counted'
<1>0. IInv /\ Kinds /\ Resting /\ Channels
  BY DEF Exchanged
<1>1. /\ pc[r] = "data" /\ pc' = [pc EXCEPT ![r] = "trace"]
      /\ UNCHANGED <<counters, contributed, rounds>>
  BY <1>0, ReceiveElementsFacts
<1>2. pc \in [Ranks -> Labels]
  BY <1>0 DEF IInv, Types
<1>3. \A a \in Ranks : pc'[a] = "reduce" <=> pc[a] = "reduce"
  BY <1>1, <1>2
<1>4. Unfinished' = Unfinished
  <2> DEFINE n == Len(NewLines(r))
             f == [a \in Ranks |-> Held(a)]
             m == [a \in Ranks |-> recvMessageSize[r][a]]
             g == [a \in Ranks |-> f[a] - m[a]]
             h == [a \in Ranks |-> Held(a)']
  <2>1. /\ IsFiniteSet(Ranks) /\ \A a \in Ranks : Held(a) \in Nat
    BY CountsAreNumbers
  <2>2. /\ \A a \in Ranks : recvMessageSize[r][a] \in Nat
        /\ NewLines(r) \in Seq(Pieces) /\ n = Total(recvMessageSize[r])
        /\ recvMessageSize[r] = m
    <3>1. recvMessageSize[r] \in [Ranks -> Nat]
      BY <1>0 DEF Kinds
    <3>2. NewLines(r) \in Seq(Pieces) /\ n = Total(recvMessageSize[r])
      BY <1>0, NewLinesFacts
    <3> QED BY <3>1, <3>2
  <2>3. n \in Nat
    BY <2>2
  <2>4. \A a \in Ranks : Held(a)' = Held(a) - recvMessageSize[r][a]
                                        + (IF a = r THEN n ELSE 0)
    BY ReceivedHeld
  <2>5. Unfinished = Total(f) /\ Unfinished' = Total(h)
    BY DEF Unfinished
  <2> HIDE DEF n
  <2>6. /\ DOMAIN f = Ranks /\ DOMAIN m = Ranks /\ DOMAIN g = Ranks /\ DOMAIN h = Ranks
        /\ \A a \in Ranks : f[a] \in Int /\ m[a] \in Int /\ g[a] = f[a] - m[a]
        /\ \A a \in Ranks : h[a] = g[a] + (IF a = r THEN n ELSE 0)
    BY <2>1, <2>2, <2>4
  <2> HIDE DEF f, g, h, m
  <2>7. \A a \in Ranks : /\ g[a] \in Int /\ h[a] \in Int /\ f[a] = g[a] + m[a]
                         /\ a # r => h[a] = g[a]
    BY <2>3, <2>6
  <2>8. Numbers(f) /\ Numbers(m) /\ Numbers(g) /\ Numbers(h)
    BY <2>1, <2>6, <2>7 DEF Numbers
  <2>9. Total(f) = Total(g) + Total(m)
    BY <2>6, <2>7, <2>8, TotalAdd
  <2>10. Total(h) = Total(g) - g[r] + h[r]
    BY <2>6, <2>7, <2>8, TotalChange
  <2>11. Total(g) \in Int /\ g[r] \in Int /\ h[r] = g[r] + n
    BY <2>6, <2>7, <2>8, TotalFacts
  <2> QED BY <2>2, <2>3, <2>5, <2>9, <2>10, <2>11
<1>5. \A a, s \in Ranks : UntoldBy(a, s)' = UntoldBy(a, s)
  BY <1>1, <1>3, UntoldByKept DEF counters
<1>6. \A s \in Ranks : Untold(s)' = Untold(s)
  BY <1>5, UntoldSame
<1> QED BY <1>1, <1>4, <1>6, CountedKept DEF counters
-------------------------------------------------------------------------------
(* The result of a reduction takes off the counter of a rank what the      *)
(* ranks had to tell it in that reduction.                                 *)
LEMMA ReducedTold ==
    ASSUME Exchanged, NEW r \in Ranks, Reduced(r),
           UNCHANGED <<addedElement, contributed>>,
           NEW x \in {"count", "sizes"}, pc' = [pc EXCEPT ![r] = x]
    PROVE  /\ \A s \in Ranks \ {r} : Untold(s)' = Untold(s)
           /\ Untold(r)' = Untold(r) - finishedElementReceived(rounds[r] + 1)
           /\ finishedElementReceived(rounds[r] + 1) \in Int
<1> DEFINE k == rounds[r] + 1
<1>0. IInv /\ Kinds /\ Resting
  BY DEF Exchanged
<1>1. /\ pc[r] = "reduce"
      /\ \A q \in Ranks : Len(contributed[q]) > rounds[r]
      /\ rounds' = [rounds EXCEPT ![r] = k]
      /\ finishedElement' = [finishedElement EXCEPT ![r] = 0]
  BY DEF Reduced
<1>2. /\ pc \in [Ranks -> Labels] /\ rounds \in [Ranks -> Nat]
      /\ contributed \in [Ranks -> Seq(Int)] /\ finishedElement \in [Ranks -> Int]
  BY <1>0 DEF IInv, Types
<1>3. addedElement[r] = 0
  BY <1>0, <1>1 DEF Resting, AtRest
<1>4. \A a \in Ranks :
          /\ pc'[a] = IF a = r THEN x ELSE pc[a]
          /\ rounds'[a] = IF a = r THEN k ELSE rounds[a]
          /\ finishedElement'[a] = IF a = r THEN 0 ELSE finishedElement[a]
          /\ addedElement'[a] = addedElement[a]
          /\ contributed'[a] = contributed[a]
  BY <1>1, <1>2
<1>5. \A a, s \in Ranks : UntoldBy(a, s)' =
          (IF pc[a] = "reduce" THEN 0 ELSE finishedElement[a] - addedElement[a])
              + Remainder(contributed[a], rounds'[s])
  <2> SUFFICES ASSUME NEW a \in Ranks, NEW s \in Ranks
               PROVE  UntoldBy(a, s)' =
                         (IF pc[a] = "reduce" THEN 0
                          ELSE finishedElement[a] - addedElement[a])
                             + Remainder(contributed[a], rounds'[s])
    OBVIOUS
  <2>1. UntoldBy(a, s)' =
            (IF pc'[a] = "reduce" THEN 0 ELSE finishedElement'[a] - addedElement'[a])
                + Remainder(contributed'[a], rounds'[s])
    BY DEF UntoldBy, Remainder
  <2>2. (IF pc'[a] = "reduce" THEN 0 ELSE finishedElement'[a] - addedElement'[a])
            = (IF pc[a] = "reduce" THEN 0 ELSE finishedElement[a] - addedElement[a])
    <3>1. CASE a = r
      <4>1. pc'[a] # "reduce" /\ finishedElement'[a] = 0 /\ addedElement'[a] = 0
            /\ pc[a] = "reduce"
        BY <1>1, <1>3, <1>4, <3>1
      <4> QED BY <4>1
    <3>2. CASE a # r
      BY <1>4, <3>2
    <3> QED BY <3>1, <3>2
  <2> QED BY <1>4, <2>1, <2>2
<1>6. \A a, s \in Ranks : UntoldBy(a, s) =
          (IF pc[a] = "reduce" THEN 0 ELSE finishedElement[a] - addedElement[a])
              + Remainder(contributed[a], rounds[s])
  BY UnderwayDef
<1>7. ASSUME NEW s \in Ranks \ {r} PROVE Untold(s)' = Untold(s)
  <2>1. rounds'[s] = rounds[s]
    BY <1>4
  <2>2. \A a \in Ranks : UntoldBy(a, s)' = UntoldBy(a, s)
    BY <1>5, <1>6, <2>1
  <2> QED BY <2>2, UntoldSame
<1>8. ASSUME NEW a \in Ranks
      PROVE  /\ contributed[a][k] \in Int /\ UntoldBy(a, r)' \in Int
             /\ UntoldBy(a, r) \in Int
             /\ UntoldBy(a, r) = UntoldBy(a, r)' + contributed[a][k]
  <2> DEFINE left == IF pc[a] = "reduce" THEN 0
                     ELSE finishedElement[a] - addedElement[a]
  <2>1. /\ contributed[a] \in Seq(Int) /\ rounds[r] \in Nat /\ k \in Nat
        /\ rounds[r] <= Len(contributed[a]) /\ rounds[r] < Len(contributed[a])
        /\ k <= Len(contributed[a]) /\ k \in 1..Len(contributed[a])
    BY <1>1, <1>2
  <2>2. contributed[a][k] \in Int
    BY <2>1
  <2>3. Remainder(contributed[a], rounds[r])
            = contributed[a][k] + Remainder(contributed[a], k)
    BY <2>1, RemainderFacts
  <2>4. Remainder(contributed[a], k) \in Int
    <3> HIDE DEF k
    <3> QED BY <2>1, RemainderFacts
  <2>5. left \in Int
    BY <1>0, <1>2 DEF IInv, Types
  <2>6. UntoldBy(a, r)' = left + Remainder(contributed[a], k)
    BY <1>4, <1>5
  <2>7. UntoldBy(a, r) = left + (contributed[a][k] + Remainder(contributed[a], k))
    BY <1>6, <2>3
  <2> HIDE DEF left, k
  <2> QED BY <2>2, <2>4, <2>5, <2>6, <2>7
<1>9. /\ Untold(r)' = Untold(r) - finishedElementReceived(k)
      /\ finishedElementReceived(k) \in Int
  <2> DEFINE f == [a \in Ranks |-> UntoldBy(a, r)']
             g == [a \in Ranks |-> contributed[a][k]]
             h == [a \in Ranks |-> UntoldBy(a, r)]
  <2>1. /\ Untold(r)' = Total(f) /\ finishedElementReceived(k) = Total(g)
        /\ Untold(r) = Total(h)
    BY DEF Untold, finishedElementReceived
  <2>2. IsFiniteSet(Ranks)
    BY CountsAreNumbers
  <2>3. /\ DOMAIN f = Ranks /\ DOMAIN g = Ranks /\ DOMAIN h = Ranks
        /\ \A a \in Ranks : f[a] \in Int /\ g[a] \in Int /\ h[a] \in Int
        /\ \A a \in Ranks : h[a] = f[a] + g[a]
    <3> HIDE DEF k
    <3> QED BY <1>8
  <2> HIDE DEF f, g, h
  <2>4. Numbers(f) /\ Numbers(g) /\ Numbers(h)
    BY <2>2, <2>3 DEF Numbers
  <2>5. Total(h) = Total(f) + Total(g)
    BY <2>3, <2>4, TotalAdd
  <2>6. Total(f) \in Int /\ Total(g) \in Int
    BY <2>4, TotalFacts
  <2> HIDE DEF k
  <2> QED BY <2>1, <2>5, <2>6
<1> QED BY <1>7, <1>9

(* The counter of the rank that takes a result stays exact, and is not     *)
(* negative: it is that of a rank that has the result already, or          *)
(* everything is told.                                                     *)
LEMMA ReducedCounted ==
    ASSUME Exchanged, Counted, NEW r \in Ranks, Reduced(r),
           UNCHANGED <<open, addedElement, contributed>>,
           \A a, b \in Ranks : Underway(a, b)' = Underway(a, b),
           NEW x \in {"count", "sizes"}, pc' = [pc EXCEPT ![r] = x]
    PROVE  Counted'
<1> DEFINE k == rounds[r] + 1
<1>0. IInv /\ Kinds /\ Resting
  BY DEF Exchanged
<1>1. Unfinished' = Unfinished
  BY HeldSame
<1>2. /\ \A s \in Ranks \ {r} : Untold(s)' = Untold(s)
      /\ Untold(r)' = Untold(r) - finishedElementReceived(k)
      /\ finishedElementReceived(k) \in Int
  BY ReducedTold
<1>3. /\ \A s \in Ranks : /\ globalElementCounter[s] \in Nat
                          /\ globalElementCounter[s] = Unfinished + Untold(s)
                          /\ Untold(s) \in Int
      /\ Unfinished \in Nat
  BY CountsAreNumbers DEF Counted
<1>4. /\ globalElementCounter' = [globalElementCounter EXCEPT ![r] = Left(r)]
      /\ Left(r) = globalElementCounter[r] - finishedElementReceived(k)
      /\ rounds' = [rounds EXCEPT ![r] = k]
      /\ pc[r] = "reduce"
  BY DEF Reduced, Left
<1>5. \A s \in Ranks : globalElementCounter'[s] = IF s = r THEN Left(r)
                                                  ELSE globalElementCounter[s]
  BY <1>0, <1>4 DEF IInv, Types
<1>6. Left(r) = Unfinished' + Untold(r)'
  <2> HIDE DEF k
  <2> QED BY <1>1, <1>2, <1>3, <1>4
<1>7. Left(r) \in Nat
  <2>1. CASE \E q \in Ranks : rounds[q] = rounds[r] + 1
    <3>1. PICK q \in Ranks : rounds[q] = rounds[r] + 1
      BY <2>1
    <3>2. globalElementCounter[q]
              = globalElementCounter[r] - finishedElementReceived(rounds[q])
      BY <1>0, <3>1 DEF IInv, Agreement
    <3> QED BY <1>3, <1>4, <3>1, <3>2
  <2>2. CASE \A q \in Ranks : rounds[q] # rounds[r] + 1
    <3>1. ASSUME NEW a \in Ranks PROVE UntoldBy(a, r)' = 0
      <4>1. pc[a] = "reduce" /\ rounds[a] = rounds[r] /\ rounds[r] \in Nat
        BY <1>0, <2>2, ReducedFacts
      <4>2. Len(contributed[a]) = k /\ contributed[a] \in Seq(Int) /\ k \in Nat
        BY <1>0, <4>1, RoundsClose DEF IInv, Types
      <4>3. Remainder(contributed[a], k) = 0
        <5> HIDE DEF k
        <5>1. k <= Len(contributed[a])
          BY <4>2
        <5> QED BY <4>2, <5>1, RemainderFacts
      <4>4. UntoldBy(a, r)' =
                (IF pc'[a] = "reduce" THEN 0
                 ELSE finishedElement'[a] - addedElement'[a])
                    + Remainder(contributed'[a], rounds'[r])
        BY DEF UntoldBy, Remainder
      <4>5. contributed'[a] = contributed[a] /\ rounds'[r] = k
        BY <1>0, <1>4 DEF IInv, Types
      <4>6. (IF pc'[a] = "reduce" THEN 0
             ELSE finishedElement'[a] - addedElement'[a]) = 0
        <5>1. CASE a = r
          <6>1. finishedElement'[r] = 0
            BY <1>0 DEF IInv, Types, Reduced
          <6>2. addedElement'[r] = 0
            BY <1>0, <1>4 DEF Resting, AtRest
          <6> QED BY <5>1, <6>1, <6>2
        <5>2. CASE a # r
          <6>1. pc'[a] = "reduce"
            BY <1>0, <4>1, <5>2 DEF IInv, Types
          <6> QED BY <6>1
        <5> QED BY <5>1, <5>2
      <4> QED BY <4>3, <4>4, <4>5, <4>6
    <3>2. Untold(r)' = 0
      <4> DEFINE f == [a \in Ranks |-> UntoldBy(a, r)']
      <4>1. Untold(r)' = Total(f)
        BY DEF Untold
      <4>2. IsFiniteSet(Ranks)
        BY CountsAreNumbers
      <4>3. DOMAIN f = Ranks /\ \A a \in Ranks : f[a] = 0
        BY <3>1
      <4> HIDE DEF f
      <4> QED BY <4>1, <4>2, <4>3, TotalZero
    <3> QED BY <1>1, <1>3, <1>6, <3>2
  <2> QED BY <2>1, <2>2
<1>8. ASSUME NEW s \in Ranks
      PROVE  /\ globalElementCounter'[s] \in Nat
             /\ globalElementCounter'[s] = Unfinished' + Untold(s)'
  BY <1>1, <1>2, <1>3, <1>5, <1>6, <1>7
<1> QED BY <1>8 DEF Counted

(* A rank that stops takes the result of a reduction.                      *)
LEMMA StopCounted ==
    ASSUME Exchanged, Counted, NEW r \in Ranks, Stop(r)
    PROVE  Counted'
<1>1. /\ Reduced(r) /\ pc' = [pc EXCEPT ![r] = "count"] /\ pc[r] = "reduce"
      /\ UNCHANGED <<open, addedElement, contributed, toSend, sendBuf, data>>
  BY DEF Stop, Reduced, Goto, buffers
<1>2. pc \in [Ranks -> Labels]
  BY DEF Exchanged, IInv, Types
<1>3. \A a \in Ranks : pc'[a] = "sizes" <=> pc[a] = "sizes"
  BY <1>1, <1>2
<1>4. \A a, b \in Ranks : Underway(a, b)' = Underway(a, b)
  BY <1>1, <1>3, UnderwayKept
<1> QED BY <1>1, <1>4, ReducedCounted

(* What was handed over is underway whether it is gathered or not.         *)
LEMMA ContinueCounted ==
    ASSUME Exchanged, Counted, NEW r \in Ranks, Continue(r)
    PROVE  Counted'
<1>0. IInv /\ Kinds /\ Resting
  BY DEF Exchanged
<1>1. /\ Reduced(r) /\ pc' = [pc EXCEPT ![r] = "sizes"] /\ pc[r] = "reduce"
      /\ UNCHANGED <<open, addedElement, contributed, data>>
      /\ \A a, b \in Ranks :
            /\ sendBuf'[a][b] = IF a = r THEN toSend[a][b] ELSE sendBuf[a][b]
            /\ toSend'[a][b] = IF a = r THEN <<>> ELSE toSend[a][b]
  <2>1. Reduced(r)
    BY DEF Continue
  <2>2. /\ pc[r] = "reduce" /\ pc' = [pc EXCEPT ![r] = "sizes"]
        /\ UNCHANGED <<request, lines, open, addedElement, recvBuf,
                       recvMessageSize, contributed, data>>
        /\ \A a, b \in Ranks :
              /\ sendBuf'[a][b] = IF a = r THEN toSend[a][b] ELSE sendBuf[a][b]
              /\ toSend'[a][b] = IF a = r THEN <<>> ELSE toSend[a][b]
    BY <1>0, ContinueFacts
  <2> QED BY <2>1, <2>2
<1>2. pc \in [Ranks -> Labels]
  BY <1>0 DEF IInv, Types
<1>3. \A a \in Ranks : a # r => (pc'[a] = "sizes" <=> pc[a] = "sizes")
  BY <1>1, <1>2
<1>4. ASSUME NEW a \in Ranks, NEW b \in Ranks PROVE Underway(a, b)' = Underway(a, b)
  <2>1. CASE a # r
    BY <1>1, <1>3, <2>1, UnderwayKept
  <2>2. CASE a = r
    <3>1. Underway(r, b)' = Len(toSend'[r][b])
              + (IF pc'[r] = "sizes" THEN Len(sendBuf'[r][b]) ELSE 0)
              + OnTheirWay(r, b)'
      BY DEF Underway, OnTheirWay
    <3>2. Underway(r, b) = Len(toSend[r][b]) + 0 + OnTheirWay(r, b)
      BY <1>1, UnderwayDef
    <3>3. OnTheirWay(r, b)' = OnTheirWay(r, b)
      BY <1>1 DEF OnTheirWay
    <3>4. /\ pc'[r] = "sizes" /\ Len(toSend'[r][b]) = 0
          /\ Len(sendBuf'[r][b]) = Len(toSend[r][b])
      BY <1>1, <1>2
    <3>5. Underway(r, b)' = 0 + Len(toSend[r][b]) + OnTheirWay(r, b)
      BY <3>1, <3>3, <3>4
    <3> DEFINE t == Len(toSend[r][b])
               o == OnTheirWay(r, b)
    <3>6. t \in Nat /\ o \in Nat
      BY CountsAreNumbers
    <3>7. Underway(r, b)' = 0 + t + o /\ Underway(r, b) = t + 0 + o
      BY <3>2, <3>5
    <3> HIDE DEF t, o
    <3>8. 0 + t + o = t + 0 + o
      BY <3>6
    <3> QED BY <2>2, <3>7, <3>8
  <2> QED BY <2>1, <2>2
<1> QED BY <1>1, <1>4, ReducedCounted
-------------------------------------------------------------------------------
(* At first the lines to trace are the seeds.                              *)
LEMMA InitCounted == Init => Counted
<1> SUFFICES ASSUME Init PROVE Counted
  OBVIOUS
<1> DEFINE n == TotalSeeds(request.seeds)
<1>1. /\ request \in Requests
      /\ \A r \in Ranks :
            /\ pc[r] = "trace" /\ open[r] = DOMAIN request.seeds[r]
            /\ finishedElement[r] = 0 /\ addedElement[r] = 0
            /\ globalElementCounter[r] = n
            /\ contributed[r] = <<>> /\ rounds[r] = 0
            /\ \A q \in Ranks : toSend[r][q] = <<>> /\ data[r][q] = <<>>
  BY DEF Init, Nothing
<1>2. /\ request.seeds \in [Ranks -> Seq(Vertices)] /\ IsFiniteSet(Ranks)
  <2>1. request.seeds \in [Ranks -> Seq(Vertices)]
    BY <1>1, RequestsAssumption DEF Vertices
  <2> QED BY <1>1, <2>1, RequestFacts
<1>3. ASSUME NEW r \in Ranks, NEW q \in Ranks PROVE Underway(r, q) = 0
  <2>1. <<>> \in Seq(Elements) /\ <<>> \in Seq(Seq(Elements))
    OBVIOUS
  <2>2. OnTheirWay(r, q) = 0
    <3> DEFINE on(p) == Total([m \in DOMAIN p |-> Len(p[m])])
    <3>1. OnTheirWay(r, q) = on(data[r][q])
      BY DEF OnTheirWay
    <3>2. on(<<>>) = 0
      BY <2>1, LengthsAppend
    <3> HIDE DEF on
    <3> QED BY <1>1, <3>1, <3>2
  <2>3. Underway(r, q) = Len(toSend[r][q]) + 0 + OnTheirWay(r, q)
    BY <1>1, UnderwayDef
  <2>4. Len(toSend[r][q]) = 0
    BY <1>1
  <2> QED BY <2>2, <2>3, <2>4
<1>4. ASSUME NEW r \in Ranks
      PROVE  Held(r) = Len(request.seeds[r]) /\ Len(request.seeds[r]) \in Nat
  <2>1. /\ Len(request.seeds[r]) \in Nat
        /\ DOMAIN request.seeds[r] = 1..Len(request.seeds[r])
    BY <1>2
  <2>2. Cardinality(open[r]) = Len(request.seeds[r])
    <3> DEFINE m == Len(request.seeds[r])
    <3>1. open[r] = 1..m /\ m \in Nat
      BY <1>1, <2>1
    <3> HIDE DEF m
    <3>2. 1 \in Int /\ m \in Int /\ (IF 1 > m THEN m = 0 ELSE m - 1 + 1 = m)
      BY <3>1
    <3>3. Cardinality(open[r]) = m
      BY <3>1, <3>2, FS_Interval
    <3> QED BY <3>3 DEF m
  <2>3. Total([q \in Ranks |-> Underway(r, q)]) = 0
    <3> DEFINE f == [q \in Ranks |-> Underway(r, q)]
    <3>1. DOMAIN f = Ranks /\ \A q \in Ranks : f[q] = 0
      BY <1>3
    <3> HIDE DEF f
    <3>2. Total(f) = 0
      BY <1>2, <3>1, TotalZero
    <3> QED BY <3>2 DEF f
  <2>4. Held(r) = Cardinality(open[r]) + Total([q \in Ranks |-> Underway(r, q)])
    BY DEF Held
  <2>5. Held(r) = Len(request.seeds[r]) + 0
    BY <2>2, <2>3, <2>4
  <2> QED BY <2>1, <2>5
<1>5. Unfinished = n /\ n \in Nat
  <2> DEFINE f == [r \in Ranks |-> Len(request.seeds[r])]
  <2>1. [r \in Ranks |-> Held(r)] = f
    BY <1>4
  <2>2. Unfinished = Total([r \in Ranks |-> Held(r)]) /\ n = Total(f)
    BY DEF Unfinished, TotalSeeds
  <2>3. DOMAIN f = Ranks /\ \A r \in Ranks : f[r] \in Nat
    BY <1>4
  <2> HIDE DEF f, n
  <2>4. Total(f) \in Nat
    BY <1>2, <2>3, TotalNat
  <2> QED BY <2>1, <2>2, <2>4
<1>6. ASSUME NEW s \in Ranks PROVE Untold(s) = 0
  <2>1. ASSUME NEW a \in Ranks PROVE UntoldBy(a, s) = 0
    <3>1. <<>> \in Seq(Int) /\ 0 \in Nat /\ 0 <= Len(<<>>) /\ Len(<<>>) = 0
      OBVIOUS
    <3>2. Remainder(<<>>, 0) = 0
      BY <3>1, RemainderFacts
    <3>3. UntoldBy(a, s) = (0 - 0) + Remainder(<<>>, 0)
      <4>1. UntoldBy(a, s) =
                (IF pc[a] = "reduce" THEN 0 ELSE finishedElement[a] - addedElement[a])
                    + Remainder(contributed[a], rounds[s])
        BY UnderwayDef
      <4>2. /\ pc[a] = "trace" /\ finishedElement[a] = 0 /\ addedElement[a] = 0
            /\ contributed[a] = <<>> /\ rounds[s] = 0
        BY <1>1
      <4> QED BY <4>1, <4>2
    <3> QED BY <3>2, <3>3
  <2> DEFINE f == [a \in Ranks |-> UntoldBy(a, s)]
  <2>2. Untold(s) = Total(f)
    BY DEF Untold
  <2>3. DOMAIN f = Ranks /\ \A a \in Ranks : f[a] = 0
    BY <2>1
  <2> HIDE DEF f
  <2> QED BY <1>2, <2>2, <2>3, TotalZero
<1>7. ASSUME NEW s \in Ranks
      PROVE  /\ globalElementCounter[s] \in Nat
             /\ globalElementCounter[s] = Unfinished + Untold(s)
  <2> HIDE DEF n
  <2>1. globalElementCounter[s] = n
    BY <1>1 DEF n
  <2> QED BY <1>5, <1>6, <2>1
<1> QED BY <1>7 DEF Counted

(* Every step keeps the counters exact.                                    *)
LEMMA NextCounted == Exchanged /\ Counted /\ [Next]_vars => Counted'
<1> SUFFICES ASSUME Exchanged, Counted, [Next]_vars PROVE Counted'
  OBVIOUS
<1>1. ASSUME NEW r \in Ranks, Round(r) PROVE Counted'
  <2>1. CASE Contribute(r)
    BY <2>1, ContributeCounted
  <2>2. CASE Stop(r)
    BY <2>2, StopCounted
  <2>3. CASE Continue(r)
    BY <2>3, ContinueCounted
  <2>4. CASE ReceiveSizes(r)
    BY <2>4, ReceiveSizesCounted
  <2>5. CASE ReceiveElements(r)
    BY <2>5, ReceiveElementsCounted
  <2> QED BY <1>1, <2>1, <2>2, <2>3, <2>4, <2>5 DEF Round
<1>2. ASSUME NEW r \in Ranks, Identify(r) PROVE Counted'
  BY <1>2, IdentifyCounted
<1>3. ASSUME NEW r \in Ranks, NEW i \in open[r], Trace(r, i) PROVE Counted'
  BY <1>3, TraceCounted
<1>4. CASE UNCHANGED vars
  <2>1. UNCHANGED <<pc, open, counters, toSend, sendBuf, data, contributed, rounds>>
    BY <1>4 DEF vars, buffers, mpi
  <2>2. \A a, b \in Ranks : Underway(a, b)' = Underway(a, b)
    BY <2>1, UnderwayKept
  <2>3. \A a, s \in Ranks : UntoldBy(a, s)' = UntoldBy(a, s)
    BY <2>1, UntoldByKept DEF counters
  <2>4. Unfinished' = Unfinished
    BY <2>1, <2>2, HeldSame
  <2>5. \A s \in Ranks : Untold(s)' = Untold(s)
    BY <2>3, UntoldSame
  <2> QED BY <2>1, <2>4, <2>5, CountedKept DEF counters
<1> QED BY <1>1, <1>2, <1>3, <1>4 DEF Next, Returned

(* Nothing is left to tell to a rank that has stopped: the others are out  *)
(* of the rounds too, or wait for the result of what they contributed last.*)
LEMMA StoppedTold ==
    ASSUME Exchanged, NEW r \in Ranks, Stopped(r), NEW q \in Ranks
    PROVE  UntoldBy(q, r) = 0
<1>0. IInv /\ Kinds /\ Resting
  BY DEF Exchanged
<1>1. pc[r] # "reduce"
  BY DEF Stopped
<1>2. /\ rounds[q] \in Nat /\ rounds[r] \in Nat
      /\ \/ rounds[q] = rounds[r]
         \/ rounds[r] = rounds[q] + 1 /\ pc[q] = "reduce"
      /\ Len(contributed[q]) = IF pc[q] = "reduce" THEN rounds[q] + 1 ELSE rounds[q]
      /\ contributed[q] \in Seq(Int)
  BY <1>0, <1>1, RoundsClose DEF IInv, Types
<1>3. UntoldBy(q, r) =
          (IF pc[q] = "reduce" THEN 0 ELSE finishedElement[q] - addedElement[q])
              + Remainder(contributed[q], rounds[r])
  BY UnderwayDef
<1>4. rounds[r] > 0 /\ globalElementCounter[r] = 0
  BY <1>0 DEF IInv, AtZero
<1>5. CASE rounds[q] = rounds[r]
  <2>1. globalElementCounter[q] = 0
    BY <1>0, <1>4, <1>5 DEF IInv, Agreement
  <2>2. Stopped(q)
    BY <1>0, <1>2, <1>4, <1>5, <2>1 DEF IInv, AtZero
  <2>3. pc[q] \notin {"trace", "reduce"}
    BY <2>2 DEF Stopped
  <2>4. finishedElement[q] = 0 /\ addedElement[q] = 0
    BY <1>0, <2>3 DEF Resting, AtRest
  <2>5. Remainder(contributed[q], rounds[r]) = 0
    <3>1. rounds[r] = Len(contributed[q]) /\ rounds[r] <= Len(contributed[q])
      BY <1>2, <1>5, <2>3
    <3> QED BY <1>2, <3>1, RemainderFacts
  <2> QED BY <1>3, <2>4, <2>5
<1>6. CASE rounds[r] = rounds[q] + 1 /\ pc[q] = "reduce"
  <2>1. rounds[r] = Len(contributed[q]) /\ rounds[r] <= Len(contributed[q])
    BY <1>2, <1>6
  <2>2. Remainder(contributed[q], rounds[r]) = 0
    BY <1>2, <2>1, RemainderFacts
  <2> QED BY <1>3, <1>6, <2>2
<1> QED BY <1>2, <1>5, <1>6

(* The counter of each rank is the number of unfinished lines, up to what  *)
(* its next reductions bring, and nothing is unfinished when a rank stops. *)
THEOREM CounterExactAlways == Spec => []CounterExact
<1>1. Init => Exchanged /\ Counted
  BY InitExchanged, InitCounted
<1>2. Exchanged /\ Counted /\ [Next]_vars => (Exchanged /\ Counted)'
  BY NextExchanged, NextCounted
<1>3. Exchanged /\ Counted => CounterExact
  <2> SUFFICES ASSUME Exchanged, Counted, NEW r \in Ranks, Stopped(r)
               PROVE  Unfinished = 0
    BY DEF CounterExact, Counted
  <2>1. Untold(r) = 0
    <3> DEFINE f == [q \in Ranks |-> UntoldBy(q, r)]
    <3>1. Untold(r) = Total(f)
      BY DEF Untold
    <3>2. DOMAIN f = Ranks /\ \A q \in Ranks : f[q] = 0
      BY StoppedTold
    <3>3. IsFiniteSet(Ranks)
      BY CountsAreNumbers
    <3> HIDE DEF f
    <3> QED BY <3>1, <3>2, <3>3, TotalZero
  <2>2. globalElementCounter[r] = 0
    BY DEF Exchanged, IInv, AtZero
  <2>3. globalElementCounter[r] = Unfinished + Untold(r) /\ Unfinished \in Nat
    BY CountsAreNumbers DEF Counted
  <2> QED BY <2>1, <2>2, <2>3
<1> QED BY <1>1, <1>2, <1>3, PTL DEF Spec
-------------------------------------------------------------------------------
(* A rank exchanges the identifiers of its ghosts once with each neighbour.*)
Exchanging ==
    /\ exchanged \in [Ranks -> Nat]
    /\ \A r \in Ranks :
          /\ exchanged[r] <= Len(RankList(r))
          /\ pc[r] = "exchange" => exchanged[r] < Len(RankList(r))
          /\ pc[r] \notin {"exchange", "done"} => exchanged[r] = 0

(* No identifiers are exchanged at first,                                  *)
LEMMA InitExchanging == Init => Exchanging
<1> SUFFICES ASSUME Init PROVE Exchanging
  OBVIOUS
<1>1. exchanged = [r \in Ranks |-> 0] /\ pc = [r \in Ranks |-> "trace"]
      /\ request \in Requests
  BY DEF Init
<1>2. \A r \in Ranks : Len(RankList(r)) \in Nat
  BY <1>1, NeighborFacts
<1> QED BY <1>1, <1>2 DEF Exchanging

(* and a rank counts the neighbours it has exchanged them with.            *)
LEMMA NextExchanging == Exchanged /\ Exchanging /\ [Next]_vars => Exchanging'
<1> SUFFICES ASSUME Exchanged, Exchanging, [Next]_vars PROVE Exchanging'
  OBVIOUS
<1>0. request \in Requests /\ pc \in [Ranks -> Labels]
  BY DEF Exchanged, IInv, Types
<1>1. request' = request
  BY DEF Next, Round, Identify, Trace, Returned, Contribute, Stop, Continue,
         ReceiveSizes, ReceiveElements, Count, Number, Exchange, Finish, Advance,
         Fork, HandOver, tracing, traced, vars
<1>2. \A r \in Ranks : RankList(r)' = RankList(r) /\ Len(RankList(r)) \in Nat
  BY <1>0, <1>1, SameKinds, NeighborFacts
<1>3. \A r \in Ranks : Len(RankList(r)) = 0 <=> NeighborRanks(r) = {}
  BY <1>0, NeighborFacts
<1>4. /\ exchanged \in [Ranks -> Nat]
      /\ \A r \in Ranks :
            /\ exchanged[r] <= Len(RankList(r))
            /\ pc[r] = "exchange" => exchanged[r] < Len(RankList(r))
            /\ pc[r] \notin {"exchange", "done"} => exchanged[r] = 0
  BY DEF Exchanging
<1>5. ASSUME NEW r \in Ranks, NEW n \in Nat, NEW a \in Labels,
             exchanged' = [exchanged EXCEPT ![r] = n], pc' = [pc EXCEPT ![r] = a],
             n <= Len(RankList(r)), a = "exchange" => n < Len(RankList(r)),
             a \notin {"exchange", "done"} => n = 0
      PROVE  Exchanging'
  <2>1. \A q \in Ranks : /\ exchanged'[q] = IF q = r THEN n ELSE exchanged[q]
                         /\ pc'[q] = IF q = r THEN a ELSE pc[q]
    BY <1>0, <1>4, <1>5
  <2>2. exchanged' \in [Ranks -> Nat]
    BY <1>4, <1>5
  <2>3. ASSUME NEW q \in Ranks
        PROVE  /\ exchanged'[q] <= Len(RankList(q))
               /\ pc'[q] = "exchange" => exchanged'[q] < Len(RankList(q))
               /\ pc'[q] \notin {"exchange", "done"} => exchanged'[q] = 0
    BY <1>4, <1>5, <2>1
  <2>4. ASSUME NEW q \in Ranks
        PROVE  /\ exchanged'[q] <= Len(RankList(q)')
               /\ pc'[q] = "exchange" => exchanged'[q] < Len(RankList(q)')
               /\ pc'[q] \notin {"exchange", "done"} => exchanged'[q] = 0
    BY <1>2, <2>3
  <2> QED BY <2>2, <2>4 DEF Exchanging
<1>6. ASSUME exchanged' = exchanged,
             \A q \in Ranks : \/ pc'[q] = pc[q]
                              \/ /\ pc[q] \notin {"exchange", "done"}
                                 /\ pc'[q] \notin {"exchange", "done"}
      PROVE  Exchanging'
  <2>1. ASSUME NEW q \in Ranks
        PROVE  /\ exchanged'[q] <= Len(RankList(q)')
               /\ pc'[q] = "exchange" => exchanged'[q] < Len(RankList(q)')
               /\ pc'[q] \notin {"exchange", "done"} => exchanged'[q] = 0
    BY <1>2, <1>4, <1>6
  <2> QED BY <1>4, <1>6, <2>1 DEF Exchanging
<1>7. ASSUME NEW r \in Ranks, Round(r) \/ Count(r) PROVE Exchanging'
  <2>1. /\ exchanged' = exchanged
        /\ pc[r] \notin {"exchange", "done"}
        /\ \E a \in Labels : a \notin {"exchange", "done"} /\ pc' = [pc EXCEPT ![r] = a]
    BY <1>7 DEF Round, Contribute, Stop, Continue, Reduced, ReceiveSizes,
                ReceiveElements, Count, ids, Goto, Labels
  <2>2. \A q \in Ranks : \/ pc'[q] = pc[q]
                         \/ /\ pc[q] \notin {"exchange", "done"}
                            /\ pc'[q] \notin {"exchange", "done"}
    BY <1>0, <2>1
  <2> QED BY <1>6, <2>1, <2>2
<1>8. ASSUME NEW r \in Ranks, Number(r) PROVE Exchanging'
  <2>1. /\ exchanged' = exchanged /\ pc[r] = "number"
        /\ pc' = [pc EXCEPT ![r] = IF NeighborRanks(r) = {} THEN "done" ELSE "exchange"]
    BY <1>8 DEF Number, Goto
  <2>2. exchanged[r] = 0 /\ exchanged' = [exchanged EXCEPT ![r] = 0]
    BY <1>4, <2>1
  <2> DEFINE a == IF NeighborRanks(r) = {} THEN "done" ELSE "exchange"
  <2>3. /\ a \in Labels /\ a \in {"exchange", "done"} /\ 0 \in Nat
        /\ 0 <= Len(RankList(r)) /\ (a = "exchange" => 0 < Len(RankList(r)))
    BY <1>2, <1>3 DEF Labels
  <2>4. pc' = [pc EXCEPT ![r] = a]
    BY <2>1
  <2> HIDE DEF a
  <2> QED BY <1>5, <2>2, <2>3, <2>4
<1>9. ASSUME NEW r \in Ranks, Exchange(r) PROVE Exchanging'
  <2> DEFINE n == exchanged[r] + 1
             a == IF n = Len(RankList(r)) THEN "done" ELSE "exchange"
  <2>1. /\ pc[r] = "exchange" /\ exchanged' = [exchanged EXCEPT ![r] = n]
        /\ pc' = [pc EXCEPT ![r] = a]
    BY <1>9 DEF Exchange, Goto
  <2>2. /\ n \in Nat /\ n <= Len(RankList(r)) /\ a \in Labels
        /\ a \in {"exchange", "done"} /\ (a = "exchange" => n < Len(RankList(r)))
    BY <1>2, <1>4, <2>1 DEF Labels
  <2> HIDE DEF n, a
  <2> QED BY <1>5, <2>1, <2>2
<1>10. ASSUME NEW r \in Ranks, NEW i \in open[r], Trace(r, i) PROVE Exchanging'
  <2>1. UNCHANGED <<pc, exchanged>>
    BY <1>10 DEF Trace, Finish, Advance, Fork, HandOver, tracing, ids
  <2> QED BY <1>6, <2>1
<1>11. CASE UNCHANGED vars
  <2>1. UNCHANGED <<pc, exchanged>>
    BY <1>11 DEF vars, ids
  <2> QED BY <1>6, <2>1
<1> QED BY <1>7, <1>8, <1>9, <1>10, <1>11 DEF Next, Identify, Returned

(* The types of the state, with the bounds of the counts in it.            *)
THEOREM TypeOKAlways == Spec => []TypeOK
<1> DEFINE All == Exchanged /\ Counted /\ Exchanging
<1>1. Init => All
  BY InitExchanged, InitCounted, InitExchanging
<1>2. All /\ [Next]_vars => All'
  BY NextExchanged, NextCounted, NextExchanging
<1>3. All => TypeOK
  <2> SUFFICES ASSUME Exchanged, Counted, Exchanging PROVE TypeOK
    OBVIOUS
  <2>0. IInv /\ Kinds /\ Resting /\ request \in Requests
    BY DEF Exchanged, IInv, Types
  <2>1. pc \in [Ranks -> {"trace", "reduce", "sizes", "data", "count", "number",
                          "exchange", "done"}]
    BY <2>0 DEF IInv, Types, Labels
  <2>2. ASSUME NEW r \in Ranks, NEW i \in DOMAIN lines[r]
        PROVE  LET l == lines[r][i] IN
                 /\ l.seed \in Vertices /\ l.fork \in Vertices \cup {NoFork}
                 /\ l.first \in 0..Cardinality(Vertices)
                 /\ l.trajectory \in Seq(Vertices) /\ l.trajectory # <<>>
    <3> DEFINE l == lines[r][i]
    <3>1. l \in Pieces
      <4>1. lines[r] \in Seq(Pieces)
        BY <2>0 DEF Kinds
      <4> QED BY <4>1
    <3> HIDE DEF l
    <3>2. /\ l.seed \in Vertices /\ l.fork \in Vertices \cup {NoFork}
          /\ l.first \in Nat /\ l.trajectory \in Seq(Vertices)
          /\ l.trajectory # <<>> /\ Len(l.trajectory) \in Nat
          /\ Len(l.trajectory) >= 1
          /\ Last(l.trajectory) \in Vertices /\ Last(l.trajectory) \in Nat
          /\ l.first + Len(l.trajectory) <= Last(l.trajectory)
      BY <2>0, <3>1, PieceFacts
    <3>3. /\ Len(request.rank) \in Nat /\ Vertices = 1..Len(request.rank)
          /\ Cardinality(Vertices) = Len(request.rank)
      BY <2>0, RequestFacts
    <3>4. l.first \in 0..Cardinality(Vertices)
      <4>1. Last(l.trajectory) <= Len(request.rank)
        BY <3>2, <3>3
      <4>2. l.first <= Len(request.rank)
        BY <3>2, <3>3, <4>1
      <4> QED BY <3>2, <3>3, <4>2
    <3>5. /\ l.seed \in Vertices /\ l.fork \in Vertices \cup {NoFork}
          /\ l.first \in 0..Cardinality(Vertices)
          /\ l.trajectory \in Seq(Vertices) /\ l.trajectory # <<>>
      BY <3>2, <3>4
    <3> QED BY <3>5 DEF l
  <2>3. ASSUME NEW r \in Ranks
        PROVE  /\ open[r] \subseteq DOMAIN lines[r]
               /\ finishedElement[r] \in Int /\ addedElement[r] \in Nat
               /\ globalElementCounter[r] \in Nat
               /\ contributed[r] \in Seq(Int)
               /\ rounds[r] \in 0..Len(contributed[r])
               /\ exchanged[r] \in 0..Len(RankList(r))
    <3>1. open[r] \subseteq DOMAIN lines[r]
      BY <2>0 DEF Kinds, Traceable
    <3>2. finishedElement[r] \in Int /\ addedElement[r] \in Nat
      BY <2>0 DEF IInv, Types, Kinds
    <3>3. globalElementCounter[r] \in Nat
      BY DEF Counted
    <3>4. /\ contributed[r] \in Seq(Int) /\ rounds[r] \in Nat
          /\ rounds[r] <= Len(contributed[r])
      BY CountsAreNumbers
    <3>5. exchanged[r] \in Nat /\ exchanged[r] <= Len(RankList(r))
      BY DEF Exchanging
    <3>6. Len(RankList(r)) \in Nat /\ Len(contributed[r]) \in Nat
      BY <2>0, <3>4, NeighborFacts
    <3> QED BY <3>1, <3>2, <3>3, <3>4, <3>5, <3>6
  <2>4. ASSUME NEW r \in Ranks, NEW q \in Ranks
        PROVE  /\ recvMessageSize[r][q] \in Nat /\ sizes[r][q] \in Seq(Nat)
               /\ toSend[r][q] # <<>> => q \in NeighborRanks(r)
    <3>1. recvMessageSize[r][q] \in Nat /\ sizes[r][q] \in Seq(Nat)
      BY <2>0 DEF Kinds
    <3>2. q \notin NeighborRanks(r) => toSend[r][q] = <<>>
      BY <2>0 DEF Resting, AtRest, Unused
    <3> QED BY <3>1, <3>2
  <2> QED BY <2>1, <2>2, <2>3, <2>4 DEF TypeOK
<1> QED BY <1>1, <1>2, <1>3, PTL DEF Spec
===============================================================================
