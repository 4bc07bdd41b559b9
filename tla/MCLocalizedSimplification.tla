----------------------- MODULE MCLocalizedSimplification -----------------------
(* Small triangulated domains and fields for LocalizedSimplification.      *)
EXTENDS LocalizedSimplification

\* triangulated grid of two rows of three vertices
Strip == {{1,2},{2,3},{4,5},{5,6},{1,4},{2,5},{3,6},{1,5},{2,6}}

\* triangulated grid of three rows of three vertices
Square == {{1,2},{2,3},{4,5},{5,6},{7,8},{8,9},{1,4},{2,5},{3,6},{4,7},{5,8},
           {6,9},{1,5},{2,6},{4,8},{5,9}}

Levels(n) == {f \in [1..n -> {10 * i : i \in 1..n}] : IsInjective(f)}

\* fields on the square with up to four maxima or minima
Four == <<90, 30, 80, 40, 10, 50, 70, 20, 60>>
Peak == <<10, 70, 20, 80, 50, 60, 30, 90, 40>>
Ring == <<30, 60, 40, 80, 10, 90, 50, 70, 20>>
Pits == <<20, 60, 10, 70, 90, 50, 30, 80, 40>>

\* two hills that meet above a third one, beside and between its slopes
Twins == <<80, 60, 40, 30, 10, 70, 20, 90, 50>>
Steps == <<10, 20, 70, 60, 80, 90, 40, 50, 30>>

\* the neighbours of a vertex are listed in ascending order
Ask(mesh, scalar, authorized, threshold, pairType, perturb) ==
    [mesh |-> mesh, scalar |-> scalar, authorized |-> authorized,
     first |-> [v \in DOMAIN scalar |-> Min(J!Neighbors(mesh, v))],
     threshold |-> threshold, pairType |-> pairType, perturb |-> perturb]

NT == -1

ByThreshold ==
    {Ask(Strip, f, {}, 20, "both", FALSE) : f \in Levels(6)} \cup
    {Ask(Square, f, {}, k, kinds, k \in {0, 35}) :
        f \in {Four, Peak, Ring, Pits}, k \in {0, 20, 35, 60},
        kinds \in {"both", "maxima", "minima"}} \cup
    {Ask(Square, f, {}, k, "both", FALSE) : f \in {Twins, Steps}, k \in {20, 40, 60, 70}}

Extrema(f, Extremal(_, _)) ==
    {v \in DOMAIN f : \A u \in J!Neighbors(Square, v) : Extremal(f[v], f[u])}
Hilltops(f) == Extrema(f, LAMBDA a, b : a > b)
Bottoms(f)  == Extrema(f, LAMBDA a, b : a < b)
Highmost(f, S) == CHOOSE v \in S : \A u \in S : f[u] <= f[v]
Lowmost(f, S)  == CHOOSE v \in S : \A u \in S : f[u] >= f[v]

\* extrema of one kind, or of both with the greatest and the least vertex
Authorizations(f) ==
    (SUBSET Hilltops(f) \ {{}}) \cup (SUBSET Bottoms(f) \ {{}}) \cup
    {a \in SUBSET (Hilltops(f) \cup Bottoms(f)) :
        {Highmost(f, Hilltops(f)), Lowmost(f, Bottoms(f))} \subseteq a}

ByAuthorization ==
    UNION {{Ask(Square, f, a, NT, "both", a \cap Bottoms(f) # {}) :
               a \in Authorizations(f)} : f \in {Four, Ring, Pits}}

\* the only minimum that is authorized lies in a hill that is removed
LostMinimum == {Ask(Square, Ring, {3, 4}, NT, "both", FALSE)}

PassingRequests == ByThreshold \cup ByAuthorization \cup LostMinimum

\* only maxima are authorized, and the scalars shall tell the order apart
PerturbedMaxima == {Ask(Square, Four, {1}, NT, "both", TRUE)}
===============================================================================
