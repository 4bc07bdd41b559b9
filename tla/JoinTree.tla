------------------------------ MODULE JoinTree ------------------------------
(***************************************************************************)
(* What a join tree is, from the sublevel sets of a mesh and without any   *)
(* traversal: the reference FTMGrowth is compared with.  The vertices      *)
(* 1..n are numbered by their order in the scalar field; a mesh is the set *)
(* of its edges, each a set of two vertices, and is connected.             *)
(***************************************************************************)
EXTENDS Integers, FiniteSets, FiniteSetsExt

Neighbors(mesh, v) == UNION {e \ {v} : e \in {f \in mesh : v \in f}}
LowerNeighbors(mesh, v) == {u \in Neighbors(mesh, v) : u < v}
UpperNeighbors(mesh, v) == {u \in Neighbors(mesh, v) : u > v}

(* The connected component of v in the part of the mesh spanned by S.      *)
Component(mesh, v, S) ==
    LET spread(near) == near \cup {u \in S : \E w \in near : {u, w} \in mesh}
        within[k \in 0..Cardinality(S)] ==
            IF k = 0 THEN {v} ELSE UNION {spread(near) : near \in {within[k - 1]}}
    IN  within[Cardinality(S)]

(* The components of the sublevel set strictly below v that v touches.     *)
LowerComponents(mesh, v) ==
    {Component(mesh, u, 1..(v - 1)) : u \in LowerNeighbors(mesh, v)}

Minima(mesh, n) == {v \in 1..n : LowerNeighbors(mesh, v) = {}}

Saddles(mesh, n) == {v \in 1..n : Cardinality(LowerComponents(mesh, v)) >= 2}

TreeNodes(mesh, n) == Minima(mesh, n) \cup Saddles(mesh, n) \cup {n}

(* The highest node at or below v in the component of v: the lower end of  *)
(* the arc v lies on when v is no node.                                    *)
NodeBelow(mesh, n, v) ==
    Max({a \in TreeNodes(mesh, n) : a <= v}
            \cap Component(mesh, v, 1..v))

(* An arc joins a node to the first node above it that its component meets.*)
TreeArcs(mesh, n) ==
    {<<a, Min({b \in TreeNodes(mesh, n) :
                  b > a /\ a \in Component(mesh, b, 1..b)})>> :
        a \in TreeNodes(mesh, n) \ {n}}
===============================================================================
