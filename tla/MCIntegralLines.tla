---------------------------- MODULE MCIntegralLines ----------------------------
(* Small distributed domains for IntegralLines.                            *)
EXTENDS IntegralLines

\* triangulated grid of three rows of three vertices
Square == {{1,2},{2,3},{4,5},{5,6},{7,8},{8,9},{1,4},{2,5},{3,6},{4,7},{5,8},
           {6,9},{1,5},{2,6},{4,8},{5,9}}

\* a mesh is renumbered by a field, and its ranks and seeds with it
Ask(mesh, field, rank, seeds, forking) ==
    LET place(v) == CHOOSE p \in DOMAIN field : field[p] = v IN
    [mesh |-> {{field[v] : v \in e} : e \in mesh},
     boundary |-> {},
     rank |-> [v \in DOMAIN field |-> rank[place(v)]],
     seeds |-> [r \in Ranks |->
                   SetToSeq({field[v] : v \in {s \in seeds : rank[s] = r}})],
     forking |-> forking]

\* three ranks in a row, three that meet, two
Columns == <<0, 1, 2, 0, 1, 2, 0, 1, 2>>
Corner  == <<0, 0, 1, 0, 2, 1, 2, 2, 1>>
Stripes == <<0, 1, 0, 0, 1, 0, 0, 1, 0>>

Slope  == <<1, 2, 3, 4, 5, 6, 7, 8, 9>>
Zigzag == <<1, 3, 2, 6, 4, 5, 7, 9, 8>>
Passes == <<1, 7, 3, 8, 2, 9, 4, 6, 5>>
Cross  == <<6, 2, 7, 1, 5, 3, 8, 4, 9>>
Lanes  == <<1, 6, 7, 2, 5, 8, 3, 4, 9>>

\* a ball of eight tetrahedra around vertex 1: 2 is a saddle only because it
\* has no lower neighbour on the boundary
Opposite == {{2, 7}, {3, 5}, {4, 6}}
Ball == {{u, v} : u \in 1..7, v \in 2..7} \ (Opposite \cup {{v} : v \in 2..7})
Solid(rank, seeds) ==
    [Ask(Ball, [v \in 1..7 |-> v], rank, seeds, TRUE) EXCEPT !.boundary = 2..7]

PassingRequests ==
    {Ask(Square, f, k, s, b) :
        f \in {Slope, Zigzag, Passes, Cross, Lanes},
        k \in {Columns, Corner, Stripes},
        s \in {{2}, {1, 2}, {4, 8, 1}}, b \in BOOLEAN} \cup
    {Ask(Square, Passes, Columns, {7, 4, 2, 1}, FALSE),
     Solid(<<0, 0, 1, 1, 1, 2, 2>>, {1, 2})}

\* from 2 a line forks at two saddles and comes to 9, of another rank, from
\* both of them
Ring == {{1,2},{1,5},{1,9},{1,6},{2,5},{5,9},{6,9},{2,6},{2,3},{3,5},{3,7},{5,7},
         {2,4},{4,6},{4,8},{6,8}}

TwoWays == {Ask(Ring, [v \in 1..9 |-> v], <<0, 0, 0, 0, 0, 0, 0, 0, 1>>, {2}, TRUE)}
===============================================================================
