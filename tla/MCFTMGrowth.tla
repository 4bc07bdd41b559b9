----------------------------- MODULE MCFTMGrowth -----------------------------
(* Small domains for FTMGrowth, of dimension 1 and 2.                      *)
EXTENDS FTMGrowth, TLC

Path(p) == {{p[i], p[i + 1]} : i \in 1..(Len(p) - 1)}
Star(leaves, hub) == {{v, hub} : v \in leaves}
(* A disc: triangles between a hub and a cycle around it.                  *)
Wheel(rim, hub) ==
    Path(rim) \cup {{rim[1], rim[Len(rim)]}} \cup Star(ToSet(rim), hub)

(* Two saddles, one above the other.                                       *)
Chain == Path(<<1, 4, 2, 5, 3, 6>>)
(* Three arcs meet at one saddle.                                          *)
Monkey == Star({1, 2, 3, 5}, 4) \cup {{5, 6}}
(* Regular vertices on an arc and on the trunk, an interior maximum.       *)
Disc == Wheel(<<1, 3, 5, 2, 4>>, 6)
(* Regular vertices on both arcs, none on the trunk.                       *)
Branches == Path(<<3, 1, 5, 2, 4, 6>>)
(* A single minimum: the whole tree is trunk.                              *)
Single == Wheel(<<2, 3, 4, 6, 5>>, 1)

AllMeshes == {Chain, Monkey, Disc, Branches, Single}

ASSUME DomainsOpenAbove == OpenAbove /\ PairsGoOn
===============================================================================
