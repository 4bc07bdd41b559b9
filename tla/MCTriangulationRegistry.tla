------------------------ MODULE MCTriangulationRegistry ------------------------
(* A few data sets for TriangulationRegistry.                              *)
EXTENDS TriangulationRegistry, TLC

Symmetry == Permutations(DataSet) \cup Permutations(Cells)
                \cup Permutations(Points) \cup Permutations(Grid)
===============================================================================
