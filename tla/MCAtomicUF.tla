----------------------------- MODULE MCAtomicUF -----------------------------
(***************************************************************************)
(* Instances of AtomicUF for TLC.                                          *)
(***************************************************************************)
EXTENDS AtomicUF, TLC

Symmetry == Permutations(UF) \cup Permutations(Task)

(* For liveness, where symmetry is not sound, the elements are numbers.    *)
(* Links make a forest, so they can be numbered such that every winner is  *)
(* less than its loser: the unions of two sets that keep to such a         *)
(* numbering are, up to names, all there are.                              *)
InOrder(x, y) ==
    LET a == comp[x]
        b == comp[y]
    IN  IF rank[a] < rank[b] THEN b < a ELSE a < b

NumberedNext ==
    \E t \in Task : \/ \E x \in UF : CallFind(t, x)
                    \/ \E x, y \in UF : (InOrder(x, y) /\ CallUnion(t, x, y))
                    \/ Step(t)

NumberedSpec ==
    Init /\ [][NumberedNext]_vars /\ \A t \in Task : WF_vars(Step(t))
===============================================================================
