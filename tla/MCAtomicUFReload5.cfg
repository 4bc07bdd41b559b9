SPECIFICATION Spec
CONSTANTS
    u1 = u1
    u2 = u2
    u3 = u3
    u4 = u4
    u5 = u5
    t1 = t1
    t2 = t2
    Null = Null
    UF = {u1, u2, u3, u4, u5}
    Task = {t1, t2}
    Reload = TRUE
SYMMETRY Symmetry
INVARIANTS
    DataConserved
