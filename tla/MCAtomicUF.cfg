SPECIFICATION Spec
CONSTANTS
    u1 = u1
    u2 = u2
    u3 = u3
    u4 = u4
    t1 = t1
    t2 = t2
    Null = Null
    UF = {u1, u2, u3, u4}
    Task = {t1, t2}
    Reload = FALSE
SYMMETRY Symmetry
INVARIANTS
    TypeOK
    Forest
    FindIsCurrent
    LinksRoots
    DataConserved
    RecursionDepth
PROPERTIES
    ImplementsUnionFind
