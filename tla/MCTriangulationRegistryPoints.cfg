SPECIFICATION Spec
CONSTANTS
    d1 = d1
    d2 = d2
    d3 = d3
    c1 = c1
    c2 = c2
    p1 = p1
    p2 = p2
    g1 = g1
    g2 = g2
    tets = tets
    hexes = hexes
    Null = Null
    DataSet = {d1, d2, d3}
    Cells = {c1, c2}
    Points = {p1, p2}
    Grid = {g1, g2}
    Conn = {tets, hexes}
    Bad = {hexes}
    MaxTime = 3
    Outlived = FALSE
SYMMETRY Symmetry
INVARIANTS
    PointsCurrent
