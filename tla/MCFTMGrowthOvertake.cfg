SPECIFICATION Spec
CONSTANTS
    N = 6
    Overtake = TRUE
    Meshes <- AllMeshes
INVARIANTS
    TreeCheck
