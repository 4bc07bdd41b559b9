SPECIFICATION FairSpec
CONSTANTS
    N = 6
    Overtake = FALSE
    Meshes <- AllMeshes
INVARIANTS
    TypeOK
    GrowsSublevelSet
    LastVisitorSeesAll
    MergesAlone
    MergedQueueNotEmpty
    BackboneAlone
    SegmentsFilled
    ComputesJoinTree
PROPERTIES
    Finishes
    ImplementsLastVisitor
