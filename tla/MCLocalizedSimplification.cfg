SPECIFICATION FairSpec
CONSTANTS
    Requests <- PassingRequests
    NoThreshold <- NT
INVARIANTS
    TypeOK
    GrowsSuperlevelSet
    MergesAlone
    FailsWithoutMaximum
    AuthorizedRemain
    ScalarsFollowOrder
    ErrorBounded
PROPERTIES
    PassSimplifies
    ImplementsLastVisitor
    Finishes
