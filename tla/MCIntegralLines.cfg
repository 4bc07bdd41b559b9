SPECIFICATION FairSpec
CONSTANTS
    MPIsize = 3
    Requests <- PassingRequests
INVARIANTS
    TypeOK
    CounterExact
    StopsTogether
    SizesMatch
    TracesAll
    IdsAgree
PROPERTIES
    Finishes
