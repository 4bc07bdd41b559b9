SPECIFICATION FairSpec
CONSTANTS
    MPIsize = 2
    Requests <- TwoWays
INVARIANTS
    IdsAgree
