SPECIFICATION FairSpec
CONSTANTS
    Requests <- PerturbedMaxima
    NoThreshold <- NT
INVARIANTS
    ScalarsFollowOrder
