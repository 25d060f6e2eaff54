SPECIFICATION FairSpec
CONSTANTS
    NumRanks = 3
    NumLayers = 3
    MaxBatches = 3
    MaxFailures = 2
INVARIANTS
    NobodyStranded
    ResultMatches
    BackwardMatches
    BackwardFresh
    WindowClean
    GradsExact
    PoolExclusive
PROPERTIES
    StepEnds
CHECK_DEADLOCK FALSE
