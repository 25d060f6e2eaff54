SPECIFICATION FairSpec
CONSTANTS
    Modes = {"host", "npu", "cuda", "graph", "pinned"}
    NumLayers = 3
    Defers = {0, 1}
    MaxFailures = 1
    MaxPasses = 3
INVARIANTS
    ResultCorrect
    NoBufferRace
    FailureSurfaces
PROPERTIES
    PipelineDrains
CHECK_DEADLOCK FALSE
