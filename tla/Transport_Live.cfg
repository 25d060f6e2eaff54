SPECIFICATION FairSpec
CONSTANTS
    TP = 2
    NumExperts = 2
    HostSlots = 1
    Counts = {2}
    MaxEpoch = 2
    MaxExitEpoch = 1
    FaultSets = {{}, {"timeout", "crash", "hang"}, {"timeout", "init"}, {"close", "hang"}}
INVARIANTS
    NeverPoisoned
PROPERTIES
    AllLayersDelivered
    CallsEnd
    CloseEnds
CHECK_DEADLOCK FALSE
