SPECIFICATION Spec
CONSTANTS
    TP = 2
    NumExperts = 3
    HostSlots = 2
    Counts = {1, 3}
    MaxEpoch = 2
    MaxExitEpoch = 1
    FaultSets = {{"timeout", "crash", "writer", "copy", "misuse", "init", "hang"}}
INVARIANTS
    TypeOK
    CopyIntact
    Delivered
    GroupDelivered
    Lockstep
CHECK_DEADLOCK FALSE
