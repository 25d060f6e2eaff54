SPECIFICATION Spec
CONSTANTS
    Drivers = {"a", "b"}
    Trainers = {}
    Casts = {{"a", "b"}}
    NumLayers = 1
    MaxKills = 0
    MaxSignals = 0
INVARIANT ReclaimSafe
CHECK_DEADLOCK FALSE
