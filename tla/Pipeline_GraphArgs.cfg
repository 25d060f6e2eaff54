SPECIFICATION Spec
CONSTANTS
    Modes = {"graph"}
    NumLayers = 3
    Defers = {0, 1}
    MaxFailures = 0
    MaxPasses = 3
INVARIANTS
    CallbackArgsLive
CHECK_DEADLOCK FALSE
