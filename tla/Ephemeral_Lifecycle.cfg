SPECIFICATION Spec
CONSTANTS
    Drivers = {"a", "b"}
    Trainers = {"t", "u"}
    Casts = {{"a", "b"}, {"a", "t", "u"}}
    NumLayers = 2
    MaxKills = 1
    MaxSignals = 2
INVARIANTS
    PublishedComplete
    LoadUndisturbed
    NothingLeft
CHECK_DEADLOCK FALSE
