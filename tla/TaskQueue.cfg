SPECIFICATION LiveSpec
CONSTANTS
    Enqueuers = {"a", "b"}
    Syncers = {"b"}
    Allowed = {0, 1}
    MaxTasks = 3
INVARIANTS
    NodeLifetimes
    FirstFailure
PROPERTIES
    SyncDrains
    RunsInOrder
    TasksRunApart
    SyncReturns
CHECK_DEADLOCK FALSE
