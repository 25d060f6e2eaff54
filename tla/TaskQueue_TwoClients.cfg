SPECIFICATION LiveSpec
CONSTANTS
    Enqueuers = {"a"}
    Syncers = {"b"}
    Allowed = {0}
    MaxTasks = 2
PROPERTIES
    TasksRun
CHECK_DEADLOCK FALSE
