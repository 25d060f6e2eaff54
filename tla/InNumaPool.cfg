SPECIFICATION FairSpec
CONSTANTS
    Total = 3
    TaskNums = {0, 2, 4}
    Restricted = {2, 3}
    MaxJobs = 2
INVARIANTS
    TasksDistinct
    Quiescent
PROPERTIES
    JobsComplete
    CallsEnd
CHECK_DEADLOCK FALSE
