SPECIFICATION FairSpec
CONSTANTS
    NumaCount = 3
    MaxJobs = 2
INVARIANTS
    StatusAllocated
PROPERTIES
    JobsComplete
    CallsEnd
CHECK_DEADLOCK FALSE
