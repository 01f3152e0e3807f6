SPECIFICATION FairSpec
CONSTANTS
    Callers = {c1}
    Capacity = 2
    MaxCalls = 1
    StoreBuffers = {TRUE}
    WaitMayFail = {FALSE}
    NoJob = NoJob
PROPERTY EverySleepSignalled
CHECK_DEADLOCK FALSE
