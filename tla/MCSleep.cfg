SPECIFICATION FairSpec
CONSTANTS
    Callers = {c1, c2}
    Capacity = 2
    MaxCalls = 3
    StoreBuffers = {TRUE, FALSE}
    WaitMayFail = {TRUE, FALSE}
    NoJob = NoJob
INVARIANTS SignalledOnce
PROPERTIES SleepSignalledInOrder 
CHECK_DEADLOCK FALSE
