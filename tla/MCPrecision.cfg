SPECIFICATION FairSpec
CONSTANTS
    Producers = {x1, x2}
    Pollers = {y1}
    Slots = 2
    ProbeBudget = 1
    MaxPolls = 2
    MaxPresents = 3
    Publishing = Publishing
INVARIANTS RetiredExactlyOnce
PROPERTY EveryPresentRetired
CHECK_DEADLOCK FALSE
