SPECIFICATION Spec
CONSTANTS
    Threads = {t1, t2}
    Swapchains = {s1, s2}
    NoSwapchain = NoSwapchain
    Images = {0}
    Lanes = {1, 2}
    StallSlots = {1}
    FeedbackSize = 2
    QueueTarget = 0
    Transports = {"native", "vkd3d"}
    Overrides = {"enable"}
    MaxFrames = 2
    MaxEpoch = 3
    MaxCalls = 6
SYMMETRY Symmetry
INVARIANTS
    PresentOwnsItsFrame
    OneCorePacer
    LaneOwned
    
PROPERTY EndMonotonic
CHECK_DEADLOCK FALSE
