SPECIFICATION Spec
CONSTANTS
    Frontends = {"Reflex", "AntiLag2"}
    AutoInput = "Auto"
    Priority <- PriorityOrder
    InputMode = "Auto"
    AllowFallback = TRUE
    MinimumQuality = 30
    StaleWindow = 2
    Threads = {t1, t2}
    Markers = {"SimulationStart"}
    SleepModes = {"on", "off"}
    Policies <- PolicySet
    AspectMinimumQuality = 30
    Word = 1000
    MaxFrame = 1
    MaxCalls = 4
    MaxDeinits = 1
CONSTRAINT UntilTorn
SYMMETRY ThreadSymmetry
 
PROPERTY FrozenOwner
CHECK_DEADLOCK FALSE
