SPECIFICATION Spec
CONSTANTS
  Threads = {t1, t2}
  Devices = {d1}
  Queues = {q1}
  Swapchains = {s1}
  None = None
  DeviceSlots = 1
  QueueSlots = 1
  SwapchainSlots = 1
  Platforms <- MCPlatforms
  Policies <- MCPolicies
  MaxCalls = 4
  MaxObjects = 2
SYMMETRY MCSymmetry
INVARIANTS DispatchIsOwners SignalsLive SemaphoreOwned NoOrphanQueue  
CHECK_DEADLOCK FALSE
