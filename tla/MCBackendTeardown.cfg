SPECIFICATION Spec
CONSTANTS
  Threads = {t1, t2}
  Ids = {1, 2}
  D3DDevice = "d3d"
  VkDevice = "vk"
  Policies <- MCPolicies
  Facts <- MCFacts
  Grace = 1
  MaxReloads = 1
  MaxCalls = 3
SYMMETRY MCSymmetry
CHECK_DEADLOCK FALSE
INVARIANT NoCallAfterDelete
