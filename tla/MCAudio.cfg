SPECIFICATION Spec
CONSTANTS
  Addresses = {a1, a2}
  Pollers = {p1, p2}
  ClientSlots = 1
  MaxLive = 1
  Interval = 2
  Requests <- MCRequests
  TargetUs = 3000
  MaxReduction = 45
  Policies = {"auto", "enabled"}
  MaxStreams = 2
  MaxTime = 3
  MaxDiscoveries = 2
SYMMETRY MCSymmetry
CHECK_DEADLOCK FALSE
INVARIANTS
  
  
  ProbesSpaced
  LoggedOnceFlagsKept
  PeriodNegotiable
