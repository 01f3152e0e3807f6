SPECIFICATION Spec
CONSTANTS
  Handles = {h1}
  Slots = 1
  Frames = 3
  MaxSessions = 2
  MaxWaits = 3
  MaxRender = 3
  MaxResets = 1
  MaxReloads = 1
CHECK_DEADLOCK FALSE
INVARIANTS
  BeginPairsWait
  
  ConvertedByOwner
