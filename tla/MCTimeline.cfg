SPECIFICATION Spec
CONSTANTS
  Threads = {t1, t2}
  Sources = {"reflex", "xell"}
  Pacing = "reflex"
  Markers = {"sim"}
  Owner <- MCOwner
  Slots = 3
  PSlots = 2
  Lagging = FALSE
  OutOfOrder = FALSE
  MaxId = 4
  MaxResets = 1
  MaxPresents = 2
SYMMETRY MCSymmetry
CHECK_DEADLOCK FALSE
INVARIANTS
  OneTokenPerFrame
  MarkerOnce
  
  GenerationsContiguous
