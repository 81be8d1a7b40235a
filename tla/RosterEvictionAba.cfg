SPECIFICATION Spec
CONSTANTS
  Readers = {r1, r2}
  NumSlots = 1
  Capacity = 2
  FrameSizes = {1}
  Registration = "quiescent"
  Expiry = TRUE
  MaxCursor = 4
  MaxGen = 2
CHECK_DEADLOCK FALSE
PROPERTY StoresOwnSlot
