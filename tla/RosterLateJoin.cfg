SPECIFICATION Spec
CONSTANTS
  Readers = {r1}
  NumSlots = 1
  Capacity = 2
  FrameSizes = {1}
  Registration = "any"
  Expiry = FALSE
  MaxCursor = 5
  MaxGen = 1
CHECK_DEADLOCK FALSE
INVARIANT ZeroDataLoss
