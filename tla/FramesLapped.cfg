SPECIFICATION Spec
CONSTANTS
  Readers = {r1}
  Capacity = 4
  Streams <- Mixed
  PayloadBits <- Bits
  MaxCursor = 8
CHECK_DEADLOCK FALSE
INVARIANT DataIntegrity
