SPECIFICATION FairSpec
CONSTANTS
  Readers = {r1}
  Capacity = 4
  Streams <- Recovery
  PayloadBits <- Bits
  MaxCursor = 4
CHECK_DEADLOCK FALSE
PROPERTY RecoveredPollsReturn
