SPECIFICATION MCSpec
CONSTANTS
  Consumers = {r1, r2}
  Readers = {r1}
  Capacity = 4
  Streams <- Sound
  PayloadBits <- Bits
  MaxCursor = 8
CHECK_DEADLOCK FALSE
INVARIANTS MembersReadTheLog CopiesAreWhole
PROPERTIES PollReturns ReserveReturns
