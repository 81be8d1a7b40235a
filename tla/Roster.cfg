SPECIFICATION MCSpec
CONSTANTS
  Readers = {r1, r2}
  NumSlots = 2
  Capacity = 2
  FrameSizes = {1, 2}
  Registration = "quiescent"
  Expiry = FALSE
  MaxCursor = 4
  MaxGen = 2
  Processes = {p1, p2, p3}
  Segments = {s1, s2, s3, s4}
  None = None
CHECK_DEADLOCK FALSE
SYMMETRY Symmetry
INVARIANTS TypeOK NoOverrun SlotsExclusive CursorsOrdered AttachedToOneRing OnlyOwnNames AllOrNothing
PROPERTY ImplementsLog
