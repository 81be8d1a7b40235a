SPECIFICATION Spec
CONSTANTS
  Threads = {t1, t2}
  Tcbs = {b1, b2}
  Nodes = {n1, n2, n3}
  Threshold = 1
  MaxEpoch = 3
  MaxDepth = 2
  Delayed = {}
  Resizing = TRUE
  NoTcb = NoTcb
  NoNode = NoNode
SYMMETRY Symmetry
CHECK_DEADLOCK FALSE
INVARIANT MemorySafe
