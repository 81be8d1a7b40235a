SPECIFICATION MCSpec
CONSTANTS
  Threads = {t1, t2, t3}
  MaxSpin = 1
  MaxLocks = 2
  Items = {i1, i2}
  NoItem = NoItem
  Capacity = 2
  Modulus = 8
  Readers = {r1, r2}
  Fields = {f1, f2}
  MaxWrites = 2
  Writers = {w1}
  Cached = {r1}
CHECK_DEADLOCK FALSE
INVARIANTS MutualExclusion NoLostWakeup SlotsApart SeqLockInv CacheReadsFresh
PROPERTIES LockReturns ImplementsQueue ImplementsSnapshot ReadReturns CacheReadReturns
