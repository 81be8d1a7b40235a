SPECIFICATION MCSpec
CONSTANTS
  Threads = {t1, t2, t3}
  BatchSize = 2
  Iterations = 3
  Readers = {r1}
  Keys = {1, 3}
  Values = {v1, v2}
  Nodes = {n1, n2, n3, n4}
  Null = Null
  Absent = Absent
  None = None
  InitialBuckets = 2
  Doublings = 1
  Hashes <- MCHashes
  Workers = {0, 1, 2}
  CounterShards = 2
  MaxIncrements = 4
  Upserters = {"u1", "u2"}
  Words = {"k1", "k2", "k3"}
  MapShards = 2
  ShardOf <- MCShardOf
  BucketOf <- MCBucketOf
  MaxUpserts = 4
  Nobody = "nobody"
  kRingSize = 2
  kMessageCount = 5
  Width = 5
  MaxLength = 17
  MaxElements = 5
SYMMETRY Symmetry
CHECK_DEADLOCK FALSE
INVARIANTS IdsUnique ReadersSafe MapInv TotalBetween UpsertsCounted NeverBothZero MessagesWhole SumsAgree SingleCycle
PROPERTIES ImplementsMap WaitFree
