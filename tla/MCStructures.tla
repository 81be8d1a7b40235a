----------------------------- MODULE MCStructures -----------------------------
(* The hash maps, the counters, the experiments with store buffers and the *)
(* benchmarks' loops for TLC.  A behaviour exercises one of them, so their *)
(* state spaces add up instead of multiplying.                             *)
EXTENDS BatchedIdGenerator, Sequences, TLC

CONSTANTS
  Readers, Keys, Values, Nodes, Null, Absent, None,     \* RcuHashMap
  InitialBuckets, Doublings, Hashes,
  Workers, CounterShards, MaxIncrements,               \* ShardedCounter
  Upserters, Words, MapShards, ShardOf, BucketOf, MaxUpserts, Nobody,     \* ShardedHashMap
  kRingSize, kMessageCount,                            \* Handoff
  Width, MaxLength, MaxElements                        \* Kernels

VARIABLES
  part,
  hash_fn_, table_, visible, buckets, key, value, next, count_, allocated, pinned, retired, wpc, wkey, wvalue, unlinked,
  rpc, rkey, rtable, current, result, held,
  shards_, call, i, sum, newest, oldest, floor,
  mtx, counts, updates, upc, ukey, loaded, visited, total, begun, returned, since,
  memory, buffer, UseSeqCst, lpc, r, UseAcquireRelease, ppc, pi, cpc, ci, payload,
  data, indices

RM == INSTANCE RcuHashMap
ASSUME MapConstants == RM!TablesHaveBuckets /\ RM!ConstantsApart
SC == INSTANCE ShardedCounter WITH NumShards <- CounterShards
SM == INSTANCE ShardedHashMap WITH
  Threads <- Upserters, Keys <- Words, NumShards <- MapShards, floor <- since
Cells == {<<"x">>, <<"y">>, <<"write_idx">>, <<"read_idx">>} \cup ({"a", "b"} \X (0 .. kRingSize - 1))
LT == INSTANCE StoreLoadLitmus WITH Cores <- {0, 1}, pc <- lpc
HO == INSTANCE Handoff WITH Cores <- {0, 1}
KE == INSTANCE Kernels
ASSUME StructureConstants ==
  SC!HasShards /\ SM!KeysHaveShards /\ HO!RingHasSlots /\ KE!KernelBounds

ids == vars
rcu == <<hash_fn_, table_, visible, buckets, key, value, next, count_, allocated, pinned, retired, wpc, wkey, wvalue,
         unlinked, rpc, rkey, rtable, current, result, held>>
counter == <<shards_, call, i, sum, newest, oldest, floor>>
sharded == <<mtx, counts, updates, upc, ukey, loaded, visited, total, begun, returned, since>>
litmus == <<UseSeqCst, lpc, r>>
handoff == <<UseAcquireRelease, ppc, pi, cpc, ci, payload>>
hardware == <<memory, buffer>>
kernels == <<data, indices>>

all == <<part, ids, rcu, counter, sharded, hardware, litmus, handoff, kernels>>

Parts == {"ids", "rcu", "counter", "sharded", "litmus", "handoff", "kernels"}

MCInit ==
  /\ part \in Parts
  /\ Init /\ RM!Init /\ SC!Init /\ SM!Init /\ LT!Init /\ HO!Init
  /\ IF part = "kernels" THEN KE!Init ELSE data = <<>> /\ indices = <<0, 1>>
  /\ part # "rcu" => hash_fn_ = CHOOSE hash \in Hashes : TRUE
  /\ part # "litmus" => UseSeqCst
  /\ part # "handoff" => UseAcquireRelease

MCNext ==
  /\ UNCHANGED <<part, kernels>>
  /\ \/ part = "ids" /\ Next /\ UNCHANGED <<rcu, counter, sharded, hardware, litmus, handoff>>
     \/ part = "rcu" /\ RM!Next /\ UNCHANGED <<ids, counter, sharded, hardware, litmus, handoff>>
     \/ part = "counter" /\ SC!Next /\ UNCHANGED <<ids, rcu, sharded, hardware, litmus, handoff>>
     \/ part = "sharded" /\ SM!Next /\ UNCHANGED <<ids, rcu, counter, hardware, litmus, handoff>>
     \/ part = "litmus" /\ LT!Next /\ UNCHANGED <<ids, rcu, counter, sharded, handoff>>
     \/ part = "handoff" /\ HO!Next /\ UNCHANGED <<ids, rcu, counter, sharded, litmus>>

MCSpec == MCInit /\ [][MCNext]_all

(* Both keys in one bucket of every table, or apart in the large one.      *)
MCHashes == {[k \in Keys |-> 1], [k \in Keys |-> k]}

(* Two words in one shard, in buckets of their own, and one elsewhere.     *)
MCShardOf == [k \in Words |-> IF k = "k3" THEN 1 ELSE 0]
MCBucketOf == [k \in Words |-> IF k = "k2" THEN 1 ELSE 0]

(* What is only compared for equality is interchangeable.                  *)
Symmetry == Permutations(Values) \cup Permutations(Nodes)

(* Properties of the parts under names of their own.                       *)
ReadersSafe == part = "rcu" => RM!ReadersSafe
MapInv == part = "rcu" => RM!MapInv
ImplementsMap == RM!ImplementsMap
WaitFree == RM!WaitFree
TotalBetween == SC!TotalBetween
UpsertsCounted == SM!UpsertsCounted
NeverBothZero == LT!NeverBothZero
MessagesWhole == HO!MessagesWhole
SumsAgree == part = "kernels" => KE!SumsAgree
SingleCycle == part = "kernels" => KE!SingleCycle
===============================================================================
