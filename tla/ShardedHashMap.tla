---------------------------- MODULE ShardedHashMap ----------------------------
(***************************************************************************)
(* ShardedHashMap (common/locks_under_the_hood/locks_under_the_hood.h):    *)
(* plain counters in shards, each under a mutex of its own, while one      *)
(* thread sums the shards, taking and leaving one mutex after the other.   *)
(* std::mutex excludes; a counter is loaded and stored in separate steps.  *)
(***************************************************************************)
EXTENDS Integers, Functions

CONSTANTS
  Threads,                \* threads that call Upsert, with delta 1
  Keys,
  NumShards,
  ShardOf, BucketOf,      \* MixHash: where a key goes
  MaxUpserts,             \* bound: calls of Upsert
  Nobody

Shards == 0 .. NumShards - 1
Buckets == {BucketOf[k] : k \in Keys}

VARIABLES
  mtx, counts, updates,   \* the shards; counts is their buckets
  upc,                    \* an Upsert: "idle", "bucket", "updates" or "unlock",
  ukey, loaded,           \*   its key, and the counter it has loaded, if any
  visited, total,         \* TotalUpdates: the shards it is through with, or -1
  begun, returned, floor  \* history: calls of Upsert, and those before TotalUpdates

upsert == <<counts, updates, upc, ukey, loaded, begun, returned>>
scrape == <<visited, total, floor>>

Unset == -1

(* MixHash picks one of the shards and one of the 16 buckets it has.       *)
KeysHaveShards ==
  /\ NumShards \in Nat \ {0}
  /\ Keys # {} /\ ShardOf \in [Keys -> Shards] /\ BucketOf \in [Keys -> 0 .. 15]
  /\ Nobody \notin Threads

Init ==
  /\ mtx = [s \in Shards |-> Nobody]
  /\ counts = [s \in Shards |-> [b \in Buckets |-> 0]]
  /\ updates = [s \in Shards |-> 0]
  /\ upc = [t \in Threads |-> "idle"]
  /\ ukey = [t \in Threads |-> CHOOSE k \in Keys : TRUE]
  /\ loaded = [t \in Threads |-> Unset]
  /\ visited = Unset /\ total = 0
  /\ begun = 0 /\ returned = 0 /\ floor = 0

-----------------------------------------------------------------------------
Goto(t, l) == upc' = [upc EXCEPT ![t] = l]
Remember(t, n) == loaded' = [loaded EXCEPT ![t] = n]

\* Mutant: the mutex is not waited for.
UpsertUnlocked(t, k) ==
  /\ upc[t] = "idle" /\ begun < MaxUpserts
  /\ mtx' = [mtx EXCEPT ![ShardOf[k]] = t]
  /\ ukey' = [ukey EXCEPT ![t] = k]
  /\ begun' = begun + 1
  /\ Goto(t, "bucket")
  /\ UNCHANGED <<counts, updates, loaded, returned, scrape>>

Upsert(t, k) ==
  /\ upc[t] = "idle" /\ begun < MaxUpserts
  /\ mtx[ShardOf[k]] = Nobody
  /\ mtx' = [mtx EXCEPT ![ShardOf[k]] = t]
  /\ ukey' = [ukey EXCEPT ![t] = k]
  /\ begun' = begun + 1
  /\ Goto(t, "bucket")
  /\ UNCHANGED <<counts, updates, loaded, returned, scrape>>

(* shard.buckets[(h >> 8) & 15ULL] += delta.                               *)
AddToBucket(t) ==
  LET s == ShardOf[ukey[t]]
      b == BucketOf[ukey[t]]
  IN  /\ upc[t] = "bucket"
      /\ \/ loaded[t] = Unset /\ Remember(t, counts[s][b]) /\ UNCHANGED <<counts, upc>>
         \/ /\ loaded[t] # Unset
            /\ counts' = [counts EXCEPT ![s][b] = loaded[t] + 1]
            /\ Remember(t, Unset) /\ Goto(t, "updates")
      /\ UNCHANGED <<mtx, updates, ukey, begun, returned, scrape>>

(* ++shard.updates.                                                        *)
AddToUpdates(t) ==
  LET s == ShardOf[ukey[t]]
  IN  /\ upc[t] = "updates"
      /\ \/ loaded[t] = Unset /\ Remember(t, updates[s]) /\ UNCHANGED <<updates, upc>>
         \/ /\ loaded[t] # Unset
            /\ updates' = [updates EXCEPT ![s] = loaded[t] + 1]
            /\ Remember(t, Unset) /\ Goto(t, "unlock")
      /\ UNCHANGED <<mtx, counts, ukey, begun, returned, scrape>>

Unlock(t) ==
  /\ upc[t] = "unlock"
  /\ mtx' = [mtx EXCEPT ![ShardOf[ukey[t]]] = Nobody]
  /\ returned' = returned + 1
  /\ Goto(t, "idle")
  /\ UNCHANGED <<counts, updates, ukey, loaded, begun, scrape>>

-----------------------------------------------------------------------------
TotalUpdates ==
  /\ visited = Unset
  /\ visited' = 0 /\ total' = 0 /\ floor' = returned
  /\ UNCHANGED <<mtx, upsert>>

(* One shard under its mutex, which is free again before the next.         *)
AddShard ==
  /\ visited \in Shards /\ mtx[visited] = Nobody
  /\ total' = total + updates[visited]
  /\ visited' = visited + 1
  /\ UNCHANGED <<mtx, floor, upsert>>

Return ==
  /\ visited = NumShards
  /\ visited' = Unset /\ total' = 0 /\ floor' = 0
  /\ UNCHANGED <<mtx, upsert>>

Next ==
  \/ \E t \in Threads :
       \/ \E k \in Keys : Upsert(t, k)
       \/ AddToBucket(t) \/ AddToUpdates(t) \/ Unlock(t)
  \/ TotalUpdates \/ AddShard \/ Return

-----------------------------------------------------------------------------
(* No Upsert is lost: a shard nobody is in counts as many updates as its   *)
(* buckets hold together, and TotalUpdates, which has the mutex of one     *)
(* shard at a time and never of all, returns a number between the Upserts  *)
(* that had returned when it was called and those that have begun.         *)
UpsertsCounted ==
  /\ \A s \in Shards : mtx[s] = Nobody => updates[s] = SumFunction(counts[s])
  /\ visited = NumShards => floor <= total /\ total <= begun

-----------------------------------------------------------------------------
(* Why: whoever is in an Upsert has the mutex of its shard, so what it has *)
(* loaded is still there.  Calls are then counted shard by shard.          *)
TypeOK ==
  /\ mtx \in [Shards -> Threads \cup {Nobody}]
  /\ counts \in [Shards -> [Buckets -> Nat]] /\ updates \in [Shards -> Nat]
  /\ upc \in [Threads -> {"idle", "bucket", "updates", "unlock"}]
  /\ ukey \in [Threads -> Keys] /\ loaded \in [Threads -> Nat \cup {Unset}]
  /\ visited \in {Unset} \cup 0 .. NumShards /\ total \in Nat
  /\ begun \in Nat /\ returned \in Nat /\ floor \in Nat

MutexInv ==
  /\ \A t \in Threads : upc[t] # "idle" => mtx[ShardOf[ukey[t]]] = t
  /\ \A s \in Shards : mtx[s] # Nobody => upc[mtx[s]] # "idle" /\ ShardOf[ukey[mtx[s]]] = s
  /\ \A t \in Threads : loaded[t] # Unset =>
       \/ upc[t] = "bucket" /\ loaded[t] = counts[ShardOf[ukey[t]]][BucketOf[ukey[t]]]
       \/ upc[t] = "updates" /\ loaded[t] = updates[ShardOf[ukey[t]]]

InShard(s, labels) == IF mtx[s] # Nobody /\ upc[mtx[s]] \in labels THEN 1 ELSE 0

BucketsInv == \A s \in Shards : SumFunction(counts[s]) = updates[s] + InShard(s, {"updates"})

Begun == [s \in Shards |-> updates[s] + InShard(s, {"bucket", "updates"})]
Returned == [s \in Shards |-> updates[s] - InShard(s, {"unlock"})]

CallsInv == begun = SumFunction(Begun) /\ returned = SumFunction(Returned)

(* What the scrape has passed can only have grown, and what it has yet to  *)
(* come to still counts what had returned.                                 *)
Passed == [s \in Shards |-> IF s < visited THEN updates[s] ELSE 0]
Ahead == [s \in Shards |-> IF s < visited THEN 0 ELSE Returned[s]]

ScrapeInv == visited # Unset => total <= SumFunction(Passed) /\ floor <= total + SumFunction(Ahead)

ShardsInv == TypeOK /\ MutexInv /\ BucketsInv /\ CallsInv /\ ScrapeInv
===============================================================================
