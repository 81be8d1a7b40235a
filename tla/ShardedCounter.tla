---------------------------- MODULE ShardedCounter ----------------------------
(***************************************************************************)
(* ShardedCounter (common/mesi_coherency/mesi_coherency.h): workers add to *)
(* their shard, while one thread sums the shards, or clears them, one load *)
(* or store at a time.                                                     *)
(***************************************************************************)
EXTENDS Integers

CONSTANTS
  Workers,          \* worker_id: 0, 1, ...
  NumShards,
  MaxIncrements     \* bound: increments between two calls of Reset

Shards == 0 .. NumShards - 1
Shard(worker_id) == worker_id % NumShards

VARIABLES
  shards_,
  call, i, sum,     \* the scraping thread, in ReadTotal or in Reset
  newest, oldest,   \* history: increments since the last Reset began, and ended
  floor             \*   and what oldest was when the present call began

vars == <<shards_, call, i, sum, newest, oldest, floor>>

Init ==
  /\ shards_ = [s \in Shards |-> 0]
  /\ call = "none" /\ i = 0 /\ sum = 0
  /\ newest = 0 /\ oldest = 0 /\ floor = 0

Increment(worker_id) ==
  /\ newest < MaxIncrements
  /\ shards_' = [shards_ EXCEPT ![Shard(worker_id)] = @ + 1]
  /\ newest' = newest + 1 /\ oldest' = oldest + 1
  /\ UNCHANGED <<call, i, sum, floor>>

ReadTotal ==
  /\ call = "none"
  /\ call' = "ReadTotal" /\ i' = 0 /\ sum' = 0
  /\ floor' = oldest
  /\ UNCHANGED <<shards_, newest, oldest>>

\* Mutant: the first shard is left out.
LoadShardSkips ==
  /\ call = "ReadTotal" /\ i < NumShards
  /\ sum' = IF i = 0 THEN 0 ELSE sum + shards_[i]
  /\ i' = i + 1
  /\ UNCHANGED <<shards_, call, newest, oldest, floor>>

LoadShard ==
  /\ call = "ReadTotal" /\ i < NumShards
  /\ sum' = sum + shards_[i]
  /\ i' = i + 1
  /\ UNCHANGED <<shards_, call, newest, oldest, floor>>

Reset ==
  /\ call = "none"
  /\ call' = "Reset" /\ i' = 0
  /\ newest' = 0
  /\ UNCHANGED <<shards_, sum, oldest, floor>>

ClearShard ==
  /\ call = "Reset" /\ i < NumShards
  /\ shards_' = [shards_ EXCEPT ![i] = 0]
  /\ i' = i + 1
  /\ UNCHANGED <<call, sum, newest, oldest, floor>>

Return ==
  /\ call # "none" /\ i = NumShards
  /\ call' = "none" /\ i' = 0 /\ sum' = 0
  /\ oldest' = IF call = "Reset" THEN 0 ELSE oldest
  /\ floor' = 0
  /\ UNCHANGED <<shards_, newest>>

Next ==
  \/ \E worker_id \in Workers : Increment(worker_id)
  \/ ReadTotal \/ LoadShard \/ Reset \/ ClearShard \/ Return

Spec == Init /\ [][Next]_vars

-----------------------------------------------------------------------------
(* A total read while workers count is one the counter went through: at    *)
(* least what was counted when the call began, since the last Reset had    *)
(* ended, and at most what has been counted now, since it had begun.       *)
TotalBetween ==
  call = "ReadTotal" /\ i = NumShards => floor <= sum /\ sum <= newest

HasShards == NumShards \in Nat \ {0} /\ Workers \subseteq Nat

(* The inductive invariant: upTo[s] is what the shards before s hold       *)
(* together.  What a call has read or cleared it has of those before i.    *)
Between(upTo) ==
  /\ upTo[0] = 0
  /\ \A s \in Shards : upTo[s + 1] = upTo[s] + shards_[s]
  /\ \A s, t \in 0 .. NumShards : s <= t => upTo[s] <= upTo[t]
  /\ call # "Reset" => oldest <= upTo[NumShards] /\ upTo[NumShards] <= newest
  /\ call = "Reset" => upTo[i] <= newest
  /\ call = "ReadTotal" => floor <= sum + upTo[NumShards] - upTo[i] /\ sum <= upTo[i]

CounterInv ==
  /\ shards_ \in [Shards -> Nat]
  /\ call \in {"none", "ReadTotal", "Reset"} /\ i \in 0 .. NumShards
  /\ sum \in Nat /\ newest \in Nat /\ oldest \in Nat /\ floor \in Nat
  /\ \E upTo \in [0 .. NumShards -> Nat] : Between(upTo)
===============================================================================
