------------------------------ MODULE RcuHashMap ------------------------------
(***************************************************************************)
(* RcuHashMap (common/concurrency/rcu_hash_map.h): wait-free readers walk  *)
(* the chains of a table inside a critical section, while writers, one at  *)
(* a time under write_mutex_, splice nodes in and out, copy the whole      *)
(* table to a larger one, and retire what they replace.                    *)
(*                                                                         *)
(* Reclamation is that of GracePeriods, which Ebr implements whatever the  *)
(* processor delays: a retired object is destroyed only after the readers  *)
(* have left whose pin was visible when Retire loaded the epoch.  A Get    *)
(* that is in its critical section without being seen to be there, or that *)
(* still loads the old table when that is retired, is not waited for: if   *)
(* it uses what is retired nothing is promised of it, and it ends here.    *)
(***************************************************************************)
EXTENDS Integers, FiniteSetsExt

CONSTANTS
  Readers,
  Keys,
  Hashes,          \* the functions from Keys to numbers that hash_fn_ may be
  Values,
  Nodes,           \* bound: the nodes that exist at one time
  InitialBuckets,
  Doublings,       \* bound: how often the table is doubled
  Null, Absent, None

Tables == 0 .. Doublings    \* a table is known by how often it was doubled
NoTable == -1
SizeOf(t) == InitialBuckets * 2 ^ t

VARIABLES
  hash_fn_,
  table_, buckets, key, value, next, count_,
  visible,         \* the table that readers load: the store of table_ may be delayed
  allocated,       \* the nodes that are not free
  pinned,          \* the readers whose pin is visible
  retired,         \* <<object, the readers it waits for>>
  wpc, wkey, wvalue, unlinked,     \* the writer and its call
  rpc, rkey, rtable, current, result, held    \* the readers and theirs

Bucket(k, t) == hash_fn_[k] % SizeOf(t)

nodes == <<key, value, next, allocated>>
writer == <<wpc, wkey, wvalue, unlinked>>
readers == <<rpc, rkey, rtable, current, result>>
periods == <<pinned, retired>>
vars == <<hash_fn_, table_, visible, buckets, nodes, count_, periods, writer, readers, held>>

G == INSTANCE GracePeriods WITH Threads <- Readers, Objects <- Nodes \cup Tables

Init ==
  /\ hash_fn_ \in Hashes
  /\ table_ = 0 /\ visible = 0
  /\ buckets = [t \in Tables |-> [i \in 0 .. SizeOf(t) - 1 |-> Null]]
  /\ key = [n \in Nodes |-> None] /\ value = [n \in Nodes |-> None]
  /\ next = [n \in Nodes |-> Null]
  /\ count_ = 0 /\ allocated = {} /\ G!Init
  /\ wpc = "idle" /\ wkey = None /\ wvalue = None /\ unlinked = Null
  /\ rpc = [r \in Readers |-> "idle"] /\ rkey = [r \in Readers |-> None]
  /\ rtable = [r \in Readers |-> NoTable] /\ current = [r \in Readers |-> Null]
  /\ result = [r \in Readers |-> None] /\ held = [r \in Readers |-> {}]

-----------------------------------------------------------------------------
(* What is reachable.  Only writers change it, so that one that holds the  *)
(* mutex sees a chain as a whole.                                          *)

Reach(first) ==
  LET reach[n \in Nodes \cup {Null}] == IF n = Null THEN {} ELSE {n} \cup reach[next[n]]
  IN reach[first]

NodesOf(t) == UNION {Reach(buckets[t][i]) : i \in DOMAIN buckets[t]}

Find(k, first) ==
  LET find[n \in Nodes \cup {Null}] == IF n = Null \/ key[n] = k THEN n ELSE find[next[n]]
  IN find[first]

NodeOf(k) == Find(k, buckets[table_][Bucket(k, table_)])

Holds(k) == IF table_ = NoTable THEN Absent ELSE LET n == NodeOf(k) IN IF n = Null THEN Absent ELSE value[n]

(* History: what a key that is being looked up has held since the call.    *)
Record == held' = [r \in Readers |->
  IF rpc[r] \in {"table", "bucket", "node"} THEN held[r] \cup {Holds(rkey[r])'} ELSE held[r]]

-----------------------------------------------------------------------------
(* Put and Remove, under the mutex.  A pointer that changes is one store.  *)

(* The nodes that lead to node n of k's bucket; the bucket does if none.   *)
Before(n, k) == {m \in Reach(buckets[table_][Bucket(k, table_)]) : next[m] = n}

Relink(n, to, links) ==
  LET k == key[n]
      before == Before(n, k) IN
  /\ buckets' = IF before # {} THEN buckets
                ELSE [buckets EXCEPT ![table_][Bucket(k, table_)] = to]
  /\ next' = [m \in Nodes |-> IF m \in before THEN to ELSE links[m]]

Allocate(n, k, v) ==
  /\ allocated' = allocated \cup {n}
  /\ key' = [key EXCEPT ![n] = k]
  /\ value' = [value EXCEPT ![n] = v]

Fresh == CHOOSE n \in Nodes \ allocated : TRUE

(* An EbrGuard is alive.                                                   *)
InCriticalSection == {r \in Readers : rpc[r] # "idle"}

(* The Gets that have lost their protection; of the others nothing changes. *)
Abandon(S) ==
  /\ rpc' = [r \in Readers |-> IF r \in S THEN "idle" ELSE rpc[r]]
  /\ rkey' = [r \in Readers |-> IF r \in S THEN None ELSE rkey[r]]
  /\ rtable' = [r \in Readers |-> IF r \in S THEN NoTable ELSE rtable[r]]
  /\ current' = [r \in Readers |-> IF r \in S THEN Null ELSE current[r]]
  /\ held' = [r \in Readers |-> IF r \in S THEN {} ELSE held[r]]
  /\ UNCHANGED result

(* The order in which Resize comes to the nodes of the table.              *)
Precedes(m, n) ==
  LET b == Bucket(key[m], table_)
      c == Bucket(key[n], table_)
  IN  b < c \/ (b = c /\ n \in Reach(next[m]))

(* olds[i] is copied to copy[i], which is put at the head of its new chain *)
(* and so leads on to the last copy that was put there before.             *)
Resize(k, v) ==
  /\ wpc = "idle" /\ table_ \in 0 .. Doublings - 1 /\ count_ >= SizeOf(table_)
  /\ LET to == table_ + 1
         Copied == 1 .. Cardinality(NodesOf(table_)) IN
     \E olds \in [Copied -> NodesOf(table_)], copy \in [Copied -> Nodes \ allocated] :
       LET In(i, b) == Bucket(key[olds[i]], to) = b
           Last(b, m) == LET S == {i \in 1 .. m : In(i, b)} IN IF S = {} THEN Null ELSE copy[Max(S)]
           Copies == {copy[i] : i \in Copied}
           At(n) == CHOOSE i \in Copied : copy[i] = n IN
       /\ \A i, j \in Copied : i < j => Precedes(olds[i], olds[j]) /\ copy[i] # copy[j]
       /\ allocated' = allocated \cup Copies
       /\ key' = [n \in Nodes |-> IF n \in Copies THEN key[olds[At(n)]] ELSE key[n]]
       /\ value' = [n \in Nodes |-> IF n \in Copies THEN value[olds[At(n)]] ELSE value[n]]
       /\ next' = [n \in Nodes |->
            IF n \in Copies THEN Last(Bucket(key[olds[At(n)]], to), At(n) - 1) ELSE next[n]]
       /\ buckets' = [buckets EXCEPT ![to] = [b \in 0 .. SizeOf(to) - 1 |-> Last(b, Cardinality(Copied))]]
       /\ table_' = to
  /\ wpc' = "retireTable" /\ wkey' = k /\ wvalue' = v
  /\ UNCHANGED <<visible, count_, periods, unlinked, readers>>
  /\ Record

(* The store of table_ leaves the store buffer, before or after Retire has *)
(* loaded the epoch, and before any later store of the writer.             *)
Publish ==
  /\ visible # table_
  /\ visible' = table_
  /\ UNCHANGED <<table_, buckets, nodes, count_, periods, writer, readers, held>>

\* Mutant: the old table is not retired.
RetireTableForgets ==
  /\ wpc = "retireTable"
  /\ wpc' = "splice"
  /\ UNCHANGED <<table_, visible, buckets, nodes, count_, periods, wkey, wvalue, unlinked, readers, held>>

UsesTable(r, t) == rtable[r] = t \/ current[r] \in NodesOf(t)

RetireTable ==
  /\ wpc = "retireTable"
  /\ G!Retire(table_ - 1)
  /\ Abandon({r \in Readers \ pinned : UsesTable(r, table_ - 1)})
  /\ wpc' = "splice"
  /\ UNCHANGED <<table_, visible, buckets, nodes, count_, wkey, wvalue, unlinked>>

Splices(k, v) ==
  \/ wpc = "idle" /\ table_ # NoTable /\ count_ < SizeOf(table_)
  \/ wpc = "splice" /\ visible = table_ /\ k = wkey /\ v = wvalue

\* Mutant: the new node does not lead on to the rest of the chain.
ReplaceCuts(k, v) ==
  /\ Splices(k, v) /\ NodeOf(k) # Null /\ allocated # Nodes
  /\ Allocate(Fresh, k, v)
  /\ Relink(NodeOf(k), Fresh, next)
  /\ unlinked' = NodeOf(k)
  /\ wpc' = "retire" /\ wkey' = None /\ wvalue' = None
  /\ UNCHANGED <<table_, visible, count_, periods, readers>>
  /\ Record

Replace(k, v) ==
  /\ Splices(k, v) /\ NodeOf(k) # Null /\ allocated # Nodes
  /\ LET old == NodeOf(k) IN
     /\ Allocate(Fresh, k, v)
     /\ Relink(old, Fresh, [next EXCEPT ![Fresh] = next[old]])
     /\ unlinked' = old
  /\ wpc' = "retire" /\ wkey' = None /\ wvalue' = None
  /\ UNCHANGED <<table_, visible, count_, periods, readers>>
  /\ Record

\* Mutant: the new node becomes the last of its chain.
InsertLast(k, v) ==
  /\ Splices(k, v) /\ NodeOf(k) = Null /\ allocated # Nodes
  /\ LET b == Bucket(k, table_)
         last == {n \in Reach(buckets[table_][b]) : next[n] = Null} IN
     /\ Allocate(Fresh, k, v)
     /\ next' = [n \in Nodes |-> IF n \in last THEN Fresh ELSE next[n]]
     /\ buckets' = IF last = {} THEN [buckets EXCEPT ![table_][b] = Fresh] ELSE buckets
  /\ wpc' = "count" /\ wkey' = None /\ wvalue' = None
  /\ UNCHANGED <<table_, visible, count_, periods, unlinked, readers>>
  /\ Record

Insert(k, v) ==
  /\ Splices(k, v) /\ NodeOf(k) = Null /\ allocated # Nodes
  /\ LET b == Bucket(k, table_) IN
     /\ Allocate(Fresh, k, v)
     /\ next' = [next EXCEPT ![Fresh] = buckets[table_][b]]
     /\ buckets' = [buckets EXCEPT ![table_][b] = Fresh]
  /\ wpc' = "count" /\ wkey' = None /\ wvalue' = None
  /\ UNCHANGED <<table_, visible, count_, periods, unlinked, readers>>
  /\ Record

Put(k, v) == Resize(k, v) \/ Replace(k, v) \/ Insert(k, v)

Count ==
  /\ wpc = "count"
  /\ count_' = count_ + 1
  /\ wpc' = "idle"
  /\ UNCHANGED <<table_, visible, buckets, nodes, periods, wkey, wvalue, unlinked, readers, held>>

Remove(k) ==
  /\ wpc = "idle" /\ table_ # NoTable /\ NodeOf(k) # Null
  /\ Relink(NodeOf(k), next[NodeOf(k)], next)
  /\ unlinked' = NodeOf(k)
  /\ wpc' = "uncount"
  /\ UNCHANGED <<table_, visible, key, value, allocated, count_, periods, wkey, wvalue, readers>>
  /\ Record

Uncount ==
  /\ wpc = "uncount"
  /\ count_' = count_ - 1
  /\ wpc' = "retire"
  /\ UNCHANGED <<table_, visible, buckets, nodes, periods, wkey, wvalue, unlinked, readers, held>>

\* Mutant: the node is deleted without waiting for anybody.
RetireNow ==
  /\ wpc = "retire"
  /\ retired' = retired \cup {<<unlinked, {}>>}
  /\ unlinked' = Null
  /\ wpc' = "idle"
  /\ UNCHANGED <<table_, visible, buckets, nodes, count_, pinned, wkey, wvalue, readers, held>>

Retire ==
  /\ wpc = "retire"
  /\ G!Retire(unlinked)
  /\ Abandon({r \in Readers \ pinned : current[r] = unlinked})
  /\ unlinked' = Null
  /\ wpc' = "idle"
  /\ UNCHANGED <<table_, visible, buckets, nodes, count_, wkey, wvalue>>

(* A table's destructor destroys the nodes of its chains.                  *)
Delete(objects) ==
  LET tables == objects \cap Tables
      dead == (objects \cap Nodes) \cup UNION {NodesOf(t) : t \in tables} IN
  /\ allocated' = allocated \ dead
  /\ key' = [n \in Nodes |-> IF n \in dead THEN None ELSE key[n]]
  /\ value' = [n \in Nodes |-> IF n \in dead THEN None ELSE value[n]]
  /\ next' = [n \in Nodes |-> IF n \in dead THEN Null ELSE next[n]]
  /\ buckets' = [t \in Tables |-> IF t \in tables THEN [i \in DOMAIN buckets[t] |-> Null] ELSE buckets[t]]

(* Gc, as early as GracePeriods lets it destroy each object: of the times  *)
(* at which Ebr may do so, this is the one that can do the most harm.      *)
Gc ==
  LET past == {x \in retired : x[2] = {}} IN
  /\ G!Reclaim(past)
  /\ Delete({x[1] : x \in past})
  /\ UNCHANGED <<table_, visible, count_, writer, readers, held>>

(* ~RcuHashMap, when nobody uses the map any more.                         *)
Destroy ==
  /\ table_ # NoTable /\ wpc = "idle" /\ InCriticalSection = {}
  /\ Delete({table_})
  /\ table_' = NoTable /\ visible' = NoTable /\ count_' = 0
  /\ UNCHANGED <<periods, writer, readers, held>>

-----------------------------------------------------------------------------
(* Get.  The sequence of a node is never odd, since no writer changes one  *)
(* in place: its value is read in one step.                                *)

Get(r, k) ==
  /\ rpc[r] = "idle" /\ table_ # NoTable
  /\ rkey' = [rkey EXCEPT ![r] = k]
  /\ rpc' = [rpc EXCEPT ![r] = "table"]
  /\ held' = [held EXCEPT ![r] = {Holds(k)}]
  /\ UNCHANGED <<table_, visible, buckets, nodes, count_, periods, writer, rtable, current, result>>

(* EnterCritical's store leaves the store buffer, at any time of the Get;  *)
(* when, matters to the next Retire only.                                  *)
Pin(r) ==
  /\ rpc[r] # "idle" /\ r \notin pinned /\ wpc \in {"retireTable", "retire"}
  /\ G!Enter(r)
  /\ UNCHANGED <<table_, visible, buckets, nodes, count_, writer, readers, held>>

(* The writer still has the table, or it has been retired and waits for r. *)
Stands(t) == t = table_ \/ (wpc = "retireTable" /\ t = table_ - 1)
TableFor(r, t) == Stands(t) \/ \E x \in retired : x[1] = t /\ r \in x[2]

LoadTable(r) ==
  /\ rpc[r] = "table" /\ TableFor(r, visible)
  /\ rtable' = [rtable EXCEPT ![r] = visible]
  /\ rpc' = [rpc EXCEPT ![r] = "bucket"]
  /\ UNCHANGED <<table_, visible, buckets, nodes, count_, periods, writer, rkey, current, result, held>>

LoadRetired(r) ==
  /\ rpc[r] = "table" /\ ~TableFor(r, visible)
  /\ G!Leave(r)
  /\ Abandon({r})
  /\ UNCHANGED <<table_, visible, buckets, nodes, count_, writer>>

LoadBucket(r) ==
  /\ rpc[r] = "bucket"
  /\ current' = [current EXCEPT ![r] = buckets[rtable[r]][Bucket(rkey[r], rtable[r])]]
  /\ rpc' = [rpc EXCEPT ![r] = "node"]
  /\ UNCHANGED <<table_, visible, buckets, nodes, count_, periods, writer, rkey, rtable, result, held>>

Finish(r, v) ==
  /\ result' = [result EXCEPT ![r] = v]
  /\ rkey' = [rkey EXCEPT ![r] = None] /\ held' = [held EXCEPT ![r] = {}]
  /\ rtable' = [rtable EXCEPT ![r] = NoTable] /\ current' = [current EXCEPT ![r] = Null]
  /\ rpc' = [rpc EXCEPT ![r] = "leave"]

Visit(r) ==
  /\ rpc[r] = "node"
  /\ IF current[r] # Null /\ key[current[r]] # rkey[r]
       THEN current' = [current EXCEPT ![r] = next[current[r]]] /\ UNCHANGED <<rpc, rkey, rtable, result, held>>
       ELSE Finish(r, IF current[r] = Null THEN Absent ELSE value[current[r]])
  /\ UNCHANGED <<table_, visible, buckets, nodes, count_, periods, writer>>

Leave(r) ==
  /\ rpc[r] = "leave"
  /\ G!Leave(r)
  /\ rpc' = [rpc EXCEPT ![r] = "idle"] /\ result' = [result EXCEPT ![r] = None]
  /\ UNCHANGED <<table_, visible, buckets, nodes, count_, writer, rkey, rtable, current, held>>

-----------------------------------------------------------------------------
ReaderStep(r) == Pin(r) \/ LoadTable(r) \/ LoadRetired(r) \/ LoadBucket(r) \/ Visit(r) \/ Leave(r)

Next ==
  /\ UNCHANGED hash_fn_
  /\ \/ \E k \in Keys : Remove(k) \/ \E v \in Values : Put(k, v)
     \/ Publish \/ RetireTable \/ Count \/ Uncount \/ Retire
     \/ Gc \/ Destroy
     \/ \E r \in Readers : ReaderStep(r) \/ \E k \in Keys : Get(r, k)

Spec == Init /\ [][Next]_vars

-----------------------------------------------------------------------------
(* A reader touches no node that has been given back, nor a table, as long *)
(* as it was seen in its section when what it uses was retired.            *)
Dead(t) == t \notin {table_} \cup {x[1] : x \in retired} /\ ~(wpc = "retireTable" /\ t = table_ - 1)

ReadersSafe == \A r \in Readers :
  /\ current[r] # Null => current[r] \in allocated
  /\ rtable[r] # NoTable => ~Dead(rtable[r])

(* Every node is in one place: in the table, retired, in a retired table,  *)
(* or with the writer that unlinked it.  Nothing leaks, nothing is freed   *)
(* twice, and no key is in the map twice.                                  *)
Places == [x \in {<<"table", t>> : t \in {u \in Tables : ~Dead(u)}}
                 \cup {<<"node", x[1]>> : x \in {y \in retired : y[1] \in Nodes}}
                 \cup {<<"writer", n>> : n \in {unlinked} \ {Null}} |->
            IF x[1] = "table" THEN NodesOf(x[2]) ELSE {x[2]}]

NodesAccounted ==
  /\ LET places == Places IN
     /\ allocated = UNION {places[p] : p \in DOMAIN places}
     /\ \A p, q \in DOMAIN places : p # q => places[p] \cap places[q] = {}
  /\ \A x, y \in retired : x[1] = y[1] => x = y
  /\ \A t \in Tables : ~Dead(t) =>
       \A m, n \in NodesOf(t) : key[m] = key[n] => m = n

(* Size() is the number of keys, give or take the call in progress.        *)
SizeExact ==
  LET present == Cardinality({k \in Keys : Holds(k) # Absent}) IN
  count_ = CASE wpc = "count" -> present - 1 [] wpc = "uncount" -> present + 1 [] OTHER -> present

MapInv == NodesAccounted /\ SizeExact

(* Put, Remove and Get are those of a map: Resize changes nothing, a Get   *)
(* finds what its key held during the call whatever happens to the chains. *)
Map == INSTANCE ConcurrentMap WITH map <- [k \in Keys |-> Holds(k)], key <- rkey
ImplementsMap == Map!Spec

(* "100% wait-free": what a reader has still to walk only ever shrinks, and *)
(* each step shortens it, whatever the writers do; so a Get takes at most  *)
(* one step per key.                                                       *)
KeysAhead(r) == {key[n] : n \in Reach(current[r])}

WalksShorten == \A r \in Readers : rpc[r] = "node" /\ rpc'[r] \notin {"leave", "idle"} =>
  /\ rpc'[r] = "node" /\ KeysAhead(r)' \subseteq KeysAhead(r)
  /\ current'[r] # current[r] => key[current[r]] \notin KeysAhead(r)'

WaitFree == [][WalksShorten]_vars

-----------------------------------------------------------------------------
(* The inductive invariant.                                                *)

TablesHaveBuckets ==
  /\ Doublings \in Nat
  /\ \A t \in Tables : SizeOf(t) \in Nat \ {0}
  /\ Hashes \subseteq [Keys -> Nat]

ConstantsApart ==
  /\ IsFiniteSet(Nodes) /\ IsFiniteSet(Keys)
  /\ Null \notin Nodes \cup Tables /\ Nodes \cap Tables = {}
  /\ None \notin Keys \cup Values /\ Absent \notin Values \cup {None}

TypeOK ==
  /\ hash_fn_ \in [Keys -> Nat]
  /\ table_ \in Tables \cup {NoTable}
  /\ DOMAIN buckets = Tables
  /\ \A t \in Tables : buckets[t] \in [0 .. SizeOf(t) - 1 -> Nodes \cup {Null}]
  /\ key \in [Nodes -> Keys \cup {None}] /\ value \in [Nodes -> Values \cup {None}]
  /\ next \in [Nodes -> Nodes \cup {Null}]
  /\ count_ \in Int /\ allocated \subseteq Nodes
  /\ visible \in Tables \cup {NoTable}
  /\ pinned \subseteq InCriticalSection
  /\ retired \subseteq (Nodes \cup Tables) \X SUBSET pinned
  /\ wpc \in {"idle", "retireTable", "splice", "count", "uncount", "retire"}
  /\ wkey \in Keys \cup {None} /\ wvalue \in Values \cup {None}
  /\ unlinked \in Nodes \cup {Null}
  /\ rpc \in [Readers -> {"idle", "table", "bucket", "node", "leave"}]
  /\ rkey \in [Readers -> Keys \cup {None}]
  /\ rtable \in [Readers -> Tables \cup {NoTable}]
  /\ current \in [Readers -> Nodes \cup {Null}]

(* A store of table_ that is delayed is the last one, of this call.        *)
VisibleInv ==
  \/ visible = table_
  \/ /\ wpc \in {"retireTable", "splice"}
     /\ table_ \in Tables \ {0} /\ visible = table_ - 1

(* The writer, and the tables it has replaced.                             *)
WriterInv ==
  /\ table_ = NoTable => wpc = "idle" /\ InCriticalSection = {}
  /\ wpc = "retireTable" => table_ # 0
  /\ (unlinked # Null) <=> (wpc \in {"uncount", "retire"})
  /\ unlinked # Null => next[unlinked] \in NodesOf(table_) \cup {Null}
  /\ \A x \in retired : x[1] \in Tables /\ table_ # NoTable => x[1] < table_ /\ ~Stands(x[1])
  /\ \A t \in Tables : Dead(t) => \A i \in DOMAIN buckets[t] : buckets[t][i] = Null

(* No chain is a cycle, and each is that of the keys of its bucket.        *)
ChainsInv ==
  /\ \E rank \in [Nodes -> Nat] : \A n \in Nodes : next[n] # Null => rank[next[n]] < rank[n]
  /\ \A t \in Tables : \A i \in DOMAIN buckets[t] : \A n \in Reach(buckets[t][i]) :
       key[n] \in Keys /\ value[n] \in Values /\ Bucket(key[n], t) = i
  /\ \A t \in Tables : \A m, n \in NodesOf(t) : key[m] = key[n] => m = n

(* Every node is in one place, and leads to others that are in one.        *)
RetiredNode(n) == \E x \in retired : x[1] = n

PlacesInv ==
  /\ \A x, y \in retired : x[1] = y[1] => x = y
  /\ \A s, t \in Tables : s # t => NodesOf(s) \cap NodesOf(t) = {}
  /\ \A n \in Nodes : RetiredNode(n) \/ n = unlinked => \A t \in Tables : n \notin NodesOf(t)
  /\ ~RetiredNode(unlinked)
  /\ \A n \in Nodes :
       n \in allocated <=> RetiredNode(n) \/ n = unlinked \/ \E t \in Tables : n \in NodesOf(t)
  /\ \A n \in Nodes : next[n] # Null => n \in allocated /\ (table_ # NoTable => next[n] \in allocated)

(* What a reader in a critical section may touch, and where that leads it. *)
NodeFor(r, n) ==
  \/ n = unlinked \/ \E x \in retired : x[1] = n /\ r \in x[2]
  \/ \E t \in Tables : TableFor(r, t) /\ n \in NodesOf(t)

ProtectedInv ==
  /\ \A r \in Readers :
       /\ rpc[r] \in {"idle", "table", "leave"} => rtable[r] = NoTable /\ current[r] = Null
       /\ rpc[r] \in {"bucket", "node"} => rtable[r] # NoTable
       /\ rpc[r] \in {"table", "bucket", "node"} => rkey[r] \in Keys
       /\ rtable[r] # NoTable => TableFor(r, rtable[r])
       /\ current[r] # Null => NodeFor(r, current[r])
  /\ \A x \in retired : x[1] \in Nodes /\ next[x[1]] # Null =>
       \A r \in x[2] : NodeFor(r, next[x[1]])

StructureInv == TypeOK /\ WriterInv /\ ChainsInv /\ PlacesInv /\ ProtectedInv

(* What a reader will find from where it stands is among what its key has  *)
(* held since the call began.                                              *)
Found(k, first) == IF Find(k, first) = Null THEN Absent ELSE value[Find(k, first)]

HeldInv ==
  /\ table_ # NoTable /\ ~Dead(visible) =>
       \A k \in Keys : Found(k, buckets[visible][Bucket(k, visible)]) = Holds(k)
  /\ held \in [Readers -> SUBSET (Values \cup {Absent})]
  /\ result \in [Readers -> Values \cup {Absent, None}]
  /\ \A r \in Readers :
       /\ rpc[r] \in {"idle", "leave"} <=> rkey[r] = None
       /\ rpc[r] = "leave" <=> result[r] # None
       /\ rkey[r] # None => Holds(rkey[r]) \in held[r]
       /\ rpc[r] = "bucket" => Found(rkey[r], buckets[rtable[r]][Bucket(rkey[r], rtable[r])]) \in held[r]
       /\ rpc[r] = "node" => Found(rkey[r], current[r]) \in held[r]

(* No node leads to its own key again.                                     *)
WalkInv == table_ # NoTable =>
  \A n \in allocated : key[n] \in Keys /\ key[n] \notin {key[m] : m \in Reach(next[n])}
===============================================================================
