# TLA+ verification of the hotpath C++ library

This directory holds the TLA+ models of the concurrent core of the repository
(`src/common/`), the TLC runs that check them on small instances, and proofs
checked by TLAPS that hold for every value of the constants.
`PROJECT.json` maps every definition to the source lines it stands for.

## 1. Inventory of the system

The repository is a C++20 library of low-latency building blocks with a
benchmark and a "challenge" per episode. The program's own logic is under
`src/common/`; `src/episodes/` holds frozen copies, slides, scripts and Java
counterparts of the same code, `src/tools/` the build.

| Component | State | Operations | What is hard |
|---|---|---|---|
| Broadcast ring (`shared_memory/broadcast_ring_buffer.{h,cc}`) | shared header: producer and commit cursor, 16 reader slots (active, cursor, heart-beat, pid, generation); frames with a sequence-lock version in a mirrored data segment; local: cached minimum cursor, open reservation, each reader's cursor, slot and generation | Create, Attach, Reserve, Commit, RegisterReader, UnregisterReader, PollZeroCopy, PollCopy, PollCopyBatch, Advance | processes interleave at every atomic; eviction, crash and recovery; stale cached minimum; lapping while copying |
| Memory map (`shared_memory/memory_map.{h,cc}`) | named POSIX segments, mappings | Create, Open, CreateOrOpen, Unlink, mirrored mapping | two processes race to create; crash between create and truncate; two names that must stay together |
| Epoch-based reclamation (`concurrency/ebr.{h,cc}`) | global epoch, thread list, per-thread epoch/active/batches, thread-local nesting depth | RegisterThread, UnregisterThread, EnterCritical, ExitCritical, Retire, Gc | store buffering, nodes freed under a reader |
| RCU hash map (`concurrency/rcu_hash_map.h`) | table pointer, chains, count, writer mutex | Get, Put, Remove, Size, Resize, destructor | readers race with copy-on-write and resize; old tables and nodes are retired in different batches |
| Sequence lock (`concurrency/seqlock.h`) | sequence word | WriteBegin, WriteEnd, ReadBegin, ReadRetry | torn reads, odd sequence |
| Route caches (`locks_under_the_hood/locks_under_the_hood.h`) | entries behind shared mutex, mutex, sequence lock | Read, Write | reader retry loop, concurrent writers |
| Sharded hash map, protected state (same header) | shards of locked maps | Upsert, Find, TotalUpdates | totals taken shard by shard |
| Locks (same header and `mesi_coherency.h`) | TAS, TTAS, CAS, futex word with 0/1/2, atomic wait | lock, unlock | lost wake-ups, spurious wake-ups, waiters' flag |
| SPSC ring (`store_buffer/store_buffer.h`) | write and read index that wrap, slots | TryPush, TryPop in two memory orders | counter wrap, full/empty boundary |
| Store-buffer litmus, hand-off (`store_buffer/challenge.cc`) | two flags, store buffers | relaxed or seq_cst stores and loads | store buffering |
| Contended counters (`mesi_coherency/mesi_coherency.h`) | sharded counters, batched id generator, thread magazines, order book, CAS spin locks | Increment, ReadTotal, NextId, lock, unlock | counters read while written; ids handed out in batches |
| Execution pipelines (`execution/execution_pipeline.h`), measurement (`measurement/entropy_generator.h`) | arrays; a ring of pointers | sums with one, four and eight accumulators; a shuffled Hamiltonian cycle | the tail of an unrolled loop; the last element of the ring |
| Arena and syscall helpers (`syscalls_traps_and_mmu`), dispatch, JIT comparison | single-threaded data and timing | allocation, pricing | none concurrent |

How they interact: the ring maps its segments through the memory map; the RCU
map retires nodes and tables through epoch-based reclamation; everything else is
used on its own by the benchmarks and challenges.

## 2. The modules

Component modules state behaviour and properties, `MC*` modules instantiate
them for TLC, `*Proofs` modules hold the theorems.

| Module | Models | Abstract specification | Runs | Proofs |
|---|---|---|---|---|
| `BroadcastRoster` | control plane of the ring: cursors, reader slots, back-pressure, eviction | `BroadcastLog` | Roster, Broadcast, RosterLateJoin, RosterEvictionAba | `BroadcastRosterProofs` |
| `BroadcastFrames` | data plane of the ring: frames, versions, the three polling functions, producers that die and are replaced | | Broadcast, FramesLapped, Recovery | `BroadcastFramesProofs` |
| `SharedMemory` | Create, Attach and Unlink of the ring on the memory map, one system call a step | | Roster | `MCBroadcastRosterProofs` |
| `SeqLock` | the sequence lock and its users | `AtomicSnapshot` | Locks | `MCLocksProofs` |
| `RouteCache` | the sequence-lock route cache, which has a protocol of its own | | Locks, RouteCacheTorn | `MCLocksProofs` |
| `Locks` | four spinlocks and three futex locks | | Locks | `LocksProofs` |
| `SpscRing` | the single-producer ring | `BoundedQueue` | Locks | `MCLocksProofs` |
| `Ebr` | epoch-based reclamation and its users, with delayed stores | `GracePeriods` | Ebr, EbrStoreBuffer, EbrResize | `EbrProofs` |
| `RcuHashMap` | the RCU hash map: chains, tables, readers, on top of `GracePeriods` | `ConcurrentMap` | Structures | `RcuHashMapProofs` |
| `BatchedIdGenerator` | identifiers leased in batches | | Structures | `MCStructuresProofs` |
| `ShardedCounter`, `ShardedHashMap` | counters in shards, without and with a mutex | | Structures | `MCStructuresProofs`, the first |
| `TsoMemory`, `StoreLoadLitmus`, `Handoff` | memory with store buffers, and the two experiments on it | | Structures | `MCStructuresProofs` |
| `Kernels` | the unrolled sums and the pointer-chasing ring | | Structures | |

Conventions. Every access to a shared atomic is one step, named after what it
does; a call is a sequence of steps through a program counter (`ppc`, `rpc`,
`pc`), and a local variable that is dead is put back to its initial value so
that it does not multiply states. Fields of an array of structs are functions,
one per field. An operator preceded by `\* Mutant:` is a deliberately wrong
version of the one after it; it is not part of any specification and serves to
show that the property it is paired with in `PROJECT.json` can fail.

### BroadcastRoster

`active`, `cursor`, `heartbeat_ts` and `generation_id` are the fields of
`ReaderSlot`; `producer_cursor` and `commit_cursor` those of the header;
`cached_min_cursor`, `target_cursor`, `min_c` and `slot` the producer's locals;
`slot_index`, `reader_gen` and `reader_cursor` the members of `BroadcastReader`.
`ReserveFits` is `Reserve` on the cached minimum, `ReserveScans` and the `Scan*`
actions its back-pressure loop, `Register*` the steps of `RegisterReader`,
`Advance*` those of `Advance`. Positions are words and do not wrap: a `uint64_t`
of bytes lasts longer than any process. Clocks are reduced to what the eviction
test can tell ("fresh", "old", "expired"). `Registration` says when readers
register: before the first frame, as in the stress test (`early`), between
reservations (`quiescent`), or at any time (`any`). These are disciplines of the
callers, taken from the tests and the benchmark; the code checks none of them.
Under the first, and under the second without eviction, no slot is claimed
again while an evicted reader is still bound to it, so what such a reader's
`UnregisterReader` stores, which compares no generation, is not examined.

`BroadcastLog` is what the ring promises: the producer appends only where every
member has released, and a member moves forward through what is committed.

### BroadcastFrames

The ring is an array of words that keep what an earlier lap left in them. A
frame is a header word (version, length) and payload words; `PayloadBits` are
what payload spells when it is read as a header. The roster is abstracted to
what BroadcastRoster shows: the producer waits for `members`, and an evicted
reader reads on. `Reserve` to `Commit` are the producer's stores in program
order, `Poll` to `Verify` the readers' loads in the three functions. `stream`
is the deployment: the frame sizes, whether readers are evicted, where the
producer may die (`ProducerDies`), and whether another attaches writable in its
place (`AttachProducer`), which starts at the claimed cursor and evicts all
readers at its first scan, since its time-out is 0.

### SharedMemory

`name` is the file system: what `/meta` and `/data` stand for. `pc` and `at` say
which system call a process is about to make on which of them, `map` what it has
mapped. Every call may fail, and a process may die between two of them and start
again; names outlive processes. `capacity` is the header of a ring that is
complete, identified by the data segment it goes with. `Create` is the
two-segment protocol: make meta, make data, write the header, undo what was made
when a step fails. `Attach` reads the capacity and maps the data segment of the
same name; it is killed by a signal if the header has no page yet.

### SeqLock, RouteCache

`SeqLock` has one writer and any number of readers, a payload of several
fields that are stored and copied one by one, and refines `AtomicSnapshot`: a
read returns the payload of one moment. `RouteCache` stores the sequence as
`seq + 1` and `seq + 2` of a value it loaded first, so it is right for one
writer and not for two; and its reader returns whatever its last copy was.

### Ebr, GracePeriods, RcuHashMap

In `Ebr`, `list` is what `head_` reaches, `local_epoch`, `active` and
`retirement_batches` the fields of a `ThreadControlBlock`, `tls_tcb` and
`critical_depth` the thread-locals. The users are those of `RcuHashMap`: a
reader follows the shared pointer inside a critical section and uses the node
until it follows it again or leaves; a writer, under its mutex, replaces the
pointer and retires the old node. A batch is the set of nodes retired in one
epoch. Two stores may be delayed past the loads behind them. In the threads of
`Delayed` the plain store of `EnterCritical` and `ExitCritical` waits in a store
buffer that the thread itself sees through, until `Drain`. And the pointer is
`link` for its writer but `visible` for the others: a store by `Replace`, which
stands for `Put` and `Remove`, is followed by `generation_.fetch_add` and so
visible before `Retire` loads the epoch, while the store of a table by `ReplaceTable`
(`Resize`) becomes visible at some `Publish`, possibly after that load.

`GracePeriods` is what is left of the promise: `Retire` notes for an object the
threads whose pin is visible at that moment, and the object is given back only
after all of them have left. Of `Ebr`, that moment is the load of the epoch
(`RetireLoad`) and `awaited` the note. It promises nothing to a thread that
followed the pointer before its pin was visible (`early`), nor to one that was
led, by a table not replaced yet in its eyes, to what had been retired (`misled`).

`RcuHashMap` relies on `GracePeriods` and on no more. `pinned` and `retired` are
its variables: a reader enters its section with `Get` and is seen there from
`Pin` on, which may come at any time of the `Get` or never; an object in `retired`
waits for the readers that were seen. The map's own table is `table_`, that of
the readers `visible`, which follows at `Publish`, before or after `RetireTable`. A
`Get` for which nothing is promised, because it is at what is being retired and
not seen, or because it loads a table that has been retired without waiting for
it (`LoadRetired`), is abandoned (`Abandon`): in the code it may from there on
read memory that has been freed, which EbrStoreBuffer and EbrResize show. `Gc`
destroys as soon as `GracePeriods` allows, which of all times is the one that can
do the most harm. Nodes have `key`, `value` and `next`; `buckets[t]` are the heads
of the table that was doubled `t` times. A reader takes the table, the bucket
and node after node in separate steps; a writer is alone under the mutex, so its
walk is part of the step that stores a pointer, and the steps after that store
(`Count`, `Uncount`, `Retire`, `RetireTable`) are its own. `Put` first doubles a full
table (`Resize` copies all nodes, reversing the chains, and retires the old
table with the old nodes), then replaces a node or inserts one at the head.
Nodes are never written in place, so their `seq` is never odd and a value is
loaded in one step. `ConcurrentMap` is the promise: `Put` and `Remove` are atomic,
and a `Get` returns something the key held during the call, unless it is
abandoned.

### Locks, SpscRing

`Locks` is one word (`state`) and a `kind` that is fixed per behaviour: two
spinlocks that exchange, two that compare and exchange, and three futex locks.
The futex's compare-and-sleep is one step, as the kernel makes it; `unlock`'s
exchange and its wake-up are two. A wake-up reaches any sleeper, and signals
end sleeps. `Cpp20AtomicWaitLock` differs in that it compares again before it
returns from `wait`. `SpscRing` keeps its indices modulo a power of two and has
both pairs of push and pop, whose memory orders come to the same on x86.

### Counters, experiments, kernels

`BatchedIdGenerator`: the atomic `global_id_` and each thread's lease; `NextId`
takes from the lease or fetches a new batch. `ShardedCounter`: workers add to
their shard while one thread sums or clears the shards one by one.
`ShardedHashMap`: the counters are plain words, so `+=` is a load and a store,
and only the shard's mutex keeps two of them apart. `TsoMemory` is a memory
with a FIFO store buffer per core; `StoreLoadLitmus` is Dekker's test with its
barriers and resets, `Handoff` the ring of two-word messages between two
spinning threads; both have the template argument as a variable, and a seq_cst
store is one the next load waits for. `Kernels` has no steps: its initial states
are the inputs, and its invariants compare the algorithms with what they are for.

## 3. The runs

A behaviour of `MCBroadcastRoster`, `MCBroadcast`, `MCLocks` or `MCStructures`
exercises one of the components the module brings together, and the others
stay in their initial state, so their state spaces add up.

| Run | Shows |
|---|---|
| Roster | *stress test*: readers that register before the first frame, hang, crash, unregister and are evicted; *churn*: readers that come and go between reservations and claim slots again. No member is overrun, slots belong to one reader, cursors are ordered, and the ring implements `BroadcastLog`. *segments*: processes create, attach to and unlink the segments while calls fail and processes die: whoever is attached has both halves of one ring, a failed `Create` removes its own names and no others, and a ring has both names or neither once nobody is at work and nobody has died |
| Broadcast | members read the log, by any polling function; copies are whole messages even for readers that are overtaken; no poll spins for ever, although producers die; and a `Reserve` that meets back-pressure returns, with no coordination of registration at all |
| RosterLateJoin | **violation**: a reader that registers while a reservation is open may be overrun although active |
| RosterEvictionAba | **violation**: an evicted reader's `Advance` stores into a slot that is another's by then |
| RouteCacheTorn | **violation**: the route cache's `Read` returns a torn entry |
| FramesLapped | **violation**: with frames of different sizes an overtaken reader takes payload for a header |
| Recovery | **violation**: `PollCopy` spins for ever on the frame a dead producer left, and no poll gets past it |
| Ebr | one thread whose pins are visible at once next to one whose pins are delayed, nodes and tables replaced, the stores of tables delayed: whoever followed the pointer with a visible pin, to what was not yet retired, never holds what is freed; every node is freed once; and reclamation implements `GracePeriods` |
| EbrStoreBuffer | **violation**: a delayed pin lets a node be freed under its reader |
| EbrResize | **violation**: with all pins visible at once, a delayed store of a table lets the old table be freed under a reader |
| Locks | all seven locks under three threads exclude, lose no wake-up, and return; the single-producer ring implements a bounded queue and never shares a slot; `SeqLock` implements `AtomicSnapshot`; the reads of a route cache with one writer are fresh; all reads return |
| Structures | on `GracePeriods`, with pins and stores of tables delayed, `RcuHashMap` implements `ConcurrentMap`, a `Get` that keeps its protection touches nothing freed, every node is in one place, `Size` is exact between calls, and a `Get` takes at most one step per key; identifiers are unique; totals lie between what had been and what has been counted; seq_cst excludes both zeros; messages are handed over whole; unrolled sums equal the plain one; a pointer chase visits every element |

### Bounds

- Roster: two readers and two slots (a scan that passes one slot and meets
  another, a registration that finds the first slot taken), `Capacity` 2 with
  `MaxCursor` 4: two laps, so a frame is overwritten and the cached minimum goes
  stale. `MaxGen` 2 lets a slot be claimed again. `FrameSizes` {1, 2}: a frame as
  large as the ring, and one that leaves room. In Broadcast one slot, two
  consumers and `Capacity` 1 with `MaxCursor` 2: every second `Reserve` blocks.
- SharedMemory: three processes (one that makes, one that finds the name taken,
  one that attaches) and four segments, so that two rings succeed each other.
- BroadcastFrames: `Capacity` 4 and `MaxCursor` 8, two laps. In Broadcast one
  stream has frames of 2 words, evicts readers and replaces a producer that dies
  with its frames sealed; the other has frames of 1 and 3 words, whose second lap
  begins in the payload of the first, does not evict, and its producer dies while
  it writes and stays dead.
- SeqLock: two readers, two fields, two writes (three in RouteCacheTorn): the
  smallest in which a copy may mix two writes and span a third.
- Ebr: two threads, each reader and writer, three nodes (two replacements, of
  nodes or of tables), one thread with delayed pins (none in EbrResize),
  `MaxEpoch` 3: a node of epoch 1 is freed once the epoch reaches 2, and a
  second collection starts with a minimum that is stale. `Threshold` is 1
  instead of 64: a larger one only collects less often, and `Gc` may also be
  called at any time. `MaxDepth` 2 is one nested section.
- RcuHashMap: one reader, two keys, two values, four nodes (two in a table, two
  retired or being copied to), a table of 2 buckets that is doubled once. The
  hash function is one of two: both keys in one bucket of either table, so
  chains have length 2 and are reversed by `Resize`; or together in the small
  table and apart in the large one. Values and nodes are only compared for
  equality and are interchangeable; keys are not, since they hash differently.
- Locks: three threads (a holder, a sleeper, and one that overtakes the one
  that is woken), two calls each, one spin instead of 40.
- SpscRing: `Capacity` 2 and `Modulus` 8: the indices wrap again and again; there
  is no bound on the number of items.
- BatchedIdGenerator: three threads, three calls each, batches of 2: a lease runs
  out in the middle of every thread's calls.
- ShardedCounter: three workers on two shards, four increments between resets.
  ShardedHashMap: two threads, three keys in two shards, four upserts.
- Handoff: a ring of 2, five messages, so each slot is used at least twice. The
  litmus repeats its trials without a bound.
- Kernels: accumulators of 5 bits, streams of up to 17 elements (two rounds of
  eight and one over, every remainder in between), rings of up to 5.

Deadlock is not checked in runs whose behaviours end at a bound, nor where the
system may stop: nobody is obliged to call.

### Fairness

Broadcast, Locks and Recovery state any. A call that has begun takes its steps
(weak fairness of the steps after the first), because threads are scheduled;
nobody is obliged to begin a call, to poll, to release or to survive. Time
passes: heart-beats age. `ScanAgain(TRUE)` is strongly fair: the loop reads the
clock again after 100,000 cycles, so its passes cannot all fall between two
readings. Holders of a lock release it. In Locks calls are bounded in number: a
sequence lock's reader may starve under a writer that never pauses, and none of
the locks is fair, so the liveness properties say that nothing but such
contention keeps a call from returning: no odd sequence is left behind, no
wake-up is lost. `WaitFree` of `RcuHashMap` needs no fairness: it is an action
property, by which every step of a reader leaves it fewer keys to walk past.

## 4. Findings

1. **Late joiners are overrun** (RosterLateJoin). `Reserve` trusts
   `cached_min_cursor_`, which may be the end of a frame not yet committed. A
   reader that registers at `GetLatestCursor()` is below it, is not looked at,
   and is lapped, though benchmarks.md promises zero data loss.
2. **Eviction ABA** (RosterEvictionAba). `Advance` compares the generation and
   then stores, in separate steps, though its comment speaks of a CAS.
3. **Torn reads of the route cache** (RouteCacheTorn). For an odd `s0` the loop
   of `Read` says `continue`, which in a do-while evaluates the condition, and
   compares `s0` with the `s1` of the round before. If that was the same odd
   value the loop ends and the torn copy of that round is returned.
4. **Overtaken readers** (FramesLapped). The lap check precedes the copy and is
   not repeated; versions alone do not tell a header from payload.
5. **Reclamation without a StoreLoad barrier** (EbrStoreBuffer). The release
   store that pins a reader may be delayed past its loads, and what the reader
   found is freed under it. `GracePeriodsKept` says what holds all the same:
   whoever is pinned visibly when an object is retired is waited for.
6. **A table retired before it is replaced** (EbrResize). `Resize` stores `table_`
   and calls `Retire`, whose load of the epoch may overtake the store, since unlike
   in `Put` and `Remove` no locked instruction stands between them. If the epoch
   advances in between, the old table is tagged with epoch e while a reader
   pinned to e + 1 still loads it, and a collection whose minimum is e + 1 frees
   it. A barrier in `EnterCritical` would not help: this is a defect of its own.
7. **A dead producer's frame** (Recovery). A producer that attaches after one
   that died between `Reserve` and `Commit` reserves behind the unsealed frame; its
   first `Commit` moves the commit cursor past both, and every reader comes to the
   odd version first: `PollCopy` retries it for ever, `PollCopyBatch` gives up after
   `kMaxRetries` in every call and never gets past it, though the header names
   writable attachment as the way to recover.

Two more that need no run. 16 threads times 500'000 calls are no multiple of 64
each, so the watermark of `BatchedIdGenerator` ends at 8000512 and the check at
`mesi_coherency/challenge.cc:258`, which expects 8000000, reports a failure where
there is none. And `locks_under_the_hood/challenge.cc:66-79` has 16 threads call
`Write` of the route cache with nothing that keeps them apart, and expects whole
entries; `Write` is not made for that, see section 6.

## 5. What is proved

For all values of the constants, from the named assumptions on them only.

- `BroadcastRosterProofs`: `TypeCorrect`, `SlotOwnership` (slots are exclusive),
  `CursorOrder`, `BackpressureSafe` (no member is overrun), and
  `RingImplementsLog` (safety part of the refinement). All but the first assume a
  registration discipline (`Disciplined`), without which RosterLateJoin and
  RosterEvictionAba show them false. The inductive invariant `RosterInv` is
  `TypeOK`, `OwnershipInv` (who holds a slot, including one half-way through
  registration), `CursorInv` (how the cursors relate at each point of `Reserve`)
  and `MemberInv`: every member the scan has passed is accounted for in its
  minimum, and the cached minimum is below every member. `NoOverrun` alone is not
  inductive, since it says nothing of the minimum the next reservation relies on.
- `BroadcastFramesProofs`: `FramesInvHolds`, `MembersRead` and `CopiesWhole`. That a
  member reads the log, or a copy is one message, says nothing of the words not
  read yet, so `FramesInv` describes the whole ring: frames follow each other
  without a gap up to the claim (`LogInv`), what the producer has written of the
  frame it is at (`WritingInv`), where a reader's cursors can stand
  (`PositionInv`), that every sealed frame a member has not released is whole and
  the claim never a ring beyond its cursor (`MemberInv`), and, when frames have
  one size that divides the ring, that a place under an even version holds one
  message and a copy under one even version is that message (`PlacesInv`,
  `CopyInv`). `MembersRead` assumes that no producer goes on behind a frame another
  left unsealed, `CopiesWhole` either such a size or a ring that evicts nobody:
  Recovery and FramesLapped show both false without.
- `MCBroadcastRosterProofs`, under `NoneIsNoSegment`, which says that the absent
  segment is none of the segments: `SegmentsOfOneRing` (`AttachedToOneRing`), `OnlyOwnNamesUndone`
  (`OnlyOwnNames`) and `BothNamesOrNone` (`AllOrNothing`). The invariant
  `SegmentsInv` (`SegmentsInvariance`) says that whoever has made the meta name is
  the only process at work on the names until its header is complete
  (`OwnersInv`), that a complete header's data segment stays under the name
  (`RingsInv`), and that a process that has read a capacity still finds it there
  (`AttachInv`), for which `UnlinkInv` keeps the owner that unlinks alone.
  `NamesInv` adds that while nobody is at work both names exist or neither, and
  that an owner that has only the meta name finds the data name free.
- `MCLocksProofs`: `SeqLockInvHolds` and `SeqLockRefines` (every step is a step of
  `AtomicSnapshot` or a stutter). `SeqLockInv` ties the sequence to the number of
  writes and says that the fields copied so far are those of the start sequence as
  long as it has not moved. With one writer (`OneWriter`) a `Read` of the route
  cache returns nothing older than its call (`CacheIsFresh`), torn or not:
  `CacheInv` (`CacheInvariance`) says which fields are new at each point of
  `Write` (`WriterInv`), and that each field a reader has copied is at least as
  new as the last write that was complete when it called (`ReaderInv`). Of the
  single-producer ring, under `PowersOfTwo`, `RingSlotsApart` (`SlotsApart`) and,
  if the empty slot is no item, `RingImplementsQueue` (`ImplementsQueue`):
  `RingInv` bounds the items by the capacity at every point of a push and a pop,
  which modulo the range of the indices keeps the two threads apart, and
  `QueueInv` says that what they have in their hands is what the slots hold. The
  lemmas on `%` that the wrapped indices need come first in the module.
- `EbrProofs`: `Invariance` (`EbrInv`), `ReclamationSafe` (`NoUseAfterFree`),
  `RetiredOnce` (`OnePlace`) and `GracePeriodsKept` (`ImplementsGracePeriods`), for
  any `Delayed` and with tables or without. That nothing is freed too early says
  nothing of the batches still to be freed: a node that awaits a thread must be
  in no batch older than the epoch that thread is pinned to (`HoldInv`), and a
  collection that could free it must still have the thread's block before it or
  have its pin in the minimum (`GcInv`); these rest on blocks having one owner
  (`BlockInv`) and pins being epochs that have begun (`PinInv`). `ReaderInv` then
  says that a node a thread followed in good time awaits it once it is retired.
- `LocksProofs`: `LocksExclude` and `WakeupsArrive`, for all seven locks, from the
  inductive `LocksInv` (`Invariance`).
- `MCStructuresProofs`: `SeqCstForbidsBothZero` (`NeverBothZero`),
  `HandoffInvariance`, `MessagesArriveWhole` (`MessagesWhole`), `TotalsAreBetween`
  (`TotalBetween`), `ShardsInvariance`, `UpsertsAreCounted` (`UpsertsCounted`),
  `ChasesAreOneCycle` (`SingleCycle`) and `SumsAlwaysAgree` (`SumsAgree`), under
  `StructureConstants`, which TLC evaluates: rings and arrays of shards are not empty,
  workers have numbers, every key has a shard and one of 16 buckets, and an
  accumulator has a positive number of values. In the litmus test a
  thread that has loaded has its flag in its buffer or in memory, and with
  seq_cst in memory (`LitmusInv`). In the hand-off the producer's stores are
  numbered, three to a message: its buffer holds the last of them in order, memory
  shows the others (`BuffersInv`), each word until the store a ring later
  (`MemoryInv`), and neither thread goes beyond what the index it reads allows
  (`RoomInv`). For the counter `CounterInv` says that there are sums `upTo` of the
  shards from the left, by which what a call has read or cleared so far is
  bounded; as every such sum is a function that exists and not one that is
  computed, no induction is needed. Of the sharded map `ShardsInv` says that whoever
  is in an `Upsert` has the mutex of its shard and holds no stale value
  (`MutexInv`), that buckets, updates and calls differ shard by shard by exactly
  who is where in an `Upsert` (`BucketsInv`, `CallsInv`), and that what a scrape has
  passed can only have grown (`ScrapeInv`). Its sums are folds over a set; the
  lemmas on them come first (`SubsetsByElements`, `FoldsExist`, `SumUnfolds`): sets of
  up to n elements have such a fold if those of up to n - 1 do, and otherwise there
  is a least n that has none, so that a sum is a sequence of partial
  sums. From that it changes with one value by as much (`SumChanges`) and grows with
  the function (`SumsOrdered`). The loops are proved likewise: after k rounds the
  accumulators together have what the one has after k times as many elements
  (`RoundsAgree`), by the least k for which they have not, and the lemmas on `%`
  (`WrapBefore`, `WrapBoth`) let the wrapping wait until the end. A chase is at
  the k-th index of the shuffle after k steps. Of the identifiers `IdentifiersUnique`
  (`IdsUnique`), from the inductive `LeaseInv` (`LeasesDisjoint`): what is left of a lease is
  below the watermark, overlaps no other lease, and has been given to nobody;
  uniqueness of the identifiers alone says nothing of those still to be given out.
- `RcuHashMapProofs`: `MapStructure` (`StructureInv` and `VisibleInv`),
  `ReadersFindWhatIsThere` (`ReadersSafe`), `NothingLeaks` (`MapInv`), `MapRefinesConcurrentMap`
  (`ImplementsMap`) and `GetsAreWaitFree` (`WaitFree`), under `MapConstants`: tables have
  buckets, hash functions give numbers, there are finitely many nodes and keys,
  and nodes, tables and the special values differ. Reclamation is that of
  `GracePeriods`, which `GracePeriodsKept` shows `Ebr` to implement, and the theorems
  are about Gets until they are abandoned. That a reader stands on
  a live node is not inductive, because its next step goes where the chains lead.
  `StructureInv` says what the chains are (`ChainsInv`: some ranking of the nodes
  falls along them, so they end; each holds the keys of its bucket, once), that
  every node is in one place and leads to others that are in one (`PlacesInv`),
  which tables the writer still needs (`WriterInv`), that the table readers load is
  the writer's or the one before it (`VisibleInv`), and that a reader's table and
  node are linked, or held by the writer, or retired and waiting for that very
  reader, and that retired nodes lead a reader they wait for to others of that
  kind (`ProtectedInv`). The module first shows what `Reach` and `Find`
  compute: nodes are ordered by their rank, and a statement about all of them is
  proved from a counterexample of least rank. `Replace`, `Insert` and `Remove` are
  then three cases of one splice of a chain; `Resize` is shown to build chains of
  copies from the last node put in each to the first. For `SizeExact` every step is
  shown to change the keys the map holds as it should (`PutMaps`, `RemoveMaps`,
  `ResizeMaps`, `GcMaps`, `DestroyMaps`). A `Get` takes effect at no one line of the
  code, so the refinement rests on a statement about the rest of each walk:
  `HeldInv` says that what a reader will find from where it stands is something
  its key has held since the call, and that the visible table, unless it has been
  destroyed, holds what the map holds. A step of the writer keeps that because
  from every node that stays allocated one finds afterwards what one found before,
  or what the key holds now (`WalksShorter`): the nodes that `Insert`, `Resize`
  and `Gc` touch are out of the readers' way (`UntouchedShortens`), and `Replace`
  and `Remove` lead around one node whose key is the one they change (`Detoured`).
  The same lemmas say that no walk meets a key it did not meet before, which with
  `WalkInv` (no node leads to its own key again, unlinked ones included) is `WaitFree`.

A property of an instance inside `MCLocks`, `MCBroadcastRoster` or `MCStructures`
has a definition of the same name there, and the theorems state that one, of the
specification the run checks. Constants get their values in the configurations,
so a theorem holds for all of them.

Only model-checked: every liveness property, since ENABLED and fairness are out
of the prover's reach. All invariants and step properties of the passing runs
are proved. The provers cannot instantiate the library's induction theorems; what
folds and the recursive functions of `RcuHashMap` compute is shown with least
counterexamples instead.

## 6. What is not modelled

Within the components that are modelled:

- Memory order weaker than x86's: loads are in order, stores are in order, and
  only `Ebr`, `RcuHashMap` and the experiments let a store be delayed past a load.
  In `Ebr` a delayed pin waits in a buffer of one entry and a delayed store of a
  table is visible at the latest when its `Put` goes on to a locked instruction.
  Of the other modules, `BroadcastRoster`, `BroadcastFrames`, `SeqLock`, `RouteCache`
  and `SpscRing` have no place where a thread stores and must then load something
  before others have seen that store, so that a delayed store is a slower thread.
  Locks and reader slots are taken with locked instructions, an unlock that is
  delayed only keeps the others waiting, and segments change by system calls. In
  `ShardedCounter` the clears of `Reset` are stored when they are made: on a real
  machine an increment that follows `Reset` at once may still be cleared. A
  `compare_exchange_weak` does not fail spuriously.
- The route cache with several writers. `Write` loads the sequence and stores it
  plus 1 and plus 2, so a second writer may take an odd value for the one to
  start from. The challenge has 16 of them; the model has one, for whom
  RouteCacheTorn already shows torn reads.
- The ring: `payload_size + 7` for sizes close to 2^32. `PollReturns` is checked
  only where it can hold: it fails when a producer dies with an odd version in
  the ring and an evicted reader runs into it, or when another producer goes on
  behind it (Recovery).
- The segments: `InitHeader` is one step, though the code clears the slots after
  it has published the capacity. An access to a segment whose creator has not
  given it pages yet is modelled as what it is, the death of the process by a
  signal, and nothing is asked of processes that died so. `Unlink` is called
  while nobody comes or goes, and nobody creates meanwhile (`MayUnlink`):
  `memory_map.h:80-84` says only that the owner should call it when cleaning up,
  so its races with `Create` and `Attach` are outside the model. `CreateOrOpen` is
  not called by anything.
- `Ebr`: `UnregisterThread` inside a critical section, and what threads that
  unregister leave unreclaimed. No caller does the first.
- `RcuHashMap`: `generation_`, which nothing reads (it matters as the locked
  instruction before `Retire`); exhausted memory; what an abandoned `Get` reads.
- `ThreadMagazine` belongs to one thread, `ProtectedState` and the ledger of the
  order book are data under one of the locks modelled, and split locks are a
  matter of time only. `MutexRouteCache` and `SharedMutexRouteCache` are one
  critical section of the standard library per call.

Components that are not modelled at all keep no state a model checker could get
into trouble: arenas, page faults and system calls (effects of hardware and
kernel), dispatch and the comparison with Java (one thread, products of doubles,
for which TLA+ has no numbers), sums of doubles and `AccumulateHash`, which have
nothing to be compared with. The `benchmark.cc` and `challenge.cc` files, which
are most of the implementation's lines, are drivers that time the components
above: they fix which calls are made by how many threads, and the models take
their inputs from them. `src/episodes/` holds frozen copies of `src/common/`,
and modelling a copy a second time would say nothing new. That is why the map,
although it names nearly every line of the concurrent headers, covers a small
share of the repository.

## 7. What remains

The concurrent code is modelled and its safety proved. What a continuation could
add: `SharedMemory` with header initialisation store by store, and
an `Unlink` that races with `Create`, if the code comes to allow either.
