--------------------------------- MODULE Ebr ---------------------------------
(***************************************************************************)
(* Epoch-based reclamation (common/concurrency/ebr.{h,cc}) and the users   *)
(* it is made for: readers that follow a shared pointer inside a critical  *)
(* section, and writers that replace what it points to and retire the old  *)
(* node, as RcuHashMap does with the link to a node and with its table.    *)
(*                                                                         *)
(* Every access to a shared atomic is a step.  A release store is a plain  *)
(* mov on x86, which the loads behind it overtake, until a locked          *)
(* instruction or a mutex drains the store buffer.  There are two such     *)
(* stores that matter: in the threads of Delayed the store of              *)
(* EnterCritical and ExitCritical waits in a buffer of one entry, and the  *)
(* store of a table, unlike that of a link, is followed by Retire's load   *)
(* of the epoch with nothing between them that drains.                     *)
(***************************************************************************)
EXTENDS Integers, FiniteSets

CONSTANTS
  Threads,
  Tcbs,          \* bound: the thread control blocks that get allocated
  Nodes,         \* bound: the nodes that get allocated
  Threshold,     \* kBatchThreshold
  MaxEpoch,      \* bound: no Gc begins at this epoch
  MaxDepth,      \* bound: nesting of critical sections
  Delayed,       \* the threads whose pins may be delayed
  Resizing,      \* whether tables are replaced as well as nodes
  NoTcb, NoNode

Inactive == 0
Empty == -1

ASSUME EbrAssumption ==
  /\ NoTcb \notin Tcbs /\ NoNode \notin Nodes
  /\ Threshold \in Nat /\ MaxEpoch \in Nat /\ MaxDepth \in Nat

VARIABLES
  global_epoch_,
  list,            \* the blocks reachable from head_
  active, local_epoch, retirement_batches,    \* fields of each block
  link,            \* the shared pointer as its last writer knows it,
  visible,         \*   as the others load it,
  pending,         \*   and the thread whose store of it is delayed
  allocated, freed,
  tls_tcb,         \* thread-locals
  critical_depth,
  pc,              \* where a thread is in its call,
  epoch,           \*   the epoch it loaded,
  ptr,             \*   the node it follows,
  old,             \*   the node it has unlinked and not yet retired,
  min_epoch, todo, \*   and Gc's minimum and the blocks it has still to look at
  store_buffer,    \* its delayed store to local_epoch
  awaited,         \* history: the pinned threads that were there when a node was retired,
  early,           \*   the threads that followed before their pin was visible,
  misled           \*   and those that were led to a node already retired

shared == <<global_epoch_, list, active, local_epoch, retirement_batches>>
heap == <<link, visible, pending, allocated, freed>>
history == <<awaited, early, misled>>
thread == <<tls_tcb, critical_depth, pc, epoch, ptr, old, min_epoch, todo>>
vars == <<shared, heap, thread, store_buffer, history>>

TypeOK ==
  /\ global_epoch_ \in Nat
  /\ list \in SUBSET Tcbs
  /\ active \in [Tcbs -> BOOLEAN]
  /\ local_epoch \in [Tcbs -> Nat]
  /\ retirement_batches \in [Tcbs -> SUBSET (Nat \X Nodes)]
  /\ link \in Nodes /\ visible \in Nodes /\ pending \in SUBSET Threads
  /\ allocated \in SUBSET Nodes /\ freed \in SUBSET Nodes
  /\ tls_tcb \in [Threads -> Tcbs \cup {NoTcb}]
  /\ critical_depth \in [Threads -> Nat]
  /\ pc \in [Threads -> {"idle", "pin", "retire", "batch", "gc", "head", "scan", "cas", "free"}]
  /\ epoch \in [Threads -> Nat]
  /\ ptr \in [Threads -> Nodes \cup {NoNode}]
  /\ old \in [Threads -> Nodes \cup {NoNode}]
  /\ min_epoch \in [Threads -> Nat]
  /\ todo \in [Threads -> SUBSET Tcbs]
  /\ store_buffer \in [Threads -> Nat \cup {Empty}]
  /\ awaited \in [Nodes -> SUBSET Threads]
  /\ early \in SUBSET Threads /\ misled \in SUBSET Threads

Init ==
  /\ global_epoch_ = 1 /\ list = {}
  /\ active = [b \in Tcbs |-> TRUE]
  /\ local_epoch = [b \in Tcbs |-> Inactive]
  /\ retirement_batches = [b \in Tcbs |-> {}]
  /\ link \in Nodes /\ visible = link /\ pending = {}
  /\ allocated = {link} /\ freed = {}
  /\ tls_tcb = [t \in Threads |-> NoTcb]
  /\ critical_depth = [t \in Threads |-> 0]
  /\ pc = [t \in Threads |-> "idle"]
  /\ epoch = [t \in Threads |-> 0]
  /\ ptr = [t \in Threads |-> NoNode] /\ old = [t \in Threads |-> NoNode]
  /\ min_epoch = [t \in Threads |-> 0] /\ todo = [t \in Threads |-> {}]
  /\ store_buffer = [t \in Threads |-> Empty]
  /\ awaited = [n \in Nodes |-> {}] /\ early = {} /\ misled = {}

-----------------------------------------------------------------------------
Goto(t, l) == pc' = [pc EXCEPT ![t] = l]

(* Between two calls.  Put goes on, after Resize, to a locked instruction. *)
Idle(t) == pc[t] = "idle" /\ t \notin pending

(* Nothing of t waits in its store buffer.                                 *)
Drained(t) == store_buffer[t] = Empty /\ t \notin pending

(* The threads in a critical section whose pin is in memory.               *)
Pinned == {t \in Threads : critical_depth[t] > 0 /\ pc[t] # "pin" /\ store_buffer[t] = Empty}

(* The nodes whose retirement has loaded its epoch.                        *)
Retired(b) == {x[2] : x \in retirement_batches[b]}
Tagged == {old[t] : t \in {u \in Threads : pc[u] = "batch"}} \cup UNION {Retired(b) : b \in Tcbs}

(* tls_tcb->local_epoch.store(e, release)                                  *)
StoreLocal(t, e) ==
  /\ store_buffer[t] = Empty
  /\ IF t \in Delayed
       THEN store_buffer' = [store_buffer EXCEPT ![t] = e] /\ UNCHANGED local_epoch
       ELSE local_epoch' = [local_epoch EXCEPT ![tls_tcb[t]] = e] /\ UNCHANGED store_buffer

(* A thread sees its own delayed store, the others do not.                 *)
Local(t, b) == IF b = tls_tcb[t] /\ store_buffer[t] # Empty THEN store_buffer[t] ELSE local_epoch[b]

Drain(t) ==
  /\ store_buffer[t] # Empty
  /\ local_epoch' = [local_epoch EXCEPT ![tls_tcb[t]] = store_buffer[t]]
  /\ store_buffer' = [store_buffer EXCEPT ![t] = Empty]
  /\ UNCHANGED <<global_epoch_, list, active, retirement_batches, heap, thread, history>>

(* The store of a table becomes visible.                                   *)
Publish(t) ==
  /\ t \in pending
  /\ visible' = link /\ pending' = {}
  /\ UNCHANGED <<shared, link, allocated, freed, thread, store_buffer, history>>

(* EnterCritical and Retire do this first in a thread without a block.     *)
RegisterThread(t) ==
  /\ pc[t] \in {"idle", "retire"} /\ tls_tcb[t] = NoTcb /\ Drained(t)
  /\ \E b \in Tcbs \ list :
       /\ list' = list \cup {b}
       /\ tls_tcb' = [tls_tcb EXCEPT ![t] = b]
  /\ UNCHANGED <<global_epoch_, active, local_epoch, retirement_batches, heap, critical_depth, pc,
                 epoch, ptr, old, min_epoch, todo, store_buffer, history>>

(* As its users do: outside critical sections, where local_epoch already   *)
(* is inactive.  The block stays in the list with what it has not freed.   *)
UnregisterThread(t) ==
  /\ Idle(t) /\ Drained(t) /\ tls_tcb[t] # NoTcb /\ critical_depth[t] = 0
  /\ active' = [active EXCEPT ![tls_tcb[t]] = FALSE]
  /\ tls_tcb' = [tls_tcb EXCEPT ![t] = NoTcb]
  /\ UNCHANGED <<global_epoch_, list, local_epoch, retirement_batches, heap, critical_depth, pc,
                 epoch, ptr, old, min_epoch, todo, store_buffer, history>>

-----------------------------------------------------------------------------
(* Readers.                                                                *)

EnterNested(t) ==
  /\ Idle(t) /\ tls_tcb[t] # NoTcb /\ critical_depth[t] \in 1 .. MaxDepth - 1
  /\ critical_depth' = [critical_depth EXCEPT ![t] = critical_depth[t] + 1]
  /\ UNCHANGED <<shared, heap, tls_tcb, pc, epoch, ptr, old, min_epoch, todo, store_buffer, history>>

EnterCritical(t) ==
  /\ Idle(t) /\ tls_tcb[t] # NoTcb /\ critical_depth[t] = 0
  /\ critical_depth' = [critical_depth EXCEPT ![t] = 1]
  /\ epoch' = [epoch EXCEPT ![t] = global_epoch_]
  /\ Goto(t, "pin")
  /\ UNCHANGED <<shared, heap, tls_tcb, ptr, old, min_epoch, todo, store_buffer, history>>

Pin(t) ==
  /\ pc[t] = "pin"
  /\ StoreLocal(t, epoch[t])
  /\ epoch' = [epoch EXCEPT ![t] = 0]
  /\ Goto(t, "idle")
  /\ UNCHANGED <<global_epoch_, list, active, retirement_batches, heap, tls_tcb, critical_depth,
                 ptr, old, min_epoch, todo, history>>

(* The reader follows the pointer; until it follows it again or leaves, it *)
(* uses the node it found.                                                 *)
Follow(t) ==
  /\ Idle(t) /\ critical_depth[t] > 0
  /\ ptr' = [ptr EXCEPT ![t] = visible]
  /\ early' = IF t \in Pinned THEN early \ {t} ELSE early \cup {t}
  /\ misled' = IF visible \in Tagged \cup freed /\ t \notin awaited[visible]
                 THEN misled \cup {t} ELSE misled \ {t}
  /\ UNCHANGED <<shared, heap, tls_tcb, critical_depth, pc, epoch, old, min_epoch, todo, store_buffer,
                 awaited>>

(* History: nobody waits any more for a thread that has left its section.  *)
Left(t) ==
  /\ awaited' = [n \in Nodes |-> awaited[n] \ {t}]
  /\ early' = early \ {t} /\ misled' = misled \ {t}

\* Mutant: leaving an inner section already unpins the thread.
ExitCriticalAtOnce(t) ==
  /\ Idle(t) /\ critical_depth[t] > 0
  /\ critical_depth' = [critical_depth EXCEPT ![t] = critical_depth[t] - 1]
  /\ IF critical_depth[t] = 1 THEN ptr' = [ptr EXCEPT ![t] = NoNode] /\ Left(t)
                             ELSE UNCHANGED <<ptr, history>>
  /\ StoreLocal(t, Inactive)
  /\ UNCHANGED <<global_epoch_, list, active, retirement_batches, heap, tls_tcb, pc, epoch, old,
                 min_epoch, todo>>

ExitCritical(t) ==
  /\ Idle(t) /\ critical_depth[t] > 0
  /\ critical_depth' = [critical_depth EXCEPT ![t] = critical_depth[t] - 1]
  /\ IF critical_depth[t] = 1
       THEN ptr' = [ptr EXCEPT ![t] = NoNode] /\ StoreLocal(t, Inactive) /\ Left(t)
       ELSE UNCHANGED <<ptr, local_epoch, store_buffer, history>>
  /\ UNCHANGED <<global_epoch_, list, active, retirement_batches, heap, tls_tcb, pc, epoch, old,
                 min_epoch, todo>>

-----------------------------------------------------------------------------
(* Writers, one at a time under the mutex, which drains their store        *)
(* buffer: the pointer is replaced and the old node is retired.            *)

Swap(t) ==
  /\ Idle(t) /\ store_buffer[t] = Empty /\ pending = {}
  /\ \E n \in Nodes \ allocated :
       /\ link' = n
       /\ allocated' = allocated \cup {n}
  /\ old' = [old EXCEPT ![t] = link]
  /\ Goto(t, "retire")
  /\ UNCHANGED <<shared, freed, tls_tcb, critical_depth, epoch, ptr, min_epoch, todo, store_buffer,
                 history>>

(* Put and Remove: generation_.fetch_add follows the store of the link.    *)
Replace(t) == Swap(t) /\ visible' = link' /\ UNCHANGED pending

(* Resize: Retire follows the store of the table.                          *)
ReplaceTable(t) == Resizing /\ Swap(t) /\ pending' = {t} /\ UNCHANGED visible

RetireLoad(t) ==
  /\ pc[t] = "retire" /\ tls_tcb[t] # NoTcb
  /\ epoch' = [epoch EXCEPT ![t] = global_epoch_]
  /\ awaited' = [awaited EXCEPT ![old[t]] = Pinned]
  /\ Goto(t, "batch")
  /\ UNCHANGED <<shared, heap, tls_tcb, critical_depth, ptr, old, min_epoch, todo, store_buffer,
                 early, misled>>

(* The batch of this epoch is always the last one: epochs only grow.       *)
Retire(t) ==
  /\ pc[t] = "batch"
  /\ retirement_batches' = [retirement_batches EXCEPT ![tls_tcb[t]] =
                              retirement_batches[tls_tcb[t]] \cup {<<epoch[t], old[t]>>}]
  /\ Goto(t, IF Cardinality({x \in retirement_batches'[tls_tcb[t]] : x[1] = epoch[t]}) >= Threshold
               THEN "gc" ELSE "idle")
  /\ old' = [old EXCEPT ![t] = NoNode] /\ epoch' = [epoch EXCEPT ![t] = 0]
  /\ UNCHANGED <<global_epoch_, list, active, local_epoch, heap, tls_tcb, critical_depth, ptr,
                 min_epoch, todo, store_buffer, history>>

-----------------------------------------------------------------------------
(* Gc, called by Retire or by anyone.                                      *)

Gc(t) ==
  /\ Idle(t)
  /\ Goto(t, "gc")
  /\ UNCHANGED <<shared, heap, tls_tcb, critical_depth, epoch, ptr, old, min_epoch, todo, store_buffer, history>>

GcMin(t) ==
  /\ pc[t] = "gc" /\ global_epoch_ < MaxEpoch
  /\ min_epoch' = [min_epoch EXCEPT ![t] = global_epoch_]
  /\ Goto(t, "head")
  /\ UNCHANGED <<shared, heap, tls_tcb, critical_depth, epoch, ptr, old, todo, store_buffer, history>>

(* Blocks registered after this load are not in the list that is walked.   *)
GcHead(t) ==
  /\ pc[t] = "head"
  /\ todo' = [todo EXCEPT ![t] = list]
  /\ Goto(t, "scan")
  /\ UNCHANGED <<shared, heap, tls_tcb, critical_depth, epoch, ptr, old, min_epoch, store_buffer, history>>

\* Mutant: a block pinned to an older epoch does not lower the minimum.
GcScanIgnores(t, b) ==
  /\ pc[t] = "scan" /\ b \in todo[t]
  /\ todo' = [todo EXCEPT ![t] = todo[t] \ {b}]
  /\ UNCHANGED <<shared, heap, tls_tcb, critical_depth, pc, epoch, ptr, old, min_epoch, store_buffer, history>>

GcScan(t, b) ==
  /\ pc[t] = "scan" /\ b \in todo[t]
  /\ todo' = [todo EXCEPT ![t] = todo[t] \ {b}]
  /\ min_epoch' = [min_epoch EXCEPT ![t] =
       IF active[b] /\ Local(t, b) # Inactive /\ Local(t, b) < min_epoch[t]
         THEN Local(t, b) ELSE min_epoch[t]]
  /\ UNCHANGED <<shared, heap, tls_tcb, critical_depth, pc, epoch, ptr, old, store_buffer, history>>

GcScanned(t) ==
  /\ pc[t] = "scan" /\ todo[t] = {}
  /\ IF min_epoch[t] = global_epoch_
       THEN Goto(t, "cas") /\ epoch' = [epoch EXCEPT ![t] = global_epoch_]
       ELSE Goto(t, "free") /\ UNCHANGED epoch
  /\ UNCHANGED <<shared, heap, tls_tcb, critical_depth, ptr, old, min_epoch, todo, store_buffer, history>>

GcAdvance(t) ==
  /\ pc[t] = "cas" /\ Drained(t)
  /\ global_epoch_' = IF global_epoch_ = epoch[t] THEN global_epoch_ + 1 ELSE global_epoch_
  /\ epoch' = [epoch EXCEPT ![t] = 0]
  /\ Goto(t, "free")
  /\ UNCHANGED <<list, active, local_epoch, retirement_batches, heap, tls_tcb, critical_depth, ptr,
                 old, min_epoch, todo, store_buffer, history>>

\* Mutant: the freed batches are not erased.
GcFreeKeeps(t) ==
  /\ pc[t] = "free"
  /\ IF tls_tcb[t] = NoTcb THEN UNCHANGED <<retirement_batches, freed>> ELSE
       LET old_enough == {x \in retirement_batches[tls_tcb[t]] : x[1] < min_epoch[t]} IN
       /\ freed' = freed \cup {x[2] : x \in old_enough}
       /\ UNCHANGED retirement_batches
  /\ min_epoch' = [min_epoch EXCEPT ![t] = 0]
  /\ Goto(t, "idle")
  /\ UNCHANGED <<global_epoch_, list, active, local_epoch, link, visible, pending, allocated, tls_tcb,
                 critical_depth, epoch, ptr, old, todo, store_buffer, history>>

\* Mutant: what was retired in the epoch of the minimum is freed as well.
GcFreeInclusive(t) ==
  /\ pc[t] = "free"
  /\ IF tls_tcb[t] = NoTcb THEN UNCHANGED <<retirement_batches, freed>> ELSE
       LET old_enough == {x \in retirement_batches[tls_tcb[t]] : x[1] <= min_epoch[t]} IN
       /\ freed' = freed \cup {x[2] : x \in old_enough}
       /\ retirement_batches' = [retirement_batches EXCEPT ![tls_tcb[t]] =
                                   retirement_batches[tls_tcb[t]] \ old_enough]
  /\ min_epoch' = [min_epoch EXCEPT ![t] = 0]
  /\ Goto(t, "idle")
  /\ UNCHANGED <<global_epoch_, list, active, local_epoch, link, visible, pending, allocated, tls_tcb,
                 critical_depth, epoch, ptr, old, todo, store_buffer, history>>

GcFree(t) ==
  /\ pc[t] = "free"
  /\ IF tls_tcb[t] = NoTcb THEN UNCHANGED <<retirement_batches, freed>> ELSE
       LET old_enough == {x \in retirement_batches[tls_tcb[t]] : x[1] < min_epoch[t]} IN
       /\ freed' = freed \cup {x[2] : x \in old_enough}
       /\ retirement_batches' = [retirement_batches EXCEPT ![tls_tcb[t]] =
                                   retirement_batches[tls_tcb[t]] \ old_enough]
  /\ min_epoch' = [min_epoch EXCEPT ![t] = 0]
  /\ Goto(t, "idle")
  /\ UNCHANGED <<global_epoch_, list, active, local_epoch, link, visible, pending, allocated, tls_tcb,
                 critical_depth, epoch, ptr, old, todo, store_buffer, history>>

-----------------------------------------------------------------------------
GcStep(t) == \/ GcMin(t) \/ GcHead(t) \/ GcScanned(t) \/ GcAdvance(t) \/ GcFree(t)
             \/ \E b \in Tcbs : GcScan(t, b)

Step(t) ==
  \/ Drain(t) \/ Publish(t) \/ RegisterThread(t) \/ UnregisterThread(t)
  \/ EnterNested(t) \/ EnterCritical(t) \/ Pin(t) \/ Follow(t) \/ ExitCritical(t)
  \/ Replace(t) \/ ReplaceTable(t) \/ RetireLoad(t) \/ Retire(t)
  \/ Gc(t) \/ GcStep(t)

Next == \E t \in Threads : Step(t)

Spec == Init /\ [][Next]_vars

-----------------------------------------------------------------------------
(* No thread that followed the pointer once its pin was visible, and not   *)
(* to a node that had already been retired, holds a node that is freed,    *)
(* whatever it and the others delay otherwise.                             *)
NoUseAfterFree == \A t \in Threads \ (early \cup misled) : ptr[t] \notin freed

(* README.md: nodes are "reclaimed only after older epochs have quiesced,  *)
(* guaranteeing memory safety": no reader holds a node that is freed.      *)
MemorySafe == \A t \in Threads : ptr[t] \notin freed

(* A node is in the structure, with the writer that unlinked it, in one    *)
(* batch or freed, and never in two of these places: nothing is freed      *)
(* twice or freed while it can still be found, but for a table whose       *)
(* successor is not visible yet.                                           *)
OnePlace ==
  /\ link \notin freed
  /\ \A t \in Threads : old[t] # NoNode => old[t] # link /\ old[t] \notin freed
  /\ \A t, u \in Threads : t # u /\ old[t] = old[u] => old[t] = NoNode
  /\ \A b \in Tcbs :
       /\ link \notin Retired(b) /\ Retired(b) \cap freed = {}
       /\ \A x, y \in retirement_batches[b] : x[2] = y[2] => x = y
       /\ \A t \in Threads : old[t] \notin Retired(b)
       /\ \A c \in Tcbs \ {b} : Retired(b) \cap Retired(c) = {}

(* Ebr is a reclamation by grace periods: a node is given back only when   *)
(* all threads have left whose pin was visible when Retire loaded its epoch. *)
Waits == {<<n, awaited[n]>> : n \in Tagged}

Periods == INSTANCE GracePeriods WITH Objects <- Nodes, pinned <- Pinned, retired <- Waits

ImplementsGracePeriods == Periods!Spec

-----------------------------------------------------------------------------
(* The inductive invariant.                                                *)

Allocated ==
  /\ {link, visible} \cup freed \subseteq allocated
  /\ \A t \in Threads : old[t] # NoNode => old[t] \in allocated
  /\ \A b \in Tcbs : Retired(b) \subseteq allocated
  /\ pending = {} => visible = link

(* A thread's block is its own, and in the list.                           *)
BlockInv ==
  /\ \A t \in Threads :
       /\ tls_tcb[t] # NoTcb => tls_tcb[t] \in list /\ active[tls_tcb[t]]
       /\ critical_depth[t] > 0 \/ store_buffer[t] # Empty \/ pc[t] \in {"pin", "batch"}
            => tls_tcb[t] # NoTcb
       /\ pc[t] \in {"retire", "batch"} <=> old[t] # NoNode
  /\ \A t, u \in Threads : t # u /\ tls_tcb[t] = tls_tcb[u] => tls_tcb[t] = NoTcb
  /\ \A b \in Tcbs \ list : active[b]

PinOf(t) == local_epoch[tls_tcb[t]]

(* In a critical section a thread is pinned to an epoch that has begun, or *)
(* is about to be.                                                         *)
PinInv ==
  /\ global_epoch_ > 0
  /\ \A t \in Threads :
       /\ pc[t] = "pin" => epoch[t] \in 1 .. global_epoch_ /\ critical_depth[t] > 0
       /\ store_buffer[t] # Empty => store_buffer[t] \in 0 .. global_epoch_
       /\ critical_depth[t] > 0 /\ pc[t] # "pin" /\ store_buffer[t] # Empty => store_buffer[t] > 0
       /\ t \in Pinned => PinOf(t) \in 1 .. global_epoch_

(* Who waits for whom: a node that awaits a thread was retired in no epoch *)
(* before the one that thread is pinned to.                                *)
HoldInv ==
  \A n \in Nodes : \A t \in awaited[n] :
    /\ t \in Pinned
    /\ \A w \in Threads : pc[w] = "batch" /\ old[w] = n => PinOf(t) <= epoch[w]
    /\ \A b \in Tcbs : \A x \in retirement_batches[b] : x[2] = n => PinOf(t) <= x[1]

(* A Gc that could free it has that thread's block still to look at or has *)
(* taken it into the minimum; so what is freed awaits nobody.              *)
GcInv ==
  \A n \in Nodes : \A t \in awaited[n] :
    /\ n \in Tagged
    /\ \A w \in Threads : tls_tcb[w] # NoTcb /\ n \in Retired(tls_tcb[w]) =>
         /\ pc[w] = "scan" => tls_tcb[t] \in todo[w] \/ min_epoch[w] <= PinOf(t)
         /\ pc[w] \in {"cas", "free"} => min_epoch[w] <= PinOf(t)

(* A node that a thread followed in good time awaits it once it is retired. *)
ReaderInv ==
  \A t \in Threads : ptr[t] # NoNode =>
    /\ critical_depth[t] > 0 /\ pc[t] # "pin" /\ ptr[t] \in allocated
    /\ t \notin early => t \in Pinned
    /\ t \notin early \cup misled /\ ptr[t] \in Tagged \cup freed => t \in awaited[ptr[t]]

EbrInv ==
  TypeOK /\ OnePlace /\ Allocated /\ BlockInv /\ PinInv /\ HoldInv /\ GcInv /\ ReaderInv
=============================================================================
