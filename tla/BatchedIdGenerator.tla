-------------------------- MODULE BatchedIdGenerator --------------------------
(***************************************************************************)
(* BatchedIdGenerator (common/mesi_coherency/mesi_coherency.h): every      *)
(* thread takes its identifiers from a lease of its own, and leases come   *)
(* from one global counter.  The fetch_add is the only access to shared    *)
(* memory, so a call is one step.                                          *)
(***************************************************************************)
EXTENDS Integers, FiniteSets

CONSTANTS
  Threads,
  BatchSize,
  Iterations      \* how often a thread calls NextId

ASSUME LeaseAssumption == BatchSize \in Nat \ {0}

VARIABLES
  global_id_,
  cur, batch_end,     \* the lease of each thread
  calls,              \* the calls each thread has made
  issued              \* history: the identifiers each thread was given

vars == <<global_id_, cur, batch_end, calls, issued>>

Init ==
  /\ global_id_ = 0
  /\ cur = [t \in Threads |-> 0] /\ batch_end = [t \in Threads |-> 0]
  /\ calls = [t \in Threads |-> 0]
  /\ issued = [t \in Threads |-> {}]

Issue(t, id, end) ==
  /\ calls[t] < Iterations
  /\ issued' = [issued EXCEPT ![t] = issued[t] \cup {id}]
  /\ cur' = [cur EXCEPT ![t] = id + 1]
  /\ batch_end' = [batch_end EXCEPT ![t] = end]
  /\ calls' = [calls EXCEPT ![t] = calls[t] + 1]

FromLease(t) ==
  /\ cur[t] # batch_end[t]
  /\ Issue(t, cur[t], batch_end[t])
  /\ UNCHANGED global_id_

\* Mutant: a lease is one identifier longer than what was added.
RefillLong(t) ==
  /\ cur[t] = batch_end[t]
  /\ Issue(t, global_id_, global_id_ + BatchSize + 1)
  /\ global_id_' = global_id_ + BatchSize

Refill(t) ==
  /\ cur[t] = batch_end[t]
  /\ Issue(t, global_id_, global_id_ + BatchSize)
  /\ global_id_' = global_id_ + BatchSize

NextId(t) == FromLease(t) \/ Refill(t)

Next == \E t \in Threads : NextId(t)

Spec == Init /\ [][Next]_vars

-----------------------------------------------------------------------------
(* No identifier is given out twice: not to two threads, and not to one,   *)
(* whose identifiers increase; all lie below the global watermark.         *)
IdsUnique ==
  /\ \A t, u \in Threads : t # u => issued[t] \cap issued[u] = {}
  /\ \A t \in Threads : \A id \in issued[t] : id < cur[t] /\ id < global_id_

-----------------------------------------------------------------------------
(* The inductive invariant: what is left of a lease is below the watermark *)
(* and has been given to nobody else, as a lease or one by one.            *)
TypeOK ==
  /\ global_id_ \in Nat
  /\ cur \in [Threads -> Nat] /\ batch_end \in [Threads -> Nat]
  /\ calls \in [Threads -> Nat]
  /\ issued \in [Threads -> SUBSET Nat]

LeasesInv ==
  /\ \A t \in Threads : cur[t] <= batch_end[t] /\ batch_end[t] <= global_id_
  /\ \A t, u \in Threads : t # u /\ cur[t] < batch_end[t] =>
       /\ cur[u] < batch_end[u] => batch_end[t] <= cur[u] \/ batch_end[u] <= cur[t]
       /\ \A id \in issued[u] : id < cur[t] \/ batch_end[t] <= id

LeaseInv == TypeOK /\ LeasesInv /\ IdsUnique
===============================================================================
