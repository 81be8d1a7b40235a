------------------------------- MODULE SpscRing -------------------------------
(***************************************************************************)
(* SpscRingBuffer (common/store_buffer/store_buffer.h): one thread pushes, *)
(* another pops.  A thread's loads of its own index need no step; stores   *)
(* become visible in program order on x86 whether they are seq_cst or      *)
(* release, so both variants of the calls take these steps.                *)
(***************************************************************************)
EXTENDS Integers, Sequences

CONSTANTS
  Items,
  NoItem,      \* what value-initialisation gives
  Capacity,
  Modulus      \* 2^64: the indices are size_t

VARIABLES
  write_idx_, read_idx_, slots_,
  ppc, pushing,   \* the producer: where it is in TryPush, and its item
  kpc, popping,   \* the consumer: where it is in TryPop, and its copy
  out             \* what the last TryPop returned

producer == <<write_idx_, slots_, ppc, pushing>>
consumer == <<read_idx_, kpc, popping, out>>
vars == <<producer, consumer>>

Init ==
  /\ write_idx_ = 0 /\ read_idx_ = 0
  /\ slots_ = [i \in 0 .. Capacity - 1 |-> NoItem]
  /\ ppc = "idle" /\ pushing = NoItem
  /\ kpc = "idle" /\ popping = NoItem /\ out = NoItem

Slot(idx) == idx % Capacity
Used == (write_idx_ - read_idx_) % Modulus

-----------------------------------------------------------------------------
\* Mutant: the ring is full one item too late.
TryPushLate(item) ==
  /\ ppc = "idle" /\ Used <= Capacity
  /\ ppc' = "write" /\ pushing' = item
  /\ UNCHANGED <<write_idx_, slots_, consumer>>

(* A push that finds the ring full returns false and changes nothing.      *)
TryPush(item) ==
  /\ ppc = "idle" /\ Used < Capacity
  /\ ppc' = "write" /\ pushing' = item
  /\ UNCHANGED <<write_idx_, slots_, consumer>>

PushWrite ==
  /\ ppc = "write"
  /\ slots_' = [slots_ EXCEPT ![Slot(write_idx_)] = pushing]
  /\ ppc' = "publish"
  /\ UNCHANGED <<write_idx_, pushing, consumer>>

PushPublish ==
  /\ ppc = "publish"
  /\ write_idx_' = (write_idx_ + 1) % Modulus
  /\ ppc' = "idle" /\ pushing' = NoItem
  /\ UNCHANGED <<slots_, consumer>>

-----------------------------------------------------------------------------
\* Mutant: TryPop does not look whether the ring is empty.
TryPopUnchecked ==
  /\ kpc = "idle"
  /\ kpc' = "read"
  /\ UNCHANGED <<read_idx_, popping, out, producer>>

(* A pop that finds the ring empty returns false and changes nothing.      *)
TryPop ==
  /\ kpc = "idle" /\ read_idx_ # write_idx_
  /\ kpc' = "read"
  /\ UNCHANGED <<read_idx_, popping, out, producer>>

PopRead ==
  /\ kpc = "read"
  /\ popping' = slots_[Slot(read_idx_)]
  /\ kpc' = "publish"
  /\ UNCHANGED <<read_idx_, out, producer>>

PopPublish ==
  /\ kpc = "publish"
  /\ read_idx_' = (read_idx_ + 1) % Modulus
  /\ out' = popping
  /\ kpc' = "idle" /\ popping' = NoItem
  /\ UNCHANGED producer

Next ==
  \/ \E item \in Items : TryPush(item)
  \/ PushWrite \/ PushPublish \/ TryPop \/ PopRead \/ PopPublish

Spec == Init /\ [][Next]_vars

-----------------------------------------------------------------------------
(* The producer never writes the slot that the consumer reads: the payload *)
(* is not atomic.                                                          *)
SlotsApart == ~ (ppc = "write" /\ kpc = "read" /\ Slot(write_idx_) = Slot(read_idx_))

(* The ring is a bounded queue, also after its indices have wrapped.       *)
Queue == INSTANCE BoundedQueue WITH
  queue <- [i \in 1 .. Used |-> slots_[Slot(read_idx_ + i - 1)]]

ImplementsQueue == Queue!Spec

-----------------------------------------------------------------------------
(* Both sizes are powers of two, and the indices count past Capacity.      *)
PowersOfTwo ==
  /\ Capacity \in Nat \ {0} /\ Modulus \in Nat
  /\ Capacity < Modulus /\ Modulus % Capacity = 0

(* The inductive invariant: who has seen room or an item still has it.     *)
RingInv ==
  /\ write_idx_ \in 0 .. Modulus - 1 /\ read_idx_ \in 0 .. Modulus - 1
  /\ ppc \in {"idle", "write", "publish"} /\ kpc \in {"idle", "read", "publish"}
  /\ Used <= Capacity
  /\ ppc # "idle" => Used < Capacity
  /\ kpc # "idle" => Used > 0

(* And what the two threads have in their hands is what the slots hold.    *)
QueueInv ==
  /\ RingInv
  /\ slots_ \in [0 .. Capacity - 1 -> Items \cup {NoItem}]
  /\ ppc # "idle" => pushing \in Items
  /\ ppc = "publish" => slots_[Slot(write_idx_)] = pushing
  /\ kpc = "publish" => popping = slots_[Slot(read_idx_)]
=============================================================================
