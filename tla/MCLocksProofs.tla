---------------------------- MODULE MCLocksProofs ----------------------------
(***************************************************************************)
(* The single-producer ring, the sequence lock and the route cache, for    *)
(* every value of their constants, and what that gives their composition   *)
(* MCSpec: SpscRingBuffer is a bounded queue, SeqLock an atomic snapshot,  *)
(* and SeqlockRouteCache fresh and consistent as long as one thread writes.*)
(***************************************************************************)
EXTENDS MCLocks, SequenceTheorems, TLAPS

(* SpscRing.                                                               *)

(* Arithmetic modulo m.                                                    *)
LEMMA ModSmall ==
  ASSUME NEW m \in Nat \ {0}, NEW x \in Int, -m <= x, x < m
  PROVE  x % m = IF x >= 0 THEN x ELSE x + m
  OBVIOUS

LEMMA SameRemainder ==
  ASSUME NEW m \in Nat \ {0}, NEW x \in Int, NEW y \in Int, x % m = y % m
  PROVE  (x - y) % m = 0
  OBVIOUS

LEMMA NoRemainder ==
  ASSUME NEW m \in Nat \ {0}, NEW x \in Int, 0 < x, x < m
  PROVE  x % m # 0
  OBVIOUS

-----------------------------------------------------------------------------
(* How many items there are, without a remainder.                          *)
LEMMA UsedIs ==
  ASSUME Ring!PowersOfTwo, NEW w \in 0 .. Modulus - 1, NEW r \in 0 .. Modulus - 1
  PROVE  (w - r) % Modulus = IF w >= r THEN w - r ELSE w - r + Modulus
<1> DEFINE d == w - r
<1>1. Modulus \in Nat \ {0} /\ d \in Int /\ -Modulus <= d /\ d < Modulus
  BY DEF Ring!PowersOfTwo
<1>2. d >= 0 <=> w >= r
  OBVIOUS
<1> HIDE DEF d
<1>3. d % Modulus = IF d >= 0 THEN d ELSE d + Modulus
  BY <1>1, ModSmall
<1> QED
  BY <1>2, <1>3 DEF d

LEMMA Successor ==
  ASSUME Ring!PowersOfTwo, NEW i \in 0 .. Modulus - 1
  PROVE  (i + 1) % Modulus = IF i + 1 = Modulus THEN 0 ELSE i + 1
<1>1. CASE i + 1 = Modulus
  BY <1>1 DEF Ring!PowersOfTwo
<1>2. CASE i + 1 # Modulus
  <2>1. i + 1 \in Int /\ -Modulus <= i + 1 /\ i + 1 < Modulus /\ Modulus \in Nat \ {0}
    BY <1>2 DEF Ring!PowersOfTwo
  <2> QED
    BY <1>2, <2>1, ModSmall
<1> QED
  BY <1>1, <1>2

(* A push adds an item and a pop takes one away, also where the index      *)
(* wraps.                                                                  *)
LEMMA PushGrows ==
  ASSUME Ring!PowersOfTwo, Ring!RingInv, Ring!PushPublish
  PROVE  Ring!Used \in Int /\ Ring!Used' = Ring!Used + 1 /\ write_idx_' \in 0 .. Modulus - 1
<1>0. Capacity \in Nat \ {0} /\ Modulus \in Nat \ {0} /\ Capacity < Modulus
  BY DEF Ring!PowersOfTwo
<1>1. /\ write_idx_' = (write_idx_ + 1) % Modulus /\ read_idx_' = read_idx_
      /\ Ring!Used < Capacity
  BY DEF Ring!RingInv, Ring!PushPublish, Ring!consumer
<1>2. /\ write_idx_' = IF write_idx_ + 1 = Modulus THEN 0 ELSE write_idx_ + 1
      /\ write_idx_' \in 0 .. Modulus - 1
  BY <1>0, <1>1, Successor DEF Ring!RingInv
<1>3. Ring!Used = IF write_idx_ >= read_idx_ THEN write_idx_ - read_idx_
             ELSE write_idx_ - read_idx_ + Modulus
  BY UsedIs DEF Ring!RingInv, Ring!Used
<1>4. Ring!Used' = IF write_idx_' >= read_idx_' THEN write_idx_' - read_idx_'
              ELSE write_idx_' - read_idx_' + Modulus
  BY <1>1, <1>2, UsedIs DEF Ring!RingInv, Ring!Used
<1>5. Ring!Used' = Ring!Used + 1
  BY <1>0, <1>1, <1>2, <1>3, <1>4 DEF Ring!RingInv
<1> QED
  BY <1>0, <1>2, <1>3, <1>5 DEF Ring!RingInv

LEMMA PopShrinks ==
  ASSUME Ring!PowersOfTwo, Ring!RingInv, Ring!PopPublish
  PROVE  Ring!Used \in Int /\ Ring!Used' = Ring!Used - 1 /\ read_idx_' \in 0 .. Modulus - 1
<1>0. Capacity \in Nat \ {0} /\ Modulus \in Nat \ {0} /\ Capacity < Modulus
  BY DEF Ring!PowersOfTwo
<1>1. /\ read_idx_' = (read_idx_ + 1) % Modulus /\ write_idx_' = write_idx_
      /\ Ring!Used > 0
  BY DEF Ring!RingInv, Ring!PopPublish, Ring!producer
<1>2. /\ read_idx_' = IF read_idx_ + 1 = Modulus THEN 0 ELSE read_idx_ + 1
      /\ read_idx_' \in 0 .. Modulus - 1
  BY <1>0, <1>1, Successor DEF Ring!RingInv
<1>3. Ring!Used = IF write_idx_ >= read_idx_ THEN write_idx_ - read_idx_
             ELSE write_idx_ - read_idx_ + Modulus
  BY UsedIs DEF Ring!RingInv, Ring!Used
<1>4. Ring!Used' = IF write_idx_' >= read_idx_' THEN write_idx_' - read_idx_'
              ELSE write_idx_' - read_idx_' + Modulus
  BY <1>1, <1>2, UsedIs DEF Ring!RingInv, Ring!Used
<1>5. Ring!Used' = Ring!Used - 1
  BY <1>0, <1>1, <1>2, <1>3, <1>4 DEF Ring!RingInv
<1> QED
  BY <1>0, <1>2, <1>3, <1>5 DEF Ring!RingInv

(* The invariant of every behaviour.                                       *)
THEOREM RingInvariance == Ring!PowersOfTwo => (Ring!Spec => []Ring!RingInv)
<1> SUFFICES ASSUME Ring!PowersOfTwo PROVE Ring!Spec => []Ring!RingInv
  OBVIOUS
<1>0. Capacity \in Nat \ {0} /\ Modulus \in Nat \ {0} /\ Capacity < Modulus
  BY DEF Ring!PowersOfTwo
<1>1. Ring!Init => Ring!RingInv
  <2>1. (0 - 0) % Modulus = 0
    BY <1>0, UsedIs
  <2> QED
    BY <1>0, <2>1 DEF Ring!Init, Ring!RingInv, Ring!Used
<1>2. Ring!RingInv /\ [Ring!Next]_(Ring!vars) => Ring!RingInv'
  <2> SUFFICES ASSUME Ring!RingInv, [Ring!Next]_(Ring!vars) PROVE Ring!RingInv'
    OBVIOUS
  <2>1. CASE UNCHANGED <<write_idx_, read_idx_, ppc, kpc>>
    BY <2>1 DEF Ring!RingInv, Ring!Used
  <2>2. ASSUME NEW item \in Items, Ring!TryPush(item) PROVE Ring!RingInv'
    BY <2>2 DEF Ring!RingInv, Ring!Used, Ring!TryPush, Ring!consumer
  <2>3. CASE Ring!PushWrite
    BY <2>3 DEF Ring!RingInv, Ring!Used, Ring!PushWrite, Ring!consumer
  <2>4. CASE Ring!PushPublish
    <3>1. /\ write_idx_' = (write_idx_ + 1) % Modulus /\ read_idx_' = read_idx_
          /\ ppc' = "idle" /\ kpc' = kpc /\ Ring!Used < Capacity
      BY <2>4 DEF Ring!RingInv, Ring!PushPublish, Ring!consumer
    <3>2. Ring!Used \in Int /\ Ring!Used' = Ring!Used + 1 /\ write_idx_' \in 0 .. Modulus - 1
      BY <2>4, PushGrows
    <3> QED
      BY <1>0, <3>1, <3>2 DEF Ring!RingInv
  <2>5. CASE Ring!TryPop
    BY <1>0, <2>5, UsedIs DEF Ring!RingInv, Ring!Used, Ring!TryPop, Ring!producer
  <2>6. CASE Ring!PopRead
    BY <2>6 DEF Ring!RingInv, Ring!Used, Ring!PopRead, Ring!producer
  <2>7. CASE Ring!PopPublish
    <3>1. /\ read_idx_' = (read_idx_ + 1) % Modulus /\ write_idx_' = write_idx_
          /\ kpc' = "idle" /\ ppc' = ppc /\ Ring!Used > 0
      BY <2>7 DEF Ring!RingInv, Ring!PopPublish, Ring!producer
    <3>2. Ring!Used \in Int /\ Ring!Used' = Ring!Used - 1 /\ read_idx_' \in 0 .. Modulus - 1
      BY <2>7, PopShrinks
    <3> QED
      BY <1>0, <3>1, <3>2 DEF Ring!RingInv
  <2> QED
    BY <2>1, <2>2, <2>3, <2>4, <2>5, <2>6, <2>7 DEF Ring!Next, Ring!vars, Ring!producer,
       Ring!consumer
<1> QED
  BY <1>1, <1>2, PTL DEF Ring!Spec

(* The producer never writes the slot that the consumer reads.             *)
LEMMA SlotsStayApart == Ring!PowersOfTwo => (Ring!Spec => []Ring!SlotsApart)
<1> SUFFICES ASSUME Ring!PowersOfTwo PROVE Ring!Spec => []Ring!SlotsApart
  OBVIOUS
<1>1. Ring!RingInv => Ring!SlotsApart
  <2> SUFFICES ASSUME Ring!RingInv, ppc = "write", kpc = "read", Ring!Slot(write_idx_) = Ring!Slot(read_idx_)
               PROVE  FALSE
    BY DEF Ring!SlotsApart
  <2>0. /\ Capacity \in Nat \ {0} /\ Modulus \in Nat \ {0}
        /\ write_idx_ \in 0 .. Modulus - 1 /\ read_idx_ \in 0 .. Modulus - 1
        /\ 0 < Ring!Used /\ Ring!Used < Capacity
    BY DEF Ring!RingInv, Ring!PowersOfTwo
  <2>1. /\ (write_idx_ - read_idx_) % Capacity = 0
        /\ (read_idx_ - write_idx_) % Capacity = 0
    <3>1. write_idx_ % Capacity = read_idx_ % Capacity
      BY DEF Ring!Slot
    <3>2. write_idx_ \in Int /\ read_idx_ \in Int /\ Capacity \in Nat \ {0}
      BY <2>0
    <3> QED
      BY <3>1, <3>2, SameRemainder, Zenon
  <2>2. CASE write_idx_ >= read_idx_
    <3>1. Ring!Used = write_idx_ - read_idx_
      BY <2>2, UsedIs DEF Ring!RingInv, Ring!Used
    <3> QED
      BY <2>0, <2>1, <3>1, NoRemainder
  <2>3. CASE write_idx_ < read_idx_
    <3>1. Ring!Used = Modulus - (read_idx_ - write_idx_)
      BY <2>0, <2>3, UsedIs DEF Ring!RingInv, Ring!Used
    <3>2. (Modulus - (read_idx_ - write_idx_)) % Capacity = 0
      <4> DEFINE d == read_idx_ - write_idx_
      <4>1. d \in Int /\ Modulus \in Int /\ Capacity \in Nat \ {0}
        BY <2>0
      <4>2. Modulus % Capacity = d % Capacity
        BY <2>1 DEF Ring!PowersOfTwo
      <4> HIDE DEF d
      <4>3. (Modulus - d) % Capacity = 0
        BY <4>1, <4>2, SameRemainder, Zenon
      <4> QED
        BY <4>3 DEF d
    <3>3. Ring!Used \in Int
      BY <2>0, <3>1
    <3> QED
      BY <2>0, <3>1, <3>2, <3>3, NoRemainder
  <2> QED
    BY <2>0, <2>2, <2>3
<1> QED
  BY <1>1, RingInvariance, PTL

(* A number is a multiple and a remainder, so multiples do not change it.  *)
LEMMA Quotient ==
  ASSUME NEW m \in Nat, m > 0, NEW x \in Int
  PROVE  \E q \in Int, k \in 0 .. m - 1 : x = m * q + k /\ k = x % m
<1>1. x \div m \in Int /\ x % m \in 0 .. m - 1
  OBVIOUS
<1>2. x = m * (x \div m) + (x % m)
  BY Z3
<1> QED
  BY <1>1, <1>2

LEMMA Multiple ==
  ASSUME NEW m \in Nat, m > 0, NEW x \in Int, NEW y \in Int, y % m = 0
  PROVE  (x + y) % m = x % m
<1>1. PICK q \in Int, k \in 0 .. m - 1 : x = m * q + k /\ k = x % m
  BY Quotient
<1>2. PICK p \in Int : y = m * p
  <2>1. PICK p \in Int, l \in 0 .. m - 1 : y = m * p + l /\ l = y % m
    BY Quotient
  <2> QED
    BY <2>1
<1>3. x + y = m * (q + p) + k /\ q + p \in Int
  BY <1>1, <1>2
<1>4. (m * (q + p) + k) % m = k
  BY <1>1
<1> QED
  BY <1>1, <1>3, <1>4

(* A slot is the same a whole round of the indices later.                  *)
LEMMA Round ==
  ASSUME Ring!PowersOfTwo, NEW x \in Int
  PROVE  Ring!Slot(x + Modulus) = Ring!Slot(x) /\ Ring!Slot(x) \in 0 .. Capacity - 1
<1>1. Capacity \in Nat /\ Capacity > 0 /\ Modulus \in Int /\ Modulus % Capacity = 0
  BY DEF Ring!PowersOfTwo
<1>2. (x + Modulus) % Capacity = x % Capacity
  BY <1>1, Multiple, Zenon
<1>3. x % Capacity \in 0 .. Capacity - 1
  BY <1>1
<1> QED
  BY <1>2, <1>3 DEF Ring!Slot

(* The items are in the slots behind write_idx_, each in one of its own.   *)
LEMMA SlotBehind ==
  ASSUME Ring!PowersOfTwo, Ring!RingInv
  PROVE  /\ Ring!Used \in 0 .. Capacity
         /\ Ring!Slot(read_idx_ + Ring!Used) = Ring!Slot(write_idx_)
         /\ \A i \in Nat : i < Ring!Used /\ Ring!Used < Capacity =>
              Ring!Slot(read_idx_ + i) # Ring!Slot(write_idx_)
<1>0. /\ Capacity \in Nat \ {0} /\ Modulus \in Nat \ {0}
      /\ write_idx_ \in 0 .. Modulus - 1 /\ read_idx_ \in 0 .. Modulus - 1
      /\ Ring!Used <= Capacity
  BY DEF Ring!PowersOfTwo, Ring!RingInv
<1>1. PICK end \in Nat : /\ end = read_idx_ + Ring!Used /\ end >= read_idx_
                         /\ Ring!Slot(end) = Ring!Slot(write_idx_)
  <2>1. CASE write_idx_ >= read_idx_
    <3>1. Ring!Used = write_idx_ - read_idx_
      BY <2>1, <1>0, UsedIs DEF Ring!Used
    <3> QED
      BY <1>0, <2>1, <3>1
  <2>2. CASE write_idx_ < read_idx_
    <3>1. Ring!Used = write_idx_ - read_idx_ + Modulus
      BY <2>2, <1>0, UsedIs DEF Ring!Used
    <3>2. read_idx_ + Ring!Used = write_idx_ + Modulus /\ write_idx_ + Modulus \in Nat
      BY <1>0, <3>1
    <3>3. Ring!Slot(write_idx_ + Modulus) = Ring!Slot(write_idx_)
      BY <1>0, Round
    <3> QED
      BY <1>0, <3>2, <3>3
  <2> QED
    BY <1>0, <2>1, <2>2
<1>2. Ring!Used \in Int
  BY <1>0, UsedIs DEF Ring!Used
<1>3. ASSUME NEW i \in Nat, i < Ring!Used, Ring!Used < Capacity,
             Ring!Slot(read_idx_ + i) = Ring!Slot(write_idx_)
      PROVE  FALSE
  <2>1. end % Capacity = (read_idx_ + i) % Capacity
    BY <1>1, <1>3 DEF Ring!Slot
  <2>2. (end - (read_idx_ + i)) % Capacity = 0
    <3>1. end \in Int /\ read_idx_ + i \in Int
      BY <1>0, <1>1
    <3> QED
      BY <1>0, <2>1, <3>1, SameRemainder, Zenon
  <2>3. end - (read_idx_ + i) \in Int /\ 0 < end - (read_idx_ + i) /\ end - (read_idx_ + i) < Capacity
    BY <1>0, <1>1, <1>2, <1>3
  <2> QED
    BY <1>0, <2>2, <2>3, NoRemainder
<1> QED
  BY <1>0, <1>1, <1>2, <1>3

(* Every step keeps QueueInv.                                              *)
LEMMA QueueStep ==
  ASSUME Ring!PowersOfTwo, Ring!QueueInv, Ring!RingInv', [Ring!Next]_(Ring!vars)
  PROVE  Ring!QueueInv'
<1> USE DEF Ring!QueueInv
<1>0. /\ Capacity \in Nat \ {0} /\ Modulus \in Nat \ {0}
      /\ write_idx_ \in Nat /\ read_idx_ \in Nat
      /\ Ring!Slot(write_idx_) \in 0 .. Capacity - 1 /\ Ring!Slot(read_idx_) \in 0 .. Capacity - 1
  <2>1. /\ Capacity \in Nat \ {0} /\ Modulus \in Nat \ {0}
        /\ write_idx_ \in Nat /\ read_idx_ \in Nat
    BY DEF Ring!PowersOfTwo, Ring!RingInv
  <2>2. \A x \in Int : Ring!Slot(x) \in 0 .. Capacity - 1
    BY Round
  <2> QED
    BY <2>1, <2>2
<1>1. CASE UNCHANGED Ring!vars
  BY <1>1 DEF Ring!vars, Ring!producer, Ring!consumer, Ring!Slot
<1>2. ASSUME NEW item \in Items, Ring!TryPush(item) PROVE Ring!QueueInv'
  BY <1>2 DEF Ring!TryPush, Ring!consumer, Ring!Slot
<1>3. CASE Ring!PushWrite
  <2>1. kpc = "publish" => Ring!Slot(read_idx_) # Ring!Slot(write_idx_)
    <3>1. 0 < Ring!Used /\ Ring!Used < Capacity => Ring!Slot(read_idx_ + 0) # Ring!Slot(write_idx_)
      BY SlotBehind
    <3> QED
      BY <1>0, <1>3, <3>1 DEF Ring!PushWrite, Ring!RingInv
  <2> QED
    BY <1>0, <1>3, <2>1 DEF Ring!PushWrite, Ring!consumer, Ring!Slot
<1>4. CASE Ring!PushPublish
  BY <1>4 DEF Ring!PushPublish, Ring!consumer, Ring!Slot
<1>5. CASE Ring!TryPop
  BY <1>5 DEF Ring!TryPop, Ring!producer, Ring!Slot
<1>6. CASE Ring!PopRead
  BY <1>6 DEF Ring!PopRead, Ring!producer, Ring!Slot
<1>7. CASE Ring!PopPublish
  BY <1>7 DEF Ring!PopPublish, Ring!producer, Ring!Slot
<1> QED
  BY <1>1, <1>2, <1>3, <1>4, <1>5, <1>6, <1>7 DEF Ring!Next

(* Tail as a function.                                                     *)
LEMMA TailIs ==
  ASSUME NEW S, NEW q \in Seq(S), q # <<>>
  PROVE  Tail(q) = [i \in 1 .. Len(q) - 1 |-> q[i + 1]]
<1>1. /\ Tail(q) \in Seq(S) /\ Len(Tail(q)) = Len(q) - 1
      /\ \A i \in 1 .. Len(Tail(q)) : Tail(q)[i] = q[i + 1]
  BY HeadTailProperties
<1>2. Tail(q) \in [1 .. Len(Tail(q)) -> S]
  BY <1>1, LenProperties
<1>3. Tail(q) = [i \in 1 .. Len(Tail(q)) |-> Tail(q)[i]]
  BY <1>2, Zenon
<1> QED
  BY <1>1, <1>3

(* The queue that the slots stand for.                                     *)
Contents == [i \in 1 .. Ring!Used |-> slots_[Ring!Slot(read_idx_ + i - 1)]]

(* PushPublish appends, PopPublish takes the head, and no other step       *)
(* changes the queue: PushWrite writes a slot that holds none of it.       *)
LEMMA QueueImplements ==
  ASSUME Ring!PowersOfTwo, Ring!QueueInv, Ring!QueueInv', [Ring!Next]_(Ring!vars)
  PROVE  [Ring!Queue!Next]_(Ring!Queue!vars)
<1> DEFINE S == Items \cup {NoItem}
<1>0. /\ Capacity \in Nat \ {0} /\ Modulus \in Nat \ {0}
      /\ write_idx_ \in 0 .. Modulus - 1 /\ read_idx_ \in 0 .. Modulus - 1
      /\ Ring!Used \in Nat /\ Ring!Used' \in Nat
  <2>1. Ring!Used' \in Nat
    <3>1. write_idx_' - read_idx_' \in Int /\ Modulus \in Nat \ {0}
      BY DEF Ring!QueueInv, Ring!RingInv, Ring!PowersOfTwo
    <3>2. \A d \in Int : d % Modulus \in Nat
      BY <3>1
    <3> QED
      BY <3>1, <3>2 DEF Ring!Used
  <2> QED
    BY <2>1, SlotBehind DEF Ring!QueueInv, Ring!RingInv, Ring!PowersOfTwo
<1>1. /\ Contents \in Seq(S) /\ Len(Contents) = Ring!Used
      /\ \A i \in 1 .. Ring!Used : Contents[i] = slots_[Ring!Slot(read_idx_ + i - 1)]
  <2>1. ASSUME NEW i \in 1 .. Ring!Used PROVE slots_[Ring!Slot(read_idx_ + i - 1)] \in S
    <3>1. read_idx_ + i - 1 \in Int
      BY <1>0
    <3>2. Ring!Slot(read_idx_ + i - 1) \in 0 .. Capacity - 1
      BY <3>1, Round
    <3> QED
      BY <3>2 DEF Ring!QueueInv
  <2> QED
    BY <1>0, <2>1 DEF Contents
<1>2. \/ UNCHANGED <<Contents, out>>
      \/ Contents # <<>> /\ out' = Head(Contents) /\ Contents' = Tail(Contents)
      \/ \E item \in Items :
           Len(Contents) < Capacity /\ Contents' = Append(Contents, item) /\ UNCHANGED out
  <2>1. CASE UNCHANGED <<write_idx_, read_idx_, slots_, out>>
    BY <2>1 DEF Contents, Ring!Used, Ring!Slot
  <2>2. CASE Ring!PushWrite
    <3>1. ASSUME NEW i \in 1 .. Ring!Used
          PROVE  slots_'[Ring!Slot(read_idx_ + i - 1)] = slots_[Ring!Slot(read_idx_ + i - 1)]
      <4>1. i - 1 \in Nat /\ i - 1 < Ring!Used /\ Ring!Used < Capacity
        BY <1>0, <2>2 DEF Ring!PushWrite, Ring!QueueInv, Ring!RingInv
      <4>2. Ring!Slot(read_idx_ + (i - 1)) # Ring!Slot(write_idx_)
        BY <4>1, SlotBehind DEF Ring!QueueInv
      <4>3. read_idx_ + (i - 1) = read_idx_ + i - 1 /\ read_idx_ + i - 1 \in Int
        BY <1>0, <4>1
      <4>4. Ring!Slot(read_idx_ + i - 1) \in 0 .. Capacity - 1
        BY <4>3, Round
      <4> QED
        BY <2>2, <4>2, <4>3, <4>4 DEF Ring!PushWrite, Ring!QueueInv
    <3> QED
      BY <2>2, <3>1 DEF Ring!PushWrite, Contents, Ring!consumer, Ring!Used, Ring!Slot
  <2>3. CASE Ring!PushPublish
    <3>1. /\ write_idx_' = (write_idx_ + 1) % Modulus /\ read_idx_' = read_idx_
          /\ slots_' = slots_ /\ out' = out /\ Ring!Used < Capacity /\ pushing \in Items
          /\ pushing = slots_[Ring!Slot(write_idx_)]
      BY <2>3 DEF Ring!QueueInv, Ring!RingInv, Ring!PushPublish, Ring!consumer
    <3>2. Ring!Used' = Ring!Used + 1
      BY <2>3, PushGrows DEF Ring!QueueInv
    <3>3. Ring!Slot(read_idx_ + (Ring!Used + 1) - 1) = Ring!Slot(write_idx_)
      <4>1. read_idx_ + (Ring!Used + 1) - 1 = read_idx_ + Ring!Used
        BY <1>0
      <4> QED
        BY <4>1, SlotBehind DEF Ring!QueueInv
    <3>4. Contents' = [i \in 1 .. Ring!Used + 1 |-> slots_[Ring!Slot(read_idx_ + i - 1)]]
      BY <3>1, <3>2 DEF Contents, Ring!Slot
    <3>5. ASSUME NEW n \in Nat, n = Ring!Used
          PROVE  [i \in 1 .. n + 1 |-> slots_[Ring!Slot(read_idx_ + i - 1)]]
                   = Append(Contents, pushing)
      BY <1>1, <3>1, <3>3, <3>5
    <3> QED
      BY <1>0, <1>1, <3>1, <3>4, <3>5
  <2>4. CASE Ring!PopPublish
    <3>1. /\ write_idx_' = write_idx_ /\ read_idx_' = (read_idx_ + 1) % Modulus
          /\ slots_' = slots_ /\ Ring!Used > 0 /\ out' = slots_[Ring!Slot(read_idx_)]
      BY <2>4 DEF Ring!QueueInv, Ring!RingInv, Ring!PopPublish, Ring!producer
    <3>2. Ring!Used' = Ring!Used - 1
      BY <2>4, PopShrinks DEF Ring!QueueInv
    <3>3. ASSUME NEW i \in Nat \ {0}
          PROVE  (Ring!Slot(read_idx_ + i - 1))' = Ring!Slot(read_idx_ + (i + 1) - 1)
      <4>1. read_idx_' = IF read_idx_ + 1 = Modulus THEN 0 ELSE read_idx_ + 1
        BY <1>0, <3>1, Successor
      <4>2. CASE read_idx_ + 1 # Modulus
        <5>1. read_idx_' + i - 1 = read_idx_ + (i + 1) - 1
          BY <1>0, <4>1, <4>2
        <5> QED
          BY <5>1 DEF Ring!Slot
      <4>3. CASE read_idx_ + 1 = Modulus
        <5>1. /\ read_idx_' + i - 1 = i - 1 /\ i - 1 \in Int
              /\ read_idx_ + (i + 1) - 1 = (i - 1) + Modulus
          BY <1>0, <4>1, <4>3
        <5>2. Ring!Slot((i - 1) + Modulus) = Ring!Slot(i - 1)
          BY <5>1, Round
        <5> QED
          BY <5>1, <5>2 DEF Ring!Slot
      <4> QED
        BY <4>2, <4>3
    <3>4. Contents' = [i \in 1 .. Ring!Used - 1 |-> slots_[Ring!Slot(read_idx_ + (i + 1) - 1)]]
      <4>1. Contents' = [i \in 1 .. Ring!Used - 1 |-> slots_[(Ring!Slot(read_idx_ + i - 1))']]
        BY <3>1, <3>2 DEF Contents
      <4> QED
        BY <1>0, <3>3, <4>1
    <3>5. Head(Contents) = slots_[Ring!Slot(read_idx_)]
      <4>1. Head(Contents) = Contents[1] /\ 1 \in 1 .. Ring!Used /\ read_idx_ + 1 - 1 = read_idx_
        BY <1>0, <1>1, <3>1
      <4>2. Contents[1] = slots_[Ring!Slot(read_idx_ + 1 - 1)]
        BY <1>1, <4>1
      <4> QED
        BY <4>1, <4>2
    <3>6. Tail(Contents) = [i \in 1 .. Ring!Used - 1 |-> slots_[Ring!Slot(read_idx_ + (i + 1) - 1)]]
      <4>1. Tail(Contents) = [i \in 1 .. Ring!Used - 1 |-> Contents[i + 1]]
        <5>1. Contents # <<>> /\ Contents \in Seq(S) /\ Len(Contents) = Ring!Used
          BY <1>0, <1>1, <3>1
        <5> QED
          BY <5>1, TailIs, Zenon
      <4>2. ASSUME NEW i \in 1 .. Ring!Used - 1
            PROVE  Contents[i + 1] = slots_[Ring!Slot(read_idx_ + (i + 1) - 1)]
        <5>1. i + 1 \in 1 .. Ring!Used
          BY <1>0
        <5> QED
          BY <1>1, <5>1
      <4> QED
        BY <4>1, <4>2
    <3>7. Contents # <<>>
      BY <1>1, <3>1
    <3> QED
      BY <3>1, <3>4, <3>5, <3>6, <3>7
  <2> QED
    BY <2>1, <2>2, <2>3, <2>4
       DEF Ring!Next, Ring!TryPush, Ring!TryPop, Ring!PopRead, Ring!vars, Ring!producer,
          Ring!consumer
<1> QED
  BY <1>2 DEF Contents, Ring!Queue!Next, Ring!Queue!Push, Ring!Queue!Pop, Ring!Queue!vars

(* The ring is created empty.                                              *)
LEMMA QueueInit ==
  Ring!PowersOfTwo /\ NoItem \notin Items /\ Ring!Init => Ring!QueueInv /\ Ring!Queue!Init
<1> SUFFICES ASSUME Ring!PowersOfTwo, NoItem \notin Items, Ring!Init
             PROVE  Ring!QueueInv /\ Ring!Queue!Init
  OBVIOUS
<1>1. Capacity \in Nat \ {0} /\ Modulus \in Nat \ {0} /\ Capacity < Modulus
  BY DEF Ring!PowersOfTwo
<1>2. Ring!Used = 0
  <2>1. (0 - 0) % Modulus = 0
    BY <1>1, UsedIs
  <2> QED
    BY <2>1 DEF Ring!Init, Ring!Used
<1>3. Ring!RingInv
  BY <1>1, <1>2 DEF Ring!Init, Ring!RingInv
<1> QED
  BY <1>1, <1>2, <1>3 DEF Ring!Init, Ring!QueueInv, Ring!Queue!Init

(* SpscRingBuffer is a first-in first-out queue of bounded length.         *)
LEMMA RingIsQueue ==
  Ring!PowersOfTwo /\ NoItem \notin Items => (Ring!Spec => Ring!ImplementsQueue)
<1> SUFFICES ASSUME Ring!PowersOfTwo, NoItem \notin Items PROVE Ring!Spec => Ring!ImplementsQueue
  OBVIOUS
<1>1. Ring!Init => Ring!QueueInv /\ Ring!Queue!Init
  BY QueueInit
<1>2. Ring!RingInv' /\ Ring!QueueInv /\ [Ring!Next]_(Ring!vars) => Ring!QueueInv'
  BY QueueStep
<1>3. Ring!QueueInv /\ Ring!QueueInv' /\ [Ring!Next]_(Ring!vars) => [Ring!Queue!Next]_(Ring!Queue!vars)
  BY QueueImplements
<1> QED
  BY <1>1, <1>2, <1>3, RingInvariance, PTL DEF Ring!Spec, Ring!ImplementsQueue, Ring!Queue!Spec
-----------------------------------------------------------------------------

(* SeqLock.                                                                *)

(* ReadRetry's arithmetic: the parity of sequence_ alternates.             *)
LEMMA OddFlips ==
  ASSUME NEW n \in Nat
  PROVE  /\ SL!Odd(n + 1) <=> ~SL!Odd(n)
         /\ ~SL!Odd(2 * n) /\ SL!Odd(2 * n + 1)
  BY DEF SL!Odd

(* Init, every step of the writer and of a reader keep SeqLockInv.         *)
LEMMA SeqLockInit == SL!Init => SL!SeqLockInv
  BY OddFlips DEF SL!Init, SL!SeqLockInv, SL!TypeOK, SL!PayloadInv, SL!CopyInv, SL!Odd

LEMMA SeqLockStep == SL!SeqLockInv /\ [SL!Next]_(SL!vars) => SL!SeqLockInv'
<1> SUFFICES ASSUME SL!SeqLockInv, [SL!Next]_(SL!vars) PROVE SL!SeqLockInv'
  OBVIOUS
<1> USE DEF SL!SeqLockInv, SL!TypeOK
<1>1. CASE SL!WriteBegin
  <2>1. sequence' = 2 * written + 1 /\ SL!Odd(sequence') /\ sequence' # sequence
    BY <1>1, OddFlips DEF SL!WriteBegin, SL!PayloadInv
  <2>2. SL!TypeOK'
    BY <1>1, <2>1 DEF SL!WriteBegin, SL!reader
  <2>3. SL!PayloadInv'
    BY <1>1, <2>1 DEF SL!WriteBegin, SL!PayloadInv, SL!reader
  <2>4. \A r \in Readers : SL!CopyInv(r)'
    BY <1>1, <2>1 DEF SL!WriteBegin, SL!PayloadInv, SL!CopyInv, SL!reader
  <2> QED BY <2>2, <2>3, <2>4
<1>2. ASSUME NEW f \in Fields, SL!Store(f) PROVE SL!SeqLockInv'
  <2>1. SL!TypeOK'
    BY <1>2 DEF SL!Store, SL!reader
  <2>2. SL!PayloadInv'
    BY <1>2 DEF SL!Store, SL!PayloadInv, SL!reader
  <2>3. \A r \in Readers : SL!CopyInv(r)'
    BY <1>2 DEF SL!Store, SL!CopyInv, SL!reader
  <2> QED BY <2>1, <2>2, <2>3
<1>3. CASE SL!WriteEnd
  <2>1. sequence' = 2 * (written + 1) /\ ~SL!Odd(sequence') /\ sequence' = sequence + 1
    BY <1>3, OddFlips DEF SL!WriteEnd, SL!PayloadInv
  <2>2. SL!TypeOK'
    BY <1>3, <2>1 DEF SL!WriteEnd, SL!reader
  <2>3. SL!PayloadInv'
    BY <1>3, <2>1 DEF SL!WriteEnd, SL!PayloadInv, SL!reader
  <2>4. \A r \in Readers : SL!CopyInv(r)'
    BY <1>3, <2>1 DEF SL!WriteEnd, SL!CopyInv, SL!reader
  <2> QED BY <2>2, <2>3, <2>4
<1>4. ASSUME NEW q \in Readers, SL!Read(q) PROVE SL!SeqLockInv'
  BY <1>4 DEF SL!Read, SL!PayloadInv, SL!CopyInv, SL!writer
<1>5. ASSUME NEW q \in Readers, SL!ReadBegin(q) PROVE SL!SeqLockInv'
  <2>1. SL!TypeOK' /\ SL!PayloadInv'
    BY <1>5 DEF SL!ReadBegin, SL!PayloadInv, SL!writer
  <2>2. \A r \in Readers : SL!CopyInv(r)'
    BY <1>5 DEF SL!ReadBegin, SL!CopyInv, SL!writer
  <2> QED BY <2>1, <2>2
<1>6. ASSUME NEW q \in Readers, NEW f \in Fields, SL!Copy(q, f) PROVE SL!SeqLockInv'
  <2>1. SL!TypeOK' /\ SL!PayloadInv'
    BY <1>6 DEF SL!Copy, SL!PayloadInv, SL!writer
  <2>2. ASSUME NEW r \in Readers PROVE SL!CopyInv(r)'
    <3>1. CASE r = q
      <4>1. ~SL!Odd(sequence) => data[f] = written
        BY DEF SL!PayloadInv
      <4> QED BY <1>6, <3>1, <4>1 DEF SL!Copy, SL!CopyInv, SL!writer
    <3>2. CASE r # q
      BY <1>6, <3>2 DEF SL!Copy, SL!CopyInv, SL!writer
    <3> QED BY <3>1, <3>2
  <2> QED BY <2>1, <2>2
<1>7. ASSUME NEW q \in Readers, SL!Accept(q) \/ SL!Retry(q) PROVE SL!SeqLockInv'
  <2>1. CASE SL!Accept(q)
    BY <1>7, <2>1 DEF SL!Accept, SL!PayloadInv, SL!CopyInv, SL!writer
  <2>2. CASE SL!Retry(q)
    BY <1>7, <2>2 DEF SL!Retry, SL!PayloadInv, SL!CopyInv, SL!writer
  <2> QED BY <1>7, <2>1, <2>2
<1>8. CASE UNCHANGED SL!vars
  BY <1>8 DEF SL!vars, SL!writer, SL!reader, SL!PayloadInv, SL!CopyInv
<1> QED BY <1>1, <1>2, <1>3, <1>4, <1>5, <1>6, <1>7, <1>8 DEF SL!Next, SL!WriterStep, SL!ReaderStep

(* The sequence counts the writes, and a copy made under an unchanged even *)
(* sequence is the payload (SeqLock::ReadRetry's promise).                 *)
LEMMA SeqLockSafe == SL!Spec => []SL!SeqLockInv
  BY SeqLockInit, SeqLockStep, PTL DEF SL!Spec

(* A step of the sequence lock is a step of the snapshot or a stutter: the *)
(* write happens in WriteEnd and the read where ReadRetry accepts.         *)
LEMMA StepImplements ==
  ASSUME SL!SeqLockInv, [SL!Next]_(SL!vars)
  PROVE  [SL!Snapshot!Next]_(SL!Snapshot!vars)
<1> USE DEF SL!SeqLockInv, SL!TypeOK, SL!Snapshot!Next, SL!Snapshot!vars
<1>1. CASE SL!WriteEnd
  <2>1. [f \in Fields |-> written'] \in [Fields -> Nat]
    BY <1>1 DEF SL!WriteEnd
  <2> QED BY <1>1, <2>1 DEF SL!WriteEnd, SL!reader, SL!Snapshot!Write
<1>2. ASSUME NEW r \in Readers, SL!Accept(r) PROVE SL!Snapshot!Next
  <2>1. local[r] = [f \in Fields |-> written]
    BY <1>2 DEF SL!Accept, SL!CopyInv
  <2> QED BY <1>2, <2>1 DEF SL!Accept, SL!writer, SL!Snapshot!Read
<1>3. CASE SL!WriteBegin \/ (\E f \in Fields : SL!Store(f))
  BY <1>3 DEF SL!WriteBegin, SL!Store, SL!reader
<1>4. ASSUME NEW r \in Readers,
             SL!Read(r) \/ SL!ReadBegin(r) \/ SL!Retry(r) \/ (\E f \in Fields : SL!Copy(r, f))
      PROVE  UNCHANGED <<written, result>>
  BY <1>4 DEF SL!Read, SL!ReadBegin, SL!Retry, SL!Copy, SL!writer
<1>5. CASE UNCHANGED SL!vars
  BY <1>5 DEF SL!vars, SL!writer, SL!reader
<1> QED BY <1>1, <1>2, <1>3, <1>4, <1>5 DEF SL!Next, SL!WriterStep, SL!ReaderStep

(* Torn reads are impossible, and reads are ordered as the writes are.     *)
LEMMA SeqLockImplementsSnapshot == SL!Spec => SL!ImplementsSnapshot
<1>1. SL!Init => SL!Snapshot!Init
  <2> SUFFICES ASSUME SL!Init PROVE SL!Snapshot!Init
    OBVIOUS
  <2>1. [f \in Fields |-> written] \in [Fields -> Nat]
    BY DEF SL!Init
  <2> QED BY <2>1 DEF SL!Init, SL!Snapshot!Init
<1>2. SL!SeqLockInv /\ [SL!Next]_(SL!vars) => [SL!Snapshot!Next]_(SL!Snapshot!vars)
  BY StepImplements
<1> QED BY <1>1, <1>2, SeqLockSafe, PTL DEF SL!Spec, SL!ImplementsSnapshot, SL!Snapshot!Spec
-----------------------------------------------------------------------------

(* RouteCache.                                                             *)

(* Nobody but one thread calls Write.                                      *)
OneWriter == \E w : Writers = {w}

(* Parity of the two stores of a write.                                    *)
LEMMA Parity ==
  ASSUME NEW n \in Nat, ~RC!Odd(n)
  PROVE  RC!Odd(n + 1) /\ ~RC!Odd(n + 2)
  BY DEF RC!Odd

LEMMA CacheTypeStep ==
  ASSUME RC!TypeOK, [RC!Next]_(RC!vars)
  PROVE  RC!TypeOK'
<1>1. CASE UNCHANGED RC!vars
  BY <1>1 DEF RC!TypeOK, RC!vars, RC!writer, RC!reader
<1>2. ASSUME NEW w \in Writers, RC!WriteLoad(w) PROVE RC!TypeOK'
  BY <1>2 DEF RC!TypeOK, RC!WriteLoad, RC!reader
<1>3. ASSUME NEW w \in Writers, RC!WriteOdd(w) PROVE RC!TypeOK'
  BY <1>3 DEF RC!TypeOK, RC!WriteOdd, RC!reader
<1>4. ASSUME NEW w \in Writers, NEW f \in Fields, RC!Store(w, f) PROVE RC!TypeOK'
  BY <1>4 DEF RC!TypeOK, RC!Store, RC!reader
<1>5. ASSUME NEW w \in Writers, RC!WriteEven(w) PROVE RC!TypeOK'
  BY <1>5 DEF RC!TypeOK, RC!WriteEven, RC!reader
<1>6. ASSUME NEW r \in Cached, RC!Read(r) PROVE RC!TypeOK'
  BY <1>6 DEF RC!TypeOK, RC!Read, RC!writer
<1>7. ASSUME NEW r \in Cached, RC!LoadS0(r) PROVE RC!TypeOK'
  BY <1>7 DEF RC!TypeOK, RC!LoadS0, RC!writer
<1>8. ASSUME NEW r \in Cached, NEW f \in Fields, RC!Copy(r, f) PROVE RC!TypeOK'
  <2>1. entry[f] \in Nat /\ [copy[r] EXCEPT ![f] = entry[f]] \in [Fields -> Nat]
    BY DEF RC!TypeOK
  <2> QED
    BY <1>8, <2>1 DEF RC!TypeOK, RC!Copy, RC!writer
<1>9. ASSUME NEW r \in Cached, RC!LoadS1(r) PROVE RC!TypeOK'
  BY <1>9 DEF RC!TypeOK, RC!LoadS1, RC!writer
<1>10. ASSUME NEW r \in Cached, RC!Return(r) PROVE RC!TypeOK'
  BY <1>10 DEF RC!TypeOK, RC!Return, RC!Blank, RC!writer
<1> QED
  BY <1>1, <1>2, <1>3, <1>4, <1>5, <1>6, <1>7, <1>8, <1>9, <1>10
     DEF RC!Next, RC!WriterStep, RC!ReaderStep

(* A reader's steps leave the writer's half alone, and the writer's steps  *)
(* only ever make the entry newer.                                         *)
LEMMA CacheWriterStep ==
  ASSUME OneWriter, RC!TypeOK, RC!WriterInv, [RC!Next]_(RC!vars)
  PROVE  /\ RC!WriterInv'
         /\ \A f \in Fields : entry[f] <= entry'[f]
<1>1. CASE UNCHANGED RC!writer
  BY <1>1 DEF RC!TypeOK, RC!WriterInv, RC!Whole, RC!writer
<1>2. ASSUME NEW w \in Writers, RC!WriteLoad(w)
      PROVE  RC!WriterInv' /\ \A f \in Fields : entry[f] <= entry'[f]
  BY <1>2 DEF OneWriter, RC!TypeOK, RC!WriterInv, RC!Whole, RC!WriteLoad
<1>3. ASSUME NEW w \in Writers, RC!WriteOdd(w)
      PROVE  RC!WriterInv' /\ \A f \in Fields : entry[f] <= entry'[f]
  BY <1>3 DEF OneWriter, RC!TypeOK, RC!WriterInv, RC!Whole, RC!WriteOdd
<1>4. ASSUME NEW w \in Writers, NEW f \in Fields, RC!Store(w, f)
      PROVE  RC!WriterInv' /\ \A g \in Fields : entry[g] <= entry'[g]
  BY <1>4 DEF OneWriter, RC!TypeOK, RC!WriterInv, RC!Whole, RC!Store
<1>5. ASSUME NEW w \in Writers, RC!WriteEven(w)
      PROVE  RC!WriterInv' /\ \A f \in Fields : entry[f] <= entry'[f]
  <2>1. seq_' = s[w] + 2 /\ wpc' = [wpc EXCEPT ![w] = "idle"] /\ UNCHANGED <<entry, begun>>
    BY <1>5 DEF RC!WriteEven
  <2>2. ~RC!Odd(seq_')
    BY <1>5, <2>1, Parity DEF RC!TypeOK, RC!WriterInv, RC!WriteEven
  <2>3. RC!Whole(entry)
    BY <1>5 DEF RC!TypeOK, RC!WriterInv, RC!Whole, RC!WriteEven
  <2>4. \A u \in Writers : wpc'[u] = "idle"
    BY <2>1 DEF OneWriter, RC!TypeOK
  <2> QED
    BY <2>1, <2>2, <2>3, <2>4 DEF RC!TypeOK, RC!WriterInv, RC!Whole
<1>6. ASSUME NEW r \in Cached, RC!Read(r) \/ RC!ReaderStep(r) PROVE UNCHANGED RC!writer
  BY <1>6 DEF RC!Read, RC!ReaderStep, RC!LoadS0, RC!Copy, RC!LoadS1, RC!Return
<1> QED
  BY <1>1, <1>2, <1>3, <1>4, <1>5, <1>6 DEF RC!Next, RC!WriterStep, RC!vars

(* What a reader has copied since its Read began was in the entry then or  *)
(* is newer; a Read that ends on an odd sequence has a whole round behind. *)
LEMMA CacheReaderStep ==
  ASSUME RC!TypeOK, RC!ReaderInv, [RC!Next]_(RC!vars), \A f \in Fields : entry[f] <= entry'[f], RC!TypeOK'
  PROVE  RC!ReaderInv'
<1>1. CASE UNCHANGED RC!reader
  BY <1>1 DEF RC!TypeOK, RC!ReaderInv, RC!Fresh, RC!reader
<1>2. ASSUME NEW w \in Writers, RC!WriteLoad(w) \/ RC!WriterStep(w) PROVE UNCHANGED RC!reader
  BY <1>2 DEF RC!WriteLoad, RC!WriterStep, RC!WriteOdd, RC!WriteEven, RC!Store
<1>3. ASSUME NEW r \in Cached, RC!Read(r) PROVE RC!ReaderInv'
  BY <1>3 DEF RC!TypeOK, RC!ReaderInv, RC!Fresh, RC!Read, RC!writer
<1>4. ASSUME NEW r \in Cached, RC!LoadS0(r) PROVE RC!ReaderInv'
  <2>1. RC!Odd(seq_) => seq_ # 0
    BY DEF RC!Odd
  <2> QED
    BY <1>4, <2>1 DEF RC!TypeOK, RC!ReaderInv, RC!Fresh, RC!LoadS0, RC!writer
<1>5. ASSUME NEW r \in Cached, NEW f \in Fields, RC!Copy(r, f) PROVE RC!ReaderInv'
  BY <1>5 DEF RC!TypeOK, RC!ReaderInv, RC!Fresh, RC!Copy, RC!writer
<1>6. ASSUME NEW r \in Cached, RC!LoadS1(r) PROVE RC!ReaderInv'
  BY <1>6 DEF RC!TypeOK, RC!ReaderInv, RC!Fresh, RC!LoadS1, RC!writer
<1>7. ASSUME NEW r \in Cached, RC!Return(r) PROVE RC!ReaderInv'
  BY <1>7 DEF RC!TypeOK, RC!ReaderInv, RC!Fresh, RC!Return, RC!Blank, RC!writer
<1> QED
  BY <1>1, <1>2, <1>3, <1>4, <1>5, <1>6, <1>7 DEF RC!Next, RC!ReaderStep, RC!vars

-----------------------------------------------------------------------------
(* The invariant of every behaviour with one writer.                       *)
THEOREM CacheInvariance == OneWriter => (RC!Spec => []RC!CacheInv)
<1> SUFFICES ASSUME OneWriter PROVE RC!Spec => []RC!CacheInv
  OBVIOUS
<1>1. RC!Init => RC!CacheInv
  BY DEF RC!Init, RC!CacheInv, RC!TypeOK, RC!WriterInv, RC!ReaderInv, RC!Fresh, RC!Whole,
     RC!Blank, RC!Odd
<1>2. RC!CacheInv /\ [RC!Next]_(RC!vars) => RC!CacheInv'
  BY CacheTypeStep, CacheWriterStep, CacheReaderStep DEF RC!CacheInv
<1> QED
  BY <1>1, <1>2, PTL DEF RC!Spec

(* A Read never returns anything older than what its call found.           *)
LEMMA CacheReadFresh == OneWriter => (RC!Spec => []RC!CacheReadsFresh)
<1> SUFFICES ASSUME OneWriter PROVE RC!Spec => []RC!CacheReadsFresh
  OBVIOUS
<1>1. RC!CacheInv => RC!CacheReadsFresh
  BY DEF RC!CacheInv, RC!TypeOK, RC!ReaderInv, RC!Fresh, RC!CacheReadsFresh
<1> QED
  BY <1>1, CacheInvariance, PTL
-----------------------------------------------------------------------------
(* The composition: a behaviour of MCSpec is one of each component, which  *)
(* runs or stutters.                                                       *)
LEMMA Components == MCSpec => Spec /\ Ring!Spec /\ SL!Spec /\ RC!Spec
<1>1. MCInit => Init /\ Ring!Init /\ SL!Init /\ RC!Init
  BY DEF MCInit
<1>2. [MCNext]_<<part, vars, ring, seqlock, cache>> =>
        /\ [Next]_vars /\ [Ring!Next]_(Ring!vars)
        /\ [SL!Next]_(SL!vars) /\ [RC!Next]_(RC!vars)
  <2>1. UNCHANGED ring => UNCHANGED Ring!vars
    BY DEF ring, Ring!vars, Ring!producer, Ring!consumer
  <2>2. UNCHANGED seqlock => UNCHANGED SL!vars
    BY DEF seqlock, SL!vars, SL!writer, SL!reader
  <2>3. UNCHANGED cache => UNCHANGED RC!vars
    BY DEF cache, RC!vars, RC!writer, RC!reader
  <2> QED
    BY <2>1, <2>2, <2>3 DEF MCNext
<1> QED
  BY <1>1, <1>2, PTL DEF MCSpec, Spec, Ring!Spec, SL!Spec, RC!Spec

(* TryPush and TryPop of SpscRingBuffer are never at one slot, for every   *)
(* capacity that divides the range of the indices, wrapped or not.         *)
THEOREM RingSlotsApart == Ring!PowersOfTwo => (MCSpec => []SlotsApart)
<1> SUFFICES ASSUME Ring!PowersOfTwo PROVE MCSpec => []SlotsApart
  OBVIOUS
<1>1. Ring!Spec => []Ring!SlotsApart
  BY SlotsStayApart
<1> QED
  BY <1>1, Components, PTL DEF SlotsApart

(* SpscRingBuffer is a first-in first-out queue of bounded length: what    *)
(* TryPop returns was pushed, once and in this order.                      *)
THEOREM RingImplementsQueue ==
  Ring!PowersOfTwo /\ NoItem \notin Items => (MCSpec => ImplementsQueue)
<1> SUFFICES ASSUME Ring!PowersOfTwo, NoItem \notin Items PROVE MCSpec => ImplementsQueue
  OBVIOUS
<1>1. Ring!Spec => Ring!ImplementsQueue
  BY RingIsQueue
<1> QED
  BY <1>1, Components, PTL DEF ImplementsQueue

(* SeqLock's sequence counts the writes, and a copy made under one even    *)
(* sequence is the payload.                                                *)
THEOREM SeqLockInvHolds == MCSpec => []SeqLockInv
  BY SeqLockSafe, Components, PTL DEF SeqLockInv

(* ReadRetry accepts no torn copy, and reads are ordered as writes are.    *)
THEOREM SeqLockRefines == MCSpec => ImplementsSnapshot
  BY SeqLockImplementsSnapshot, Components, PTL DEF ImplementsSnapshot

(* With one writer SeqlockRouteCache's Read returns nothing older than     *)
(* what its call found.                                                    *)
THEOREM CacheIsFresh == OneWriter => (MCSpec => []CacheReadsFresh)
<1> SUFFICES ASSUME OneWriter PROVE MCSpec => []CacheReadsFresh
  OBVIOUS
<1>1. RC!Spec => []RC!CacheReadsFresh
  BY CacheReadFresh
<1> QED
  BY <1>1, Components, PTL DEF CacheReadsFresh
=============================================================================
