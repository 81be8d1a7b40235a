------------------------------- MODULE Handoff -------------------------------
(***************************************************************************)
(* RunProducerConsumerHandoff (common/store_buffer/challenge.cc): producer *)
(* and consumer spin on each other's index around a ring of slots of two   *)
(* words.  Message i has payload i in both words.                          *)
(***************************************************************************)
EXTENDS TsoMemory

CONSTANTS
  kRingSize,
  kMessageCount     \* bound: 2 000 000 in the code

VARIABLES
  UseAcquireRelease,     \* the template argument
  ppc, pi,               \* the producer and its i
  cpc, ci, payload       \* the consumer, its i and what it has read

producer == <<ppc, pi>>
consumer == <<cpc, ci, payload>>
vars == <<memory, buffer, UseAcquireRelease, producer, consumer>>

Producer == 0
Consumer == 1
write_idx == <<"write_idx">>
read_idx == <<"read_idx">>
Slot(i) == (i - 1) % kRingSize

Init ==
  /\ InitMemory
  /\ UseAcquireRelease \in BOOLEAN
  /\ ppc = "room" /\ pi = 1
  /\ cpc = "look" /\ ci = 1 /\ payload = <<0, 0>>

(* A seq_cst store is over when it is in memory.                           *)
Settled(t) == UseAcquireRelease \/ Drained(t)

\* Mutant: the ring has one slot more than it has.
FindRoomLate ==
  /\ ppc = "room" /\ pi <= kMessageCount /\ Settled(Producer)
  /\ pi - 1 - Load(Producer, read_idx) <= kRingSize
  /\ ppc' = "a"
  /\ UNCHANGED <<memory, buffer, UseAcquireRelease, pi, consumer>>

FindRoom ==
  /\ ppc = "room" /\ pi <= kMessageCount /\ Settled(Producer)
  /\ pi - 1 - Load(Producer, read_idx) < kRingSize
  /\ ppc' = "a"
  /\ UNCHANGED <<memory, buffer, UseAcquireRelease, pi, consumer>>

WriteA ==
  /\ ppc = "a"
  /\ Store(Producer, <<"a", Slot(pi)>>, pi)
  /\ ppc' = "b"
  /\ UNCHANGED <<UseAcquireRelease, pi, consumer>>

WriteB ==
  /\ ppc = "b"
  /\ Store(Producer, <<"b", Slot(pi)>>, pi)
  /\ ppc' = "publish"
  /\ UNCHANGED <<UseAcquireRelease, pi, consumer>>

Publish ==
  /\ ppc = "publish"
  /\ Store(Producer, write_idx, pi)
  /\ ppc' = "room" /\ pi' = pi + 1
  /\ UNCHANGED <<UseAcquireRelease, consumer>>

Look ==
  /\ cpc = "look" /\ ci <= kMessageCount /\ Settled(Consumer)
  /\ Load(Consumer, write_idx) >= ci
  /\ cpc' = "a"
  /\ UNCHANGED <<memory, buffer, UseAcquireRelease, ci, payload, producer>>

ReadA ==
  /\ cpc = "a"
  /\ payload' = [payload EXCEPT ![1] = Load(Consumer, <<"a", Slot(ci)>>)]
  /\ cpc' = "b"
  /\ UNCHANGED <<memory, buffer, UseAcquireRelease, ci, producer>>

ReadB ==
  /\ cpc = "b"
  /\ payload' = [payload EXCEPT ![2] = Load(Consumer, <<"b", Slot(ci)>>)]
  /\ cpc' = "release"
  /\ UNCHANGED <<memory, buffer, UseAcquireRelease, ci, producer>>

Release ==
  /\ cpc = "release"
  /\ Store(Consumer, read_idx, ci)
  /\ cpc' = "look" /\ ci' = ci + 1
  /\ UNCHANGED <<UseAcquireRelease, payload, producer>>

Next ==
  \/ FindRoom \/ WriteA \/ WriteB \/ Publish
  \/ Look \/ ReadA \/ ReadB \/ Release
  \/ \E t \in Cores : Drain(t) /\ UNCHANGED <<UseAcquireRelease, producer, consumer>>

Spec == Init /\ [][Next]_vars

-----------------------------------------------------------------------------
(* The consumer reads every message whole and in its turn, although its    *)
(* words and the indices reach memory late: the checksums agree.           *)
MessagesWhole == cpc = "release" => payload = <<ci, ci>>

(* A ring has slots: 1024 in the code.                                     *)
RingHasSlots == kRingSize \in Nat \ {0}

(* The inductive invariant.  The producer's stores in their order: two     *)
(* words and the index of message 1, of message 2, and so on.              *)
IsStore(n, s) == \E i \in 1 .. n :
  \/ n = 3 * i - 2 /\ s = <<<<"a", Slot(i)>>, i>>
  \/ n = 3 * i - 1 /\ s = <<<<"b", Slot(i)>>, i>>
  \/ n = 3 * i /\ s = <<write_idx, i>>

Stored == 3 * (pi - 1) + (IF ppc = "b" THEN 1 ELSE IF ppc = "publish" THEN 2 ELSE 0)
Visible == Stored - Len(buffer[Producer])

TypeOK ==
  /\ DOMAIN memory = Cells
  /\ buffer \in [Cores -> Seq(Cells \X Nat)]
  /\ ppc \in {"room", "a", "b", "publish"} /\ pi \in Nat \ {0}
  /\ cpc \in {"look", "a", "b", "release"} /\ ci \in Nat \ {0}
  /\ payload \in [1 .. 2 -> Nat]
  /\ memory[write_idx] \in Nat /\ memory[read_idx] \in Nat

(* What the buffers hold is the rest of what the threads have stored.      *)
BuffersInv ==
  /\ Visible >= 0
  /\ \A j \in 1 .. Len(buffer[Producer]) : IsStore(Visible + j, buffer[Producer][j])
  /\ memory[read_idx] = ci - 1 - Len(buffer[Consumer])
  /\ \A j \in 1 .. Len(buffer[Consumer]) :
       buffer[Consumer][j] = <<read_idx, memory[read_idx] + j>>

(* What memory holds of the producer's stores: a word stays until the one  *)
(* that is a ring later.                                                   *)
MemoryInv ==
  /\ 3 * memory[write_idx] <= Visible /\ Visible < 3 * memory[write_idx] + 3
  /\ \A i \in 1 .. Visible :
       /\ 3 * i - 2 <= Visible /\ Visible < 3 * (i + kRingSize) - 2 =>
            memory[<<"a", Slot(i)>>] = i
       /\ 3 * i - 1 <= Visible /\ Visible < 3 * (i + kRingSize) - 1 =>
            memory[<<"b", Slot(i)>>] = i

(* Neither thread goes beyond what the other's index in memory allows.     *)
RoomInv ==
  /\ pi - 1 - memory[read_idx] <= kRingSize
  /\ ppc # "room" => pi - 1 - memory[read_idx] < kRingSize
  /\ ci - 1 <= memory[write_idx]
  /\ cpc # "look" => ci <= memory[write_idx]
  /\ cpc \in {"b", "release"} => payload[1] = ci
  /\ cpc = "release" => payload[2] = ci

HandoffInv == TypeOK /\ BuffersInv /\ MemoryInv /\ RoomInv
===============================================================================
