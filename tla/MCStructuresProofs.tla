-------------------------- MODULE MCStructuresProofs --------------------------
EXTENDS MCStructures, SequenceTheorems, FiniteSetTheorems, TLAPS

-----------------------------------------------------------------------------
(* Identifiers are unique for any number of threads, calls and any size of *)
(* a batch.                                                                *)
(* A thread with something left takes the first identifier of its lease.   *)
LEMMA FromLeaseStep ==
  ASSUME LeaseInv, NEW t \in Threads, FromLease(t)
  PROVE  LeaseInv'
<1> USE LeaseAssumption
<1> DEFINE id == cur[t]
<1>1. /\ id \in Nat /\ id < batch_end[t] /\ batch_end[t] <= global_id_
      /\ cur' = [cur EXCEPT ![t] = id + 1]
      /\ batch_end' = batch_end /\ global_id_' = global_id_
      /\ issued' = [issued EXCEPT ![t] = issued[t] \cup {id}]
  BY DEF LeaseInv, TypeOK, LeasesInv, FromLease, Issue
<1>2. TypeOK'
  BY <1>1 DEF LeaseInv, TypeOK, FromLease, Issue
<1>3. \A u \in Threads \ {t} : \A m \in issued[u] : m < id \/ batch_end[t] <= m
  BY <1>1 DEF LeaseInv, LeasesInv
<1>4. IdsUnique'
  <2>1. \A u, w \in Threads : u # w => issued'[u] \cap issued'[w] = {}
    BY <1>1, <1>3 DEF LeaseInv, TypeOK, IdsUnique
  <2>2. \A u \in Threads : \A m \in issued'[u] : m < cur'[u] /\ m < global_id_'
    BY <1>1 DEF LeaseInv, TypeOK, IdsUnique
  <2> QED
    BY <2>1, <2>2 DEF IdsUnique
<1>5. LeasesInv'
  <2>1. \A u \in Threads : cur'[u] <= batch_end'[u] /\ batch_end'[u] <= global_id_'
    BY <1>1 DEF LeaseInv, TypeOK, LeasesInv
  <2>2. ASSUME NEW u \in Threads, NEW w \in Threads, u # w, cur'[u] < batch_end'[u]
        PROVE  /\ cur'[w] < batch_end'[w] => batch_end'[u] <= cur'[w] \/ batch_end'[w] <= cur'[u]
               /\ \A m \in issued'[w] : m < cur'[u] \/ batch_end'[u] <= m
    <3>1. cur[u] < batch_end[u]
      BY <1>1, <2>2 DEF LeaseInv, TypeOK
    <3>2. /\ cur[w] < batch_end[w] => batch_end[u] <= cur[w] \/ batch_end[w] <= cur[u]
          /\ \A m \in issued[w] : m < cur[u] \/ batch_end[u] <= m
      BY <2>2, <3>1 DEF LeaseInv, LeasesInv
    <3> QED
      BY <1>1, <2>2, <3>1, <3>2 DEF LeaseInv, TypeOK
  <2> QED
    BY <2>1, <2>2 DEF LeasesInv
<1> QED
  BY <1>2, <1>4, <1>5 DEF LeaseInv

(* A new lease starts at the watermark, above all that was given out.      *)
LEMMA RefillStep ==
  ASSUME LeaseInv, NEW t \in Threads, Refill(t)
  PROVE  LeaseInv'
<1> USE LeaseAssumption
<1> DEFINE id == global_id_
<1>1. /\ id \in Nat
      /\ cur' = [cur EXCEPT ![t] = id + 1]
      /\ batch_end' = [batch_end EXCEPT ![t] = id + BatchSize]
      /\ global_id_' = id + BatchSize
      /\ issued' = [issued EXCEPT ![t] = issued[t] \cup {id}]
  BY DEF LeaseInv, TypeOK, Refill, Issue
<1>2. TypeOK'
  BY <1>1 DEF LeaseInv, TypeOK, Refill, Issue
<1>3. \A u \in Threads : \A m \in issued[u] : m < id /\ m < cur[u] /\ m \in Nat
  BY DEF LeaseInv, TypeOK, IdsUnique
<1>4. \A u \in Threads : cur[u] <= batch_end[u] /\ batch_end[u] <= id /\ cur[u] \in Nat /\ batch_end[u] \in Nat
  BY DEF LeaseInv, TypeOK, LeasesInv
<1>5. IdsUnique'
  <2>1. \A u, w \in Threads : u # w => issued'[u] \cap issued'[w] = {}
    BY <1>1, <1>3 DEF LeaseInv, TypeOK, IdsUnique
  <2>2. \A u \in Threads : \A m \in issued'[u] : m < cur'[u] /\ m < global_id_'
    BY <1>1, <1>3, <1>4 DEF LeaseInv, TypeOK
  <2> QED
    BY <2>1, <2>2 DEF IdsUnique
<1>6. LeasesInv'
  <2>1. \A u \in Threads : cur'[u] <= batch_end'[u] /\ batch_end'[u] <= global_id_'
    BY <1>1, <1>4 DEF LeaseInv, TypeOK
  <2>2. ASSUME NEW u \in Threads, NEW w \in Threads, u # w, cur'[u] < batch_end'[u]
        PROVE  /\ cur'[w] < batch_end'[w] => batch_end'[u] <= cur'[w] \/ batch_end'[w] <= cur'[u]
               /\ \A m \in issued'[w] : m < cur'[u] \/ batch_end'[u] <= m
    <3>1. CASE u = t
      BY <1>1, <1>3, <1>4, <2>2, <3>1 DEF LeaseInv, TypeOK
    <3>2. CASE u # t
      <4>1. cur[u] < batch_end[u] /\ cur'[u] = cur[u] /\ batch_end'[u] = batch_end[u]
        BY <1>1, <2>2, <3>2 DEF LeaseInv, TypeOK
      <4>2. /\ cur[w] < batch_end[w] => batch_end[u] <= cur[w] \/ batch_end[w] <= cur[u]
            /\ \A m \in issued[w] : m < cur[u] \/ batch_end[u] <= m
        BY <2>2, <4>1 DEF LeaseInv, LeasesInv
      <4> QED
        BY <1>1, <1>4, <2>2, <4>1, <4>2 DEF LeaseInv, TypeOK
    <3> QED
      BY <3>1, <3>2
  <2> QED
    BY <2>1, <2>2 DEF LeasesInv
<1> QED
  BY <1>2, <1>5, <1>6 DEF LeaseInv

(* What is left of a lease belongs to one thread.                          *)
THEOREM LeasesDisjoint == Spec => []LeaseInv
<1> USE LeaseAssumption
<1>1. Init => LeaseInv
  BY DEF Init, LeaseInv, TypeOK, LeasesInv, IdsUnique
<1>2. LeaseInv /\ [Next]_vars => LeaseInv'
  <2>1. CASE UNCHANGED vars
    BY <2>1 DEF LeaseInv, TypeOK, LeasesInv, IdsUnique, vars
  <2>2. CASE Next
    BY <2>2, FromLeaseStep, RefillStep DEF Next, NextId
  <2> QED
    BY <2>1, <2>2
<1> QED
  BY <1>1, <1>2, PTL DEF Spec

(* No identifier is given out twice.                                       *)
THEOREM IdentifiersUnique == Spec => []IdsUnique
  BY LeasesDisjoint, PTL DEF LeaseInv

-----------------------------------------------------------------------------
(* Dekker's test.                                                          *)
LEMMA LitmusInit == LT!Init => LT!LitmusInv
<1> SUFFICES ASSUME LT!Init PROVE LT!LitmusInv
  OBVIOUS
<1>1. memory = [a \in Cells |-> 0] /\ buffer = [t \in {0, 1} |-> <<>>]
  BY DEF LT!Init, LT!InitMemory
<1>2. lpc = [t \in {0, 1} |-> IF t = 0 THEN "arrive" ELSE "reset_x"] /\ r = [t \in {0, 1} |-> 0]
  BY DEF LT!Init
<1>3. lpc[0] = "arrive" /\ lpc[1] = "reset_x"
  BY <1>2
<1> QED
  BY <1>1, <1>2, <1>3 DEF LT!LitmusInv, LT!Trying, LT!NeverBothZero

(* What leaves a buffer in a trial is the flag of its owner.               *)
LEMMA LitmusDrain ==
  ASSUME LT!LitmusInv, NEW t \in {0, 1}, LT!Drain(t), UNCHANGED <<UseSeqCst, lpc, r>>
  PROVE  LT!LitmusInv'
<1> DEFINE first == Head(buffer[t])
<1>1. /\ buffer[t] # <<>>
      /\ memory' = [memory EXCEPT ![first[1]] = first[2]]
      /\ buffer' = [buffer EXCEPT ![t] = Tail(buffer[t])]
  BY DEF LT!Drain
<1>2. /\ DOMAIN memory' = Cells /\ DOMAIN buffer' = {0, 1}
      /\ \A u \in {0, 1} \ {t} : buffer'[u] = buffer[u]
      /\ buffer'[t] = Tail(buffer[t])
  BY <1>1 DEF LT!LitmusInv
<1>3. ASSUME lpc[t] \in LT!Trying
      PROVE  lpc[t] \in {"load", "done"} /\ buffer[t] = <<<<LT!Flag[t], 1>>>>
  BY <1>1, <1>3 DEF LT!LitmusInv, LT!Raised, LT!Drained, LT!Trying
<1>4. LT!Flag[0] = <<"x">> /\ LT!Flag[1] = <<"y">> /\ <<"x">> # <<"y">>
  BY DEF LT!Flag
<1>5. \A u \in {0, 1} : LT!Flag[u] \in Cells
  BY <1>4 DEF Cells
<1>6. ASSUME lpc[t] \in LT!Trying
      PROVE  buffer'[t] = <<>> /\ memory' = [memory EXCEPT ![LT!Flag[t]] = 1]
  <2>1. buffer[t] = <<<<LT!Flag[t], 1>>>>
    BY <1>3, <1>6
  <2>2. first[1] = LT!Flag[t] /\ first[2] = 1 /\ Tail(buffer[t]) = <<>>
    BY <2>1
  <2> QED
    BY <1>1, <1>2, <2>2
<1>7. ASSUME NEW u \in {0, 1}
      PROVE  /\ lpc[u] = "store" => buffer'[u] = <<>>
             /\ lpc[u] \in {"load", "done"} =>
                  buffer'[u] = <<<<LT!Flag[u], 1>>>> \/ (buffer'[u] = <<>> /\ memory'[LT!Flag[u]] = 1)
             /\ UseSeqCst /\ lpc[u] = "done" => buffer'[u] = <<>>
  <2>1. CASE lpc[u] \notin LT!Trying
    BY <2>1 DEF LT!Trying
  <2>2. CASE lpc[u] \in LT!Trying
    <3>1. lpc[t] \in LT!Trying
      BY <2>2 DEF LT!LitmusInv
    <3>2. CASE u = t
      BY <1>3, <1>5, <1>6, <3>1, <3>2 DEF LT!LitmusInv
    <3>3. CASE u # t
      <4>1. buffer'[u] = buffer[u] /\ memory'[LT!Flag[u]] = memory[LT!Flag[u]]
        <5>1. LT!Flag[t] # LT!Flag[u]
          BY <1>4, <3>3
        <5>2. memory' = [memory EXCEPT ![LT!Flag[t]] = 1]
          BY <1>6, <3>1
        <5>3. DOMAIN memory = Cells /\ LT!Flag[u] \in Cells
          BY <1>5 DEF LT!LitmusInv
        <5>4. memory'[LT!Flag[u]] = memory[LT!Flag[u]]
          BY <5>1, <5>2, <5>3
        <5> QED
          BY <1>2, <3>3, <5>4
      <4>2. /\ lpc[u] = "store" => buffer[u] = <<>>
            /\ lpc[u] \in {"load", "done"} =>
                 buffer[u] = <<<<LT!Flag[u], 1>>>> \/ (buffer[u] = <<>> /\ memory[LT!Flag[u]] = 1)
            /\ UseSeqCst /\ lpc[u] = "done" => buffer[u] = <<>>
        BY DEF LT!LitmusInv, LT!Raised, LT!Drained
      <4> QED
        BY <4>1, <4>2
    <3> QED
      BY <3>2, <3>3
  <2> QED
    BY <2>1, <2>2
<1>8. UNCHANGED <<UseSeqCst, lpc, r>>
  OBVIOUS
<1> QED
  BY <1>2, <1>7, <1>8 DEF LT!LitmusInv, LT!Raised, LT!Drained, LT!Flag, LT!NeverBothZero, LT!Trying

(* A store goes to the end of the buffer of its thread.                    *)
LEMMA LitmusStep ==
  ASSUME LT!LitmusInv, LT!Next
  PROVE  LT!LitmusInv'
<1> USE DEF LT!LitmusInv
<1>1. LT!Flag[0] \in Cells /\ LT!Flag[1] \in Cells
  BY DEF LT!Flag, Cells
<1>2. CASE LT!ResetX \/ LT!ResetY
  <2>1. /\ lpc[1] \in {"reset_x", "reset_y"} /\ lpc[0] = "arrive"
        /\ \E l \in {"reset_y", "arrive"} : lpc' = [lpc EXCEPT ![1] = l]
        /\ \E v : buffer' = [buffer EXCEPT ![1] = v]
        /\ UNCHANGED <<memory, UseSeqCst, r>>
    BY <1>2 DEF LT!ResetX, LT!ResetY, LT!Goto, LT!Store, LT!Trying
  <2> QED
    BY <2>1 DEF LT!Trying, LT!Raised, LT!Drained, LT!Flag, LT!NeverBothZero
<1>3. CASE LT!Trial \/ LT!TrialEnds \/ LT!Count
  BY <1>3 DEF LT!Trial, LT!TrialEnds, LT!Count, LT!Goto, LT!Trying, LT!Raised, LT!Drained, LT!Flag,
     LT!NeverBothZero
<1>4. ASSUME NEW t \in {0, 1}, LT!StoreFlag(t) PROVE LT!LitmusInv'
  <2>1. /\ lpc[t] = "store" /\ buffer[t] = <<>>
        /\ buffer' = [buffer EXCEPT ![t] = <<<<LT!Flag[t], 1>>>>]
        /\ lpc' = [lpc EXCEPT ![t] = "load"]
        /\ UNCHANGED <<memory, UseSeqCst, r>>
    BY <1>4 DEF LT!StoreFlag, LT!Goto, LT!Store, LT!Drained
  <2> QED
    BY <2>1 DEF LT!Trying, LT!Raised, LT!Drained, LT!Flag, LT!NeverBothZero
<1>5. ASSUME NEW t \in {0, 1}, LT!LoadFlag(t) PROVE LT!LitmusInv'
  <2>1. /\ lpc[t] = "load" /\ (UseSeqCst => buffer[t] = <<>>)
        /\ lpc' = [lpc EXCEPT ![t] = "done"]
        /\ r' = [r EXCEPT ![t] = LT!Load(t, LT!Flag[1 - t])]
        /\ UNCHANGED <<memory, buffer, UseSeqCst>>
    BY <1>5 DEF LT!LoadFlag, LT!Goto, LT!Drained
  <2>2. ASSUME UseSeqCst, lpc[1 - t] = "done"
        PROVE  LT!Load(t, LT!Flag[1 - t]) = 1
    <3>1. buffer[t] = <<>> /\ memory[LT!Flag[1 - t]] = 1
      <4>1. 1 - t \in {0, 1}
        OBVIOUS
      <4>2. buffer[t] = <<>> /\ buffer[1 - t] = <<>>
        BY <2>1, <2>2, <4>1 DEF LT!Drained
      <4>3. buffer[1 - t] # <<<<LT!Flag[1 - t], 1>>>>
        BY <4>2
      <4>4. LT!Raised(1 - t)
        BY <2>2, <4>1, <4>3
      <4> QED
        BY <4>2, <4>4 DEF LT!Raised
    <3>2. {k \in DOMAIN buffer[t] : buffer[t][k][1] = LT!Flag[1 - t]} = {}
      BY <3>1
    <3> QED
      BY <3>1, <3>2 DEF LT!Load
  <2>3. /\ DOMAIN lpc' = {0, 1} /\ DOMAIN r' = {0, 1} /\ lpc'[t] = "done"
        /\ \A u \in {0, 1} \ {t} : lpc'[u] = lpc[u] /\ r'[u] = r[u]
    BY <2>1
  <2>4. /\ lpc'[0] \in LT!Trying \cup {"arrive"}
        /\ (lpc'[0] \in LT!Trying) <=> (lpc'[1] \in LT!Trying)
    BY <2>1, <2>3 DEF LT!Trying
  <2>5. \A u \in {0, 1} :
          /\ lpc'[u] = "store" => LT!Drained(u)
          /\ lpc'[u] \in {"load", "done"} => buffer[u] = <<<<LT!Flag[u], 1>>>> \/ LT!Raised(u)
          /\ UseSeqCst /\ lpc'[u] = "done" => LT!Drained(u)
    BY <2>1, <2>3 DEF LT!Drained
  <2>6. ASSUME UseSeqCst, lpc'[0] = "done", lpc'[1] = "done"
        PROVE  r'[0] = 1 \/ r'[1] = 1
    <3>1. lpc[1 - t] = "done"
      BY <2>3, <2>6
    <3>2. LT!Load(t, LT!Flag[1 - t]) = 1
      BY <2>1, <2>2, <2>6, <3>1
    <3>3. r'[t] = 1
      BY <2>1, <3>2
    <3> QED
      BY <3>3
  <2>7. lpc'[1] # "count"
    BY <2>1, <2>3 DEF LT!Trying
  <2>8. /\ DOMAIN buffer' = {0, 1} /\ DOMAIN memory' = Cells
        /\ memory' = memory /\ buffer' = buffer /\ UseSeqCst' = UseSeqCst
    BY <2>1
  <2> QED
    BY <2>3, <2>4, <2>5, <2>6, <2>7, <2>8 DEF LT!Raised, LT!Drained, LT!Flag, LT!NeverBothZero
<1> QED
  BY <1>2, <1>3, <1>4, <1>5, LitmusDrain DEF LT!Next

(* RunStoreLoadLitmusTest with seq_cst stores never counts a trial in      *)
(* which both loads missed the other thread's store, whatever the order in *)
(* which the store buffers drain.                                          *)
THEOREM SeqCstForbidsBothZero == MCSpec => []NeverBothZero
<1> DEFINE Inv == IF part = "litmus" THEN LT!LitmusInv ELSE lpc[1] = "reset_x"
<1>1. MCInit => Inv
  <2>1. LT!Init => lpc[1] = "reset_x"
    BY DEF LT!Init
  <2> QED
    BY <2>1, LitmusInit DEF MCInit
<1>2. Inv /\ [MCNext]_all => Inv'
  <2> SUFFICES ASSUME Inv, [MCNext]_all
               PROVE  Inv'
    OBVIOUS
  <2>1. part' = part
    BY DEF MCNext, all
  <2>2. CASE part = "litmus"
    <3>1. LT!Next \/ UNCHANGED LT!vars
      BY <2>2 DEF MCNext, all, LT!vars, hardware, litmus
    <3>2. LT!LitmusInv /\ UNCHANGED LT!vars => LT!LitmusInv'
      BY DEF LT!LitmusInv, LT!vars, LT!Trying, LT!Raised, LT!Drained, LT!Flag, LT!NeverBothZero
    <3> QED
      BY <2>1, <2>2, <3>1, <3>2, LitmusStep
  <2>3. CASE part # "litmus"
    BY <2>1, <2>3 DEF MCNext, all, litmus
  <2> QED
    BY <2>2, <2>3
<1>3. Inv => NeverBothZero
  BY DEF NeverBothZero, LT!LitmusInv, LT!NeverBothZero
<1> QED
  BY <1>1, <1>2, <1>3, PTL DEF MCSpec

-----------------------------------------------------------------------------
(* The hand-off.  Its cells, and how far apart messages share a slot.      *)
LEMMA HandoffCells ==
  ASSUME HO!RingHasSlots
  PROVE  /\ HO!write_idx \in Cells /\ HO!read_idx \in Cells /\ HO!write_idx # HO!read_idx
         /\ \A k \in Nat \ {0} :
              /\ <<"a", HO!Slot(k)>> \in Cells /\ <<"b", HO!Slot(k)>> \in Cells
              /\ <<"a", HO!Slot(k)>> \notin {HO!write_idx, HO!read_idx}
              /\ <<"b", HO!Slot(k)>> \notin {HO!write_idx, HO!read_idx}
         /\ \A k, j \in Nat \ {0} : <<"a", HO!Slot(k)>> # <<"b", HO!Slot(j)>>
<1>1. \A k \in Nat \ {0} : HO!Slot(k) \in 0 .. kRingSize - 1
  BY DEF HO!Slot, HO!RingHasSlots
<1>2. HO!write_idx = <<"write_idx">> /\ HO!read_idx = <<"read_idx">>
  BY DEF HO!write_idx, HO!read_idx
<1>3. \A c \in {"a", "b"}, s \in 0 .. kRingSize - 1 : <<c, s>> \in Cells
  BY DEF Cells
<1>4. \A c, s : <<c, s>> # <<"write_idx">> /\ <<c, s>> # <<"read_idx">>
  OBVIOUS
<1>5. \A s, u : <<"a", s>> # <<"b", u>>
  OBVIOUS
<1>6. <<"write_idx">> # <<"read_idx">>
  OBVIOUS
<1> QED
  BY <1>1, <1>2, <1>3, <1>4, <1>5, <1>6 DEF Cells

LEMMA SameRemainder ==
  ASSUME NEW m \in Nat \ {0}, NEW x \in Int, NEW y \in Int, x % m = y % m
  PROVE  (x - y) % m = 0
  OBVIOUS

LEMMA NoRemainder ==
  ASSUME NEW m \in Nat \ {0}, NEW x \in Int, 0 < x, x < m
  PROVE  x % m # 0
  OBVIOUS

LEMMA SlotsDiffer ==
  ASSUME HO!RingHasSlots, NEW k \in Nat \ {0}, NEW j \in Nat \ {0}, k < j, j < k + kRingSize
  PROVE  HO!Slot(k) # HO!Slot(j)
<1> SUFFICES ASSUME HO!Slot(k) = HO!Slot(j) PROVE FALSE
  OBVIOUS
<1>1. /\ kRingSize \in Nat \ {0} /\ j - 1 \in Int /\ k - 1 \in Int
      /\ (j - 1) % kRingSize = (k - 1) % kRingSize
  BY DEF HO!Slot, HO!RingHasSlots
<1>2. ((j - 1) - (k - 1)) % kRingSize = 0
  BY <1>1, SameRemainder, Zenon
<1>3. (j - 1) - (k - 1) = j - k /\ j - k \in Int /\ 0 < j - k /\ j - k < kRingSize
  BY <1>1
<1>4. (j - k) % kRingSize # 0
  BY <1>1, <1>3, NoRemainder, Zenon
<1> QED
  BY <1>2, <1>3, <1>4

(* What a thread reads of the other's index is what memory holds.          *)
LEMMA IndexLoads ==
  ASSUME HO!RingHasSlots, HO!HandoffInv
  PROVE  /\ HO!Load(0, HO!read_idx) = memory[HO!read_idx]
         /\ HO!Load(1, HO!write_idx) = memory[HO!write_idx]
         /\ \A k \in Nat \ {0} : /\ HO!Load(1, <<"a", HO!Slot(k)>>) = memory[<<"a", HO!Slot(k)>>]
                                 /\ HO!Load(1, <<"b", HO!Slot(k)>>) = memory[<<"b", HO!Slot(k)>>]
<1>1. buffer[0] \in Seq(Cells \X Nat) /\ buffer[1] \in Seq(Cells \X Nat)
  BY DEF HO!HandoffInv, HO!TypeOK
<1>2. \A j \in DOMAIN buffer[0] : buffer[0][j][1] # HO!read_idx
  <2> SUFFICES ASSUME NEW j \in 1 .. Len(buffer[0]) PROVE buffer[0][j][1] # HO!read_idx
    BY <1>1
  <2>1. HO!IsStore(HO!Visible + j, buffer[0][j])
    BY DEF HO!HandoffInv, HO!BuffersInv, HO!Producer
  <2>2. PICK k \in Nat \ {0} :
          buffer[0][j][1] \in {<<"a", HO!Slot(k)>>, <<"b", HO!Slot(k)>>, HO!write_idx}
    BY <2>1 DEF HO!IsStore
  <2> QED
    BY <2>2, HandoffCells
<1>3. \A j \in DOMAIN buffer[1] : buffer[1][j][1] = HO!read_idx
  <2> SUFFICES ASSUME NEW j \in 1 .. Len(buffer[1]) PROVE buffer[1][j][1] = HO!read_idx
    BY <1>1
  <2>1. buffer[1][j] = <<HO!read_idx, memory[HO!read_idx] + j>>
    BY DEF HO!HandoffInv, HO!BuffersInv, HO!Consumer
  <2> QED
    BY <2>1
<1>4. ASSUME NEW c, c # HO!read_idx PROVE HO!Load(1, c) = memory[c]
  <2>1. {j \in DOMAIN buffer[1] : buffer[1][j][1] = c} = {}
    BY <1>3, <1>4
  <2> QED
    BY <2>1 DEF HO!Load
<1>5. HO!Load(0, HO!read_idx) = memory[HO!read_idx]
  <2>1. {j \in DOMAIN buffer[0] : buffer[0][j][1] = HO!read_idx} = {}
    BY <1>2
  <2> QED
    BY <2>1 DEF HO!Load
<1> QED
  BY <1>4, <1>5, HandoffCells

(* A store of the producer is the next one of its program.                 *)
LEMMA ProducerStores ==
  ASSUME HO!RingHasSlots, HO!HandoffInv, NEW c \in Cells, NEW k \in Nat,
         HO!Store(0, c, k), HO!IsStore(HO!Stored + 1, <<c, k>>), HO!Stored' = HO!Stored + 1,
         pi' \in Nat \ {0}, ppc' \in {"room", "a", "b", "publish"},
         UNCHANGED <<cpc, ci, payload>>
  PROVE  HO!TypeOK' /\ HO!BuffersInv' /\ HO!MemoryInv' /\ memory' = memory
<1> DEFINE q == buffer[0]
<1>1. /\ q \in Seq(Cells \X Nat) /\ Len(q) \in Nat /\ HO!Stored \in Nat
      /\ <<c, k>> \in Cells \X Nat
  BY DEF HO!HandoffInv, HO!TypeOK, HO!Stored
<1>2. /\ buffer' = [buffer EXCEPT ![0] = Append(q, <<c, k>>)] /\ memory' = memory
  BY DEF HO!Store
<1>3. /\ Append(q, <<c, k>>) \in Seq(Cells \X Nat)
      /\ Len(Append(q, <<c, k>>)) = Len(q) + 1
      /\ \A j \in 1 .. Len(q) : Append(q, <<c, k>>)[j] = q[j]
      /\ Append(q, <<c, k>>)[Len(q) + 1] = <<c, k>>
  BY <1>1, AppendProperties
<1>4. /\ buffer' \in [{0, 1} -> Seq(Cells \X Nat)]
      /\ buffer'[0] = Append(q, <<c, k>>) /\ buffer'[1] = buffer[1]
  BY <1>2, <1>3 DEF HO!HandoffInv, HO!TypeOK
<1>5. HO!TypeOK'
  BY <1>2, <1>4 DEF HO!HandoffInv, HO!TypeOK
<1>6. HO!Visible' = HO!Visible /\ HO!Visible \in Int
  <2>1. Len(buffer'[0]) = Len(q) + 1
    BY <1>3, <1>4
  <2>2. HO!Visible' = HO!Stored' - Len(buffer'[0]) /\ HO!Visible = HO!Stored - Len(q)
    BY DEF HO!Visible, HO!Producer
  <2>3. HO!Stored' = HO!Stored + 1 /\ HO!Stored \in Nat /\ Len(q) \in Nat
    BY <1>1
  <2> QED
    BY <2>1, <2>2, <2>3
<1>7. HO!BuffersInv'
  <2>1. \A j \in 1 .. Len(buffer'[0]) : HO!IsStore(HO!Visible + j, buffer'[0][j])
    <3> SUFFICES ASSUME NEW j \in 1 .. Len(q) + 1 PROVE HO!IsStore(HO!Visible + j, buffer'[0][j])
      BY <1>3, <1>4
    <3>1. CASE j \in 1 .. Len(q)
      BY <1>3, <1>4, <3>1 DEF HO!HandoffInv, HO!BuffersInv, HO!Producer
    <3>2. CASE j = Len(q) + 1
      <4>1. HO!Visible + j = HO!Stored + 1
        <5>1. HO!Visible = HO!Stored - Len(q) /\ HO!Stored \in Nat /\ Len(q) \in Nat
          BY <1>1 DEF HO!Visible, HO!Producer
        <5>2. PICK st \in Nat, l \in Nat : st = HO!Stored /\ l = Len(q)
          BY <1>1
        <5>3. HO!Visible = st - l /\ j = l + 1
          BY <3>2, <5>1, <5>2
        <5>4. HO!Visible + j = st + 1
          BY <5>3
        <5> QED
          BY <5>2, <5>4
      <4>2. buffer'[0][j] = <<c, k>>
        BY <1>3, <1>4, <3>2
      <4> QED
        BY <4>1, <4>2
    <3> QED
      BY <1>1, <3>1, <3>2
  <2>2. \A j \in 1 .. Len(buffer'[0]) : HO!IsStore(HO!Visible' + j, buffer'[0][j])
    BY <1>6, <2>1
  <2>3. /\ HO!Visible' >= 0 /\ buffer'[1] = buffer[1] /\ ci' = ci
        /\ memory'[HO!read_idx] = memory[HO!read_idx]
    BY <1>2, <1>4, <1>6 DEF HO!HandoffInv, HO!BuffersInv
  <2> QED
    BY <2>2, <2>3 DEF HO!HandoffInv, HO!BuffersInv, HO!Producer, HO!Consumer, HO!read_idx
<1>8. HO!MemoryInv'
  BY <1>2, <1>6 DEF HO!HandoffInv, HO!MemoryInv, HO!write_idx, HO!Slot
<1> QED
  BY <1>2, <1>5, <1>7, <1>8

(* What the first store in a buffer leaves behind.                         *)
LEMMA DrainTakesHead ==
  ASSUME HO!TypeOK, NEW t \in {0, 1}, HO!Drain(t)
  PROVE  /\ Len(buffer[t]) \in Nat \ {0}
         /\ memory' = [memory EXCEPT ![buffer[t][1][1]] = buffer[t][1][2]]
         /\ buffer' \in [{0, 1} -> Seq(Cells \X Nat)]
         /\ \A u \in {0, 1} \ {t} : buffer'[u] = buffer[u]
         /\ Len(buffer'[t]) = Len(buffer[t]) - 1
         /\ \A j \in 1 .. Len(buffer[t]) - 1 : buffer'[t][j] = buffer[t][j + 1]
<1> DEFINE q == buffer[t]
<1>1. q \in Seq(Cells \X Nat) /\ q # <<>> /\ buffer \in [{0, 1} -> Seq(Cells \X Nat)]
  BY DEF HO!TypeOK, HO!Drain
<1>2. /\ Tail(q) \in Seq(Cells \X Nat) /\ Len(Tail(q)) = Len(q) - 1
      /\ \A j \in 1 .. Len(Tail(q)) : Tail(q)[j] = q[j + 1]
  BY <1>1, HeadTailProperties
<1>3. Head(q) = q[1] /\ Len(q) \in Nat \ {0}
  BY <1>1
<1>4. /\ memory' = [memory EXCEPT ![Head(q)[1]] = Head(q)[2]]
      /\ buffer' = [buffer EXCEPT ![t] = Tail(q)]
  BY DEF HO!Drain
<1>5. buffer'[t] = Tail(q)
  BY <1>1, <1>4
<1> QED
  BY <1>1, <1>2, <1>3, <1>4, <1>5

(* A store of the producer reaches memory.                                 *)
LEMMA ProducerDrains ==
  ASSUME HO!RingHasSlots, HO!HandoffInv, HO!Drain(0),
         UNCHANGED <<ppc, pi, cpc, ci, payload>>
  PROVE  HO!HandoffInv'
<1> DEFINE v == HO!Visible
<1>1. PICK st \in Nat, l \in Nat \ {0} : st = HO!Stored /\ l = Len(buffer[0])
  <2>1. HO!Stored \in Nat
    BY DEF HO!HandoffInv, HO!TypeOK, HO!Stored
  <2>2. Len(buffer[0]) \in Nat \ {0}
    BY DrainTakesHead DEF HO!HandoffInv
  <2> QED
    BY <2>1, <2>2
<1>2. v = st - l /\ v \in Nat
  BY <1>1 DEF HO!Visible, HO!Producer, HO!HandoffInv, HO!BuffersInv
<1>3. /\ HO!Visible' = v + 1
  <2>1. HO!Stored' = st /\ Len(buffer'[0]) = l - 1
    BY <1>1, DrainTakesHead DEF HO!Stored, HO!HandoffInv
  <2>2. HO!Visible' = HO!Stored' - Len(buffer'[0])
    BY DEF HO!Visible, HO!Producer
  <2> QED
    BY <1>1, <1>2, <2>1, <2>2
<1>4. HO!IsStore(v + 1, buffer[0][1])
  BY <1>1 DEF HO!HandoffInv, HO!BuffersInv, HO!Producer
<1>5. /\ DOMAIN memory = Cells
      /\ memory' = [memory EXCEPT ![buffer[0][1][1]] = buffer[0][1][2]]
  BY DrainTakesHead DEF HO!HandoffInv, HO!TypeOK
<1>6. PICK k \in Nat \ {0} :
        \/ v + 1 = 3 * k - 2 /\ memory' = [memory EXCEPT ![<<"a", HO!Slot(k)>>] = k]
        \/ v + 1 = 3 * k - 1 /\ memory' = [memory EXCEPT ![<<"b", HO!Slot(k)>>] = k]
        \/ v + 1 = 3 * k /\ memory' = [memory EXCEPT ![HO!write_idx] = k]
  <2>1. PICK k \in Nat \ {0} :
          \/ v + 1 = 3 * k - 2 /\ buffer[0][1] = <<<<"a", HO!Slot(k)>>, k>>
          \/ v + 1 = 3 * k - 1 /\ buffer[0][1] = <<<<"b", HO!Slot(k)>>, k>>
          \/ v + 1 = 3 * k /\ buffer[0][1] = <<HO!write_idx, k>>
    BY <1>4 DEF HO!IsStore
  <2>2. ASSUME NEW c, NEW n, buffer[0][1] = <<c, n>>
        PROVE  memory' = [memory EXCEPT ![c] = n]
    BY <1>5, <2>2
  <2>3. CASE v + 1 = 3 * k - 2 /\ buffer[0][1] = <<<<"a", HO!Slot(k)>>, k>>
    BY <2>2, <2>3
  <2>4. CASE v + 1 = 3 * k - 1 /\ buffer[0][1] = <<<<"b", HO!Slot(k)>>, k>>
    BY <2>2, <2>4
  <2>5. CASE v + 1 = 3 * k /\ buffer[0][1] = <<HO!write_idx, k>>
    BY <2>2, <2>5
  <2> QED
    BY <2>1, <2>3, <2>4, <2>5
<1>7. PICK w \in Nat : w = memory[HO!write_idx] /\ 3 * w <= v /\ v < 3 * w + 3
  BY DEF HO!HandoffInv, HO!TypeOK, HO!MemoryInv
<1>8. memory'[HO!read_idx] = memory[HO!read_idx] /\ DOMAIN memory' = Cells
  BY <1>5, <1>6, HandoffCells
<1>9. /\ memory'[HO!write_idx] \in Nat /\ w <= memory'[HO!write_idx]
      /\ 3 * memory'[HO!write_idx] <= v + 1 /\ v + 1 < 3 * memory'[HO!write_idx] + 3
  <2>1. CASE v + 1 = 3 * k /\ memory' = [memory EXCEPT ![HO!write_idx] = k]
    <3>1. memory'[HO!write_idx] = k
      BY <1>5, <2>1, HandoffCells
    <3> QED
      BY <1>2, <1>7, <2>1, <3>1
  <2>2. CASE /\ v + 1 = 3 * k - 2 \/ v + 1 = 3 * k - 1
             /\ memory'[HO!write_idx] = w
    BY <1>2, <1>7, <2>2
  <2> QED
    BY <1>5, <1>6, <1>7, <2>1, <2>2, HandoffCells
<1>10. ASSUME NEW h \in Nat \ {0}, 3 * h - 2 <= v + 1, v + 1 < 3 * (h + kRingSize) - 2
       PROVE  memory'[<<"a", HO!Slot(h)>>] = h
  <2>0. kRingSize \in Nat \ {0}
    BY DEF HO!RingHasSlots
  <2>1. ASSUME 3 * h - 2 <= v, v < 3 * (h + kRingSize) - 2
        PROVE  memory[<<"a", HO!Slot(h)>>] = h
    <3>1. h \in 1 .. v
      BY <1>2, <2>1
    <3> QED
      BY <2>1, <3>1 DEF HO!HandoffInv, HO!MemoryInv
  <2>2. CASE v + 1 = 3 * k - 2 /\ memory' = [memory EXCEPT ![<<"a", HO!Slot(k)>>] = k]
    <3>1. CASE h = k
      BY <1>5, <2>2, <3>1, HandoffCells
    <3>2. CASE h # k
      <4>1. h < k /\ k < h + kRingSize
        BY <1>2, <1>10, <2>0, <2>2, <3>2
      <4>2. HO!Slot(h) # HO!Slot(k)
        BY <4>1, SlotsDiffer
      <4>3. memory[<<"a", HO!Slot(h)>>] = h
        BY <1>2, <1>10, <2>0, <2>1, <2>2, <4>1
      <4>4. <<"a", HO!Slot(h)>> # <<"a", HO!Slot(k)>>
        BY <4>2
      <4> QED
        BY <1>5, <2>2, <4>3, <4>4, HandoffCells
    <3> QED
      BY <3>1, <3>2
  <2>3. CASE v + 1 # 3 * k - 2 /\ memory'[<<"a", HO!Slot(h)>>] = memory[<<"a", HO!Slot(h)>>]
    <3>1. 3 * h - 2 <= v /\ v < 3 * (h + kRingSize) - 2
      BY <1>2, <1>6, <1>10, <2>0, <2>3
    <3> QED
      BY <2>1, <2>3, <3>1
  <2>4. \/ /\ v + 1 = 3 * k - 1 /\ v + 1 # 3 * k - 2
           /\ memory' = [memory EXCEPT ![<<"b", HO!Slot(k)>>] = k]
        \/ /\ v + 1 = 3 * k - 2
           /\ memory' = [memory EXCEPT ![<<"a", HO!Slot(k)>>] = k]
        \/ /\ v + 1 = 3 * k /\ v + 1 # 3 * k - 2
           /\ memory' = [memory EXCEPT ![HO!write_idx] = k]
    BY <1>2, <1>6
  <2> QED
    BY <1>5, <2>2, <2>3, <2>4, HandoffCells
<1>11. ASSUME NEW h \in Nat \ {0}, 3 * h - 1 <= v + 1, v + 1 < 3 * (h + kRingSize) - 1
       PROVE  memory'[<<"b", HO!Slot(h)>>] = h
  <2>0. kRingSize \in Nat \ {0}
    BY DEF HO!RingHasSlots
  <2>1. ASSUME 3 * h - 1 <= v, v < 3 * (h + kRingSize) - 1
        PROVE  memory[<<"b", HO!Slot(h)>>] = h
    <3>1. h \in 1 .. v
      BY <1>2, <2>1
    <3> QED
      BY <2>1, <3>1 DEF HO!HandoffInv, HO!MemoryInv
  <2>2. CASE v + 1 = 3 * k - 1 /\ memory' = [memory EXCEPT ![<<"b", HO!Slot(k)>>] = k]
    <3>1. CASE h = k
      BY <1>5, <2>2, <3>1, HandoffCells
    <3>2. CASE h # k
      <4>1. h < k /\ k < h + kRingSize
        BY <1>2, <1>11, <2>0, <2>2, <3>2
      <4>2. HO!Slot(h) # HO!Slot(k)
        BY <4>1, SlotsDiffer
      <4>3. memory[<<"b", HO!Slot(h)>>] = h
        BY <1>2, <1>11, <2>0, <2>1, <2>2, <4>1
      <4>4. <<"b", HO!Slot(h)>> # <<"b", HO!Slot(k)>>
        BY <4>2
      <4> QED
        BY <1>5, <2>2, <4>3, <4>4, HandoffCells
    <3> QED
      BY <3>1, <3>2
  <2>3. CASE v + 1 # 3 * k - 1 /\ memory'[<<"b", HO!Slot(h)>>] = memory[<<"b", HO!Slot(h)>>]
    <3>1. 3 * h - 1 <= v /\ v < 3 * (h + kRingSize) - 1
      BY <1>2, <1>6, <1>11, <2>0, <2>3
    <3> QED
      BY <2>1, <2>3, <3>1
  <2>4. \/ /\ v + 1 = 3 * k - 2 /\ v + 1 # 3 * k - 1
           /\ memory' = [memory EXCEPT ![<<"a", HO!Slot(k)>>] = k]
        \/ /\ v + 1 = 3 * k - 1
           /\ memory' = [memory EXCEPT ![<<"b", HO!Slot(k)>>] = k]
        \/ /\ v + 1 = 3 * k /\ v + 1 # 3 * k - 1
           /\ memory' = [memory EXCEPT ![HO!write_idx] = k]
    BY <1>2, <1>6
  <2> QED
    BY <1>5, <2>2, <2>3, <2>4, HandoffCells
<1>12. HO!TypeOK'
  BY <1>8, <1>9, DrainTakesHead DEF HO!HandoffInv, HO!TypeOK
<1>13. HO!BuffersInv'
  <2>1. /\ Len(buffer'[0]) = l - 1 /\ buffer'[1] = buffer[1]
        /\ \A j \in 1 .. l - 1 : buffer'[0][j] = buffer[0][j + 1]
    BY <1>1, DrainTakesHead DEF HO!HandoffInv
  <2>2. ASSUME NEW j \in 1 .. l - 1
        PROVE  HO!IsStore(v + 1 + j, buffer'[0][j])
    <3>1. j + 1 \in 1 .. l /\ v + (j + 1) = v + 1 + j
      BY <1>2
    <3>2. HO!IsStore(v + (j + 1), buffer[0][j + 1])
      BY <1>1, <3>1 DEF HO!HandoffInv, HO!BuffersInv, HO!Producer
    <3> QED
      BY <2>1, <3>1, <3>2
  <2>3. HO!Visible' >= 0
    BY <1>2, <1>3
  <2>4. \A j \in 1 .. Len(buffer'[0]) : HO!IsStore(HO!Visible' + j, buffer'[0][j])
    BY <1>3, <2>1, <2>2
  <2> QED
    BY <1>8, <2>1, <2>3, <2>4 DEF HO!HandoffInv, HO!BuffersInv, HO!Producer, HO!Consumer,
       HO!read_idx
<1>14. HO!MemoryInv'
  BY <1>3, <1>9, <1>10, <1>11 DEF HO!MemoryInv, HO!write_idx, HO!Slot
<1>15. HO!RoomInv'
  <2>1. /\ memory'[HO!read_idx] = memory[HO!read_idx] /\ w <= memory'[HO!write_idx]
        /\ ci \in Nat /\ memory'[HO!write_idx] \in Nat
    BY <1>8, <1>9 DEF HO!HandoffInv, HO!TypeOK
  <2> QED
    BY <1>7, <2>1 DEF HO!HandoffInv, HO!RoomInv, HO!read_idx, HO!write_idx
<1> QED
  BY <1>12, <1>13, <1>14, <1>15 DEF HO!HandoffInv

(* The consumer's index reaches memory.                                    *)
LEMMA ConsumerDrains ==
  ASSUME HO!RingHasSlots, HO!HandoffInv, HO!Drain(1),
         UNCHANGED <<ppc, pi, cpc, ci, payload>>
  PROVE  HO!HandoffInv'
<1>1. PICK rd \in Nat, l \in Nat \ {0} :
        rd = memory[HO!read_idx] /\ l = Len(buffer[1]) /\ rd = ci - 1 - l
  <2>1. memory[HO!read_idx] \in Nat
    BY DEF HO!HandoffInv, HO!TypeOK
  <2>2. Len(buffer[1]) \in Nat \ {0}
    BY DrainTakesHead DEF HO!HandoffInv
  <2>3. memory[HO!read_idx] = ci - 1 - Len(buffer[1])
    BY DEF HO!HandoffInv, HO!BuffersInv, HO!Consumer
  <2> QED
    BY <2>1, <2>2, <2>3
<1>2. \A j \in 1 .. l : buffer[1][j] = <<HO!read_idx, rd + j>>
  BY <1>1 DEF HO!HandoffInv, HO!BuffersInv, HO!Consumer
<1>3. memory' = [memory EXCEPT ![HO!read_idx] = rd + 1]
  <2>1. buffer[1][1] = <<HO!read_idx, rd + 1>>
    BY <1>2
  <2>2. memory' = [memory EXCEPT ![buffer[1][1][1]] = buffer[1][1][2]]
    BY DrainTakesHead DEF HO!HandoffInv
  <2>3. buffer[1][1][1] = HO!read_idx /\ buffer[1][1][2] = rd + 1
    BY <2>1
  <2> QED
    BY <2>2, <2>3
<1>4. /\ DOMAIN memory' = Cells /\ memory'[HO!read_idx] = rd + 1
      /\ \A c \in Cells \ {HO!read_idx} : memory'[c] = memory[c]
  BY <1>3, HandoffCells DEF HO!HandoffInv, HO!TypeOK
<1>5. HO!Visible' = HO!Visible
  BY DrainTakesHead DEF HO!HandoffInv, HO!Visible, HO!Stored, HO!Producer
<1>6. HO!TypeOK'
  BY <1>4, DrainTakesHead, HandoffCells DEF HO!HandoffInv, HO!TypeOK, HO!read_idx, HO!write_idx
<1>7. HO!BuffersInv'
  <2>1. /\ Len(buffer'[1]) = l - 1 /\ buffer'[0] = buffer[0]
        /\ \A j \in 1 .. l - 1 : buffer'[1][j] = buffer[1][j + 1]
    BY <1>1, DrainTakesHead DEF HO!HandoffInv
  <2>2. ASSUME NEW j \in 1 .. l - 1
        PROVE  buffer'[1][j] = <<HO!read_idx, rd + 1 + j>>
    <3>1. j + 1 \in 1 .. l /\ rd + (j + 1) = rd + 1 + j
      OBVIOUS
    <3> QED
      BY <1>2, <2>1, <3>1
  <2>3. rd + 1 = ci' - 1 - (l - 1)
    BY <1>1 DEF HO!HandoffInv, HO!TypeOK
  <2>4. /\ HO!Visible' >= 0
        /\ \A j \in 1 .. Len(buffer'[0]) : HO!IsStore(HO!Visible' + j, buffer'[0][j])
    BY <1>5, <2>1 DEF HO!HandoffInv, HO!BuffersInv, HO!Producer
  <2>5. /\ memory'[HO!read_idx] = ci' - 1 - Len(buffer'[1])
        /\ \A j \in 1 .. Len(buffer'[1]) : buffer'[1][j] = <<HO!read_idx, memory'[HO!read_idx] + j>>
    BY <1>4, <2>1, <2>2, <2>3
  <2> QED
    BY <2>4, <2>5 DEF HO!BuffersInv, HO!Producer, HO!Consumer, HO!read_idx
<1>8. HO!MemoryInv'
  BY <1>4, <1>5, HandoffCells DEF HO!HandoffInv, HO!MemoryInv, HO!write_idx, HO!Slot
<1>9. HO!RoomInv'
  <2>1. memory'[HO!write_idx] = memory[HO!write_idx]
    BY <1>4, HandoffCells
  <2>2. /\ pi - 1 - rd <= kRingSize /\ (ppc # "room" => pi - 1 - rd < kRingSize)
        /\ pi \in Nat /\ kRingSize \in Nat
    BY <1>1 DEF HO!HandoffInv, HO!RoomInv, HO!TypeOK, HO!RingHasSlots
  <2>3. /\ pi - 1 - memory'[HO!read_idx] <= kRingSize
        /\ ppc # "room" => pi - 1 - memory'[HO!read_idx] < kRingSize
    BY <1>4, <2>2
  <2> QED
    BY <2>1, <2>3 DEF HO!HandoffInv, HO!RoomInv, HO!read_idx, HO!write_idx
<1> QED
  BY <1>6, <1>7, <1>8, <1>9 DEF HO!HandoffInv

(* The producer's steps.                                                   *)
LEMMA ProducerSteps ==
  ASSUME HO!RingHasSlots, HO!HandoffInv,
         HO!FindRoom \/ HO!WriteA \/ HO!WriteB \/ HO!Publish
  PROVE  HO!HandoffInv'
<1>0. /\ kRingSize \in Nat \ {0} /\ pi \in Nat \ {0} /\ memory[HO!read_idx] \in Nat
  BY DEF HO!RingHasSlots, HO!HandoffInv, HO!TypeOK
<1>1. CASE HO!FindRoom
  <2>1. /\ ppc = "room" /\ ppc' = "a" /\ pi - 1 - memory[HO!read_idx] < kRingSize
        /\ UNCHANGED <<memory, buffer, pi, cpc, ci, payload>>
    BY <1>1, IndexLoads DEF HO!FindRoom, HO!Producer, HO!consumer
  <2>2. HO!Visible' = HO!Visible
    BY <2>1 DEF HO!Visible, HO!Stored
  <2>3. HO!TypeOK'
    BY <2>1 DEF HO!HandoffInv, HO!TypeOK, HO!read_idx, HO!write_idx
  <2>4. HO!BuffersInv'
    BY <2>1, <2>2 DEF HO!HandoffInv, HO!BuffersInv, HO!Producer, HO!Consumer, HO!read_idx
  <2>5. HO!MemoryInv'
    BY <2>1, <2>2 DEF HO!HandoffInv, HO!MemoryInv, HO!write_idx, HO!Slot
  <2>6. HO!RoomInv'
    BY <2>1 DEF HO!HandoffInv, HO!RoomInv, HO!write_idx, HO!read_idx
  <2> QED
    BY <2>3, <2>4, <2>5, <2>6 DEF HO!HandoffInv
<1>2. ASSUME NEW c \in Cells, HO!Store(0, c, pi), HO!IsStore(HO!Stored + 1, <<c, pi>>),
             HO!Stored' = HO!Stored + 1, pi' \in Nat \ {0},
             ppc # "room",
             \/ pi' = pi /\ ppc' \in {"b", "publish"}
             \/ pi' = pi + 1 /\ ppc' = "room",
             UNCHANGED <<cpc, ci, payload>>
      PROVE  HO!HandoffInv'
  <2>1. HO!TypeOK' /\ HO!BuffersInv' /\ HO!MemoryInv' /\ memory' = memory
    BY <1>0, <1>2, ProducerStores
  <2>2. pi - 1 - memory[HO!read_idx] < kRingSize
    BY <1>2 DEF HO!HandoffInv, HO!RoomInv
  <2>3. /\ pi' - 1 - memory[HO!read_idx] <= kRingSize
        /\ ppc' # "room" => pi' - 1 - memory[HO!read_idx] < kRingSize
    BY <1>0, <1>2, <2>2
  <2>4. HO!RoomInv'
    BY <1>2, <2>1, <2>3 DEF HO!HandoffInv, HO!RoomInv, HO!write_idx, HO!read_idx
  <2> QED
    BY <2>1, <2>4 DEF HO!HandoffInv
<1>3. CASE HO!WriteA
  <2>1. /\ ppc = "a" /\ ppc' = "b" /\ HO!Store(0, <<"a", HO!Slot(pi)>>, pi)
        /\ UNCHANGED <<pi, cpc, ci, payload>>
    BY <1>3 DEF HO!WriteA, HO!Producer, HO!consumer
  <2>2. HO!Stored = 3 * pi - 3 /\ HO!Stored' = HO!Stored + 1 /\ HO!Stored + 1 = 3 * pi - 2
    BY <1>0, <2>1 DEF HO!Stored
  <2>3. HO!IsStore(HO!Stored + 1, <<<<"a", HO!Slot(pi)>>, pi>>)
    BY <1>0, <2>2 DEF HO!IsStore
  <2> QED
    BY <1>0, <1>2, <2>1, <2>2, <2>3, HandoffCells
<1>4. CASE HO!WriteB
  <2>1. /\ ppc = "b" /\ ppc' = "publish" /\ HO!Store(0, <<"b", HO!Slot(pi)>>, pi)
        /\ UNCHANGED <<pi, cpc, ci, payload>>
    BY <1>4 DEF HO!WriteB, HO!Producer, HO!consumer
  <2>2. HO!Stored = 3 * pi - 2 /\ HO!Stored' = HO!Stored + 1 /\ HO!Stored + 1 = 3 * pi - 1
    BY <1>0, <2>1 DEF HO!Stored
  <2>3. HO!IsStore(HO!Stored + 1, <<<<"b", HO!Slot(pi)>>, pi>>)
    BY <1>0, <2>2 DEF HO!IsStore
  <2> QED
    BY <1>0, <1>2, <2>1, <2>2, <2>3, HandoffCells
<1>5. CASE HO!Publish
  <2>1. /\ ppc = "publish" /\ ppc' = "room" /\ HO!Store(0, HO!write_idx, pi) /\ pi' = pi + 1
        /\ UNCHANGED <<cpc, ci, payload>>
    BY <1>5 DEF HO!Publish, HO!Producer, HO!consumer
  <2>2. HO!Stored = 3 * pi - 1 /\ HO!Stored' = HO!Stored + 1 /\ HO!Stored + 1 = 3 * pi
    BY <1>0, <2>1 DEF HO!Stored
  <2>3. HO!IsStore(HO!Stored + 1, <<HO!write_idx, pi>>)
    BY <1>0, <2>2 DEF HO!IsStore
  <2> QED
    BY <1>0, <1>2, <2>1, <2>2, <2>3, HandoffCells
<1> QED
  BY <1>1, <1>3, <1>4, <1>5

(* The consumer's steps: the words of a message it has seen announced are  *)
(* in memory, and the producer is still waiting for their slot.            *)
LEMMA ConsumerSteps ==
  ASSUME HO!RingHasSlots, HO!HandoffInv,
         HO!Look \/ HO!ReadA \/ HO!ReadB \/ HO!Release
  PROVE  HO!HandoffInv'
<1>0. /\ kRingSize \in Nat \ {0} /\ ci \in Nat \ {0} /\ pi \in Nat \ {0}
      /\ memory[HO!write_idx] \in Nat /\ memory[HO!read_idx] \in Nat
      /\ payload \in [1 .. 2 -> Nat]
  BY DEF HO!RingHasSlots, HO!HandoffInv, HO!TypeOK
<1>1. ASSUME cpc # "look"
      PROVE  memory[<<"a", HO!Slot(ci)>>] = ci /\ memory[<<"b", HO!Slot(ci)>>] = ci
  <2>1. PICK v \in Int, w \in Nat, rd \in Nat :
          v = HO!Visible /\ w = memory[HO!write_idx] /\ rd = memory[HO!read_idx]
    <3>1. HO!Visible \in Int
      <4>1. HO!Stored \in Int
        BY <1>0 DEF HO!Stored
      <4>2. Len(buffer[0]) \in Nat
        BY DEF HO!HandoffInv, HO!TypeOK
      <4> QED
        BY <4>1, <4>2 DEF HO!Visible, HO!Producer
    <3> QED
      BY <1>0, <3>1
  <2>2. ci <= w /\ 3 * w <= v
    BY <1>1, <2>1 DEF HO!HandoffInv, HO!RoomInv, HO!MemoryInv
  <2>3. rd <= ci - 1
    <3>1. Len(buffer[1]) \in Nat /\ rd = ci - 1 - Len(buffer[1])
      BY <2>1 DEF HO!HandoffInv, HO!TypeOK, HO!BuffersInv, HO!Consumer
    <3> QED
      BY <1>0, <3>1
  <2>4. v < 3 * (ci + kRingSize) - 2
    <3>1. v <= HO!Stored
      <4>1. Len(buffer[0]) \in Nat /\ HO!Stored \in Int
        BY <1>0 DEF HO!HandoffInv, HO!TypeOK, HO!Stored
      <4>2. v = HO!Stored - Len(buffer[0])
        BY <2>1 DEF HO!Visible, HO!Producer
      <4> QED
        BY <4>1, <4>2
    <3>2. /\ HO!Stored <= 3 * (pi - 1) + 2 /\ (ppc = "room" => HO!Stored = 3 * (pi - 1))
          /\ HO!Stored \in Int
      BY <1>0 DEF HO!Stored
    <3>3. pi - 1 - rd <= kRingSize /\ (ppc # "room" => pi - 1 - rd < kRingSize)
      BY <2>1 DEF HO!HandoffInv, HO!RoomInv
    <3>4. CASE ppc = "room"
      BY <1>0, <2>3, <3>1, <3>2, <3>3, <3>4
    <3>5. CASE ppc # "room"
      BY <1>0, <2>3, <3>1, <3>2, <3>3, <3>5
    <3> QED
      BY <3>4, <3>5
  <2>5. /\ 3 * ci - 2 <= v /\ 3 * ci - 1 <= v /\ v < 3 * (ci + kRingSize) - 1
    BY <1>0, <2>2, <2>4
  <2> QED
    BY <1>0, <2>1, <2>4, <2>5 DEF HO!HandoffInv, HO!MemoryInv
<1>2. ASSUME UNCHANGED <<memory, buffer, ppc, pi, ci>>, cpc' \in {"look", "a", "b", "release"},
             payload' \in [1 .. 2 -> Nat]
      PROVE  HO!TypeOK' /\ HO!BuffersInv' /\ HO!MemoryInv'
  <2>1. HO!Visible' = HO!Visible
    BY <1>2 DEF HO!Visible, HO!Stored
  <2>2. HO!TypeOK'
    BY <1>2 DEF HO!HandoffInv, HO!TypeOK, HO!read_idx, HO!write_idx
  <2>3. HO!BuffersInv'
    BY <1>2, <2>1 DEF HO!HandoffInv, HO!BuffersInv, HO!Producer, HO!Consumer, HO!read_idx
  <2>4. HO!MemoryInv'
    BY <1>2, <2>1 DEF HO!HandoffInv, HO!MemoryInv, HO!write_idx, HO!Slot
  <2> QED
    BY <2>2, <2>3, <2>4
<1>3. CASE HO!Look
  <2>1. /\ cpc = "look" /\ cpc' = "a" /\ ci <= memory[HO!write_idx]
        /\ UNCHANGED <<memory, buffer, ppc, pi, ci, payload>>
    BY <1>0, <1>3, IndexLoads DEF HO!Look, HO!Consumer, HO!producer
  <2>2. HO!RoomInv'
    BY <2>1 DEF HO!HandoffInv, HO!RoomInv, HO!read_idx, HO!write_idx
  <2> QED
    BY <1>0, <1>2, <2>1, <2>2 DEF HO!HandoffInv
<1>4. CASE HO!ReadA
  <2>1. /\ cpc = "a" /\ cpc' = "b" /\ payload' = [payload EXCEPT ![1] = ci]
        /\ UNCHANGED <<memory, buffer, ppc, pi, ci>>
    BY <1>0, <1>1, <1>4, IndexLoads DEF HO!ReadA, HO!Consumer, HO!producer
  <2>2. payload' \in [1 .. 2 -> Nat] /\ payload'[1] = ci
    BY <1>0, <2>1
  <2>3. HO!RoomInv'
    BY <2>1, <2>2 DEF HO!HandoffInv, HO!RoomInv, HO!read_idx, HO!write_idx
  <2> QED
    BY <1>0, <1>2, <2>1, <2>2, <2>3 DEF HO!HandoffInv
<1>5. CASE HO!ReadB
  <2>1. /\ cpc = "b" /\ cpc' = "release" /\ payload' = [payload EXCEPT ![2] = ci]
        /\ UNCHANGED <<memory, buffer, ppc, pi, ci>>
    BY <1>0, <1>1, <1>5, IndexLoads DEF HO!ReadB, HO!Consumer, HO!producer
  <2>2. payload' \in [1 .. 2 -> Nat] /\ payload'[2] = ci /\ payload'[1] = payload[1]
    BY <1>0, <2>1
  <2>3. HO!RoomInv'
    BY <2>1, <2>2 DEF HO!HandoffInv, HO!RoomInv, HO!read_idx, HO!write_idx
  <2> QED
    BY <1>0, <1>2, <2>1, <2>2, <2>3 DEF HO!HandoffInv
<1>6. CASE HO!Release
  <2> DEFINE q == buffer[1]
  <2>1. /\ cpc = "release" /\ cpc' = "look" /\ ci' = ci + 1 /\ memory' = memory
        /\ buffer' = [buffer EXCEPT ![1] = Append(q, <<HO!read_idx, ci>>)]
        /\ UNCHANGED <<ppc, pi, payload>>
    BY <1>6 DEF HO!Release, HO!Store, HO!Consumer, HO!producer
  <2>2. q \in Seq(Cells \X Nat) /\ <<HO!read_idx, ci>> \in Cells \X Nat
    BY <1>0, HandoffCells DEF HO!HandoffInv, HO!TypeOK
  <2>3. /\ buffer' \in [{0, 1} -> Seq(Cells \X Nat)] /\ buffer'[0] = buffer[0]
        /\ Len(buffer'[1]) = Len(q) + 1 /\ Len(q) \in Nat
        /\ \A j \in 1 .. Len(q) : buffer'[1][j] = q[j]
        /\ buffer'[1][Len(q) + 1] = <<HO!read_idx, ci>>
    <3>1. /\ Append(q, <<HO!read_idx, ci>>) \in Seq(Cells \X Nat)
          /\ Len(Append(q, <<HO!read_idx, ci>>)) = Len(q) + 1
          /\ \A j \in 1 .. Len(q) : Append(q, <<HO!read_idx, ci>>)[j] = q[j]
          /\ Append(q, <<HO!read_idx, ci>>)[Len(q) + 1] = <<HO!read_idx, ci>>
      BY <2>2, AppendProperties
    <3>2. buffer'[1] = Append(q, <<HO!read_idx, ci>>) /\ buffer'[0] = buffer[0]
      BY <2>1 DEF HO!HandoffInv, HO!TypeOK
    <3>3. buffer' \in [{0, 1} -> Seq(Cells \X Nat)]
      BY <2>1, <3>1 DEF HO!HandoffInv, HO!TypeOK
    <3> QED
      BY <2>2, <3>1, <3>2, <3>3
  <2>4. HO!Visible' = HO!Visible
    BY <2>1, <2>3 DEF HO!Visible, HO!Stored, HO!Producer
  <2>5. HO!TypeOK'
    BY <1>0, <2>1, <2>3 DEF HO!HandoffInv, HO!TypeOK, HO!read_idx, HO!write_idx
  <2>6. HO!BuffersInv'
    <3>1. PICK l \in Nat, rd \in Nat : l = Len(q) /\ rd = memory[HO!read_idx]
      BY <1>0, <2>3
    <3>2. rd = ci - 1 - l
      BY <3>1 DEF HO!HandoffInv, HO!BuffersInv, HO!Consumer
    <3>3. \A j \in 1 .. l + 1 : buffer'[1][j] = <<HO!read_idx, rd + j>>
      <4> SUFFICES ASSUME NEW j \in 1 .. l + 1 PROVE buffer'[1][j] = <<HO!read_idx, rd + j>>
        OBVIOUS
      <4>1. CASE j \in 1 .. l
        BY <2>3, <3>1, <4>1 DEF HO!HandoffInv, HO!BuffersInv, HO!Consumer
      <4>2. CASE j = l + 1
        <5>1. rd + j = ci
          BY <1>0, <3>2, <4>2
        <5> QED
          BY <2>3, <3>1, <4>2, <5>1
      <4> QED
        BY <4>1, <4>2
    <3>4. rd = ci' - 1 - Len(buffer'[1]) /\ Len(buffer'[1]) = l + 1
      BY <1>0, <2>1, <2>3, <3>1, <3>2
    <3>5. /\ memory'[HO!read_idx] = ci' - 1 - Len(buffer'[1])
          /\ \A j \in 1 .. Len(buffer'[1]) : buffer'[1][j] = <<HO!read_idx, memory'[HO!read_idx] + j>>
      BY <2>1, <3>1, <3>3, <3>4
    <3>6. /\ HO!Visible' >= 0
          /\ \A j \in 1 .. Len(buffer'[0]) : HO!IsStore(HO!Visible' + j, buffer'[0][j])
      BY <2>3, <2>4 DEF HO!HandoffInv, HO!BuffersInv, HO!Producer
    <3> QED
      BY <3>5, <3>6 DEF HO!BuffersInv, HO!Producer, HO!Consumer, HO!read_idx
  <2>7. HO!MemoryInv'
    BY <2>1, <2>4 DEF HO!HandoffInv, HO!MemoryInv, HO!write_idx, HO!Slot
  <2>8. HO!RoomInv'
    <3>1. ci' - 1 <= memory[HO!write_idx]
      BY <1>0, <2>1 DEF HO!HandoffInv, HO!RoomInv
    <3> QED
      BY <2>1, <3>1 DEF HO!HandoffInv, HO!RoomInv, HO!read_idx, HO!write_idx
  <2> QED
    BY <2>5, <2>6, <2>7, <2>8 DEF HO!HandoffInv
<1> QED
  BY <1>3, <1>4, <1>5, <1>6

LEMMA HandoffInit == HO!RingHasSlots /\ HO!Init => HO!HandoffInv
<1> SUFFICES ASSUME HO!RingHasSlots, HO!Init PROVE HO!HandoffInv
  OBVIOUS
<1>1. /\ memory = [a \in Cells |-> 0] /\ buffer = [t \in {0, 1} |-> <<>>]
      /\ ppc = "room" /\ pi = 1 /\ cpc = "look" /\ ci = 1 /\ payload = <<0, 0>>
  BY DEF HO!Init, HO!InitMemory
<1>2. /\ memory[HO!write_idx] = 0 /\ memory[HO!read_idx] = 0
      /\ buffer[0] = <<>> /\ buffer[1] = <<>> /\ Len(buffer[0]) = 0 /\ Len(buffer[1]) = 0
      /\ payload \in [1 .. 2 -> Nat]
  BY <1>1, HandoffCells
<1>3. HO!Visible = 0
  <2>1. HO!Stored = 0
    BY <1>1 DEF HO!Stored
  <2>2. HO!Visible = HO!Stored - Len(buffer[0])
    BY DEF HO!Visible, HO!Producer
  <2> QED
    BY <1>2, <2>1, <2>2
<1>4. HO!TypeOK
  <2>1. <<>> \in Seq(Cells \X Nat)
    OBVIOUS
  <2>2. buffer \in [{0, 1} -> Seq(Cells \X Nat)]
    BY <1>1, <2>1
  <2>3. DOMAIN memory = Cells
    BY <1>1
  <2> QED
    BY <1>1, <1>2, <2>2, <2>3 DEF HO!TypeOK
<1>5. HO!BuffersInv
  <2>1. 1 .. Len(buffer[0]) = {} /\ 1 .. Len(buffer[1]) = {}
    BY <1>2
  <2>2. HO!Visible >= 0
    BY <1>3
  <2>3. memory[HO!read_idx] = 0 /\ ci = 1 /\ Len(buffer[1]) = 0
    BY <1>1, <1>2
  <2>4. memory[HO!read_idx] = ci - 1 - Len(buffer[1])
    BY <2>3
  <2> QED
    BY <2>1, <2>2, <2>4 DEF HO!BuffersInv, HO!Producer, HO!Consumer
<1>6. HO!MemoryInv
  <2>1. \A k \in Nat \ {0} : ~(3 * k - 2 <= 0) /\ ~(3 * k - 1 <= 0)
    OBVIOUS
  <2> QED
    BY <1>2, <1>3, <2>1 DEF HO!MemoryInv
<1>7. HO!RoomInv
  BY <1>1, <1>2 DEF HO!RoomInv, HO!RingHasSlots
<1> QED
  BY <1>4, <1>5, <1>6, <1>7 DEF HO!HandoffInv

LEMMA HandoffStep ==
  ASSUME HO!RingHasSlots, HO!HandoffInv, HO!Next
  PROVE  HO!HandoffInv'
<1>1. ASSUME NEW t \in {0, 1}, HO!Drain(t), UNCHANGED <<UseAcquireRelease, HO!producer, HO!consumer>>
      PROVE  HO!HandoffInv'
  <2>1. UNCHANGED <<ppc, pi, cpc, ci, payload>>
    BY <1>1 DEF HO!producer, HO!consumer
  <2> QED
    BY <1>1, <2>1, ProducerDrains, ConsumerDrains
<1> QED
  BY <1>1, ProducerSteps, ConsumerSteps DEF HO!Next

LEMMA HandoffStutter ==
  ASSUME HO!HandoffInv, UNCHANGED HO!vars
  PROVE  HO!HandoffInv'
<1>1. UNCHANGED <<memory, buffer, ppc, pi, cpc, ci, payload>>
  BY DEF HO!vars, HO!producer, HO!consumer
<1>2. HO!Visible' = HO!Visible
  BY <1>1 DEF HO!Visible, HO!Stored
<1>3. HO!TypeOK' /\ HO!RoomInv'
  BY <1>1 DEF HO!HandoffInv, HO!TypeOK, HO!RoomInv, HO!write_idx, HO!read_idx
<1>4. HO!BuffersInv'
  BY <1>1, <1>2 DEF HO!HandoffInv, HO!BuffersInv, HO!Producer, HO!Consumer, HO!read_idx
<1>5. HO!MemoryInv'
  BY <1>1, <1>2 DEF HO!HandoffInv, HO!MemoryInv, HO!write_idx, HO!Slot
<1> QED
  BY <1>3, <1>4, <1>5 DEF HO!HandoffInv

(* The buffers and the memory hold the program of the producer, and        *)
(* neither thread overruns the other, for any ring and number of messages. *)
THEOREM HandoffInvariance == HO!Spec => []HO!HandoffInv
<1> SUFFICES ASSUME HO!RingHasSlots PROVE HO!Spec => []HO!HandoffInv
  BY StructureConstants
<1>1. HO!Init => HO!HandoffInv
  BY HandoffInit
<1>2. HO!HandoffInv /\ [HO!Next]_(HO!vars) => HO!HandoffInv'
  BY HandoffStep, HandoffStutter
<1> QED
  BY <1>1, <1>2, PTL DEF HO!Spec

(* RunProducerConsumerHandoff: with either template argument the consumer  *)
(* reads every message whole and in its turn, however late the stores      *)
(* leave the buffers.                                                      *)
THEOREM MessagesArriveWhole == MCSpec => []MessagesWhole
<1> SUFFICES ASSUME HO!RingHasSlots PROVE MCSpec => []MessagesWhole
  BY StructureConstants
<1> DEFINE Inv == IF part = "handoff" THEN HO!HandoffInv ELSE cpc = "look"
<1>1. MCInit => Inv
  <2>1. HO!Init => cpc = "look"
    BY DEF HO!Init
  <2> QED
    BY <2>1, HandoffInit DEF MCInit
<1>2. Inv /\ [MCNext]_all => Inv'
  <2> SUFFICES ASSUME Inv, [MCNext]_all
               PROVE  Inv'
    OBVIOUS
  <2>1. part' = part
    BY DEF MCNext, all
  <2>2. CASE part = "handoff"
    <3>1. HO!Next \/ UNCHANGED HO!vars
      BY <2>2 DEF MCNext, all, HO!vars, HO!producer, HO!consumer, hardware, handoff
    <3> QED
      BY <2>1, <2>2, <3>1, HandoffStep, HandoffStutter
  <2>3. CASE part # "handoff"
    BY <2>1, <2>3 DEF MCNext, all, handoff
  <2> QED
    BY <2>2, <2>3
<1>3. Inv => MessagesWhole
  <2>1. HO!HandoffInv /\ cpc = "release" => payload = <<ci, ci>>
    <3> SUFFICES ASSUME HO!HandoffInv, cpc = "release" PROVE payload = <<ci, ci>>
      OBVIOUS
    <3>1. payload \in [1 .. 2 -> Nat] /\ payload[1] = ci /\ payload[2] = ci
      BY DEF HO!HandoffInv, HO!TypeOK, HO!RoomInv
    <3> QED
      BY <3>1
  <2> QED
    BY <2>1 DEF MessagesWhole, HO!MessagesWhole
<1> QED
  BY <1>1, <1>2, <1>3, PTL DEF MCSpec

-----------------------------------------------------------------------------
(* The sharded counter.                                                    *)
LEMMA CounterInit == SC!HasShards /\ SC!Init => SC!CounterInv
<1> SUFFICES ASSUME SC!HasShards, SC!Init PROVE SC!CounterInv
  OBVIOUS
<1>1. CounterShards \in Nat \ {0}
  BY DEF SC!HasShards
<1>2. /\ shards_ = [x \in 0 .. CounterShards - 1 |-> 0] /\ call = "none" /\ i = 0 /\ sum = 0
      /\ newest = 0 /\ oldest = 0 /\ floor = 0
  BY DEF SC!Init, SC!Shards
<1> DEFINE upTo == [x \in 0 .. CounterShards |-> 0]
<1>3. upTo \in [0 .. CounterShards -> Nat] /\ \A x \in 0 .. CounterShards : upTo[x] = 0
  OBVIOUS
<1>4. SC!Between(upTo)
  <2>1. CounterShards \in 0 .. CounterShards /\ 0 \in 0 .. CounterShards
    BY <1>1
  <2>2. \A x \in 0 .. CounterShards - 1 : x \in 0 .. CounterShards /\ x + 1 \in 0 .. CounterShards
    BY <1>1
  <2> HIDE DEF upTo
  <2> QED
    BY <1>2, <1>3, <2>1, <2>2 DEF SC!Between, SC!Shards
<1> QED
  BY <1>1, <1>2, <1>3, <1>4 DEF SC!CounterInv, SC!Shards

(* upTo[s] is the sum of f over the shards before s.                       *)
SumsOf(f, upTo) ==
  /\ upTo[0] = 0
  /\ \A x \in 0 .. CounterShards - 1 : upTo[x + 1] = upTo[x] + f[x]
  /\ \A x, y \in 0 .. CounterShards : x <= y => upTo[x] <= upTo[y]

Shifted(f, upTo, n, v, up) ==
  \A x \in 0 .. CounterShards : up[x] = IF x <= n THEN upTo[x] ELSE upTo[x] + v - f[n]

(* A store to one shard moves the sums behind it by as much.               *)
LEMMA ShardMoves ==
  ASSUME CounterShards \in Nat \ {0}, NEW f \in [0 .. CounterShards - 1 -> Nat],
         NEW upTo \in [0 .. CounterShards -> Nat], SumsOf(f, upTo),
         NEW n \in 0 .. CounterShards - 1, NEW v \in Nat
  PROVE  \E up \in [0 .. CounterShards -> Nat] :
           SumsOf([f EXCEPT ![n] = v], up) /\ Shifted(f, upTo, n, v, up)
<1>0. /\ upTo[0] = 0 /\ \A x \in 0 .. CounterShards - 1 : upTo[x + 1] = upTo[x] + f[x]
      /\ \A x, y \in 0 .. CounterShards : x <= y => upTo[x] <= upTo[y]
  BY DEF SumsOf
<1> DEFINE up == [x \in 0 .. CounterShards |-> IF x <= n THEN upTo[x] ELSE upTo[x] + v - f[n]]
<1>1. n + 1 \in 0 .. CounterShards /\ upTo[n + 1] = upTo[n] + f[n] /\ f[n] \in Nat /\ upTo[n] \in Nat
  BY <1>0
<1>2. \A x \in 0 .. CounterShards : x > n => upTo[x] >= upTo[n] + f[n] /\ upTo[x] \in Nat
  BY <1>0, <1>1
<1>3. \A x \in 0 .. CounterShards :
        up[x] = (IF x <= n THEN upTo[x] ELSE upTo[x] + v - f[n]) /\ up[x] \in Nat
  BY <1>1, <1>2
<1>4. up \in [0 .. CounterShards -> Nat]
  BY <1>3
<1> HIDE DEF up
<1>5. up[0] = 0
  BY <1>0, <1>3
<1>6. ASSUME NEW x \in 0 .. CounterShards - 1
      PROVE  up[x + 1] = up[x] + [f EXCEPT ![n] = v][x]
  <2>1. /\ x \in 0 .. CounterShards /\ x + 1 \in 0 .. CounterShards
        /\ upTo[x + 1] = upTo[x] + f[x] /\ upTo[x] \in Nat /\ f[x] \in Nat
    BY <1>0
  <2>2. CASE x = n
    <3>1. up[n] = upTo[n] /\ up[n + 1] = upTo[n + 1] + v - f[n]
      BY <1>1, <1>3
    <3>2. [f EXCEPT ![n] = v][n] = v
      OBVIOUS
    <3>3. PICK a \in Nat, b \in Nat : a = upTo[n] /\ b = f[n]
      BY <1>1
    <3>4. up[n + 1] = up[n] + v
      <4>1. a + b + v - b = a + v
        OBVIOUS
      <4> QED
        BY <1>1, <3>1, <3>3, <4>1
    <3> QED
      BY <2>2, <3>2, <3>4
  <2>3. CASE x # n
    <3>1. [f EXCEPT ![n] = v][x] = f[x]
      BY <2>3
    <3>2. CASE x < n
      <4>0. x <= n /\ x + 1 <= n
        BY <3>2
      <4>1. up[x] = upTo[x] /\ up[x + 1] = upTo[x + 1]
        BY <1>3, <2>1, <4>0
      <4>2. upTo[x + 1] = upTo[x] + f[x]
        BY <2>1
      <4> QED
        BY <3>1, <4>1, <4>2, Zenon
    <3>3. CASE x > n
      <4>1. up[x] = upTo[x] + v - f[n] /\ up[x + 1] = upTo[x + 1] + v - f[n]
        BY <1>3, <2>1, <3>3
      <4>2. PICK a \in Nat, b \in Nat, c \in Nat : a = upTo[x] /\ b = f[x] /\ c = f[n]
        BY <1>1, <2>1
      <4>3. (a + b) + v - c = (a + v - c) + b
        OBVIOUS
      <4> QED
        BY <2>1, <3>1, <4>1, <4>2, <4>3
    <3> QED
      BY <2>1, <2>3, <3>2, <3>3
  <2> QED
    BY <2>2, <2>3
<1>7. ASSUME NEW x \in 0 .. CounterShards, NEW y \in 0 .. CounterShards, x <= y
      PROVE  up[x] <= up[y]
  <2>1. upTo[x] <= upTo[y] /\ upTo[x] \in Nat /\ upTo[y] \in Nat
    BY <1>0, <1>7
  <2>2. y > n => upTo[y] >= upTo[n] + f[n]
    BY <1>2
  <2>3. x <= n => upTo[x] <= upTo[n]
    BY <1>0
  <2>4. /\ up[x] = IF x <= n THEN upTo[x] ELSE upTo[x] + v - f[n]
        /\ up[y] = IF y <= n THEN upTo[y] ELSE upTo[y] + v - f[n]
    BY <1>3
  <2>5. PICK a \in Nat, b \in Nat, c \in Nat, d \in Nat :
          a = upTo[x] /\ b = upTo[y] /\ c = upTo[n] /\ d = f[n]
    BY <1>1, <2>1
  <2>6. CASE x <= n /\ y <= n
    BY <2>1, <2>4, <2>6
  <2>7. CASE x <= n /\ y > n
    <3>1. up[x] = a /\ up[y] = b + v - d /\ a <= c /\ b >= c + d
      BY <2>2, <2>3, <2>4, <2>5, <2>7
    <3>2. a <= b + v - d
      BY <3>1
    <3> QED
      BY <3>1, <3>2
  <2>8. CASE x > n
    <3>1. up[x] = a + v - d /\ up[y] = b + v - d /\ a <= b
      BY <1>7, <2>1, <2>4, <2>5, <2>8
    <3>2. a + v - d <= b + v - d
      BY <3>1
    <3> QED
      BY <3>1, <3>2
  <2> QED
    BY <2>6, <2>7, <2>8
<1>8. SumsOf([f EXCEPT ![n] = v], up)
  BY <1>5, <1>6, <1>7 DEF SumsOf
<1>9. Shifted(f, upTo, n, v, up)
  BY <1>3 DEF Shifted
<1> QED
  BY <1>4, <1>8, <1>9

LEMMA CounterAfter ==
  ASSUME SC!HasShards, NEW up \in [0 .. CounterShards -> Nat],
         shards_' \in [0 .. CounterShards - 1 -> Nat],
         call' \in {"none", "ReadTotal", "Reset"}, i' \in 0 .. CounterShards,
         sum' \in Nat, newest' \in Nat, oldest' \in Nat, floor' \in Nat,
         SumsOf(shards_', up),
         call' # "Reset" => oldest' <= up[CounterShards] /\ up[CounterShards] <= newest',
         call' = "Reset" => up[i'] <= newest',
         call' = "ReadTotal" => floor' <= sum' + up[CounterShards] - up[i'] /\ sum' <= up[i']
  PROVE  SC!CounterInv'
<1>1. SC!Between(up)'
  BY DEF SC!Between, SC!Shards, SumsOf
<1> QED
  BY <1>1 DEF SC!CounterInv, SC!Shards

LEMMA CounterStep ==
  ASSUME SC!HasShards, SC!CounterInv, SC!Next
  PROVE  SC!CounterInv'
<1>1. /\ CounterShards \in Nat \ {0} /\ shards_ \in [0 .. CounterShards - 1 -> Nat]
      /\ call \in {"none", "ReadTotal", "Reset"} /\ i \in 0 .. CounterShards
      /\ sum \in Nat /\ newest \in Nat /\ oldest \in Nat /\ floor \in Nat
  BY DEF SC!HasShards, SC!CounterInv, SC!Shards
<1>2. PICK upTo \in [0 .. CounterShards -> Nat] : SC!Between(upTo)
  BY DEF SC!CounterInv
<1>3. SumsOf(shards_, upTo)
  BY <1>2 DEF SC!Between, SC!Shards, SumsOf
<1> DEFINE n == CounterShards
<1>4. PICK all_ \in Nat, now \in Nat : all_ = upTo[n] /\ now = upTo[i]
  BY <1>1
<1>5. /\ call # "Reset" => oldest <= all_ /\ all_ <= newest
      /\ call = "Reset" => now <= newest
      /\ call = "ReadTotal" => floor <= sum + all_ - now /\ sum <= now
      /\ now <= all_
  BY <1>1, <1>2, <1>3, <1>4 DEF SC!Between, SumsOf
<1>6. ASSUME NEW worker \in Workers, SC!Increment(worker)
      PROVE  SC!CounterInv'
  <2>1. PICK k \in 0 .. n - 1 : k = SC!Shard(worker)
    BY <1>1 DEF SC!HasShards, SC!Shard
  <2>2. PICK w \in Nat : w = shards_[k]
    BY <1>1
  <2>3. /\ shards_' = [shards_ EXCEPT ![k] = w + 1] /\ w + 1 \in Nat
        /\ newest' = newest + 1 /\ oldest' = oldest + 1
        /\ call' = call /\ i' = i /\ sum' = sum /\ floor' = floor
    BY <1>1, <1>6, <2>1, <2>2 DEF SC!Increment
  <2>4. PICK up \in [0 .. n -> Nat] :
          SumsOf([shards_ EXCEPT ![k] = w + 1], up) /\ Shifted(shards_, upTo, k, w + 1, up)
    BY <1>1, <1>3, <2>3, ShardMoves
  <2>5. up[n] = all_ + 1
    <3>1. n \in 0 .. n /\ ~(n <= k)
      BY <1>1
    <3>2. up[n] = all_ + (w + 1) - w
      BY <1>4, <2>2, <2>4, <3>1 DEF Shifted
    <3> QED
      BY <3>2
  <2>6. up[i] = now \/ up[i] = now + 1
    <3>1. up[i] = now \/ up[i] = now + (w + 1) - w
      BY <1>1, <1>4, <2>2, <2>4 DEF Shifted
    <3> QED
      BY <3>1
  <2>7. up[i] <= up[n]
    BY <1>1, <2>4 DEF SumsOf
  <2>8. shards_' \in [0 .. n - 1 -> Nat] /\ SumsOf(shards_', up)
    BY <1>1, <2>3, <2>4
  <2>9. PICK a \in Nat, b \in Nat : a = up[n] /\ b = up[i]
    BY <1>1, <2>4
  <2>10. /\ call' # "Reset" => oldest' <= a /\ a <= newest'
         /\ call' = "Reset" => b <= newest'
         /\ call' = "ReadTotal" => floor' <= sum' + a - b /\ sum' <= b
    <3>1. a = all_ + 1 /\ (b = now \/ b = now + 1)
      BY <2>5, <2>6, <2>9
    <3> QED
      BY <1>1, <1>5, <2>3, <3>1
  <2>11. newest' \in Nat /\ oldest' \in Nat
    BY <1>1, <2>3
  <2>12. up[i'] = b
    BY <2>3, <2>9
  <2> QED
    BY <1>1, <2>3, <2>4, <2>8, <2>9, <2>10, <2>11, <2>12, CounterAfter
<1>7. CASE SC!ClearShard
  <2>1. PICK w \in Nat : i \in 0 .. n - 1 /\ w = shards_[i]
    BY <1>1, <1>7 DEF SC!ClearShard
  <2>2. /\ call = "Reset" /\ i' = i + 1 /\ i + 1 \in 0 .. n
        /\ shards_' = [shards_ EXCEPT ![i] = 0]
        /\ call' = call /\ sum' = sum /\ newest' = newest /\ oldest' = oldest /\ floor' = floor
    BY <1>1, <1>7, <2>1 DEF SC!ClearShard
  <2>3. PICK up \in [0 .. n -> Nat] :
          SumsOf([shards_ EXCEPT ![i] = 0], up) /\ Shifted(shards_, upTo, i, 0, up)
    BY <1>1, <1>3, <2>1, ShardMoves
  <2>4. up[i + 1] <= newest
    <3>1. ~(i + 1 <= i)
      BY <1>1
    <3>2. up[i + 1] = upTo[i + 1] + 0 - w
      BY <2>1, <2>2, <2>3, <3>1 DEF Shifted
    <3>3. upTo[i + 1] = now + w
      BY <1>3, <1>4, <2>1 DEF SumsOf
    <3>4. (now + w) + 0 - w = now
      OBVIOUS
    <3>5. up[i + 1] = now
      BY <3>2, <3>3, <3>4
    <3> QED
      BY <1>5, <2>2, <3>5
  <2>5. shards_' \in [0 .. n - 1 -> Nat] /\ SumsOf(shards_', up)
    BY <1>1, <2>2, <2>3
  <2> QED
    BY <1>1, <2>2, <2>3, <2>4, <2>5, CounterAfter
<1>8. CASE SC!LoadShard
  <2>1. PICK w \in Nat : i \in 0 .. n - 1 /\ w = shards_[i]
    BY <1>1, <1>8 DEF SC!LoadShard
  <2>2. /\ call = "ReadTotal" /\ i' = i + 1 /\ i + 1 \in 0 .. n /\ sum' = sum + w
        /\ shards_' = shards_ /\ call' = call /\ newest' = newest /\ oldest' = oldest
        /\ floor' = floor
    BY <1>1, <1>8, <2>1 DEF SC!LoadShard
  <2>3. upTo[i + 1] = now + w
    BY <1>3, <1>4, <2>1 DEF SumsOf
  <2>4. /\ sum' \in Nat /\ oldest' <= all_ /\ all_ <= newest'
        /\ floor' <= sum' + all_ - (now + w) /\ sum' <= now + w
    BY <1>1, <1>5, <2>2
  <2> QED
    BY <1>1, <1>3, <1>4, <2>2, <2>3, <2>4, CounterAfter
<1>9. CASE SC!ReadTotal \/ SC!Reset \/ SC!Return
  <2>1. /\ shards_' = shards_ /\ call' \in {"none", "ReadTotal", "Reset"} /\ i' = 0
        /\ sum' \in Nat /\ newest' \in Nat /\ oldest' \in Nat /\ floor' \in Nat
    BY <1>1, <1>9 DEF SC!ReadTotal, SC!Reset, SC!Return
  <2>2. /\ call' # "Reset" => oldest' <= all_ /\ all_ <= newest'
        /\ call' = "Reset" => 0 <= newest'
        /\ call' = "ReadTotal" => floor' <= sum' + all_ - 0 /\ sum' <= 0
    <3>1. CASE SC!ReadTotal
      BY <1>1, <1>5, <3>1 DEF SC!ReadTotal
    <3>2. CASE SC!Reset
      BY <1>1, <1>5, <3>2 DEF SC!Reset
    <3>3. CASE SC!Return
      <4>1. now = all_
        BY <1>4, <3>3 DEF SC!Return
      <4> QED
        BY <1>1, <1>5, <3>3, <4>1 DEF SC!Return
    <3> QED
      BY <1>9, <3>1, <3>2, <3>3
  <2>3. upTo[i'] = 0 /\ i' \in 0 .. n
    BY <1>1, <1>3, <2>1 DEF SumsOf
  <2> QED
    BY <1>1, <1>3, <1>4, <2>1, <2>2, <2>3, CounterAfter
<1> QED
  BY <1>6, <1>7, <1>8, <1>9 DEF SC!Next

(* TotalBetween, for any number of workers, shards and increments: every   *)
(* total ReadTotal returns is one the counter went through.                *)
THEOREM TotalsAreBetween == MCSpec => []TotalBetween
<1> SUFFICES ASSUME SC!HasShards PROVE MCSpec => []TotalBetween
  BY StructureConstants
<1>1. MCInit => SC!CounterInv
  BY CounterInit DEF MCInit
<1>2. SC!CounterInv /\ [MCNext]_all => SC!CounterInv'
  <2>1. [MCNext]_all => [SC!Next]_(SC!vars)
    BY DEF MCNext, all, counter, SC!vars
  <2>2. SC!CounterInv /\ UNCHANGED SC!vars => SC!CounterInv'
    BY DEF SC!CounterInv, SC!Between, SC!vars
  <2> QED
    BY <2>1, <2>2, CounterStep
<1>3. SC!CounterInv => TotalBetween
  <2> SUFFICES ASSUME SC!CounterInv, call = "ReadTotal", i = CounterShards
               PROVE  floor <= sum /\ sum <= newest
    BY DEF TotalBetween, SC!TotalBetween
  <2>1. PICK upTo \in [0 .. CounterShards -> Nat] : SC!Between(upTo)
    BY DEF SC!CounterInv
  <2>2. PICK a \in Nat : a = upTo[CounterShards]
    BY DEF SC!HasShards
  <2>3. a <= newest /\ floor <= sum + a - a /\ sum <= a
    BY <2>1, <2>2 DEF SC!Between
  <2> QED
    BY <2>3 DEF SC!CounterInv
<1> QED
  BY <1>1, <1>2, <1>3, PTL DEF MCSpec

LEMMA LeastNumber ==
  ASSUME NEW T \in SUBSET Nat, T # {}
  PROVE  \E x \in T : \A y \in T : x <= y
<1>1. PICK x \in T : \A y \in T : ~(<<y, x>> \in OpToRel(<, Nat))
  <2>1. IsWellFoundedOn(OpToRel(<, Nat), Nat)
    BY NatLessThanWellFounded
  <2> QED
    BY <2>1, WFMin, Zenon
<1>2. \A y \in T : ~(y < x)
  BY <1>1, Zenon DEF OpToRel
<1> QED
  BY <1>2

(* Folds of the community modules take a set apart one element at a time:  *)
(* c is the element they take of a subset, F what they make of it and of   *)
(* what they have made of the rest.                                        *)
Takes(c, S) == \A s \in SUBSET S : s # {} => c[s] \in s

(* A set of subsets that holds the empty one, and every one that it holds  *)
(* without that element, holds them all.                                   *)
LEMMA SubsetsByElements ==
  ASSUME NEW S, IsFiniteSet(S), NEW c, Takes(c, S), NEW P \in SUBSET (SUBSET S), {} \in P,
         \A s \in SUBSET S : s # {} /\ s \ {c[s]} \in P => s \in P
  PROVE  P = SUBSET S
<1> SUFFICES ASSUME P # SUBSET S PROVE FALSE
  OBVIOUS
<1> DEFINE Left == (SUBSET S) \ P
           Sizes == {Cardinality(s) : s \in Left}
<1>1. \A s \in SUBSET S : IsFiniteSet(s) /\ Cardinality(s) \in Nat
  BY FS_Subset, FS_CardinalityType
<1>2. Sizes \in SUBSET Nat /\ Sizes # {}
  BY <1>1
<1>3. PICK n \in Sizes : \A m \in Sizes : n <= m
  BY <1>2, LeastNumber
<1>4. PICK s \in Left : n = Cardinality(s)
  OBVIOUS
<1>5. s # {} /\ c[s] \in s
  BY <1>4 DEF Takes
<1>6. Cardinality(s \ {c[s]}) = Cardinality(s) - 1
  BY <1>1, <1>4, <1>5, FS_RemoveElement
<1>7. s \ {c[s]} \notin Left
  <2>1. s \ {c[s]} \in Left => n <= Cardinality(s \ {c[s]})
    BY <1>3
  <2>2. n \in Nat /\ ~(n <= n - 1)
    BY <1>1, <1>4
  <2> QED
    BY <1>4, <1>6, <2>1, <2>2
<1> QED
  BY <1>4, <1>5, <1>7

(* There is such a fold: the folds of subsets of up to n elements give     *)
(* those of n + 1.                                                         *)
FoldsSmall(c, F, S, g, n) ==
  \A s \in SUBSET S : Cardinality(s) <= n => g[s] = IF s = {} THEN 0 ELSE F[<<c[s], g[s \ {c[s]}]>>]

LEMMA SmallFoldsGrow ==
  ASSUME NEW S, IsFiniteSet(S), NEW c, Takes(c, S), NEW F, NEW n \in Nat, NEW g,
         FoldsSmall(c, F, S, g, n)
  PROVE  \E h : FoldsSmall(c, F, S, h, n + 1)
<1> DEFINE h == [s \in SUBSET S |-> IF s = {} THEN 0 ELSE F[<<c[s], g[s \ {c[s]}]>>]]
<1>1. \A s \in SUBSET S : IsFiniteSet(s) /\ Cardinality(s) \in Nat
  BY FS_Subset, FS_CardinalityType
<1>2. ASSUME NEW s \in SUBSET S, Cardinality(s) <= n
      PROVE  h[s] = g[s]
  BY <1>2 DEF FoldsSmall
<1>3. ASSUME NEW s \in SUBSET S, Cardinality(s) <= n + 1, s # {}
      PROVE  h[s] = F[<<c[s], h[s \ {c[s]}]>>]
  <2>1. c[s] \in s /\ s \ {c[s]} \in SUBSET S
    BY <1>3 DEF Takes
  <2>2. Cardinality(s \ {c[s]}) = Cardinality(s) - 1
    BY <1>1, <2>1, FS_RemoveElement
  <2>3. Cardinality(s \ {c[s]}) <= n
    BY <1>1, <1>3, <2>1, <2>2
  <2>4. h[s \ {c[s]}] = g[s \ {c[s]}]
    BY <1>2, <2>1, <2>3
  <2>5. h[s] = F[<<c[s], g[s \ {c[s]}]>>]
    BY <1>3
  <2> QED
    BY <2>4, <2>5
<1>4. h[{}] = 0
  OBVIOUS
<1> HIDE DEF h
<1>5. FoldsSmall(c, F, S, h, n + 1)
  BY <1>3, <1>4 DEF FoldsSmall
<1> QED
  BY <1>5

FoldsBy(c, F, S, g) ==
  /\ g \in [SUBSET S -> Int]
  /\ g = [s \in SUBSET S |-> IF s = {} THEN 0 ELSE F[<<c[s], g[s \ {c[s]}]>>]]

LEMMA FoldsExist ==
  ASSUME NEW S, IsFiniteSet(S), NEW c, Takes(c, S), NEW F \in [S \X Int -> Int]
  PROVE  \E g : FoldsBy(c, F, S, g)
<1>1. \A s \in SUBSET S : IsFiniteSet(s) /\ Cardinality(s) \in Nat /\ Cardinality(s) <= Cardinality(S)
  BY FS_Subset, FS_CardinalityType
<1>2. Cardinality(S) \in Nat
  BY FS_CardinalityType
<1> DEFINE Left == {n \in Nat : ~ \E g : FoldsSmall(c, F, S, g, n)}
<1>3. Left = {}
  <2> SUFFICES ASSUME Left # {} PROVE FALSE
    OBVIOUS
  <2>1. PICK n \in Left : \A m \in Left : n <= m
    <3> HIDE DEF Left
    <3>1. Left \in SUBSET Nat
      BY DEF Left
    <3> QED
      BY <3>1, LeastNumber
  <2>2. CASE n = 0
    <3> DEFINE g == [s \in SUBSET S |-> 0]
    <3>1. \A s \in SUBSET S : Cardinality(s) <= 0 => s = {}
      BY <1>1, FS_EmptySet
    <3>2. FoldsSmall(c, F, S, g, 0)
      BY <3>1 DEF FoldsSmall
    <3> QED
      BY <2>1, <2>2, <3>2
  <2>3. CASE n # 0
    <3>1. n - 1 \in Nat /\ n - 1 \notin Left /\ n - 1 + 1 = n
      BY <2>1, <2>3
    <3>2. PICK g : FoldsSmall(c, F, S, g, n - 1)
      BY <3>1
    <3>3. \E h : FoldsSmall(c, F, S, h, n)
      <4>1. PICK m \in Nat : m = n - 1
        BY <3>1
      <4>2. \E h : FoldsSmall(c, F, S, h, m + 1)
        BY <3>2, <4>1, SmallFoldsGrow
      <4> QED
        BY <3>1, <4>1, <4>2
    <3> QED
      BY <2>1, <3>3
  <2> QED
    BY <2>2, <2>3
<1>4. PICK h : FoldsSmall(c, F, S, h, Cardinality(S))
  BY <1>2, <1>3
<1> DEFINE g == [s \in SUBSET S |-> h[s]]
<1>5. g = [s \in SUBSET S |-> IF s = {} THEN 0 ELSE F[<<c[s], g[s \ {c[s]}]>>]]
  <2>1. ASSUME NEW s \in SUBSET S
        PROVE  h[s] = IF s = {} THEN 0 ELSE F[<<c[s], g[s \ {c[s]}]>>]
    <3>1. Cardinality(s) <= Cardinality(S)
      BY <1>1
    <3>2. h[s] = IF s = {} THEN 0 ELSE F[<<c[s], h[s \ {c[s]}]>>]
      BY <1>4, <3>1 DEF FoldsSmall
    <3>3. g[s \ {c[s]}] = h[s \ {c[s]}]
      <4>1. s \ {c[s]} \in SUBSET S
        OBVIOUS
      <4> QED
        BY <4>1
    <3> QED
      BY <3>2, <3>3
  <2> QED
    BY <2>1
<1>6. g = [s \in SUBSET S |-> g[s]]
  OBVIOUS
<1> HIDE DEF g
<1> DEFINE P == {s \in SUBSET S : g[s] \in Int}
<1>7. P = SUBSET S
  <2>1. {} \in P
    BY <1>5
  <2>2. ASSUME NEW s \in SUBSET S, s # {}, s \ {c[s]} \in P
        PROVE  s \in P
    <3>1. c[s] \in S
      BY <2>2 DEF Takes
    <3>2. g[s] = F[<<c[s], g[s \ {c[s]}]>>]
      BY <1>5, <2>2
    <3>3. g[s \ {c[s]}] \in Int
      BY <2>2
    <3> QED
      BY <3>1, <3>2, <3>3
  <2>3. P \in SUBSET (SUBSET S)
    OBVIOUS
  <2> HIDE DEF P
  <2> QED
    BY <2>1, <2>2, <2>3, SubsetsByElements
<1>8. g \in [SUBSET S -> Int]
  BY <1>6, <1>7
<1> QED
  BY <1>5, <1>8 DEF FoldsBy

-----------------------------------------------------------------------------
(* The sum of a function, taken that way.                                  *)
SomeOf(s) == CHOOSE x \in s : TRUE

SumsSubsets(f, S, g) ==
  g = [s \in SUBSET S |->
         IF s = {} THEN 0 ELSE f[SomeOf(s)] + g[s \ {SomeOf(s)}]]

LEMMA SumByChoice ==
  ASSUME NEW f
  PROVE  SM!SumFunction(f) = (CHOOSE g : SumsSubsets(f, DOMAIN f, g))[DOMAIN f]
BY DEF SM!SumFunction, SM!SumFunctionOnSet, SM!FoldFunctionOnSet, SM!MapThenFoldSet, SumsSubsets,
       SomeOf

LEMMA SubsetsBySome ==
  ASSUME NEW S, IsFiniteSet(S), NEW P \in SUBSET (SUBSET S), {} \in P,
         \A s \in SUBSET S : s # {} /\ s \ {SomeOf(s)} \in P => s \in P
  PROVE  P = SUBSET S
<1> DEFINE c == [s \in SUBSET S |-> SomeOf(s)]
<1>1. \A s \in SUBSET S : c[s] = SomeOf(s)
  OBVIOUS
<1>2. \A s : s # {} => SomeOf(s) \in s
  BY DEF SomeOf
<1>3. Takes(c, S)
  BY <1>1, <1>2 DEF Takes
<1>4. \A s \in SUBSET S : s # {} /\ s \ {c[s]} \in P => s \in P
  BY <1>1
<1> HIDE DEF c
<1> QED
  BY <1>3, <1>4, SubsetsByElements

LEMMA SumsExist ==
  ASSUME NEW S, IsFiniteSet(S), NEW f \in [S -> Int]
  PROVE  \E g : SumsSubsets(f, S, g)
<1> DEFINE c == [s \in SUBSET S |-> SomeOf(s)]
           F == [xv \in S \X Int |-> f[xv[1]] + xv[2]]
<1>1. \A s \in SUBSET S : c[s] = SomeOf(s)
  OBVIOUS
<1>2. \A s : s # {} => SomeOf(s) \in s
  BY DEF SomeOf
<1>3. Takes(c, S)
  BY <1>1, <1>2 DEF Takes
<1>4. F \in [S \X Int -> Int] /\ \A x \in S, v \in Int : F[<<x, v>>] = f[x] + v
  OBVIOUS
<1> HIDE DEF c, F
<1>5. PICK g : FoldsBy(c, F, S, g)
  BY <1>3, <1>4, FoldsExist
<1>6. g = [s \in SUBSET S |-> IF s = {} THEN 0 ELSE f[SomeOf(s)] + g[s \ {SomeOf(s)}]]
  <2>1. ASSUME NEW s \in SUBSET S, s # {}
        PROVE  F[<<c[s], g[s \ {c[s]}]>>] = f[SomeOf(s)] + g[s \ {SomeOf(s)}]
    <3>1. c[s] = SomeOf(s) /\ SomeOf(s) \in S
      BY <1>1, <1>2, <2>1
    <3>2. g[s \ {SomeOf(s)}] \in Int
      BY <1>5 DEF FoldsBy
    <3> QED
      BY <1>4, <3>1, <3>2
  <2>2. g = [s \in SUBSET S |-> IF s = {} THEN 0 ELSE F[<<c[s], g[s \ {c[s]}]>>]]
    BY <1>5 DEF FoldsBy
  <2> QED
    BY <2>1, <2>2
<1> QED
  BY <1>6 DEF SumsSubsets

SumsOver(f, S, g) ==
  /\ g \in [SUBSET S -> Int]
  /\ SM!SumFunction(f) = g[S] /\ g[{}] = 0
  /\ \A s \in SUBSET S : s # {} =>
       g[s] = f[SomeOf(s)] + g[s \ {SomeOf(s)}]

LEMMA SumUnfolds ==
  ASSUME NEW S, IsFiniteSet(S), NEW f \in [S -> Int]
  PROVE  \E g : SumsOver(f, S, g)
<1> DEFINE g == CHOOSE g : SumsSubsets(f, S, g)
<1>1. SumsSubsets(f, S, g)
  BY SumsExist
<1>2. DOMAIN f = S
  OBVIOUS
<1>3. SM!SumFunction(f) = g[S]
  BY <1>2, SumByChoice
<1> HIDE DEF g
<1>4. /\ DOMAIN g = SUBSET S
      /\ g[{}] = 0
      /\ \A s \in SUBSET S : s # {} =>
           g[s] = f[SomeOf(s)] + g[s \ {SomeOf(s)}]
  BY <1>1 DEF SumsSubsets
<1>5. g = [s \in SUBSET S |-> g[s]]
  BY <1>1 DEF SumsSubsets
<1> DEFINE P == {s \in SUBSET S : g[s] \in Int}
<1>6. P = SUBSET S
  <2>1. {} \in P
    BY <1>4
  <2>2. ASSUME NEW s \in SUBSET S, s # {}, s \ {SomeOf(s)} \in P
        PROVE  s \in P
    <3>1. f[SomeOf(s)] \in Int
      BY <2>2 DEF SomeOf
    <3>2. g[s] = f[SomeOf(s)] + g[s \ {SomeOf(s)}]
      BY <1>4, <2>2
    <3>3. g[s \ {SomeOf(s)}] \in Int
      BY <2>2
    <3> QED
      BY <3>1, <3>2, <3>3
  <2>3. P \in SUBSET (SUBSET S)
    OBVIOUS
  <2> HIDE DEF P
  <2> QED
    BY <2>1, <2>2, <2>3, SubsetsBySome
<1>7. g \in [SUBSET S -> Int]
  BY <1>5, <1>6
<1>8. SumsOver(f, S, g)
  BY <1>3, <1>4, <1>7 DEF SumsOver
<1> QED
  BY <1>8

LEMMA SumIsInt ==
  ASSUME NEW S, IsFiniteSet(S), NEW f \in [S -> Int]
  PROVE  SM!SumFunction(f) \in Int
<1>1. PICK g : SumsOver(f, S, g)
  BY SumUnfolds
<1> QED
  BY <1>1 DEF SumsOver

(* Another value at one place changes the sum by as much.                  *)
LEMMA SumChanges ==
  ASSUME NEW S, IsFiniteSet(S), NEW f \in [S -> Int], NEW h \in [S -> Int],
         NEW b \in S, \A x \in S : x # b => h[x] = f[x]
  PROVE  SM!SumFunction(h) = SM!SumFunction(f) + (h[b] - f[b])
<1>1. PICK g \in [SUBSET S -> Int] :
        /\ SM!SumFunction(f) = g[S] /\ g[{}] = 0
        /\ \A s \in SUBSET S : s # {} =>
             g[s] = f[SomeOf(s)] + g[s \ {SomeOf(s)}]
  <2>1. PICK g : SumsOver(f, S, g)
    BY SumUnfolds
  <2> QED
    BY <2>1 DEF SumsOver
<1>2. PICK k \in [SUBSET S -> Int] :
        /\ SM!SumFunction(h) = k[S] /\ k[{}] = 0
        /\ \A s \in SUBSET S : s # {} =>
             k[s] = h[SomeOf(s)] + k[s \ {SomeOf(s)}]
  <2>1. PICK k : SumsOver(h, S, k)
    BY SumUnfolds
  <2> QED
    BY <2>1 DEF SumsOver
<1> DEFINE P == {s \in SUBSET S : k[s] = g[s] + IF b \in s THEN h[b] - f[b] ELSE 0}
<1>3. {} \in P
  BY <1>1, <1>2
<1>4. ASSUME NEW s \in SUBSET S, s # {}, s \ {SomeOf(s)} \in P
      PROVE  s \in P
  <2>1. PICK a \in s : a = SomeOf(s)
    BY <1>4 DEF SomeOf
  <2>2. /\ g[s] = f[a] + g[s \ {a}] /\ k[s] = h[a] + k[s \ {a}]
        /\ k[s \ {a}] = g[s \ {a}] + IF b \in s \ {a} THEN h[b] - f[b] ELSE 0
    BY <1>1, <1>2, <1>4, <2>1
  <2>3. PICK u \in Int, v \in Int, w \in Int, z \in Int, y \in Int :
          u = g[s \ {a}] /\ v = f[a] /\ w = h[a] /\ z = f[b] /\ y = h[b]
    <3>1. s \ {a} \in SUBSET S /\ a \in S
      OBVIOUS
    <3> QED
      BY <3>1
  <2>4. CASE a = b
    <3>1. g[s] = v + u /\ k[s] = w + (u + 0) /\ w = y /\ v = z
      BY <2>2, <2>3, <2>4
    <3>2. k[s] = g[s] + (y - z)
      BY <3>1
    <3> QED
      BY <2>3, <2>4, <3>2
  <2>5. CASE a # b /\ b \in s
    <3>1. g[s] = v + u /\ k[s] = w + (u + (y - z)) /\ w = v
      BY <2>2, <2>3, <2>5
    <3>2. k[s] = g[s] + (y - z)
      BY <3>1
    <3> QED
      BY <2>3, <2>5, <3>2
  <2>6. CASE a # b /\ b \notin s
    <3>1. g[s] = v + u /\ k[s] = w + (u + 0) /\ w = v
      BY <2>2, <2>3, <2>6
    <3>2. k[s] = g[s] + 0
      BY <3>1
    <3> QED
      BY <2>3, <2>6, <3>2
  <2> QED
    BY <2>4, <2>5, <2>6
<1>5. P = SUBSET S
  <2>1. P \in SUBSET (SUBSET S)
    OBVIOUS
  <2> HIDE DEF P
  <2> QED
    BY <1>3, <1>4, <2>1, SubsetsBySome
<1>6. S \in P
  BY <1>5
<1> QED
  BY <1>1, <1>2, <1>6

(* A larger function has a larger sum.                                     *)
LEMMA SumsOrdered ==
  ASSUME NEW S, IsFiniteSet(S), NEW f \in [S -> Int], NEW h \in [S -> Int],
         \A x \in S : f[x] <= h[x]
  PROVE  SM!SumFunction(f) <= SM!SumFunction(h)
<1>1. PICK g \in [SUBSET S -> Int] :
        /\ SM!SumFunction(f) = g[S] /\ g[{}] = 0
        /\ \A s \in SUBSET S : s # {} =>
             g[s] = f[SomeOf(s)] + g[s \ {SomeOf(s)}]
  <2>1. PICK g : SumsOver(f, S, g)
    BY SumUnfolds
  <2> QED
    BY <2>1 DEF SumsOver
<1>2. PICK k \in [SUBSET S -> Int] :
        /\ SM!SumFunction(h) = k[S] /\ k[{}] = 0
        /\ \A s \in SUBSET S : s # {} =>
             k[s] = h[SomeOf(s)] + k[s \ {SomeOf(s)}]
  <2>1. PICK k : SumsOver(h, S, k)
    BY SumUnfolds
  <2> QED
    BY <2>1 DEF SumsOver
<1> DEFINE P == {s \in SUBSET S : g[s] <= k[s]}
<1>3. {} \in P
  BY <1>1, <1>2
<1>4. ASSUME NEW s \in SUBSET S, s # {}, s \ {SomeOf(s)} \in P
      PROVE  s \in P
  <2>1. PICK a \in s : a = SomeOf(s)
    BY <1>4 DEF SomeOf
  <2>2. g[s] = f[a] + g[s \ {a}] /\ k[s] = h[a] + k[s \ {a}] /\ g[s \ {a}] <= k[s \ {a}]
    BY <1>1, <1>2, <1>4, <2>1
  <2>3. s \ {a} \in SUBSET S /\ a \in S
    OBVIOUS
  <2>4. /\ g[s \ {a}] \in Int /\ k[s \ {a}] \in Int /\ f[a] \in Int /\ h[a] \in Int
        /\ f[a] <= h[a]
    BY <2>3
  <2>5. g[s] <= k[s]
    BY <2>2, <2>4
  <2> QED
    BY <2>5
<1>5. P = SUBSET S
  <2>1. P \in SUBSET (SUBSET S)
    OBVIOUS
  <2> HIDE DEF P
  <2> QED
    BY <1>3, <1>4, <2>1, SubsetsBySome
<1>6. S \in P
  BY <1>5
<1> QED
  BY <1>1, <1>2, <1>6

LEMMA SumOfZeros ==
  ASSUME NEW S, IsFiniteSet(S), NEW f \in [S -> Int], \A x \in S : f[x] = 0
  PROVE  SM!SumFunction(f) = 0
<1>1. PICK g \in [SUBSET S -> Int] :
        /\ SM!SumFunction(f) = g[S] /\ g[{}] = 0
        /\ \A s \in SUBSET S : s # {} =>
             g[s] = f[SomeOf(s)] + g[s \ {SomeOf(s)}]
  <2>1. PICK g : SumsOver(f, S, g)
    BY SumUnfolds
  <2> QED
    BY <2>1 DEF SumsOver
<1> DEFINE P == {s \in SUBSET S : g[s] = 0}
<1>2. {} \in P
  BY <1>1
<1>3. ASSUME NEW s \in SUBSET S, s # {}, s \ {SomeOf(s)} \in P
      PROVE  s \in P
  <2>1. PICK a \in s : a = SomeOf(s)
    BY <1>3 DEF SomeOf
  <2>2. g[s] = f[a] + g[s \ {a}] /\ g[s \ {a}] = 0 /\ f[a] = 0
    BY <1>1, <1>3, <2>1
  <2> QED
    BY <2>2
<1>4. P = SUBSET S
  <2>1. P \in SUBSET (SUBSET S)
    OBVIOUS
  <2> HIDE DEF P
  <2> QED
    BY <1>2, <1>3, <2>1, SubsetsBySome
<1>5. S \in P
  BY <1>4
<1> QED
  BY <1>1, <1>5

-----------------------------------------------------------------------------
(* The sharded map.                                                        *)
LEMMA ShardsAreFinite ==
  ASSUME SM!KeysHaveShards
  PROVE  IsFiniteSet(SM!Shards) /\ IsFiniteSet(SM!Buckets)
<1>1. IsFiniteSet(SM!Shards)
  BY FS_Interval DEF SM!KeysHaveShards, SM!Shards
<1>2. SM!Buckets \in SUBSET (0 .. 15)
  BY DEF SM!KeysHaveShards, SM!Buckets
<1>3. IsFiniteSet(0 .. 15)
  <2>1. 0 \in Int /\ 15 \in Int
    OBVIOUS
  <2> QED
    BY <2>1, FS_Interval, Zenon
<1> QED
  BY <1>1, <1>2, <1>3, FS_Subset

LEMMA ShardNumbers ==
  ASSUME SM!TypeOK
  PROVE  /\ SM!Begun \in [SM!Shards -> Int] /\ SM!Returned \in [SM!Shards -> Int]
         /\ SM!Passed \in [SM!Shards -> Int] /\ SM!Ahead \in [SM!Shards -> Int]
<1>1. \A s \in SM!Shards : updates[s] \in Nat
  BY DEF SM!TypeOK
<1>2. \A s \in SM!Shards : \A labels : SM!InShard(s, labels) \in 0 .. 1
  BY DEF SM!InShard
<1>3. SM!Begun \in [SM!Shards -> Int] /\ SM!Returned \in [SM!Shards -> Int]
  <2>1. \A s \in SM!Shards : updates[s] + SM!InShard(s, {"bucket", "updates"}) \in Int
    BY <1>1, <1>2
  <2>2. \A s \in SM!Shards : updates[s] - SM!InShard(s, {"unlock"}) \in Int
    BY <1>1, <1>2
  <2> QED
    BY <2>1, <2>2, Zenon DEF SM!Begun, SM!Returned
<1>4. SM!Passed \in [SM!Shards -> Int]
  BY <1>1 DEF SM!Passed
<1>5. SM!Ahead \in [SM!Shards -> Int]
  BY <1>3 DEF SM!Ahead
<1> QED
  BY <1>3, <1>4, <1>5

ShardNumbersInt ==
  /\ SM!Begun \in [SM!Shards -> Int] /\ SM!Returned \in [SM!Shards -> Int]
  /\ SM!Passed \in [SM!Shards -> Int] /\ SM!Ahead \in [SM!Shards -> Int]

LEMMA ShardNumbersNow == SM!TypeOK => ShardNumbersInt
BY ShardNumbers DEF ShardNumbersInt

LEMMA ShardNumbersNext == SM!TypeOK' => ShardNumbersInt'
BY ShardNumbersNow, PTL

(* A thread that moves in one shard disturbs the counts of no other.       *)
LEMMA OneShardMoves ==
  ASSUME SM!KeysHaveShards, SM!TypeOK, SM!TypeOK', SM!CallsInv, SM!ScrapeInv,
         NEW n \in SM!Shards,
         \A s \in SM!Shards \ {n} :
           updates'[s] = updates[s] /\ SM!Begun'[s] = SM!Begun[s] /\ SM!Returned'[s] = SM!Returned[s],
         updates'[n] >= updates[n], SM!Returned'[n] >= SM!Returned[n],
         begun' = begun + (SM!Begun'[n] - SM!Begun[n]),
         returned' = returned + (SM!Returned'[n] - SM!Returned[n]),
         UNCHANGED SM!scrape
  PROVE  SM!CallsInv' /\ SM!ScrapeInv'
<1>1. IsFiniteSet(SM!Shards)
  BY ShardsAreFinite
<1>2. PICK B \in [SM!Shards -> Int], R \in [SM!Shards -> Int],
           P \in [SM!Shards -> Int], A \in [SM!Shards -> Int] :
        B = SM!Begun /\ R = SM!Returned /\ P = SM!Passed /\ A = SM!Ahead
  BY ShardNumbers
<1>3. PICK B1 \in [SM!Shards -> Int], R1 \in [SM!Shards -> Int],
           P1 \in [SM!Shards -> Int], A1 \in [SM!Shards -> Int] :
        B1 = SM!Begun' /\ R1 = SM!Returned' /\ P1 = SM!Passed' /\ A1 = SM!Ahead'
  BY ShardNumbersNext DEF ShardNumbersInt
<1>4. SM!SumFunction(B1) = SM!SumFunction(B) + (B1[n] - B[n])
  <2>1. \A s \in SM!Shards : s # n => B1[s] = B[s]
    BY <1>2, <1>3
  <2> QED
    BY <1>1, <2>1, SumChanges
<1>5. SM!SumFunction(R1) = SM!SumFunction(R) + (R1[n] - R[n])
  <2>1. \A s \in SM!Shards : s # n => R1[s] = R[s]
    BY <1>2, <1>3
  <2> QED
    BY <1>1, <2>1, SumChanges
<1>6. SM!CallsInv'
  <2>1. begun' = SM!SumFunction(SM!Begun')
    BY <1>2, <1>3, <1>4 DEF SM!CallsInv
  <2>2. returned' = SM!SumFunction(SM!Returned')
    BY <1>2, <1>3, <1>5 DEF SM!CallsInv
  <2> QED
    BY <2>1, <2>2 DEF SM!CallsInv
<1>7. visited' = visited /\ total' = total /\ since' = since
  BY DEF SM!scrape
<1>8. SM!SumFunction(P) <= SM!SumFunction(P1)
  <2>1. \A s \in SM!Shards : updates[s] <= updates'[s] /\ updates[s] \in Nat /\ updates'[s] \in Nat
    BY DEF SM!TypeOK
  <2>2. \A s \in SM!Shards : P[s] <= P1[s]
    BY <1>2, <1>3, <1>7, <2>1 DEF SM!Passed
  <2> QED
    BY <1>1, <2>2, SumsOrdered
<1>9. SM!SumFunction(A) <= SM!SumFunction(A1)
  <2>1. \A s \in SM!Shards : R[s] <= R1[s]
    BY <1>2, <1>3
  <2>2. \A s \in SM!Shards : /\ A[s] = IF s < visited THEN 0 ELSE R[s]
                             /\ A1[s] = IF s < visited THEN 0 ELSE R1[s]
    BY <1>2, <1>3, <1>7 DEF SM!Ahead
  <2>3. \A s \in SM!Shards : A[s] <= A1[s]
    BY <2>1, <2>2
  <2> QED
    BY <1>1, <2>3, SumsOrdered
<1>10. SM!ScrapeInv'
  <2>1. /\ SM!SumFunction(P) \in Int /\ SM!SumFunction(A) \in Int
        /\ SM!SumFunction(P1) \in Int /\ SM!SumFunction(A1) \in Int
    BY <1>1, SumIsInt
  <2>2. total \in Nat /\ since \in Nat
    BY DEF SM!TypeOK
  <2>3. visited # SM!Unset =>
          total <= SM!SumFunction(P) /\ since <= total + SM!SumFunction(A)
    BY <1>2 DEF SM!ScrapeInv
  <2>4. visited # SM!Unset =>
          total <= SM!SumFunction(P1) /\ since <= total + SM!SumFunction(A1)
    BY <1>8, <1>9, <2>1, <2>2, <2>3
  <2>5. visited' # SM!Unset =>
          total' <= SM!SumFunction(SM!Passed') /\ since' <= total' + SM!SumFunction(SM!Ahead')
    BY <1>3, <1>7, <2>4
  <2> QED
    BY <2>5 DEF SM!ScrapeInv, SM!Unset
<1> QED
  BY <1>6, <1>10

(* Elsewhere nothing shows of a thread that moves in shard n.              *)
LEMMA ElsewhereTheSame ==
  ASSUME SM!TypeOK, NEW n \in SM!Shards, NEW t \in Upserters,
         \A s \in SM!Shards \ {n} : mtx'[s] = mtx[s] /\ mtx[s] # t,
         \A u \in Upserters \ {t} : upc'[u] = upc[u],
         NEW s \in SM!Shards \ {n}, NEW labels
  PROVE  (SM!InShard(s, labels))' = SM!InShard(s, labels)
<1>1. mtx'[s] = mtx[s] /\ mtx[s] \in Upserters \cup {Nobody} /\ mtx[s] # t
  BY DEF SM!TypeOK
<1>2. mtx[s] # Nobody => upc'[mtx'[s]] = upc[mtx[s]]
  BY <1>1
<1> QED
  BY <1>1, <1>2 DEF SM!InShard

(* What a shard counts, and what has been called and has returned, after a *)
(* step of thread t, which is in shard n or on its way into it.            *)
LEMMA ThreadMoves ==
  ASSUME SM!KeysHaveShards, SM!ShardsInv, SM!TypeOK', NEW n \in SM!Shards, NEW t \in Upserters,
         \A s \in SM!Shards \ {n} :
           mtx'[s] = mtx[s] /\ mtx[s] # t /\ updates'[s] = updates[s] /\ counts'[s] = counts[s],
         \A u \in Upserters \ {t} : upc'[u] = upc[u],
         SM!SumFunction(counts'[n]) = updates'[n] + SM!InShard(n, {"updates"})',
         updates'[n] >= updates[n],
         updates'[n] - SM!InShard(n, {"unlock"})' >= updates[n] - SM!InShard(n, {"unlock"}),
         begun' = begun + ((updates'[n] + SM!InShard(n, {"bucket", "updates"})')
                             - (updates[n] + SM!InShard(n, {"bucket", "updates"}))),
         returned' = returned + ((updates'[n] - SM!InShard(n, {"unlock"})')
                             - (updates[n] - SM!InShard(n, {"unlock"}))),
         UNCHANGED SM!scrape
  PROVE  SM!BucketsInv' /\ SM!CallsInv' /\ SM!ScrapeInv'
<1>0. SM!TypeOK /\ SM!BucketsInv /\ SM!CallsInv /\ SM!ScrapeInv
  BY DEF SM!ShardsInv
<1>1. ASSUME NEW s \in SM!Shards \ {n}, NEW labels
      PROVE  (SM!InShard(s, labels))' = SM!InShard(s, labels)
  BY <1>0, ElsewhereTheSame
<1>2. SM!BucketsInv'
  <2>1. ASSUME NEW s \in SM!Shards
        PROVE  SM!SumFunction(counts'[s]) = updates'[s] + SM!InShard(s, {"updates"})'
    <3>1. CASE s = n
      BY <3>1
    <3>2. CASE s # n
      <4>1. SM!InShard(s, {"updates"})' = SM!InShard(s, {"updates"})
        BY <1>1, <3>2
      <4>2. SM!SumFunction(counts[s]) = updates[s] + SM!InShard(s, {"updates"})
        BY <1>0 DEF SM!BucketsInv
      <4>3. counts'[s] = counts[s] /\ updates'[s] = updates[s]
        BY <3>2
      <4> QED
        BY <4>1, <4>2, <4>3
    <3> QED
      BY <3>1, <3>2
  <2> QED
    BY <2>1 DEF SM!BucketsInv, SM!Shards
<1>3. \A s \in SM!Shards :
        /\ SM!Begun[s] = updates[s] + SM!InShard(s, {"bucket", "updates"})
        /\ SM!Returned[s] = updates[s] - SM!InShard(s, {"unlock"})
  BY DEF SM!Begun, SM!Returned
<1>4. \A s \in SM!Shards :
        /\ SM!Begun'[s] = updates'[s] + SM!InShard(s, {"bucket", "updates"})'
        /\ SM!Returned'[s] = updates'[s] - SM!InShard(s, {"unlock"})'
  BY DEF SM!Begun, SM!Returned, SM!Shards
<1>5. \A s \in SM!Shards \ {n} :
        updates'[s] = updates[s] /\ SM!Begun'[s] = SM!Begun[s] /\ SM!Returned'[s] = SM!Returned[s]
  BY <1>1, <1>3, <1>4
<1>6. SM!Returned'[n] >= SM!Returned[n]
  BY <1>3, <1>4
<1>7. begun' = begun + (SM!Begun'[n] - SM!Begun[n])
  BY <1>3, <1>4
<1>8. returned' = returned + (SM!Returned'[n] - SM!Returned[n])
  BY <1>3, <1>4
<1>9. SM!CallsInv' /\ SM!ScrapeInv'
  BY <1>0, <1>5, <1>6, <1>7, <1>8, OneShardMoves
<1> QED
  BY <1>2, <1>9

LEMMA InItsShard ==
  ASSUME SM!KeysHaveShards, SM!ShardsInv, NEW t \in Upserters, upc[t] # "idle"
  PROVE  /\ ukey[t] \in Words /\ ShardOf[ukey[t]] \in SM!Shards /\ BucketOf[ukey[t]] \in SM!Buckets
         /\ mtx[ShardOf[ukey[t]]] = t /\ t # Nobody
         /\ \A s \in SM!Shards \ {ShardOf[ukey[t]]} : mtx[s] # t
         /\ \A labels : SM!InShard(ShardOf[ukey[t]], labels) = IF upc[t] \in labels THEN 1 ELSE 0
<1>1. /\ ukey[t] \in Words /\ ShardOf[ukey[t]] \in SM!Shards /\ BucketOf[ukey[t]] \in SM!Buckets
      /\ t # Nobody
  BY DEF SM!ShardsInv, SM!TypeOK, SM!KeysHaveShards, SM!Buckets, SM!Shards
<1>2. mtx[ShardOf[ukey[t]]] = t
  BY DEF SM!ShardsInv, SM!MutexInv
<1>3. \A s \in SM!Shards \ {ShardOf[ukey[t]]} : mtx[s] # t
  BY <1>1 DEF SM!ShardsInv, SM!MutexInv
<1>4. \A labels : SM!InShard(ShardOf[ukey[t]], labels) = IF upc[t] \in labels THEN 1 ELSE 0
  BY <1>1, <1>2 DEF SM!InShard
<1> QED
  BY <1>1, <1>2, <1>3, <1>4

LEMMA UpsertStep ==
  ASSUME SM!KeysHaveShards, SM!ShardsInv, NEW t \in Upserters, NEW k \in Words, SM!Upsert(t, k)
  PROVE  SM!ShardsInv'
<1> DEFINE n == ShardOf[k]
<1>1. /\ n \in SM!Shards /\ t # Nobody /\ mtx[n] = Nobody /\ upc[t] = "idle"
      /\ mtx' = [mtx EXCEPT ![n] = t] /\ ukey' = [ukey EXCEPT ![t] = k]
      /\ begun' = begun + 1 /\ upc' = [upc EXCEPT ![t] = "bucket"]
      /\ UNCHANGED <<counts, updates, loaded, returned, visited, total, since>>
  BY DEF SM!Upsert, SM!Goto, SM!scrape, SM!KeysHaveShards, SM!Shards
<1>2. SM!TypeOK
  BY DEF SM!ShardsInv
<1>3. SM!TypeOK'
  <2>1. mtx' \in [SM!Shards -> Upserters \cup {Nobody}]
    BY <1>1, <1>2 DEF SM!TypeOK
  <2>2. /\ upc' \in [Upserters -> {"idle", "bucket", "updates", "unlock"}]
        /\ ukey' \in [Upserters -> Words] /\ begun' \in Nat
    BY <1>1, <1>2 DEF SM!TypeOK
  <2> HIDE DEF n
  <2> QED
    BY <1>1, <1>2, <2>1, <2>2 DEF SM!TypeOK, SM!Shards, SM!Buckets, SM!Unset
<1>4. \A s \in SM!Shards : mtx[s] # t
  BY <1>1 DEF SM!ShardsInv, SM!MutexInv
<1>5. mtx'[n] = t /\ upc'[t] = "bucket"
  BY <1>1, <1>2 DEF SM!TypeOK
<1>6. \A labels : /\ SM!InShard(n, labels) = 0
                  /\ SM!InShard(n, labels)' = IF "bucket" \in labels THEN 1 ELSE 0
  BY <1>1, <1>5 DEF SM!InShard
<1>7. SM!BucketsInv' /\ SM!CallsInv' /\ SM!ScrapeInv'
  <2>1. \A s \in SM!Shards \ {n} :
          mtx'[s] = mtx[s] /\ mtx[s] # t /\ updates'[s] = updates[s] /\ counts'[s] = counts[s]
    BY <1>1, <1>2, <1>4 DEF SM!TypeOK
  <2>2. \A u \in Upserters \ {t} : upc'[u] = upc[u]
    BY <1>1, <1>2 DEF SM!TypeOK
  <2>3. /\ SM!InShard(n, {"updates"}) = 0 /\ SM!InShard(n, {"updates"})' = 0
        /\ SM!InShard(n, {"unlock"}) = 0 /\ SM!InShard(n, {"unlock"})' = 0
        /\ SM!InShard(n, {"bucket", "updates"}) = 0 /\ SM!InShard(n, {"bucket", "updates"})' = 1
    BY <1>6
  <2>4. /\ updates'[n] = updates[n] /\ counts'[n] = counts[n] /\ updates[n] \in Nat
        /\ begun \in Nat /\ returned \in Nat /\ returned' = returned
    BY <1>1, <1>2 DEF SM!TypeOK
  <2>5. SM!SumFunction(counts'[n]) = updates'[n] + SM!InShard(n, {"updates"})'
    BY <1>1, <2>3, <2>4 DEF SM!ShardsInv, SM!BucketsInv
  <2>6. /\ updates'[n] >= updates[n]
        /\ updates'[n] - SM!InShard(n, {"unlock"})' >= updates[n] - SM!InShard(n, {"unlock"})
        /\ begun' = begun + ((updates'[n] + SM!InShard(n, {"bucket", "updates"})')
                               - (updates[n] + SM!InShard(n, {"bucket", "updates"})))
        /\ returned' = returned + ((updates'[n] - SM!InShard(n, {"unlock"})')
                               - (updates[n] - SM!InShard(n, {"unlock"})))
    BY <1>1, <2>3, <2>4
  <2>7. UNCHANGED SM!scrape
    BY <1>1 DEF SM!scrape
  <2> HIDE DEF n
  <2> QED
    BY <1>1, <1>3, <2>1, <2>2, <2>5, <2>6, <2>7, ThreadMoves
<1>8. SM!MutexInv'
  <2>1. ASSUME NEW u \in Upserters, upc'[u] # "idle"
        PROVE  mtx'[ShardOf[ukey'[u]]] = u
    <3>1. CASE u = t
      BY <1>1, <1>2, <1>5, <3>1 DEF SM!TypeOK
    <3>2. CASE u # t
      <4>1. upc[u] # "idle" /\ ukey'[u] = ukey[u]
        BY <1>1, <1>2, <2>1, <3>2 DEF SM!TypeOK
      <4>2. mtx[ShardOf[ukey[u]]] = u /\ ShardOf[ukey[u]] \in SM!Shards /\ u # Nobody
        BY <4>1, InItsShard
      <4> QED
        BY <1>1, <1>2, <4>1, <4>2 DEF SM!TypeOK
    <3> QED
      BY <3>1, <3>2
  <2>2. ASSUME NEW s \in SM!Shards, mtx'[s] # Nobody
        PROVE  upc'[mtx'[s]] # "idle" /\ ShardOf[ukey'[mtx'[s]]] = s
    <3>1. CASE s = n
      BY <1>1, <1>2, <1>5, <3>1 DEF SM!TypeOK
    <3>2. CASE s # n
      <4>1. mtx'[s] = mtx[s] /\ mtx[s] # t /\ mtx[s] \in Upserters
        BY <1>1, <1>2, <1>4, <2>2, <3>2 DEF SM!TypeOK
      <4>2. upc[mtx[s]] # "idle" /\ ShardOf[ukey[mtx[s]]] = s
        BY <2>2, <4>1 DEF SM!ShardsInv, SM!MutexInv
      <4> QED
        BY <1>1, <1>2, <4>1, <4>2 DEF SM!TypeOK
    <3> QED
      BY <3>1, <3>2
  <2>3. ASSUME NEW u \in Upserters, loaded'[u] # SM!Unset
        PROVE  \/ upc'[u] = "bucket" /\ loaded'[u] = counts'[ShardOf[ukey'[u]]][BucketOf[ukey'[u]]]
               \/ upc'[u] = "updates" /\ loaded'[u] = updates'[ShardOf[ukey'[u]]]
    <3>1. \/ upc[u] = "bucket" /\ loaded[u] = counts[ShardOf[ukey[u]]][BucketOf[ukey[u]]]
          \/ upc[u] = "updates" /\ loaded[u] = updates[ShardOf[ukey[u]]]
      BY <1>1, <2>3 DEF SM!ShardsInv, SM!MutexInv
    <3>2. u # t
      BY <1>1, <3>1
    <3>3. upc'[u] = upc[u] /\ ukey'[u] = ukey[u]
      BY <1>1, <1>2, <3>2 DEF SM!TypeOK
    <3> QED
      BY <1>1, <3>1, <3>3
  <2> QED
    BY <2>1, <2>2, <2>3 DEF SM!MutexInv, SM!Shards, SM!Unset
<1> QED
  BY <1>3, <1>7, <1>8 DEF SM!ShardsInv

(* A load changes nothing but what the thread remembers.                   *)
LEMMA LoadStep ==
  ASSUME SM!KeysHaveShards, SM!ShardsInv, NEW t \in Upserters, NEW n \in Nat,
         \/ /\ upc[t] = "bucket" /\ n = counts[ShardOf[ukey[t]]][BucketOf[ukey[t]]]
         \/ upc[t] = "updates" /\ n = updates[ShardOf[ukey[t]]],
         loaded' = [loaded EXCEPT ![t] = n],
         UNCHANGED <<mtx, counts, updates, upc, ukey, begun, returned, SM!scrape>>
  PROVE  SM!ShardsInv'
<1>1. UNCHANGED <<visited, total, since>>
  BY DEF SM!scrape
<1>2. SM!TypeOK /\ SM!MutexInv
  BY DEF SM!ShardsInv
<1>3. SM!TypeOK'
  <2>1. loaded' \in [Upserters -> Nat \cup {SM!Unset}]
    BY <1>2 DEF SM!TypeOK
  <2> QED
    BY <1>1, <1>2, <2>1 DEF SM!TypeOK, SM!Shards, SM!Buckets, SM!Unset
<1>4. SM!MutexInv'
  <2>1. ASSUME NEW u \in Upserters, loaded'[u] # SM!Unset
        PROVE  \/ upc[u] = "bucket" /\ loaded'[u] = counts[ShardOf[ukey[u]]][BucketOf[ukey[u]]]
               \/ upc[u] = "updates" /\ loaded'[u] = updates[ShardOf[ukey[u]]]
    <3>1. CASE u = t
      BY <1>2, <3>1 DEF SM!TypeOK
    <3>2. CASE u # t
      BY <1>2, <2>1, <3>2 DEF SM!TypeOK, SM!MutexInv
    <3> QED
      BY <3>1, <3>2
  <2>2. /\ \A u \in Upserters : upc[u] # "idle" => mtx[ShardOf[ukey[u]]] = u
        /\ \A s \in SM!Shards : mtx[s] # Nobody => upc[mtx[s]] # "idle" /\ ShardOf[ukey[mtx[s]]] = s
    BY <1>2 DEF SM!MutexInv
  <2> QED
    BY <2>1, <2>2 DEF SM!MutexInv, SM!Shards, SM!Unset
<1>5. SM!BucketsInv' /\ SM!CallsInv' /\ SM!ScrapeInv'
  <2>1. SM!BucketsInv'
    BY DEF SM!ShardsInv, SM!BucketsInv, SM!InShard, SM!Shards
  <2>2. SM!Begun' = SM!Begun /\ SM!Returned' = SM!Returned
    BY DEF SM!Begun, SM!Returned, SM!InShard, SM!Shards
  <2>3. SM!Passed' = SM!Passed /\ SM!Ahead' = SM!Ahead
    BY <1>1, <2>2 DEF SM!Passed, SM!Ahead, SM!Shards
  <2> QED
    BY <1>1, <2>1, <2>2, <2>3 DEF SM!ShardsInv, SM!CallsInv, SM!ScrapeInv, SM!Unset
<1> QED
  BY <1>3, <1>4, <1>5 DEF SM!ShardsInv

LEMMA AddToBucketStep ==
  ASSUME SM!KeysHaveShards, SM!ShardsInv, NEW t \in Upserters, SM!AddToBucket(t)
  PROVE  SM!ShardsInv'
<1>0. PICK n \in SM!Shards, b \in SM!Buckets : n = ShardOf[ukey[t]] /\ b = BucketOf[ukey[t]]
  <2>1. upc[t] # "idle"
    BY DEF SM!AddToBucket
  <2> QED
    BY <2>1, InItsShard
<1>1. upc[t] = "bucket" /\ UNCHANGED <<mtx, updates, ukey, begun, returned, SM!scrape>>
  BY DEF SM!AddToBucket
<1>2. SM!TypeOK /\ SM!MutexInv
  BY DEF SM!ShardsInv
<1>3. /\ n \in SM!Shards /\ b \in SM!Buckets /\ mtx[n] = t /\ t # Nobody
      /\ \A s \in SM!Shards \ {n} : mtx[s] # t
      /\ \A labels : SM!InShard(n, labels) = IF upc[t] \in labels THEN 1 ELSE 0
  BY <1>0, <1>1, InItsShard
<1>4. counts[n] \in [SM!Buckets -> Nat] /\ counts[n][b] \in Nat /\ updates[n] \in Nat
  BY <1>2, <1>3 DEF SM!TypeOK
<1>5. CASE loaded[t] = SM!Unset
  <2>1. loaded' = [loaded EXCEPT ![t] = counts[n][b]] /\ UNCHANGED <<counts, upc>>
    BY <1>0, <1>5 DEF SM!AddToBucket, SM!Remember
  <2> QED
    BY <1>0, <1>1, <1>4, <2>1, LoadStep
<1>6. CASE loaded[t] # SM!Unset
  <2>1. loaded[t] = counts[n][b]
    BY <1>0, <1>1, <1>2, <1>6 DEF SM!MutexInv
  <2>2. /\ counts' = [counts EXCEPT ![n][b] = counts[n][b] + 1]
        /\ loaded' = [loaded EXCEPT ![t] = SM!Unset] /\ upc' = [upc EXCEPT ![t] = "updates"]
    BY <1>0, <1>6, <2>1 DEF SM!AddToBucket, SM!Remember, SM!Goto
  <2>3. UNCHANGED <<visited, total, since>>
    BY <1>1 DEF SM!scrape
  <2>4. /\ counts' \in [SM!Shards -> [SM!Buckets -> Nat]]
        /\ counts'[n] = [counts[n] EXCEPT ![b] = counts[n][b] + 1]
        /\ \A s \in SM!Shards \ {n} : counts'[s] = counts[s]
    BY <1>2, <1>3, <1>4, <2>2 DEF SM!TypeOK
  <2>5. SM!TypeOK'
    <3>1. loaded' \in [Upserters -> Nat \cup {SM!Unset}]
      BY <1>2, <2>2 DEF SM!TypeOK
    <3>2. upc' \in [Upserters -> {"idle", "bucket", "updates", "unlock"}]
      BY <1>2, <2>2 DEF SM!TypeOK
    <3> QED
      BY <1>1, <1>2, <2>3, <2>4, <3>1, <3>2 DEF SM!TypeOK, SM!Shards, SM!Buckets, SM!Unset
  <2>6. upc'[t] = "updates" /\ \A u \in Upserters \ {t} : upc'[u] = upc[u] /\ loaded'[u] = loaded[u]
    BY <1>2, <2>2 DEF SM!TypeOK
  <2>7. \A labels : SM!InShard(n, labels)' = IF "updates" \in labels THEN 1 ELSE 0
    BY <1>1, <1>3, <2>6 DEF SM!InShard
  <2>8. SM!SumFunction(counts'[n]) = SM!SumFunction(counts[n]) + 1
    <3>1. PICK f \in [SM!Buckets -> Int], h \in [SM!Buckets -> Int] :
            f = counts[n] /\ h = counts'[n]
      BY <1>4, <2>4
    <3>2. h[b] = f[b] + 1 /\ \A x \in SM!Buckets : x # b => h[x] = f[x]
      BY <1>3, <1>4, <2>4, <3>1
    <3>3. IsFiniteSet(SM!Buckets)
      BY ShardsAreFinite
    <3>4. SM!SumFunction(h) = SM!SumFunction(f) + (h[b] - f[b]) /\ SM!SumFunction(f) \in Int
      BY <1>3, <3>2, <3>3, SumChanges, SumIsInt
    <3>5. f[b] \in Int
      BY <1>3
    <3>6. h[b] - f[b] = 1
      BY <3>2, <3>5
    <3> QED
      BY <3>1, <3>4, <3>6
  <2>9. SM!BucketsInv' /\ SM!CallsInv' /\ SM!ScrapeInv'
    <3>1. /\ SM!InShard(n, {"updates"}) = 0 /\ SM!InShard(n, {"updates"})' = 1
          /\ SM!InShard(n, {"unlock"}) = 0 /\ SM!InShard(n, {"unlock"})' = 0
          /\ SM!InShard(n, {"bucket", "updates"}) = 1 /\ SM!InShard(n, {"bucket", "updates"})' = 1
      BY <1>1, <1>3, <2>7
    <3>2. updates' = updates /\ begun' = begun /\ returned' = returned /\ begun \in Nat /\ returned \in Nat
      BY <1>1, <1>2 DEF SM!TypeOK
    <3>3. SM!SumFunction(counts[n]) = updates[n] + 0
      BY <1>3, <3>1 DEF SM!ShardsInv, SM!BucketsInv
    <3>4. SM!SumFunction(counts'[n]) = updates'[n] + SM!InShard(n, {"updates"})'
      BY <1>4, <2>8, <3>1, <3>2, <3>3
    <3>5. /\ updates'[n] >= updates[n]
          /\ updates'[n] - SM!InShard(n, {"unlock"})' >= updates[n] - SM!InShard(n, {"unlock"})
          /\ begun' = begun + ((updates'[n] + SM!InShard(n, {"bucket", "updates"})')
                                 - (updates[n] + SM!InShard(n, {"bucket", "updates"})))
          /\ returned' = returned + ((updates'[n] - SM!InShard(n, {"unlock"})')
                                 - (updates[n] - SM!InShard(n, {"unlock"})))
      BY <1>4, <3>1, <3>2
    <3>6. \A s \in SM!Shards \ {n} :
            mtx'[s] = mtx[s] /\ mtx[s] # t /\ updates'[s] = updates[s] /\ counts'[s] = counts[s]
      BY <1>1, <1>3, <2>4
    <3>7. UNCHANGED SM!scrape
      BY <1>1
    <3> QED
      BY <1>3, <2>5, <2>6, <3>4, <3>5, <3>6, <3>7, ThreadMoves
  <2>10. SM!MutexInv'
    <3>1. \A u \in Upserters : upc'[u] # "idle" => mtx[ShardOf[ukey[u]]] = u
      BY <1>1, <1>2, <2>6 DEF SM!MutexInv
    <3>2. \A s \in SM!Shards : mtx[s] # Nobody => upc'[mtx[s]] # "idle" /\ ShardOf[ukey[mtx[s]]] = s
      <4>1. \A s \in SM!Shards : mtx[s] # Nobody => mtx[s] \in Upserters
        BY <1>2 DEF SM!TypeOK
      <4> QED
        BY <1>2, <2>6, <4>1 DEF SM!MutexInv
    <3>3. ASSUME NEW u \in Upserters, loaded'[u] # SM!Unset
          PROVE  \/ upc'[u] = "bucket" /\ loaded'[u] = counts'[ShardOf[ukey[u]]][BucketOf[ukey[u]]]
                 \/ upc'[u] = "updates" /\ loaded'[u] = updates[ShardOf[ukey[u]]]
      <4>1. u # t
        BY <1>2, <2>2, <3>3 DEF SM!TypeOK
      <4>2. upc'[u] = upc[u] /\ loaded'[u] = loaded[u]
        BY <2>6, <4>1
      <4>3. \/ upc[u] = "bucket" /\ loaded[u] = counts[ShardOf[ukey[u]]][BucketOf[ukey[u]]]
            \/ upc[u] = "updates" /\ loaded[u] = updates[ShardOf[ukey[u]]]
        BY <1>2, <3>3, <4>2 DEF SM!MutexInv
      <4>4. mtx[ShardOf[ukey[u]]] = u /\ ShardOf[ukey[u]] \in SM!Shards
        BY <4>3, InItsShard
      <4>5. counts'[ShardOf[ukey[u]]] = counts[ShardOf[ukey[u]]]
        BY <1>0, <1>3, <2>4, <4>1, <4>4
      <4> QED
        BY <4>2, <4>3, <4>5
    <3> QED
      BY <1>1, <3>1, <3>2, <3>3 DEF SM!MutexInv, SM!Shards, SM!Unset
  <2> QED
    BY <2>5, <2>9, <2>10 DEF SM!ShardsInv
<1> QED
  BY <1>5, <1>6

LEMMA AddToUpdatesStep ==
  ASSUME SM!KeysHaveShards, SM!ShardsInv, NEW t \in Upserters, SM!AddToUpdates(t)
  PROVE  SM!ShardsInv'
<1>0. PICK n \in SM!Shards : n = ShardOf[ukey[t]]
  <2>1. upc[t] # "idle"
    BY DEF SM!AddToUpdates
  <2> QED
    BY <2>1, InItsShard
<1>1. upc[t] = "updates" /\ UNCHANGED <<mtx, counts, ukey, begun, returned, SM!scrape>>
  BY DEF SM!AddToUpdates
<1>2. SM!TypeOK /\ SM!MutexInv
  BY DEF SM!ShardsInv
<1>3. /\ n \in SM!Shards /\ mtx[n] = t /\ t # Nobody
      /\ \A s \in SM!Shards \ {n} : mtx[s] # t
      /\ \A labels : SM!InShard(n, labels) = IF upc[t] \in labels THEN 1 ELSE 0
  BY <1>0, <1>1, InItsShard
<1>4. updates[n] \in Nat
  BY <1>2, <1>3 DEF SM!TypeOK
<1>5. CASE loaded[t] = SM!Unset
  <2>1. loaded' = [loaded EXCEPT ![t] = updates[n]] /\ UNCHANGED <<updates, upc>>
    BY <1>0, <1>5 DEF SM!AddToUpdates, SM!Remember
  <2> QED
    BY <1>0, <1>1, <1>4, <2>1, LoadStep
<1>6. CASE loaded[t] # SM!Unset
  <2>1. loaded[t] = updates[n]
    BY <1>0, <1>1, <1>2, <1>6 DEF SM!MutexInv
  <2>2. /\ updates' = [updates EXCEPT ![n] = updates[n] + 1]
        /\ loaded' = [loaded EXCEPT ![t] = SM!Unset] /\ upc' = [upc EXCEPT ![t] = "unlock"]
    BY <1>0, <1>6, <2>1 DEF SM!AddToUpdates, SM!Remember, SM!Goto
  <2>3. UNCHANGED <<visited, total, since>>
    BY <1>1 DEF SM!scrape
  <2>4. /\ updates' \in [SM!Shards -> Nat] /\ updates'[n] = updates[n] + 1
        /\ \A s \in SM!Shards \ {n} : updates'[s] = updates[s]
    BY <1>2, <1>3, <1>4, <2>2 DEF SM!TypeOK
  <2>5. SM!TypeOK'
    <3>1. loaded' \in [Upserters -> Nat \cup {SM!Unset}]
      BY <1>2, <2>2 DEF SM!TypeOK
    <3>2. upc' \in [Upserters -> {"idle", "bucket", "updates", "unlock"}]
      BY <1>2, <2>2 DEF SM!TypeOK
    <3> QED
      BY <1>1, <1>2, <2>3, <2>4, <3>1, <3>2 DEF SM!TypeOK, SM!Shards, SM!Buckets, SM!Unset
  <2>6. upc'[t] = "unlock" /\ \A u \in Upserters \ {t} : upc'[u] = upc[u] /\ loaded'[u] = loaded[u]
    BY <1>2, <2>2 DEF SM!TypeOK
  <2>7. \A labels : SM!InShard(n, labels)' = IF "unlock" \in labels THEN 1 ELSE 0
    BY <1>1, <1>3, <2>6 DEF SM!InShard
  <2>8. SM!BucketsInv' /\ SM!CallsInv' /\ SM!ScrapeInv'
    <3>1. /\ SM!InShard(n, {"updates"}) = 1 /\ SM!InShard(n, {"updates"})' = 0
          /\ SM!InShard(n, {"unlock"}) = 0 /\ SM!InShard(n, {"unlock"})' = 1
          /\ SM!InShard(n, {"bucket", "updates"}) = 1 /\ SM!InShard(n, {"bucket", "updates"})' = 0
      BY <1>1, <1>3, <2>7
    <3>2. counts' = counts /\ begun' = begun /\ returned' = returned /\ begun \in Nat /\ returned \in Nat
      BY <1>1, <1>2 DEF SM!TypeOK
    <3>3. SM!SumFunction(counts[n]) = updates[n] + 1
      BY <1>3, <3>1 DEF SM!ShardsInv, SM!BucketsInv
    <3>4. SM!SumFunction(counts'[n]) = updates'[n] + SM!InShard(n, {"updates"})'
      BY <1>4, <2>4, <3>1, <3>2, <3>3
    <3>5. /\ updates'[n] >= updates[n]
          /\ updates'[n] - SM!InShard(n, {"unlock"})' >= updates[n] - SM!InShard(n, {"unlock"})
          /\ begun' = begun + ((updates'[n] + SM!InShard(n, {"bucket", "updates"})')
                                 - (updates[n] + SM!InShard(n, {"bucket", "updates"})))
          /\ returned' = returned + ((updates'[n] - SM!InShard(n, {"unlock"})')
                                 - (updates[n] - SM!InShard(n, {"unlock"})))
      BY <1>4, <2>4, <3>1, <3>2
    <3>6. \A s \in SM!Shards \ {n} :
            mtx'[s] = mtx[s] /\ mtx[s] # t /\ updates'[s] = updates[s] /\ counts'[s] = counts[s]
      BY <1>1, <1>3, <2>4
    <3>7. UNCHANGED SM!scrape
      BY <1>1
    <3> QED
      BY <1>3, <2>5, <2>6, <3>4, <3>5, <3>6, <3>7, ThreadMoves
  <2>9. SM!MutexInv'
    <3>1. \A u \in Upserters : upc'[u] # "idle" => mtx[ShardOf[ukey[u]]] = u
      BY <1>1, <1>2, <2>6 DEF SM!MutexInv
    <3>2. \A s \in SM!Shards : mtx[s] # Nobody => upc'[mtx[s]] # "idle" /\ ShardOf[ukey[mtx[s]]] = s
      <4>1. \A s \in SM!Shards : mtx[s] # Nobody => mtx[s] \in Upserters
        BY <1>2 DEF SM!TypeOK
      <4> QED
        BY <1>2, <2>6, <4>1 DEF SM!MutexInv
    <3>3. ASSUME NEW u \in Upserters, loaded'[u] # SM!Unset
          PROVE  \/ upc'[u] = "bucket" /\ loaded'[u] = counts[ShardOf[ukey[u]]][BucketOf[ukey[u]]]
                 \/ upc'[u] = "updates" /\ loaded'[u] = updates'[ShardOf[ukey[u]]]
      <4>1. u # t
        BY <1>2, <2>2, <3>3 DEF SM!TypeOK
      <4>2. upc'[u] = upc[u] /\ loaded'[u] = loaded[u]
        BY <2>6, <4>1
      <4>3. \/ upc[u] = "bucket" /\ loaded[u] = counts[ShardOf[ukey[u]]][BucketOf[ukey[u]]]
            \/ upc[u] = "updates" /\ loaded[u] = updates[ShardOf[ukey[u]]]
        BY <1>2, <3>3, <4>2 DEF SM!MutexInv
      <4>4. mtx[ShardOf[ukey[u]]] = u /\ ShardOf[ukey[u]] \in SM!Shards
        BY <4>3, InItsShard
      <4>5. updates'[ShardOf[ukey[u]]] = updates[ShardOf[ukey[u]]]
        BY <1>0, <1>3, <2>4, <4>1, <4>4
      <4> QED
        BY <4>2, <4>3, <4>5
    <3> QED
      BY <1>1, <3>1, <3>2, <3>3 DEF SM!MutexInv, SM!Shards, SM!Unset
  <2> QED
    BY <2>5, <2>8, <2>9 DEF SM!ShardsInv
<1> QED
  BY <1>5, <1>6

LEMMA UnlockStep ==
  ASSUME SM!KeysHaveShards, SM!ShardsInv, NEW t \in Upserters, SM!Unlock(t)
  PROVE  SM!ShardsInv'
<1>0. PICK n \in SM!Shards : n = ShardOf[ukey[t]]
  <2>1. upc[t] # "idle"
    BY DEF SM!Unlock
  <2> QED
    BY <2>1, InItsShard
<1>1. /\ upc[t] = "unlock" /\ mtx' = [mtx EXCEPT ![n] = Nobody] /\ upc' = [upc EXCEPT ![t] = "idle"]
      /\ returned' = returned + 1
      /\ UNCHANGED <<counts, updates, ukey, loaded, begun, SM!scrape>>
  BY <1>0 DEF SM!Unlock, SM!Goto
<1>2. SM!TypeOK /\ SM!MutexInv
  BY DEF SM!ShardsInv
<1>3. /\ n \in SM!Shards /\ mtx[n] = t /\ t # Nobody
      /\ \A s \in SM!Shards \ {n} : mtx[s] # t
      /\ \A labels : SM!InShard(n, labels) = IF upc[t] \in labels THEN 1 ELSE 0
  BY <1>0, <1>1, InItsShard
<1>4. updates[n] \in Nat
  BY <1>2, <1>3 DEF SM!TypeOK
<1>5. UNCHANGED <<visited, total, since>>
  BY <1>1 DEF SM!scrape
<1>6. /\ mtx' \in [SM!Shards -> Upserters \cup {Nobody}] /\ mtx'[n] = Nobody
      /\ \A s \in SM!Shards \ {n} : mtx'[s] = mtx[s]
  BY <1>1, <1>2, <1>3 DEF SM!TypeOK
<1>7. SM!TypeOK'
  <2>1. upc' \in [Upserters -> {"idle", "bucket", "updates", "unlock"}] /\ returned' \in Nat
    BY <1>1, <1>2 DEF SM!TypeOK
  <2> QED
    BY <1>1, <1>2, <1>5, <1>6, <2>1 DEF SM!TypeOK, SM!Shards, SM!Buckets, SM!Unset
<1>8. upc'[t] = "idle" /\ \A u \in Upserters \ {t} : upc'[u] = upc[u]
  BY <1>1, <1>2 DEF SM!TypeOK
<1>9. \A labels : SM!InShard(n, labels)' = 0
  BY <1>6 DEF SM!InShard
<1>10. SM!BucketsInv' /\ SM!CallsInv' /\ SM!ScrapeInv'
  <2>1. /\ SM!InShard(n, {"updates"}) = 0 /\ SM!InShard(n, {"updates"})' = 0
        /\ SM!InShard(n, {"unlock"}) = 1 /\ SM!InShard(n, {"unlock"})' = 0
        /\ SM!InShard(n, {"bucket", "updates"}) = 0 /\ SM!InShard(n, {"bucket", "updates"})' = 0
    BY <1>1, <1>3, <1>9
  <2>2. counts' = counts /\ updates' = updates /\ begun' = begun /\ begun \in Nat /\ returned \in Nat
    BY <1>1, <1>2 DEF SM!TypeOK
  <2>3. SM!SumFunction(counts[n]) = updates[n] + 0
    BY <1>3, <2>1 DEF SM!ShardsInv, SM!BucketsInv
  <2>4. SM!SumFunction(counts'[n]) = updates'[n] + SM!InShard(n, {"updates"})'
    BY <2>1, <2>2, <2>3
  <2>5. /\ updates'[n] >= updates[n]
        /\ updates'[n] - SM!InShard(n, {"unlock"})' >= updates[n] - SM!InShard(n, {"unlock"})
        /\ begun' = begun + ((updates'[n] + SM!InShard(n, {"bucket", "updates"})')
                               - (updates[n] + SM!InShard(n, {"bucket", "updates"})))
        /\ returned' = returned + ((updates'[n] - SM!InShard(n, {"unlock"})')
                               - (updates[n] - SM!InShard(n, {"unlock"})))
    BY <1>1, <1>4, <2>1, <2>2
  <2>6. \A s \in SM!Shards \ {n} :
          mtx'[s] = mtx[s] /\ mtx[s] # t /\ updates'[s] = updates[s] /\ counts'[s] = counts[s]
    BY <1>1, <1>3, <1>6
  <2>7. UNCHANGED SM!scrape
    BY <1>1
  <2> QED
    BY <1>3, <1>7, <1>8, <2>4, <2>5, <2>6, <2>7, ThreadMoves
<1>11. SM!MutexInv'
  <2>1. ASSUME NEW u \in Upserters, upc'[u] # "idle"
        PROVE  mtx'[ShardOf[ukey[u]]] = u
    <3>1. u # t /\ upc[u] # "idle"
      BY <1>8, <2>1
    <3>2. mtx[ShardOf[ukey[u]]] = u /\ ShardOf[ukey[u]] \in SM!Shards
      BY <3>1, InItsShard
    <3> QED
      BY <1>3, <1>6, <3>1, <3>2
  <2>2. ASSUME NEW s \in SM!Shards, mtx'[s] # Nobody
        PROVE  upc'[mtx'[s]] # "idle" /\ ShardOf[ukey[mtx'[s]]] = s
    <3>1. s # n /\ mtx'[s] = mtx[s] /\ mtx[s] # t /\ mtx[s] \in Upserters
      BY <1>2, <1>3, <1>6, <2>2 DEF SM!TypeOK
    <3>2. upc[mtx[s]] # "idle" /\ ShardOf[ukey[mtx[s]]] = s
      BY <1>2, <2>2, <3>1 DEF SM!MutexInv
    <3> QED
      BY <1>8, <3>1, <3>2
  <2>3. ASSUME NEW u \in Upserters, loaded[u] # SM!Unset
        PROVE  \/ upc'[u] = "bucket" /\ loaded[u] = counts[ShardOf[ukey[u]]][BucketOf[ukey[u]]]
               \/ upc'[u] = "updates" /\ loaded[u] = updates[ShardOf[ukey[u]]]
    <3>1. \/ upc[u] = "bucket" /\ loaded[u] = counts[ShardOf[ukey[u]]][BucketOf[ukey[u]]]
          \/ upc[u] = "updates" /\ loaded[u] = updates[ShardOf[ukey[u]]]
      BY <1>2, <2>3 DEF SM!MutexInv
    <3>2. u # t
      BY <1>1, <3>1
    <3> QED
      BY <1>8, <3>1, <3>2
  <2> QED
    BY <1>1, <2>1, <2>2, <2>3 DEF SM!MutexInv, SM!Shards, SM!Unset
<1> QED
  BY <1>7, <1>10, <1>11 DEF SM!ShardsInv

(* The scrape touches no shard.                                            *)
LEMMA ScrapeTouchesNothing ==
  ASSUME SM!ShardsInv, UNCHANGED <<mtx, SM!upsert>>,
         visited' \in {SM!Unset} \cup 0 .. MapShards, total' \in Nat, since' \in Nat
  PROVE  /\ SM!TypeOK' /\ SM!MutexInv' /\ SM!BucketsInv' /\ SM!CallsInv'
         /\ SM!Begun' = SM!Begun /\ SM!Returned' = SM!Returned
<1>1. UNCHANGED <<mtx, counts, updates, upc, ukey, loaded, begun, returned>>
  BY DEF SM!upsert
<1>2. SM!TypeOK' /\ SM!MutexInv' /\ SM!BucketsInv'
  BY <1>1 DEF SM!ShardsInv, SM!TypeOK, SM!MutexInv, SM!BucketsInv, SM!InShard, SM!Shards, SM!Buckets,
              SM!Unset
<1>3. SM!Begun' = SM!Begun /\ SM!Returned' = SM!Returned
  BY <1>1 DEF SM!Begun, SM!Returned, SM!InShard, SM!Shards
<1>4. SM!CallsInv'
  BY <1>1, <1>3 DEF SM!ShardsInv, SM!CallsInv
<1> QED
  BY <1>2, <1>3, <1>4

LEMMA TotalUpdatesStep ==
  ASSUME SM!KeysHaveShards, SM!ShardsInv, SM!TotalUpdates
  PROVE  SM!ShardsInv'
<1>1. visited' = 0 /\ total' = 0 /\ since' = returned /\ UNCHANGED <<mtx, SM!upsert>>
  BY DEF SM!TotalUpdates
<1>2. SM!TypeOK /\ returned \in Nat /\ 0 \in 0 .. MapShards
  BY DEF SM!ShardsInv, SM!TypeOK, SM!KeysHaveShards
<1>3. /\ SM!TypeOK' /\ SM!MutexInv' /\ SM!BucketsInv' /\ SM!CallsInv'
      /\ SM!Begun' = SM!Begun /\ SM!Returned' = SM!Returned
  BY <1>1, <1>2, ScrapeTouchesNothing
<1>4. IsFiniteSet(SM!Shards)
  BY ShardsAreFinite
<1>5. \A s \in SM!Shards : s \in Nat /\ ~(s < 0)
  BY DEF SM!Shards
<1>6. SM!SumFunction(SM!Passed') = 0
  <2>1. PICK P \in [SM!Shards -> Int] : P = SM!Passed'
    BY <1>3, ShardNumbersNext DEF ShardNumbersInt
  <2>2. \A s \in SM!Shards : P[s] = 0
    BY <1>1, <1>5, <2>1 DEF SM!Passed, SM!Shards
  <2> QED
    BY <1>4, <2>1, <2>2, SumOfZeros
<1>7. SM!Ahead' = SM!Returned
  <2>1. SM!Ahead' = [s \in SM!Shards |-> SM!Returned[s]]
    BY <1>1, <1>3, <1>5 DEF SM!Ahead, SM!Shards
  <2>2. SM!Returned \in [SM!Shards -> Int]
    BY <1>2, ShardNumbers
  <2> QED
    BY <2>1, <2>2
<1>8. since' = SM!SumFunction(SM!Ahead')
  BY <1>1, <1>7 DEF SM!ShardsInv, SM!CallsInv
<1>9. SM!ScrapeInv'
  <2>1. since' \in Nat
    BY <1>1, <1>2
  <2>2. total' <= SM!SumFunction(SM!Passed') /\ since' <= total' + SM!SumFunction(SM!Ahead')
    BY <1>1, <1>6, <1>8, <2>1
  <2> QED
    BY <2>2 DEF SM!ScrapeInv
<1> QED
  BY <1>3, <1>9 DEF SM!ShardsInv

LEMMA AddShardStep ==
  ASSUME SM!KeysHaveShards, SM!ShardsInv, SM!AddShard
  PROVE  SM!ShardsInv'
<1>1. PICK n \in SM!Shards : n = visited
  BY DEF SM!AddShard
<1>2. /\ mtx[n] = Nobody /\ total' = total + updates[n] /\ visited' = n + 1 /\ since' = since
      /\ UNCHANGED <<mtx, SM!upsert>>
  BY <1>1 DEF SM!AddShard
<1>3. SM!TypeOK /\ total \in Nat /\ since \in Nat /\ updates[n] \in Nat
  BY DEF SM!ShardsInv, SM!TypeOK
<1>4. n \in Nat /\ n + 1 \in 0 .. MapShards /\ n # SM!Unset
  BY DEF SM!KeysHaveShards, SM!Shards, SM!Unset
<1>5. /\ SM!TypeOK' /\ SM!MutexInv' /\ SM!BucketsInv' /\ SM!CallsInv'
      /\ SM!Begun' = SM!Begun /\ SM!Returned' = SM!Returned
  BY <1>2, <1>3, <1>4, ScrapeTouchesNothing
<1>6. IsFiniteSet(SM!Shards)
  BY ShardsAreFinite
<1>7. PICK P \in [SM!Shards -> Int], A \in [SM!Shards -> Int] : P = SM!Passed /\ A = SM!Ahead
  BY <1>3, ShardNumbers
<1>8. PICK P1 \in [SM!Shards -> Int], A1 \in [SM!Shards -> Int] : P1 = SM!Passed' /\ A1 = SM!Ahead'
  BY <1>5, ShardNumbersNext DEF ShardNumbersInt
<1>9. \A s \in SM!Shards : s \in Nat /\ (s # n => (s < n + 1 <=> s < n))
  BY <1>4 DEF SM!Shards
<1>10. SM!Returned[n] = updates[n]
  <2>1. SM!InShard(n, {"unlock"}) = 0
    BY <1>2 DEF SM!InShard
  <2>2. SM!Returned[n] = updates[n] - 0
    BY <2>1 DEF SM!Returned
  <2> QED
    BY <1>3, <2>2
<1>11. P[n] = 0 /\ P1[n] = updates[n] /\ A[n] = updates[n] /\ A1[n] = 0
  <2>1. ~(n < n) /\ n < n + 1
    BY <1>4
  <2>2. updates' = updates
    BY <1>2 DEF SM!upsert
  <2>3. P[n] = 0 /\ P1[n] = updates[n]
    BY <1>1, <1>2, <1>7, <1>8, <2>1, <2>2 DEF SM!Passed, SM!Shards
  <2>4. A[n] = updates[n] /\ A1[n] = 0
    BY <1>1, <1>2, <1>5, <1>7, <1>8, <1>10, <2>1 DEF SM!Ahead, SM!Shards
  <2> QED
    BY <2>3, <2>4
<1>12. \A s \in SM!Shards : s # n => P1[s] = P[s] /\ A1[s] = A[s]
  <2>1. updates' = updates
    BY <1>2 DEF SM!upsert
  <2>2. \A s \in SM!Shards : s # n => P1[s] = P[s]
    BY <1>1, <1>2, <1>7, <1>8, <1>9, <2>1 DEF SM!Passed, SM!Shards
  <2>3. \A s \in SM!Shards : s # n => A1[s] = A[s]
    BY <1>1, <1>2, <1>5, <1>7, <1>8, <1>9 DEF SM!Ahead, SM!Shards
  <2> QED
    BY <2>2, <2>3
<1>13. /\ SM!SumFunction(P1) = SM!SumFunction(P) + (P1[n] - P[n])
       /\ SM!SumFunction(A1) = SM!SumFunction(A) + (A1[n] - A[n])
       /\ SM!SumFunction(P) \in Int /\ SM!SumFunction(A) \in Int
  BY <1>6, <1>12, SumChanges, SumIsInt
<1>14. total <= SM!SumFunction(P) /\ since <= total + SM!SumFunction(A)
  BY <1>1, <1>4, <1>7 DEF SM!ShardsInv, SM!ScrapeInv
<1>15. /\ total + updates[n] <= SM!SumFunction(P1)
       /\ since <= total + updates[n] + SM!SumFunction(A1)
  BY <1>3, <1>11, <1>13, <1>14
<1>16. SM!ScrapeInv'
  BY <1>2, <1>8, <1>15 DEF SM!ScrapeInv
<1> QED
  BY <1>5, <1>16 DEF SM!ShardsInv

LEMMA ReturnStep ==
  ASSUME SM!KeysHaveShards, SM!ShardsInv, SM!Return
  PROVE  SM!ShardsInv'
<1>1. /\ visited' = SM!Unset /\ total' = 0 /\ since' = 0 /\ UNCHANGED <<mtx, SM!upsert>>
  BY DEF SM!Return
<1>2. SM!TypeOK' /\ SM!MutexInv' /\ SM!BucketsInv' /\ SM!CallsInv'
  BY <1>1, ScrapeTouchesNothing
<1>3. SM!ScrapeInv'
  BY <1>1 DEF SM!ScrapeInv, SM!Unset
<1> QED
  BY <1>2, <1>3 DEF SM!ShardsInv

LEMMA ShardsInit ==
  ASSUME SM!KeysHaveShards, SM!Init
  PROVE  SM!ShardsInv
<1>1. /\ mtx = [s \in SM!Shards |-> Nobody]
      /\ counts = [s \in SM!Shards |-> [b \in SM!Buckets |-> 0]]
      /\ updates = [s \in SM!Shards |-> 0]
      /\ upc = [t \in Upserters |-> "idle"] /\ loaded = [t \in Upserters |-> SM!Unset]
      /\ visited = SM!Unset /\ total = 0 /\ begun = 0 /\ returned = 0 /\ since = 0
  BY DEF SM!Init
<1>2. ukey \in [Upserters -> Words]
  <2>1. (CHOOSE k \in Words : TRUE) \in Words
    BY DEF SM!KeysHaveShards
  <2> QED
    BY <2>1 DEF SM!Init
<1>3. SM!TypeOK
  BY <1>1, <1>2 DEF SM!TypeOK
<1>4. SM!MutexInv
  BY <1>1 DEF SM!MutexInv
<1>5. IsFiniteSet(SM!Shards) /\ IsFiniteSet(SM!Buckets)
  BY ShardsAreFinite
<1>6. \A s \in SM!Shards : \A labels : SM!InShard(s, labels) = 0
  BY <1>1 DEF SM!InShard
<1>7. SM!BucketsInv
  <2>1. PICK f \in [SM!Buckets -> Int] : f = [b \in SM!Buckets |-> 0]
    <3>1. [b \in SM!Buckets |-> 0] \in [SM!Buckets -> Int]
      OBVIOUS
    <3> QED
      BY <3>1, Zenon
  <2>2. SM!SumFunction(f) = 0
    BY <1>5, <2>1, SumOfZeros
  <2>3. \A s \in SM!Shards : counts[s] = f /\ updates[s] = 0
    BY <1>1, <2>1
  <2> QED
    BY <1>6, <2>2, <2>3 DEF SM!BucketsInv
<1>8. SM!CallsInv
  <2>1. PICK f \in [SM!Shards -> Int], h \in [SM!Shards -> Int] :
          f = SM!Begun /\ h = SM!Returned
    BY <1>3, ShardNumbers
  <2>2. \A s \in SM!Shards : f[s] = 0 /\ h[s] = 0
    BY <1>1, <1>6, <2>1 DEF SM!Begun, SM!Returned
  <2>3. SM!SumFunction(f) = 0 /\ SM!SumFunction(h) = 0
    BY <1>5, <2>2, SumOfZeros
  <2> QED
    BY <1>1, <2>1, <2>3 DEF SM!CallsInv
<1>9. SM!ScrapeInv
  BY <1>1 DEF SM!ScrapeInv
<1> QED
  BY <1>3, <1>4, <1>7, <1>8, <1>9 DEF SM!ShardsInv

LEMMA ShardsStep ==
  ASSUME SM!KeysHaveShards, SM!ShardsInv, SM!Next
  PROVE  SM!ShardsInv'
BY UpsertStep, AddToBucketStep, AddToUpdatesStep, UnlockStep, TotalUpdatesStep, AddShardStep,
   ReturnStep DEF SM!Next

LEMMA ShardsStutter ==
  ASSUME SM!ShardsInv, UNCHANGED sharded
  PROVE  SM!ShardsInv'
<1>1. visited' = visited /\ total' = total /\ since' = since /\ UNCHANGED <<mtx, SM!upsert>>
  BY DEF sharded, SM!upsert
<1>2. visited \in {SM!Unset} \cup 0 .. MapShards /\ total \in Nat /\ since \in Nat
  BY DEF SM!ShardsInv, SM!TypeOK
<1>3. /\ SM!TypeOK' /\ SM!MutexInv' /\ SM!BucketsInv' /\ SM!CallsInv'
      /\ SM!Begun' = SM!Begun /\ SM!Returned' = SM!Returned
  BY <1>1, <1>2, ScrapeTouchesNothing
<1>4. SM!Passed' = SM!Passed /\ SM!Ahead' = SM!Ahead
  BY <1>1, <1>3 DEF SM!Passed, SM!Ahead, SM!Shards, SM!upsert
<1>5. SM!ScrapeInv'
  BY <1>1, <1>4 DEF SM!ShardsInv, SM!ScrapeInv, SM!Unset
<1> QED
  BY <1>3, <1>5 DEF SM!ShardsInv

(* Whoever is in an Upsert has its shard's mutex, and calls are counted    *)
(* shard by shard, whatever the number of threads, words and shards.       *)
THEOREM ShardsInvariance == MCSpec => []SM!ShardsInv
<1> SUFFICES ASSUME SM!KeysHaveShards PROVE MCSpec => []SM!ShardsInv
  BY StructureConstants
<1>1. MCInit => SM!ShardsInv
  BY ShardsInit DEF MCInit
<1>2. SM!ShardsInv /\ [MCNext]_all => SM!ShardsInv'
  <2>1. [MCNext]_all => SM!Next \/ UNCHANGED sharded
    BY DEF MCNext, all
  <2> QED
    BY <2>1, ShardsStep, ShardsStutter
<1> QED
  BY <1>1, <1>2, PTL DEF MCSpec

(* No Upsert is lost: a shard nobody is in counts what its buckets hold,   *)
(* and TotalUpdates, which takes one shard's mutex after the other, lies   *)
(* between what had returned when it was called and what has begun.        *)
THEOREM UpsertsAreCounted == MCSpec => []UpsertsCounted
<1> SUFFICES ASSUME SM!KeysHaveShards PROVE MCSpec => []UpsertsCounted
  BY StructureConstants
<1>1. SM!ShardsInv => UpsertsCounted
  <2> SUFFICES ASSUME SM!ShardsInv PROVE UpsertsCounted
    OBVIOUS
  <2>1. SM!TypeOK /\ IsFiniteSet(SM!Shards)
    BY ShardsAreFinite DEF SM!ShardsInv
  <2>2. ASSUME NEW s \in SM!Shards, mtx[s] = Nobody
        PROVE  updates[s] = SM!SumFunction(counts[s])
    <3>1. SM!InShard(s, {"updates"}) = 0 /\ updates[s] \in Nat
      BY <2>1, <2>2 DEF SM!InShard, SM!TypeOK
    <3>2. SM!SumFunction(counts[s]) = updates[s] + SM!InShard(s, {"updates"})
      BY DEF SM!ShardsInv, SM!BucketsInv
    <3> QED
      BY <3>1, <3>2
  <2>3. ASSUME visited = MapShards PROVE since <= total /\ total <= begun
    <3>1. /\ total \in Nat /\ since \in Nat
          /\ visited # SM!Unset
      BY <2>1, <2>3 DEF SM!TypeOK, SM!KeysHaveShards, SM!Unset
    <3>2. PICK B \in [SM!Shards -> Int], P \in [SM!Shards -> Int], A \in [SM!Shards -> Int] :
            B = SM!Begun /\ P = SM!Passed /\ A = SM!Ahead
      BY <2>1, ShardNumbers
    <3>3. \A s \in SM!Shards : s < visited
      BY <2>3 DEF SM!Shards, SM!KeysHaveShards
    <3>4. SM!SumFunction(A) = 0
      <4>1. \A s \in SM!Shards : A[s] = 0
        BY <3>2, <3>3 DEF SM!Ahead
      <4> QED
        BY <2>1, <4>1, SumOfZeros
    <3>5. SM!SumFunction(P) <= SM!SumFunction(B)
      <4>1. \A s \in SM!Shards : updates[s] \in Nat
        BY <2>1 DEF SM!TypeOK
      <4>2. \A s \in SM!Shards : SM!InShard(s, {"bucket", "updates"}) \in 0 .. 1
        BY DEF SM!InShard
      <4>3. \A s \in SM!Shards : /\ P[s] = updates[s]
                                 /\ B[s] = updates[s] + SM!InShard(s, {"bucket", "updates"})
        BY <3>2, <3>3 DEF SM!Passed, SM!Begun
      <4>4. \A s \in SM!Shards : P[s] <= B[s]
        BY <4>1, <4>2, <4>3
      <4> QED
        BY <2>1, <4>4, SumsOrdered
    <3>6. SM!SumFunction(P) \in Int /\ SM!SumFunction(B) \in Int
      BY <2>1, SumIsInt
    <3>7. total <= SM!SumFunction(P) /\ since <= total + SM!SumFunction(A)
      BY <3>1, <3>2 DEF SM!ShardsInv, SM!ScrapeInv
    <3>8. begun = SM!SumFunction(B)
      BY <3>2 DEF SM!ShardsInv, SM!CallsInv
    <3> QED
      BY <3>1, <3>4, <3>5, <3>6, <3>7, <3>8
  <2> QED
    BY <2>2, <2>3 DEF UpsertsCounted, SM!UpsertsCounted
<1> QED
  BY <1>1, ShardsInvariance, PTL

-----------------------------------------------------------------------------
(* The ring of pointers.                                                   *)
Chases(f, next_ptrs, n) == f = [k \in 1 .. n |-> IF k = 1 THEN 0 ELSE next_ptrs[f[k - 1]]]

(* Two chases of the same pointers are the same.                           *)
LEMMA OneChase ==
  ASSUME NEW n \in Nat, NEW next_ptrs, NEW f, NEW g,
         Chases(f, next_ptrs, n), Chases(g, next_ptrs, n)
  PROVE  \A k \in 1 .. n : f[k] = g[k]
<1> SUFFICES ASSUME NEW k \in 1 .. n, f[k] # g[k] PROVE FALSE
  OBVIOUS
<1> DEFINE Apart == {m \in 1 .. n : f[m] # g[m]}
<1>1. PICK m \in Apart : \A j \in Apart : m <= j
  <2>1. Apart \in SUBSET Nat /\ Apart # {}
    OBVIOUS
  <2> QED
    BY <2>1, LeastNumber
<1>2. f[1] = g[1] /\ m # 1
  <2>1. 1 \in 1 .. n => f[1] = 0 /\ g[1] = 0
    BY DEF Chases
  <2>2. m \in 1 .. n /\ f[m] # g[m]
    OBVIOUS
  <2>3. 1 \in 1 .. n
    BY <2>2
  <2> QED
    BY <2>1, <2>2, <2>3
<1>3. m - 1 \in 1 .. n /\ f[m - 1] = g[m - 1]
  <2>1. m - 1 \in 1 .. n /\ ~(m <= m - 1)
    BY <1>2
  <2> QED
    BY <1>1, <2>1
<1>4. f[m] = next_ptrs[f[m - 1]] /\ g[m] = next_ptrs[g[m - 1]]
  <2>1. m \in 1 .. n
    OBVIOUS
  <2> QED
    BY <1>2, <2>1 DEF Chases
<1> QED
  BY <1>3, <1>4

LEMMA ShuffleIsOnto ==
  ASSUME NEW n \in Nat, NEW p \in KE!Shuffles(n)
  PROVE  \A e \in 0 .. n - 1 : \E k \in 1 .. n : p[k] = e
<1>1. /\ p \in [1 .. n -> 0 .. n - 1]
      /\ \A k, j \in 1 .. n : p[k] = p[j] => k = j
  BY DEF KE!Shuffles
<1>2. p \in Injection(1 .. n, 0 .. n - 1)
  BY <1>1 DEF Injection, IsInjective
<1>3. IsFiniteSet(1 .. n) /\ Cardinality(1 .. n) = n
  <2>1. 1 \in Int /\ n \in Int
    OBVIOUS
  <2>2. /\ IsFiniteSet(1 .. n) /\ Cardinality(1 .. n) = IF 1 > n THEN 0 ELSE n - 1 + 1
    BY <2>1, FS_Interval, Zenon
  <2> QED
    BY <2>2
<1>4. IsFiniteSet(0 .. n - 1) /\ Cardinality(0 .. n - 1) = n
  <2>1. 0 \in Int /\ n - 1 \in Int
    OBVIOUS
  <2>2. /\ IsFiniteSet(0 .. n - 1)
        /\ Cardinality(0 .. n - 1) = IF 0 > n - 1 THEN 0 ELSE (n - 1) - 0 + 1
    BY <2>1, FS_Interval, Zenon
  <2> QED
    BY <2>2
<1>5. p \in Surjection(1 .. n, 0 .. n - 1)
  BY <1>2, <1>3, <1>4, FS_Injection
<1> QED
  BY <1>5 DEF Surjection

(* In any shuffled order of any size the chase is one cycle.               *)
LEMMA ShuffleIsOneCycle ==
  ASSUME NEW n \in Nat, n >= 2, indices \in KE!Shuffles(n)
  PROVE  KE!SingleCycle
<1>1. PICK p \in KE!Shuffles(n) : p = indices
  OBVIOUS
<1>2. /\ p \in [1 .. n -> 0 .. n - 1] /\ p[1] = 0
      /\ \A k, j \in 1 .. n : p[k] = p[j] => k = j
  BY DEF KE!Shuffles
<1>3. Len(p) = n
  BY <1>2
<1> DEFINE ring == KE!PointerChaseRing(p)
<1>4. ASSUME NEW k \in 1 .. n
      PROVE  ring[p[k]] = IF k = n THEN p[1] ELSE p[k + 1]
  <2>1. (CHOOSE j \in 1 .. n : p[j] = p[k]) = k
    BY <1>2
  <2>2. ring[p[k]] = LET at == CHOOSE j \in 1 .. n : p[j] = p[k]
                     IN  IF at = n THEN p[1] ELSE p[at + 1]
    BY <1>2, <1>3 DEF KE!PointerChaseRing
  <2> QED
    BY <2>1, <2>2
<1> HIDE DEF ring
<1>5. Chases(p, ring, n)
  <2>1. ASSUME NEW k \in 1 .. n, k # 1
        PROVE  p[k] = ring[p[k - 1]]
    <3>1. PICK j \in 1 .. n : j = k - 1 /\ j # n /\ j + 1 = k
      BY <2>1
    <3>2. ring[p[j]] = p[j + 1]
      BY <1>4, <3>1
    <3> QED
      BY <3>1, <3>2
  <2>2. p = [k \in 1 .. n |-> p[k]]
    BY <1>2
  <2> QED
    BY <1>2, <2>1, <2>2 DEF Chases
<1> DEFINE chase == CHOOSE f : Chases(f, ring, n)
<1>6. Chases(chase, ring, n)
  BY <1>5
<1> HIDE DEF chase
<1>7. \A k \in 1 .. n : chase[k] = p[k]
  BY <1>5, <1>6, OneChase
<1>8. {chase[k] : k \in 1 .. n} = 0 .. n - 1
  <2>1. \A e \in 0 .. n - 1 : \E k \in 1 .. n : p[k] = e
    BY ShuffleIsOnto
  <2>2. \A k \in 1 .. n : chase[k] \in 0 .. n - 1
    BY <1>2, <1>7
  <2>3. \A e \in 0 .. n - 1 : \E k \in 1 .. n : chase[k] = e
    BY <1>7, <2>1
  <2> QED
    BY <2>2, <2>3
<1>9. ring[chase[n]] = 0
  BY <1>2, <1>4, <1>7
<1>10. KE!SingleCycle <=> {chase[k] : k \in 1 .. n} = 0 .. n - 1 /\ ring[chase[n]] = 0
  BY <1>1, <1>3 DEF KE!SingleCycle, chase, Chases, ring
<1> QED
  BY <1>8, <1>9, <1>10

(* A chase from any element comes through all of them, for rings of any    *)
(* size in any shuffled order.                                             *)
THEOREM ChasesAreOneCycle == MCSpec => []SingleCycle
<1> SUFFICES ASSUME KE!KernelBounds PROVE MCSpec => []SingleCycle
  BY StructureConstants
<1> DEFINE Inv == part = "kernels" => \E n \in Nat : n >= 2 /\ indices \in KE!Shuffles(n)
<1>1. MCInit => Inv
  <2> SUFFICES ASSUME KE!Init PROVE \E n \in Nat : n >= 2 /\ indices \in KE!Shuffles(n)
    BY DEF MCInit
  <2>1. CASE indices = <<0, 1>>
    <3>1. indices \in KE!Shuffles(2)
      BY <2>1 DEF KE!Shuffles
    <3> QED
      BY <3>1
  <2>2. CASE \E size_bytes \in 0 .. 4 * MaxElements :
               indices \in KE!Shuffles(KE!NumElements(size_bytes))
    <3>1. PICK size_bytes \in 0 .. 4 * MaxElements :
            indices \in KE!Shuffles(KE!NumElements(size_bytes))
      BY <2>2
    <3>2. size_bytes \in Nat
      BY DEF KE!KernelBounds
    <3>3. KE!NumElements(size_bytes) \in Nat /\ KE!NumElements(size_bytes) >= 2
      BY <3>2 DEF KE!NumElements
    <3> QED
      BY <3>1, <3>3
  <2> QED
    BY <2>1, <2>2 DEF KE!Init
<1>2. Inv /\ [MCNext]_all => Inv'
  BY DEF MCNext, all, kernels, KE!Shuffles
<1>3. Inv => SingleCycle
  BY ShuffleIsOneCycle DEF SingleCycle
<1> QED
  BY <1>1, <1>2, <1>3, PTL DEF MCSpec

LEMMA Remainder ==
  ASSUME NEW m \in Nat \ {0}, NEW x \in Int
  PROVE  x % m \in 0 .. m - 1 /\ \E q \in Int : x = m * q + (x % m)
<1>1. x % m \in 0 .. m - 1
  OBVIOUS
<1>2. x \div m \in Int
  OBVIOUS
<1>3. x = m * (x \div m) + (x % m)
  OBVIOUS
<1>4. \E q \in Int : x = m * q + (x % m)
  BY <1>2, <1>3, Zenon
<1> QED
  BY <1>1, <1>4, Zenon

LEMMA RemainderOf ==
  ASSUME NEW m \in Nat \ {0}, NEW q \in Int, NEW rest \in 0 .. m - 1
  PROVE  (m * q + rest) % m = rest
OBVIOUS

LEMMA SmallRemainder ==
  ASSUME NEW m \in Nat \ {0}, NEW x \in 0 .. m - 1
  PROVE  x % m = x
OBVIOUS

(* Wrapping before an addition makes no difference to what it wraps to.    *)
LEMMA WrapBefore ==
  ASSUME NEW m \in Nat \ {0}, NEW x \in Int, NEW y \in Int
  PROVE  ((x % m) + y) % m = (x + y) % m
<1>1. PICK q \in Int, a \in 0 .. m - 1 : x = m * q + a /\ x % m = a
  BY Remainder
<1>2. PICK p \in Int, b \in 0 .. m - 1 : a + y = m * p + b /\ (a + y) % m = b
  <2>1. PICK c \in Int : c = a + y
    OBVIOUS
  <2>2. PICK p \in Int : c = m * p + (c % m)
    BY Remainder
  <2>3. c % m \in 0 .. m - 1
    BY Remainder
  <2> QED
    BY <2>1, <2>2, <2>3
<1>3. x + y = m * (q + p) + b
  <2>1. m * (q + p) = m * q + m * p /\ m * q \in Int /\ m * p \in Int
    OBVIOUS
  <2> QED
    BY <1>1, <1>2, <2>1
<1>4. (m * (q + p) + b) % m = b
  BY RemainderOf
<1> QED
  BY <1>1, <1>2, <1>3, <1>4

LEMMA WrapBoth ==
  ASSUME NEW m \in Nat \ {0}, NEW x \in Int, NEW y \in Int
  PROVE  ((x % m) + (y % m)) % m = (x + y) % m
<1>1. x % m \in Int /\ y % m \in Int
  BY Remainder
<1>2. ((x % m) + (y % m)) % m = (x + (y % m)) % m
  BY <1>1, WrapBefore
<1>3. ((y % m) + x) % m = (y + x) % m
  BY WrapBefore
<1>4. x + (y % m) = (y % m) + x /\ x + y = y + x
  BY <1>1
<1> QED
  BY <1>2, <1>3, <1>4, Zenon

-----------------------------------------------------------------------------
(* The sum of a stream in an accumulator that wraps.                       *)
Modulus == 2 ^ Width

LastOf(t) == CHOOSE x \in t : \A y \in t : x >= y

LEMMA LastExists ==
  ASSUME NEW n \in Nat, NEW t \in SUBSET (1 .. n), t # {}
  PROVE  LastOf(t) \in t /\ \A y \in t : LastOf(t) >= y
<1> DEFINE Gaps == {n - x : x \in t}
<1>0. \A x \in t : x \in 1 .. n
  OBVIOUS
<1>1. Gaps \in SUBSET Nat /\ Gaps # {}
  <2>1. \A x \in t : n - x \in Nat
    BY <1>0
  <2> QED
    BY <2>1
<1>2. PICK gap \in Gaps : \A z \in Gaps : gap <= z
  BY <1>1, LeastNumber
<1>3. PICK x \in t : gap = n - x
  OBVIOUS
<1>4. \A y \in t : x >= y
  <2> SUFFICES ASSUME NEW y \in t PROVE x >= y
    OBVIOUS
  <2>1. n - x <= n - y
    BY <1>2, <1>3
  <2>2. x \in 1 .. n /\ y \in 1 .. n
    BY <1>0
  <2> QED
    BY <2>1, <2>2
<1> QED
  BY <1>4 DEF LastOf

WrapsSubsets(s, S, g) ==
  g = [t \in SUBSET S |->
         IF t = {} THEN 0 ELSE (g[t \ {LastOf(t)}] + s[LastOf(t)]) % 2 ^ Width]

LEMMA WrappedByChoice ==
  ASSUME NEW s
  PROVE  KE!Sum(s) = (CHOOSE g : WrapsSubsets(s, DOMAIN s, g))[DOMAIN s]
BY DEF KE!Sum, KE!Wrap, KE!Ext!FoldLeft, KE!Ext!MapThenFoldSet, KE!Ext!Max, WrapsSubsets, LastOf

LEMMA WrapsExist ==
  ASSUME KE!KernelBounds, NEW n \in Nat, NEW s \in [1 .. n -> Int]
  PROVE  \E g : WrapsSubsets(s, 1 .. n, g)
<1> DEFINE S == 1 .. n
           c == [t \in SUBSET S |-> LastOf(t)]
           F == [xv \in S \X Int |-> (xv[2] + s[xv[1]]) % Modulus]
<1>1. \A t \in SUBSET S : c[t] = LastOf(t)
  OBVIOUS
<1>2. \A t \in SUBSET S : t # {} => LastOf(t) \in t
  BY LastExists
<1>3. Takes(c, S)
  BY <1>1, <1>2 DEF Takes
<1>4. Modulus \in Nat \ {0}
  BY DEF KE!KernelBounds, Modulus
<1>5. \A x \in S, v \in Int : (v + s[x]) % Modulus \in Int
  BY <1>4
<1>6. F \in [S \X Int -> Int] /\ \A x \in S, v \in Int : F[<<x, v>>] = (v + s[x]) % Modulus
  BY <1>5
<1>7. IsFiniteSet(S)
  <2>1. 1 \in Int /\ n \in Int
    OBVIOUS
  <2> QED
    BY <2>1, FS_Interval, Zenon
<1> HIDE DEF c, F, S
<1>8. PICK g : FoldsBy(c, F, S, g)
  BY <1>3, <1>6, <1>7, FoldsExist
<1>9. g = [t \in SUBSET S |-> IF t = {} THEN 0 ELSE (g[t \ {LastOf(t)}] + s[LastOf(t)]) % Modulus]
  <2>1. ASSUME NEW t \in SUBSET S, t # {}
        PROVE  F[<<c[t], g[t \ {c[t]}]>>] = (g[t \ {LastOf(t)}] + s[LastOf(t)]) % Modulus
    <3>1. c[t] = LastOf(t) /\ LastOf(t) \in S
      BY <1>1, <1>2, <2>1
    <3>2. g[t \ {LastOf(t)}] \in Int
      BY <1>8 DEF FoldsBy
    <3> QED
      BY <1>6, <3>1, <3>2
  <2>2. g = [t \in SUBSET S |-> IF t = {} THEN 0 ELSE F[<<c[t], g[t \ {c[t]}]>>]]
    BY <1>8 DEF FoldsBy
  <2> QED
    BY <2>1, <2>2
<1> QED
  BY <1>9 DEF WrapsSubsets, Modulus, S

(* a[k] is the accumulator after k elements of s.                          *)
Accumulates(s, n, a) ==
  /\ a \in [0 .. n -> 0 .. Modulus - 1] /\ a[0] = 0
  /\ \A k \in 1 .. n : a[k] = (a[k - 1] + s[k]) % Modulus

SumsTo(s, n, a) == Accumulates(s, n, a) /\ KE!Sum(s) = a[n]

LEMMA SumUnwinds ==
  ASSUME KE!KernelBounds, NEW n \in Nat, NEW s \in [1 .. n -> Int]
  PROVE  \E a : SumsTo(s, n, a)
<1> DEFINE g == CHOOSE g : WrapsSubsets(s, 1 .. n, g)
<1>1. WrapsSubsets(s, 1 .. n, g)
  BY WrapsExist
<1>2. KE!Sum(s) = g[1 .. n]
  <2>1. DOMAIN s = 1 .. n
    OBVIOUS
  <2> QED
    BY <2>1, WrappedByChoice
<1> HIDE DEF g
<1>3. Modulus \in Nat \ {0}
  BY DEF KE!KernelBounds, Modulus
<1> DEFINE a == [k \in 0 .. n |-> g[1 .. k]]
<1>4. a[0] = 0
  <2>1. 1 .. 0 = {} /\ {} \in SUBSET (1 .. n) /\ 0 \in 0 .. n
    OBVIOUS
  <2>2. g[{}] = 0
    BY <1>1, <2>1 DEF WrapsSubsets
  <2> QED
    BY <2>1, <2>2
<1>5. ASSUME NEW k \in 1 .. n
      PROVE  a[k] = (a[k - 1] + s[k]) % Modulus
  <2>1. 1 .. k \in SUBSET (1 .. n) /\ 1 .. k # {} /\ k \in 0 .. n /\ k - 1 \in 0 .. n
    <3>1. k \in 1 .. k /\ k \in 0 .. n /\ k - 1 \in 0 .. n
      OBVIOUS
    <3>2. 1 .. k \in SUBSET (1 .. n)
      OBVIOUS
    <3> QED
      BY <3>1, <3>2
  <2>2. LastOf(1 .. k) = k
    <3>1. LastOf(1 .. k) \in 1 .. k /\ \A y \in 1 .. k : LastOf(1 .. k) >= y
      BY <2>1, LastExists
    <3>2. PICK last \in 1 .. k : last = LastOf(1 .. k)
      BY <3>1
    <3>3. last >= k
      BY <3>1, <3>2
    <3> QED
      BY <3>2, <3>3
  <2>3. (1 .. k) \ {k} = 1 .. k - 1
    OBVIOUS
  <2>4. g[1 .. k] = (g[(1 .. k) \ {LastOf(1 .. k)}] + s[LastOf(1 .. k)]) % Modulus
    BY <1>1, <2>1 DEF WrapsSubsets, Modulus
  <2>5. a[k] = g[1 .. k] /\ a[k - 1] = g[1 .. k - 1]
    BY <2>1
  <2> QED
    BY <2>2, <2>3, <2>4, <2>5
<1>6. a = [k \in 0 .. n |-> a[k]] /\ a[n] = g[1 .. n]
  OBVIOUS
<1> HIDE DEF a
<1> DEFINE Wild == {k \in 0 .. n : a[k] \notin 0 .. Modulus - 1}
<1>7. Wild = {}
  <2> SUFFICES ASSUME Wild # {} PROVE FALSE
    OBVIOUS
  <2>1. Wild \in SUBSET Nat
    OBVIOUS
  <2>2. PICK k \in Wild : \A j \in Wild : k <= j
    BY <2>1, LeastNumber
  <2>3. k # 0 /\ k \in 1 .. n
    BY <1>3, <1>4
  <2>4. k - 1 \in 0 .. n /\ ~(k <= k - 1)
    BY <2>3
  <2>5. a[k - 1] \in Int
    BY <2>2, <2>4
  <2>6. a[k - 1] + s[k] \in Int
    BY <2>3, <2>5
  <2>7. (a[k - 1] + s[k]) % Modulus \in 0 .. Modulus - 1
    BY <1>3, <2>6, Remainder
  <2> QED
    BY <1>5, <2>3, <2>7
<1>8. a \in [0 .. n -> 0 .. Modulus - 1]
  BY <1>6, <1>7
<1> QED
  BY <1>2, <1>4, <1>5, <1>6, <1>8 DEF Accumulates, SumsTo

Adds(x, y, n, z) == \A k \in 1 .. n : z[k] = (x[k] + y[k]) % Modulus

(* y is the m elements of s after the first u, which end at e.             *)
IsRun(s, n, u, m, y, e) ==
  /\ {n, u, m, e} \subseteq Nat /\ e = u + m /\ e <= n
  /\ s \in [1 .. n -> Int] /\ y \in [1 .. m -> Int]
  /\ \A k \in 1 .. m : y[k] = s[u + k]

GoesOn(a, u, y, e) == a[e] = (a[u] + KE!Sum(y)) % Modulus

(* Accumulators that take an element each of two streams, and one that     *)
(* takes both, agree on the sum.                                           *)
LEMMA SumOfBoth ==
  ASSUME KE!KernelBounds, NEW n \in Nat,
         NEW x \in [1 .. n -> Int], NEW y \in [1 .. n -> Int], NEW z \in [1 .. n -> Int],
         Adds(x, y, n, z)
  PROVE  KE!Sum(z) = (KE!Sum(x) + KE!Sum(y)) % Modulus
<1>0. \A k \in 1 .. n : z[k] = (x[k] + y[k]) % Modulus
  BY DEF Adds
<1>1. Modulus \in Nat \ {0}
  BY DEF KE!KernelBounds, Modulus
<1>2. PICK a : SumsTo(x, n, a)
  BY SumUnwinds
<1>3. PICK b : SumsTo(y, n, b)
  BY SumUnwinds
<1>4. PICK c : SumsTo(z, n, c)
  BY SumUnwinds
<1> DEFINE Apart == {k \in 0 .. n : c[k] # (a[k] + b[k]) % Modulus}
<1>5. Apart = {}
  <2> SUFFICES ASSUME Apart # {} PROVE FALSE
    OBVIOUS
  <2>1. Apart \in SUBSET Nat
    OBVIOUS
  <2>2. PICK k \in Apart : \A j \in Apart : k <= j
    BY <2>1, LeastNumber
  <2>3. k # 0
    <3>1. a[0] = 0 /\ b[0] = 0 /\ c[0] = 0
      BY <1>2, <1>3, <1>4 DEF SumsTo, Accumulates
    <3>2. 0 % Modulus = 0
      BY <1>1, SmallRemainder
    <3>3. (a[0] + b[0]) % Modulus = 0
      BY <3>1, <3>2
    <3> QED
      BY <3>1, <3>3
  <2>4. PICK j \in 0 .. n : j = k - 1 /\ k \in 1 .. n /\ ~(k <= j)
    BY <2>3
  <2>5. c[j] = (a[j] + b[j]) % Modulus
    BY <2>2, <2>4
  <2>6. PICK u \in Int, v \in Int, xx \in Int, yy \in Int :
          u = a[j] /\ v = b[j] /\ xx = x[k] /\ yy = y[k]
    BY <1>1, <1>2, <1>3, <2>4 DEF SumsTo, Accumulates
  <2>7. /\ a[k] = (u + xx) % Modulus /\ b[k] = (v + yy) % Modulus
        /\ c[k] = (((u + v) % Modulus) + ((xx + yy) % Modulus)) % Modulus
    <3>1. a[k] = (a[j] + x[k]) % Modulus /\ b[k] = (b[j] + y[k]) % Modulus
      BY <1>2, <1>3, <2>4 DEF SumsTo, Accumulates
    <3>2. c[k] = (c[j] + z[k]) % Modulus
      BY <1>4, <2>4 DEF SumsTo, Accumulates
    <3> QED
      BY <1>0, <2>4, <2>5, <2>6, <3>1, <3>2
  <2>8. c[k] = ((u + v) + (xx + yy)) % Modulus
    <3>1. u + v \in Int /\ xx + yy \in Int
      OBVIOUS
    <3> QED
      BY <1>1, <2>7, <3>1, WrapBoth, Zenon
  <2>9. (a[k] + b[k]) % Modulus = ((u + xx) + (v + yy)) % Modulus
    <3>1. u + xx \in Int /\ v + yy \in Int
      OBVIOUS
    <3>2. (((u + xx) % Modulus) + ((v + yy) % Modulus)) % Modulus = ((u + xx) + (v + yy)) % Modulus
      BY <1>1, <3>1, WrapBoth, Zenon
    <3> QED
      BY <2>7, <3>2
  <2>10. (u + v) + (xx + yy) = (u + xx) + (v + yy)
    OBVIOUS
  <2> QED
    BY <2>8, <2>9, <2>10
<1>6. c[n] = (a[n] + b[n]) % Modulus
  <2>1. n \in 0 .. n
    OBVIOUS
  <2> QED
    BY <1>5, <2>1
<1> QED
  BY <1>2, <1>3, <1>4, <1>6 DEF SumsTo

(* The accumulator goes on from where it was as if from 0.                 *)
LEMMA SumGoesOn ==
  ASSUME KE!KernelBounds, NEW n, NEW s, NEW a, NEW u, NEW m, NEW y, NEW e,
         Accumulates(s, n, a), IsRun(s, n, u, m, y, e)
  PROVE  GoesOn(a, u, y, e)
<1>0. /\ n \in Nat /\ u \in Nat /\ m \in Nat /\ e = u + m /\ u + m <= n
      /\ s \in [1 .. n -> Int] /\ y \in [1 .. m -> Int]
      /\ \A k \in 1 .. m : y[k] = s[u + k]
  BY DEF IsRun
<1>1. Modulus \in Nat \ {0}
  BY DEF KE!KernelBounds, Modulus
<1>2. PICK b : SumsTo(y, m, b)
  BY <1>0, SumUnwinds
<1>3. u \in 0 .. n /\ \A k \in 0 .. m : u + k \in 0 .. n
  BY <1>0
<1>4. PICK base \in 0 .. Modulus - 1 : base = a[u]
  BY <1>3 DEF Accumulates
<1> DEFINE Apart == {k \in 0 .. m : a[u + k] # (a[u] + b[k]) % Modulus}
<1>5. Apart = {}
  <2> SUFFICES ASSUME Apart # {} PROVE FALSE
    OBVIOUS
  <2>1. Apart \in SUBSET Nat
    BY <1>0
  <2>2. PICK k \in Apart : \A j \in Apart : k <= j
    BY <2>1, LeastNumber
  <2>3. k # 0
    <3>1. b[0] = 0
      BY <1>2 DEF SumsTo, Accumulates
    <3>2. base % Modulus = base
      BY <1>1, SmallRemainder
    <3>3. base + 0 = base /\ u + 0 = u
      BY <1>0, <1>1
    <3>4. a[u + 0] = (a[u] + b[0]) % Modulus
      BY <1>4, <3>1, <3>2, <3>3
    <3> QED
      BY <3>4
  <2>4. PICK j \in 0 .. m : j = k - 1 /\ k \in 1 .. m /\ ~(k <= j)
    BY <1>0, <2>3
  <2>5. a[u + j] = (a[u] + b[j]) % Modulus
    BY <2>2, <2>4
  <2>6. PICK v \in Int, yy \in Int : v = b[j] /\ yy = y[k]
    BY <1>0, <1>1, <1>2, <2>4 DEF SumsTo, Accumulates
  <2>7. b[k] = (v + yy) % Modulus
    BY <1>2, <2>4, <2>6 DEF SumsTo, Accumulates
  <2>8. a[u + k] = (((base + v) % Modulus) + yy) % Modulus
    <3>1. u + k \in 1 .. n /\ u + k - 1 = u + j
      BY <1>0, <2>4
    <3>2. a[u + k] = (a[u + k - 1] + s[u + k]) % Modulus
      BY <1>0, <3>1 DEF Accumulates
    <3>3. s[u + k] = yy /\ a[u + k - 1] = (base + v) % Modulus
      BY <1>0, <1>4, <2>4, <2>5, <2>6, <3>1
    <3> QED
      BY <3>2, <3>3, Zenon
  <2>9. base \in Int /\ base + v \in Int /\ v + yy \in Int
    BY <1>1
  <2>10. a[u + k] = ((base + v) + yy) % Modulus
    BY <1>1, <2>8, <2>9, WrapBefore
  <2>11. (a[u] + b[k]) % Modulus = ((v + yy) + base) % Modulus
    <3>1. (((v + yy) % Modulus) + base) % Modulus = ((v + yy) + base) % Modulus
      BY <1>1, <2>9, WrapBefore
    <3>2. (v + yy) % Modulus \in Int
      BY <1>1, <2>9, Remainder
    <3>3. base + ((v + yy) % Modulus) = ((v + yy) % Modulus) + base
      BY <2>9, <3>2
    <3> QED
      BY <1>4, <2>7, <3>1, <3>3
  <2>12. (base + v) + yy = (v + yy) + base
    BY <2>9
  <2> QED
    BY <2>10, <2>11, <2>12
<1>6. a[u + m] = (a[u] + b[m]) % Modulus
  <2>1. m \in 0 .. m
    BY <1>0
  <2> QED
    BY <1>5, <2>1
<1> QED
  BY <1>0, <1>2, <1>6 DEF SumsTo, GoesOn

LEMMA SumOfNothing ==
  ASSUME KE!KernelBounds, NEW n \in Nat, NEW s \in [1 .. n -> Int], \A k \in 1 .. n : s[k] = 0
  PROVE  KE!Sum(s) = 0
<1>1. Modulus \in Nat \ {0}
  BY DEF KE!KernelBounds, Modulus
<1>2. PICK a : SumsTo(s, n, a)
  BY SumUnwinds
<1> DEFINE Apart == {k \in 0 .. n : a[k] # 0}
<1>3. Apart = {}
  <2> SUFFICES ASSUME Apart # {} PROVE FALSE
    OBVIOUS
  <2>1. Apart \in SUBSET Nat
    OBVIOUS
  <2>2. PICK k \in Apart : \A j \in Apart : k <= j
    BY <2>1, LeastNumber
  <2>3. k # 0
    BY <1>2 DEF SumsTo, Accumulates
  <2>4. PICK j \in 0 .. n : j = k - 1 /\ k \in 1 .. n /\ ~(k <= j)
    BY <2>3
  <2>5. a[j] = 0
    BY <2>2, <2>4
  <2>6. a[k] = (0 + 0) % Modulus
    BY <1>2, <2>4, <2>5 DEF SumsTo, Accumulates
  <2>7. 0 % Modulus = 0
    BY <1>1, SmallRemainder
  <2> QED
    BY <2>6, <2>7
<1> QED
  BY <1>2, <1>3 DEF SumsTo

-----------------------------------------------------------------------------
(* q whole rounds of w elements, and what is left.                         *)
LEMMA WholeRounds ==
  ASSUME NEW n \in Nat, NEW w \in Nat \ {0}
  PROVE  \E q \in Nat : /\ n - (n % w) = q * w /\ q * w <= n
                        /\ (n - (n % w)) \div w = q
<1>1. n \div w \in Nat /\ n % w \in Nat
  OBVIOUS
<1>2. PICK q \in Nat : q = n \div w
  BY <1>1
<1>3. n = w * (n \div w) + (n % w)
  OBVIOUS
<1>4. w * q = q * w /\ q * w \in Nat
  OBVIOUS
<1>5. n - (n % w) = q * w /\ q * w <= n
  BY <1>1, <1>2, <1>3, <1>4
<1>6. (q * w) \div w = q
  OBVIOUS
<1> QED
  BY <1>5, <1>6

LEMMA RoundsInside ==
  ASSUME NEW n \in Nat, NEW w \in Nat \ {0}, NEW q \in Nat, q * w <= n, NEW k \in 1 .. q
  PROVE  /\ (k - 1) * w \in Nat /\ k * w = (k - 1) * w + w /\ (k - 1) * w + w <= n
         /\ \A j \in 1 .. w : (k - 1) * w + j \in 1 .. n
<1>1. PICK before \in Nat, gap \in Nat : before = k - 1 /\ gap = q - k
  OBVIOUS
<1>2. before * w \in Nat /\ gap * w \in Nat
  OBVIOUS
<1>3. k * w = before * w + w
  BY <1>1
<1>4. q * w = k * w + gap * w
  BY <1>1
<1>5. before * w + w <= n
  BY <1>2, <1>3, <1>4
<1> QED
  BY <1>1, <1>2, <1>3, <1>5

Column(s, w, q, j) == [k \in 1 .. q |-> s[(k - 1) * w + j]]

LEMMA ColumnValues ==
  ASSUME NEW n \in Nat, NEW s \in [1 .. n -> Int], NEW w \in Nat \ {0}, NEW q \in Nat, q * w <= n,
         NEW j \in 1 .. w
  PROVE  Column(s, w, q, j) \in [1 .. q -> Int]
<1>1. \A k \in 1 .. q : (k - 1) * w + j \in 1 .. n
  BY RoundsInside
<1>2. \A k \in 1 .. q : s[(k - 1) * w + j] \in Int
  BY <1>1
<1> QED
  BY <1>2 DEF Column

Agree(w, q, B, a) == KE!Sum([j \in 1 .. w |-> B[j][q]]) = a[q * w]

RowsAccumulate(s, w, q, B) == \A j \in 1 .. w : Accumulates(Column(s, w, q, j), q, B[j])

(* After every round the accumulators have together what the one has.      *)
LEMMA RoundsAgree ==
  ASSUME KE!KernelBounds, NEW n \in Nat, NEW s \in [1 .. n -> Int], NEW a, Accumulates(s, n, a),
         NEW w \in Nat \ {0}, NEW q \in Nat, q * w <= n, NEW B,
         RowsAccumulate(s, w, q, B)
  PROVE  Agree(w, q, B, a)
<1>1. Modulus \in Nat \ {0}
  BY DEF KE!KernelBounds, Modulus
<1>0. \A j \in 1 .. w : Accumulates(Column(s, w, q, j), q, B[j])
  BY DEF RowsAccumulate
<1>2. \A j \in 1 .. w, k \in 0 .. q : B[j][k] \in Int
  BY <1>0, <1>1 DEF Accumulates
<1> DEFINE row(k) == [j \in 1 .. w |-> B[j][k]]
<1>3. \A k \in 0 .. q : row(k) \in [1 .. w -> Int] /\ \A j \in 1 .. w : row(k)[j] = B[j][k]
  BY <1>2
<1> DEFINE Apart == {k \in 0 .. q : KE!Sum(row(k)) # a[k * w]}
<1>4. Apart = {}
  <2> SUFFICES ASSUME Apart # {} PROVE FALSE
    OBVIOUS
  <2> HIDE DEF row
  <2>1. Apart \in SUBSET Nat
    OBVIOUS
  <2>2. PICK k \in Apart : \A j \in Apart : k <= j
    BY <2>1, LeastNumber
  <2>3. k # 0
    <3>1. 0 \in 0 .. q /\ 0 * w = 0
      OBVIOUS
    <3>2. \A j \in 1 .. w : row(0)[j] = 0
      BY <1>0, <1>3, <3>1 DEF Accumulates
    <3>3. PICK x \in [1 .. w -> Int] : x = row(0)
      BY <1>3, <3>1
    <3>4. KE!Sum(x) = 0
      BY <3>2, <3>3, SumOfNothing
    <3>5. a[0] = 0
      BY DEF Accumulates
    <3> QED
      BY <3>1, <3>3, <3>4, <3>5
  <2>4. PICK i1 \in 0 .. q : i1 = k - 1 /\ k \in 1 .. q /\ ~(k <= i1)
    BY <2>3
  <2>5. KE!Sum(row(i1)) = a[i1 * w]
    BY <2>2, <2>4
  <2>6. PICK u \in Nat : u = (k - 1) * w
    BY <2>4, RoundsInside
  <2>7. /\ k * w = u + w /\ u + w <= n /\ i1 * w = u
        /\ \A j \in 1 .. w : u + j \in 1 .. n /\ (k - 1) * w + j = u + j
    <3>1. /\ k * w = (k - 1) * w + w /\ (k - 1) * w + w <= n
          /\ \A j \in 1 .. w : (k - 1) * w + j \in 1 .. n
      BY <2>4, RoundsInside
    <3> QED
      BY <2>4, <2>6, <3>1
  <2>8. PICK x \in [1 .. w -> Int], y \in [1 .. w -> Int], z \in [1 .. w -> Int] :
          x = row(i1) /\ y = [j \in 1 .. w |-> s[u + j]] /\ z = row(k)
    <3>1. [j \in 1 .. w |-> s[u + j]] \in [1 .. w -> Int]
      BY <2>7
    <3>2. row(i1) \in [1 .. w -> Int] /\ row(k) \in [1 .. w -> Int]
      BY <1>3
    <3> QED
      BY <3>1, <3>2
  <2>9. ASSUME NEW j \in 1 .. w PROVE z[j] = (x[j] + y[j]) % Modulus
    <3>1. B[j][k] = (B[j][k - 1] + Column(s, w, q, j)[k]) % Modulus
      BY <1>0, <2>4 DEF Accumulates
    <3>2. Column(s, w, q, j)[k] = s[u + j]
      BY <2>4, <2>7 DEF Column
    <3>3. z[j] = B[j][k] /\ x[j] = B[j][i1] /\ y[j] = s[u + j]
      BY <1>3, <2>8
    <3> QED
      BY <2>4, <3>1, <3>2, <3>3
  <2>10. KE!Sum(z) = (KE!Sum(x) + KE!Sum(y)) % Modulus
    <3>1. Adds(x, y, w, z) /\ w \in Nat
      BY <2>9 DEF Adds
    <3> QED
      BY <3>1, SumOfBoth
  <2>11. a[u + w] = (a[u] + KE!Sum(y)) % Modulus
    <3>1. IsRun(s, n, u, w, y, u + w)
      BY <2>7, <2>8 DEF IsRun
    <3>2. GoesOn(a, u, y, u + w)
      BY <3>1, SumGoesOn
    <3> QED
      BY <3>2 DEF GoesOn
  <2>12. KE!Sum(row(k)) = a[k * w]
    BY <2>5, <2>7, <2>8, <2>10, <2>11
  <2> QED
    BY <2>12
<1>5. KE!Sum(row(q)) = a[q * w]
  <2> HIDE DEF row
  <2> QED
    BY <1>4
<1> QED
  BY <1>5 DEF Agree

(* Several accumulators and the loop for what is left have the sum of one. *)
LEMMA SumWaysIsSum ==
  ASSUME KE!KernelBounds, NEW n \in Nat, NEW s \in [1 .. n -> Int], NEW w \in Nat \ {0}
  PROVE  KE!SumWays(s, w) = KE!Sum(s)
<1>1. Modulus \in Nat \ {0}
  BY DEF KE!KernelBounds, Modulus
<1>2. PICK q \in Nat : /\ n - (n % w) = q * w /\ q * w <= n
                       /\ (n - (n % w)) \div w = q
  BY WholeRounds
<1>3. PICK limit \in Nat : limit = q * w /\ limit <= n
  BY <1>2
<1>4. s \in Seq(Int) /\ Len(s) = n
  OBVIOUS
<1>5. PICK a : SumsTo(s, n, a)
  BY SumUnwinds
<1> DEFINE B == [j \in 1 .. w |-> CHOOSE b : SumsTo(Column(s, w, q, j), q, b)]
           accs == [j \in 1 .. w |-> KE!Sum(Column(s, w, q, j))]
           t == KE!Sum(accs)
           rest == SubSeq(s, limit + 1, n)
<1>6. \A j \in 1 .. w : SumsTo(Column(s, w, q, j), q, B[j])
  <2> SUFFICES ASSUME NEW j \in 1 .. w PROVE \E b : SumsTo(Column(s, w, q, j), q, b)
    OBVIOUS
  <2>1. Column(s, w, q, j) \in [1 .. q -> Int]
    BY <1>2, ColumnValues
  <2> QED
    BY <2>1, SumUnwinds
<1>7. KE!SumWays(s, w) = KE!Sum(<<t>> \o rest)
  BY <1>2, <1>3, <1>4 DEF KE!SumWays, Column
<1> HIDE DEF B
<1>8. t = a[limit]
  <2>1. KE!Sum([j \in 1 .. w |-> B[j][q]]) = a[q * w]
    <3>1. RowsAccumulate(s, w, q, B) /\ Accumulates(s, n, a)
      BY <1>5, <1>6 DEF RowsAccumulate, SumsTo
    <3>2. Agree(w, q, B, a)
      BY <1>2, <3>1, RoundsAgree
    <3> QED
      BY <3>2 DEF Agree
  <2>2. [j \in 1 .. w |-> B[j][q]] = accs
    BY <1>6 DEF SumsTo
  <2> QED
    BY <1>3, <2>1, <2>2
<1> HIDE DEF t, accs
<1>9. PICK base \in 0 .. Modulus - 1 : base = t
  BY <1>1, <1>3, <1>5, <1>8 DEF SumsTo, Accumulates
<1>10. PICK m \in Nat : m = n - limit
  BY <1>3
<1>11. PICK y \in [1 .. m -> Int] : y = rest /\ \A k \in 1 .. m : y[k] = s[limit + k]
  <2>1. \A k \in 1 .. m : limit + k \in 1 .. n
    BY <1>3, <1>10
  <2>2. rest = [k \in 1 .. m |-> s[limit + k]]
    <3>1. rest = [k \in 1 .. n - (limit + 1) + 1 |-> s[k + (limit + 1) - 1]]
      BY <1>3, <1>4 DEF SubSeq
    <3>2. n - (limit + 1) + 1 = m
      BY <1>3, <1>10
    <3>3. \A k \in 1 .. m : k + (limit + 1) - 1 = limit + k
      BY <1>3
    <3> QED
      BY <3>1, <3>2, <3>3
  <2>3. [k \in 1 .. m |-> s[limit + k]] \in [1 .. m -> Int]
    BY <2>1
  <2> QED
    BY <2>2, <2>3
<1> HIDE DEF rest
<1>12. a[limit + m] = (a[limit] + KE!Sum(y)) % Modulus
  <2>1. Accumulates(s, n, a)
    BY <1>5 DEF SumsTo
  <2>2. IsRun(s, n, limit, m, y, limit + m)
    BY <1>3, <1>10, <1>11 DEF IsRun
  <2>3. GoesOn(a, limit, y, limit + m)
    BY <2>1, <2>2, SumGoesOn
  <2> QED
    BY <2>3 DEF GoesOn
<1>13. PICK z \in [1 .. 1 + m -> Int] :
         z = <<t>> \o rest /\ z[1] = base /\ \A k \in 1 .. m : y[k] = z[1 + k]
  <2>1. y \in Seq(Int) /\ Len(y) = m /\ base \in Int
    OBVIOUS
  <2>2. <<base>> \o y = [k \in 1 .. 1 + m |-> IF k <= 1 THEN <<base>>[k] ELSE y[k - 1]]
    BY <2>1
  <2>3. \A k \in 1 .. 1 + m : (IF k <= 1 THEN <<base>>[k] ELSE y[k - 1]) \in Int
    BY <2>1
  <2>4. <<base>> \o y \in [1 .. 1 + m -> Int]
    BY <2>2, <2>3
  <2>5. (<<base>> \o y)[1] = base
    BY <2>1
  <2>6. \A k \in 1 .. m : (<<base>> \o y)[1 + k] = y[k]
    BY <2>1
  <2> QED
    BY <1>9, <1>11, <2>4, <2>5, <2>6
<1>14. PICK c : SumsTo(z, 1 + m, c)
  BY SumUnwinds
<1>15. c[1 + m] = (c[1] + KE!Sum(y)) % Modulus
  <2>1. Accumulates(z, 1 + m, c)
    BY <1>14 DEF SumsTo
  <2>2. IsRun(z, 1 + m, 1, m, y, 1 + m)
    <3>1. {1 + m, 1, m, 1 + m} \subseteq Nat /\ 1 + m <= 1 + m
      OBVIOUS
    <3>2. \A k \in 1 .. m : y[k] = z[1 + k]
      BY <1>13
    <3> QED
      BY <3>1, <3>2 DEF IsRun
  <2>3. GoesOn(c, 1, y, 1 + m)
    BY <2>1, <2>2, SumGoesOn
  <2> QED
    BY <2>3 DEF GoesOn
<1>16. c[1] = base
  <2>1. 1 \in 1 .. 1 + m /\ 1 - 1 = 0
    OBVIOUS
  <2>2. c[1] = (c[0] + z[1]) % Modulus /\ c[0] = 0
    BY <1>14, <2>1 DEF SumsTo, Accumulates
  <2>3. c[1] = (0 + base) % Modulus
    BY <1>13, <2>2
  <2>4. 0 + base = base
    BY <1>1
  <2>5. base % Modulus = base
    BY <1>1, SmallRemainder
  <2> QED
    BY <2>3, <2>4, <2>5, Zenon
<1>17. limit + m = n
  BY <1>3, <1>10
<1>18. KE!Sum(z) = c[1 + m] /\ KE!Sum(s) = a[n]
  BY <1>5, <1>14 DEF SumsTo
<1> QED
  BY <1>7, <1>8, <1>9, <1>12, <1>13, <1>15, <1>16, <1>17, <1>18

(* However many accumulators, for streams of any length and accumulators   *)
(* of any width, the sum is that of one.                                   *)
THEOREM SumsAlwaysAgree == MCSpec => []SumsAgree
<1> SUFFICES ASSUME KE!KernelBounds PROVE MCSpec => []SumsAgree
  BY StructureConstants
<1> DEFINE Inv == part = "kernels" => \E n \in Nat : data \in [1 .. n -> Int]
<1>1. MCInit => Inv
  <2> SUFFICES ASSUME KE!Init PROVE \E n \in Nat : data \in [1 .. n -> Int]
    BY DEF MCInit
  <2>1. CASE data = <<>>
    <3>1. <<>> \in [1 .. 0 -> Int]
      OBVIOUS
    <3> QED
      BY <2>1, <3>1
  <2>2. CASE data \in KE!Streams
    <3>1. Modulus \in Nat \ {0} /\ MaxLength \in Nat
      BY DEF KE!KernelBounds, Modulus
    <3>2. PICK n \in 0 .. MaxLength, largest \in 0 .. MaxLength :
            data = [k \in 1 .. n |-> IF k = largest THEN Modulus - 1 ELSE k % Modulus]
      BY <2>2 DEF KE!Streams, KE!Wrap, Modulus
    <3>3. \A k \in 1 .. n : (IF k = largest THEN Modulus - 1 ELSE k % Modulus) \in Int
      BY <3>1
    <3>4. data \in [1 .. n -> Int] /\ n \in Nat
      BY <3>1, <3>2, <3>3
    <3> QED
      BY <3>4
  <2> QED
    BY <2>1, <2>2 DEF KE!Init
<1>2. Inv /\ [MCNext]_all => Inv'
  BY DEF MCNext, all, kernels
<1>3. Inv => SumsAgree
  BY SumWaysIsSum DEF SumsAgree, KE!SumsAgree
<1> QED
  BY <1>1, <1>2, <1>3, PTL DEF MCSpec
===============================================================================
