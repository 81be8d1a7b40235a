------------------------ MODULE BroadcastRosterProofs ------------------------
(* Proofs about BroadcastRoster, for any readers, slots and frame sizes.   *)
EXTENDS BroadcastRoster, TLAPS

(* TypeOK, by the structure the variables belong to.                       *)
HeaderTypes ==
  /\ producer_cursor \in Nat /\ commit_cursor \in Nat
  /\ frame_ends \in SUBSET Nat

RosterTypes ==
  /\ active \in [Slots -> BOOLEAN]
  /\ cursor \in [Slots -> Nat]
  /\ heartbeat_ts \in [Slots -> {"fresh", "old", "expired"}]
  /\ generation_id \in [Slots -> Nat]

ProducerTypes ==
  /\ ppc \in {"idle", "publish", "commit"} \cup Scanning
  /\ slot \in Slots
  /\ target_cursor \in Nat /\ min_c \in Nat /\ cached_min_cursor \in Nat

ReaderTypes ==
  /\ rpc \in [Readers -> {"idle", "advCursor", "advHeartbeat"} \cup Registering]
  /\ rscan \in [Readers -> Slots]
  /\ slot_index \in [Readers -> Slots \cup {NoSlot}]
  /\ reader_gen \in [Readers -> Nat]
  /\ reader_cursor \in [Readers -> Nat]
  /\ polled \in [Readers -> Nat]

LEMMA TypeGroups == TypeOK <=> HeaderTypes /\ RosterTypes /\ ProducerTypes /\ ReaderTypes
BY DEF TypeOK, HeaderTypes, RosterTypes, ProducerTypes, ReaderTypes

LEMMA TypeStep ==
  ASSUME TypeOK, [Next]_vars
  PROVE  TypeOK'
<1> USE RosterAssumption DEF Slots, NoSlot, header, roster, producer, reader, TypeOK, HeaderTypes, RosterTypes, ProducerTypes, ReaderTypes, Scanning, Registering
<1>1. ASSUME NEW size \in FrameSizes, ReserveFits(size)
      PROVE  TypeOK'
  <2>1. ProducerTypes'
    BY <1>1 DEF ReserveFits
  <2>2. HeaderTypes' /\ RosterTypes' /\ ReaderTypes'
    BY <1>1 DEF ReserveFits
  <2>3. QED
    BY <2>1, <2>2, TypeGroups
<1>2. ASSUME NEW size \in FrameSizes, ReserveScans(size)
      PROVE  TypeOK'
  <2>1. ProducerTypes'
    BY <1>2 DEF ReserveScans, StartPass, ReadClock
  <2>2. RosterTypes'
    BY <1>2 DEF ReserveScans, StartPass, ReadClock
  <2>3. HeaderTypes' /\ ReaderTypes'
    BY <1>2 DEF ReserveScans, StartPass, ReadClock
  <2>4. QED
    BY <2>1, <2>2, <2>3, TypeGroups
<1>3. CASE ScanActive
  <2>1. ProducerTypes'
    BY <1>3 DEF ScanActive, NextSlot
  <2>2. HeaderTypes' /\ RosterTypes' /\ ReaderTypes'
    BY <1>3 DEF ScanActive, NextSlot
  <2>3. QED
    BY <2>1, <2>2, TypeGroups
<1>4. CASE ScanHeartbeat
  BY <1>4 DEF ScanHeartbeat
<1>5. CASE ScanEvict
  <2>1. ProducerTypes'
    BY <1>5 DEF ScanEvict, NextSlot
  <2>2. RosterTypes'
    BY <1>5 DEF ScanEvict, NextSlot
  <2>3. HeaderTypes' /\ ReaderTypes'
    BY <1>5 DEF ScanEvict, NextSlot
  <2>4. QED
    BY <2>1, <2>2, <2>3, TypeGroups
<1>6. CASE ScanCursor
  <2>1. ProducerTypes'
    BY <1>6 DEF ScanCursor, NextSlot
  <2>2. HeaderTypes' /\ RosterTypes' /\ ReaderTypes'
    BY <1>6 DEF ScanCursor, NextSlot
  <2>3. QED
    BY <2>1, <2>2, TypeGroups
<1>7. CASE ScanFits
  BY <1>7 DEF ScanFits
<1>8. ASSUME NEW readsClock \in BOOLEAN, ScanAgain(readsClock)
      PROVE  TypeOK'
  <2>1. heartbeat_ts' \in [Slots -> {"fresh", "old", "expired"}]
    BY <1>8 DEF ScanAgain, ReadClock
  <2>2. ProducerTypes'
    BY <1>8 DEF ScanAgain, StartPass
  <2>3. HeaderTypes' /\ ReaderTypes' /\ UNCHANGED <<active, cursor, generation_id>>
    BY <1>8 DEF ScanAgain
  <2>4. QED
    BY <2>1, <2>2, <2>3
<1>9. CASE Publish
  BY <1>9 DEF Publish
<1>10. CASE Commit
  BY <1>10 DEF Commit
<1>11. ASSUME NEW r \in Readers, RegisterBegin(r)
      PROVE  TypeOK'
  BY <1>11 DEF RegisterBegin
<1>12. ASSUME NEW r \in Readers, RegisterClaim(r)
      PROVE  TypeOK'
  BY <1>12 DEF RegisterClaim
<1>13. ASSUME NEW r \in Readers, RegisterNextSlot(r)
      PROVE  TypeOK'
  BY <1>13 DEF RegisterNextSlot
<1>14. ASSUME NEW r \in Readers, RegisterExhausted(r)
      PROVE  TypeOK'
  <2>1. ReaderTypes'
    <3>1. rpc' \in [Readers -> {"idle", "advCursor", "advHeartbeat"} \cup Registering]
      BY <1>14 DEF RegisterExhausted
    <3>2. rscan' \in [Readers -> Slots]
      BY <1>14 DEF RegisterExhausted
    <3>3. QED
      BY <1>14, <3>1, <3>2 DEF RegisterExhausted
  <2>2. HeaderTypes' /\ RosterTypes' /\ ProducerTypes'
    BY <1>14 DEF RegisterExhausted
  <2>3. QED
    BY <2>1, <2>2, TypeGroups
<1>15. ASSUME NEW r \in Readers, RegisterGeneration(r)
      PROVE  TypeOK'
  <2>1. rscan[r] \in Slots /\ generation_id[rscan[r]] + 1 \in Nat
    OBVIOUS
  <2>2. QED
    BY <1>15, <2>1 DEF RegisterGeneration
<1>16. ASSUME NEW r \in Readers, RegisterCursor(r)
      PROVE  TypeOK'
  BY <1>16 DEF RegisterCursor
<1>17. ASSUME NEW r \in Readers, RegisterHeartbeat(r)
      PROVE  TypeOK'
  BY <1>17 DEF RegisterHeartbeat
<1>18. ASSUME NEW r \in Readers, UnregisterReader(r)
      PROVE  TypeOK'
  BY <1>18 DEF UnregisterReader
<1>19. ASSUME NEW r \in Readers, Crash(r)
      PROVE  TypeOK'
  <2>1. ReaderTypes'
    <3>1. rpc' \in [Readers -> {"idle", "advCursor", "advHeartbeat"} \cup Registering]
      BY <1>19 DEF Crash
    <3>2. rscan' \in [Readers -> Slots] /\ slot_index' \in [Readers -> Slots \cup {NoSlot}]
      BY <1>19 DEF Crash
    <3>3. reader_gen' \in [Readers -> Nat] /\ polled' \in [Readers -> Nat]
      BY <1>19 DEF Crash
    <3>4. QED
      BY <1>19, <3>1, <3>2, <3>3 DEF Crash
  <2>2. HeaderTypes' /\ RosterTypes' /\ ProducerTypes'
    BY <1>19 DEF Crash
  <2>3. QED
    BY <2>1, <2>2, TypeGroups
<1>20. ASSUME NEW r \in Readers, Poll(r)
      PROVE  TypeOK'
  BY <1>20 DEF Poll
<1>21. ASSUME NEW r \in Readers, Advance(r)
      PROVE  TypeOK'
  BY <1>21 DEF Advance
<1>22. ASSUME NEW r \in Readers, AdvanceCursor(r)
      PROVE  TypeOK'
  BY <1>22 DEF AdvanceCursor
<1>23. ASSUME NEW r \in Readers, AdvanceHeartbeat(r)
      PROVE  TypeOK'
  BY <1>23 DEF AdvanceHeartbeat
<1>24. ASSUME NEW s \in Slots, HeartbeatAges(s)
      PROVE  TypeOK'
  BY <1>24 DEF HeartbeatAges
<1>25. CASE UNCHANGED vars
  BY <1>25 DEF vars
<1>26. QED
  BY <1>1, <1>2, <1>3, <1>4, <1>5, <1>6, <1>7, <1>8, <1>9, <1>10, <1>11, <1>12, <1>13, <1>14, <1>15, <1>16, <1>17, <1>18, <1>19, <1>20, <1>21, <1>22, <1>23, <1>24, <1>25
     DEF Next, Reserve, ScanStep, RegisterStep, AdvanceStep

(* Only one reader's slot changes at a time.                               *)
LEMMA DisjointStep ==
  ASSUME NEW r \in Readers, HoldersDisjoint,
         \A q \in Readers : q # r => HeldSlot'[q] = HeldSlot[q],
         HeldSlot'[r] \in {HeldSlot[r], NoSlot} \/ \A q \in Readers : HeldSlot[q] # HeldSlot'[r]
  PROVE  HoldersDisjoint'
BY Zenon DEF HoldersDisjoint

LEMMA OwnershipStep ==
  ASSUME Disciplined, TypeOK, OwnershipInv, CursorInv, [Next]_vars
  PROVE  OwnershipInv'
<1> USE RosterAssumption DEF Slots, NoSlot, header, roster, producer, reader, TypeOK, OwnershipInv, Scanning, Registering, Disciplined, MayRegister, MayReserve
<1>1. ASSUME NEW size \in FrameSizes, ReserveFits(size)
      PROVE  OwnershipInv'
  BY <1>1 DEF ReserveFits, PhasesDisjoint, HoldersDisjoint, HoldsSlot, HeldSlot, Claiming
<1>2. ASSUME NEW size \in FrameSizes, ReserveScans(size)
      PROVE  OwnershipInv'
  BY <1>2 DEF ReserveScans, StartPass, ReadClock, PhasesDisjoint, HoldersDisjoint, HoldsSlot, HeldSlot, Claiming
<1>3. CASE ScanActive
  BY <1>3 DEF ScanActive, NextSlot, PhasesDisjoint, HoldersDisjoint, HoldsSlot, HeldSlot, Claiming
<1>4. CASE ScanHeartbeat
  BY <1>4 DEF ScanHeartbeat, PhasesDisjoint, HoldersDisjoint, HoldsSlot, HeldSlot, Claiming
<1>5. CASE ScanEvict
  BY SMTT(30), <1>5 DEF ScanEvict, NextSlot, PhasesDisjoint, HoldersDisjoint, HoldsSlot, HeldSlot, Claiming
<1>6. CASE ScanCursor
  BY <1>6 DEF ScanCursor, NextSlot, PhasesDisjoint, HoldersDisjoint, HoldsSlot, HeldSlot, Claiming
<1>7. CASE ScanFits
  BY <1>7 DEF ScanFits, PhasesDisjoint, HoldersDisjoint, HoldsSlot, HeldSlot, Claiming
<1>8. ASSUME NEW readsClock \in BOOLEAN, ScanAgain(readsClock)
      PROVE  OwnershipInv'
  BY SMTT(30), <1>8 DEF ScanAgain, StartPass, ReadClock, PhasesDisjoint, HoldersDisjoint, HoldsSlot, HeldSlot, Claiming
<1>9. CASE Publish
  BY <1>9 DEF Publish, CursorInv, PhasesDisjoint, HoldersDisjoint, HoldsSlot, HeldSlot, Claiming
<1>10. CASE Commit
  BY <1>10 DEF Commit, PhasesDisjoint, HoldersDisjoint, HoldsSlot, HeldSlot, Claiming
<1>11. ASSUME NEW r \in Readers, RegisterBegin(r)
      PROVE  OwnershipInv'
  <2>1. PhasesDisjoint'
    BY <1>11 DEF RegisterBegin, PhasesDisjoint, HoldsSlot
  <2>2. HoldersDisjoint'
    <3>1. \A q \in Readers : q # r => HeldSlot'[q] = HeldSlot[q]
      BY <1>11 DEF RegisterBegin, HeldSlot, Claiming
    <3>2. HeldSlot'[r] \in {HeldSlot[r], NoSlot}
      BY <1>11 DEF RegisterBegin, HeldSlot, Claiming
    <3>3. QED
      BY <3>1, <3>2, DisjointStep
  <2>3. ASSUME NEW q \in Readers
        PROVE  HoldsSlot(q)'
    <3>1. CASE q = r
      BY <1>11, <3>1 DEF RegisterBegin, HoldsSlot, HeldSlot, Claiming, PhasesDisjoint
    <3>2. CASE q # r
      BY <1>11, <3>2 DEF RegisterBegin, HoldsSlot, HoldersDisjoint, HeldSlot, Claiming
    <3>3. QED
      BY <3>1, <3>2
  <2>4. QED
    BY <2>1, <2>2, <2>3
<1>12. ASSUME NEW r \in Readers, RegisterClaim(r)
      PROVE  OwnershipInv'
  <2>1. PhasesDisjoint'
    BY <1>12 DEF RegisterClaim, PhasesDisjoint, HoldsSlot
  <2>2. HoldersDisjoint'
    <3>1. \A q \in Readers : q # r => HeldSlot'[q] = HeldSlot[q]
      BY <1>12 DEF RegisterClaim, HeldSlot, Claiming
    <3>2. \A q \in Readers : HeldSlot[q] # HeldSlot'[r]
      BY SMTT(30), <1>12 DEF RegisterClaim, HeldSlot, Claiming, HoldsSlot, PhasesDisjoint
    <3>3. QED
      BY <3>1, <3>2, DisjointStep
  <2>3. ASSUME NEW q \in Readers
        PROVE  HoldsSlot(q)'
    <3>1. CASE q = r
      BY <1>12, <3>1 DEF RegisterClaim, HoldsSlot, HeldSlot, Claiming, PhasesDisjoint
    <3>2. CASE q # r
      BY SMTT(30), <1>12, <3>2 DEF RegisterClaim, HoldsSlot, HoldersDisjoint, HeldSlot, Claiming
    <3>3. QED
      BY <3>1, <3>2
  <2>4. QED
    BY <2>1, <2>2, <2>3
<1>13. ASSUME NEW r \in Readers, RegisterNextSlot(r)
      PROVE  OwnershipInv'
  <2>1. PhasesDisjoint'
    BY <1>13 DEF RegisterNextSlot, PhasesDisjoint, HoldsSlot
  <2>2. HoldersDisjoint'
    <3>1. \A q \in Readers : q # r => HeldSlot'[q] = HeldSlot[q]
      BY <1>13 DEF RegisterNextSlot, HeldSlot, Claiming
    <3>2. HeldSlot'[r] \in {HeldSlot[r], NoSlot}
      BY <1>13 DEF RegisterNextSlot, HeldSlot, Claiming
    <3>3. QED
      BY <3>1, <3>2, DisjointStep
  <2>3. ASSUME NEW q \in Readers
        PROVE  HoldsSlot(q)'
    <3>1. CASE q = r
      BY <1>13, <3>1 DEF RegisterNextSlot, HoldsSlot, HeldSlot, Claiming, PhasesDisjoint
    <3>2. CASE q # r
      BY <1>13, <3>2 DEF RegisterNextSlot, HoldsSlot, HoldersDisjoint, HeldSlot, Claiming
    <3>3. QED
      BY <3>1, <3>2
  <2>4. QED
    BY <2>1, <2>2, <2>3
<1>14. ASSUME NEW r \in Readers, RegisterExhausted(r)
      PROVE  OwnershipInv'
  <2>1. PhasesDisjoint'
    BY <1>14 DEF RegisterExhausted, PhasesDisjoint, HoldsSlot
  <2>2. HoldersDisjoint'
    <3>1. \A q \in Readers : q # r => HeldSlot'[q] = HeldSlot[q]
      BY <1>14 DEF RegisterExhausted, HeldSlot, Claiming
    <3>2. HeldSlot'[r] \in {HeldSlot[r], NoSlot}
      BY <1>14 DEF RegisterExhausted, HeldSlot, Claiming
    <3>3. QED
      BY <3>1, <3>2, DisjointStep
  <2>3. ASSUME NEW q \in Readers
        PROVE  HoldsSlot(q)'
    <3>1. CASE q = r
      BY <1>14, <3>1 DEF RegisterExhausted, HoldsSlot, HeldSlot, Claiming, PhasesDisjoint
    <3>2. CASE q # r
      BY <1>14, <3>2 DEF RegisterExhausted, HoldsSlot, HoldersDisjoint, HeldSlot, Claiming
    <3>3. QED
      BY <3>1, <3>2
  <2>4. QED
    BY <2>1, <2>2, <2>3
<1>15. ASSUME NEW r \in Readers, RegisterGeneration(r)
      PROVE  OwnershipInv'
  <2>1. PhasesDisjoint'
    BY <1>15 DEF RegisterGeneration, PhasesDisjoint, HoldsSlot
  <2>2. HoldersDisjoint'
    <3>1. \A q \in Readers : q # r => HeldSlot'[q] = HeldSlot[q]
      BY <1>15 DEF RegisterGeneration, HeldSlot, Claiming
    <3>2. HeldSlot'[r] \in {HeldSlot[r], NoSlot}
      BY <1>15 DEF RegisterGeneration, HeldSlot, Claiming
    <3>3. QED
      BY <3>1, <3>2, DisjointStep
  <2>3. ASSUME NEW q \in Readers
        PROVE  HoldsSlot(q)'
    <3>1. CASE q = r
      BY <1>15, <3>1 DEF RegisterGeneration, HoldsSlot, HeldSlot, Claiming, PhasesDisjoint
    <3>2. CASE q # r
      BY SMTT(30), <1>15, <3>2 DEF RegisterGeneration, HoldsSlot, HoldersDisjoint, HeldSlot, Claiming
    <3>3. QED
      BY <3>1, <3>2
  <2>4. QED
    BY <2>1, <2>2, <2>3
<1>16. ASSUME NEW r \in Readers, RegisterCursor(r)
      PROVE  OwnershipInv'
  <2>1. PhasesDisjoint'
    BY <1>16 DEF RegisterCursor, PhasesDisjoint, HoldsSlot
  <2>2. HoldersDisjoint'
    <3>1. \A q \in Readers : q # r => HeldSlot'[q] = HeldSlot[q]
      BY <1>16 DEF RegisterCursor, HeldSlot, Claiming
    <3>2. HeldSlot'[r] \in {HeldSlot[r], NoSlot}
      BY <1>16 DEF RegisterCursor, HeldSlot, Claiming
    <3>3. QED
      BY <3>1, <3>2, DisjointStep
  <2>3. ASSUME NEW q \in Readers
        PROVE  HoldsSlot(q)'
    <3>1. CASE q = r
      BY <1>16, <3>1 DEF RegisterCursor, HoldsSlot, HeldSlot, Claiming, PhasesDisjoint
    <3>2. CASE q # r
      BY <1>16, <3>2 DEF RegisterCursor, HoldsSlot, HoldersDisjoint, HeldSlot, Claiming
    <3>3. QED
      BY <3>1, <3>2
  <2>4. QED
    BY <2>1, <2>2, <2>3
<1>17. ASSUME NEW r \in Readers, RegisterHeartbeat(r)
      PROVE  OwnershipInv'
  <2>1. PhasesDisjoint'
    BY <1>17 DEF RegisterHeartbeat, PhasesDisjoint, HoldsSlot
  <2>2. HoldersDisjoint'
    <3>1. \A q \in Readers : q # r => HeldSlot'[q] = HeldSlot[q]
      BY <1>17 DEF RegisterHeartbeat, HeldSlot, Claiming
    <3>2. HeldSlot'[r] \in {HeldSlot[r], NoSlot}
      BY <1>17 DEF RegisterHeartbeat, HeldSlot, Claiming
    <3>3. QED
      BY <3>1, <3>2, DisjointStep
  <2>3. ASSUME NEW q \in Readers
        PROVE  HoldsSlot(q)'
    <3>1. CASE q = r
      BY <1>17, <3>1 DEF RegisterHeartbeat, HoldsSlot, HeldSlot, Claiming, PhasesDisjoint
    <3>2. CASE q # r
      BY <1>17, <3>2 DEF RegisterHeartbeat, HoldsSlot, HoldersDisjoint, HeldSlot, Claiming
    <3>3. QED
      BY <3>1, <3>2
  <2>4. QED
    BY <2>1, <2>2, <2>3
<1>18. ASSUME NEW r \in Readers, UnregisterReader(r)
      PROVE  OwnershipInv'
  <2>1. PhasesDisjoint'
    BY <1>18 DEF UnregisterReader, PhasesDisjoint, HoldsSlot
  <2>2. HoldersDisjoint'
    <3>1. \A q \in Readers : q # r => HeldSlot'[q] = HeldSlot[q]
      BY <1>18 DEF UnregisterReader, HeldSlot, Claiming
    <3>2. HeldSlot'[r] \in {HeldSlot[r], NoSlot}
      BY <1>18 DEF UnregisterReader, HeldSlot, Claiming
    <3>3. QED
      BY <3>1, <3>2, DisjointStep
  <2>3. ASSUME NEW q \in Readers
        PROVE  HoldsSlot(q)'
    <3>1. CASE q = r
      BY <1>18, <3>1 DEF UnregisterReader, HoldsSlot, HeldSlot, Claiming, PhasesDisjoint
    <3>2. CASE q # r
      BY SMTT(30), <1>18, <3>2 DEF UnregisterReader, HoldsSlot, HoldersDisjoint, HeldSlot, Claiming
    <3>3. QED
      BY <3>1, <3>2
  <2>4. QED
    BY <2>1, <2>2, <2>3
<1>19. ASSUME NEW r \in Readers, Crash(r)
      PROVE  OwnershipInv'
  <2>1. PhasesDisjoint'
    BY SMTT(30), <1>19 DEF Crash, PhasesDisjoint, HoldsSlot
  <2>2. HoldersDisjoint'
    <3>1. \A q \in Readers : q # r => HeldSlot'[q] = HeldSlot[q]
      BY <1>19 DEF Crash, HeldSlot, Claiming
    <3>2. HeldSlot'[r] \in {HeldSlot[r], NoSlot}
      BY <1>19 DEF Crash, HeldSlot, Claiming
    <3>3. QED
      BY <3>1, <3>2, DisjointStep
  <2>3. ASSUME NEW q \in Readers
        PROVE  HoldsSlot(q)'
    <3>1. CASE q = r
      BY <1>19, <3>1 DEF Crash, HoldsSlot, HeldSlot, Claiming, PhasesDisjoint
    <3>2. CASE q # r
      BY <1>19, <3>2 DEF Crash, HoldsSlot, HoldersDisjoint, HeldSlot, Claiming
    <3>3. QED
      BY <3>1, <3>2
  <2>4. QED
    BY <2>1, <2>2, <2>3
<1>20. ASSUME NEW r \in Readers, Poll(r)
      PROVE  OwnershipInv'
  <2>1. PhasesDisjoint'
    BY <1>20 DEF Poll, PhasesDisjoint, HoldsSlot
  <2>2. HoldersDisjoint'
    <3>1. \A q \in Readers : q # r => HeldSlot'[q] = HeldSlot[q]
      BY <1>20 DEF Poll, HeldSlot, Claiming
    <3>2. HeldSlot'[r] \in {HeldSlot[r], NoSlot}
      BY <1>20 DEF Poll, HeldSlot, Claiming
    <3>3. QED
      BY <3>1, <3>2, DisjointStep
  <2>3. ASSUME NEW q \in Readers
        PROVE  HoldsSlot(q)'
    <3>1. CASE q = r
      BY <1>20, <3>1 DEF Poll, HoldsSlot, HeldSlot, Claiming, PhasesDisjoint
    <3>2. CASE q # r
      BY <1>20, <3>2 DEF Poll, HoldsSlot, HoldersDisjoint, HeldSlot, Claiming
    <3>3. QED
      BY <3>1, <3>2
  <2>4. QED
    BY <2>1, <2>2, <2>3
<1>21. ASSUME NEW r \in Readers, Advance(r)
      PROVE  OwnershipInv'
  <2>1. PhasesDisjoint'
    BY SMTT(30), <1>21 DEF Advance, PhasesDisjoint, HoldsSlot
  <2>2. HoldersDisjoint'
    <3>1. \A q \in Readers : q # r => HeldSlot'[q] = HeldSlot[q]
      BY <1>21 DEF Advance, HeldSlot, Claiming
    <3>2. HeldSlot'[r] \in {HeldSlot[r], NoSlot}
      BY <1>21 DEF Advance, HeldSlot, Claiming
    <3>3. QED
      BY <3>1, <3>2, DisjointStep
  <2>3. ASSUME NEW q \in Readers
        PROVE  HoldsSlot(q)'
    <3>1. CASE q = r
      BY <1>21, <3>1 DEF Advance, HoldsSlot, HeldSlot, Claiming, PhasesDisjoint
    <3>2. CASE q # r
      <4>1. rpc'[q] = rpc[q] /\ slot_index'[q] = slot_index[q]
        BY <1>21, <3>2 DEF Advance
      <4>2. QED
        BY SMTT(30), <1>21, <4>1 DEF Advance, HoldsSlot, HeldSlot, Claiming
    <3>3. QED
      BY <3>1, <3>2
  <2>4. QED
    BY <2>1, <2>2, <2>3
<1>22. ASSUME NEW r \in Readers, AdvanceCursor(r)
      PROVE  OwnershipInv'
  <2>1. PhasesDisjoint'
    BY <1>22 DEF AdvanceCursor, PhasesDisjoint, HoldsSlot
  <2>2. HoldersDisjoint'
    <3>1. \A q \in Readers : q # r => HeldSlot'[q] = HeldSlot[q]
      BY <1>22 DEF AdvanceCursor, HeldSlot, Claiming
    <3>2. HeldSlot'[r] \in {HeldSlot[r], NoSlot}
      BY <1>22 DEF AdvanceCursor, HeldSlot, Claiming
    <3>3. QED
      BY <3>1, <3>2, DisjointStep
  <2>3. ASSUME NEW q \in Readers
        PROVE  HoldsSlot(q)'
    <3>1. CASE q = r
      BY <1>22, <3>1 DEF AdvanceCursor, HoldsSlot, HeldSlot, Claiming, PhasesDisjoint
    <3>2. CASE q # r
      BY <1>22, <3>2 DEF AdvanceCursor, HoldsSlot, HoldersDisjoint, HeldSlot, Claiming
    <3>3. QED
      BY <3>1, <3>2
  <2>4. QED
    BY <2>1, <2>2, <2>3
<1>23. ASSUME NEW r \in Readers, AdvanceHeartbeat(r)
      PROVE  OwnershipInv'
  <2>1. PhasesDisjoint'
    BY <1>23 DEF AdvanceHeartbeat, PhasesDisjoint, HoldsSlot
  <2>2. HoldersDisjoint'
    <3>1. \A q \in Readers : q # r => HeldSlot'[q] = HeldSlot[q]
      BY <1>23 DEF AdvanceHeartbeat, HeldSlot, Claiming
    <3>2. HeldSlot'[r] \in {HeldSlot[r], NoSlot}
      BY <1>23 DEF AdvanceHeartbeat, HeldSlot, Claiming
    <3>3. QED
      BY <3>1, <3>2, DisjointStep
  <2>3. ASSUME NEW q \in Readers
        PROVE  HoldsSlot(q)'
    <3>1. CASE q = r
      BY <1>23, <3>1 DEF AdvanceHeartbeat, HoldsSlot, HeldSlot, Claiming, PhasesDisjoint
    <3>2. CASE q # r
      BY <1>23, <3>2 DEF AdvanceHeartbeat, HoldsSlot, HoldersDisjoint, HeldSlot, Claiming
    <3>3. QED
      BY <3>1, <3>2
  <2>4. QED
    BY <2>1, <2>2, <2>3
<1>24. ASSUME NEW s \in Slots, HeartbeatAges(s)
      PROVE  OwnershipInv'
  BY <1>24 DEF HeartbeatAges, PhasesDisjoint, HoldersDisjoint, HoldsSlot, HeldSlot, Claiming
<1>25. CASE UNCHANGED vars
  BY <1>25 DEF vars, PhasesDisjoint, HoldersDisjoint, HoldsSlot, HeldSlot, Claiming
<1>26. QED
  BY <1>1, <1>2, <1>3, <1>4, <1>5, <1>6, <1>7, <1>8, <1>9, <1>10, <1>11, <1>12, <1>13, <1>14, <1>15, <1>16, <1>17, <1>18, <1>19, <1>20, <1>21, <1>22, <1>23, <1>24, <1>25
     DEF Next, Reserve, ScanStep, RegisterStep, AdvanceStep

LEMMA CursorStep ==
  ASSUME Disciplined, TypeOK, OwnershipInv, CursorInv, [Next]_vars
  PROVE  CursorInv'
<1> USE RosterAssumption DEF Slots, NoSlot, header, roster, producer, reader, TypeOK, OwnershipInv, PhasesDisjoint, CursorInv, Scanning, Registering
<1>1. ASSUME NEW size \in FrameSizes, ReserveFits(size)
      PROVE  CursorInv'
  BY <1>1 DEF ReserveFits
<1>2. ASSUME NEW size \in FrameSizes, ReserveScans(size)
      PROVE  CursorInv'
  BY <1>2 DEF ReserveScans, StartPass, ReadClock
<1>3. CASE ScanActive
  BY <1>3 DEF ScanActive, NextSlot
<1>4. CASE ScanHeartbeat
  BY <1>4 DEF ScanHeartbeat
<1>5. CASE ScanEvict
  BY <1>5 DEF ScanEvict, NextSlot
<1>6. CASE ScanCursor
  BY <1>6 DEF ScanCursor, NextSlot
<1>7. CASE ScanFits
  BY <1>7 DEF ScanFits
<1>8. ASSUME NEW readsClock \in BOOLEAN, ScanAgain(readsClock)
      PROVE  CursorInv'
  BY <1>8 DEF ScanAgain, StartPass, ReadClock
<1>9. CASE Publish
  BY <1>9 DEF Publish
<1>10. CASE Commit
  BY <1>10 DEF Commit
<1>11. ASSUME NEW r \in Readers, RegisterBegin(r)
      PROVE  CursorInv'
  BY <1>11 DEF RegisterBegin
<1>12. ASSUME NEW r \in Readers, RegisterClaim(r)
      PROVE  CursorInv'
  BY <1>12 DEF RegisterClaim
<1>13. ASSUME NEW r \in Readers, RegisterNextSlot(r)
      PROVE  CursorInv'
  BY <1>13 DEF RegisterNextSlot
<1>14. ASSUME NEW r \in Readers, RegisterExhausted(r)
      PROVE  CursorInv'
  BY <1>14 DEF RegisterExhausted
<1>15. ASSUME NEW r \in Readers, RegisterGeneration(r)
      PROVE  CursorInv'
  BY <1>15 DEF RegisterGeneration
<1>16. ASSUME NEW r \in Readers, RegisterCursor(r)
      PROVE  CursorInv'
  BY <1>16 DEF RegisterCursor
<1>17. ASSUME NEW r \in Readers, RegisterHeartbeat(r)
      PROVE  CursorInv'
  BY <1>17 DEF RegisterHeartbeat
<1>18. ASSUME NEW r \in Readers, UnregisterReader(r)
      PROVE  CursorInv'
  BY <1>18 DEF UnregisterReader
<1>19. ASSUME NEW r \in Readers, Crash(r)
      PROVE  CursorInv'
  BY SMTT(30), <1>19 DEF Crash
<1>20. ASSUME NEW r \in Readers, Poll(r)
      PROVE  CursorInv'
  BY <1>20 DEF Poll
<1>21. ASSUME NEW r \in Readers, Advance(r)
      PROVE  CursorInv'
  BY SMTT(30), <1>21 DEF Advance
<1>22. ASSUME NEW r \in Readers, AdvanceCursor(r)
      PROVE  CursorInv'
  <2>1. ASSUME NEW q \in Readers, rpc[q] = "heartbeat"
        PROVE  rscan[q] # slot_index[r]
    <3>1. q # r
      BY <1>22, <2>1 DEF AdvanceCursor
    <3>2. rscan[q] # NoSlot
      BY <2>1
    <3>3. HeldSlot[q] = rscan[q]
      BY <2>1 DEF HeldSlot, Claiming
    <3>4. HeldSlot[r] = slot_index[r]
      BY <1>22 DEF AdvanceCursor, HeldSlot, Claiming
    <3>5. QED
      BY <3>1, <3>2, <3>3, <3>4 DEF HoldersDisjoint
  <2>2. QED
    BY <1>22, <2>1 DEF AdvanceCursor
<1>23. ASSUME NEW r \in Readers, AdvanceHeartbeat(r)
      PROVE  CursorInv'
  BY <1>23 DEF AdvanceHeartbeat
<1>24. ASSUME NEW s \in Slots, HeartbeatAges(s)
      PROVE  CursorInv'
  BY <1>24 DEF HeartbeatAges
<1>25. CASE UNCHANGED vars
  BY <1>25 DEF vars
<1>26. QED
  BY <1>1, <1>2, <1>3, <1>4, <1>5, <1>6, <1>7, <1>8, <1>9, <1>10, <1>11, <1>12, <1>13, <1>14, <1>15, <1>16, <1>17, <1>18, <1>19, <1>20, <1>21, <1>22, <1>23, <1>24, <1>25
     DEF Next, Reserve, ScanStep, RegisterStep, AdvanceStep

LEMMA MemberStep ==
  ASSUME Disciplined, TypeOK, OwnershipInv, CursorInv, MemberInv, [Next]_vars
  PROVE  MemberInv'
<1> USE RosterAssumption DEF Slots, NoSlot, header, roster, producer, reader, TypeOK, OwnershipInv, PhasesDisjoint, Scanning, Registering
<1>1. ASSUME NEW size \in FrameSizes, ReserveFits(size)
      PROVE  MemberInv'
  <2> SUFFICES ASSUME NEW q \in Members'
               PROVE  Covered(q)'
    BY DEF MemberInv
  <2> q \in Readers
    BY DEF Members
  <2>1. q \in Members
    BY <1>1 DEF ReserveFits, Members, HoldsSlot, HeldSlot, Claiming
  <2>2. Covered(q)
    BY <2>1 DEF MemberInv
  <2>3. QED
    BY SMTT(30), <1>1, <2>1, <2>2 DEF ReserveFits, Covered, WriteLimit, Visited, CursorInv, Members, HoldsSlot, HeldSlot, Claiming
<1>2. ASSUME NEW size \in FrameSizes, ReserveScans(size)
      PROVE  MemberInv'
  <2> SUFFICES ASSUME NEW q \in Members'
               PROVE  Covered(q)'
    BY DEF MemberInv
  <2> q \in Readers
    BY DEF Members
  <2>1. q \in Members
    BY <1>2 DEF ReserveScans, StartPass, ReadClock, Members, HoldsSlot, HeldSlot, Claiming
  <2>2. Covered(q)
    BY <2>1 DEF MemberInv
  <2>3. QED
    BY <1>2, <2>1, <2>2 DEF ReserveScans, StartPass, ReadClock, Covered, WriteLimit, Visited, CursorInv, Members, HoldsSlot, HeldSlot, Claiming
<1>3. CASE ScanActive
  <2> SUFFICES ASSUME NEW q \in Members'
               PROVE  Covered(q)'
    BY DEF MemberInv
  <2> q \in Readers
    BY DEF Members
  <2>1. q \in Members
    BY <1>3 DEF ScanActive, NextSlot, Members, HoldsSlot, HeldSlot, Claiming
  <2>2. Covered(q)
    BY <2>1 DEF MemberInv
  <2>3. slot_index[q] \in Slots /\ slot_index'[q] = slot_index[q]
    BY <1>3, <2>1 DEF ScanActive, Members
  <2>4. slot_index[q] = slot => ppc' = "heartbeat" /\ slot' = slot
    BY <1>3, <2>1 DEF ScanActive, Members
  <2>5. ppc' \in Scanning /\ Visited(slot_index[q])' => Visited(slot_index[q]) \/ slot_index[q] = slot
    <3>1. CASE active[slot]
      BY <1>3, <2>3, <3>1 DEF ScanActive, Visited
    <3>2. CASE ~active[slot]
      BY SMTT(30), <1>3, <2>3, <3>2 DEF ScanActive, NextSlot, Visited
    <3>3. QED
      BY <3>1, <3>2
  <2>6. min_c' <= min_c
    BY <1>3 DEF ScanActive
  <2>7. WriteLimit' = WriteLimit
    BY <1>3 DEF ScanActive, NextSlot, WriteLimit
  <2>8. (ppc' \in Scanning /\ Visited(slot_index[q])' => min_c' <= cursor[slot_index[q]])
    BY <1>3, <2>2, <2>3, <2>4, <2>5, <2>6 DEF ScanActive, Covered, Visited
  <2>9. QED
    BY <1>3, <2>2, <2>3, <2>7, <2>8 DEF ScanActive, Covered
<1>4. CASE ScanHeartbeat
  <2> SUFFICES ASSUME NEW q \in Members'
               PROVE  Covered(q)'
    BY DEF MemberInv
  <2> q \in Readers
    BY DEF Members
  <2>1. q \in Members
    BY <1>4 DEF ScanHeartbeat, Members, HoldsSlot, HeldSlot, Claiming
  <2>2. Covered(q)
    BY <2>1 DEF MemberInv
  <2>3. QED
    BY <1>4, <2>1, <2>2 DEF ScanHeartbeat, Covered, WriteLimit, Visited, CursorInv, Members, HoldsSlot, HeldSlot, Claiming
<1>5. CASE ScanEvict
  <2> SUFFICES ASSUME NEW q \in Members'
               PROVE  Covered(q)'
    BY DEF MemberInv
  <2> q \in Readers
    BY DEF Members
  <2>1. q \in Members
    BY <1>5 DEF ScanEvict, NextSlot, Members, HoldsSlot, HeldSlot, Claiming
  <2>2. Covered(q)
    BY <2>1 DEF MemberInv
  <2>3. slot_index[q] \in Slots /\ slot_index'[q] = slot_index[q]
    BY <1>5, <2>1 DEF ScanEvict, Members
  <2>4. slot_index[q] # slot
    BY <1>5, <2>1 DEF ScanEvict, Members
  <2>5. ppc' \in Scanning /\ Visited(slot_index[q])' => Visited(slot_index[q]) \/ slot_index[q] = slot
    BY SMTT(30), <1>5, <2>3 DEF ScanEvict, NextSlot, Visited
  <2>6. min_c' <= min_c
    BY <1>5 DEF ScanEvict
  <2>7. WriteLimit' = WriteLimit
    BY <1>5 DEF ScanEvict, NextSlot, WriteLimit
  <2>8. (ppc' \in Scanning /\ Visited(slot_index[q])' => min_c' <= cursor[slot_index[q]])
    BY <1>5, <2>2, <2>3, <2>4, <2>5, <2>6 DEF ScanEvict, Covered, Visited
  <2>9. QED
    BY <1>5, <2>2, <2>3, <2>7, <2>8 DEF ScanEvict, Covered
<1>6. CASE ScanCursor
  <2> SUFFICES ASSUME NEW q \in Members'
               PROVE  Covered(q)'
    BY DEF MemberInv
  <2> q \in Readers
    BY DEF Members
  <2>1. q \in Members
    BY <1>6 DEF ScanCursor, NextSlot, Members, HoldsSlot, HeldSlot, Claiming
  <2>2. Covered(q)
    BY <2>1 DEF MemberInv
  <2>3. slot_index[q] \in Slots /\ slot_index'[q] = slot_index[q]
    BY <1>6, <2>1 DEF ScanCursor, Members
  <2>4. slot_index[q] = slot => min_c' <= cursor[slot]
    BY SMTT(30), <1>6, <2>1 DEF ScanCursor, Members
  <2>5. ppc' \in Scanning /\ Visited(slot_index[q])' => Visited(slot_index[q]) \/ slot_index[q] = slot
    BY SMTT(30), <1>6, <2>3 DEF ScanCursor, NextSlot, Visited
  <2>6. min_c' <= min_c
    BY <1>6 DEF ScanCursor
  <2>7. WriteLimit' = WriteLimit
    BY <1>6 DEF ScanCursor, NextSlot, WriteLimit
  <2>8. (ppc' \in Scanning /\ Visited(slot_index[q])' => min_c' <= cursor[slot_index[q]])
    BY SMTT(30), <1>6, <2>2, <2>3, <2>4, <2>5, <2>6 DEF ScanCursor, Covered, Visited
  <2>9. QED
    BY <1>6, <2>2, <2>3, <2>7, <2>8 DEF ScanCursor, Covered
<1>7. CASE ScanFits
  <2> SUFFICES ASSUME NEW q \in Members'
               PROVE  Covered(q)'
    BY DEF MemberInv
  <2> q \in Readers
    BY DEF Members
  <2>1. q \in Members
    BY <1>7 DEF ScanFits, Members, HoldsSlot, HeldSlot, Claiming
  <2>2. Covered(q)
    BY <2>1 DEF MemberInv
  <2>3. QED
    BY SMTT(30), <1>7, <2>1, <2>2 DEF ScanFits, Covered, WriteLimit, Visited, CursorInv, Members, HoldsSlot, HeldSlot, Claiming
<1>8. ASSUME NEW readsClock \in BOOLEAN, ScanAgain(readsClock)
      PROVE  MemberInv'
  <2> SUFFICES ASSUME NEW q \in Members'
               PROVE  Covered(q)'
    BY DEF MemberInv
  <2> q \in Readers
    BY DEF Members
  <2>1. q \in Members
    BY <1>8 DEF ScanAgain, StartPass, ReadClock, Members, HoldsSlot, HeldSlot, Claiming
  <2>2. Covered(q)
    BY <2>1 DEF MemberInv
  <2>3. QED
    BY SMTT(30), <1>8, <2>1, <2>2 DEF ScanAgain, StartPass, ReadClock, Covered, WriteLimit, Visited, CursorInv, Members, HoldsSlot, HeldSlot, Claiming
<1>9. CASE Publish
  <2> SUFFICES ASSUME NEW q \in Members'
               PROVE  Covered(q)'
    BY DEF MemberInv
  <2> q \in Readers
    BY DEF Members
  <2>1. q \in Members
    BY <1>9 DEF Publish, Members, HoldsSlot, HeldSlot, Claiming
  <2>2. Covered(q)
    BY <2>1 DEF MemberInv
  <2>3. QED
    BY <1>9, <2>1, <2>2 DEF Publish, Covered, WriteLimit, Visited, CursorInv, Members, HoldsSlot, HeldSlot, Claiming
<1>10. CASE Commit
  <2> SUFFICES ASSUME NEW q \in Members'
               PROVE  Covered(q)'
    BY DEF MemberInv
  <2> q \in Readers
    BY DEF Members
  <2>1. q \in Members
    BY <1>10 DEF Commit, Members, HoldsSlot, HeldSlot, Claiming
  <2>2. Covered(q)
    BY <2>1 DEF MemberInv
  <2>3. QED
    BY <1>10, <2>1, <2>2 DEF Commit, Covered, WriteLimit, Visited, CursorInv, Members, HoldsSlot, HeldSlot, Claiming
<1>11. ASSUME NEW r \in Readers, RegisterBegin(r)
      PROVE  MemberInv'
  <2> SUFFICES ASSUME NEW q \in Members'
               PROVE  Covered(q)'
    BY DEF MemberInv
  <2> q \in Readers
    BY DEF Members
  <2>1. q \in Members
    BY <1>11 DEF RegisterBegin, Members, HoldsSlot, HoldersDisjoint, HeldSlot, Claiming, MayRegister, Disciplined
  <2>2. Covered(q)
    BY <2>1 DEF MemberInv
  <2>3. q # r
    BY <1>11, <2>1 DEF RegisterBegin, Members
  <2>4. QED
    BY <1>11, <2>2, <2>3 DEF RegisterBegin, Covered, WriteLimit, Visited
<1>12. ASSUME NEW r \in Readers, RegisterClaim(r)
      PROVE  MemberInv'
  <2> SUFFICES ASSUME NEW q \in Members'
               PROVE  Covered(q)'
    BY DEF MemberInv
  <2> q \in Readers
    BY DEF Members
  <2>1. q \in Members
    BY SMTT(30), <1>12 DEF RegisterClaim, Members, HoldsSlot, HoldersDisjoint, HeldSlot, Claiming, MayRegister, Disciplined
  <2>2. Covered(q)
    BY <2>1 DEF MemberInv
  <2>3. QED
    BY <1>12, <2>1, <2>2 DEF RegisterClaim, Covered, WriteLimit, Visited, CursorInv, Members, HoldsSlot, HoldersDisjoint, HeldSlot, Claiming, MayRegister, Disciplined
<1>13. ASSUME NEW r \in Readers, RegisterNextSlot(r)
      PROVE  MemberInv'
  <2> SUFFICES ASSUME NEW q \in Members'
               PROVE  Covered(q)'
    BY DEF MemberInv
  <2> q \in Readers
    BY DEF Members
  <2>1. q \in Members
    BY <1>13 DEF RegisterNextSlot, Members, HoldsSlot, HoldersDisjoint, HeldSlot, Claiming, MayRegister, Disciplined
  <2>2. Covered(q)
    BY <2>1 DEF MemberInv
  <2>3. QED
    BY <1>13, <2>1, <2>2 DEF RegisterNextSlot, Covered, WriteLimit, Visited, CursorInv, Members, HoldsSlot, HoldersDisjoint, HeldSlot, Claiming, MayRegister, Disciplined
<1>14. ASSUME NEW r \in Readers, RegisterExhausted(r)
      PROVE  MemberInv'
  <2> SUFFICES ASSUME NEW q \in Members'
               PROVE  Covered(q)'
    BY DEF MemberInv
  <2> q \in Readers
    BY DEF Members
  <2>1. q \in Members
    BY <1>14 DEF RegisterExhausted, Members, HoldsSlot, HoldersDisjoint, HeldSlot, Claiming, MayRegister, Disciplined
  <2>2. Covered(q)
    BY <2>1 DEF MemberInv
  <2>3. QED
    BY <1>14, <2>1, <2>2 DEF RegisterExhausted, Covered, WriteLimit, Visited, CursorInv, Members, HoldsSlot, HoldersDisjoint, HeldSlot, Claiming, MayRegister, Disciplined
<1>15. ASSUME NEW r \in Readers, RegisterGeneration(r)
      PROVE  MemberInv'
  <2> SUFFICES ASSUME NEW q \in Members'
               PROVE  Covered(q)'
    BY DEF MemberInv
  <2> q \in Readers
    BY DEF Members
  <2>1. q \in Members
    BY <1>15 DEF RegisterGeneration, Members, HoldsSlot, HoldersDisjoint, HeldSlot, Claiming, MayRegister, Disciplined
  <2>2. Covered(q)
    BY <2>1 DEF MemberInv
  <2>3. QED
    BY <1>15, <2>1, <2>2 DEF RegisterGeneration, Covered, WriteLimit, Visited, CursorInv, Members, HoldsSlot, HoldersDisjoint, HeldSlot, Claiming, MayRegister, Disciplined
<1>16. ASSUME NEW r \in Readers, RegisterCursor(r)
      PROVE  MemberInv'
  <2> SUFFICES ASSUME NEW q \in Members'
               PROVE  Covered(q)'
    BY DEF MemberInv
  <2> q \in Readers
    BY DEF Members
  <2>1. q \in Members
    BY <1>16 DEF RegisterCursor, Members, HoldsSlot, HoldersDisjoint, HeldSlot, Claiming, MayRegister, Disciplined
  <2>2. Covered(q)
    BY <2>1 DEF MemberInv
  <2>3. slot_index'[q] = slot_index[q] /\ slot_index[q] # rscan[r]
    <3>1. slot_index[r] = NoSlot /\ slot_index[q] # NoSlot /\ rpc[q] \notin Registering
      BY <1>16, <2>1 DEF RegisterCursor, Members, HoldsSlot
    <3>2. HeldSlot[r] = rscan[r] /\ HeldSlot[q] = slot_index[q] /\ q # r
      BY <1>16, <3>1 DEF RegisterCursor, HeldSlot, Claiming
    <3>3. QED
      BY <1>16, <3>1, <3>2 DEF RegisterCursor, HoldersDisjoint
  <2>4. cursor'[slot_index[q]] = cursor[slot_index[q]]
    BY <1>16, <2>3 DEF RegisterCursor
  <2>5. QED
    BY <1>16, <2>2, <2>3, <2>4 DEF RegisterCursor, Covered, WriteLimit, Visited
<1>17. ASSUME NEW r \in Readers, RegisterHeartbeat(r)
      PROVE  MemberInv'
  <2> SUFFICES ASSUME NEW q \in Members'
               PROVE  Covered(q)'
    BY DEF MemberInv
  <2> q \in Readers
    BY DEF Members
  <2>1. q # r => q \in Members
    BY <1>17 DEF RegisterHeartbeat, Members, HoldsSlot, HoldersDisjoint, HeldSlot, Claiming, MayRegister, Disciplined
  <2>2. q # r => Covered(q)
    BY <2>1 DEF MemberInv
  <2>3. QED
    BY SMTT(30), <1>17, <2>1, <2>2 DEF RegisterHeartbeat, Covered, WriteLimit, Visited, CursorInv, Members, HoldsSlot, HoldersDisjoint, HeldSlot, Claiming, MayRegister, Disciplined
<1>18. ASSUME NEW r \in Readers, UnregisterReader(r)
      PROVE  MemberInv'
  <2> SUFFICES ASSUME NEW q \in Members'
               PROVE  Covered(q)'
    BY DEF MemberInv
  <2> q \in Readers
    BY DEF Members
  <2>1. q \in Members
    BY <1>18 DEF UnregisterReader, Members, HoldsSlot, HoldersDisjoint, HeldSlot, Claiming, MayRegister, Disciplined
  <2>2. Covered(q)
    BY <2>1 DEF MemberInv
  <2>3. QED
    BY <1>18, <2>1, <2>2 DEF UnregisterReader, Covered, WriteLimit, Visited, CursorInv, Members, HoldsSlot, HoldersDisjoint, HeldSlot, Claiming, MayRegister, Disciplined
<1>19. ASSUME NEW r \in Readers, Crash(r)
      PROVE  MemberInv'
  <2> SUFFICES ASSUME NEW q \in Members'
               PROVE  Covered(q)'
    BY DEF MemberInv
  <2> q \in Readers
    BY DEF Members
  <2>1. q \in Members
    BY <1>19 DEF Crash, Members, HoldsSlot, HoldersDisjoint, HeldSlot, Claiming, MayRegister, Disciplined
  <2>2. Covered(q)
    BY <2>1 DEF MemberInv
  <2>3. QED
    BY <1>19, <2>1, <2>2 DEF Crash, Covered, WriteLimit, Visited, CursorInv, Members, HoldsSlot, HoldersDisjoint, HeldSlot, Claiming, MayRegister, Disciplined
<1>20. ASSUME NEW r \in Readers, Poll(r)
      PROVE  MemberInv'
  <2> SUFFICES ASSUME NEW q \in Members'
               PROVE  Covered(q)'
    BY DEF MemberInv
  <2> q \in Readers
    BY DEF Members
  <2>1. q \in Members
    BY <1>20 DEF Poll, Members, HoldsSlot, HoldersDisjoint, HeldSlot, Claiming, MayRegister, Disciplined
  <2>2. Covered(q)
    BY <2>1 DEF MemberInv
  <2>3. QED
    BY <1>20, <2>1, <2>2 DEF Poll, Covered, WriteLimit, Visited, CursorInv, Members, HoldsSlot, HoldersDisjoint, HeldSlot, Claiming, MayRegister, Disciplined
<1>21. ASSUME NEW r \in Readers, Advance(r)
      PROVE  MemberInv'
  <2> SUFFICES ASSUME NEW q \in Members'
               PROVE  Covered(q)'
    BY DEF MemberInv
  <2> q \in Readers
    BY DEF Members
  <2>1. q \in Members
    BY <1>21 DEF Advance, Members, HoldsSlot, HoldersDisjoint, HeldSlot, Claiming, MayRegister, Disciplined
  <2>2. Covered(q)
    BY <2>1 DEF MemberInv
  <2>3. slot_index'[q] = slot_index[q]
    BY <1>21 DEF Advance, Members
  <2>4. reader_cursor[q] <= reader_cursor'[q] /\ reader_cursor'[q] \in Nat
    BY SMTT(30), <1>21 DEF Advance, CursorInv
  <2>5. cursor[slot_index[q]] \in Nat
    BY <2>1 DEF Members
  <2>6. QED
    BY SMTT(30), <1>21, <2>2, <2>3, <2>4, <2>5 DEF Advance, Covered, WriteLimit, Visited
<1>22. ASSUME NEW r \in Readers, AdvanceCursor(r)
      PROVE  MemberInv'
  <2> SUFFICES ASSUME NEW q \in Members'
               PROVE  Covered(q)'
    BY DEF MemberInv
  <2> q \in Readers
    BY DEF Members
  <2>1. q \in Members
    BY <1>22 DEF AdvanceCursor, Members, HoldsSlot, HoldersDisjoint, HeldSlot, Claiming, MayRegister, Disciplined
  <2>2. Covered(q)
    BY <2>1 DEF MemberInv
  <2>3. slot_index'[q] = slot_index[q] /\ slot_index[q] \in Slots
    BY <1>22, <2>1 DEF AdvanceCursor, Members
  <2>4. q # r => slot_index[q] # slot_index[r]
    BY <1>22, <2>1 DEF AdvanceCursor, Members, HoldsSlot, HoldersDisjoint, HeldSlot, Claiming
  <2>5. cursor[slot_index[q]] <= cursor'[slot_index[q]] /\ cursor'[slot_index[q]] <= reader_cursor[q]
    BY SMTT(30), <1>22, <2>2, <2>3, <2>4 DEF AdvanceCursor, Covered
  <2>6. cursor'[slot_index[q]] \in Nat /\ WriteLimit \in Int /\ WriteLimit' = WriteLimit
    BY <1>22, <2>3 DEF AdvanceCursor, WriteLimit
  <2>7. cached_min_cursor <= cursor[slot_index[q]] /\ WriteLimit - cursor[slot_index[q]] <= Capacity
        /\ (ppc \in Scanning /\ Visited(slot_index[q]) => min_c <= cursor[slot_index[q]])
        /\ cursor[slot_index[q]] \in Nat
    BY <2>2, <2>3 DEF Covered
  <2>8. Visited(slot_index[q])' = Visited(slot_index[q]) /\ UNCHANGED <<cached_min_cursor, min_c, ppc, reader_cursor>>
    BY <1>22, <2>3 DEF AdvanceCursor, Visited
  <2>9. /\ cached_min_cursor <= cursor'[slot_index[q]]
        /\ WriteLimit - cursor'[slot_index[q]] <= Capacity
        /\ ppc \in Scanning /\ Visited(slot_index[q]) => min_c <= cursor'[slot_index[q]]
    <3> DEFINE c == cursor[slot_index[q]]
               d == cursor'[slot_index[q]]
    <3>1. c \in Nat /\ d \in Nat /\ c <= d
      BY <2>5, <2>6, <2>7
    <3>2. cached_min_cursor <= c /\ WriteLimit - c <= Capacity
          /\ (ppc \in Scanning /\ Visited(slot_index[q]) => min_c <= c)
      BY <2>7
    <3>3. WriteLimit \in Int /\ cached_min_cursor \in Nat /\ min_c \in Nat /\ Capacity \in Nat
      BY <2>6
    <3> HIDE DEF c, d
    <3>4. cached_min_cursor <= d /\ WriteLimit - d <= Capacity
          /\ (ppc \in Scanning /\ Visited(slot_index[q]) => min_c <= d)
      BY SMTT(30), <3>1, <3>2, <3>3
    <3>5. QED
      BY <3>4 DEF d
  <2>10. QED
    BY <2>3, <2>5, <2>6, <2>8, <2>9 DEF Covered
<1>23. ASSUME NEW r \in Readers, AdvanceHeartbeat(r)
      PROVE  MemberInv'
  <2> SUFFICES ASSUME NEW q \in Members'
               PROVE  Covered(q)'
    BY DEF MemberInv
  <2> q \in Readers
    BY DEF Members
  <2>1. q \in Members
    BY <1>23 DEF AdvanceHeartbeat, Members, HoldsSlot, HoldersDisjoint, HeldSlot, Claiming, MayRegister, Disciplined
  <2>2. Covered(q)
    BY <2>1 DEF MemberInv
  <2>3. QED
    BY <1>23, <2>1, <2>2 DEF AdvanceHeartbeat, Covered, WriteLimit, Visited, CursorInv, Members, HoldsSlot, HoldersDisjoint, HeldSlot, Claiming, MayRegister, Disciplined
<1>24. ASSUME NEW s \in Slots, HeartbeatAges(s)
      PROVE  MemberInv'
  <2> SUFFICES ASSUME NEW q \in Members'
               PROVE  Covered(q)'
    BY DEF MemberInv
  <2> q \in Readers
    BY DEF Members
  <2>1. q \in Members
    BY <1>24 DEF HeartbeatAges, Members, HoldsSlot, HeldSlot, Claiming
  <2>2. Covered(q)
    BY <2>1 DEF MemberInv
  <2>3. QED
    BY <1>24, <2>1, <2>2 DEF HeartbeatAges, Covered, WriteLimit, Visited, CursorInv, Members, HoldsSlot, HeldSlot, Claiming
<1>25. CASE UNCHANGED vars
  BY <1>25 DEF vars, MemberInv, Members, Covered, WriteLimit, Visited
<1>26. QED
  BY <1>1, <1>2, <1>3, <1>4, <1>5, <1>6, <1>7, <1>8, <1>9, <1>10, <1>11, <1>12, <1>13, <1>14, <1>15, <1>16, <1>17, <1>18, <1>19, <1>20, <1>21, <1>22, <1>23, <1>24, <1>25
     DEF Next, Reserve, ScanStep, RegisterStep, AdvanceStep

(* The invariant holds from Create on, in every disciplined deployment.     *)
LEMMA RosterInvariant ==
  ASSUME Disciplined
  PROVE  Spec => []RosterInv
<1>1. Init => RosterInv
  <2> SUFFICES ASSUME Init PROVE RosterInv
    OBVIOUS
  <2> USE RosterAssumption DEF Init, Slots, NoSlot, Scanning, Registering
  <2>1. TypeOK
    BY DEF TypeOK
  <2>2. OwnershipInv
    BY DEF OwnershipInv, PhasesDisjoint, HoldersDisjoint, HoldsSlot, HeldSlot, Claiming
  <2>3. CursorInv
    BY DEF CursorInv
  <2>4. MemberInv
    BY DEF MemberInv, Members
  <2>5. QED
    BY <2>1, <2>2, <2>3, <2>4 DEF RosterInv
<1>2. RosterInv /\ [Next]_vars => RosterInv'
  BY TypeStep, OwnershipStep, CursorStep, MemberStep DEF RosterInv
<1>3. QED
  BY <1>1, <1>2, PTL DEF Spec

(* The invariant gives the safety property outright.                        *)
LEMMA RosterSafe == RosterInv => NoOverrun
<1> SUFFICES ASSUME RosterInv, NEW r \in Members
             PROVE  WriteLimit - reader_cursor[r] <= Capacity
  BY DEF NoOverrun
<1> USE RosterAssumption DEF RosterInv, TypeOK, Slots, NoSlot
<1>1. r \in Readers /\ slot_index[r] \in Slots
  BY DEF Members
<1>2. cursor[slot_index[r]] <= reader_cursor[r] /\ WriteLimit - cursor[slot_index[r]] <= Capacity
  BY DEF MemberInv, Covered
<1>3. QED
  BY SMTT(30), <1>1, <1>2 DEF WriteLimit

(* The roster's variables keep their types; no discipline is needed.        *)
THEOREM TypeCorrect == Spec => []TypeOK
<1>1. Init => TypeOK
  BY RosterAssumption DEF Init, TypeOK, Slots, NoSlot, Scanning, Registering
<1>2. TypeOK /\ [Next]_vars => TypeOK'
  BY TypeStep
<1>3. QED
  BY <1>1, <1>2, PTL DEF Spec

(* Reserve never writes over what a member has not released, whatever the   *)
(* number of readers and slots, the capacity and the frame sizes, although  *)
(* cached_min_cursor_ is stale most of the time.                            *)
THEOREM BackpressureSafe ==
  ASSUME Disciplined
  PROVE  Spec => []NoOverrun
<1>1. RosterInv => NoOverrun
  BY RosterSafe
<1>2. QED
  BY <1>1, RosterInvariant, PTL

(* RegisterReader's compare_exchange and the eviction store never leave two *)
(* living readers bound to one slot.                                        *)
THEOREM SlotOwnership ==
  ASSUME Disciplined
  PROVE  Spec => []SlotsExclusive
<1>1. RosterInv => SlotsExclusive
  BY DEF RosterInv, OwnershipInv, HoldersDisjoint, HoldsSlot, HeldSlot, Claiming, Registering,
         SlotsExclusive
<1>2. QED
  BY <1>1, RosterInvariant, PTL

(* Slot, reader, commit and producer cursors keep their order, so nothing   *)
(* is released before it was polled or polled before it was committed.      *)
THEOREM CursorOrder ==
  ASSUME Disciplined
  PROVE  Spec => []CursorsOrdered
<1>1. RosterInv => CursorsOrdered
  BY DEF RosterInv, CursorInv, MemberInv, Covered, CursorsOrdered
<1>2. QED
  BY <1>1, RosterInvariant, PTL

LEMMA StepImplements ==
  ASSUME Disciplined, RosterInv, NoOverrun', [Next]_vars
  PROVE  [Log!Next]_(Log!vars)
<1> USE RosterAssumption DEF Slots, NoSlot, header, roster, producer, reader, TypeOK, Scanning, Registering, RosterInv
<1>1. ASSUME NEW size \in FrameSizes, ReserveFits(size)
      PROVE  [Log!Next]_(Log!vars)
  <2>1. Members' = Members /\ UNCHANGED <<commit_cursor, reader_cursor>>
    BY <1>1 DEF ReserveFits, Members
  <2>2. WriteLimit' > WriteLimit
    BY <1>1 DEF ReserveFits, WriteLimit, CursorInv
  <2>3. Log!Append
    BY <2>1, <2>2 DEF NoOverrun, Log!Append
  <2>4. QED
    BY <2>3 DEF Log!Next
<1>2. ASSUME NEW size \in FrameSizes, ReserveScans(size)
      PROVE  [Log!Next]_(Log!vars)
  <2>1. Members' = Members
    BY <1>2 DEF ReserveScans, StartPass, ReadClock, Members
  <2>2. WriteLimit' = WriteLimit
    BY <1>2 DEF ReserveScans, StartPass, ReadClock, WriteLimit
  <2>3. QED
    BY <1>2, <2>1, <2>2 DEF ReserveScans, StartPass, ReadClock, Log!vars
<1>3. CASE ScanActive
  <2>1. Members' = Members
    BY <1>3 DEF ScanActive, NextSlot, Members
  <2>2. WriteLimit' = WriteLimit
    BY <1>3 DEF ScanActive, NextSlot, WriteLimit
  <2>3. QED
    BY <1>3, <2>1, <2>2 DEF ScanActive, NextSlot, Log!vars
<1>4. CASE ScanHeartbeat
  <2>1. Members' = Members
    BY <1>4 DEF ScanHeartbeat, Members
  <2>2. WriteLimit' = WriteLimit
    BY <1>4 DEF ScanHeartbeat, WriteLimit
  <2>3. QED
    BY <1>4, <2>1, <2>2 DEF ScanHeartbeat, Log!vars
<1>5. CASE ScanEvict
  <2>1. WriteLimit' = WriteLimit /\ UNCHANGED <<commit_cursor, reader_cursor, slot_index>>
    BY <1>5 DEF ScanEvict, NextSlot, WriteLimit
  <2>2. CASE \E r \in Members : slot_index[r] = slot
    <3>1. PICK r \in Members : slot_index[r] = slot
      BY <2>2
    <3>2. \A q \in Members : q # r => slot_index[q] # slot
      BY <3>1 DEF Members, OwnershipInv, HoldersDisjoint, HoldsSlot, HeldSlot, Claiming
    <3>3. Members' = Members \ {r}
      <4>1. active' = [active EXCEPT ![slot] = FALSE] /\ slot_index' = slot_index
        BY <1>5 DEF ScanEvict
      <4>2. ASSUME NEW q \in Readers
            PROVE  q \in Members' <=> q \in Members /\ q # r
        BY <4>1, <3>1, <3>2 DEF Members
      <4>3. QED
        BY <4>2 DEF Members
    <3>4. r \in Readers /\ Log!Leave(r)
      BY <2>1, <3>1, <3>3 DEF Members, Log!Leave
    <3>5. QED
      BY <3>4 DEF Log!Next
  <2>3. CASE ~\E r \in Members : slot_index[r] = slot
    <3>1. Members' = Members
      BY SMTT(30), <1>5, <2>1, <2>3 DEF ScanEvict, Members
    <3>2. QED
      BY <2>1, <3>1 DEF Log!vars
  <2>4. QED
    BY <2>2, <2>3
<1>6. CASE ScanCursor
  <2>1. Members' = Members
    BY <1>6 DEF ScanCursor, NextSlot, Members
  <2>2. WriteLimit' = WriteLimit
    BY <1>6 DEF ScanCursor, NextSlot, WriteLimit
  <2>3. QED
    BY <1>6, <2>1, <2>2 DEF ScanCursor, NextSlot, Log!vars
<1>7. CASE ScanFits
  <2>1. Members' = Members /\ UNCHANGED <<commit_cursor, reader_cursor>>
    BY <1>7 DEF ScanFits, Members
  <2>2. WriteLimit' > WriteLimit
    BY <1>7 DEF ScanFits, WriteLimit, CursorInv
  <2>3. Log!Append
    BY <2>1, <2>2 DEF NoOverrun, Log!Append
  <2>4. QED
    BY <2>3 DEF Log!Next
<1>8. ASSUME NEW readsClock \in BOOLEAN, ScanAgain(readsClock)
      PROVE  [Log!Next]_(Log!vars)
  <2>1. Members' = Members
    BY <1>8 DEF ScanAgain, StartPass, ReadClock, Members
  <2>2. WriteLimit' = WriteLimit
    BY <1>8 DEF ScanAgain, StartPass, ReadClock, WriteLimit
  <2>3. QED
    BY <1>8, <2>1, <2>2 DEF ScanAgain, StartPass, ReadClock, Log!vars
<1>9. CASE Publish
  <2>1. Members' = Members
    BY <1>9 DEF Publish, Members
  <2>2. WriteLimit' = WriteLimit
    BY <1>9 DEF Publish, WriteLimit, CursorInv
  <2>3. QED
    BY <1>9, <2>1, <2>2 DEF Publish, Log!vars
<1>10. CASE Commit
  <2>1. Members' = Members /\ WriteLimit' = WriteLimit /\ commit_cursor' = WriteLimit
    BY <1>10 DEF Commit, Members, WriteLimit, CursorInv
  <2>2. Log!Commit
    BY <1>10, <2>1 DEF Commit, Log!Commit
  <2>3. QED
    BY <2>2 DEF Log!Next
<1>11. ASSUME NEW r \in Readers, RegisterBegin(r)
      PROVE  [Log!Next]_(Log!vars)
  <2>1. Members' = Members /\ r \notin Members /\ WriteLimit' = WriteLimit
    BY <1>11 DEF RegisterBegin, Members, WriteLimit
  <2>2. commit_cursor \in 0 .. commit_cursor
    OBVIOUS
  <2>3. Log!Seek(r)
    BY <1>11, <2>1, <2>2 DEF RegisterBegin, Log!Seek
  <2>4. QED
    BY <2>3 DEF Log!Next
<1>12. ASSUME NEW r \in Readers, RegisterClaim(r)
      PROVE  [Log!Next]_(Log!vars)
  <2>1. Members' = Members
    <3>1. \A q \in Readers : slot_index[q] # NoSlot => slot_index[q] # rscan[r]
      BY SMTT(30), <1>12 DEF RegisterClaim, OwnershipInv, PhasesDisjoint, HoldsSlot, HeldSlot, Claiming
    <3>2. \A q \in Readers : slot_index[q] # NoSlot => active'[slot_index[q]] = active[slot_index[q]]
      BY <1>12, <3>1 DEF RegisterClaim
    <3>3. QED
      BY <1>12, <3>2 DEF RegisterClaim, Members
  <2>2. WriteLimit' = WriteLimit
    BY <1>12 DEF RegisterClaim, WriteLimit
  <2>3. QED
    BY <1>12, <2>1, <2>2 DEF RegisterClaim, Log!vars
<1>13. ASSUME NEW r \in Readers, RegisterNextSlot(r)
      PROVE  [Log!Next]_(Log!vars)
  <2>1. Members' = Members
    BY <1>13 DEF RegisterNextSlot, Members
  <2>2. WriteLimit' = WriteLimit
    BY <1>13 DEF RegisterNextSlot, WriteLimit
  <2>3. QED
    BY <1>13, <2>1, <2>2 DEF RegisterNextSlot, Log!vars
<1>14. ASSUME NEW r \in Readers, RegisterExhausted(r)
      PROVE  [Log!Next]_(Log!vars)
  <2>1. Members' = Members
    BY <1>14 DEF RegisterExhausted, Members
  <2>2. WriteLimit' = WriteLimit
    BY <1>14 DEF RegisterExhausted, WriteLimit
  <2>3. QED
    BY <1>14, <2>1, <2>2 DEF RegisterExhausted, Log!vars
<1>15. ASSUME NEW r \in Readers, RegisterGeneration(r)
      PROVE  [Log!Next]_(Log!vars)
  <2>1. Members' = Members
    BY <1>15 DEF RegisterGeneration, Members
  <2>2. WriteLimit' = WriteLimit
    BY <1>15 DEF RegisterGeneration, WriteLimit
  <2>3. QED
    BY <1>15, <2>1, <2>2 DEF RegisterGeneration, Log!vars
<1>16. ASSUME NEW r \in Readers, RegisterCursor(r)
      PROVE  [Log!Next]_(Log!vars)
  <2>1. Members' = Members
    BY <1>16 DEF RegisterCursor, Members
  <2>2. WriteLimit' = WriteLimit
    BY <1>16 DEF RegisterCursor, WriteLimit
  <2>3. QED
    BY <1>16, <2>1, <2>2 DEF RegisterCursor, Log!vars
<1>17. ASSUME NEW r \in Readers, RegisterHeartbeat(r)
      PROVE  [Log!Next]_(Log!vars)
  <2>1. r \notin Members /\ WriteLimit' = WriteLimit /\ UNCHANGED <<commit_cursor, reader_cursor>>
    BY <1>17 DEF RegisterHeartbeat, Members, WriteLimit, OwnershipInv, HoldsSlot
  <2>2. CASE active[rscan[r]]
    <3>1. Members' = Members \cup {r}
      BY SMTT(30), <1>17, <2>2 DEF RegisterHeartbeat, Members
    <3>2. Log!Join(r)
      BY <2>1, <3>1 DEF NoOverrun, Members, Log!Join
    <3>3. QED
      BY <3>2 DEF Log!Next
  <2>3. CASE ~active[rscan[r]]
    <3>1. Members' = Members
      BY <1>17, <2>1, <2>3 DEF RegisterHeartbeat, Members
    <3>2. QED
      BY <2>1, <3>1 DEF Log!vars
  <2>4. QED
    BY <2>2, <2>3
<1>18. ASSUME NEW r \in Readers, UnregisterReader(r)
      PROVE  [Log!Next]_(Log!vars)
  <2>1. Members' = Members \ {r}
    BY SMTT(30), <1>18 DEF UnregisterReader, Members, OwnershipInv, HoldersDisjoint, HoldsSlot, HeldSlot, Claiming
  <2>2. Log!Leave(r)
    BY <1>18, <2>1 DEF UnregisterReader, WriteLimit, Log!Leave
  <2>3. QED
    BY <2>2 DEF Log!Next
<1>19. ASSUME NEW r \in Readers, Crash(r)
      PROVE  [Log!Next]_(Log!vars)
  <2>1. Members' = Members \ {r}
    BY <1>19 DEF Crash, Members, OwnershipInv, HoldersDisjoint, HoldsSlot, HeldSlot, Claiming
  <2>2. Log!Leave(r)
    BY <1>19, <2>1 DEF Crash, WriteLimit, Log!Leave
  <2>3. QED
    BY <2>2 DEF Log!Next
<1>20. ASSUME NEW r \in Readers, Poll(r)
      PROVE  [Log!Next]_(Log!vars)
  <2>1. Members' = Members
    BY <1>20 DEF Poll, Members
  <2>2. WriteLimit' = WriteLimit
    BY <1>20 DEF Poll, WriteLimit
  <2>3. QED
    BY <1>20, <2>1, <2>2 DEF Poll, Log!vars
<1>21. ASSUME NEW r \in Readers, Advance(r)
      PROVE  [Log!Next]_(Log!vars)
  <2>1. slot_index' = slot_index /\ Members' = Members /\ WriteLimit' = WriteLimit
    BY SMTT(30), <1>21 DEF Advance, Members, WriteLimit, OwnershipInv, HoldsSlot
  <2>2. reader_cursor' = [reader_cursor EXCEPT ![r] = polled[r]]
        /\ polled[r] \in reader_cursor[r] .. commit_cursor /\ polled[r] \in 0 .. commit_cursor
    BY <1>21 DEF Advance, CursorInv
  <2>3. Log!Release(r) \/ Log!Seek(r)
    BY <1>21, <2>1, <2>2 DEF Advance, Log!Release, Log!Seek
  <2>4. QED
    BY <2>3 DEF Log!Next
<1>22. ASSUME NEW r \in Readers, AdvanceCursor(r)
      PROVE  [Log!Next]_(Log!vars)
  <2>1. Members' = Members
    BY <1>22 DEF AdvanceCursor, Members
  <2>2. WriteLimit' = WriteLimit
    BY <1>22 DEF AdvanceCursor, WriteLimit
  <2>3. QED
    BY <1>22, <2>1, <2>2 DEF AdvanceCursor, Log!vars
<1>23. ASSUME NEW r \in Readers, AdvanceHeartbeat(r)
      PROVE  [Log!Next]_(Log!vars)
  <2>1. Members' = Members
    BY <1>23 DEF AdvanceHeartbeat, Members
  <2>2. WriteLimit' = WriteLimit
    BY <1>23 DEF AdvanceHeartbeat, WriteLimit
  <2>3. QED
    BY <1>23, <2>1, <2>2 DEF AdvanceHeartbeat, Log!vars
<1>24. ASSUME NEW s \in Slots, HeartbeatAges(s)
      PROVE  [Log!Next]_(Log!vars)
  <2>1. Members' = Members
    BY <1>24 DEF HeartbeatAges, Members
  <2>2. WriteLimit' = WriteLimit
    BY <1>24 DEF HeartbeatAges, WriteLimit
  <2>3. QED
    BY <1>24, <2>1, <2>2 DEF HeartbeatAges, Log!vars
<1>25. CASE UNCHANGED vars
  BY <1>25 DEF vars, Log!vars, Members, WriteLimit
<1>26. QED
  BY <1>1, <1>2, <1>3, <1>4, <1>5, <1>6, <1>7, <1>8, <1>9, <1>10, <1>11, <1>12, <1>13, <1>14, <1>15, <1>16, <1>17, <1>18, <1>19, <1>20, <1>21, <1>22, <1>23, <1>24, <1>25
     DEF Next, Reserve, ScanStep, RegisterStep, AdvanceStep

(* Every step of the ring is a step of the abstract log or leaves it alone: *)
(* in a disciplined deployment the ring keeps BroadcastLog's promise.       *)
THEOREM RingImplementsLog ==
  ASSUME Disciplined
  PROVE  Spec => ImplementsLog
<1>1. Init => Log!Init
  BY DEF Init, Log!Init, WriteLimit, Members
<1>2. RosterInv /\ NoOverrun' /\ [Next]_vars => [Log!Next]_(Log!vars)
  BY StepImplements
<1>3. QED
  BY <1>1, <1>2, RosterInvariant, BackpressureSafe, PTL DEF Spec, ImplementsLog, Log!Spec
=============================================================================
