--------------------------- MODULE BroadcastRoster ---------------------------
(***************************************************************************)
(* The control plane of common/shared_memory/broadcast_ring_buffer.{h,cc}: *)
(* one producer, many readers, the roster of reader slots in the metadata  *)
(* segment, back-pressure in Reserve and heart-beat eviction.              *)
(*                                                                         *)
(* Every access to an atomic of the BroadcastHeader is a step of its own,  *)
(* so registration, eviction and Advance interleave as they do between     *)
(* processes.  Positions are counted in 8-byte words and never wrap (the   *)
(* code's cursors are uint64_t).  What a frame contains, and what a reader *)
(* that was lapped sees of it, is the subject of BroadcastFrames.          *)
(*                                                                         *)
(* Clocks are abstracted to what the eviction test can tell: a heart-beat  *)
(* is "fresh" (within evict_timeout_ns), "old" (older than that, but the   *)
(* producer's cached `now` does not show it yet) or "expired" (older than  *)
(* the timeout by the producer's `now`).                                   *)
(***************************************************************************)
EXTENDS Integers, FiniteSets

CONSTANTS
  Readers,       \* the BroadcastReader objects, one per consumer process
  NumSlots,      \* kMaxReaders
  Capacity,      \* capacity_, the size of the data segment
  FrameSizes,    \* the total frame sizes the producer reserves
  Registration,  \* when readers register: see MayRegister
  Expiry,        \* whether a heart-beat may outlive evict_timeout_ns
  MaxCursor,     \* bound: the producer stops at this position
  MaxGen         \* bound: how often one slot is claimed

ASSUME RosterAssumption ==
  /\ NumSlots \in Nat \ {0}
  /\ Capacity \in Nat \ {0}
  /\ FrameSizes \subseteq 1..Capacity   \* larger ones are InvalidArgument
  /\ Registration \in {"early", "quiescent", "any"}
  /\ Expiry \in BOOLEAN
  /\ MaxCursor \in Nat
  /\ MaxGen \in Nat

Slots == 0 .. NumSlots - 1
NoSlot == -1

VARIABLES
  producer_cursor,    \* BroadcastHeader
  commit_cursor,
  frame_ends,         \* where the frames in the ring end (their lengths)
  active,             \* ReaderSlot fields, one function per field
  cursor,
  heartbeat_ts,
  generation_id,
  ppc,                \* the producer: where it is in Reserve and Commit,
  slot,               \*   the slot its scan looks at (0 when it does not scan),
  target_cursor,      \*   the end of the frame it reserves,
  min_c,              \*   the scan's minimum so far (0 when it does not scan)
  cached_min_cursor,  \*   and the minimum of the last scan
  rpc,                \* a reader: where it is in its current call,
  rscan,              \*   the slot its registration works on (else 0),
  slot_index,         \*   BroadcastReader::slot_index_,
  reader_gen,         \*   BroadcastReader::generation_id_,
  reader_cursor,      \*   BroadcastReader::cursor_
  polled              \*   and the end of what it has read but not released

header == <<producer_cursor, commit_cursor, frame_ends>>
roster == <<active, cursor, heartbeat_ts, generation_id>>
producer == <<ppc, slot, target_cursor, min_c, cached_min_cursor>>
reader == <<rpc, rscan, slot_index, reader_gen, reader_cursor, polled>>
vars == <<header, roster, producer, reader>>

Registering == {"claim", "generation", "cursor", "heartbeat"}
Scanning == {"active", "heartbeat", "evict", "cursor", "decide"}

TypeOK ==
  /\ producer_cursor \in Nat /\ commit_cursor \in Nat
  /\ frame_ends \in SUBSET Nat
  /\ active \in [Slots -> BOOLEAN]
  /\ cursor \in [Slots -> Nat]
  /\ heartbeat_ts \in [Slots -> {"fresh", "old", "expired"}]
  /\ generation_id \in [Slots -> Nat]
  /\ ppc \in {"idle", "publish", "commit"} \cup Scanning
  /\ slot \in Slots
  /\ target_cursor \in Nat /\ min_c \in Nat /\ cached_min_cursor \in Nat
  /\ rpc \in [Readers -> {"idle", "advCursor", "advHeartbeat"} \cup Registering]
  /\ rscan \in [Readers -> Slots]
  /\ slot_index \in [Readers -> Slots \cup {NoSlot}]
  /\ reader_gen \in [Readers -> Nat]
  /\ reader_cursor \in [Readers -> Nat]
  /\ polled \in [Readers -> Nat]

(* Create leaves every cursor at 0 and every slot free, with a heart-beat  *)
(* of 0, which any wall clock shows as expired.                            *)
Init ==
  /\ producer_cursor = 0 /\ commit_cursor = 0 /\ frame_ends = {0}
  /\ active = [s \in Slots |-> FALSE]
  /\ cursor = [s \in Slots |-> 0]
  /\ heartbeat_ts = [s \in Slots |-> "expired"]
  /\ generation_id = [s \in Slots |-> 0]
  /\ ppc = "idle" /\ slot = 0
  /\ target_cursor = 0 /\ min_c = 0 /\ cached_min_cursor = 0
  /\ rpc = [r \in Readers |-> "idle"]
  /\ rscan = [r \in Readers |-> 0]
  /\ slot_index = [r \in Readers |-> NoSlot]
  /\ reader_gen = [r \in Readers |-> 0]
  /\ reader_cursor = [r \in Readers |-> 0]
  /\ polled = [r \in Readers |-> 0]

-----------------------------------------------------------------------------
(* The environment's discipline.  "early": every reader registers before   *)
(* the first Reserve, as the stress test arranges.  "quiescent": readers   *)
(* also join later, but never while a reservation is open.  "any": no      *)
(* coordination at all, which is what the API allows.  Every reader starts *)
(* at GetLatestCursor(), which is the default of 0 before the first frame. *)
(* The code checks none of this.  Under the first, and under the second    *)
(* without Expiry, no slot is claimed again while an evicted reader is     *)
(* still bound to it.                                                      *)

MayRegister ==
  CASE Registration = "early"     -> ppc = "idle" /\ producer_cursor = 0
    [] Registration = "quiescent" -> ppc = "idle"
    [] OTHER                      -> TRUE

MayReserve == Registration = "any" \/ \A r \in Readers : rpc[r] \notin Registering

-----------------------------------------------------------------------------
(* The producer: Reserve and Commit.                                       *)

(* Reading the clock shows the producer which heart-beats are over age.    *)
ReadClock ==
  heartbeat_ts' = [s \in Slots |-> IF heartbeat_ts[s] = "old" THEN "expired" ELSE heartbeat_ts[s]]

StartPass(target) == min_c' = target /\ slot' = 0 /\ ppc' = "active"

NextSlot ==
  IF slot + 1 \in Slots THEN slot' = slot + 1 /\ ppc' = "active"
                        ELSE slot' = 0 /\ ppc' = "decide"

(* Reserve up to its back-pressure test, which trusts the minimum of the   *)
(* last scan; only when that is not enough are the clock and roster read.  *)
\* Mutant: the room left is computed from the frame's start, not its end.
ReserveFitsStart(size) ==
  /\ ppc = "idle" /\ MayReserve
  /\ producer_cursor + size <= MaxCursor
  /\ producer_cursor - cached_min_cursor <= Capacity
  /\ target_cursor' = producer_cursor + size
  /\ ppc' = "publish"
  /\ UNCHANGED <<header, roster, slot, min_c, cached_min_cursor, reader>>

ReserveFits(size) ==
  /\ ppc = "idle" /\ MayReserve
  /\ producer_cursor + size <= MaxCursor
  /\ producer_cursor + size - cached_min_cursor <= Capacity
  /\ target_cursor' = producer_cursor + size
  /\ ppc' = "publish"
  /\ UNCHANGED <<header, roster, slot, min_c, cached_min_cursor, reader>>

ReserveScans(size) ==
  /\ ppc = "idle" /\ MayReserve
  /\ producer_cursor + size <= MaxCursor
  /\ producer_cursor + size - cached_min_cursor > Capacity
  /\ target_cursor' = producer_cursor + size
  /\ StartPass(target_cursor')
  /\ ReadClock
  /\ UNCHANGED <<header, active, cursor, generation_id, cached_min_cursor, reader>>

ScanActive ==
  /\ ppc = "active"
  /\ IF active[slot] THEN ppc' = "heartbeat" /\ slot' = slot ELSE NextSlot
  /\ UNCHANGED <<header, roster, target_cursor, min_c, cached_min_cursor, reader>>

\* Mutant: a stale heart-beat is not acted on.
ScanHeartbeatNeverEvicts ==
  /\ ppc = "heartbeat"
  /\ ppc' = "cursor"
  /\ UNCHANGED <<header, roster, slot, target_cursor, min_c, cached_min_cursor, reader>>

ScanHeartbeat ==
  /\ ppc = "heartbeat"
  /\ ppc' = IF heartbeat_ts[slot] = "expired" THEN "evict" ELSE "cursor"
  /\ UNCHANGED <<header, roster, slot, target_cursor, min_c, cached_min_cursor, reader>>

(* Eviction is a plain store: it neither re-examines the slot nor touches  *)
(* its generation_id.                                                      *)
ScanEvict ==
  /\ ppc = "evict"
  /\ active' = [active EXCEPT ![slot] = FALSE]
  /\ NextSlot
  /\ UNCHANGED <<header, cursor, heartbeat_ts, generation_id, target_cursor, min_c,
                 cached_min_cursor, reader>>

\* Mutant: the comparison of the minimum is the wrong way round.
ScanCursorMax ==
  /\ ppc = "cursor"
  /\ min_c' = IF cursor[slot] > min_c THEN cursor[slot] ELSE min_c
  /\ NextSlot
  /\ UNCHANGED <<header, roster, target_cursor, cached_min_cursor, reader>>

ScanCursor ==
  /\ ppc = "cursor"
  /\ min_c' = IF cursor[slot] < min_c THEN cursor[slot] ELSE min_c
  /\ NextSlot
  /\ UNCHANGED <<header, roster, target_cursor, cached_min_cursor, reader>>

(* The end of one pass over the roster: the frame fits, or another pass    *)
(* starts, for which the rate-limited clock is read or not.                *)
ScanFits ==
  /\ ppc = "decide"
  /\ target_cursor - min_c <= Capacity
  /\ cached_min_cursor' = min_c
  /\ min_c' = 0
  /\ ppc' = "publish"
  /\ UNCHANGED <<header, roster, slot, target_cursor, reader>>

ScanAgain(readsClock) ==
  /\ ppc = "decide"
  /\ target_cursor - min_c > Capacity
  /\ cached_min_cursor' = min_c
  /\ StartPass(target_cursor)
  /\ IF readsClock THEN ReadClock ELSE UNCHANGED heartbeat_ts
  /\ UNCHANGED <<header, active, cursor, generation_id, target_cursor, reader>>

(* The frame header is written and then the claim is published.            *)
Publish ==
  /\ ppc = "publish"
  /\ producer_cursor' = target_cursor
  /\ frame_ends' = frame_ends \cup {target_cursor}
  /\ ppc' = "commit"
  /\ UNCHANGED <<commit_cursor, roster, slot, target_cursor, min_c, cached_min_cursor, reader>>

Commit ==
  /\ ppc = "commit"
  /\ commit_cursor' = target_cursor
  /\ ppc' = "idle"
  /\ UNCHANGED <<producer_cursor, frame_ends, roster, slot, target_cursor, min_c,
                 cached_min_cursor, reader>>

-----------------------------------------------------------------------------
(* A reader: RegisterReader.                                               *)

RegisterBegin(r) ==
  /\ rpc[r] = "idle" /\ slot_index[r] = NoSlot /\ MayRegister
  /\ reader_cursor' = [reader_cursor EXCEPT ![r] = commit_cursor]
  /\ polled' = [polled EXCEPT ![r] = commit_cursor]
  /\ rpc' = [rpc EXCEPT ![r] = "claim"]
  /\ UNCHANGED <<header, roster, producer, rscan, slot_index, reader_gen>>

(* compare_exchange on active: this slot is claimed, or the next is tried. *)
\* Mutant: the slot is claimed by a plain store instead of a compare_exchange.
RegisterClaimPlainStore(r) ==
  /\ rpc[r] = "claim"
  /\ generation_id[rscan[r]] < MaxGen
  /\ active' = [active EXCEPT ![rscan[r]] = TRUE]
  /\ rpc' = [rpc EXCEPT ![r] = "generation"]
  /\ UNCHANGED <<header, cursor, heartbeat_ts, generation_id, producer,
                 rscan, slot_index, reader_gen, reader_cursor, polled>>

RegisterClaim(r) ==
  /\ rpc[r] = "claim" /\ ~active[rscan[r]]
  /\ generation_id[rscan[r]] < MaxGen
  /\ active' = [active EXCEPT ![rscan[r]] = TRUE]
  /\ rpc' = [rpc EXCEPT ![r] = "generation"]
  /\ UNCHANGED <<header, cursor, heartbeat_ts, generation_id, producer,
                 rscan, slot_index, reader_gen, reader_cursor, polled>>

\* Mutant: the search for a free slot runs one past kMaxReaders.
RegisterNextSlotPastEnd(r) ==
  /\ rpc[r] = "claim" /\ active[rscan[r]]
  /\ rscan' = [rscan EXCEPT ![r] = rscan[r] + 1]
  /\ UNCHANGED <<header, roster, producer, rpc, slot_index, reader_gen, reader_cursor, polled>>

RegisterNextSlot(r) ==
  /\ rpc[r] = "claim" /\ active[rscan[r]]
  /\ rscan[r] + 1 \in Slots
  /\ rscan' = [rscan EXCEPT ![r] = rscan[r] + 1]
  /\ UNCHANGED <<header, roster, producer, rpc, slot_index, reader_gen, reader_cursor, polled>>

RegisterExhausted(r) ==
  /\ rpc[r] = "claim" /\ active[rscan[r]]
  /\ rscan[r] + 1 \notin Slots
  /\ rscan' = [rscan EXCEPT ![r] = 0]
  /\ rpc' = [rpc EXCEPT ![r] = "idle"]
  /\ UNCHANGED <<header, roster, producer, slot_index, reader_gen, reader_cursor, polled>>

RegisterGeneration(r) ==
  /\ rpc[r] = "generation"
  /\ generation_id' = [generation_id EXCEPT ![rscan[r]] = generation_id[rscan[r]] + 1]
  /\ reader_gen' = [reader_gen EXCEPT ![r] = generation_id[rscan[r]] + 1]
  /\ rpc' = [rpc EXCEPT ![r] = "cursor"]
  /\ UNCHANGED <<header, active, cursor, heartbeat_ts, producer,
                 rscan, slot_index, reader_cursor, polled>>

RegisterCursor(r) ==
  /\ rpc[r] = "cursor"
  /\ cursor' = [cursor EXCEPT ![rscan[r]] = reader_cursor[r]]
  /\ rpc' = [rpc EXCEPT ![r] = "heartbeat"]
  /\ UNCHANGED <<header, active, heartbeat_ts, generation_id, producer,
                 rscan, slot_index, reader_gen, reader_cursor, polled>>

RegisterHeartbeat(r) ==
  /\ rpc[r] = "heartbeat"
  /\ heartbeat_ts' = [heartbeat_ts EXCEPT ![rscan[r]] = "fresh"]
  /\ slot_index' = [slot_index EXCEPT ![r] = rscan[r]]
  /\ rscan' = [rscan EXCEPT ![r] = 0]
  /\ rpc' = [rpc EXCEPT ![r] = "idle"]
  /\ UNCHANGED <<header, active, cursor, generation_id, producer,
                 reader_gen, reader_cursor, polled>>

-----------------------------------------------------------------------------
(* A reader: UnregisterReader, polling, Advance, and the end of its process. *)

UnregisterReader(r) ==
  /\ rpc[r] = "idle" /\ slot_index[r] # NoSlot
  /\ active' = [active EXCEPT ![slot_index[r]] = FALSE]
  /\ slot_index' = [slot_index EXCEPT ![r] = NoSlot]
  /\ UNCHANGED <<header, cursor, heartbeat_ts, generation_id, producer,
                 rpc, rscan, reader_gen, reader_cursor, polled>>

(* PollZeroCopy, PollCopy or one frame of PollCopyBatch: fails with        *)
(* NotFound at the commit cursor and with ResourceExhausted once lapped.   *)
(* Both cursors are read in one step: commit_cursor is read first and only *)
(* grows, so the later value accepts whatever the earlier one did.         *)
\* Mutant: polls up to the producer's claim instead of the commit cursor.
PollClaimed(r) ==
  /\ rpc[r] = "idle"
  /\ polled[r] < producer_cursor
  /\ producer_cursor - polled[r] <= Capacity
  /\ \E e \in frame_ends :
       /\ e > polled[r]
       /\ \A f \in frame_ends : f > polled[r] => e <= f
       /\ polled' = [polled EXCEPT ![r] = e]
  /\ UNCHANGED <<header, roster, producer, rpc, rscan, slot_index, reader_gen, reader_cursor>>

Poll(r) ==
  /\ rpc[r] = "idle"
  /\ polled[r] < commit_cursor
  /\ producer_cursor - polled[r] <= Capacity
  /\ \E e \in frame_ends :
       /\ e > polled[r]
       /\ \A f \in frame_ends : f > polled[r] => e <= f
       /\ polled' = [polled EXCEPT ![r] = e]
  /\ UNCHANGED <<header, roster, producer, rpc, rscan, slot_index, reader_gen, reader_cursor>>

(* Advance over everything polled.  The local cursor moves first; then the *)
(* generation is checked and, on success, the two stores follow.           *)
Advance(r) ==
  /\ rpc[r] = "idle" /\ polled[r] > reader_cursor[r]
  /\ reader_cursor' = [reader_cursor EXCEPT ![r] = polled[r]]
  /\ \/ /\ slot_index[r] = NoSlot
        /\ UNCHANGED <<rpc, slot_index>>
     \/ /\ slot_index[r] # NoSlot /\ generation_id[slot_index[r]] = reader_gen[r]
        /\ rpc' = [rpc EXCEPT ![r] = "advCursor"]
        /\ UNCHANGED slot_index
     \/ /\ slot_index[r] # NoSlot /\ generation_id[slot_index[r]] # reader_gen[r]
        /\ slot_index' = [slot_index EXCEPT ![r] = NoSlot]
        /\ UNCHANGED rpc
  /\ UNCHANGED <<header, roster, producer, rscan, reader_gen, polled>>

AdvanceCursor(r) ==
  /\ rpc[r] = "advCursor"
  /\ cursor' = [cursor EXCEPT ![slot_index[r]] = reader_cursor[r]]
  /\ rpc' = [rpc EXCEPT ![r] = "advHeartbeat"]
  /\ UNCHANGED <<header, active, heartbeat_ts, generation_id, producer,
                 rscan, slot_index, reader_gen, reader_cursor, polled>>

AdvanceHeartbeat(r) ==
  /\ rpc[r] = "advHeartbeat"
  /\ heartbeat_ts' = [heartbeat_ts EXCEPT ![slot_index[r]] = "fresh"]
  /\ rpc' = [rpc EXCEPT ![r] = "idle"]
  /\ UNCHANGED <<header, active, cursor, generation_id, producer,
                 rscan, slot_index, reader_gen, reader_cursor, polled>>

(* The consumer process dies anywhere in its call; whatever it left in the *)
(* roster stays there.  Its successor starts with a new BroadcastReader.   *)
Crash(r) ==
  /\ rpc[r] # "idle" \/ slot_index[r] # NoSlot
  /\ rpc' = [rpc EXCEPT ![r] = "idle"]
  /\ slot_index' = [slot_index EXCEPT ![r] = NoSlot]
  /\ rscan' = [rscan EXCEPT ![r] = 0]
  /\ reader_gen' = [reader_gen EXCEPT ![r] = 0]
  /\ polled' = [polled EXCEPT ![r] = reader_cursor[r]]
  /\ UNCHANGED <<header, roster, producer, reader_cursor>>

(* evict_timeout_ns passes without a heart-beat in this slot.              *)
HeartbeatAges(s) ==
  /\ Expiry /\ heartbeat_ts[s] = "fresh"
  /\ heartbeat_ts' = [heartbeat_ts EXCEPT ![s] = "old"]
  /\ UNCHANGED <<header, active, cursor, generation_id, producer, reader>>

-----------------------------------------------------------------------------
Reserve == \E size \in FrameSizes : ReserveFits(size) \/ ReserveScans(size)

ScanStep == ScanActive \/ ScanHeartbeat \/ ScanEvict \/ ScanCursor \/ ScanFits
            \/ \E readsClock \in BOOLEAN : ScanAgain(readsClock)

RegisterStep(r) == \/ RegisterClaim(r) \/ RegisterNextSlot(r) \/ RegisterExhausted(r)
                   \/ RegisterGeneration(r) \/ RegisterCursor(r) \/ RegisterHeartbeat(r)

AdvanceStep(r) == AdvanceCursor(r) \/ AdvanceHeartbeat(r)

Next ==
  \/ Reserve \/ ScanStep \/ Publish \/ Commit
  \/ \E r \in Readers : \/ RegisterBegin(r) \/ RegisterStep(r)
                        \/ UnregisterReader(r) \/ Crash(r)
                        \/ Poll(r) \/ Advance(r) \/ AdvanceStep(r)
  \/ \E s \in Slots : HeartbeatAges(s)

Spec == Init /\ [][Next]_vars

(* The producer keeps running, time keeps passing, and a call that began   *)
(* runs on unless its process dies.  A pass of the scan that finds no room *)
(* cannot for ever fall within the 100,000 cycles during which the clock   *)
(* is not read again.  No reader is obliged to poll or to release.         *)
Fairness ==
  /\ WF_vars(ScanStep) /\ WF_vars(Publish) /\ WF_vars(Commit)
  /\ SF_vars(ScanAgain(TRUE))
  /\ \A r \in Readers : WF_vars(RegisterStep(r)) /\ WF_vars(AdvanceStep(r))
  /\ \A s \in Slots : WF_vars(HeartbeatAges(s))

FairSpec == Spec /\ Fairness

-----------------------------------------------------------------------------
(* Properties.                                                             *)

(* The readers the producer waits for: registered, and not evicted since.  *)
Members == {r \in Readers : slot_index[r] # NoSlot /\ active[slot_index[r]]}

(* The end of what the producer may be overwriting: Reserve stamps the     *)
(* frame header before it publishes the claim.                             *)
WriteLimit == IF ppc = "publish" THEN target_cursor ELSE producer_cursor

(* Reserve's back-pressure never lets the producer write over a byte that  *)
(* a member has not released, though it trusts a minimum computed by an    *)
(* earlier scan that read the slots one by one.                            *)
NoOverrun == \A r \in Members : WriteLimit - reader_cursor[r] <= Capacity

(* RegisterReader's compare_exchange gives a slot to one reader at a time, *)
(* for as long as that reader is bound to it.                              *)
SlotsExclusive ==
  \A r, q \in Readers : r # q /\ slot_index[r] # NoSlot => slot_index[r] # slot_index[q]

(* What Advance publishes never runs ahead of what the reader has polled,  *)
(* nor that of what is committed: the producer is never told that          *)
(* something is free which a reader still reads.                           *)
CursorsOrdered ==
  /\ commit_cursor <= producer_cursor
  /\ \A r \in Readers : reader_cursor[r] <= polled[r] /\ polled[r] <= commit_cursor
  /\ \A r \in Members : cursor[slot_index[r]] <= reader_cursor[r]

(* The ring implements the abstract broadcast log.                         *)
Log == INSTANCE BroadcastLog WITH
  written <- WriteLimit, committed <- commit_cursor,
  members <- Members, released <- reader_cursor

ImplementsLog == Log!Spec

(* Reserve returns: a blocked producer is released by the readers or rids  *)
(* itself of them (the "prevent global deadlock" of the eviction code).    *)
ReserveReturns == ppc \in Scanning ~> ppc = "idle"

-----------------------------------------------------------------------------
(* The inductive invariant behind NoOverrun, SlotsExclusive and the        *)
(* refinement.  It holds under the disciplines of Disciplined only: the    *)
(* violated claims below show how each of them is needed.                  *)

Disciplined == Registration = "early" \/ (Registration = "quiescent" /\ ~Expiry)

Claiming(r) == rpc[r] \in {"generation", "cursor", "heartbeat"}
HeldSlot == [r \in Readers |-> IF Claiming(r) THEN rscan[r] ELSE slot_index[r]]

(* Who holds which slot.  A held slot is inactive only after an eviction,  *)
(* and living readers are evicted only once registration is over.          *)
HoldsSlot(r) ==
  /\ rpc[r] \in Registering => slot_index[r] = NoSlot
  /\ rpc[r] \in {"advCursor", "advHeartbeat"} => slot_index[r] # NoSlot
  /\ HeldSlot[r] # NoSlot =>
       active[HeldSlot[r]] \/ (Registration = "early" /\ producer_cursor > 0)
  /\ slot_index[r] # NoSlot => generation_id[slot_index[r]] = reader_gen[r]
  /\ rpc[r] \in {"cursor", "heartbeat"} => generation_id[rscan[r]] = reader_gen[r]
  /\ ~Expiry /\ slot_index[r] # NoSlot => heartbeat_ts[slot_index[r]] = "fresh"

HoldersDisjoint ==
  \A r, q \in Readers : r # q /\ HeldSlot[r] # NoSlot => HeldSlot[r] # HeldSlot[q]

(* Registration happens between reservations, eviction within them.        *)
PhasesDisjoint ==
  /\ \A r \in Readers : rpc[r] \in Registering =>
       ppc = "idle" /\ (Registration = "early" => producer_cursor = 0)
  /\ ppc \in Scanning => producer_cursor > 0
  /\ ~Expiry /\ ppc = "evict" => heartbeat_ts[slot] = "expired"

OwnershipInv == PhasesDisjoint /\ HoldersDisjoint /\ \A r \in Readers : HoldsSlot(r)

(* How the cursors of the header, the slots and the readers relate.        *)
CursorInv ==
  /\ commit_cursor <= producer_cursor /\ commit_cursor \in frame_ends
  /\ ppc \in Scanning \cup {"idle", "publish"} => commit_cursor = producer_cursor
  /\ ppc = "commit" => target_cursor = producer_cursor /\ target_cursor \in frame_ends
  /\ ppc \in Scanning \cup {"publish"} => producer_cursor < target_cursor
  /\ cached_min_cursor <= IF ppc = "idle" THEN producer_cursor ELSE target_cursor
  /\ ppc \in Scanning => min_c <= target_cursor
  /\ \A r \in Readers :
       /\ reader_cursor[r] <= polled[r] /\ polled[r] <= commit_cursor
       /\ rpc[r] \in Registering => reader_cursor[r] = commit_cursor
       /\ rpc[r] = "heartbeat" => cursor[rscan[r]] = reader_cursor[r]

(* Every member was seen by the scan that computed the minimum in use.     *)
Visited(s) == ppc = "decide" \/ s < slot

Covered(r) ==
  LET c == cursor[slot_index[r]] IN
  /\ cached_min_cursor <= c /\ c <= reader_cursor[r]
  /\ ppc \in Scanning /\ Visited(slot_index[r]) => min_c <= c
  /\ WriteLimit - c <= Capacity

MemberInv == \A r \in Members : Covered(r)

RosterInv == TypeOK /\ OwnershipInv /\ CursorInv /\ MemberInv

-----------------------------------------------------------------------------
(* What the repository says of this code and the code does not do.         *)

(* benchmarks.md says the cursor scan gives "a mathematical guarantee of   *)
(* zero data loss": no registered, unevicted reader finds itself lapped.   *)
(* This is NoOverrun, asked of readers that join when they like.           *)
ZeroDataLoss == \A r \in Members : WriteLimit - reader_cursor[r] <= Capacity

(* Advance checks the generation "to prevent the Eviction ABA race": its   *)
(* stores reach a slot only while that slot is the reader's own.           *)
StoresOwnSlot ==
  [][\A r \in Readers : AdvanceCursor(r) => generation_id[slot_index[r]] = reader_gen[r]]_vars
=============================================================================
