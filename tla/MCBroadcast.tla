----------------------------- MODULE MCBroadcast -----------------------------
(* The broadcast ring for TLC where calls must return: its frames over two *)
(* laps, and its roster with one slot, readers that register at any time   *)
(* and heart-beats that expire.  A behaviour exercises one of the two, so  *)
(* their state spaces add up instead of multiplying.                       *)
EXTENDS BroadcastFrames

CONSTANT Consumers

VARIABLES
  part, claimed, committed, frame_ends, active, slot_cursor, heartbeat_ts, generation_id, scan_pc,
  slot, target_cursor, min_c, cached_min_cursor, register_pc, rscan, slot_index, reader_gen,
  reader_cursor, polled

Roster == INSTANCE BroadcastRoster WITH
  Readers <- Consumers, NumSlots <- 1, Capacity <- 1, FrameSizes <- {1}, Registration <- "any",
  Expiry <- TRUE, MaxCursor <- 2, MaxGen <- 2,
  producer_cursor <- claimed, commit_cursor <- committed, cursor <- slot_cursor,
  ppc <- scan_pc, rpc <- register_pc

roster == <<claimed, committed, frame_ends, active, slot_cursor, heartbeat_ts, generation_id,
            scan_pc, slot, target_cursor, min_c, cached_min_cursor, register_pc, rscan, slot_index,
            reader_gen, reader_cursor, polled>>

MCInit == part \in {"BroadcastFrames", "BroadcastRoster"} /\ Init /\ Roster!Init

MCNext ==
  /\ UNCHANGED part
  /\ \/ part = "BroadcastFrames" /\ Next /\ UNCHANGED roster
     \/ part = "BroadcastRoster" /\ Roster!Next /\ UNCHANGED vars

MCSpec == MCInit /\ [][MCNext]_<<part, vars, roster>> /\ Fairness /\ Roster!Fairness

(* Frames of one size that divides the ring, with readers that are evicted *)
(* and a producer that is replaced when it dies with its frames sealed;    *)
(* and frames of two sizes, with readers that are not evicted and a        *)
(* producer that dies while it writes a frame and stays dead.              *)
Sound ==
  {[sizes |-> {2}, evicts |-> TRUE, dies |-> {"idle", "commit"}, recovers |-> TRUE],
   [sizes |-> {1, 3}, evicts |-> FALSE, dies |-> {"header", "payload"}, recovers |-> FALSE]}

(* Payload that reads like a frame being written, or like a whole one.     *)
Bits == {[version |-> 1, length |-> 0], [version |-> 2, length |-> 1]}

(* The roster's property under a name of its own.                          *)
ReserveReturns == Roster!ReserveReturns
=============================================================================
