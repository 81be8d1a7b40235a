-------------------------- MODULE MCBroadcastRoster --------------------------
(* The ring's segments and its roster for TLC.  A behaviour is about one   *)
(* of three things: processes that make, attach to and remove the two      *)
(* segments; readers that come and go between reservations, as in the cfg; *)
(* or the stress test, whose readers register before the first frame and   *)
(* whose heart-beats may expire.                                           *)
EXTENDS BroadcastRoster, TLC

CONSTANTS Processes, Segments, None     \* SharedMemory

VARIABLES deployment, name, made, sized, capacity, pc, at, map, crashed

Stressed == INSTANCE BroadcastRoster WITH Registration <- "early", Expiry <- TRUE, MaxGen <- 1

SM == INSTANCE SharedMemory

segments == <<name, made, sized, capacity, pc, at, map, crashed>>

MCInit == Init /\ SM!Init /\ deployment \in {"segments", "churn", "stress test"}

MCNext ==
  /\ UNCHANGED deployment
  /\ \/ deployment = "segments" /\ SM!Next /\ UNCHANGED vars
     \/ deployment = "churn" /\ Next /\ UNCHANGED segments
     \/ deployment = "stress test" /\ Stressed!Next /\ UNCHANGED segments

MCSpec == MCInit /\ [][MCNext]_<<vars, deployment, segments>>

(* The readers run the same code: safety runs may permute them.            *)
Symmetry == Permutations(Readers)

(* The segments' properties under names of their own.                      *)
AttachedToOneRing == SM!AttachedToOneRing
OnlyOwnNames == SM!OnlyOwnNames
AllOrNothing == SM!AllOrNothing
=============================================================================
