-------------------------- MODULE MCBroadcastFrames --------------------------
(* Small instances of BroadcastFrames for TLC. *)
EXTENDS BroadcastFrames

(* Frames of two sizes, with readers that are evicted.                     *)
Mixed == {[sizes |-> {1, 3}, evicts |-> TRUE, dies |-> {}, recovers |-> FALSE]}

(* A producer that dies while it writes its payload, and its successor.    *)
Recovery == {[sizes |-> {2}, evicts |-> TRUE, dies |-> {"payload"}, recovers |-> TRUE]}

(* Payload that reads like a frame being written, or like a whole one.     *)
Bits == {[version |-> 1, length |-> 0], [version |-> 2, length |-> 1]}

FairSpec == Spec /\ Fairness
=============================================================================
