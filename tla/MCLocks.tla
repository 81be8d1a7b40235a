------------------------------- MODULE MCLocks -------------------------------
(* What threads share for TLC: the locks, the single-producer ring, the    *)
(* sequence lock and the route cache.  A behaviour exercises one of them,  *)
(* so their state spaces add up instead of multiplying.                    *)
EXTENDS Locks, Sequences

CONSTANTS
  Items, NoItem, Capacity, Modulus,     \* SpscRing
  Readers, Fields, MaxWrites,           \* SeqLock
  Writers, Cached                       \* RouteCache: its writers and readers

VARIABLES
  part,
  write_idx_, read_idx_, slots_, ppc, pushing, kpc, popping, out,
  sequence, data, written, unstored, rpc, start_seq, local, uncopied, result,
  seq_, entry, begun, wpc, s, wvalue, todo, cpc, s0, s1, copy, uncached, floor

Ring == INSTANCE SpscRing
SL == INSTANCE SeqLock
RC == INSTANCE RouteCache WITH
  Readers <- Cached, unstored <- todo, rpc <- cpc, uncopied <- uncached

ring == <<write_idx_, read_idx_, slots_, ppc, pushing, kpc, popping, out>>
seqlock == <<sequence, data, written, unstored, rpc, start_seq, local, uncopied, result>>
cache == <<seq_, entry, begun, wpc, s, wvalue, todo, cpc, s0, s1, copy, uncached, floor>>

MCInit ==
  /\ part \in {"Locks", "SpscRing", "SeqLock", "RouteCache"}
  /\ Init /\ Ring!Init /\ SL!Init /\ RC!Init
  /\ part # "Locks" => kind = "NaiveTASLock"

MCNext ==
  /\ UNCHANGED part
  /\ \/ part = "Locks" /\ Next /\ UNCHANGED <<ring, seqlock, cache>>
     \/ part = "SpscRing" /\ Ring!Next /\ UNCHANGED <<vars, seqlock, cache>>
     \/ part = "SeqLock" /\ SL!Next /\ UNCHANGED <<vars, ring, cache>>
     \/ part = "RouteCache" /\ RC!Next /\ UNCHANGED <<vars, ring, seqlock>>

MCSpec ==
  /\ MCInit /\ [][MCNext]_<<part, vars, ring, seqlock, cache>>
  /\ Fairness /\ SL!Fairness /\ RC!Fairness

(* Properties of the other three under names of their own.                 *)
SlotsApart == Ring!SlotsApart
ImplementsQueue == Ring!ImplementsQueue
SeqLockInv == SL!SeqLockInv
ImplementsSnapshot == SL!ImplementsSnapshot
ReadReturns == SL!ReadReturns
CacheReadsFresh == RC!CacheReadsFresh
CacheReadReturns == RC!ReadReturns
=============================================================================
