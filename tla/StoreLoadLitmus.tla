--------------------------- MODULE StoreLoadLitmus ---------------------------
(***************************************************************************)
(* RunStoreLoadLitmusTest (common/store_buffer/challenge.cc): Dekker's     *)
(* store-load test, trial after trial.  Thread 0 stores x and loads y,     *)
(* thread 1 stores y and loads x; two barriers a trial keep them together, *)
(* and between the second and the next first one thread 1 looks at both    *)
(* results and clears x and y.                                             *)
(***************************************************************************)
EXTENDS TsoMemory

VARIABLES
  UseSeqCst,     \* the template argument
  pc,
  r              \* what each thread has loaded: r1 and r2

vars == <<memory, buffer, UseSeqCst, pc, r>>

Flag == [t \in Cores |-> IF t = 0 THEN <<"x">> ELSE <<"y">>]

Init ==
  /\ InitMemory
  /\ UseSeqCst \in BOOLEAN
  /\ pc = [t \in Cores |-> IF t = 0 THEN "arrive" ELSE "reset_x"]
  /\ r = [t \in Cores |-> 0]

Goto(t, l) == pc' = [pc EXCEPT ![t] = l]

ResetX ==
  /\ pc[1] = "reset_x"
  /\ Store(1, Flag[0], 0)
  /\ Goto(1, "reset_y")
  /\ UNCHANGED <<UseSeqCst, r>>

ResetY ==
  /\ pc[1] = "reset_y"
  /\ Store(1, Flag[1], 0)
  /\ Goto(1, "arrive")
  /\ UNCHANGED <<UseSeqCst, r>>

(* std::barrier: the arrivals are atomic operations, which drain.          *)
Trial ==
  /\ \A t \in Cores : pc[t] = "arrive" /\ Drained(t)
  /\ pc' = [t \in Cores |-> "store"]
  /\ UNCHANGED <<memory, buffer, UseSeqCst, r>>

StoreFlag(t) ==
  /\ pc[t] = "store"
  /\ Store(t, Flag[t], 1)
  /\ Goto(t, "load")
  /\ UNCHANGED <<UseSeqCst, r>>

\* Mutant: the load does not wait for the seq_cst store.
LoadFlagEarly(t) ==
  /\ pc[t] = "load"
  /\ r' = [r EXCEPT ![t] = Load(t, Flag[1 - t])]
  /\ Goto(t, "done")
  /\ UNCHANGED <<memory, buffer, UseSeqCst>>

LoadFlag(t) ==
  /\ pc[t] = "load"
  /\ UseSeqCst => Drained(t)
  /\ r' = [r EXCEPT ![t] = Load(t, Flag[1 - t])]
  /\ Goto(t, "done")
  /\ UNCHANGED <<memory, buffer, UseSeqCst>>

TrialEnds ==
  /\ \A t \in Cores : pc[t] = "done" /\ Drained(t)
  /\ pc' = [t \in Cores |-> IF t = 0 THEN "arrive" ELSE "count"]
  /\ UNCHANGED <<memory, buffer, UseSeqCst, r>>

Count ==
  /\ pc[1] = "count"
  /\ Goto(1, "reset_x")
  /\ UNCHANGED <<memory, buffer, UseSeqCst, r>>

Next ==
  \/ ResetX \/ ResetY \/ Trial \/ TrialEnds \/ Count
  \/ \E t \in Cores : \/ StoreFlag(t) \/ LoadFlag(t)
                      \/ Drain(t) /\ UNCHANGED <<UseSeqCst, pc, r>>

Spec == Init /\ [][Next]_vars

-----------------------------------------------------------------------------
(* With seq_cst stores no trial ends with both loads having missed the     *)
(* other's store: the challenge passes only if both_zero_reordered is 0.   *)
NeverBothZero == pc[1] = "count" /\ UseSeqCst => r[0] = 1 \/ r[1] = 1

(* The inductive invariant: nothing but its own flag leaves the buffer of  *)
(* a thread in a trial, and who has loaded after a seq_cst store has its   *)
(* flag in memory.                                                         *)
Trying == {"store", "load", "done"}

Raised(t) == Drained(t) /\ memory[Flag[t]] = 1

LitmusInv ==
  /\ DOMAIN pc = Cores /\ DOMAIN r = Cores /\ DOMAIN buffer = Cores /\ DOMAIN memory = Cells
  /\ pc[0] \in Trying \cup {"arrive"}
  /\ (pc[0] \in Trying) <=> (pc[1] \in Trying)
  /\ \A t \in Cores :
       /\ pc[t] = "store" => Drained(t)
       /\ pc[t] \in {"load", "done"} => buffer[t] = <<<<Flag[t], 1>>>> \/ Raised(t)
       /\ UseSeqCst /\ pc[t] = "done" => Drained(t)
  /\ UseSeqCst /\ (\A t \in Cores : pc[t] = "done") => r[0] = 1 \/ r[1] = 1
  /\ NeverBothZero
===============================================================================
