------------------------------ MODULE TsoMemory ------------------------------
(***************************************************************************)
(* Memory as x86 gives it to the experiments of                            *)
(* common/store_buffer/challenge.cc: a store waits in the buffer of its    *)
(* core, behind the earlier ones, and only this core reads it there.  What *)
(* must be visible before the core goes on waits for the buffer to drain:  *)
(* a seq_cst store (xchg) and an arrival at a barrier.                     *)
(***************************************************************************)
EXTENDS Integers, Sequences

CONSTANTS Cores, Cells

VARIABLES memory, buffer

InitMemory ==
  /\ memory = [a \in Cells |-> 0]
  /\ buffer = [t \in Cores |-> <<>>]

Store(t, a, v) ==
  /\ buffer' = [buffer EXCEPT ![t] = Append(@, <<a, v>>)]
  /\ UNCHANGED memory

Load(t, a) ==
  LET own == {i \in DOMAIN buffer[t] : buffer[t][i][1] = a} IN
  IF own = {} THEN memory[a]
  ELSE buffer[t][CHOOSE i \in own : \A j \in own : j <= i][2]

Drained(t) == buffer[t] = <<>>

Drain(t) ==
  /\ buffer[t] # <<>>
  /\ LET first == Head(buffer[t]) IN memory' = [memory EXCEPT ![first[1]] = first[2]]
  /\ buffer' = [buffer EXCEPT ![t] = Tail(@)]
===============================================================================
