----------------------------- MODULE BoundedQueue -----------------------------
(* What SpscRingBuffer promises: a first-in first-out queue of bounded     *)
(* length.                                                                 *)
EXTENDS Integers, Sequences

CONSTANTS Items, Capacity

VARIABLES queue, out   \* out: what the last pop returned

vars == <<queue, out>>

Init == queue = <<>> /\ out \notin Items

Push(item) == Len(queue) < Capacity /\ queue' = Append(queue, item) /\ UNCHANGED out

Pop == queue # <<>> /\ out' = Head(queue) /\ queue' = Tail(queue)

Next == Pop \/ \E item \in Items : Push(item)

Spec == Init /\ [][Next]_vars
=============================================================================
