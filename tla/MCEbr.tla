-------------------------------- MODULE MCEbr --------------------------------
(* Instances of Ebr: blocks and nodes are interchangeable.                 *)
EXTENDS Ebr, TLC

Symmetry == Permutations(Tcbs) \cup Permutations(Nodes)
=============================================================================
