---------------------------- MODULE AtomicSnapshot ----------------------------
(***************************************************************************)
(* What a sequence lock promises: a payload of several fields that is      *)
(* written and read as if each were done in one step.  A read returns the  *)
(* payload as it is at one moment of the call, so two reads never see the  *)
(* writes in different orders and no read returns a mixture.               *)
(***************************************************************************)
CONSTANTS Readers, Payloads

VARIABLES
  value,    \* the payload
  result    \* what each reader's last read returned

vars == <<value, result>>

Write == value' \in Payloads /\ UNCHANGED result

Read(r) == result' = [result EXCEPT ![r] = value] /\ UNCHANGED value

Init == value \in Payloads /\ result = [r \in Readers |-> value]

Next == Write \/ \E r \in Readers : Read(r)

Spec == Init /\ [][Next]_vars
=============================================================================
