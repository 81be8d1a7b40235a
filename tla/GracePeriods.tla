----------------------------- MODULE GracePeriods -----------------------------
(* What reclamation promises: an object is given back only after everybody *)
(* whose pin could be seen when it was retired has left its section.  Ebr  *)
(* is shown to keep this promise, and RcuHashMap relies on no more.        *)
CONSTANTS Threads, Objects

VARIABLES
  pinned,     \* the threads in a section whose pin can be seen
  retired     \* <<object, the threads it waits for>>

Init == pinned = {} /\ retired = {}

(* The pin of t becomes visible, which may be long after t has entered.    *)
Enter(t) ==
  /\ pinned' = pinned \cup {t}
  /\ UNCHANGED retired

Leave(t) ==
  /\ pinned' = pinned \ {t}
  /\ retired' = {<<x[1], x[2] \ {t}>> : x \in retired}

Retire(o) ==
  /\ retired' = retired \cup {<<o, pinned>>}
  /\ UNCHANGED pinned

Reclaim(past) ==
  /\ past # {} /\ past \subseteq {x \in retired : x[2] = {}}
  /\ retired' = retired \ past
  /\ UNCHANGED pinned

Next ==
  \/ \E t \in Threads : Enter(t) \/ Leave(t)
  \/ \E o \in Objects : Retire(o)
  \/ \E past \in SUBSET retired : Reclaim(past)

Spec == Init /\ [][Next]_<<pinned, retired>>
===============================================================================
