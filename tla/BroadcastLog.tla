----------------------------- MODULE BroadcastLog -----------------------------
(***************************************************************************)
(* What the broadcast ring promises its users: a log that one producer     *)
(* appends to and that members consume at their own pace, in which the     *)
(* producer never runs more than Capacity ahead of a member.  Who is not a *)
(* member (not registered, or evicted) is promised nothing.                *)
(***************************************************************************)
EXTENDS Integers

CONSTANTS Readers, Capacity

VARIABLES
  written,     \* the end of what the producer may have overwritten
  committed,   \* the end of what consumers may read
  members,     \* the readers the producer waits for
  released     \* what each reader has finished with

vars == <<written, committed, members, released>>

Init ==
  /\ written = 0 /\ committed = 0
  /\ members = {}
  /\ released = [r \in Readers |-> 0]

(* Back-pressure: room for the frame in front of every member.             *)
Append ==
  /\ written' > written
  /\ \A r \in members : written' - released[r] <= Capacity
  /\ UNCHANGED <<committed, members, released>>

Commit ==
  /\ committed' = written
  /\ UNCHANGED <<written, members, released>>

Join(r) ==
  /\ r \notin members /\ written - released[r] <= Capacity
  /\ members' = members \cup {r}
  /\ UNCHANGED <<written, committed, released>>

Leave(r) ==
  /\ members' = members \ {r}
  /\ UNCHANGED <<written, committed, released>>

(* A member only moves forward, and never past what is committed.          *)
Release(r) ==
  /\ r \in members
  /\ \E p \in released[r] .. committed : released' = [released EXCEPT ![r] = p]
  /\ UNCHANGED <<written, committed, members>>

(* Anyone else may look at any committed position.                         *)
Seek(r) ==
  /\ r \notin members
  /\ \E p \in 0 .. committed : released' = [released EXCEPT ![r] = p]
  /\ UNCHANGED <<written, committed, members>>

Next ==
  \/ Append \/ Commit
  \/ \E r \in Readers : Join(r) \/ Leave(r) \/ Release(r) \/ Seek(r)

Spec == Init /\ [][Next]_vars
=============================================================================
