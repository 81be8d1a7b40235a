---------------------------- MODULE ConcurrentMap ----------------------------
(* What RcuHashMap promises: every Put and Remove takes effect at once,    *)
(* and a Get returns what its key held at some moment of the call, unless  *)
(* it has been abandoned.                                                  *)
CONSTANTS Readers, Keys, Values,
  Absent,   \* what a key holds that is not in the map
  None      \* no key, no result

VARIABLES
  map,      \* what each key holds
  key,      \* the key each reader looks up,
  held,     \*   what that key has held since the call began,
  result    \*   and what the call returns

vars == <<map, key, held, result>>

Init ==
  /\ map = [k \in Keys |-> Absent]
  /\ key = [r \in Readers |-> None]
  /\ held = [r \in Readers |-> {}]
  /\ result = [r \in Readers |-> None]

Set(k, v) ==
  /\ UNCHANGED <<key, result>>
  /\ held' = [r \in Readers |-> IF key[r] = k THEN held[r] \cup {v} ELSE held[r]]
  /\ map' = [map EXCEPT ![k] = v]

Call(r, k) ==
  /\ key[r] = None /\ result[r] = None
  /\ key' = [key EXCEPT ![r] = k]
  /\ held' = [held EXCEPT ![r] = {map[k]}]
  /\ UNCHANGED <<map, result>>

Find(r, v) ==
  /\ key[r] # None /\ v \in held[r]
  /\ key' = [key EXCEPT ![r] = None]
  /\ held' = [held EXCEPT ![r] = {}]
  /\ result' = [result EXCEPT ![r] = v]
  /\ UNCHANGED map

Return(r) ==
  /\ result[r] # None
  /\ result' = [result EXCEPT ![r] = None]
  /\ UNCHANGED <<map, key, held>>

(* Nothing is promised of Gets that have lost their protection.            *)
Abandon(S) ==
  /\ key' = [r \in Readers |-> IF r \in S THEN None ELSE key[r]]
  /\ held' = [r \in Readers |-> IF r \in S THEN {} ELSE held[r]]
  /\ UNCHANGED <<result, map>>

(* The end of the map, when nobody uses it.                                *)
Destroy ==
  /\ \A r \in Readers : key[r] = None
  /\ map' = [k \in Keys |-> Absent]
  /\ UNCHANGED <<key, held, result>>

Next ==
  \/ \E r \in Readers : \/ \E k \in Keys : Call(r, k)
                        \/ \E v \in held[r] : Find(r, v)
                        \/ Return(r)
  \/ \E S \in SUBSET Readers : Abandon(S)
  \/ \E k \in Keys, v \in Values \cup {Absent} : Set(k, v)
  \/ Destroy

Spec == Init /\ [][Next]_vars
==============================================================================
