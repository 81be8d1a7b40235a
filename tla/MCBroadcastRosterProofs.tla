------------------------ MODULE MCBroadcastRosterProofs ----------------------
(***************************************************************************)
(* The two segments of the ring, for any number of processes and segments, *)
(* though calls fail and processes die anywhere: whoever is attached is    *)
(* attached to one ring, a Create that fails undoes its own names only,    *)
(* and unless a process has died both names are there or neither.          *)
(***************************************************************************)
EXTENDS MCBroadcastRoster, TLAPS

NoneIsNoSegment == None \notin Segments

(* A step that leaves the names alone and ends without owning any.         *)
LEMMA NotAnOwner ==
  ASSUME SM!TypeOK, SM!OwnersInv, NEW p \in Processes,
         UNCHANGED <<name, sized, capacity>>,
         \A q \in Processes \ {p} : pc'[q] = pc[q] /\ at'[q] = at[q] /\ map'[q] = map[q],
         pc'[p] \in {"idle", "read", "open", "up", "unlink", "dead", "killed"}
  PROVE  SM!OwnersInv'
<1>1. ~SM!OwnsMeta(p)' /\ ~SM!OwnsData(p)'
  BY DEF SM!OwnsMeta, SM!OwnsData
<1>2. \A q \in Processes \ {p} : (SM!OwnsMeta(q)' <=> SM!OwnsMeta(q)) /\ (SM!OwnsData(q)' <=> SM!OwnsData(q))
  BY DEF SM!OwnsMeta, SM!OwnsData
<1> QED
  BY <1>1, <1>2 DEF SM!OwnersInv

(* Create only moves its process: it makes no name yet.                    *)
LEMMA CreateStep ==
  ASSUME NoneIsNoSegment, SM!SegmentsInv, NEW p \in Processes, SM!Create(p)
  PROVE  SM!SegmentsInv'
<1>1. SM!TypeOK'
  BY DEF SM!SegmentsInv, SM!TypeOK, SM!Labels, SM!Names, SM!Create, SM!Goto, SM!files
<1>2. SM!OwnersInv'
  BY DEF SM!SegmentsInv, SM!TypeOK, SM!OwnersInv, SM!OwnsMeta, SM!OwnsData, SM!UnlinkInv,
     SM!Labels, SM!Names, SM!Create, SM!Goto, SM!files
<1>3. SM!RingsInv'
  BY DEF SM!SegmentsInv, SM!TypeOK, SM!OwnersInv, SM!OwnsMeta, SM!OwnsData, SM!RingsInv,
     SM!UnlinkInv, SM!Labels, SM!Names, SM!Create, SM!Goto, SM!files
<1>4. SM!AttachInv'
  BY DEF SM!SegmentsInv, SM!TypeOK, SM!OwnersInv, SM!OwnsMeta, SM!OwnsData, SM!RingsInv,
     SM!AttachInv, SM!Labels, SM!Names, SM!Create, SM!Goto, SM!files
<1>5. SM!UnlinkInv'
  BY DEF SM!SegmentsInv, SM!TypeOK, SM!OwnersInv, SM!OwnsMeta, SM!UnlinkInv, SM!Labels, SM!Names,
     SM!Create, SM!Goto, SM!files
<1> QED
  BY <1>1, <1>2, <1>3, <1>4, <1>5 DEF SM!SegmentsInv

(* shm_open with O_EXCL gives the name a segment nobody has a header for.  *)
LEMMA ShmOpenStep ==
  ASSUME NoneIsNoSegment, SM!SegmentsInv, NEW p \in Processes, SM!ShmOpen(p)
  PROVE  SM!SegmentsInv'
<1> DEFINE s == SM!New
           n == at[p]
<1>0. /\ s \in Segments /\ s \notin made /\ s # None
      /\ pc[p] = "create" /\ name[n] = None /\ n \in SM!Names
      /\ name' = [name EXCEPT ![n] = s] /\ made' = made \cup {s}
      /\ map' = [map EXCEPT ![p][n] = s]
      /\ pc' = [pc EXCEPT ![p] = "size"] /\ at' = [at EXCEPT ![p] = n]
      /\ UNCHANGED <<sized, capacity>>
  BY DEF SM!SegmentsInv, SM!TypeOK, NoneIsNoSegment, SM!ShmOpen, SM!New, SM!Goto
<1>01. /\ capacity[s] = None /\ \A t \in Segments : capacity[t] # s
       /\ \A q \in Processes : map[q]["meta"] # s /\ map[q]["data"] # s
  BY <1>0 DEF SM!SegmentsInv, SM!TypeOK, SM!RingsInv, SM!Names
<1> HIDE DEF s, n
<1>1. SM!TypeOK'
  <2>1. [map[p] EXCEPT ![n] = s] \in [SM!Names -> made' \cup {None}]
    BY <1>0 DEF SM!SegmentsInv, SM!TypeOK
  <2> QED
    BY <1>0, <2>1 DEF SM!SegmentsInv, SM!TypeOK, SM!Labels
<1>2. SM!OwnersInv'
  <2>1. \A q \in Processes \ {p} : ~SM!OwnsMeta(q)
    <3>1. CASE n = "meta"
      BY <1>0, <3>1 DEF SM!SegmentsInv, SM!OwnersInv
    <3>2. CASE n # "meta"
      <4>1. SM!OwnsMeta(p)
        BY <1>0, <3>2 DEF SM!OwnsMeta, SM!Names, n
      <4> QED
        BY <4>1 DEF SM!SegmentsInv, SM!OwnersInv
    <3> QED
      BY <3>1, <3>2
  <2>2. \A q \in Processes \ {p} : pc'[q] = pc[q] /\ at'[q] = at[q] /\ map'[q] = map[q]
    BY <1>0 DEF SM!SegmentsInv, SM!TypeOK
  <2>3. \A q \in Processes \ {p} : ~SM!OwnsMeta(q)' /\ ~SM!OwnsData(q)' /\ pc'[q] \notin {"header", "map", "abandon"}
    BY <2>1, <2>2 DEF SM!OwnsMeta, SM!OwnsData
  <2>4. pc'[p] = "size" /\ at'[p] = n /\ map'[p] = [map[p] EXCEPT ![n] = s]
    BY <1>0 DEF SM!SegmentsInv, SM!TypeOK
  <2>5. CASE n = "meta"
    <3>1. map'[p]["meta"] = s /\ name'["meta"] = s
      BY <1>0, <2>4, <2>5 DEF SM!SegmentsInv, SM!TypeOK, SM!Names
    <3> QED
      BY <1>0, <1>01, <2>3, <2>4, <2>5, <3>1 DEF SM!OwnersInv, SM!OwnsMeta, SM!OwnsData
  <2>6. CASE n = "data"
    <3>1. SM!OwnsMeta(p)
      BY <1>0, <2>6 DEF SM!OwnsMeta, n
    <3>2. /\ map'[p]["meta"] = map[p]["meta"] /\ name'["meta"] = name["meta"]
          /\ map'[p]["data"] = s /\ name'["data"] = s
      BY <1>0, <2>4, <2>6 DEF SM!SegmentsInv, SM!TypeOK, SM!Names
    <3>3. /\ map[p]["meta"] # None /\ name["meta"] = map[p]["meta"]
          /\ capacity[map[p]["meta"]] = None /\ map[p]["meta"] \in sized
      BY <1>0, <2>6, <3>1 DEF SM!SegmentsInv, SM!OwnersInv, n
    <3> QED
      BY <1>0, <1>01, <2>3, <2>4, <2>6, <3>2, <3>3 DEF SM!OwnersInv, SM!OwnsMeta, SM!OwnsData
  <2> QED
    BY <1>0, <2>5, <2>6 DEF SM!Names
<1>3. SM!RingsInv'
  BY <1>0, <1>01 DEF SM!SegmentsInv, SM!TypeOK, SM!OwnersInv, SM!OwnsMeta, SM!RingsInv, SM!Names
<1>4. SM!AttachInv'
  BY <1>0, <1>01 DEF SM!SegmentsInv, SM!TypeOK, SM!RingsInv, SM!AttachInv, SM!Labels, SM!Names
<1>5. SM!UnlinkInv'
  BY <1>0 DEF SM!SegmentsInv, SM!TypeOK, SM!UnlinkInv, SM!Labels
<1> QED
  BY <1>1, <1>2, <1>3, <1>4, <1>5 DEF SM!SegmentsInv

(* Where shm_open fails nothing is undone: only the other name is given up.*)
LEMMA ShmOpenFailsStep ==
  ASSUME NoneIsNoSegment, SM!SegmentsInv, NEW p \in Processes, SM!ShmOpenFails(p)
  PROVE  SM!SegmentsInv'
<1>1. SM!TypeOK'
  <2>1. CASE at[p] = "meta"
    BY <2>1 DEF SM!SegmentsInv, SM!TypeOK, SM!Labels, SM!Names, SM!ShmOpenFails, SM!Goto,
       SM!Return, SM!NoMap, SM!files
  <2>2. CASE at[p] # "meta"
    BY <2>2 DEF SM!SegmentsInv, SM!TypeOK, SM!Labels, SM!Names, SM!ShmOpenFails, SM!Goto,
       SM!Return, SM!NoMap, SM!files
  <2> QED
    BY <2>1, <2>2
<1>2. SM!OwnersInv'
  <2>1. /\ UNCHANGED <<name, sized, capacity>> /\ pc[p] = "create" /\ at[p] \in SM!Names
        /\ \A q \in Processes \ {p} : pc'[q] = pc[q] /\ at'[q] = at[q] /\ map'[q] = map[q]
    BY DEF SM!SegmentsInv, SM!TypeOK, SM!ShmOpenFails, SM!Goto, SM!Return, SM!files
  <2>2. CASE at[p] = "meta"
    <3>1. pc'[p] = "idle"
      BY <2>2 DEF SM!SegmentsInv, SM!TypeOK, SM!ShmOpenFails, SM!Goto, SM!Return
    <3> QED
      BY <2>1, <3>1, NotAnOwner DEF SM!SegmentsInv
  <2>3. CASE at[p] = "data"
    <3>1. pc'[p] = "abandon" /\ at'[p] = "meta" /\ map' = map
      BY <2>3 DEF SM!SegmentsInv, SM!TypeOK, SM!ShmOpenFails, SM!Goto
    <3>2. \A q \in Processes \ {p} : (SM!OwnsMeta(q)' <=> SM!OwnsMeta(q)) /\ (SM!OwnsData(q)' <=> SM!OwnsData(q))
      BY <2>1 DEF SM!OwnsMeta, SM!OwnsData
    <3>3. SM!OwnsMeta(p) /\ SM!OwnsMeta(p)' /\ ~SM!OwnsData(p)'
      BY <2>1, <2>3, <3>1 DEF SM!OwnsMeta, SM!OwnsData
    <3> QED
      BY <2>1, <3>1, <3>2, <3>3 DEF SM!SegmentsInv, SM!OwnersInv
  <2> QED
    BY <2>1, <2>2, <2>3 DEF SM!Names
<1>3. SM!RingsInv'
  BY DEF SM!SegmentsInv, SM!TypeOK, SM!OwnersInv, SM!OwnsMeta, SM!OwnsData, SM!RingsInv,
     SM!UnlinkInv, SM!Labels, SM!Names, SM!ShmOpenFails, SM!Goto, SM!Return, SM!NoMap, SM!files
<1>4. SM!AttachInv'
  BY DEF SM!SegmentsInv, SM!TypeOK, SM!OwnersInv, SM!OwnsMeta, SM!OwnsData, SM!RingsInv,
     SM!AttachInv, SM!Labels, SM!Names, SM!ShmOpenFails, SM!Goto, SM!Return, SM!NoMap, SM!files
<1>5. SM!UnlinkInv'
  BY DEF SM!SegmentsInv, SM!TypeOK, SM!OwnersInv, SM!OwnsMeta, SM!UnlinkInv, SM!Labels, SM!Names,
     SM!ShmOpenFails, SM!Goto, SM!Return, SM!NoMap, SM!files
<1> QED
  BY <1>1, <1>2, <1>3, <1>4, <1>5 DEF SM!SegmentsInv

(* ftruncate gives pages to the segment its process has made.              *)
LEMMA FtruncateStep ==
  ASSUME NoneIsNoSegment, SM!SegmentsInv, NEW p \in Processes, SM!Ftruncate(p)
  PROVE  SM!SegmentsInv'
<1>1. SM!TypeOK'
  BY DEF SM!SegmentsInv, SM!TypeOK, SM!OwnersInv, SM!OwnsMeta, SM!OwnsData, SM!Labels, SM!Names,
     SM!Ftruncate, SM!Goto, SM!files
<1>2. SM!OwnersInv'
  BY DEF SM!SegmentsInv, SM!TypeOK, SM!OwnersInv, SM!OwnsMeta, SM!OwnsData, SM!UnlinkInv,
     SM!Labels, SM!Names, SM!Ftruncate, SM!Goto, SM!files
<1>3. SM!RingsInv'
  BY DEF SM!SegmentsInv, SM!TypeOK, SM!OwnersInv, SM!OwnsMeta, SM!OwnsData, SM!RingsInv,
     SM!UnlinkInv, SM!Labels, SM!Names, SM!Ftruncate, SM!Goto, SM!files
<1>4. SM!AttachInv'
  BY DEF SM!SegmentsInv, SM!TypeOK, SM!OwnersInv, SM!OwnsMeta, SM!OwnsData, SM!RingsInv,
     SM!AttachInv, SM!Labels, SM!Names, SM!Ftruncate, SM!Goto, SM!files
<1>5. SM!UnlinkInv'
  BY DEF SM!SegmentsInv, SM!TypeOK, SM!OwnersInv, SM!OwnsMeta, SM!UnlinkInv, SM!Labels, SM!Names,
     SM!Ftruncate, SM!Goto, SM!files
<1> QED
  BY <1>1, <1>2, <1>3, <1>4, <1>5 DEF SM!SegmentsInv

(* Once a segment has pages its process goes on to the next name or to the header. *)
LEMMA DoMapStep ==
  ASSUME NoneIsNoSegment, SM!SegmentsInv, NEW p \in Processes, SM!DoMap(p)
  PROVE  SM!SegmentsInv'
<1>1. SM!TypeOK'
  BY DEF SM!SegmentsInv, SM!TypeOK, SM!Labels, SM!Names, SM!DoMap, SM!Goto, SM!files
<1>2. SM!OwnersInv'
  <2>1. /\ UNCHANGED <<name, sized, capacity, map>> /\ pc[p] = "map"
        /\ \A q \in Processes \ {p} : pc'[q] = pc[q] /\ at'[q] = at[q]
    BY DEF SM!SegmentsInv, SM!TypeOK, SM!DoMap, SM!Goto, SM!files
  <2>2. \A q \in Processes \ {p} : (SM!OwnsMeta(q)' <=> SM!OwnsMeta(q)) /\ (SM!OwnsData(q)' <=> SM!OwnsData(q))
    BY <2>1 DEF SM!OwnsMeta, SM!OwnsData
  <2>3. SM!OwnsMeta(p) /\ map[p][at[p]] \in sized /\ at[p] \in SM!Names
    BY <2>1 DEF SM!SegmentsInv, SM!TypeOK, SM!OwnersInv, SM!OwnsMeta
  <2>4. CASE at[p] = "meta"
    <3>1. pc'[p] = "create" /\ at'[p] = "data"
      BY <2>4 DEF SM!SegmentsInv, SM!TypeOK, SM!DoMap, SM!Goto
    <3>2. SM!OwnsMeta(p)' /\ ~SM!OwnsData(p)'
      BY <3>1 DEF SM!OwnsMeta, SM!OwnsData
    <3> QED
      BY <2>1, <2>2, <2>3, <2>4, <3>1, <3>2 DEF SM!SegmentsInv, SM!OwnersInv
  <2>5. CASE at[p] = "data"
    <3>1. pc'[p] = "header" /\ at'[p] = "meta"
      BY <2>5 DEF SM!SegmentsInv, SM!TypeOK, SM!DoMap, SM!Goto
    <3>2. SM!OwnsMeta(p)' /\ SM!OwnsData(p)
      BY <2>1, <2>5, <3>1 DEF SM!OwnsMeta, SM!OwnsData
    <3> QED
      BY <2>1, <2>2, <2>3, <2>5, <3>1, <3>2 DEF SM!SegmentsInv, SM!OwnersInv
  <2> QED
    BY <2>3, <2>4, <2>5 DEF SM!Names
<1>3. SM!RingsInv'
  BY DEF SM!SegmentsInv, SM!TypeOK, SM!OwnersInv, SM!OwnsMeta, SM!OwnsData, SM!RingsInv,
     SM!UnlinkInv, SM!Labels, SM!Names, SM!DoMap, SM!Goto, SM!files
<1>4. SM!AttachInv'
  BY DEF SM!SegmentsInv, SM!TypeOK, SM!OwnersInv, SM!OwnsMeta, SM!OwnsData, SM!RingsInv,
     SM!AttachInv, SM!Labels, SM!Names, SM!DoMap, SM!Goto, SM!files
<1>5. SM!UnlinkInv'
  BY DEF SM!SegmentsInv, SM!TypeOK, SM!OwnersInv, SM!OwnsMeta, SM!UnlinkInv, SM!Labels, SM!Names,
     SM!DoMap, SM!Goto, SM!files
<1> QED
  BY <1>1, <1>2, <1>3, <1>4, <1>5 DEF SM!SegmentsInv

(* A failed call sends a process to undo the name it made last.            *)
LEMMA FailStep ==
  ASSUME NoneIsNoSegment, SM!SegmentsInv, NEW p \in Processes, SM!Fail(p)
  PROVE  SM!SegmentsInv'
<1>1. SM!TypeOK'
  BY DEF SM!SegmentsInv, SM!TypeOK, SM!Labels, SM!Names, SM!Fail, SM!Goto, SM!files
<1>2. SM!OwnersInv'
  BY DEF SM!SegmentsInv, SM!TypeOK, SM!OwnersInv, SM!OwnsMeta, SM!OwnsData, SM!UnlinkInv,
     SM!Labels, SM!Names, SM!Fail, SM!Goto, SM!files
<1>3. SM!RingsInv'
  BY DEF SM!SegmentsInv, SM!TypeOK, SM!OwnersInv, SM!OwnsMeta, SM!OwnsData, SM!RingsInv,
     SM!UnlinkInv, SM!Labels, SM!Names, SM!Fail, SM!Goto, SM!files
<1>4. SM!AttachInv'
  BY DEF SM!SegmentsInv, SM!TypeOK, SM!OwnersInv, SM!OwnsMeta, SM!OwnsData, SM!RingsInv,
     SM!AttachInv, SM!Labels, SM!Names, SM!Fail, SM!Goto, SM!files
<1>5. SM!UnlinkInv'
  BY DEF SM!SegmentsInv, SM!TypeOK, SM!OwnersInv, SM!OwnsMeta, SM!UnlinkInv, SM!Labels, SM!Names,
     SM!Fail, SM!Goto, SM!files
<1> QED
  BY <1>1, <1>2, <1>3, <1>4, <1>5 DEF SM!SegmentsInv

(* The name that is undone is the process's own, and no header leads to it. *)
LEMMA UndoStep ==
  ASSUME NoneIsNoSegment, SM!SegmentsInv, NEW p \in Processes, SM!Undo(p)
  PROVE  SM!SegmentsInv'
<1>1. SM!TypeOK'
  <2>1. CASE at[p] = "meta"
    BY <2>1 DEF SM!SegmentsInv, SM!TypeOK, SM!Labels, SM!Names, SM!Undo, SM!Goto, SM!Return,
       SM!NoMap
  <2>2. CASE at[p] # "meta"
    BY <2>2 DEF SM!SegmentsInv, SM!TypeOK, SM!Labels, SM!Names, SM!Undo, SM!Goto, SM!Return,
       SM!NoMap
  <2> QED
    BY <2>1, <2>2
<1>2. SM!OwnersInv'
  <2>1. /\ UNCHANGED <<sized, capacity>> /\ pc[p] = "undo" /\ SM!OwnsMeta(p) /\ at[p] \in SM!Names
        /\ name' = [name EXCEPT ![at[p]] = None]
        /\ \A q \in Processes \ {p} : pc'[q] = pc[q] /\ at'[q] = at[q] /\ map'[q] = map[q]
    BY DEF SM!SegmentsInv, SM!TypeOK, SM!OwnsMeta, SM!Undo, SM!Goto, SM!Return
  <2>2. \A q \in Processes \ {p} : ~SM!OwnsMeta(q)' /\ ~SM!OwnsData(q)' /\ pc'[q] \notin {"header", "map", "abandon"}
    BY <2>1 DEF SM!SegmentsInv, SM!OwnersInv, SM!OwnsMeta, SM!OwnsData
  <2>3. CASE at[p] = "meta"
    <3>1. pc'[p] = "idle"
      BY <2>3 DEF SM!SegmentsInv, SM!TypeOK, SM!Undo, SM!Goto, SM!Return
    <3> QED
      BY <2>2, <3>1 DEF SM!OwnersInv, SM!OwnsMeta, SM!OwnsData
  <2>4. CASE at[p] = "data"
    <3>1. pc'[p] = "abandon" /\ at'[p] = "meta" /\ map'[p] = map[p] /\ name'["meta"] = name["meta"]
      BY <2>1, <2>4 DEF SM!SegmentsInv, SM!TypeOK, SM!Names, SM!Undo, SM!Goto, SM!Return
    <3> QED
      BY <2>1, <2>2, <3>1 DEF SM!SegmentsInv, SM!OwnersInv, SM!OwnsMeta, SM!OwnsData
  <2> QED
    BY <2>1, <2>3, <2>4 DEF SM!Names
<1>3. SM!RingsInv'
  BY DEF SM!SegmentsInv, SM!TypeOK, SM!OwnersInv, SM!OwnsMeta, SM!OwnsData, SM!RingsInv,
     SM!UnlinkInv, SM!Labels, SM!Names, SM!Undo, SM!Goto, SM!Return, SM!NoMap, SM!files
<1>4. SM!AttachInv'
  BY DEF SM!SegmentsInv, SM!TypeOK, SM!OwnersInv, SM!OwnsMeta, SM!OwnsData, SM!RingsInv,
     SM!AttachInv, SM!Labels, SM!Names, SM!Undo, SM!Goto, SM!Return, SM!NoMap, SM!files
<1>5. SM!UnlinkInv'
  BY DEF SM!SegmentsInv, SM!TypeOK, SM!OwnersInv, SM!OwnsMeta, SM!UnlinkInv, SM!Labels, SM!Names,
     SM!Undo, SM!Goto, SM!Return, SM!NoMap, SM!files
<1> QED
  BY <1>1, <1>2, <1>3, <1>4, <1>5 DEF SM!SegmentsInv

(* The meta name that is given up has no header yet.                       *)
LEMMA AbandonStep ==
  ASSUME NoneIsNoSegment, SM!SegmentsInv, NEW p \in Processes, SM!Abandon(p)
  PROVE  SM!SegmentsInv'
<1>1. SM!TypeOK'
  BY DEF SM!SegmentsInv, SM!TypeOK, SM!Labels, SM!Names, SM!Abandon, SM!Goto, SM!Return, SM!NoMap,
     SM!files
<1>2. SM!OwnersInv'
  BY DEF SM!SegmentsInv, SM!TypeOK, SM!OwnersInv, SM!OwnsMeta, SM!OwnsData, SM!UnlinkInv,
     SM!Labels, SM!Names, SM!Abandon, SM!Goto, SM!Return, SM!NoMap, SM!files
<1>3. SM!RingsInv'
  BY DEF SM!SegmentsInv, SM!TypeOK, SM!OwnersInv, SM!OwnsMeta, SM!OwnsData, SM!RingsInv,
     SM!UnlinkInv, SM!Labels, SM!Names, SM!Abandon, SM!Goto, SM!Return, SM!NoMap, SM!files
<1>4. SM!AttachInv'
  BY DEF SM!SegmentsInv, SM!TypeOK, SM!OwnersInv, SM!OwnsMeta, SM!OwnsData, SM!RingsInv,
     SM!AttachInv, SM!Labels, SM!Names, SM!Abandon, SM!Goto, SM!Return, SM!NoMap, SM!files
<1>5. SM!UnlinkInv'
  BY DEF SM!SegmentsInv, SM!TypeOK, SM!OwnersInv, SM!OwnsMeta, SM!UnlinkInv, SM!Labels, SM!Names,
     SM!Abandon, SM!Goto, SM!Return, SM!NoMap, SM!files
<1> QED
  BY <1>1, <1>2, <1>3, <1>4, <1>5 DEF SM!SegmentsInv

(* The header is written once, over data no other header has.              *)
LEMMA InitHeaderStep ==
  ASSUME NoneIsNoSegment, SM!SegmentsInv, NEW p \in Processes, SM!InitHeader(p)
  PROVE  SM!SegmentsInv'
<1>1. SM!TypeOK'
  BY DEF SM!SegmentsInv, SM!TypeOK, SM!OwnersInv, SM!OwnsMeta, SM!OwnsData, SM!Labels, SM!Names,
     SM!InitHeader, SM!Goto, SM!files
<1>2. SM!OwnersInv'
  BY DEF SM!SegmentsInv, SM!TypeOK, SM!OwnersInv, SM!OwnsMeta, SM!OwnsData, SM!UnlinkInv,
     SM!Labels, SM!Names, SM!InitHeader, SM!Goto, SM!files
<1>3. SM!RingsInv'
  BY DEF SM!SegmentsInv, SM!TypeOK, SM!OwnersInv, SM!OwnsMeta, SM!OwnsData, SM!RingsInv,
     SM!UnlinkInv, SM!Labels, SM!Names, SM!InitHeader, SM!Goto, SM!files
<1>4. SM!AttachInv'
  BY DEF SM!SegmentsInv, SM!TypeOK, SM!OwnersInv, SM!OwnsMeta, SM!OwnsData, SM!RingsInv,
     SM!AttachInv, SM!Labels, SM!Names, SM!InitHeader, SM!Goto, SM!files
<1>5. SM!UnlinkInv'
  BY DEF SM!SegmentsInv, SM!TypeOK, SM!OwnersInv, SM!OwnsMeta, SM!UnlinkInv, SM!Labels, SM!Names,
     SM!InitHeader, SM!Goto, SM!files
<1> QED
  BY <1>1, <1>2, <1>3, <1>4, <1>5 DEF SM!SegmentsInv

(* Who maps the meta segment has what the name stood for.                  *)
LEMMA AttachMetaStep ==
  ASSUME NoneIsNoSegment, SM!SegmentsInv, NEW p \in Processes, SM!AttachMeta(p)
  PROVE  SM!SegmentsInv'
<1>1. SM!TypeOK'
  BY DEF SM!SegmentsInv, SM!TypeOK, SM!Labels, SM!Names, SM!AttachMeta, SM!Goto, SM!files
<1>2. SM!OwnersInv'
  BY DEF SM!SegmentsInv, SM!TypeOK, SM!OwnersInv, SM!OwnsMeta, SM!OwnsData, SM!UnlinkInv,
     SM!Labels, SM!Names, SM!AttachMeta, SM!Goto, SM!files
<1>3. SM!RingsInv'
  BY DEF SM!SegmentsInv, SM!TypeOK, SM!OwnersInv, SM!OwnsMeta, SM!OwnsData, SM!RingsInv,
     SM!UnlinkInv, SM!Labels, SM!Names, SM!AttachMeta, SM!Goto, SM!files
<1>4. SM!AttachInv'
  BY DEF SM!SegmentsInv, SM!TypeOK, SM!OwnersInv, SM!OwnsMeta, SM!OwnsData, SM!RingsInv,
     SM!AttachInv, SM!Labels, SM!Names, SM!AttachMeta, SM!Goto, SM!files
<1>5. SM!UnlinkInv'
  BY DEF SM!SegmentsInv, SM!TypeOK, SM!OwnersInv, SM!OwnsMeta, SM!UnlinkInv, SM!Labels, SM!Names,
     SM!AttachMeta, SM!Goto, SM!files
<1> QED
  BY <1>1, <1>2, <1>3, <1>4, <1>5 DEF SM!SegmentsInv

(* Without pages or without a ring a process goes no further.              *)
LEMMA ReadCapacityStep ==
  ASSUME NoneIsNoSegment, SM!SegmentsInv, NEW p \in Processes, SM!ReadCapacity(p)
  PROVE  SM!SegmentsInv'
<1>0. /\ UNCHANGED <<name, made, sized, capacity>> /\ pc[p] = "read"
      /\ \A q \in Processes \ {p} : pc'[q] = pc[q] /\ at'[q] = at[q] /\ map'[q] = map[q]
      /\ at' \in [Processes -> SM!Names] /\ pc' \in [Processes -> SM!Labels]
      /\ map' \in [Processes -> [SM!Names -> made \cup {None}]]
      /\ \/ pc'[p] \in {"killed", "idle"}
         \/ pc'[p] = "open" /\ map'[p] = map[p] /\ capacity[map[p]["meta"]] # None
  <2>1. CASE map[p]["meta"] \notin sized
    <3>1. /\ pc' = [pc EXCEPT ![p] = "killed"] /\ at' = [at EXCEPT ![p] = "meta"]
          /\ map' = [map EXCEPT ![p] = SM!NoMap] /\ pc[p] = "read"
          /\ UNCHANGED <<name, made, sized, capacity>>
      BY <2>1 DEF SM!ReadCapacity, SM!Goto, SM!Return, SM!files
    <3> QED
      BY <2>1, <3>1 DEF SM!SegmentsInv, SM!TypeOK, SM!Labels, SM!Names, SM!NoMap
  <2>2. CASE map[p]["meta"] \in sized /\ capacity[map[p]["meta"]] = None
    <3>1. /\ pc' = [pc EXCEPT ![p] = "idle"] /\ at' = [at EXCEPT ![p] = "meta"]
          /\ map' = [map EXCEPT ![p] = SM!NoMap] /\ pc[p] = "read"
          /\ UNCHANGED <<name, made, sized, capacity>>
      BY <2>2 DEF SM!ReadCapacity, SM!Goto, SM!Return, SM!files
    <3> QED
      BY <2>2, <3>1 DEF SM!SegmentsInv, SM!TypeOK, SM!Labels, SM!Names, SM!NoMap
  <2>3. CASE map[p]["meta"] \in sized /\ capacity[map[p]["meta"]] # None
    <3>1. /\ pc' = [pc EXCEPT ![p] = "open"] /\ at' = [at EXCEPT ![p] = "data"]
          /\ map' = map /\ pc[p] = "read"
          /\ UNCHANGED <<name, made, sized, capacity>>
      BY <2>3 DEF SM!ReadCapacity, SM!Goto, SM!Return, SM!files
    <3> QED
      BY <2>3, <3>1 DEF SM!SegmentsInv, SM!TypeOK, SM!Labels, SM!Names, SM!NoMap
  <2> QED
    BY <2>1, <2>2, <2>3
<1>1. SM!TypeOK'
  BY <1>0 DEF SM!SegmentsInv, SM!TypeOK
<1>2. SM!OwnersInv'
  <2>1. pc'[p] \in {"idle", "open", "killed"}
    BY <1>0
  <2> QED
    BY <1>0, <2>1, NotAnOwner DEF SM!SegmentsInv
<1>3. SM!RingsInv'
  BY <1>0 DEF SM!SegmentsInv, SM!RingsInv
<1>4. SM!AttachInv'
  BY <1>0 DEF SM!SegmentsInv, SM!AttachInv
<1>5. SM!UnlinkInv'
  BY <1>0 DEF SM!SegmentsInv, SM!UnlinkInv
<1> QED
  BY <1>1, <1>2, <1>3, <1>4, <1>5 DEF SM!SegmentsInv

(* Data is mapped by name only while the header in hand is the name's own. *)
LEMMA AttachDataStep ==
  ASSUME NoneIsNoSegment, SM!SegmentsInv, NEW p \in Processes, SM!AttachData(p)
  PROVE  SM!SegmentsInv'
<1>0. /\ UNCHANGED <<name, made, sized, capacity>> /\ pc[p] = "open"
      /\ \A q \in Processes \ {p} : pc'[q] = pc[q] /\ at'[q] = at[q] /\ map'[q] = map[q]
      /\ at' \in [Processes -> SM!Names] /\ pc' \in [Processes -> SM!Labels]
      /\ map' \in [Processes -> [SM!Names -> made \cup {None}]]
      /\ \/ pc'[p] = "idle"
         \/ /\ pc'[p] = "up" /\ name["data"] # None
            /\ map'[p]["meta"] = map[p]["meta"] /\ map'[p]["data"] = name["data"]
  <2>1. CASE SM!Return(p)
    <3>1. /\ pc' = [pc EXCEPT ![p] = "idle"] /\ at' = [at EXCEPT ![p] = "meta"]
          /\ map' = [map EXCEPT ![p] = SM!NoMap] /\ pc[p] = "open"
          /\ UNCHANGED <<name, made, sized, capacity>>
      BY <2>1 DEF SM!AttachData, SM!Goto, SM!Return, SM!files
    <3> QED
      BY <3>1 DEF SM!SegmentsInv, SM!TypeOK, SM!Labels, SM!Names, SM!NoMap
  <2>2. CASE name["data"] # None /\ SM!Goto(p, "up", "meta") /\ map' = [map EXCEPT ![p]["data"] = name["data"]]
    <3>1. /\ pc' = [pc EXCEPT ![p] = "up"] /\ at' = [at EXCEPT ![p] = "meta"]
          /\ map' = [map EXCEPT ![p]["data"] = name["data"]] /\ pc[p] = "open"
          /\ UNCHANGED <<name, made, sized, capacity>>
      BY <2>2 DEF SM!AttachData, SM!Goto, SM!files
    <3> QED
      BY <2>2, <3>1 DEF SM!SegmentsInv, SM!TypeOK, SM!Labels, SM!Names
  <2> QED
    BY <2>1, <2>2 DEF SM!AttachData
<1>1. SM!TypeOK'
  BY <1>0 DEF SM!SegmentsInv, SM!TypeOK
<1>2. SM!OwnersInv'
  <2>1. pc'[p] \in {"idle", "up"}
    BY <1>0
  <2> QED
    BY <1>0, <2>1, NotAnOwner DEF SM!SegmentsInv
<1>3. SM!RingsInv'
  BY <1>0 DEF SM!SegmentsInv, SM!RingsInv
<1>4. SM!AttachInv'
  BY <1>0 DEF SM!SegmentsInv, SM!AttachInv, SM!RingsInv
<1>5. SM!UnlinkInv'
  BY <1>0 DEF SM!SegmentsInv, SM!UnlinkInv
<1> QED
  BY <1>1, <1>2, <1>3, <1>4, <1>5 DEF SM!SegmentsInv

(* Unlinking starts when nobody is at work on the names.                   *)
LEMMA UnlinkMetaStep ==
  ASSUME NoneIsNoSegment, SM!SegmentsInv, NEW p \in Processes, SM!UnlinkMeta(p)
  PROVE  SM!SegmentsInv'
<1>1. SM!TypeOK'
  BY DEF SM!SegmentsInv, SM!TypeOK, SM!Labels, SM!Names, SM!UnlinkMeta, SM!Goto, SM!files,
     SM!MayUnlink
<1>2. SM!OwnersInv'
  BY DEF SM!SegmentsInv, SM!TypeOK, SM!OwnersInv, SM!OwnsMeta, SM!OwnsData, SM!UnlinkInv,
     SM!Labels, SM!Names, SM!UnlinkMeta, SM!Goto, SM!files, SM!MayUnlink
<1>3. SM!RingsInv'
  BY DEF SM!SegmentsInv, SM!TypeOK, SM!OwnersInv, SM!OwnsMeta, SM!OwnsData, SM!RingsInv,
     SM!UnlinkInv, SM!Labels, SM!Names, SM!UnlinkMeta, SM!Goto, SM!files, SM!MayUnlink
<1>4. SM!AttachInv'
  BY DEF SM!SegmentsInv, SM!TypeOK, SM!OwnersInv, SM!OwnsMeta, SM!OwnsData, SM!RingsInv,
     SM!AttachInv, SM!Labels, SM!Names, SM!UnlinkMeta, SM!Goto, SM!files, SM!MayUnlink
<1>5. SM!UnlinkInv'
  BY DEF SM!SegmentsInv, SM!TypeOK, SM!OwnersInv, SM!OwnsMeta, SM!UnlinkInv, SM!Labels, SM!Names,
     SM!UnlinkMeta, SM!Goto, SM!files, SM!MayUnlink
<1> QED
  BY <1>1, <1>2, <1>3, <1>4, <1>5 DEF SM!SegmentsInv

(* The data name goes while no other process has looked at it.             *)
LEMMA UnlinkDataStep ==
  ASSUME NoneIsNoSegment, SM!SegmentsInv, NEW p \in Processes, SM!UnlinkData(p)
  PROVE  SM!SegmentsInv'
<1>1. SM!TypeOK'
  BY DEF SM!SegmentsInv, SM!TypeOK, SM!Labels, SM!Names, SM!UnlinkData, SM!Goto, SM!Return,
     SM!NoMap, SM!files
<1>2. SM!OwnersInv'
  BY DEF SM!SegmentsInv, SM!TypeOK, SM!OwnersInv, SM!OwnsMeta, SM!OwnsData, SM!UnlinkInv,
     SM!Labels, SM!Names, SM!UnlinkData, SM!Goto, SM!Return, SM!NoMap, SM!files
<1>3. SM!RingsInv'
  BY DEF SM!SegmentsInv, SM!TypeOK, SM!OwnersInv, SM!OwnsMeta, SM!OwnsData, SM!RingsInv,
     SM!UnlinkInv, SM!Labels, SM!Names, SM!UnlinkData, SM!Goto, SM!Return, SM!NoMap, SM!files
<1>4. SM!AttachInv'
  BY DEF SM!SegmentsInv, SM!TypeOK, SM!OwnersInv, SM!OwnsMeta, SM!OwnsData, SM!RingsInv,
     SM!AttachInv, SM!Labels, SM!Names, SM!UnlinkData, SM!Goto, SM!Return, SM!NoMap, SM!files
<1>5. SM!UnlinkInv'
  BY DEF SM!SegmentsInv, SM!TypeOK, SM!OwnersInv, SM!OwnsMeta, SM!UnlinkInv, SM!Labels, SM!Names,
     SM!UnlinkData, SM!Goto, SM!Return, SM!NoMap, SM!files
<1> QED
  BY <1>1, <1>2, <1>3, <1>4, <1>5 DEF SM!SegmentsInv

(* Closing a mapping leaves the names.                                     *)
LEMMA CloseStep ==
  ASSUME NoneIsNoSegment, SM!SegmentsInv, NEW p \in Processes, SM!Close(p)
  PROVE  SM!SegmentsInv'
<1>1. SM!TypeOK'
  BY DEF SM!SegmentsInv, SM!TypeOK, SM!Labels, SM!Names, SM!Close, SM!Goto, SM!Return, SM!NoMap,
     SM!files
<1>2. SM!OwnersInv'
  BY DEF SM!SegmentsInv, SM!TypeOK, SM!OwnersInv, SM!OwnsMeta, SM!OwnsData, SM!UnlinkInv,
     SM!Labels, SM!Names, SM!Close, SM!Goto, SM!Return, SM!NoMap, SM!files
<1>3. SM!RingsInv'
  BY DEF SM!SegmentsInv, SM!TypeOK, SM!OwnersInv, SM!OwnsMeta, SM!OwnsData, SM!RingsInv,
     SM!UnlinkInv, SM!Labels, SM!Names, SM!Close, SM!Goto, SM!Return, SM!NoMap, SM!files
<1>4. SM!AttachInv'
  BY DEF SM!SegmentsInv, SM!TypeOK, SM!OwnersInv, SM!OwnsMeta, SM!OwnsData, SM!RingsInv,
     SM!AttachInv, SM!Labels, SM!Names, SM!Close, SM!Goto, SM!Return, SM!NoMap, SM!files
<1>5. SM!UnlinkInv'
  BY DEF SM!SegmentsInv, SM!TypeOK, SM!OwnersInv, SM!OwnsMeta, SM!UnlinkInv, SM!Labels, SM!Names,
     SM!Close, SM!Goto, SM!Return, SM!NoMap, SM!files
<1> QED
  BY <1>1, <1>2, <1>3, <1>4, <1>5 DEF SM!SegmentsInv

(* A crash leaves the names, and its process owns nothing any more.        *)
LEMMA CrashStep ==
  ASSUME NoneIsNoSegment, SM!SegmentsInv, NEW p \in Processes, SM!Crash(p)
  PROVE  SM!SegmentsInv'
<1>1. SM!TypeOK'
  BY DEF SM!SegmentsInv, SM!TypeOK, SM!Labels, SM!Names, SM!Crash, SM!Goto, SM!NoMap, SM!files
<1>2. SM!OwnersInv'
  BY DEF SM!SegmentsInv, SM!TypeOK, SM!OwnersInv, SM!OwnsMeta, SM!OwnsData, SM!UnlinkInv,
     SM!Labels, SM!Names, SM!Crash, SM!Goto, SM!NoMap, SM!files
<1>3. SM!RingsInv'
  BY DEF SM!SegmentsInv, SM!TypeOK, SM!OwnersInv, SM!OwnsMeta, SM!OwnsData, SM!RingsInv,
     SM!UnlinkInv, SM!Labels, SM!Names, SM!Crash, SM!Goto, SM!NoMap, SM!files
<1>4. SM!AttachInv'
  BY DEF SM!SegmentsInv, SM!TypeOK, SM!OwnersInv, SM!OwnsMeta, SM!OwnsData, SM!RingsInv,
     SM!AttachInv, SM!Labels, SM!Names, SM!Crash, SM!Goto, SM!NoMap, SM!files
<1>5. SM!UnlinkInv'
  BY DEF SM!SegmentsInv, SM!TypeOK, SM!OwnersInv, SM!OwnsMeta, SM!UnlinkInv, SM!Labels, SM!Names,
     SM!Crash, SM!Goto, SM!NoMap, SM!files
<1> QED
  BY <1>1, <1>2, <1>3, <1>4, <1>5 DEF SM!SegmentsInv

(* A process that comes back starts with nothing.                          *)
LEMMA RestartStep ==
  ASSUME NoneIsNoSegment, SM!SegmentsInv, NEW p \in Processes, SM!Restart(p)
  PROVE  SM!SegmentsInv'
<1>1. SM!TypeOK'
  BY DEF SM!SegmentsInv, SM!TypeOK, SM!Labels, SM!Names, SM!Restart, SM!Goto, SM!Return, SM!NoMap,
     SM!files
<1>2. SM!OwnersInv'
  BY DEF SM!SegmentsInv, SM!TypeOK, SM!OwnersInv, SM!OwnsMeta, SM!OwnsData, SM!UnlinkInv,
     SM!Labels, SM!Names, SM!Restart, SM!Goto, SM!Return, SM!NoMap, SM!files
<1>3. SM!RingsInv'
  BY DEF SM!SegmentsInv, SM!TypeOK, SM!OwnersInv, SM!OwnsMeta, SM!OwnsData, SM!RingsInv,
     SM!UnlinkInv, SM!Labels, SM!Names, SM!Restart, SM!Goto, SM!Return, SM!NoMap, SM!files
<1>4. SM!AttachInv'
  BY DEF SM!SegmentsInv, SM!TypeOK, SM!OwnersInv, SM!OwnsMeta, SM!OwnsData, SM!RingsInv,
     SM!AttachInv, SM!Labels, SM!Names, SM!Restart, SM!Goto, SM!Return, SM!NoMap, SM!files
<1>5. SM!UnlinkInv'
  BY DEF SM!SegmentsInv, SM!TypeOK, SM!OwnersInv, SM!OwnsMeta, SM!UnlinkInv, SM!Labels, SM!Names,
     SM!Restart, SM!Goto, SM!Return, SM!NoMap, SM!files
<1> QED
  BY <1>1, <1>2, <1>3, <1>4, <1>5 DEF SM!SegmentsInv

-----------------------------------------------------------------------------
(* The invariant of every behaviour.                                       *)
THEOREM SegmentsInvariance == NoneIsNoSegment => (SM!Spec => []SM!SegmentsInv)
<1> SUFFICES ASSUME NoneIsNoSegment PROVE SM!Spec => []SM!SegmentsInv
  OBVIOUS
<1>1. SM!Init => SM!SegmentsInv
  BY DEF SM!Init, SM!SegmentsInv, SM!TypeOK, SM!OwnersInv, SM!OwnsMeta, SM!OwnsData, SM!RingsInv,
     SM!AttachInv,
         SM!UnlinkInv, SM!NoMap, SM!Names, SM!Labels
<1>2. SM!SegmentsInv /\ [SM!Next]_(SM!vars) => SM!SegmentsInv'
  <2> SUFFICES ASSUME SM!SegmentsInv, [SM!Next]_(SM!vars) PROVE SM!SegmentsInv'
    OBVIOUS
  <2>1. CASE UNCHANGED SM!vars
    BY <2>1 DEF SM!SegmentsInv, SM!TypeOK, SM!OwnersInv, SM!OwnsMeta, SM!OwnsData, SM!RingsInv,
       SM!AttachInv,
                SM!UnlinkInv, SM!vars, SM!files
  <2>2. CASE SM!Next
    BY <2>2, CreateStep, ShmOpenStep, ShmOpenFailsStep, FtruncateStep, DoMapStep, FailStep,
       UndoStep, AbandonStep, InitHeaderStep, AttachMetaStep, ReadCapacityStep, AttachDataStep,
       UnlinkMetaStep, UnlinkDataStep, CloseStep, CrashStep, RestartStep DEF SM!Next
  <2> QED
    BY <2>1, <2>2
<1> QED
  BY <1>1, <1>2, PTL DEF SM!Spec

(* Whoever is attached has the header and the data of one ring.            *)
LEMMA AttachedRing == NoneIsNoSegment => (SM!Spec => []SM!AttachedToOneRing)
<1> SUFFICES ASSUME NoneIsNoSegment PROVE SM!Spec => []SM!AttachedToOneRing
  OBVIOUS
<1>1. SM!SegmentsInv => SM!AttachedToOneRing
  BY DEF SM!SegmentsInv, SM!TypeOK, SM!RingsInv, SM!AttachInv, SM!AttachedToOneRing, SM!Names,
     NoneIsNoSegment
<1> QED
  BY <1>1, SegmentsInvariance, PTL

(* A Create that fails removes the names it made and no others.            *)
LEMMA UndoesOwnNames == NoneIsNoSegment => (SM!Spec => []SM!OnlyOwnNames)
<1> SUFFICES ASSUME NoneIsNoSegment PROVE SM!Spec => []SM!OnlyOwnNames
  OBVIOUS
<1>1. SM!SegmentsInv => SM!OnlyOwnNames
  BY DEF SM!SegmentsInv, SM!TypeOK, SM!OwnersInv, SM!OwnsMeta, SM!OwnsData, SM!OnlyOwnNames,
     SM!Names
<1> QED
  BY <1>1, SegmentsInvariance, PTL

(* A process that makes or removes a name goes on to the other one.        *)
LEMMA NamesStep ==
  ASSUME NoneIsNoSegment, SM!SegmentsInv, SM!SegmentsInv', SM!NamesInv, NEW p \in Processes,
         SM!Create(p) \/ SM!ShmOpen(p) \/ SM!ShmOpenFails(p) \/ SM!Ftruncate(p) \/ SM!DoMap(p) \/ SM!Fail(p)
           \/ SM!Undo(p) \/ SM!Abandon(p) \/ SM!InitHeader(p)
           \/ SM!AttachMeta(p) \/ SM!ReadCapacity(p) \/ SM!AttachData(p)
           \/ SM!UnlinkMeta(p) \/ SM!UnlinkData(p) \/ SM!Close(p) \/ SM!Crash(p) \/ SM!Restart(p)
  PROVE  SM!NamesInv'
<1>0. CASE crashed'
  BY <1>0 DEF SM!NamesInv
<1> SUFFICES ASSUME ~crashed' PROVE SM!NamesInv'
  BY <1>0
<1>1. /\ p \in DOMAIN pc /\ p \in DOMAIN at /\ at[p] \in {"meta", "data"}
      /\ name \in [{"meta", "data"} -> made \cup {None}]
      /\ ~ SM!Crash(p)
  <2>1. ~SM!Crash(p)
    BY DEF SM!Crash
  <2> QED
    BY <2>1 DEF SM!SegmentsInv, SM!TypeOK, SM!Names
<1>2. /\ \A q \in Processes \ {p} : pc'[q] = pc[q] /\ at'[q] = at[q]
      /\ crashed' = crashed
  BY <1>1 DEF SM!SegmentsInv, SM!TypeOK, SM!Goto, SM!Return, SM!Create, SM!ShmOpen,
     SM!ShmOpenFails, SM!Ftruncate, SM!DoMap, SM!Fail,
     SM!Undo, SM!Abandon, SM!InitHeader, SM!AttachMeta, SM!ReadCapacity, SM!AttachData, SM!UnlinkMeta, SM!UnlinkData,
     SM!Close, SM!Restart, SM!files
<1>3. \A q \in Processes \ {p} : (SM!OwnsMeta(q)' <=> SM!OwnsMeta(q)) /\ (SM!OwnsData(q)' <=> SM!OwnsData(q))
  BY <1>2 DEF SM!OwnsMeta, SM!OwnsData
<1>4. /\ \A q \in Processes : SM!OwnsMeta(q) /\ ~SM!OwnsData(q) => name["data"] = None
      /\ \/ \E q \in Processes : SM!OwnsMeta(q) \/ pc[q] = "unlink"
         \/ (name["meta"] = None) <=> (name["data"] = None)
  BY <1>2 DEF SM!NamesInv
<1> DEFINE Busy == SM!OwnsMeta(p) \/ pc[p] = "unlink"
<1>5. ASSUME UNCHANGED name, Busy <=> Busy',
             SM!OwnsMeta(p)' /\ ~SM!OwnsData(p)' => SM!OwnsMeta(p) /\ ~SM!OwnsData(p)
      PROVE  SM!NamesInv'
  BY <1>2, <1>3, <1>4, <1>5 DEF SM!NamesInv
<1>6. ASSUME SM!Create(p) \/ SM!AttachMeta(p) \/ SM!ReadCapacity(p) \/ SM!AttachData(p) \/ SM!Close(p) \/ SM!Restart(p)
      PROVE  SM!NamesInv'
  <2>1. /\ UNCHANGED name
        /\ pc[p] \in {"idle", "read", "open", "up", "dead", "killed"}
        /\ pc'[p] \in {"idle", "create", "read", "open", "up", "killed"}
        /\ pc'[p] = "create" => at'[p] = "meta"
    BY <1>1, <1>6 DEF SM!SegmentsInv, SM!TypeOK, SM!Goto, SM!Return, SM!Create, SM!AttachMeta,
       SM!ReadCapacity, SM!AttachData, SM!Close,
       SM!Restart, SM!files
  <2>2. ~Busy /\ ~Busy' /\ ~SM!OwnsMeta(p)'
    BY <2>1 DEF SM!OwnsMeta
  <2> QED
    BY <1>5, <2>1, <2>2
<1>7. ASSUME SM!Ftruncate(p) \/ SM!DoMap(p) \/ SM!Fail(p) PROVE SM!NamesInv'
  <2>1. /\ UNCHANGED name /\ pc[p] \in {"size", "map"}
        /\ \/ pc'[p] \in {"map", "undo"} /\ at'[p] = at[p]
           \/ pc'[p] = "create" /\ at'[p] = "data" /\ at[p] = "meta"
           \/ pc'[p] = "header" /\ at[p] = "data"
    BY <1>1, <1>7 DEF SM!SegmentsInv, SM!TypeOK, SM!Goto, SM!Ftruncate, SM!DoMap, SM!Fail, SM!files
  <2>2. Busy /\ Busy' /\ (SM!OwnsMeta(p)' /\ ~SM!OwnsData(p)' => SM!OwnsMeta(p) /\ ~SM!OwnsData(p))
    BY <2>1 DEF SM!OwnsMeta, SM!OwnsData
  <2> QED
    BY <1>5, <2>1, <2>2
<1>8. CASE SM!ShmOpenFails(p)
  <2>1. /\ UNCHANGED name /\ pc[p] = "create"
        /\ \/ at[p] = "meta" /\ pc'[p] = "idle"
           \/ at[p] = "data" /\ pc'[p] = "abandon"
    BY <1>1, <1>8 DEF SM!SegmentsInv, SM!TypeOK, SM!Goto, SM!Return, SM!ShmOpenFails, SM!files
  <2>2. (Busy <=> Busy') /\ (SM!OwnsMeta(p)' => SM!OwnsMeta(p) /\ ~SM!OwnsData(p))
    BY <2>1 DEF SM!OwnsMeta, SM!OwnsData
  <2> QED
    BY <1>5, <2>1, <2>2
<1>9. CASE SM!ShmOpen(p)
  <2>1. /\ pc[p] = "create" /\ pc'[p] = "size" /\ at'[p] = at[p] /\ name[at[p]] = None
        /\ name' = [name EXCEPT ![at[p]] = SM!New]
    BY <1>1, <1>9 DEF SM!SegmentsInv, SM!TypeOK, SM!Goto, SM!ShmOpen
  <2>2. SM!OwnsMeta(p)'
    BY <2>1 DEF SM!OwnsMeta
  <2>3. \A q \in Processes \ {p} : ~SM!OwnsMeta(q)'
    BY <2>2 DEF SM!SegmentsInv, SM!OwnersInv
  <2>4. ~SM!OwnsData(p)' => name'["data"] = None
    <3>1. CASE at[p] = "data"
      BY <2>1, <3>1 DEF SM!OwnsData
    <3>2. CASE at[p] = "meta"
      <4>1. ~SM!OwnsMeta(p) /\ \A q \in Processes \ {p} : ~SM!OwnsMeta(q)
        BY <1>3, <2>1, <2>3, <3>2 DEF SM!OwnsMeta
      <4>2. \A q \in Processes : pc[q] # "unlink"
        BY <2>1 DEF SM!SegmentsInv, SM!UnlinkInv
      <4>3. name["data"] = None
        BY <1>4, <2>1, <3>2, <4>1, <4>2
      <4> QED
        BY <1>1, <2>1, <3>2, <4>3
    <3> QED
      BY <1>1, <3>1, <3>2
  <2> QED
    BY <2>2, <2>3, <2>4 DEF SM!NamesInv
<1>10. CASE SM!Undo(p)
  <2>1. /\ pc[p] = "undo" /\ name' = [name EXCEPT ![at[p]] = None]
        /\ \/ at[p] = "meta" /\ pc'[p] = "idle"
           \/ at[p] = "data" /\ pc'[p] = "abandon"
    BY <1>1, <1>10 DEF SM!SegmentsInv, SM!TypeOK, SM!Goto, SM!Return, SM!Undo
  <2>2. SM!OwnsMeta(p) /\ \A q \in Processes \ {p} : ~SM!OwnsMeta(q)
    BY <2>1 DEF SM!OwnsMeta, SM!SegmentsInv, SM!OwnersInv
  <2>3. name'["data"] = None
    BY <1>1, <1>4, <2>1, <2>2 DEF SM!OwnsData
  <2>4. name'["meta"] = None \/ SM!OwnsMeta(p)'
    BY <1>1, <2>1 DEF SM!OwnsMeta
  <2> QED
    BY <1>3, <2>2, <2>3, <2>4 DEF SM!NamesInv
<1>11. CASE SM!Abandon(p) \/ SM!UnlinkData(p) \/ SM!UnlinkMeta(p)
  <2>1. /\ pc[p] = "abandon" => pc'[p] = "idle" /\ name' = [name EXCEPT !["meta"] = None]
        /\ pc[p] = "unlink" => pc'[p] = "idle" /\ name' = [name EXCEPT !["data"] = None]
        /\ pc[p] = "idle" => pc'[p] = "unlink" /\ SM!MayUnlink
        /\ pc[p] \in {"abandon", "unlink", "idle"}
    BY <1>1, <1>11 DEF SM!SegmentsInv, SM!TypeOK, SM!Goto, SM!Return, SM!Abandon, SM!UnlinkData,
       SM!UnlinkMeta
  <2>2. \A q \in Processes \ {p} : ~SM!OwnsMeta(q)
    <3>1. CASE pc[p] = "abandon"
      BY <3>1 DEF SM!OwnsMeta, SM!SegmentsInv, SM!OwnersInv
    <3>2. CASE pc[p] = "unlink"
      BY <3>2 DEF SM!OwnsMeta, SM!SegmentsInv, SM!UnlinkInv
    <3>3. CASE pc[p] = "idle"
      BY <2>1, <3>3 DEF SM!OwnsMeta, SM!MayUnlink
    <3> QED
      BY <2>1, <3>1, <3>2, <3>3
  <2>3. ~SM!OwnsMeta(p)'
    BY <2>1 DEF SM!OwnsMeta
  <2>4. \/ pc'[p] = "unlink"
        \/ name'["meta"] = None /\ name'["data"] = None
    <3>1. CASE pc[p] = "abandon"
      <4>1. SM!OwnsMeta(p) /\ ~SM!OwnsData(p)
        BY <3>1 DEF SM!OwnsMeta, SM!OwnsData
      <4> QED
        BY <1>1, <1>4, <2>1, <3>1, <4>1
    <3>2. CASE pc[p] = "unlink"
      BY <1>1, <2>1, <3>2 DEF SM!SegmentsInv, SM!UnlinkInv
    <3> QED
      BY <2>1, <3>1, <3>2
  <2> QED
    BY <1>3, <2>2, <2>3, <2>4 DEF SM!NamesInv
<1>12. CASE SM!InitHeader(p)
  <2>1. pc[p] = "header" /\ pc'[p] = "up" /\ UNCHANGED name
    BY <1>1, <1>12 DEF SM!SegmentsInv, SM!TypeOK, SM!Goto, SM!InitHeader
  <2>2. SM!OwnsMeta(p) /\ SM!OwnsData(p) /\ ~SM!OwnsMeta(p)'
    BY <2>1 DEF SM!OwnsMeta, SM!OwnsData
  <2>3. name["meta"] # None /\ name["data"] # None /\ \A q \in Processes \ {p} : ~SM!OwnsMeta(q)
    BY <2>2 DEF SM!SegmentsInv, SM!OwnersInv
  <2> QED
    BY <1>3, <2>1, <2>2, <2>3 DEF SM!NamesInv
<1> QED
  BY <1>1, <1>6, <1>7, <1>8, <1>9, <1>10, <1>11, <1>12

LEMMA NamesInvHolds == NoneIsNoSegment => (SM!Spec => []SM!NamesInv)
<1> SUFFICES ASSUME NoneIsNoSegment PROVE SM!Spec => []SM!NamesInv
  OBVIOUS
<1>1. SM!Init => SM!NamesInv
  BY DEF SM!Init, SM!NamesInv, SM!OwnsMeta, SM!OwnsData, SM!NoMap, SM!Names
<1>2. SM!SegmentsInv /\ SM!SegmentsInv' /\ SM!NamesInv /\ [SM!Next]_(SM!vars) => SM!NamesInv'
  <2> SUFFICES ASSUME SM!SegmentsInv, SM!SegmentsInv', SM!NamesInv, [SM!Next]_(SM!vars) PROVE SM!NamesInv'
    OBVIOUS
  <2>1. CASE UNCHANGED SM!vars
    BY <2>1 DEF SM!NamesInv, SM!OwnsMeta, SM!OwnsData, SM!vars, SM!files
  <2>2. CASE SM!Next
    BY <2>2, NamesStep DEF SM!Next
  <2> QED
    BY <2>1, <2>2
<1> QED
  BY <1>1, <1>2, SegmentsInvariance, PTL DEF SM!Spec

-----------------------------------------------------------------------------
(* The composition: what MCSpec does to the segments is a behaviour of     *)
(* SharedMemory that stutters while the roster runs.                       *)
LEMMA Component == MCSpec => SM!Spec
<1>1. MCInit => SM!Init
  BY DEF MCInit
<1>2. [MCNext]_<<vars, deployment, segments>> => [SM!Next]_(SM!vars)
  <2>1. UNCHANGED segments => UNCHANGED SM!vars
    BY DEF segments, SM!vars, SM!files
  <2> QED
    BY <2>1 DEF MCNext
<1> QED
  BY <1>1, <1>2, PTL DEF MCSpec, SM!Spec

(* Attach: whoever has both mappings has the header and the data of one    *)
(* ring, and no two rings share their data.                                *)
THEOREM SegmentsOfOneRing == NoneIsNoSegment => (MCSpec => []AttachedToOneRing)
<1> SUFFICES ASSUME NoneIsNoSegment PROVE MCSpec => []AttachedToOneRing
  OBVIOUS
<1>1. SM!Spec => []SM!AttachedToOneRing
  BY AttachedRing
<1> QED
  BY <1>1, Component, PTL DEF AttachedToOneRing

(* MemoryMap::Create's clean-up and the ring's own: shm_unlink hits only   *)
(* names that the failing process has made.                                *)
THEOREM OnlyOwnNamesUndone == NoneIsNoSegment => (MCSpec => []OnlyOwnNames)
<1> SUFFICES ASSUME NoneIsNoSegment PROVE MCSpec => []OnlyOwnNames
  OBVIOUS
<1>1. SM!Spec => []SM!OnlyOwnNames
  BY UndoesOwnNames
<1> QED
  BY <1>1, Component, PTL DEF OnlyOwnNames

(* A Create that failed and an Unlink leave nothing behind: unless a       *)
(* process has died, both names are there or neither.                      *)
THEOREM BothNamesOrNone == NoneIsNoSegment => (MCSpec => []AllOrNothing)
<1> SUFFICES ASSUME NoneIsNoSegment PROVE MCSpec => []AllOrNothing
  OBVIOUS
<1>1. SM!NamesInv => SM!AllOrNothing
  BY DEF SM!NamesInv, SM!AllOrNothing, SM!MayUnlink, SM!OwnsMeta
<1>2. SM!Spec => []SM!NamesInv
  BY NamesInvHolds
<1> QED
  BY <1>1, <1>2, Component, PTL DEF AllOrNothing
=============================================================================
