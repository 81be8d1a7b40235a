----------------------------- MODULE SharedMemory -----------------------------
(***************************************************************************)
(* MemoryMap (common/shared_memory/memory_map.cc) and the Create, Attach   *)
(* and Unlink of BroadcastRingBuffer on top of it: processes make, open,   *)
(* undo and remove two named segments, one system call a step.  A call may *)
(* fail, a process may die between any two of them, and the names outlive  *)
(* every process.                                                          *)
(***************************************************************************)
CONSTANTS
  Processes,
  Segments,      \* bound: the shared memory objects ever made
  None

Names == {"meta", "data"}

VARIABLES
  name,          \* the segment each name stands for: the file system
  made,          \* the segments there have been,
  sized,         \*   those ftruncate has given pages,
  capacity,      \*   and the ring each header describes, by its data segment
  pc, at,        \* where each process is, and on which of the two names
  map,           \* the segments each process has open or mapped
  crashed        \* history: has a process died?

files == <<name, made, sized, capacity>>
vars == <<files, pc, at, map, crashed>>

NoMap == [n \in Names |-> None]

Init ==
  /\ name = NoMap /\ made = {} /\ sized = {}
  /\ capacity = [s \in Segments |-> None]
  /\ pc = [p \in Processes |-> "idle"] /\ at = [p \in Processes |-> "meta"]
  /\ map = [p \in Processes |-> NoMap]
  /\ crashed = FALSE

Goto(p, label, n) == pc' = [pc EXCEPT ![p] = label] /\ at' = [at EXCEPT ![p] = n]

(* The mappings go when the MemoryMap objects do; the names stay.          *)
Return(p) == Goto(p, "idle", "meta") /\ map' = [map EXCEPT ![p] = NoMap]

-----------------------------------------------------------------------------
(* MemoryMap::Create, for one name and then for the other.  Nobody creates  *)
(* a ring that is being unlinked: its second shm_unlink would hit the new. *)

Create(p) ==
  /\ pc[p] = "idle" /\ name["meta"] = None
  /\ \A q \in Processes : pc[q] # "unlink"
  /\ Goto(p, "create", "meta")
  /\ UNCHANGED <<files, map, crashed>>

New == CHOOSE s \in Segments \ made : TRUE

\* Mutant: shm_open without O_EXCL.
ShmOpenShares(p) ==
  /\ pc[p] = "create" /\ made # Segments
  /\ LET s == IF name[at[p]] = None THEN New ELSE name[at[p]] IN
       /\ name' = [name EXCEPT ![at[p]] = s] /\ made' = made \cup {s}
       /\ map' = [map EXCEPT ![p][at[p]] = s]
  /\ Goto(p, "size", at[p])
  /\ UNCHANGED <<sized, capacity, crashed>>

ShmOpen(p) ==
  /\ pc[p] = "create" /\ name[at[p]] = None /\ made # Segments
  /\ name' = [name EXCEPT ![at[p]] = New]
  /\ made' = made \cup {New}
  /\ map' = [map EXCEPT ![p][at[p]] = New]
  /\ Goto(p, "size", at[p])
  /\ UNCHANGED <<sized, capacity, crashed>>

\* Mutant: whoever finds the name taken cleans it up.
ShmOpenFailsUndoes(p) ==
  /\ pc[p] = "create"
  /\ Goto(p, "undo", at[p])
  /\ UNCHANGED <<files, map, crashed>>

(* The name is taken, or the size is no number of pages, or shm_open fails. *)
ShmOpenFails(p) ==
  /\ pc[p] = "create"
  /\ IF at[p] = "meta" THEN Return(p) ELSE Goto(p, "abandon", "meta") /\ UNCHANGED map
  /\ UNCHANGED <<files, crashed>>

Ftruncate(p) ==
  /\ pc[p] = "size"
  /\ sized' = sized \cup {map[p][at[p]]}
  /\ Goto(p, "map", at[p])
  /\ UNCHANGED <<name, made, capacity, map, crashed>>

DoMap(p) ==
  /\ pc[p] = "map"
  /\ IF at[p] = "meta" THEN Goto(p, "create", "data") ELSE Goto(p, "header", "meta")
  /\ UNCHANGED <<files, map, crashed>>

Fail(p) ==
  /\ pc[p] \in {"size", "map"}
  /\ Goto(p, "undo", at[p])
  /\ UNCHANGED <<files, map, crashed>>

\* Mutant: a ring that has no data segment keeps its header.
UndoData(p) ==
  /\ pc[p] = "undo"
  /\ name' = [name EXCEPT ![at[p]] = None]
  /\ Return(p)
  /\ UNCHANGED <<made, sized, capacity, crashed>>

(* shm_unlink removes the name, whatever it stands for by now.             *)
Undo(p) ==
  /\ pc[p] = "undo"
  /\ name' = [name EXCEPT ![at[p]] = None]
  /\ IF at[p] = "meta" THEN Return(p) ELSE Goto(p, "abandon", "meta") /\ UNCHANGED map
  /\ UNCHANGED <<made, sized, capacity, crashed>>

Abandon(p) ==
  /\ pc[p] = "abandon"
  /\ name' = [name EXCEPT !["meta"] = None]
  /\ Return(p)
  /\ UNCHANGED <<made, sized, capacity, crashed>>

InitHeader(p) ==
  /\ pc[p] = "header"
  /\ capacity' = [capacity EXCEPT ![map[p]["meta"]] = map[p]["data"]]
  /\ Goto(p, "up", "meta")
  /\ UNCHANGED <<name, made, sized, map, crashed>>

-----------------------------------------------------------------------------
(* Attach: MemoryMap::Open maps what the name stands for, sized or not.    *)

AttachMeta(p) ==
  /\ pc[p] = "idle" /\ name["meta"] # None
  /\ map' = [map EXCEPT ![p]["meta"] = name["meta"]]
  /\ Goto(p, "read", "meta")
  /\ UNCHANGED <<files, crashed>>

(* A page that is not there is a SIGBUS; a capacity of 0 cannot be mapped. *)
ReadCapacity(p) ==
  /\ pc[p] = "read"
  /\ CASE map[p]["meta"] \notin sized -> Goto(p, "killed", "meta") /\ map' = [map EXCEPT ![p] = NoMap]
       [] capacity[map[p]["meta"]] = None /\ map[p]["meta"] \in sized -> Return(p)
       [] OTHER -> Goto(p, "open", "data") /\ UNCHANGED map
  /\ UNCHANGED <<files, crashed>>

(* Open returns an error if the name is gone, or if it cannot be mapped.   *)
AttachData(p) ==
  /\ pc[p] = "open"
  /\ \/ Return(p)
     \/ /\ name["data"] # None
        /\ Goto(p, "up", "meta") /\ map' = [map EXCEPT ![p]["data"] = name["data"]]
  /\ UNCHANGED <<files, crashed>>

-----------------------------------------------------------------------------
(* Unlink is for the owner when it cleans up (memory_map.h).  That nobody  *)
(* comes or goes meanwhile is more than the comment asks of callers.       *)
MayUnlink == \A p \in Processes : pc[p] \in {"idle", "up", "dead", "killed"}

UnlinkMeta(p) ==
  /\ pc[p] = "idle" /\ MayUnlink
  /\ name' = [name EXCEPT !["meta"] = None]
  /\ Goto(p, "unlink", "data")
  /\ UNCHANGED <<made, sized, capacity, map, crashed>>

UnlinkData(p) ==
  /\ pc[p] = "unlink"
  /\ name' = [name EXCEPT !["data"] = None]
  /\ Return(p)
  /\ UNCHANGED <<made, sized, capacity, crashed>>

Close(p) ==
  /\ pc[p] = "up"
  /\ Return(p)
  /\ UNCHANGED <<files, crashed>>

Crash(p) ==
  /\ pc[p] \notin {"idle", "dead", "killed"}
  /\ Goto(p, "dead", "meta") /\ map' = [map EXCEPT ![p] = NoMap]
  /\ crashed' = TRUE
  /\ UNCHANGED files

Restart(p) ==
  /\ pc[p] \in {"dead", "killed"}
  /\ Return(p)
  /\ UNCHANGED <<files, crashed>>

Next == \E p \in Processes :
  \/ Create(p) \/ ShmOpen(p) \/ ShmOpenFails(p) \/ Ftruncate(p) \/ DoMap(p) \/ Fail(p)
  \/ Undo(p) \/ Abandon(p) \/ InitHeader(p)
  \/ AttachMeta(p) \/ ReadCapacity(p) \/ AttachData(p)
  \/ UnlinkMeta(p) \/ UnlinkData(p) \/ Close(p) \/ Crash(p) \/ Restart(p)

Spec == Init /\ [][Next]_vars

-----------------------------------------------------------------------------
(* Whoever is attached has the header and the data of one ring, both with  *)
(* pages behind them, and no two rings share their data.                   *)
AttachedToOneRing ==
  LET up == {p \in Processes : pc[p] = "up"} IN
  /\ \A p \in up : /\ {map[p]["meta"], map[p]["data"]} \subseteq sized
                   /\ capacity[map[p]["meta"]] = map[p]["data"]
  /\ \A p, q \in up : map[p]["data"] = map[q]["data"] => map[p]["meta"] = map[q]["meta"]

(* A Create that fails removes the names it made and no others.            *)
OnlyOwnNames == \A p \in Processes :
  pc[p] \in {"undo", "abandon"} => name[at[p]] = map[p][at[p]]

(* A Create that failed leaves nothing behind: unless a process has died,  *)
(* a ring has both its names or neither once nobody is at work.            *)
AllOrNothing ==
  (~crashed /\ MayUnlink) => ((name["meta"] = None) <=> (name["data"] = None))

-----------------------------------------------------------------------------
(* The inductive invariant.  A process that has made the meta name is the  *)
(* only one at work on the names, until its header is complete.            *)
Labels == {"idle", "create", "size", "map", "undo", "abandon", "header", "up",
           "read", "open", "unlink", "dead", "killed"}

TypeOK ==
  /\ made \subseteq Segments /\ sized \subseteq made
  /\ name \in [Names -> made \cup {None}]
  /\ capacity \in [Segments -> made \cup {None}]
  /\ pc \in [Processes -> Labels] /\ at \in [Processes -> Names]
  /\ map \in [Processes -> [Names -> made \cup {None}]]

OwnsMeta(p) ==
  pc[p] \in {"size", "map", "undo", "abandon", "header"} \/ (pc[p] = "create" /\ at[p] = "data")

OwnsData(p) == pc[p] = "header" \/ (pc[p] \in {"size", "map", "undo"} /\ at[p] = "data")

OwnersInv ==
  /\ \A p, q \in Processes : OwnsMeta(p) /\ OwnsMeta(q) => p = q
  /\ \A p \in Processes :
       /\ OwnsMeta(p) => /\ map[p]["meta"] # None /\ name["meta"] = map[p]["meta"]
                         /\ capacity[map[p]["meta"]] = None
       /\ OwnsData(p) => /\ map[p]["data"] # None /\ name["data"] = map[p]["data"]
                         /\ \A s \in Segments : capacity[s] # map[p]["data"]
       /\ (OwnsMeta(p) /\ at[p] = "data") \/ pc[p] = "header" => map[p]["meta"] \in sized
       /\ pc[p] = "map" => map[p][at[p]] \in sized
       /\ pc[p] = "header" => map[p]["data"] \in sized
       /\ pc[p] = "abandon" => at[p] = "meta"

(* A header is written once, and its data stays under the name.            *)
RingsInv ==
  /\ \A s \in Segments : capacity[s] # None => {s, capacity[s]} \subseteq sized
  /\ \A s, t \in Segments : capacity[s] = capacity[t] /\ capacity[s] # None => s = t
  /\ name["meta"] # None => capacity[name["meta"]] \in {None, name["data"]}

AttachInv == \A p \in Processes :
  /\ pc[p] \in {"read", "open"} =>
       /\ map[p]["meta"] # None
       /\ capacity[map[p]["meta"]] # None => name["meta"] = map[p]["meta"]
  /\ pc[p] = "open" => capacity[map[p]["meta"]] # None
  /\ pc[p] = "up" => map[p]["meta"] # None /\ map[p]["data"] # None
                     /\ capacity[map[p]["meta"]] = map[p]["data"]

UnlinkInv == \A p \in Processes :
  pc[p] = "unlink" =>
    /\ name["meta"] = None
    /\ \A q \in Processes \ {p} : pc[q] \in {"idle", "up", "dead", "killed"}

(* Whoever has made or removed one of the names still has to see to the    *)
(* other; otherwise both are there or neither.                             *)
NamesInv == ~crashed =>
  /\ \/ \E p \in Processes : OwnsMeta(p) \/ pc[p] = "unlink"
     \/ (name["meta"] = None) <=> (name["data"] = None)
  /\ \A p \in Processes : OwnsMeta(p) /\ ~OwnsData(p) => name["data"] = None

SegmentsInv == TypeOK /\ OwnersInv /\ RingsInv /\ AttachInv /\ UnlinkInv
=============================================================================
