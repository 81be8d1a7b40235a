------------------------------ MODULE RouteCache ------------------------------
(***************************************************************************)
(* SeqlockRouteCache of common/locks_under_the_hood: a hand-written        *)
(* sequence lock around a RouteEntry.  Unlike SeqLock, a write is a load   *)
(* and two plain stores of seq_, so it is correct for one writer only, and *)
(* the reader's loop is a do-while whose `continue` evaluates the          *)
(* condition s0 != s1 with the s1 of an earlier round.                     *)
(*                                                                         *)
(* The n-th write to begin stores n in every field.  On the x86 targets    *)
(* of the library the fences keep stores and loads in program order.       *)
(***************************************************************************)
EXTENDS Integers

CONSTANTS
  Writers,      \* threads that call Write
  Readers,      \* threads that call Read
  Fields,       \* the fields of RouteEntry
  MaxWrites     \* bound: how many writes begin

VARIABLES
  seq_, entry,
  begun,        \* how many writes have begun
  wpc,          \* a writer: "idle", "odd" or "store",
  s,            \*   the sequence it loaded,
  wvalue,       \*   what it writes
  unstored,     \*   and the fields it has left to store
  rpc,          \* a reader: "idle", "s0", "copy" or "done",
  s0, s1,       \*   its two loads of the sequence,
  copy,         \*   its copy of the entry,
  uncopied,     \*   the fields it has left to copy
  floor         \*   and what had been written when its Read began

writer == <<seq_, entry, begun, wpc, s, wvalue, unstored>>
reader == <<rpc, s0, s1, copy, uncopied, floor>>
vars == <<writer, reader>>

Odd(n) == n % 2 = 1
Blank == [f \in Fields |-> 0]

Init ==
  /\ seq_ = 0 /\ entry = Blank /\ begun = 0
  /\ wpc = [w \in Writers |-> "idle"]
  /\ s = [w \in Writers |-> 0] /\ wvalue = [w \in Writers |-> 0]
  /\ unstored = [w \in Writers |-> {}]
  /\ rpc = [r \in Readers |-> "idle"]
  /\ s0 = [r \in Readers |-> 0] /\ s1 = [r \in Readers |-> 0]
  /\ copy = [r \in Readers |-> Blank]
  /\ uncopied = [r \in Readers |-> {}]
  /\ floor = [r \in Readers |-> Blank]

-----------------------------------------------------------------------------
(* Write.                                                                  *)

WriteLoad(w) ==
  /\ wpc[w] = "idle" /\ begun < MaxWrites
  /\ begun' = begun + 1
  /\ wvalue' = [wvalue EXCEPT ![w] = begun']
  /\ s' = [s EXCEPT ![w] = seq_]
  /\ wpc' = [wpc EXCEPT ![w] = "odd"]
  /\ UNCHANGED <<seq_, entry, unstored, reader>>

WriteOdd(w) ==
  /\ wpc[w] = "odd"
  /\ seq_' = s[w] + 1
  /\ unstored' = [unstored EXCEPT ![w] = Fields]
  /\ wpc' = [wpc EXCEPT ![w] = "store"]
  /\ UNCHANGED <<entry, begun, s, wvalue, reader>>

Store(w, f) ==
  /\ wpc[w] = "store" /\ f \in unstored[w]
  /\ entry' = [entry EXCEPT ![f] = wvalue[w]]
  /\ unstored' = [unstored EXCEPT ![w] = unstored[w] \ {f}]
  /\ UNCHANGED <<seq_, begun, wpc, s, wvalue, reader>>

\* Mutant: the last store repeats the odd sequence.
WriteEvenOdd(w) ==
  /\ wpc[w] = "store" /\ unstored[w] = {}
  /\ seq_' = s[w] + 1
  /\ s' = [s EXCEPT ![w] = 0] /\ wvalue' = [wvalue EXCEPT ![w] = 0]
  /\ wpc' = [wpc EXCEPT ![w] = "idle"]
  /\ UNCHANGED <<entry, begun, unstored, reader>>

WriteEven(w) ==
  /\ wpc[w] = "store" /\ unstored[w] = {}
  /\ seq_' = s[w] + 2
  /\ s' = [s EXCEPT ![w] = 0] /\ wvalue' = [wvalue EXCEPT ![w] = 0]
  /\ wpc' = [wpc EXCEPT ![w] = "idle"]
  /\ UNCHANGED <<entry, begun, unstored, reader>>

-----------------------------------------------------------------------------
(* Read.                                                                   *)

Read(r) ==
  /\ rpc[r] = "idle"
  /\ floor' = [floor EXCEPT ![r] = entry]
  /\ rpc' = [rpc EXCEPT ![r] = "s0"]
  /\ UNCHANGED <<writer, s0, s1, copy, uncopied>>

(* The load of s0, and for an odd one the do-while's condition at once.    *)
\* Mutant: an odd sequence ends the loop instead of starting another round.
LoadS0GivesUp(r) ==
  /\ rpc[r] = "s0"
  /\ s0' = [s0 EXCEPT ![r] = seq_]
  /\ rpc' = [rpc EXCEPT ![r] = IF Odd(seq_) THEN "done" ELSE "copy"]
  /\ uncopied' = [uncopied EXCEPT ![r] = IF Odd(seq_) THEN {} ELSE Fields]
  /\ UNCHANGED <<writer, s1, copy, floor>>

LoadS0(r) ==
  /\ rpc[r] = "s0"
  /\ s0' = [s0 EXCEPT ![r] = seq_]
  /\ rpc' = [rpc EXCEPT ![r] =
       IF ~Odd(seq_) THEN "copy" ELSE IF seq_ # s1[r] THEN "s0" ELSE "done"]
  /\ uncopied' = [uncopied EXCEPT ![r] = IF Odd(seq_) THEN {} ELSE Fields]
  /\ UNCHANGED <<writer, s1, copy, floor>>

Copy(r, f) ==
  /\ rpc[r] = "copy" /\ f \in uncopied[r]
  /\ copy' = [copy EXCEPT ![r][f] = entry[f]]
  /\ uncopied' = [uncopied EXCEPT ![r] = uncopied[r] \ {f}]
  /\ UNCHANGED <<writer, rpc, s0, s1, floor>>

LoadS1(r) ==
  /\ rpc[r] = "copy" /\ uncopied[r] = {}
  /\ s1' = [s1 EXCEPT ![r] = seq_]
  /\ rpc' = [rpc EXCEPT ![r] = IF s0[r] # seq_ THEN "s0" ELSE "done"]
  /\ UNCHANGED <<writer, s0, copy, uncopied, floor>>

Return(r) ==
  /\ rpc[r] = "done"
  /\ rpc' = [rpc EXCEPT ![r] = "idle"]
  /\ s0' = [s0 EXCEPT ![r] = 0] /\ s1' = [s1 EXCEPT ![r] = 0]
  /\ copy' = [copy EXCEPT ![r] = Blank] /\ floor' = [floor EXCEPT ![r] = Blank]
  /\ UNCHANGED <<writer, uncopied>>

-----------------------------------------------------------------------------
WriterStep(w) == WriteOdd(w) \/ WriteEven(w) \/ \E f \in Fields : Store(w, f)

ReaderStep(r) == LoadS0(r) \/ LoadS1(r) \/ Return(r) \/ \E f \in Fields : Copy(r, f)

Next ==
  \/ \E w \in Writers : WriteLoad(w) \/ WriterStep(w)
  \/ \E r \in Readers : Read(r) \/ ReaderStep(r)

Spec == Init /\ [][Next]_vars

(* Calls that began run on; nobody has to begin another one.               *)
Fairness ==
  /\ \A w \in Writers : WF_vars(WriterStep(w))
  /\ \A r \in Readers : WF_vars(ReaderStep(r))

-----------------------------------------------------------------------------
Whole(e) == \A f, g \in Fields : e[f] = e[g]

(* A Read never returns anything older than what its call found, though    *)
(* the copy it returns may be from an earlier round of its loop.           *)
CacheReadsFresh == \A r \in Readers : rpc[r] = "done" => \A f \in Fields : copy[r][f] >= floor[r][f]

(* Once the writers pause a Read returns.                                  *)
ReadReturns == \A r \in Readers : rpc[r] # "idle" ~> rpc[r] = "idle"

(* The test's "Seqlock guarantees tear-free multi-field reads": what Read  *)
(* returns is one entry.                                                   *)
TearFree == \A r \in Readers : rpc[r] = "done" => Whole(copy[r])

-----------------------------------------------------------------------------
(* The inductive invariant for one writer: the sequence is odd exactly     *)
(* while it stores, the fields it has stored hold its value, and nothing   *)
(* in the entry is newer than it.                                          *)
TypeOK ==
  /\ seq_ \in Nat /\ entry \in [Fields -> Nat] /\ begun \in Nat
  /\ wpc \in [Writers -> {"idle", "odd", "store"}]
  /\ s \in [Writers -> Nat] /\ wvalue \in [Writers -> Nat]
  /\ unstored \in [Writers -> SUBSET Fields]
  /\ rpc \in [Readers -> {"idle", "s0", "copy", "done"}]
  /\ s0 \in [Readers -> Nat] /\ s1 \in [Readers -> Nat]
  /\ copy \in [Readers -> [Fields -> Nat]]
  /\ uncopied \in [Readers -> SUBSET Fields]
  /\ floor \in [Readers -> [Fields -> Nat]]

WriterInv ==
  /\ \A f \in Fields : entry[f] <= begun
  /\ \A w \in Writers :
       /\ wpc[w] # "store" => ~Odd(seq_) /\ Whole(entry)
       /\ wpc[w] # "idle" => wvalue[w] = begun
       /\ wpc[w] = "odd" => s[w] = seq_
       /\ wpc[w] = "store" =>
            /\ ~Odd(s[w]) /\ seq_ = s[w] + 1
            /\ \A f \in Fields \ unstored[w] : entry[f] = begun

Fresh(r) == \A f \in Fields \ uncopied[r] : copy[r][f] >= floor[r][f]

(* A copy that a round has completed is what a later round may return.     *)
ReaderInv ==
  \A r \in Readers :
    /\ \A f \in Fields : floor[r][f] <= entry[f]
    /\ rpc[r] \in {"copy", "done"} \/ s1[r] # 0 => Fresh(r)
    /\ rpc[r] \in {"s0", "done"} => uncopied[r] = {}
    /\ rpc[r] = "idle" => uncopied[r] = {} /\ s1[r] = 0

CacheInv == TypeOK /\ WriterInv /\ ReaderInv
=============================================================================
