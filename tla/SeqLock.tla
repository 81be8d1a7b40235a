------------------------------- MODULE SeqLock -------------------------------
(***************************************************************************)
(* common/concurrency/seqlock.h as its users drive it: one writer brackets *)
(* its field stores with WriteBegin and WriteEnd, readers copy the fields  *)
(* between ReadBegin and ReadRetry and try again when that says so.        *)
(*                                                                         *)
(* The payload is copied field by field, in whatever order the compiler    *)
(* chose.  The k-th write stores k in every field.  Stores and loads are   *)
(* in program order: that is what the fences are for, and on the           *)
(* processors the library is built for the two fetch_adds are full fences. *)
(***************************************************************************)
EXTENDS Integers

CONSTANTS
  Readers,      \* the consumer threads
  Fields,       \* the fields of the payload
  MaxWrites     \* bound: how often the writer writes

VARIABLES
  sequence,     \* SeqLock::sequence_
  data,         \* the payload
  written,      \* how many writes are complete
  unstored,     \* the fields the write in progress has left to store
  rpc,          \* a reader: "idle", "begin" or "copy",
  start_seq,    \*   the sequence it started from,
  local,        \*   its copy of the payload,
  uncopied,     \*   the fields it has left to copy,
  result        \*   and what its last read returned

writer == <<sequence, data, written, unstored>>
reader == <<rpc, start_seq, local, uncopied, result>>
vars == <<writer, reader>>

Odd(n) == n % 2 = 1

TypeOK ==
  /\ sequence \in Nat /\ written \in Nat
  /\ data \in [Fields -> Nat]
  /\ unstored \in SUBSET Fields
  /\ rpc \in [Readers -> {"idle", "begin", "copy"}]
  /\ start_seq \in [Readers -> Nat]
  /\ local \in [Readers -> [Fields -> Nat]]
  /\ uncopied \in [Readers -> SUBSET Fields]
  /\ result \in [Readers -> [Fields -> Nat]]

Init ==
  /\ sequence = 0 /\ written = 0
  /\ data = [f \in Fields |-> 0]
  /\ unstored = {}
  /\ rpc = [r \in Readers |-> "idle"]
  /\ start_seq = [r \in Readers |-> 0]
  /\ local = [r \in Readers |-> [f \in Fields |-> 0]]
  /\ uncopied = [r \in Readers |-> {}]
  /\ result = [r \in Readers |-> [f \in Fields |-> 0]]

-----------------------------------------------------------------------------
(* The writer.                                                             *)

WriteBegin ==
  /\ ~Odd(sequence) /\ written < MaxWrites
  /\ sequence' = sequence + 1
  /\ unstored' = Fields
  /\ UNCHANGED <<data, written, reader>>

Store(f) ==
  /\ Odd(sequence) /\ f \in unstored
  /\ data' = [data EXCEPT ![f] = written + 1]
  /\ unstored' = unstored \ {f}
  /\ UNCHANGED <<sequence, written, reader>>

\* Mutant: the lock is released while a field is still to be stored.
WriteEndEarly ==
  /\ Odd(sequence)
  /\ sequence' = sequence + 1
  /\ written' = written + 1
  /\ unstored' = {}
  /\ UNCHANGED <<data, reader>>

\* Mutant: the second increment is missing.
WriteEndForgotten ==
  /\ Odd(sequence) /\ unstored = {} /\ written = 0
  /\ written' = written + 1
  /\ UNCHANGED <<sequence, data, unstored, reader>>

WriteEnd ==
  /\ Odd(sequence) /\ unstored = {}
  /\ sequence' = sequence + 1
  /\ written' = written + 1
  /\ UNCHANGED <<data, unstored, reader>>

-----------------------------------------------------------------------------
(* A reader.                                                               *)

Read(r) ==
  /\ rpc[r] = "idle"
  /\ rpc' = [rpc EXCEPT ![r] = "begin"]
  /\ UNCHANGED <<writer, start_seq, local, uncopied, result>>

ReadBegin(r) ==
  /\ rpc[r] = "begin"
  /\ start_seq' = [start_seq EXCEPT ![r] = sequence]
  /\ uncopied' = [uncopied EXCEPT ![r] = Fields]
  /\ rpc' = [rpc EXCEPT ![r] = "copy"]
  /\ UNCHANGED <<writer, local, result>>

Copy(r, f) ==
  /\ rpc[r] = "copy" /\ f \in uncopied[r]
  /\ local' = [local EXCEPT ![r][f] = data[f]]
  /\ uncopied' = [uncopied EXCEPT ![r] = uncopied[r] \ {f}]
  /\ UNCHANGED <<writer, rpc, start_seq, result>>

(* ReadRetry answers "false" and the copy is used; the copy is dead after. *)
\* Mutant: an odd start is not rejected.
AcceptOdd(r) ==
  /\ rpc[r] = "copy" /\ uncopied[r] = {}
  /\ start_seq[r] = sequence
  /\ result' = [result EXCEPT ![r] = local[r]]
  /\ start_seq' = [start_seq EXCEPT ![r] = 0]
  /\ local' = [local EXCEPT ![r] = [f \in Fields |-> 0]]
  /\ rpc' = [rpc EXCEPT ![r] = "idle"]
  /\ UNCHANGED <<writer, uncopied>>

Accept(r) ==
  /\ rpc[r] = "copy" /\ uncopied[r] = {}
  /\ ~Odd(start_seq[r]) /\ start_seq[r] = sequence
  /\ result' = [result EXCEPT ![r] = local[r]]
  /\ start_seq' = [start_seq EXCEPT ![r] = 0]
  /\ local' = [local EXCEPT ![r] = [f \in Fields |-> 0]]
  /\ rpc' = [rpc EXCEPT ![r] = "idle"]
  /\ UNCHANGED <<writer, uncopied>>

Retry(r) ==
  /\ rpc[r] = "copy" /\ uncopied[r] = {}
  /\ Odd(start_seq[r]) \/ start_seq[r] # sequence
  /\ start_seq' = [start_seq EXCEPT ![r] = 0]
  /\ local' = [local EXCEPT ![r] = [f \in Fields |-> 0]]
  /\ rpc' = [rpc EXCEPT ![r] = "begin"]
  /\ UNCHANGED <<writer, uncopied, result>>

-----------------------------------------------------------------------------
WriterStep == WriteEnd \/ \E f \in Fields : Store(f)

ReaderStep(r) == ReadBegin(r) \/ Accept(r) \/ Retry(r) \/ \E f \in Fields : Copy(r, f)

Next == WriteBegin \/ WriterStep \/ \E r \in Readers : Read(r) \/ ReaderStep(r)

Spec == Init /\ [][Next]_vars

(* A write that began ends, and a reader keeps running.  The writer need   *)
(* not write again; that it stops is the bound MaxWrites, and the reason   *)
(* why a reader's loop ends.                                               *)
Fairness == WF_vars(WriterStep) /\ \A r \in Readers : WF_vars(ReaderStep(r))

-----------------------------------------------------------------------------
(* ReadRetry accepts only a copy that is the payload at that very moment:  *)
(* reads and writes implement AtomicSnapshot.                              *)
Snapshot == INSTANCE AtomicSnapshot WITH
  Payloads <- [Fields -> Nat], value <- [f \in Fields |-> written]

ImplementsSnapshot == Snapshot!Spec

(* A reader gets its copy once the writer pauses: no sequence value left   *)
(* behind by a write keeps readers in their retry loop.                    *)
ReadReturns == \A r \in Readers : rpc[r] # "idle" ~> rpc[r] = "idle"

(* The inductive invariant: the sequence counts the writes, the payload is *)
(* whole while it is even, and so is every copy started from the sequence. *)
PayloadInv ==
  /\ sequence = IF Odd(sequence) THEN 2 * written + 1 ELSE 2 * written
  /\ ~Odd(sequence) => unstored = {}
  /\ \A f \in Fields :
       data[f] = IF Odd(sequence) /\ f \notin unstored THEN written + 1 ELSE written

CopyInv(r) ==
  /\ start_seq[r] <= sequence
  /\ rpc[r] = "copy" /\ start_seq[r] = sequence /\ ~Odd(sequence) =>
       \A f \in Fields \ uncopied[r] : local[r][f] = written

SeqLockInv == TypeOK /\ PayloadInv /\ \A r \in Readers : CopyInv(r)
=============================================================================
