--------------------------- MODULE BroadcastFrames ---------------------------
(***************************************************************************)
(* The data plane of common/shared_memory/broadcast_ring_buffer.{h,cc}:    *)
(* frames in a ring of words, each with a sequence lock in its header, and *)
(* the three ways to read them, one memory access per step.                *)
(*                                                                         *)
(* A frame is one header word and the words of its payload.  What an       *)
(* earlier lap left in a word is still there: a header written where       *)
(* payload used to be starts from whatever version those bits spell.  The  *)
(* roster is abstracted to what BroadcastRoster proves of it: the producer *)
(* waits for members, and an evicted reader reads on unprotected.          *)
(*                                                                         *)
(* Messages are numbered; `log` remembers where each of them starts.       *)
(***************************************************************************)
EXTENDS Integers, Sequences

CONSTANTS
  Readers,
  Capacity,       \* words in the ring
  Streams,        \* what the producer sends: see stream
  PayloadBits,    \* what a payload word spells if it is read as a header
  MaxCursor       \* bound: the producer stops at this position

Writing == {"header", "publish", "payload", "commit"}

(* Reserve refuses a frame that is larger than the ring.                   *)
ASSUME FramesAssumption ==
  /\ Capacity \in Nat \ {0}
  /\ PayloadBits \subseteq [version : Nat, length : Nat]
  /\ \A s \in Streams :
       /\ s.sizes \subseteq 1 .. Capacity /\ s.dies \subseteq {"idle"} \cup Writing
       /\ s.evicts \in BOOLEAN /\ s.recovers \in BOOLEAN

VARIABLES
  stream,           \* the frame sizes in use, whether readers are evicted, where
                    \*   a producer dies, and whether another one attaches then
  mem,              \* the data segment
  producer_cursor, commit_cursor,
  log,              \* where each message starts
  ppc,              \* the producer: "idle", "header", "publish", "payload", "commit", "dead"
  claimed_cursor,   \*   the end of its reservation
  unwritten,        \*   and the payload words it has left to write
  members,          \* the readers it waits for
  cursor,           \* what each reader has released
  rpc,              \* a reader: "idle", "prod", "before", "length", "payload" or "deliver",
  api,              \*   the function it called,
  current, limit,   \*   the frame it reads and the commit cursor it loaded,
  version_before, length, uncopied,
  seen              \*   and the messages whose words are in its copy

producer == <<mem, producer_cursor, commit_cursor, log, ppc, claimed_cursor, unwritten>>
reader == <<cursor, rpc, api, current, limit, version_before, length, uncopied, seen>>
vars == <<stream, members, producer, reader>>

Word(position) == position % Capacity
Odd(n) == n % 2 = 1
Start == log[Len(log)]           \* current_reservation_.start_offset

Init ==
  /\ stream \in Streams
  /\ mem = [w \in 0 .. Capacity - 1 |-> [version |-> 0, length |-> 0, msg |-> 0]]
  /\ producer_cursor = 0 /\ commit_cursor = 0 /\ log = <<>>
  /\ ppc = "idle" /\ claimed_cursor = 0 /\ unwritten = {}
  /\ members = Readers
  /\ cursor = [r \in Readers |-> 0]
  /\ rpc = [r \in Readers |-> "idle"] /\ api = [r \in Readers |-> "PollCopy"]
  /\ current = [r \in Readers |-> 0] /\ limit = [r \in Readers |-> 0]
  /\ version_before = [r \in Readers |-> 0] /\ length = [r \in Readers |-> 0]
  /\ uncopied = [r \in Readers |-> {}] /\ seen = [r \in Readers |-> {}]

-----------------------------------------------------------------------------
(* The producer.                                                           *)

(* Reserve past its back-pressure, up to the store of an odd version.      *)
\* Mutant: back-pressure looks at the frame's start instead of its end.
ReserveStart(size) ==
  /\ ppc = "idle" /\ producer_cursor + size <= MaxCursor
  /\ \A r \in members : producer_cursor - cursor[r] <= Capacity
  /\ claimed_cursor' = producer_cursor + size
  /\ log' = Append(log, producer_cursor)
  /\ mem' = [mem EXCEPT ![Word(producer_cursor)].version = IF Odd(@) THEN @ ELSE @ + 1]
  /\ ppc' = "header"
  /\ UNCHANGED <<stream, members, producer_cursor, commit_cursor, unwritten, reader>>

Reserve(size) ==
  /\ ppc = "idle" /\ producer_cursor + size <= MaxCursor
  /\ \A r \in members : producer_cursor + size - cursor[r] <= Capacity
  /\ claimed_cursor' = producer_cursor + size
  /\ log' = Append(log, producer_cursor)
  /\ mem' = [mem EXCEPT ![Word(producer_cursor)].version = IF Odd(@) THEN @ ELSE @ + 1]
  /\ ppc' = "header"
  /\ UNCHANGED <<stream, members, producer_cursor, commit_cursor, unwritten, reader>>

WriteHeader ==
  /\ ppc = "header"
  /\ LET words == claimed_cursor - Start - 1 IN
     /\ mem' = [mem EXCEPT ![Word(Start)].length = words, ![Word(Start)].msg = Len(log)]
     /\ unwritten' = 1 .. words
  /\ ppc' = "publish"
  /\ UNCHANGED <<stream, members, producer_cursor, commit_cursor, log, claimed_cursor, reader>>

Publish ==
  /\ ppc = "publish"
  /\ producer_cursor' = claimed_cursor
  /\ ppc' = "payload"
  /\ UNCHANGED <<stream, members, mem, commit_cursor, log, claimed_cursor, unwritten, reader>>

WritePayload(i, bits) ==
  /\ ppc = "payload" /\ i \in unwritten
  /\ mem' = [mem EXCEPT ![Word(Start + i)] =
               [version |-> bits.version, length |-> bits.length, msg |-> Len(log)]]
  /\ unwritten' = unwritten \ {i}
  /\ UNCHANGED <<stream, members, producer_cursor, commit_cursor, log, ppc, claimed_cursor, reader>>

(* Commit: the version becomes even, then the frame becomes visible.       *)
\* Mutant: the version is left odd.
SealForgotten ==
  /\ ppc = "payload" /\ unwritten = {}
  /\ ppc' = "commit"
  /\ UNCHANGED <<stream, members, mem, producer_cursor, commit_cursor, log, claimed_cursor,
                 unwritten, reader>>

Seal ==
  /\ ppc = "payload" /\ unwritten = {}
  /\ mem' = [mem EXCEPT ![Word(Start)].version = @ + 1]
  /\ ppc' = "commit"
  /\ UNCHANGED <<stream, members, producer_cursor, commit_cursor, log, claimed_cursor,
                 unwritten, reader>>

Commit ==
  /\ ppc = "commit"
  /\ commit_cursor' = claimed_cursor
  /\ ppc' = "idle" /\ claimed_cursor' = 0
  /\ UNCHANGED <<stream, members, mem, producer_cursor, log, unwritten, reader>>

(* The scan of a later Reserve finds the reader's heart-beat over age.     *)
Evict(r) ==
  /\ ppc = "idle" /\ stream.evicts /\ r \in members
  /\ members' = members \ {r}
  /\ UNCHANGED <<stream, producer, reader>>

(* The producer's process dies.  What it had not claimed was never sent.   *)
ProducerDies ==
  /\ ppc \in stream.dies
  /\ log' = IF ppc \in {"header", "publish"} THEN SubSeq(log, 1, Len(log) - 1) ELSE log
  /\ ppc' = "dead" /\ claimed_cursor' = 0 /\ unwritten' = {}
  /\ UNCHANGED <<stream, members, mem, producer_cursor, commit_cursor, reader>>

(* Attach(name, writable=true): its evict_timeout_ns is 0, so that it may  *)
(* evict every reader, and it goes on at the claim it finds.               *)
AttachProducer ==
  /\ ppc = "dead" /\ stream.recovers
  /\ ppc' = "idle"
  /\ UNCHANGED <<stream, members, mem, producer_cursor, commit_cursor, log, claimed_cursor,
                 unwritten, reader>>

-----------------------------------------------------------------------------
(* A reader.                                                               *)

Frame(r) == mem[Word(current[r])]

(* The call returns with the reader's cursor at c.                         *)
Done(r, c) ==
  /\ cursor' = [cursor EXCEPT ![r] = c] /\ current' = [current EXCEPT ![r] = 0]
  /\ rpc' = [rpc EXCEPT ![r] = "idle"] /\ limit' = [limit EXCEPT ![r] = 0]
  /\ api' = [api EXCEPT ![r] = "PollCopy"]
  /\ version_before' = [version_before EXCEPT ![r] = 0]
  /\ length' = [length EXCEPT ![r] = 0]
  /\ uncopied' = [uncopied EXCEPT ![r] = {}] /\ seen' = [seen EXCEPT ![r] = {}]

(* At the commit cursor the call returns NotFound and changes nothing.     *)
Poll(r, function) ==
  /\ rpc[r] = "idle" /\ cursor[r] < commit_cursor
  /\ api' = [api EXCEPT ![r] = function]
  /\ current' = [current EXCEPT ![r] = cursor[r]]
  /\ limit' = [limit EXCEPT ![r] = commit_cursor]
  /\ rpc' = [rpc EXCEPT ![r] = "prod"]
  /\ UNCHANGED <<stream, members, producer, cursor, version_before, length, uncopied, seen>>

CheckLapped(r) ==
  /\ rpc[r] = "prod"
  /\ IF producer_cursor - current[r] > Capacity
       THEN Done(r, current[r])
       ELSE /\ rpc' = [rpc EXCEPT ![r] = IF api[r] = "PollZeroCopy" THEN "length" ELSE "before"]
            /\ UNCHANGED <<cursor, api, current, limit, version_before, length, uncopied, seen>>
  /\ UNCHANGED <<stream, members, producer>>

LoadVersion(r) ==
  /\ rpc[r] = "before"
  /\ IF Odd(Frame(r).version)
       THEN rpc' = [rpc EXCEPT ![r] = "prod"] /\ UNCHANGED version_before
       ELSE /\ rpc' = [rpc EXCEPT ![r] = "length"]
            /\ version_before' = [version_before EXCEPT ![r] = Frame(r).version]
  /\ UNCHANGED <<stream, members, producer, cursor, api, current, limit, length, uncopied, seen>>

(* PollCopyBatch gives up after kMaxRetries, which any retry may be.       *)
GiveUp(r) ==
  /\ rpc[r] = "before" /\ api[r] = "PollCopyBatch" /\ Odd(Frame(r).version)
  /\ Done(r, current[r])
  /\ UNCHANGED <<stream, members, producer>>

LoadHeader(r) ==
  /\ rpc[r] = "length"
  /\ IF Frame(r).length > Capacity
       THEN Done(r, current[r])
       ELSE /\ length' = [length EXCEPT ![r] = Frame(r).length]
            /\ uncopied' = [uncopied EXCEPT ![r] = 1 .. Frame(r).length]
            /\ seen' = [seen EXCEPT ![r] = {Frame(r).msg}]
            /\ rpc' = [rpc EXCEPT ![r] = "payload"]
            /\ UNCHANGED <<cursor, api, current, limit, version_before>>
  /\ UNCHANGED <<stream, members, producer>>

(* One word copied or, for PollZeroCopy, used by the consumer in place.    *)
LoadPayload(r, i) ==
  /\ rpc[r] = "payload" /\ i \in uncopied[r]
  /\ seen' = [seen EXCEPT ![r] = seen[r] \cup {mem[Word(current[r] + i)].msg}]
  /\ uncopied' = [uncopied EXCEPT ![r] = uncopied[r] \ {i}]
  /\ UNCHANGED <<stream, members, producer, cursor, rpc, api, current, limit, version_before, length>>

\* Mutant: the version is not compared after the copy.
VerifyNothing(r) ==
  /\ rpc[r] = "payload" /\ uncopied[r] = {}
  /\ rpc' = [rpc EXCEPT ![r] = "deliver"]
  /\ UNCHANGED <<stream, members, producer, cursor, api, current, limit, version_before, length,
                 uncopied, seen>>

Verify(r) ==
  /\ rpc[r] = "payload" /\ uncopied[r] = {}
  /\ rpc' = [rpc EXCEPT ![r] =
       IF api[r] = "PollZeroCopy" \/ Frame(r).version = version_before[r] THEN "deliver" ELSE "prod"]
  /\ UNCHANGED <<stream, members, producer, cursor, api, current, limit, version_before, length,
                 uncopied, seen>>

(* The consumer has its message and advances by the length it was given;   *)
(* PollCopyBatch reads the length once more and takes the next frame.      *)
Advance(r) ==
  /\ rpc[r] = "deliver" /\ api[r] # "PollCopyBatch"
  /\ Done(r, current[r] + 1 + length[r])
  /\ UNCHANGED <<stream, members, producer>>

BatchEnds(r) ==
  /\ rpc[r] = "deliver" /\ api[r] = "PollCopyBatch"
  /\ Done(r, current[r] + 1 + Frame(r).length)
  /\ UNCHANGED <<stream, members, producer>>

BatchContinues(r) ==
  /\ rpc[r] = "deliver" /\ api[r] = "PollCopyBatch"
  /\ current[r] + 1 + Frame(r).length < limit[r]
  /\ current' = [current EXCEPT ![r] = current[r] + 1 + Frame(r).length]
  /\ rpc' = [rpc EXCEPT ![r] = "prod"]
  /\ version_before' = [version_before EXCEPT ![r] = 0]
  /\ length' = [length EXCEPT ![r] = 0] /\ seen' = [seen EXCEPT ![r] = {}]
  /\ UNCHANGED <<stream, members, producer, cursor, api, limit, uncopied>>

-----------------------------------------------------------------------------
Functions == {"PollCopy", "PollCopyBatch", "PollZeroCopy"}

ProducerStep == WriteHeader \/ Publish \/ Seal \/ Commit
                \/ \E i \in unwritten, bits \in PayloadBits : WritePayload(i, bits)

ReaderStep(r) ==
  \/ CheckLapped(r) \/ LoadVersion(r) \/ GiveUp(r) \/ LoadHeader(r)
  \/ Verify(r) \/ Advance(r) \/ BatchEnds(r) \/ BatchContinues(r)
  \/ \E i \in uncopied[r] : LoadPayload(r, i)

Next ==
  \/ \E size \in stream.sizes : Reserve(size)
  \/ ProducerStep \/ ProducerDies \/ AttachProducer
  \/ \E r \in Readers : \/ Evict(r) \/ ReaderStep(r)
                        \/ \E function \in Functions : Poll(r, function)

Spec == Init /\ [][Next]_vars

(* A call that began runs on; the producer need not send anything more.    *)
Fairness == WF_vars(ProducerStep) /\ \A r \in Readers : WF_vars(ReaderStep(r))

-----------------------------------------------------------------------------
(* The stress test's "exactly monotonic values with NO overruns": what a   *)
(* member reads at its cursor, by any of the three functions and with      *)
(* frames of any sizes, is the message that was written there, whole.      *)
MembersReadTheLog ==
  \A r \in members : rpc[r] = "deliver" => seen[r] = {m \in DOMAIN log : log[m] = current[r]}

(* PollCopy and PollCopyBatch return one message even to a reader that the *)
(* producer no longer waits for and overtakes during the copy: the message *)
(* at its cursor or one that a later lap put in the same place.            *)
CopiesAreWhole ==
  \A r \in Readers : rpc[r] = "deliver" /\ api[r] # "PollZeroCopy" =>
    \E m \in DOMAIN log :
      seen[r] = {m} /\ log[m] >= current[r] /\ Word(log[m]) = Word(current[r])

(* No call spins for ever on an odd version: it is a frame the producer is *)
(* about to publish, after which the reader finds itself lapped.  A        *)
(* producer may die and another attach as long as its frames are sealed;   *)
(* while it writes one, only if no reader has been evicted and none will   *)
(* attach.                                                                 *)
PollReturns == \A r \in Readers : rpc[r] # "idle" ~> rpc[r] = "idle"

(* "Set writable=true to attach as a Producer (for IPC/recovery)":         *)
(* PollReturns, asked of a ring that goes on after a producer has died     *)
(* with a frame claimed.                                                   *)
RecoveredPollsReturn == PollReturns

(* "It uses a SeqLock mechanism to ensure data integrity for consumers":   *)
(* CopiesAreWhole, asked of streams whose frames differ in size.           *)
DataIntegrity == CopiesAreWhole

-----------------------------------------------------------------------------
(* The inductive invariant.                                                *)

TypeOK ==
  /\ stream \in Streams
  /\ mem \in [0 .. Capacity - 1 -> [version : Nat, length : Nat, msg : Nat]]
  /\ producer_cursor \in Nat /\ commit_cursor \in Nat /\ claimed_cursor \in Nat
  /\ log \in Seq(Nat)
  /\ ppc \in {"idle", "dead"} \cup Writing
  /\ unwritten \subseteq Nat /\ members \subseteq Readers
  /\ rpc \in [Readers -> {"idle", "prod", "before", "length", "payload", "deliver"}]
  /\ api \in [Readers -> Functions]
  /\ cursor \in [Readers -> Nat] /\ current \in [Readers -> Nat] /\ limit \in [Readers -> Nat]
  /\ version_before \in [Readers -> Nat] /\ length \in [Readers -> Nat]
  /\ uncopied \in [Readers -> SUBSET Nat] /\ seen \in [Readers -> SUBSET Nat]

(* A claim that is not published yet lies beyond producer_cursor.          *)
Unpublished == ppc \in {"header", "publish"}
Claim == IF Unpublished THEN claimed_cursor ELSE producer_cursor
End(m) == IF m < Len(log) THEN log[m + 1] ELSE Claim
Boundary(position) == position = producer_cursor \/ \E m \in DOMAIN log : log[m] = position

(* The frames follow each other without a gap, up to the claim.            *)
LogInv ==
  /\ commit_cursor <= producer_cursor /\ Boundary(commit_cursor)
  /\ \A m \in DOMAIN log :
       /\ log[m] <= producer_cursor
       /\ log[m] < End(m) /\ End(m) <= log[m] + Capacity /\ End(m) - log[m] \in stream.sizes
  /\ \A m, n \in DOMAIN log : m < n => End(m) <= log[n]
  /\ ppc \in Writing => log # <<>>
  /\ Unpublished => Start = producer_cursor
  /\ ppc \in {"payload", "commit"} => commit_cursor <= Start /\ claimed_cursor = producer_cursor

(* What the producer has written of the frame it is at.                    *)
WritingInv ==
  /\ ppc \in {"header", "publish", "payload"} => Odd(mem[Word(Start)].version)
  /\ ppc \in Writing \ {"header"} =>
       /\ mem[Word(Start)].length = claimed_cursor - Start - 1
       /\ mem[Word(Start)].msg = Len(log)
       /\ unwritten \subseteq 1 .. claimed_cursor - Start - 1
       /\ ppc = "publish" => unwritten = 1 .. claimed_cursor - Start - 1
       /\ ppc = "commit" => unwritten = {}
       /\ \A i \in (1 .. claimed_cursor - Start - 1) \ unwritten : mem[Word(Start + i)].msg = Len(log)

(* Nobody goes on behind a frame that its producer has left unsealed.      *)
Holeless == "payload" \in stream.dies => ~stream.recovers

(* A reader whose protection or whose frames' size keeps it on frames.     *)
OfSize(size) == stream.sizes = {size} /\ Capacity % size = 0
Guarded(r) == (Holeless /\ r \in members) \/ \E size \in stream.sizes : OfSize(size)

Position(r) ==
  /\ cursor[r] <= commit_cursor /\ Boundary(cursor[r])
  /\ rpc[r] # "idle" =>
       /\ cursor[r] <= current[r] /\ current[r] < limit[r] /\ limit[r] <= commit_cursor
       /\ Boundary(current[r]) /\ Boundary(limit[r])
  /\ rpc[r] \in {"payload", "deliver"} =>
       \E m \in DOMAIN log : log[m] = current[r] /\ length[r] = End(m) - log[m] - 1

PositionInv == \A r \in Readers : Guarded(r) => Position(r)

(* Every frame that is sealed and that a member has not released is whole, *)
(* and so is what the member has copied of it.                             *)
Sealed(m) ==
  \/ m < Len(log) \/ ppc \in {"idle", "commit"}
  \/ ppc = "dead" /\ (stream.recovers \/ End(m) <= commit_cursor)

Whole(m) ==
  /\ mem[Word(log[m])].length = End(m) - log[m] - 1
  /\ \A i \in 0 .. End(m) - log[m] - 1 : mem[Word(log[m] + i)].msg = m

Member(r) ==
  /\ Claim <= cursor[r] + Capacity
  /\ \A m \in DOMAIN log : Sealed(m) /\ cursor[r] <= log[m] => Whole(m)
  /\ rpc[r] \in {"payload", "deliver"} => seen[r] = {m \in DOMAIN log : log[m] = current[r]}
  /\ rpc[r] = "payload" => uncopied[r] \subseteq 1 .. length[r]

MemberInv == Holeless => \A r \in members : Member(r)

(* With frames of one size a header stays where it is.  As long as its     *)
(* version is even the place holds one message, that of its last frame, so *)
(* a copy under one even version is that message.                          *)
Lasting(n) == n \in DOMAIN log /\ (Unpublished => n < Len(log))

Place(m, size) ==
  /\ log[m] % size = 0
  /\ m < Len(log) \/ ppc # "header" => mem[Word(log[m])].length = size - 1
  /\ ~Odd(mem[Word(log[m])].version) =>
       \E n \in DOMAIN log :
         /\ Lasting(n) /\ log[m] <= log[n] /\ Word(log[n]) = Word(log[m])
         /\ \A i \in 0 .. size - 1 : mem[Word(log[m] + i)].msg = n

PlacesInv == \A size \in stream.sizes : OfSize(size) =>
  producer_cursor % size = 0 /\ \A m \in DOMAIN log : Place(m, size)

Copy(r, size) ==
  /\ rpc[r] \in {"length", "payload"} =>
       ~Odd(version_before[r]) /\ version_before[r] <= Frame(r).version
  /\ rpc[r] = "payload" =>
       /\ uncopied[r] \subseteq 1 .. size - 1
       /\ version_before[r] = Frame(r).version => seen[r] = {Frame(r).msg}
  /\ rpc[r] = "deliver" =>
       \E n \in DOMAIN log :
         Lasting(n) /\ seen[r] = {n} /\ current[r] <= log[n] /\ Word(log[n]) = Word(current[r])

CopyInv == \A size \in stream.sizes : OfSize(size) =>
  \A r \in Readers : api[r] # "PollZeroCopy" => Copy(r, size)

FramesInv ==
  /\ TypeOK /\ LogInv /\ WritingInv /\ (~stream.evicts => members = Readers)
  /\ PositionInv /\ MemberInv /\ PlacesInv /\ CopyInv
=============================================================================
