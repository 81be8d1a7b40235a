------------------------ MODULE BroadcastFramesProofs -----------------------
(***************************************************************************)
(* The frames of the broadcast ring, for every capacity, set of sizes and  *)
(* number of readers: FramesInv is inductive, so members read the messages *)
(* that were written (MembersReadTheLog) and copies are whole              *)
(* (CopiesAreWhole).                                                       *)
(*                                                                         *)
(* The argument: positions less than a ring apart are in different words,  *)
(* and frames follow each other without gaps, so a claim that stays a ring *)
(* away from a member's cursor touches no frame the member has still to    *)
(* read.  For a reader that nobody waits for, the places of the frames     *)
(* must not shift from lap to lap: then a version guards one place.        *)
(***************************************************************************)
EXTENDS BroadcastFrames, SequenceTheorems, TLAPS

(* Remainders: a number is a multiple and a remainder; equal remainders    *)
(* differ by a multiple.                                                   *)
LEMMA Quotient ==
  ASSUME NEW n \in Nat, n > 0, NEW x \in Int
  PROVE  \E q \in Int, r \in 0 .. n - 1 : x = n * q + r /\ r = x % n
<1>1. x \div n \in Int /\ x % n \in 0 .. n - 1
  OBVIOUS
<1>2. x = n * (x \div n) + (x % n)
  BY Z3
<1> QED
  BY <1>1, <1>2

LEMMA Remainder ==
  ASSUME NEW n \in Nat, n > 0, NEW q \in Int, NEW r \in 0 .. n - 1
  PROVE  (n * q + r) % n = r
OBVIOUS

LEMMA SameRemainder ==
  ASSUME NEW n \in Nat, n > 0, NEW x \in Int, NEW y \in Int
  PROVE  x % n = y % n <=> \E q \in Int : x - y = n * q
<1>1. PICK p \in Int, r \in 0 .. n - 1 : x = n * p + r /\ r = x % n
  BY Quotient
<1>2. PICK q \in Int, s \in 0 .. n - 1 : y = n * q + s /\ s = y % n
  BY Quotient
<1>3. ASSUME r = s PROVE \E k \in Int : x - y = n * k
  <2>1. x - y = n * (p - q) /\ p - q \in Int
    BY <1>1, <1>2, <1>3
  <2> QED
    BY <2>1
<1>4. ASSUME NEW k \in Int, x - y = n * k PROVE r = s
  <2>1. x = n * (q + k) + s /\ q + k \in Int
    BY <1>2, <1>4
  <2> QED
    BY <1>1, <2>1, <1>2, Remainder
<1> QED
  BY <1>1, <1>2, <1>3, <1>4

(* Positions less than a ring apart are in different words.                *)
LEMMA WordsApart ==
  ASSUME NEW x \in Int, NEW y \in Int, x < y, y < x + Capacity
  PROVE  Word(x) # Word(y)
<1>0. Capacity \in Nat /\ Capacity > 0
  BY FramesAssumption
<1> SUFFICES ASSUME Word(x) = Word(y) PROVE FALSE
  OBVIOUS
<1>1. PICK q \in Int : y - x = Capacity * q
  BY <1>0, SameRemainder DEF Word
<1>2. 0 < Capacity * q /\ Capacity * q < Capacity
  BY <1>0, <1>1
<1> QED
  BY <1>0, <1>2

(* A word of an earlier frame and one of a later frame, both within a      *)
(* ring, are less than a ring apart.                                       *)
LEMMA Behind ==
  ASSUME NEW x \in Nat, NEW end \in Nat, NEW start \in Nat, NEW claim \in Nat,
         NEW i \in Nat, NEW j \in Nat,
         x + i < end, end <= start, start + j < claim, claim <= x + Capacity, Capacity \in Nat
  PROVE  /\ x + i \in Int /\ start + j \in Int /\ x + i < start + j
         /\ start + j < x + i + Capacity
OBVIOUS

LEMMA WordsInRing == ASSUME NEW x \in Int PROVE Word(x) \in 0 .. Capacity - 1
BY FramesAssumption DEF Word

(* Frames of one size that divides the ring are in the same words or in    *)
(* none that are common.                                                   *)
LEMMA PlacesApart ==
  ASSUME NEW size \in 1 .. Capacity, Capacity % size = 0,
         NEW x \in Nat, NEW y \in Nat, x % size = 0, y % size = 0,
         NEW i \in 0 .. size - 1, NEW j \in 0 .. size - 1, Word(x + i) = Word(y + j)
  PROVE  i = j /\ Word(x) = Word(y)
<1>0. Capacity \in Nat /\ Capacity > 0 /\ size \in Nat /\ size > 0
  BY FramesAssumption
<1>w. x + i \in Int /\ y + j \in Int /\ (x + i) % Capacity = (y + j) % Capacity
  BY DEF Word
<1>1. PICK q \in Int : (x + i) - (y + j) = Capacity * q
  BY <1>0, <1>w, SameRemainder, Zenon
<1>i. x \in Int /\ y \in Int /\ Capacity \in Int
  BY <1>0
<1>2. PICK a \in Int, s \in 0 .. size - 1 : x = size * a + s /\ s = x % size
  BY <1>0, <1>i, Quotient, Zenon
<1>3. PICK b \in Int, t \in 0 .. size - 1 : y = size * b + t /\ t = y % size
  BY <1>0, <1>i, Quotient, Zenon
<1>c. PICK c \in Int, u \in 0 .. size - 1 : Capacity = size * c + u /\ u = Capacity % size
  BY <1>0, <1>i, Quotient, Zenon
<1>d. x = size * a /\ y = size * b /\ Capacity = size * c
  BY <1>0, <1>2, <1>3, <1>c
<1>4. i - j = size * (c * q - a + b)
  <2>1. Capacity * q = size * (c * q)
    BY <1>0, <1>d
  <2>2. c * q \in Int
    OBVIOUS
  <2> QED
    BY <1>0, <1>1, <1>d, <2>1, <2>2
<1>5. i = j
  <2> DEFINE d == c * q - a + b
  <2>1. d \in Int
    OBVIOUS
  <2>2. i - j = size * d
    BY <1>4
  <2> HIDE DEF d
  <2> QED
    BY <1>0, <2>1, <2>2
<1>6. x - y = Capacity * q
  BY <1>0, <1>1, <1>5
<1>7. x \in Int /\ y \in Int /\ Capacity \in Nat /\ Capacity > 0
  BY <1>0
<1>8. x % Capacity = y % Capacity
  BY <1>6, <1>7, SameRemainder, Zenon
<1> QED
  BY <1>5, <1>8 DEF Word

(* Names for remainders, which the provers would otherwise expand.         *)
Aligned(size, x) == x \in Nat /\ x % size = 0
At(x, i) == Word(x + i)

(* The same with the remainders hidden behind names of their own.          *)
LEMMA AlignedApart ==
  ASSUME NEW size \in 1 .. Capacity, Aligned(size, Capacity),
         NEW x \in Nat, NEW y \in Nat, Aligned(size, x), Aligned(size, y),
         NEW i \in 0 .. size - 1, NEW j \in 0 .. size - 1, At(x, i) = At(y, j)
  PROVE  i = j /\ Word(x) = Word(y)
<1>1. x \in Nat /\ y \in Nat /\ x % size = 0 /\ y % size = 0 /\ Capacity % size = 0
  BY DEF Aligned
<1> QED
  BY <1>1, PlacesApart DEF At

(* Positions in one word stay together when both move on.                  *)
LEMMA PlaceWords ==
  ASSUME NEW x \in Nat, NEW y \in Nat, Word(x) = Word(y), NEW i \in Nat
  PROVE  Word(x + i) = Word(y + i)
<1>0. Capacity \in Nat /\ Capacity > 0
  BY FramesAssumption
<1>1. x % Capacity = y % Capacity
  BY DEF Word
<1>a. x \in Int /\ y \in Int
  OBVIOUS
<1>2. PICK q \in Int : x - y = Capacity * q
  BY <1>0, <1>1, <1>a, SameRemainder, Zenon
<1>3. x + i \in Int /\ y + i \in Int /\ (x + i) - (y + i) = Capacity * q
  BY <1>0, <1>2
<1>4. (x + i) % Capacity = (y + i) % Capacity
  BY <1>0, <1>3, SameRemainder, Zenon
<1> QED
  BY <1>4 DEF Word

(* The frame after a frame of this size is aligned as well.                *)
LEMMA SizesAdd ==
  ASSUME NEW size \in Nat, size > 0, NEW x \in Nat, x % size = 0
  PROVE  (x + size) % size = 0
<1>1. PICK q \in Int : x = size * q
  BY Quotient
<1>2. x + size = size * (q + 1) + 0
  BY <1>1
<1> QED
  BY <1>2, Remainder

(* Reserve makes a version odd, and the increment of Seal flips it.        *)
LEMMA NextIsOdd ==
  ASSUME NEW n \in Nat
  PROVE  Odd(IF Odd(n) THEN n ELSE n + 1) /\ (Odd(n) <=> ~Odd(n + 1))
BY DEF Odd

-----------------------------------------------------------------------------
(* Types.                                                                  *)

Ring == 0 .. Capacity - 1
Headers == [version : Nat, length : Nat, msg : Nat]

StreamTypes ==
  /\ stream \in Streams /\ members \subseteq Readers
  /\ producer_cursor \in Nat /\ commit_cursor \in Nat /\ claimed_cursor \in Nat
  /\ ppc \in {"idle", "dead"} \cup Writing /\ unwritten \subseteq Nat
MemTypes == mem \in [Ring -> Headers]
LogTypes == log \in Seq(Nat)
ReaderTypes ==
  /\ rpc \in [Readers -> {"idle", "prod", "before", "length", "payload", "deliver"}]
  /\ api \in [Readers -> Functions]
  /\ cursor \in [Readers -> Nat] /\ current \in [Readers -> Nat] /\ limit \in [Readers -> Nat]
  /\ version_before \in [Readers -> Nat] /\ length \in [Readers -> Nat]
  /\ uncopied \in [Readers -> SUBSET Nat] /\ seen \in [Readers -> SUBSET Nat]

(* TypeOK by what the steps change together.                               *)
LEMMA TypeGroups == TypeOK <=> StreamTypes /\ MemTypes /\ LogTypes /\ ReaderTypes
BY DEF TypeOK, StreamTypes, MemTypes, LogTypes, ReaderTypes, Ring, Headers

(* What the producer does, what readers do, and what neither touches.      *)
ProducerNext ==
  \/ \E size \in stream.sizes : Reserve(size)
  \/ ProducerStep \/ ProducerDies \/ AttachProducer

ReaderNext(r) == ReaderStep(r) \/ \E function \in Functions : Poll(r, function)

(* Every step is one of the producer, of one reader, or an eviction.       *)
LEMMA NextSplits ==
  ASSUME [Next]_vars
  PROVE  \/ ProducerNext \/ \E r \in Readers : ReaderNext(r) \/ Evict(r)
         \/ UNCHANGED vars
BY DEF Next, ProducerNext, ReaderNext

(* The producer's steps leave every reader alone, but for its eviction.    *)
LEMMA ProducerSteps ==
  ASSUME ProducerNext
  PROVE  UNCHANGED <<stream, members, reader>>
BY DEF ProducerNext, ProducerStep, Reserve, WriteHeader, Publish, Seal, Commit, WritePayload,
       ProducerDies, AttachProducer

(* A reader writes its own variables only: the ring is not its to change.  *)
LEMMA ReaderSteps ==
  ASSUME NEW r \in Readers, ReaderNext(r)
  PROVE  UNCHANGED <<stream, members, producer>>
BY DEF ReaderNext, ReaderStep, Poll, CheckLapped, LoadVersion, GiveUp, LoadHeader, LoadPayload,
       Verify, Advance, BatchEnds, BatchContinues

(* A word is one of the ring's, whatever the position.                     *)
LEMMA MemWord ==
  ASSUME TypeOK, NEW x \in Int
  PROVE  /\ Word(x) \in Ring /\ mem[Word(x)] \in Headers
         /\ mem[Word(x)].version \in Nat /\ mem[Word(x)].length \in Nat /\ mem[Word(x)].msg \in Nat
<1>1. Word(x) \in Ring
  BY WordsInRing DEF Ring
<1>2. mem \in [Ring -> Headers]
  BY TypeGroups DEF MemTypes
<1> QED
  BY <1>1, <1>2 DEF Headers

(* What the constants are assumed to be.                                   *)
LEMMA Sizes ==
  ASSUME TypeOK
  PROVE  /\ Capacity \in Nat /\ Capacity > 0
         /\ stream.sizes \subseteq 1 .. Capacity
         /\ stream.dies \subseteq {"idle"} \cup Writing
BY FramesAssumption DEF TypeOK

(* The log is a sequence of positions, and Start is its last one.          *)
LEMMA LogFacts ==
  ASSUME TypeOK
  PROVE  /\ log \in Seq(Nat) /\ Len(log) \in Nat /\ DOMAIN log = 1 .. Len(log)
         /\ \A m \in DOMAIN log : log[m] \in Nat
         /\ log # <<>> => Len(log) > 0 /\ Len(log) \in DOMAIN log /\ Start \in Nat
<1>1. log \in Seq(Nat)
  BY DEF TypeOK
<1>2. Len(log) \in Nat /\ DOMAIN log = 1 .. Len(log) /\ \A m \in DOMAIN log : log[m] \in Nat
  BY <1>1, LenProperties, ElementOfSeq
<1>3. log # <<>> => Len(log) > 0
  BY <1>1, EmptySeq
<1> QED
  BY <1>1, <1>2, <1>3 DEF Start

-----------------------------------------------------------------------------
(* The log: how each step changes it.                                      *)

(* Reserve appends the position it claims.                                 *)
LEMMA LogGrows ==
  ASSUME TypeOK, NEW size \in stream.sizes, Reserve(size)
  PROVE  /\ log' \in Seq(Nat) /\ Len(log') = Len(log) + 1 /\ DOMAIN log' = 1 .. Len(log) + 1
         /\ \A m \in DOMAIN log : log'[m] = log[m]
         /\ log'[Len(log) + 1] = producer_cursor
<1>1. log' = Append(log, producer_cursor) /\ producer_cursor \in Nat
  BY DEF Reserve, TypeOK
<1>2. /\ log' \in Seq(Nat) /\ Len(log') = Len(log) + 1
      /\ \A i \in 1 .. Len(log) : log'[i] = log[i]
      /\ log'[Len(log) + 1] = producer_cursor
  BY <1>1, LogFacts, AppendProperties
<1>3. DOMAIN log' = 1 .. Len(log')
  BY <1>2, LenProperties
<1> QED
  BY <1>2, <1>3, LogFacts

(* So it cannot leave the log as it was.                                   *)
LEMMA ReserveAppends ==
  ASSUME TypeOK, NEW size \in stream.sizes, Reserve(size)
  PROVE  log' # log
<1>1. PICK n \in Nat : n = Len(log)
  BY LogFacts
<1>2. Len(log') = n + 1
  BY <1>1, LogGrows
<1>3. Len(log') # Len(log)
  BY <1>1, <1>2
<1> QED
  BY <1>3, Zenon

(* A producer that dies before Publish takes its claim with it.            *)
LEMMA LogShrinks ==
  ASSUME TypeOK, LogInv, ProducerDies, Unpublished
  PROVE  /\ log' \in Seq(Nat) /\ Len(log') = Len(log) - 1 /\ DOMAIN log' = 1 .. Len(log) - 1
         /\ Len(log) > 0 /\ \A m \in 1 .. Len(log) - 1 : log'[m] = log[m]
         /\ log[Len(log)] = producer_cursor
<1>1. log' = SubSeq(log, 1, Len(log) - 1)
  BY DEF ProducerDies, Unpublished
<1>2. log # <<>> /\ Start = producer_cursor
  BY DEF LogInv, Unpublished, Writing
<1>3. Len(log) \in Nat /\ Len(log) > 0 /\ \A i \in 1 .. Len(log) - 1 : log[i] \in Nat
  BY <1>2, LogFacts
<1>4. /\ log' \in Seq(Nat) /\ Len(log') = Len(log) - 1
      /\ \A i \in 1 .. Len(log) - 1 : log'[i] = log[i]
  <2> DEFINE k == Len(log) - 1  s == SubSeq(log, 1, k)
  <2>1. 1 \in Int /\ k \in Int /\ \A i \in 1 .. k : log[i] \in Nat
    BY <1>3
  <2>2. /\ s \in Seq(Nat) /\ Len(s) = IF 1 <= k THEN k - 1 + 1 ELSE 0
        /\ \A i \in 1 .. k - 1 + 1 : s[i] = log[1 + i - 1]
    <3> HIDE DEF k
    <3> QED
      BY <2>1, SubSeqProperties
  <2>3. Len(s) = k /\ \A i \in 1 .. k : s[i] = log[i]
    <3>1. k \in Nat
      BY <1>3
    <3> HIDE DEF s, k
    <3>2. k - 1 + 1 = k
      BY <3>1
    <3>3. \A i \in 1 .. k : 1 + i - 1 = i
      BY <3>1
    <3>4. Len(s) = k
      BY <2>2, <3>1, <3>2
    <3> QED
      BY <2>2, <3>2, <3>3, <3>4
  <2> QED
    BY <1>1, <2>2, <2>3
<1>5. DOMAIN log' = 1 .. Len(log')
  BY <1>4, LenProperties
<1> QED
  BY <1>2, <1>3, <1>4, <1>5 DEF Start

(* All other steps leave the log alone.                                    *)
LEMMA LogStays ==
  ASSUME ProducerNext, \A size \in stream.sizes : ~Reserve(size), ~(ProducerDies /\ Unpublished)
  PROVE  log' = log
BY DEF ProducerNext, ProducerStep, ProducerDies, AttachProducer, WriteHeader, Publish, Seal,
       Commit, WritePayload, Unpublished

(* What a step keeps of the log: the messages, where they end, boundaries, *)
(* and messages that are published or whose frame is being written.        *)
Keeps ==
  /\ \A m \in DOMAIN log : m \in DOMAIN log' => log'[m] = log[m] /\ End(m)' = End(m)
  /\ \A m \in DOMAIN log : m \notin DOMAIN log' => log[m] = producer_cursor
  /\ \A m \in DOMAIN log' : m \notin DOMAIN log => log'[m] = producer_cursor
  /\ \A p : Boundary(p) => Boundary(p)'
  /\ \A n : Lasting(n) => Lasting(n)'
  /\ commit_cursor <= commit_cursor'

(* Reserve keeps the frames that the log has.                              *)
LEMMA ReserveKeeps ==
  ASSUME TypeOK, LogInv, NEW size \in stream.sizes, Reserve(size)
  PROVE  Keeps
<1> DEFINE n == Len(log)
<1>1. /\ n \in Nat /\ DOMAIN log = 1 .. n /\ Len(log') = n + 1 /\ DOMAIN log' = 1 .. n + 1
      /\ \A m \in 1 .. n : log'[m] = log[m]
      /\ log'[n + 1] = producer_cursor
  BY LogGrows, LogFacts
<1>2. /\ ppc = "idle" /\ ppc' = "header" /\ UNCHANGED <<producer_cursor, commit_cursor>>
      /\ commit_cursor \in Nat
  BY DEF Reserve, TypeOK
<1> HIDE DEF n
<1>3. ASSUME NEW m \in 1 .. n PROVE End(m)' = End(m)
  <2>1. CASE m < n
    <3>1. m < n + 1 /\ m + 1 \in 1 .. n
      BY <1>1, <2>1
    <3> QED
      BY <1>1, <2>1, <3>1 DEF End, n
  <2>2. CASE m = n
    BY <1>1, <1>2, <2>2 DEF End, Claim, Unpublished, n
  <2> QED
    BY <1>1, <2>1, <2>2
<1>4. ASSUME NEW p, Boundary(p) PROVE Boundary(p)'
  BY <1>1, <1>2, <1>4 DEF Boundary
<1>5. ASSUME NEW k, Lasting(k) PROVE Lasting(k)'
  BY <1>1, <1>2, <1>5 DEF Lasting, Unpublished, n
<1>6. \A m \in DOMAIN log' : m \notin DOMAIN log => log'[m] = producer_cursor
  BY <1>1
<1> QED
  BY <1>1, <1>2, <1>3, <1>4, <1>5, <1>6 DEF Keeps

(* A death before Publish keeps every frame that anyone can see.           *)
LEMMA DeathKeeps ==
  ASSUME TypeOK, LogInv, ProducerDies, Unpublished
  PROVE  Keeps
<1> DEFINE n == Len(log)
<1>1. /\ n \in Nat /\ n > 0 /\ DOMAIN log = 1 .. n /\ Len(log') = n - 1 /\ DOMAIN log' = 1 .. n - 1
      /\ \A m \in 1 .. n - 1 : log'[m] = log[m]
      /\ log[n] = producer_cursor
  BY LogShrinks, LogFacts
<1>2. /\ ppc' = "dead" /\ UNCHANGED <<producer_cursor, commit_cursor>>
      /\ commit_cursor \in Nat
  BY DEF ProducerDies, TypeOK
<1> HIDE DEF n
<1>3. ASSUME NEW m \in 1 .. n - 1 PROVE End(m)' = End(m)
  <2>1. CASE m < n - 1
    <3>1. m < n /\ m + 1 \in 1 .. n - 1
      BY <1>1, <2>1
    <3> QED
      BY <1>1, <2>1, <3>1 DEF End, n
  <2>2. CASE m = n - 1
    BY <1>1, <1>2, <2>2 DEF End, Claim, Unpublished, n
  <2> QED
    BY <1>1, <2>1, <2>2
<1>4. ASSUME NEW p, Boundary(p) PROVE Boundary(p)'
  <2>1. CASE p = producer_cursor
    BY <1>2, <2>1 DEF Boundary
  <2>2. ASSUME NEW m \in DOMAIN log, log[m] = p PROVE Boundary(p)'
    BY <1>1, <1>2, <2>2 DEF Boundary
  <2> QED
    BY <1>4, <2>1, <2>2 DEF Boundary
<1>5. ASSUME NEW k, Lasting(k) PROVE Lasting(k)'
  BY <1>1, <1>2, <1>5 DEF Lasting, Unpublished, n
<1>6. \A m \in DOMAIN log : m \notin DOMAIN log' => log[m] = producer_cursor
  BY <1>1
<1> QED
  BY <1>1, <1>2, <1>3, <1>4, <1>5, <1>6 DEF Keeps

(* The other steps move cursors over the same log.                         *)
LEMMA OthersKeep ==
  ASSUME TypeOK, LogInv, ProducerNext, log' = log, ~(ProducerDies /\ Unpublished)
  PROVE  Keeps /\ Claim' = Claim
<1> DEFINE Kept == /\ Claim' = Claim /\ commit_cursor <= commit_cursor'
                   /\ Unpublished' => Unpublished
                   /\ producer_cursor' = producer_cursor
                      \/ \E m \in DOMAIN log : log[m] = producer_cursor
<1>a. commit_cursor \in Nat /\ producer_cursor \in Nat /\ commit_cursor <= producer_cursor
  BY DEF TypeOK, LogInv
<1>0. ASSUME NEW size \in stream.sizes, Reserve(size) PROVE FALSE
  BY <1>0, ReserveAppends
<1>1. ASSUME WriteHeader PROVE Kept
  BY <1>1, <1>a DEF WriteHeader, Claim, Unpublished, Boundary
<1>2. ASSUME Publish PROVE Kept
  <2>1. log # <<>> /\ Start = producer_cursor
    BY <1>2 DEF LogInv, Publish, Unpublished, Writing
  <2>2. Len(log) \in DOMAIN log /\ log[Len(log)] = producer_cursor
    BY <2>1, LogFacts DEF Start
  <2> QED
    BY <1>2, <1>a, <2>2 DEF Publish, Claim, Unpublished, Boundary
<1>3. ASSUME Seal PROVE Kept
  BY <1>3, <1>a DEF Seal, Claim, Unpublished, Boundary
<1>4. ASSUME Commit PROVE Kept
  <2>1. claimed_cursor = producer_cursor
    BY <1>4 DEF LogInv, Commit
  <2> QED
    BY <1>4, <1>a, <2>1 DEF Commit, Claim, Unpublished, Boundary
<1>5. ASSUME NEW i \in unwritten, NEW bits \in PayloadBits, WritePayload(i, bits) PROVE Kept
  BY <1>5, <1>a DEF WritePayload, Claim, Unpublished, Boundary
<1>6. ASSUME ProducerDies PROVE Kept
  <2>1. ~Unpublished
    BY <1>6
  <2>2. ppc' = "dead" /\ UNCHANGED <<producer_cursor, commit_cursor>>
    BY <1>6 DEF ProducerDies
  <2> QED
    BY <1>a, <2>1, <2>2 DEF Claim, Unpublished
<1>7. ASSUME AttachProducer PROVE Kept
  BY <1>7, <1>a DEF AttachProducer, Claim, Unpublished, Boundary
<1>8. Kept
  BY <1>0, <1>1, <1>2, <1>3, <1>4, <1>5, <1>6, <1>7 DEF ProducerNext, ProducerStep
<1> HIDE DEF Kept
<1>k. /\ Claim' = Claim /\ commit_cursor <= commit_cursor'
      /\ Unpublished' => Unpublished
      /\ producer_cursor' = producer_cursor \/ \E m \in DOMAIN log : log[m] = producer_cursor
  BY <1>8 DEF Kept
<1>9. ASSUME NEW p, Boundary(p) PROVE Boundary(p)'
  <2>1. CASE p = producer_cursor
    BY <1>k, <2>1 DEF Boundary
  <2>2. ASSUME NEW m \in DOMAIN log, log[m] = p PROVE Boundary(p)'
    BY <2>2 DEF Boundary
  <2> QED
    BY <1>9, <2>1, <2>2 DEF Boundary
<1>10. ASSUME NEW k, Lasting(k) PROVE Lasting(k)'
  BY <1>k, <1>10 DEF Lasting
<1>11. ASSUME NEW m \in DOMAIN log PROVE End(m)' = End(m)
  BY <1>k DEF End
<1> QED
  BY <1>k, <1>9, <1>10, <1>11 DEF Keeps

(* So every step of the producer keeps what readers rely on.               *)
LEMMA LogStep ==
  ASSUME TypeOK, LogInv, ProducerNext
  PROVE  Keeps
<1>1. CASE \E size \in stream.sizes : Reserve(size)
  BY <1>1, ReserveKeeps
<1>2. CASE ProducerDies /\ Unpublished
  BY <1>2, DeathKeeps
<1>3. CASE ~(\E size \in stream.sizes : Reserve(size)) /\ ~(ProducerDies /\ Unpublished)
  BY <1>3, LogStays, OthersKeep
<1> QED
  BY <1>1, <1>2, <1>3

(* The frames have no gaps: what is below a boundary ends below it.        *)
LEMMA FramesInOrder ==
  ASSUME TypeOK, LogInv, NEW m \in DOMAIN log
  PROVE  /\ log[m] \in Nat /\ End(m) \in Nat
         /\ log[m] < End(m) /\ End(m) <= log[m] + Capacity /\ End(m) - log[m] \in stream.sizes
         /\ End(m) <= Claim
         /\ \A p \in Nat : Boundary(p) /\ log[m] < p => End(m) <= p
         /\ ~Unpublished \/ m < Len(log) => Boundary(End(m))
<1>1. /\ DOMAIN log = 1 .. Len(log) /\ Len(log) \in Nat /\ \A k \in DOMAIN log : log[k] \in Nat
      /\ producer_cursor \in Nat /\ claimed_cursor \in Nat
  BY LogFacts DEF TypeOK
<1>2. /\ log[m] < End(m) /\ End(m) <= log[m] + Capacity /\ End(m) - log[m] \in stream.sizes
      /\ log[m] <= producer_cursor
      /\ \A n \in DOMAIN log : m < n => End(m) <= log[n]
  BY DEF LogInv
<1>3. log[m] \in Nat /\ End(m) \in Nat /\ Claim \in Nat
  BY <1>1 DEF End, Claim
<1>4. CASE m = Len(log)
  <2>1. End(m) = Claim
    BY <1>1, <1>4 DEF End
  <2>2. ASSUME NEW p \in Nat, Boundary(p), log[m] < p PROVE End(m) <= p
    <3>1. CASE p = producer_cursor
      <4>1. ~Unpublished
        BY <1>3, <1>4, <2>2, <3>1 DEF LogInv, Start
      <4> QED
        BY <1>1, <2>1, <3>1, <4>1 DEF Claim
    <3>2. ASSUME NEW n \in DOMAIN log, log[n] = p PROVE End(m) <= p
      <4>1. n # m /\ n <= m
        BY <1>1, <1>4, <2>2, <3>2
      <4>2. n < m
        BY <1>1, <4>1
      <4>3. End(n) <= log[m] /\ log[n] < End(n)
        BY <4>2 DEF LogInv
      <4>4. End(n) \in Nat
        BY <1>1 DEF End, Claim
      <4> QED
        BY <1>3, <2>2, <3>2, <4>3, <4>4
    <3> QED
      BY <2>2, <3>1, <3>2 DEF Boundary
  <2>3. ~Unpublished => Boundary(End(m))
    BY <2>1 DEF Claim, Boundary
  <2> QED
    BY <1>1, <1>2, <1>3, <1>4, <2>1, <2>2, <2>3
<1>5. CASE m < Len(log)
  <2>1. m + 1 \in DOMAIN log /\ End(m) = log[m + 1]
    BY <1>1, <1>5 DEF End
  <2>2. log[m + 1] <= producer_cursor /\ producer_cursor <= Claim
    <3>1. log[m + 1] <= producer_cursor
      BY <2>1 DEF LogInv
    <3>2. CASE Unpublished
      <4>1. log # <<>> /\ Start = producer_cursor
        BY <3>2 DEF LogInv, Unpublished, Writing
      <4>2. Len(log) \in DOMAIN log /\ log[Len(log)] = producer_cursor
        BY <4>1, LogFacts DEF Start
      <4>3. log[Len(log)] < End(Len(log)) /\ End(Len(log)) = Claim
        BY <1>1, <4>2 DEF LogInv, End
      <4>4. producer_cursor < Claim
        BY <4>2, <4>3
      <4> QED
        BY <1>1, <1>3, <3>1, <4>4
    <3> QED
      BY <1>1, <3>1, <3>2 DEF Claim
  <2>3. ASSUME NEW p \in Nat, Boundary(p), log[m] < p PROVE End(m) <= p
    <3>1. CASE p = producer_cursor
      BY <2>1, <2>2, <3>1
    <3>2. ASSUME NEW n \in DOMAIN log, log[n] = p PROVE End(m) <= p
      <4>1. CASE n < m
        <5>1. End(n) <= log[m] /\ log[n] < End(n)
          BY <4>1 DEF LogInv
        <5>2. End(n) \in Nat
          BY <1>1 DEF End, Claim
        <5> QED
          BY <1>3, <2>3, <3>2, <5>1, <5>2
      <4> QED
        BY <1>1, <1>2, <2>3, <3>2, <4>1
    <3> QED
      BY <2>3, <3>1, <3>2 DEF Boundary
  <2>4. Boundary(End(m))
    BY <2>1 DEF Boundary
  <2>5. End(m) <= Claim
    BY <1>1, <1>3, <2>1, <2>2
  <2> QED
    BY <1>2, <1>3, <2>3, <2>4, <2>5
<1> QED
  BY <1>1, <1>4, <1>5

(* A claim begins where the previous one ends.                             *)
LEMMA LogInvReserve ==
  ASSUME TypeOK, LogInv, NEW size \in stream.sizes, Reserve(size)
  PROVE  LogInv'
<1>0. PICK n \in Nat : n = Len(log)
  BY LogFacts
<1>1. /\ n \in Nat /\ DOMAIN log = 1 .. n /\ Len(log') = n + 1 /\ DOMAIN log' = 1 .. n + 1
      /\ \A m \in 1 .. n : log'[m] = log[m] /\ log'[m] \in Nat
      /\ log'[n + 1] = producer_cursor
  BY <1>0, LogGrows, LogFacts
<1>2. /\ ppc = "idle" /\ ppc' = "header" /\ UNCHANGED <<stream, producer_cursor, commit_cursor>>
      /\ producer_cursor \in Nat /\ commit_cursor \in Nat
      /\ claimed_cursor' = producer_cursor + size
      /\ size \in 1 .. Capacity
  BY Sizes DEF Reserve, TypeOK
<1>3. Keeps
  BY ReserveKeeps
<1>4. End(n + 1)' = producer_cursor + size
  BY <1>1, <1>2 DEF End, Claim, Unpublished
<1>5. \A m \in 1 .. n : End(m)' = End(m) /\ End(m) <= producer_cursor /\ End(m) \in Nat
                        /\ log[m] <= producer_cursor
                        /\ log[m] < End(m) /\ End(m) <= log[m] + Capacity
                        /\ End(m) - log[m] \in stream.sizes
  <2> TAKE m \in 1 .. n
  <2>1. Claim = producer_cursor
    BY <1>2 DEF Claim, Unpublished
  <2>2. m \in DOMAIN log /\ m \in DOMAIN log'
    BY <1>1
  <2>3. End(m)' = End(m)
    BY <1>3, <2>2 DEF Keeps
  <2>4. /\ End(m) \in Nat /\ log[m] < End(m) /\ End(m) <= log[m] + Capacity
        /\ End(m) - log[m] \in stream.sizes /\ End(m) <= producer_cursor
    BY <2>1, <2>2, FramesInOrder
  <2>5. log[m] <= producer_cursor
    BY <2>2 DEF LogInv
  <2> QED
    BY <2>3, <2>4, <2>5
<1>6. commit_cursor' <= producer_cursor' /\ Boundary(commit_cursor)'
  BY <1>2, <1>3 DEF Keeps, LogInv
<1>7. \A m \in DOMAIN log' :
        /\ log'[m] <= producer_cursor'
        /\ log'[m] < End(m)' /\ End(m)' <= log'[m] + Capacity
        /\ End(m)' - log'[m] \in stream.sizes
  <2> TAKE m \in DOMAIN log'
  <2>1. CASE m \in 1 .. n
    BY <1>1, <1>2, <1>5, <2>1
  <2>2. CASE m = n + 1
    <3>1. log'[m] = producer_cursor /\ End(m)' = producer_cursor + size
      BY <1>1, <1>4, <2>2
    <3>2. /\ (producer_cursor + size) - producer_cursor = size
          /\ producer_cursor < producer_cursor + size
          /\ producer_cursor + size <= producer_cursor + Capacity
      BY <1>2, Sizes
    <3> QED
      BY <1>2, <3>1, <3>2
  <2> QED
    BY <1>1, <2>1, <2>2
<1>8. ASSUME NEW m \in DOMAIN log', NEW k \in DOMAIN log', m < k
      PROVE  End(m)' <= log'[k]
  <2>1. m \in 1 .. n
    BY <1>1, <1>8
  <2>2. CASE k = n + 1
    BY <1>1, <1>5, <2>1, <2>2
  <2>3. CASE k \in 1 .. n
    <3>1. End(m) <= log[k]
      BY <1>1, <1>8, <2>1, <2>3 DEF LogInv
    <3> QED
      BY <1>1, <1>5, <2>1, <2>3, <3>1
  <2> QED
    BY <1>1, <2>2, <2>3
<1>9. log' # <<>>
  BY <1>1
<1>10. Start' = producer_cursor'
  BY <1>1, <1>2 DEF Start
<1> QED
  BY <1>2, <1>6, <1>7, <1>8, <1>9, <1>10 DEF LogInv, Unpublished

(* Without the last claim the log is still without gaps.                   *)
LEMMA LogInvDeath ==
  ASSUME TypeOK, LogInv, ProducerDies, Unpublished
  PROVE  LogInv'
<1> DEFINE n == Len(log)
<1>1. /\ n \in Nat /\ n > 0 /\ DOMAIN log = 1 .. n /\ Len(log') = n - 1 /\ DOMAIN log' = 1 .. n - 1
      /\ \A m \in 1 .. n - 1 : log'[m] = log[m]
  BY LogShrinks, LogFacts
<1>2. ppc' = "dead" /\ UNCHANGED <<stream, producer_cursor, commit_cursor>>
  BY DEF ProducerDies
<1>3. Keeps
  BY DeathKeeps
<1>4. commit_cursor' <= producer_cursor' /\ Boundary(commit_cursor)'
  BY <1>2, <1>3 DEF Keeps, LogInv
<1>5. \A m \in DOMAIN log' : m \in DOMAIN log /\ log'[m] = log[m] /\ End(m)' = End(m)
  BY <1>1, <1>3 DEF Keeps
<1>6. \A m \in DOMAIN log' :
        /\ log'[m] <= producer_cursor'
        /\ log'[m] < End(m)' /\ End(m)' <= log'[m] + Capacity
        /\ End(m)' - log'[m] \in stream'.sizes
  BY <1>2, <1>5 DEF LogInv
<1>7. \A m, k \in DOMAIN log' : m < k => End(m)' <= log'[k]
  BY <1>5 DEF LogInv
<1> QED
  BY <1>2, <1>4, <1>6, <1>7 DEF LogInv, Unpublished, Writing

(* Publish, Commit and a death after Publish move between the boundaries.  *)
LEMMA LogInvOthers ==
  ASSUME TypeOK, LogInv, ProducerNext, log' = log, ~(ProducerDies /\ Unpublished)
  PROVE  LogInv'
<1> DEFINE Now == /\ commit_cursor' <= producer_cursor' /\ Boundary(commit_cursor)'
                  /\ producer_cursor <= producer_cursor' /\ producer_cursor' \in Nat
                  /\ ppc' \in Writing => ppc \in Writing
                  /\ Unpublished' => Unpublished /\ producer_cursor' = producer_cursor
                  /\ ppc' \in {"payload", "commit"} =>
                       commit_cursor' <= Start /\ claimed_cursor' = producer_cursor'
<1>a. /\ commit_cursor \in Nat /\ producer_cursor \in Nat /\ claimed_cursor \in Nat
      /\ commit_cursor <= producer_cursor /\ Boundary(commit_cursor)
      /\ Unpublished => Start = producer_cursor /\ log # <<>>
      /\ ppc \in {"payload", "commit"} => commit_cursor <= Start /\ claimed_cursor = producer_cursor
  BY DEF TypeOK, LogInv, Unpublished, Writing
<1>b. Keeps /\ Claim' = Claim
  BY OthersKeep
<1>c. Boundary(commit_cursor') => Boundary(commit_cursor)'
  BY <1>b DEF Keeps
<1> USE DEF Unpublished, Writing
<1>0. ASSUME NEW size \in stream.sizes, Reserve(size) PROVE FALSE
  BY <1>0, ReserveAppends
<1>1. ASSUME WriteHeader PROVE Now
  BY <1>1, <1>a, <1>c DEF WriteHeader
<1>2. ASSUME Publish PROVE Now
  <2>1. Len(log) \in DOMAIN log /\ log[Len(log)] = producer_cursor
    BY <1>2, <1>a, LogFacts DEF Publish, Start
  <2>2. producer_cursor <= claimed_cursor
    <3>1. End(Len(log)) = claimed_cursor
      BY <1>2, <2>1, LogFacts DEF End, Claim, Publish
    <3> QED
      BY <1>a, <2>1, <3>1 DEF LogInv
  <2> QED
    BY <1>2, <1>a, <1>c, <2>2 DEF Publish
<1>3. ASSUME Seal PROVE Now
  BY <1>3, <1>a, <1>c DEF Seal
<1>4. ASSUME Commit PROVE Now
  <2>1. Boundary(claimed_cursor)
    BY <1>4, <1>a DEF Boundary, Commit
  <2> QED
    BY <1>4, <1>a, <1>c, <2>1 DEF Commit
<1>5. ASSUME NEW i \in unwritten, NEW bits \in PayloadBits, WritePayload(i, bits) PROVE Now
  BY <1>5, <1>a, <1>c DEF WritePayload
<1>6. ASSUME ProducerDies PROVE Now
  BY <1>6, <1>a, <1>c DEF ProducerDies
<1>7. ASSUME AttachProducer PROVE Now
  BY <1>7, <1>a, <1>c DEF AttachProducer
<1>8. Now
  BY <1>0, <1>1, <1>2, <1>3, <1>4, <1>5, <1>6, <1>7 DEF ProducerNext, ProducerStep
<1>9. stream' = stream /\ Start' = Start
  BY ProducerSteps DEF Start
<1>10. \A m \in DOMAIN log' :
        /\ log'[m] <= producer_cursor'
        /\ log'[m] < End(m)' /\ End(m)' <= log'[m] + Capacity
        /\ End(m)' - log'[m] \in stream'.sizes
  <2> TAKE m \in DOMAIN log'
  <2>1. m \in DOMAIN log /\ End(m)' = End(m) /\ log[m] \in Nat
    BY <1>b, LogFacts DEF Keeps
  <2>2. producer_cursor <= producer_cursor' /\ producer_cursor' \in Nat
    BY <1>8
  <2> QED
    BY <1>8, <1>9, <1>a, <2>1, <2>2 DEF LogInv
<1>11. \A m, k \in DOMAIN log' : m < k => End(m)' <= log'[k]
  BY <1>b DEF LogInv, Keeps
<1> QED
  BY <1>8, <1>9, <1>10, <1>11, <1>a DEF LogInv

(* Every step of the producer keeps LogInv.                                *)
LEMMA LogInvKept ==
  ASSUME TypeOK, LogInv, ProducerNext
  PROVE  LogInv'
<1>1. CASE \E size \in stream.sizes : Reserve(size)
  BY <1>1, LogInvReserve
<1>2. CASE ProducerDies /\ Unpublished
  BY <1>2, LogInvDeath
<1>3. CASE ~(\E size \in stream.sizes : Reserve(size)) /\ ~(ProducerDies /\ Unpublished)
  BY <1>3, LogStays, LogInvOthers
<1> QED
  BY <1>1, <1>2, <1>3

-----------------------------------------------------------------------------
(* Memory: what each of the producer's writes changes.                     *)

(* The version of a header becomes odd, or even, and nothing else changes. *)
VersionWritten(x, version) ==
  /\ version \in Nat /\ mem'[Word(x)].version = version
  /\ \A w \in Ring : /\ mem'[w].length = mem[w].length /\ mem'[w].msg = mem[w].msg
                     /\ w # Word(x) => mem'[w] = mem[w]

Same(w) == mem'[w] = mem[w]

(* The words of the ring that a step writes: Reserve the version, Seal the *)
(* same version again, WriteHeader the header, and WritePayload one word   *)
(* of payload.                                                             *)
LEMMA ReserveWrites ==
  ASSUME TypeOK, NEW size \in stream.sizes, Reserve(size)
  PROVE  /\ mem' \in [Ring -> Headers]
         /\ VersionWritten(producer_cursor,
              IF Odd(mem[Word(producer_cursor)].version) THEN mem[Word(producer_cursor)].version
                ELSE mem[Word(producer_cursor)].version + 1)
<1>1. producer_cursor \in Int /\ mem \in [Ring -> Headers]
  BY TypeGroups DEF StreamTypes, MemTypes
<1>2. Word(producer_cursor) \in Ring /\ mem[Word(producer_cursor)].version \in Nat
  BY <1>1, MemWord
<1> DEFINE v == IF Odd(mem[Word(producer_cursor)].version) THEN mem[Word(producer_cursor)].version
                  ELSE mem[Word(producer_cursor)].version + 1
<1>3. mem' = [mem EXCEPT ![Word(producer_cursor)].version = v]
  BY DEF Reserve
<1>4. v \in Nat
  BY <1>2
<1> HIDE DEF v
<1>5. mem' \in [Ring -> Headers] /\ VersionWritten(producer_cursor, v)
  BY <1>1, <1>2, <1>3, <1>4 DEF VersionWritten, Headers
<1> QED
  BY <1>5 DEF v

LEMMA SealWrites ==
  ASSUME TypeOK, LogInv, Seal
  PROVE  /\ mem' \in [Ring -> Headers]
         /\ VersionWritten(Start, mem[Word(Start)].version + 1)
<1>1. Start \in Int /\ mem \in [Ring -> Headers]
  <2>1. log # <<>>
    BY DEF LogInv, Seal, Writing
  <2> QED
    BY <2>1, LogFacts, TypeGroups DEF MemTypes
<1>2. Word(Start) \in Ring /\ mem[Word(Start)].version \in Nat
  BY <1>1, MemWord
<1>3. mem' = [mem EXCEPT ![Word(Start)].version = mem[Word(Start)].version + 1]
  BY DEF Seal
<1> QED
  BY <1>1, <1>2, <1>3 DEF VersionWritten, Headers

LEMMA HeaderWrites ==
  ASSUME TypeOK, LogInv, WriteHeader
  PROVE  /\ mem' \in [Ring -> Headers]
         /\ mem'[Word(Start)].length = claimed_cursor - Start - 1
         /\ mem'[Word(Start)].msg = Len(log)
         /\ \A w \in Ring : /\ mem'[w].version = mem[w].version
                            /\ w # Word(Start) => Same(w)
<1>1. Start \in Int /\ mem \in [Ring -> Headers] /\ Len(log) \in Nat
  <2>1. log # <<>>
    BY DEF LogInv, WriteHeader, Writing
  <2> QED
    BY <2>1, LogFacts, TypeGroups DEF MemTypes
<1>2. Word(Start) \in Ring
  BY <1>1, MemWord
<1>3. claimed_cursor - Start - 1 \in Nat
  <2>1. Unpublished /\ Len(log) \in DOMAIN log
    BY LogFacts DEF WriteHeader, Unpublished, LogInv, Writing
  <2>2. End(Len(log)) = claimed_cursor /\ Start = log[Len(log)]
    BY <1>1, <2>1 DEF End, Claim, Start
  <2> QED
    BY <2>1, <2>2, FramesInOrder
<1>4. mem' = [mem EXCEPT ![Word(Start)].length = claimed_cursor - Start - 1,
                         ![Word(Start)].msg = Len(log)]
  BY DEF WriteHeader
<1> DEFINE x == Word(Start)  k == claimed_cursor - Start - 1  n == Len(log)
<1> HIDE DEF x, k, n
<1>5. mem' = [mem EXCEPT ![x].length = k, ![x].msg = n]
  BY <1>4 DEF x, k, n
<1>6. x \in Ring /\ k \in Nat /\ n \in Nat
  BY <1>1, <1>2, <1>3 DEF x, k, n
<1>7. /\ mem' \in [Ring -> Headers] /\ mem'[x].length = k /\ mem'[x].msg = n
      /\ \A w \in Ring : mem'[w].version = mem[w].version /\ (w # x => Same(w))
  BY <1>1, <1>5, <1>6 DEF Headers, Same
<1> QED
  BY <1>7 DEF x, k, n

LEMMA PayloadWrites ==
  ASSUME TypeOK, LogInv, WritingInv, NEW i \in unwritten, NEW bits \in PayloadBits,
         WritePayload(i, bits)
  PROVE  /\ i \in 1 .. claimed_cursor - Start - 1
         /\ mem' \in [Ring -> Headers]
         /\ mem'[Word(Start + i)].msg = Len(log)
         /\ \A w \in Ring : w # Word(Start + i) => Same(w)
<1>0. ppc = "payload" /\ i \in 1 .. claimed_cursor - Start - 1
  BY DEF WritePayload, WritingInv, Writing
<1>1. Start \in Nat /\ mem \in [Ring -> Headers] /\ Len(log) \in Nat /\ i \in Nat
  <2>1. log # <<>>
    BY <1>0 DEF LogInv, Writing
  <2> QED
    BY <2>1, LogFacts, TypeGroups DEF MemTypes, StreamTypes
<1>2. Word(Start + i) \in Ring
  BY <1>1, MemWord
<1>3. bits.version \in Nat /\ bits.length \in Nat
  BY FramesAssumption
<1>4. mem' = [mem EXCEPT ![Word(Start + i)] =
                [version |-> bits.version, length |-> bits.length, msg |-> Len(log)]]
  BY DEF WritePayload
<1> QED
  BY <1>0, <1>1, <1>2, <1>3, <1>4 DEF Same, Headers

(* Every step of the producer keeps TypeOK.                                *)
LEMMA TypeStepProducer ==
  ASSUME TypeOK, LogInv, WritingInv, ProducerNext
  PROVE  TypeOK'
<1> USE DEF Writing
<1>0. StreamTypes /\ MemTypes /\ LogTypes /\ ReaderTypes
  BY TypeGroups
<1>a. ReaderTypes' /\ UNCHANGED <<stream, members>>
  BY <1>0, ProducerSteps DEF ReaderTypes, reader
<1>b. TypeOK' <=> StreamTypes' /\ MemTypes' /\ LogTypes' /\ ReaderTypes'
  BY TypeGroups, PTL
<1> DEFINE Good == StreamTypes' /\ MemTypes'
<1>1. ASSUME NEW size \in stream.sizes, Reserve(size) PROVE Good
  <2>1. size \in Nat
    BY Sizes
  <2>2. StreamTypes'
    BY <1>0, <1>1, <2>1 DEF Reserve, StreamTypes
  <2> QED
    BY <1>1, <2>2, ReserveWrites DEF MemTypes
<1>2. ASSUME WriteHeader PROVE Good
  <2>1. StreamTypes'
    <3>1. \A k : 1 .. k \subseteq Nat
      OBVIOUS
    <3> QED
      BY <1>0, <1>2, <3>1 DEF WriteHeader, StreamTypes
  <2> QED
    BY <1>2, <2>1, HeaderWrites DEF MemTypes
<1>3. ASSUME Publish PROVE Good
  BY <1>0, <1>3 DEF Publish, StreamTypes, MemTypes
<1>4. ASSUME NEW i \in unwritten, NEW bits \in PayloadBits, WritePayload(i, bits) PROVE Good
  <2>1. StreamTypes'
    BY <1>0, <1>4 DEF WritePayload, StreamTypes
  <2> QED
    BY <1>4, <2>1, PayloadWrites DEF MemTypes
<1>5. ASSUME Seal PROVE Good
  <2>1. StreamTypes'
    BY <1>0, <1>5 DEF Seal, StreamTypes
  <2> QED
    BY <1>5, <2>1, SealWrites DEF MemTypes
<1>6. ASSUME Commit PROVE Good
  BY <1>0, <1>6 DEF Commit, StreamTypes, MemTypes
<1>7. ASSUME ProducerDies PROVE Good
  BY <1>0, <1>7 DEF ProducerDies, StreamTypes, MemTypes
<1>8. ASSUME AttachProducer PROVE Good
  BY <1>0, <1>8 DEF AttachProducer, StreamTypes, MemTypes
<1>9. Good
  BY <1>1, <1>2, <1>3, <1>4, <1>5, <1>6, <1>7, <1>8 DEF ProducerNext, ProducerStep
<1>10. LogTypes'
  BY <1>0, LogGrows, LogShrinks, LogStays DEF LogTypes
<1> QED
  BY <1>9, <1>10, <1>a, <1>b

(* Every step of a reader keeps TypeOK.                                    *)
LEMMA TypeStepReader ==
  ASSUME TypeOK, NEW r \in Readers, ReaderNext(r)
  PROVE  TypeOK'
<1>0. StreamTypes /\ MemTypes /\ LogTypes /\ ReaderTypes
  BY TypeGroups
<1>a. StreamTypes' /\ MemTypes' /\ LogTypes'
  BY <1>0, ReaderSteps DEF StreamTypes, MemTypes, LogTypes, producer
<1>b. TypeOK' <=> StreamTypes' /\ MemTypes' /\ LogTypes' /\ ReaderTypes'
  BY TypeGroups, PTL
<1>c. ASSUME NEW c \in Nat, Done(r, c) PROVE ReaderTypes'
  BY <1>0, <1>c DEF Done, ReaderTypes, Functions
<1>d. Frame(r).version \in Nat /\ Frame(r).length \in Nat /\ Frame(r).msg \in Nat
      /\ current[r] \in Nat /\ length[r] \in Nat
  BY <1>0, MemWord DEF Frame, ReaderTypes
<1>1. ASSUME NEW function \in Functions, Poll(r, function) PROVE ReaderTypes'
  BY <1>0, <1>1 DEF Poll, ReaderTypes, StreamTypes
<1>2. ASSUME CheckLapped(r) PROVE ReaderTypes'
  <2>1. CASE producer_cursor - current[r] > Capacity
    BY <1>2, <1>c, <1>d, <2>1 DEF CheckLapped
  <2>2. CASE ~(producer_cursor - current[r] > Capacity)
    BY <1>0, <1>2, <2>2 DEF CheckLapped, ReaderTypes
  <2> QED
    BY <2>1, <2>2
<1>3. ASSUME LoadVersion(r) PROVE ReaderTypes'
  BY <1>0, <1>3, <1>d DEF LoadVersion, ReaderTypes
<1>4. ASSUME GiveUp(r) PROVE ReaderTypes'
  BY <1>4, <1>c, <1>d DEF GiveUp
<1>5. ASSUME LoadHeader(r) PROVE ReaderTypes'
  <2>1. CASE Frame(r).length > Capacity
    BY <1>5, <1>c, <1>d, <2>1 DEF LoadHeader
  <2>2. CASE ~(Frame(r).length > Capacity)
    <3> DEFINE words == 1 .. Frame(r).length  messages == {Frame(r).msg}
    <3>1. words \in SUBSET Nat /\ messages \in SUBSET Nat
      BY <1>d
    <3>2. /\ length' = [length EXCEPT ![r] = Frame(r).length]
          /\ uncopied' = [uncopied EXCEPT ![r] = words]
          /\ seen' = [seen EXCEPT ![r] = messages]
          /\ rpc' = [rpc EXCEPT ![r] = "payload"]
          /\ UNCHANGED <<cursor, api, current, limit, version_before>>
      BY <1>5, <2>2 DEF LoadHeader
    <3> HIDE DEF words, messages
    <3> QED
      BY <1>0, <1>d, <3>1, <3>2 DEF ReaderTypes
  <2> QED
    BY <2>1, <2>2
<1>6. ASSUME NEW i \in uncopied[r], LoadPayload(r, i) PROVE ReaderTypes'
  <2>1. i \in Nat
    BY <1>0 DEF ReaderTypes
  <2>2. mem[Word(current[r] + i)].msg \in Nat
    BY <1>d, <2>1, MemWord
  <2>3. seen[r] \cup {mem[Word(current[r] + i)].msg} \in SUBSET Nat /\ uncopied[r] \ {i} \in SUBSET Nat
    BY <1>0, <2>2 DEF ReaderTypes
  <2> QED
    BY <1>0, <1>6, <2>3 DEF LoadPayload, ReaderTypes
<1>7. ASSUME Verify(r) PROVE ReaderTypes'
  BY <1>0, <1>7 DEF Verify, ReaderTypes
<1>8. ASSUME Advance(r) PROVE ReaderTypes'
  BY <1>8, <1>c, <1>d DEF Advance
<1>9. ASSUME BatchEnds(r) PROVE ReaderTypes'
  BY <1>9, <1>c, <1>d DEF BatchEnds
<1>10. ASSUME BatchContinues(r) PROVE ReaderTypes'
  BY <1>0, <1>10, <1>d DEF BatchContinues, ReaderTypes
<1>11. ReaderTypes'
  BY <1>1, <1>2, <1>3, <1>4, <1>5, <1>6, <1>7, <1>8, <1>9, <1>10 DEF ReaderNext, ReaderStep
<1> QED
  BY <1>a, <1>b, <1>11

-----------------------------------------------------------------------------
(* The frame that is being written.                                        *)

(* It fits the ring, so its words are apart.                               *)
LEMMA OwnWords ==
  ASSUME TypeOK, LogInv, ppc \in Writing
  PROVE  /\ Len(log) \in DOMAIN log /\ Start = log[Len(log)] /\ Start \in Nat /\ Len(log) \in Nat
         /\ claimed_cursor = Claim /\ End(Len(log)) = claimed_cursor /\ claimed_cursor \in Nat
         /\ Start < claimed_cursor /\ claimed_cursor <= Start + Capacity
         /\ claimed_cursor - Start \in stream.sizes /\ claimed_cursor - Start - 1 \in Nat
         /\ \A i, j \in 0 .. claimed_cursor - Start - 1 : i # j => Word(Start + i) # Word(Start + j)
         /\ \A i \in 1 .. claimed_cursor - Start - 1 : Word(Start + i) # Word(Start)
<1>1. Len(log) \in DOMAIN log /\ Start = log[Len(log)] /\ Start \in Nat /\ Len(log) \in Nat
  BY LogFacts DEF LogInv, Start
<1>2. claimed_cursor = Claim
  BY DEF LogInv, Claim, Unpublished, Writing
<1>3. End(Len(log)) = claimed_cursor
  BY <1>1, <1>2 DEF End
<1>4. /\ claimed_cursor \in Nat /\ Start < claimed_cursor /\ claimed_cursor <= Start + Capacity
      /\ claimed_cursor - Start \in stream.sizes
  BY <1>1, <1>3, FramesInOrder
<1>5. Capacity \in Nat
  BY Sizes
<1>6. ASSUME NEW i \in 0 .. claimed_cursor - Start - 1, NEW j \in 0 .. claimed_cursor - Start - 1,
             i < j
      PROVE  Word(Start + i) # Word(Start + j)
  <2>a. i \in Nat /\ j \in Nat /\ Start + j < claimed_cursor
    BY <1>1, <1>4
  <2>1. Start + i \in Int /\ Start + j \in Int /\ Start + i < Start + j /\ Start + j < Start + i + Capacity
    BY <1>1, <1>4, <1>5, <1>6, <2>a
  <2> QED
    BY <2>1, WordsApart
<1>7. \A i, j \in 0 .. claimed_cursor - Start - 1 : i # j => Word(Start + i) # Word(Start + j)
  BY <1>1, <1>4, <1>6
<1>8. \A i \in 1 .. claimed_cursor - Start - 1 : Word(Start + i) # Word(Start)
  <2> TAKE i \in 1 .. claimed_cursor - Start - 1
  <2>1. Word(Start + 0) # Word(Start + i) /\ Start + 0 = Start
    BY <1>1, <1>4, <1>6
  <2> QED
    BY <2>1
<1> QED
  BY <1>1, <1>2, <1>3, <1>4, <1>7, <1>8

(* What has been written of the frame stays until the frame is sealed: its *)
(* own later writes go to other words.                                     *)
LEMMA WritingKept ==
  ASSUME TypeOK, LogInv, WritingInv, ProducerNext
  PROVE  WritingInv'
<1> USE DEF Writing
<1> DEFINE words == claimed_cursor - Start - 1
<1>0. ppc \in Writing => /\ Start \in Nat /\ claimed_cursor \in Nat /\ words \in Nat
                         /\ Len(log) \in Nat
                         /\ Word(Start) \in Ring
                         /\ \A i \in 1 .. words : Word(Start + i) \in Ring /\ Word(Start + i) # Word(Start)
  <2> HAVE ppc \in Writing
  <2>1. Start \in Nat
    BY OwnWords
  <2>2. \A i \in 1 .. words : Start + i \in Int
    BY <2>1, OwnWords
  <2> QED
    BY <2>1, <2>2, OwnWords, MemWord
<1>1. ASSUME NEW size \in stream.sizes, Reserve(size) PROVE WritingInv'
  <2>1. producer_cursor \in Int /\ mem[Word(producer_cursor)].version \in Nat
    BY MemWord DEF TypeOK
  <2>2. Start' = producer_cursor
    BY <1>1, LogGrows DEF Start
  <2>3. Odd(mem'[Word(producer_cursor)].version)
    BY <1>1, <2>1, ReserveWrites, NextIsOdd DEF VersionWritten
  <2>4. Word(Start)' = Word(producer_cursor)
    BY <2>2 DEF Word
  <2>5. Odd(mem[Word(Start)].version)'
    BY <2>3, <2>4 DEF Odd
  <2>6. ppc' = "header"
    BY <1>1 DEF Reserve
  <2> QED
    BY <2>5, <2>6 DEF WritingInv
<1>2. ASSUME ppc \in Writing, UNCHANGED log PROVE Start' = Start /\ Word(Start)' = Word(Start)
  BY <1>2 DEF Start, Word
<1>3. ASSUME WriteHeader PROVE WritingInv'
  <2>1. /\ ppc = "header" /\ ppc' = "publish" /\ UNCHANGED <<log, claimed_cursor>>
        /\ unwritten' = 1 .. words
    BY <1>3 DEF WriteHeader
  <2>2. Odd(mem[Word(Start)].version)
    BY <2>1 DEF WritingInv
  <2>3. Start' = Start /\ Word(Start)' = Word(Start)
    BY <2>1, <1>2
  <2>4. Odd(mem[Word(Start)].version)'
    BY <1>0, <1>3, <2>1, <2>2, <2>3, HeaderWrites DEF Odd
  <2>5. (mem[Word(Start)].length)' = (claimed_cursor - Start - 1)' /\ (mem[Word(Start)].msg)' = Len(log)'
    BY <1>3, <2>1, <2>3, HeaderWrites
  <2> QED
    BY <2>1, <2>3, <2>4, <2>5 DEF WritingInv
<1>4. ASSUME Publish PROVE WritingInv'
  <2>1. ppc = "publish" /\ ppc' = "payload" /\ UNCHANGED <<log, claimed_cursor, mem, unwritten>>
    BY <1>4 DEF Publish
  <2>2. Start' = Start
    BY <2>1, <1>2
  <2> QED
    BY <2>1, <2>2 DEF WritingInv, Odd, Word
<1>5. ASSUME NEW i \in unwritten, NEW bits \in PayloadBits, WritePayload(i, bits) PROVE WritingInv'
  <2>1. ppc = "payload" /\ ppc' = "payload" /\ UNCHANGED <<log, claimed_cursor>>
        /\ unwritten' = unwritten \ {i}
    BY <1>5 DEF WritePayload
  <2>2. Start' = Start /\ Word(Start)' = Word(Start)
    BY <2>1, <1>2
  <2>3. i \in 1 .. words /\ Same(Word(Start))
    <3>1. i \in 1 .. words
      BY <1>5, PayloadWrites
    <3>2. Word(Start) \in Ring /\ Word(Start + i) # Word(Start)
      BY <1>0, <2>1, <3>1
    <3> QED
      BY <1>5, <3>1, <3>2, PayloadWrites
  <2>4. /\ Odd(mem[Word(Start)].version)' /\ (mem[Word(Start)].length)' = (claimed_cursor - Start - 1)'
        /\ (mem[Word(Start)].msg)' = Len(log)'
    BY <2>1, <2>2, <2>3 DEF WritingInv, Same, Odd
  <2>5. unwritten' \subseteq 1 .. (claimed_cursor - Start - 1)'
    BY <2>1, <2>2 DEF WritingInv
  <2>6. ASSUME NEW j \in (1 .. words) \ unwritten'
        PROVE  mem'[Word(Start + j)].msg = Len(log)
    <3>1. CASE Word(Start + j) = Word(Start + i)
      BY <1>5, <3>1, PayloadWrites
    <3>2. CASE Word(Start + j) # Word(Start + i)
      <4>1. j # i
        BY <3>2
      <4>2. mem[Word(Start + j)].msg = Len(log)
        BY <2>1, <4>1 DEF WritingInv
      <4>3. Same(Word(Start + j))
        <5>1. Word(Start + j) \in Ring
          BY <1>0, <2>1
        <5> QED
          BY <1>5, <3>2, <5>1, PayloadWrites
      <4> QED
        BY <4>2, <4>3 DEF Same
    <3> QED
      BY <3>1, <3>2
  <2>7. \A j \in ((1 .. (claimed_cursor - Start - 1)) \ unwritten)' :
          (mem[Word(Start + j)].msg)' = Len(log)'
    BY <2>1, <2>2, <2>6 DEF Word
  <2> QED
    BY <2>1, <2>4, <2>5, <2>7 DEF WritingInv
<1>6. ASSUME Seal PROVE WritingInv'
  <2>1. /\ ppc = "payload" /\ ppc' = "commit" /\ UNCHANGED <<log, claimed_cursor, unwritten>>
        /\ unwritten = {}
    BY <1>6 DEF Seal
  <2>2. Start' = Start /\ Word(Start)' = Word(Start)
    BY <2>1, <1>2
  <2>3. \A w \in Ring : mem'[w].length = mem[w].length /\ mem'[w].msg = mem[w].msg
    BY <1>6, SealWrites DEF VersionWritten
  <2>4. (mem[Word(Start)].length)' = (claimed_cursor - Start - 1)' /\ (mem[Word(Start)].msg)' = Len(log)'
    BY <1>0, <2>1, <2>2, <2>3 DEF WritingInv
  <2>5. \A j \in ((1 .. (claimed_cursor - Start - 1)) \ unwritten)' :
          (mem[Word(Start + j)].msg)' = Len(log)'
    <3>1. \A j \in 1 .. words : mem'[Word(Start + j)].msg = Len(log)
      BY <1>0, <2>1, <2>3 DEF WritingInv
    <3> QED
      BY <2>1, <2>2, <3>1 DEF Word
  <2> QED
    BY <2>1, <2>4, <2>5 DEF WritingInv
<1>7. ASSUME Commit PROVE WritingInv'
  BY <1>7 DEF Commit, WritingInv
<1>8. ASSUME ProducerDies PROVE WritingInv'
  BY <1>8 DEF ProducerDies, WritingInv
<1>9. ASSUME AttachProducer PROVE WritingInv'
  BY <1>9 DEF AttachProducer, WritingInv
<1> QED
  BY <1>1, <1>3, <1>4, <1>5, <1>6, <1>7, <1>8, <1>9 DEF ProducerNext, ProducerStep

-----------------------------------------------------------------------------
(* The readers, while the producer moves.                                  *)

(* The frame a guarded reader is at is one that was committed.             *)
LEMMA AtFrame ==
  ASSUME TypeOK, LogInv, NEW m \in DOMAIN log, log[m] < commit_cursor
  PROVE  /\ log[m] < producer_cursor /\ End(m) <= commit_cursor /\ Sealed(m)
         /\ Boundary(End(m)) /\ Lasting(m) /\ (m < Len(log) \/ ppc # "header")
         /\ \A n \in DOMAIN log : log[n] = log[m] => n = m
<1>1. /\ commit_cursor \in Nat /\ producer_cursor \in Nat /\ commit_cursor <= producer_cursor
      /\ Boundary(commit_cursor) /\ Len(log) \in Nat /\ DOMAIN log = 1 .. Len(log)
      /\ \A k \in DOMAIN log : log[k] \in Nat
  BY LogFacts DEF TypeOK, LogInv
<1>2. End(m) <= commit_cursor
  BY <1>1, FramesInOrder
<1>3. log[m] < producer_cursor
  BY <1>1
<1>4. m < Len(log) \/ ~Unpublished
  BY <1>1, <1>3 DEF LogInv, Start
<1>5. m < Len(log) \/ ppc # "payload"
  BY <1>1 DEF LogInv, Start
<1>6. Sealed(m) /\ (m < Len(log) \/ ppc # "header") /\ Lasting(m)
  BY <1>1, <1>2, <1>4, <1>5 DEF Sealed, Lasting, Unpublished, TypeOK, Writing
<1>7. Boundary(End(m))
  BY <1>4, FramesInOrder
<1>8. ASSUME NEW n \in DOMAIN log, log[n] = log[m], n # m PROVE FALSE
  <2>1. (n < m /\ End(n) <= log[m] /\ log[n] < End(n)) \/ (m < n /\ End(m) <= log[n] /\ log[m] < End(m))
    BY <1>1, <1>8 DEF LogInv
  <2>2. End(n) \in Nat /\ End(m) \in Nat
    BY FramesInOrder
  <2> QED
    BY <1>1, <1>8, <2>1, <2>2
<1> QED
  BY <1>2, <1>3, <1>6, <1>7, <1>8

(* The producer's steps leave a guarded reader on boundaries of frames.    *)
LEMMA PositionKeptProducer ==
  ASSUME TypeOK, LogInv, PositionInv, ProducerNext
  PROVE  PositionInv'
<1>1. Keeps /\ UNCHANGED <<stream, members, cursor, rpc, current, limit, length>>
  BY LogStep, ProducerSteps DEF reader
<1>2. commit_cursor' \in Nat /\ commit_cursor <= commit_cursor'
      /\ commit_cursor \in Nat /\ producer_cursor \in Nat /\ commit_cursor <= producer_cursor
      /\ \A m \in DOMAIN log : log[m] \in Nat
      /\ \A s \in Readers : cursor[s] \in Nat /\ current[s] \in Nat /\ limit[s] \in Nat
  <2>1. commit_cursor' \in Nat
    BY DEF ProducerNext, ProducerStep, Reserve, WriteHeader, Publish, Seal, Commit, WritePayload,
       ProducerDies, AttachProducer, TypeOK
  <2> QED
    BY <1>1, <2>1, LogFacts DEF TypeOK, LogInv, Keeps
<1> SUFFICES ASSUME NEW r \in Readers, Guarded(r)'
             PROVE  /\ cursor[r] <= commit_cursor' /\ Boundary(cursor[r])'
                    /\ rpc[r] # "idle" =>
                         /\ cursor[r] <= current[r] /\ current[r] < limit[r]
                         /\ limit[r] <= commit_cursor'
                         /\ Boundary(current[r])' /\ Boundary(limit[r])'
                    /\ rpc[r] \in {"payload", "deliver"} =>
                         \E m \in DOMAIN log' :
                           log'[m] = current[r] /\ length[r] = End(m)' - log'[m] - 1
  BY <1>1 DEF PositionInv, Position
<1>3. Guarded(r)
  BY <1>1 DEF Guarded, OfSize, Holeless
<1>4. cursor[r] <= commit_cursor' /\ Boundary(cursor[r])'
  <2>1. Boundary(cursor[r]) /\ cursor[r] <= commit_cursor
    BY <1>3 DEF PositionInv, Position
  <2> QED
    BY <1>1, <1>2, <2>1 DEF Keeps, Boundary
<1>5. ASSUME rpc[r] # "idle"
      PROVE  /\ cursor[r] <= current[r] /\ current[r] < limit[r] /\ limit[r] <= commit_cursor'
             /\ Boundary(current[r])' /\ Boundary(limit[r])'
             /\ current[r] < commit_cursor
  <2>1. /\ cursor[r] <= current[r] /\ current[r] < limit[r] /\ limit[r] <= commit_cursor
        /\ Boundary(current[r]) /\ Boundary(limit[r])
    BY <1>3, <1>5 DEF PositionInv, Position
  <2> QED
    BY <1>1, <1>2, <2>1 DEF Keeps, Boundary
<1>6. ASSUME rpc[r] \in {"payload", "deliver"}
      PROVE  \E m \in DOMAIN log' : log'[m] = current[r] /\ length[r] = End(m)' - log'[m] - 1
  <2>1. PICK m \in DOMAIN log : log[m] = current[r] /\ length[r] = End(m) - log[m] - 1
    BY <1>3, <1>6 DEF PositionInv, Position
  <2>2. log[m] # producer_cursor
    BY <1>2, <1>5, <1>6, <2>1
  <2> QED
    BY <1>1, <2>1, <2>2 DEF Keeps
<1> QED
  BY <1>4, <1>5, <1>6

(* A whole frame that the producer may not lap stays whole.                *)
LEMMA WholeKept ==
  ASSUME TypeOK, LogInv, WritingInv, ProducerNext, NEW m \in DOMAIN log, m \in DOMAIN log',
         Whole(m), Claim <= log[m] + Capacity,
         ppc \in {"header", "payload"} => m < Len(log)
  PROVE  Whole(m)'
<1> DEFINE size == End(m) - log[m]
<1>1. Keeps /\ log'[m] = log[m] /\ End(m)' = End(m)
  BY LogStep DEF Keeps
<1>2. log[m] \in Nat /\ End(m) \in Nat /\ size \in Nat /\ size > 0 /\ Capacity \in Nat
      /\ Len(log) \in Nat
  BY FramesInOrder, Sizes, LogFacts
<1>3. ASSUME NEW i \in 0 .. size - 1 PROVE Word(log[m] + i) \in Ring
  BY <1>2, MemWord
<1>4. Word(log[m]) \in Ring
  BY <1>2, MemWord
<1>5. ASSUME \A i \in 0 .. size - 1 : mem'[Word(log[m] + i)].msg = mem[Word(log[m] + i)].msg,
             mem'[Word(log[m])].length = mem[Word(log[m])].length
      PROVE  Whole(m)'
  BY <1>1, <1>5 DEF Whole, Word
<1>6. ASSUME \A w \in Ring : mem'[w].length = mem[w].length /\ mem'[w].msg = mem[w].msg
      PROVE  Whole(m)'
  BY <1>3, <1>4, <1>5, <1>6
<1>7. ASSUME ppc \in {"header", "payload"}, NEW j \in 0 .. claimed_cursor - Start - 1,
             \A w \in Ring : w # Word(Start + j) => Same(w)
      PROVE  Whole(m)'
  <2>1. /\ Start \in Nat /\ claimed_cursor \in Nat /\ Start = log[Len(log)] /\ claimed_cursor = Claim
        /\ Len(log) \in DOMAIN log
    BY <1>7, OwnWords DEF Writing
  <2>2. End(m) <= Start
    BY <1>7, <2>1 DEF LogInv
  <2>3. ASSUME NEW i \in 0 .. size - 1
        PROVE  Same(Word(log[m] + i))
    <3>a. i \in Nat /\ log[m] + i < End(m)
      BY <1>2
    <3>b. j \in Nat /\ Start + j < claimed_cursor
      BY <2>1
    <3>c. claimed_cursor <= log[m] + Capacity
      BY <2>1
    <3> HIDE DEF size
    <3>1. /\ log[m] + i \in Int /\ Start + j \in Int /\ log[m] + i < Start + j
          /\ Start + j < log[m] + i + Capacity
      BY <1>2, <2>1, <2>2, <3>a, <3>b, <3>c, Behind
    <3>2. Word(log[m] + i) # Word(Start + j)
      BY <3>1, WordsApart
    <3> QED
      BY <1>3, <1>7, <3>2
  <2>4. Same(Word(log[m]))
    <3>1. 0 \in 0 .. size - 1 /\ log[m] + 0 = log[m]
      BY <1>2
    <3> QED
      BY <2>3, <3>1
  <2> QED
    BY <1>5, <2>3, <2>4 DEF Same
<1> USE DEF Writing
<1>8. CASE UNCHANGED mem
  BY <1>6, <1>8
<1>9. ASSUME NEW s \in stream.sizes, Reserve(s) PROVE Whole(m)'
  BY <1>6, <1>9, ReserveWrites DEF VersionWritten
<1>10. CASE WriteHeader
  <2>1. ppc = "header" /\ 0 \in 0 .. claimed_cursor - Start - 1 /\ Start + 0 = Start
    BY <1>10, OwnWords DEF WriteHeader
  <2>2. \A w \in Ring : w # Word(Start + 0) => Same(w)
    BY <1>10, <2>1, HeaderWrites
  <2> QED
    BY <1>7, <2>1, <2>2
<1>11. ASSUME NEW i \in unwritten, NEW bits \in PayloadBits, WritePayload(i, bits) PROVE Whole(m)'
  <2>1. ppc = "payload"
    BY <1>11 DEF WritePayload
  <2>2. i \in 0 .. claimed_cursor - Start - 1 /\ \A w \in Ring : w # Word(Start + i) => Same(w)
    BY <1>11, <2>1, PayloadWrites, OwnWords
  <2> QED
    BY <1>7, <2>1, <2>2
<1>12. CASE Seal
  BY <1>6, <1>12, SealWrites DEF VersionWritten
<1> QED
  BY <1>8, <1>9, <1>10, <1>11, <1>12
     DEF ProducerNext, ProducerStep, Publish, Commit, ProducerDies, AttachProducer

(* The frame that Seal completes is whole.                                 *)
LEMMA SealedIsWhole ==
  ASSUME TypeOK, LogInv, WritingInv, Seal
  PROVE  Whole(Len(log))'
<1>1. ppc = "payload" /\ ppc' = "commit" /\ unwritten = {} /\ UNCHANGED <<log, claimed_cursor, producer_cursor>>
  BY DEF Seal
<1> DEFINE n == Len(log)  words == claimed_cursor - Start - 1
<1>2. /\ Start = log[n] /\ Start \in Nat /\ End(n) = claimed_cursor /\ words \in Nat
      /\ claimed_cursor \in Nat /\ n \in Nat
  BY <1>1, OwnWords DEF Writing
<1>3. \A w \in Ring : mem'[w].length = mem[w].length /\ mem'[w].msg = mem[w].msg
  BY SealWrites DEF VersionWritten
<1>4. /\ mem[Word(Start)].length = words /\ mem[Word(Start)].msg = n
      /\ \A i \in 1 .. words : mem[Word(Start + i)].msg = n
  BY <1>1 DEF WritingInv, Writing
<1>5. \A i \in 0 .. words : mem'[Word(Start + i)].msg = n
  <2> TAKE i \in 0 .. words
  <2>1. mem[Word(Start + i)].msg = n
    <3>1. CASE i = 0
      <4>1. Start + i = Start
        BY <1>2, <3>1
      <4> QED
        BY <1>4, <4>1
    <3>2. CASE i \in 1 .. words
      BY <1>4, <3>2
    <3> QED
      BY <1>2, <3>1, <3>2
  <2>2. Word(Start + i) \in Ring
    BY <1>2, MemWord
  <2> QED
    BY <1>3, <2>1, <2>2
<1>6. mem'[Word(Start)].length = words
  <2>1. Word(Start) \in Ring
    BY <1>2, MemWord
  <2> QED
    BY <1>3, <1>4, <2>1
<1>7. (End(Len(log)))' = claimed_cursor /\ (Len(log))' = n /\ (log[Len(log)])' = Start
  <2>1. n \in DOMAIN log
    BY <1>1, OwnWords DEF Writing
  <2>2. Claim' = claimed_cursor
    BY <1>1 DEF Claim, Unpublished, LogInv
  <2> QED
    BY <1>1, <1>2, <2>1, <2>2 DEF End
<1>8. words = claimed_cursor - Start - 1
  OBVIOUS
<1>9. /\ (mem[Word(log[Len(log)])].length)' = (End(Len(log)) - log[Len(log)] - 1)'
      /\ \A i \in 0 .. (End(Len(log)) - log[Len(log)] - 1)' :
           mem'[Word(log[Len(log)] + i)'].msg = (Len(log))'
  <2>1. (Word(log[Len(log)]))' = Word(Start) /\ \A i : Word(log[Len(log)] + i)' = Word(Start + i)
    BY <1>1, <1>7 DEF Word
  <2> QED
    BY <1>5, <1>6, <1>7, <1>8, <2>1
<1> QED
  BY <1>9 DEF Whole

(* A frame that is sealed after the step was sealed before it, or it is    *)
(* the one that Seal completes.                                            *)
LEMMA SealedBefore ==
  ASSUME TypeOK, LogInv, Holeless, ProducerNext, NEW m \in DOMAIN log', Sealed(m)'
  PROVE  \/ m \in DOMAIN log /\ Sealed(m) /\ (ppc \in {"header", "payload"} => m < Len(log))
         \/ Seal /\ m = Len(log)
<1> USE DEF Writing
<1>0. Len(log) \in Nat /\ DOMAIN log = 1 .. Len(log)
  BY LogFacts
<1>1. ASSUME NEW size \in stream.sizes, Reserve(size)
      PROVE  m \in DOMAIN log /\ Sealed(m) /\ ppc = "idle"
  <2>1. ppc = "idle" /\ ppc' = "header" /\ Len(log') = Len(log) + 1 /\ DOMAIN log' = 1 .. Len(log) + 1
    BY <1>1, LogGrows DEF Reserve
  <2>2. m < Len(log) + 1
    BY <2>1 DEF Sealed
  <2> QED
    BY <1>0, <2>1, <2>2 DEF Sealed
<1>2. ASSUME ProducerDies, Unpublished
      PROVE  m \in DOMAIN log /\ m < Len(log) /\ Sealed(m)
  BY <1>0, <1>2, LogShrinks DEF Sealed
<1>3. ASSUME UNCHANGED log, m < Len(log)
      PROVE  m \in DOMAIN log /\ Sealed(m)
  BY <1>3 DEF Sealed
<1>4. ASSUME UNCHANGED log, ~(m < Len(log)) PROVE m = Len(log) /\ ~(m < Len(log'))
  BY <1>0, <1>4
<1>5. CASE WriteHeader
  BY <1>3, <1>4, <1>5 DEF WriteHeader, Sealed
<1>6. CASE Publish
  BY <1>3, <1>4, <1>6 DEF Publish, Sealed
<1>7. ASSUME NEW i \in unwritten, NEW bits \in PayloadBits, WritePayload(i, bits)
      PROVE  m \in DOMAIN log /\ Sealed(m) /\ m < Len(log)
  BY <1>3, <1>4, <1>7 DEF WritePayload, Sealed
<1>8. CASE Seal
  BY <1>3, <1>4, <1>8 DEF Seal
<1>9. CASE Commit
  BY <1>9 DEF Commit, Sealed
<1>10. CASE ProducerDies /\ ~Unpublished
  <2>1. log' = log /\ ppc' = "dead" /\ UNCHANGED <<stream, commit_cursor, producer_cursor>>
        /\ ppc \in stream.dies
    BY <1>10 DEF ProducerDies, Unpublished
  <2>2. CASE ppc # "payload"
    <3>1. ppc \in {"idle", "commit"}
      BY <1>10, <2>1, <2>2, Sizes DEF Unpublished
    <3> QED
      BY <2>1, <3>1 DEF Sealed
  <2>3. CASE ppc = "payload"
    <3>1. ~stream'.recovers
      BY <2>1, <2>3 DEF Holeless
    <3>2. (End(Len(log)) = claimed_cursor) /\ Start < claimed_cursor /\ commit_cursor <= Start
          /\ claimed_cursor = producer_cursor /\ Start \in Nat /\ claimed_cursor \in Nat
      BY <2>3, OwnWords DEF LogInv
    <3>3. commit_cursor \in Nat
      BY DEF TypeOK
    <3>4. ASSUME m = Len(log) PROVE FALSE
      <4>1. End(m)' = claimed_cursor
        BY <2>1, <3>2, <3>4 DEF End, Claim, Unpublished
      <4>2. claimed_cursor <= commit_cursor
        BY <1>0, <2>1, <3>1, <3>4, <4>1 DEF Sealed
      <4> QED
        BY <3>2, <3>3, <4>2
    <3> QED
      BY <1>3, <1>4, <2>1, <3>4
  <2> QED
    BY <2>2, <2>3
<1>11. CASE AttachProducer
  BY <1>11 DEF AttachProducer, Sealed
<1> QED
  BY <1>1, <1>2, <1>5, <1>6, <1>7, <1>8, <1>9, <1>10, <1>11 DEF ProducerNext, ProducerStep

(* No step of the producer touches a frame that a member has not released. *)
LEMMA MemberKeptProducer ==
  ASSUME TypeOK, LogInv, WritingInv, PositionInv, MemberInv, ProducerNext
  PROVE  MemberInv'
<1>1. Keeps /\ UNCHANGED <<stream, members, cursor, rpc, current, limit, length, uncopied, seen>>
  BY LogStep, ProducerSteps DEF reader
<1> SUFFICES ASSUME Holeless, NEW r \in members
             PROVE  /\ Claim' <= cursor[r] + Capacity
                    /\ \A m \in DOMAIN log' : Sealed(m)' /\ cursor[r] <= log'[m] => Whole(m)'
                    /\ rpc[r] \in {"payload", "deliver"} =>
                         seen[r] = {m \in DOMAIN log' : log'[m] = current[r]}
                    /\ rpc[r] = "payload" => uncopied[r] \subseteq 1 .. length[r]
  BY <1>1 DEF MemberInv, Member, Holeless
<1>2. r \in Readers /\ cursor[r] \in Nat /\ Capacity \in Nat /\ Claim \in Nat
      /\ \A m \in DOMAIN log : log[m] \in Nat
  BY Sizes, LogFacts DEF TypeOK, Claim
<1>3. /\ Claim <= cursor[r] + Capacity
      /\ \A m \in DOMAIN log : Sealed(m) /\ cursor[r] <= log[m] => Whole(m)
      /\ rpc[r] \in {"payload", "deliver"} => seen[r] = {m \in DOMAIN log : log[m] = current[r]}
      /\ rpc[r] = "payload" => uncopied[r] \subseteq 1 .. length[r]
  BY DEF MemberInv, Member
<1>4. Claim' <= cursor[r] + Capacity
  <2>1. ASSUME NEW size \in stream.sizes, Reserve(size) PROVE Claim' <= cursor[r] + Capacity
    <3>0. producer_cursor \in Nat /\ size \in Nat
      BY Sizes DEF TypeOK
    <3>1. /\ producer_cursor + size - cursor[r] <= Capacity
          /\ ppc' = "header" /\ claimed_cursor' = producer_cursor + size
      BY <2>1 DEF Reserve
    <3>2. Claim' = producer_cursor + size
      BY <3>1 DEF Claim, Unpublished
    <3> QED
      BY <1>2, <3>0, <3>1, <3>2
  <2>2. CASE ProducerDies /\ Unpublished
    <3>1. Claim' = producer_cursor /\ producer_cursor <= Claim
      <4>1. Claim' = producer_cursor
        BY <2>2 DEF ProducerDies, Claim, Unpublished
      <4>2. Len(log) \in DOMAIN log /\ log[Len(log)] = producer_cursor
        BY <2>2, LogShrinks, LogFacts
      <4>3. log[Len(log)] < End(Len(log)) /\ End(Len(log)) <= Claim /\ End(Len(log)) \in Nat
        BY <4>2, FramesInOrder
      <4> QED
        BY <1>2, <4>1, <4>2, <4>3
    <3> QED
      BY <1>2, <1>3, <3>1 DEF TypeOK
  <2>3. CASE ~(\E size \in stream.sizes : Reserve(size)) /\ ~(ProducerDies /\ Unpublished)
    BY <1>3, <2>3, LogStays, OthersKeep
  <2> QED
    BY <2>1, <2>2, <2>3
<1>5. ASSUME NEW m \in DOMAIN log', Sealed(m)', cursor[r] <= log'[m] PROVE Whole(m)'
  <2>1. CASE m \in DOMAIN log /\ Sealed(m) /\ (ppc \in {"header", "payload"} => m < Len(log))
    <3>1. log'[m] = log[m] /\ Whole(m)
      BY <1>1, <1>3, <1>5, <2>1 DEF Keeps
    <3>2. Claim <= log[m] + Capacity
      BY <1>2, <1>3, <1>5, <2>1, <3>1
    <3> QED
      BY <1>5, <2>1, <3>1, <3>2, WholeKept
  <2>2. CASE Seal /\ m = Len(log)
    <3>1. Whole(Len(log))' /\ log' = log
      BY <2>2, SealedIsWhole DEF Seal
    <3> QED
      BY <2>2, <3>1 DEF Whole
  <2> QED
    BY <1>5, <2>1, <2>2, SealedBefore
<1>6. ASSUME rpc[r] \in {"payload", "deliver"}
      PROVE  seen[r] = {m \in DOMAIN log' : log'[m] = current[r]}
  <2>1. current[r] < producer_cursor
    <3>1. Guarded(r)
      BY DEF Guarded
    <3>2. current[r] < limit[r] /\ limit[r] <= commit_cursor
      BY <1>2, <1>6, <3>1 DEF PositionInv, Position
    <3> QED
      BY <1>2, <3>2 DEF TypeOK, LogInv
  <2>2. current[r] \in Nat /\ producer_cursor \in Nat
    BY <1>2 DEF TypeOK
  <2>3. current[r] # producer_cursor
    BY <2>1, <2>2
  <2>4. \A m : m \in DOMAIN log' /\ log'[m] = current[r] <=> m \in DOMAIN log /\ log[m] = current[r]
    BY <1>1, <2>3 DEF Keeps
  <2> QED
    BY <1>3, <1>6, <2>4
<1> QED
  BY <1>3, <1>4, <1>5, <1>6

-----------------------------------------------------------------------------
(* Frames of one size.                                                     *)

(* With one size all positions are multiples of it.                        *)
LEMMA Uniform ==
  ASSUME TypeOK, LogInv, PlacesInv, NEW size \in stream.sizes, OfSize(size)
  PROVE  /\ size \in 1 .. Capacity /\ size \in Nat /\ size > 0 /\ Capacity % size = 0
         /\ producer_cursor \in Nat /\ producer_cursor % size = 0
         /\ \A m \in DOMAIN log : log[m] \in Nat /\ log[m] % size = 0 /\ End(m) = log[m] + size
         /\ ppc \in Writing => claimed_cursor = Start + size /\ Start % size = 0 /\ Start \in Nat
<1>1. size \in 1 .. Capacity /\ size \in Nat /\ size > 0 /\ Capacity % size = 0
  BY Sizes DEF OfSize
<1>2. producer_cursor \in Nat /\ producer_cursor % size = 0
  BY DEF PlacesInv, Place, TypeOK
<1>3. \A m \in DOMAIN log : log[m] \in Nat /\ log[m] % size = 0 /\ End(m) = log[m] + size
  <2> TAKE m \in DOMAIN log
  <2>1. log[m] % size = 0
    BY DEF PlacesInv, Place
  <2>2. log[m] \in Nat /\ End(m) \in Nat /\ End(m) - log[m] = size
    BY FramesInOrder DEF OfSize
  <2> QED
    BY <1>1, <2>1, <2>2
<1>4. ASSUME ppc \in Writing PROVE claimed_cursor = Start + size /\ Start % size = 0 /\ Start \in Nat
  BY <1>3, <1>4, OwnWords
<1> QED
  BY <1>1, <1>2, <1>3, <1>4

(* What a step does to a place, which is the words of a frame that would   *)
(* start at x.                                                             *)
PlaceStep(size, x) ==
  /\ mem[Word(x)].version <= mem'[Word(x)].version
  /\ mem'[Word(x)].length = mem[Word(x)].length \/ mem'[Word(x)].length = size - 1
  /\ ~Odd(mem[Word(x)].version) =>
       /\ mem'[Word(x)].length = mem[Word(x)].length
       /\ \A i \in 0 .. size - 1 : mem'[Word(x + i)].msg = mem[Word(x + i)].msg
  /\ ~Odd(mem'[Word(x)].version) =>
       mem'[Word(x)].version = mem[Word(x)].version \/ (Seal /\ Word(x) = Word(Start))

LEMMA PlaceSteps ==
  ASSUME TypeOK, LogInv, WritingInv, PlacesInv, NEW size \in stream.sizes, OfSize(size),
         ProducerNext, NEW x \in Nat, x % size = 0
  PROVE  PlaceStep(size, x)
<1> USE DEF Writing
<1>0. /\ size \in 1 .. Capacity /\ size \in Nat /\ size > 0 /\ Capacity % size = 0
      /\ ppc \in Writing => claimed_cursor = Start + size /\ Start % size = 0 /\ Start \in Nat
  BY Uniform
<1>1. /\ Word(x) \in Ring /\ \A i \in 0 .. size - 1 : Word(x + i) \in Ring
      /\ mem[Word(x)].version \in Nat /\ x + 0 = x /\ 0 \in 0 .. size - 1
  <2>1. \A i \in 0 .. size - 1 : x + i \in Int
    BY <1>0
  <2> QED
    BY <1>0, <2>1, MemWord
<1>2. ASSUME ppc \in Writing, NEW i \in 0 .. size - 1, NEW j \in 0 .. size - 1,
             Word(x + i) = Word(Start + j)
      PROVE  i = j /\ Word(x) = Word(Start)
  <2>1. Aligned(size, x) /\ Aligned(size, Start) /\ Aligned(size, Capacity)
    BY <1>0, <1>2, Sizes DEF Aligned
  <2>2. size \in 1 .. Capacity
    BY <1>0
  <2>3. At(x, i) = At(Start, j)
    BY <1>2 DEF At
  <2>4. Start \in Nat
    BY <1>0, <1>2
  <2> QED
    BY <2>1, <2>2, <2>3, <2>4, AlignedApart
<1>3. CASE UNCHANGED mem
  BY <1>1, <1>3 DEF PlaceStep
<1>4. ASSUME NEW s \in stream.sizes, Reserve(s) PROVE PlaceStep(size, x)
  <2> DEFINE v == IF Odd(mem[Word(producer_cursor)].version) THEN mem[Word(producer_cursor)].version
                    ELSE mem[Word(producer_cursor)].version + 1
  <2>1. VersionWritten(producer_cursor, v)
    BY <1>4, ReserveWrites
  <2>2. mem[Word(producer_cursor)].version \in Nat
    BY MemWord DEF TypeOK
  <2>3. Odd(v) /\ mem[Word(producer_cursor)].version <= v
    BY <2>2, NextIsOdd
  <2> HIDE DEF v
  <2>4. CASE Word(x) = Word(producer_cursor)
    BY <1>1, <2>1, <2>3, <2>4 DEF PlaceStep, VersionWritten
  <2>5. CASE Word(x) # Word(producer_cursor)
    BY <1>1, <2>1, <2>5 DEF PlaceStep, VersionWritten
  <2> QED
    BY <2>4, <2>5
<1>5. CASE WriteHeader
  <2>1. ppc = "header" /\ claimed_cursor - Start - 1 = size - 1 /\ Start + 0 = Start
    BY <1>0, <1>5 DEF WriteHeader
  <2>2. Odd(mem[Word(Start)].version)
    BY <2>1 DEF WritingInv
  <2>3. /\ mem'[Word(Start)].length = size - 1
        /\ \A w \in Ring : mem'[w].version = mem[w].version /\ (w # Word(Start) => Same(w))
    BY <1>5, <2>1, HeaderWrites
  <2>4. CASE Word(x) = Word(Start)
    BY <1>1, <2>2, <2>3, <2>4 DEF PlaceStep
  <2>5. CASE Word(x) # Word(Start)
    <3>1. \A i \in 0 .. size - 1 : Word(x + i) # Word(Start)
      BY <1>1, <1>2, <2>1, <2>5
    <3>2. Same(Word(x)) /\ \A i \in 0 .. size - 1 : Same(Word(x + i))
      BY <1>1, <2>3, <2>5, <3>1
    <3> QED
      BY <1>1, <3>2 DEF PlaceStep, Same
  <2> QED
    BY <2>4, <2>5
<1>6. ASSUME NEW j \in unwritten, NEW bits \in PayloadBits, WritePayload(j, bits)
      PROVE  PlaceStep(size, x)
  <2>1. ppc = "payload" /\ claimed_cursor - Start - 1 = size - 1
    BY <1>0, <1>6 DEF WritePayload
  <2>2. Odd(mem[Word(Start)].version)
    BY <2>1 DEF WritingInv
  <2>3. j \in 1 .. size - 1 /\ \A w \in Ring : w # Word(Start + j) => Same(w)
    BY <1>6, <2>1, PayloadWrites
  <2>4. j \in 0 .. size - 1 /\ j # 0
    BY <1>0, <2>3
  <2>5. Word(x + 0) # Word(Start + j)
    BY <1>1, <1>2, <2>1, <2>4
  <2>6. Same(Word(x))
    BY <1>1, <2>3, <2>5
  <2>7. ASSUME ~Odd(mem[Word(x)].version), NEW i \in 0 .. size - 1 PROVE Same(Word(x + i))
    <3>1. Word(x) # Word(Start)
      BY <2>2, <2>7
    <3>2. Word(x + i) # Word(Start + j)
      BY <1>2, <2>1, <2>4, <3>1
    <3> QED
      BY <1>1, <2>3, <3>2
  <2> QED
    BY <1>1, <2>6, <2>7 DEF PlaceStep, Same
<1>7. CASE Seal
  <2>1. VersionWritten(Start, mem[Word(Start)].version + 1)
    BY <1>7, SealWrites
  <2>2. CASE Word(x) = Word(Start)
    BY <1>1, <1>7, <2>1, <2>2 DEF PlaceStep, VersionWritten
  <2>3. CASE Word(x) # Word(Start)
    BY <1>1, <2>1, <2>3 DEF PlaceStep, VersionWritten
  <2> QED
    BY <2>2, <2>3
<1> QED
  BY <1>3, <1>4, <1>5, <1>6, <1>7
     DEF ProducerNext, ProducerStep, Publish, Commit, ProducerDies, AttachProducer

(* A place with an even version holds one message after every step: to     *)
(* write into it the producer first makes the version odd, and its write   *)
(* does not reach any other place.                                         *)
LEMMA PlacesKept ==
  ASSUME TypeOK, LogInv, WritingInv, PlacesInv, ProducerNext
  PROVE  PlacesInv'
<1> USE DEF Writing
<1>1. Keeps /\ UNCHANGED stream
  BY LogStep, ProducerSteps
<1> SUFFICES ASSUME NEW size \in stream.sizes, OfSize(size)
             PROVE  producer_cursor' % size = 0 /\ \A m \in DOMAIN log' : Place(m, size)'
  BY <1>1 DEF PlacesInv, OfSize
<1>2. /\ size \in 1 .. Capacity /\ size \in Nat /\ size > 0 /\ Capacity % size = 0
      /\ producer_cursor \in Nat /\ producer_cursor % size = 0
      /\ \A m \in DOMAIN log : log[m] \in Nat /\ log[m] % size = 0 /\ End(m) = log[m] + size
      /\ ppc \in Writing => claimed_cursor = Start + size /\ Start % size = 0 /\ Start \in Nat
      /\ Len(log) \in Nat /\ DOMAIN log = 1 .. Len(log)
  BY Uniform, LogFacts
<1>3. producer_cursor' % size = 0
  <2>1. CASE UNCHANGED producer_cursor
    BY <1>2, <2>1
  <2>2. CASE Publish
    <3>1. ppc = "publish" /\ producer_cursor' = claimed_cursor
      BY <2>2 DEF Publish
    <3>2. Start = producer_cursor
      BY <3>1 DEF LogInv, Unpublished
    <3>3. producer_cursor' = producer_cursor + size
      BY <1>2, <3>1, <3>2
    <3> QED
      BY <1>2, <3>3, SizesAdd
  <2> QED
    BY <2>1, <2>2 DEF ProducerNext, ProducerStep, Reserve, WriteHeader, Seal, Commit, WritePayload,
       ProducerDies, AttachProducer
<1>4. ASSUME NEW size1 \in stream.sizes, Reserve(size1), NEW m \in DOMAIN log', m \notin DOMAIN log
      PROVE  /\ log'[m] = producer_cursor /\ m = Len(log') /\ ppc' = "header"
             /\ Odd((mem[Word(log[m])].version)')
  <2>1. log'[m] = producer_cursor /\ m = Len(log') /\ ppc' = "header"
    BY <1>2, <1>4, LogGrows DEF Reserve
  <2>2. Odd(mem'[Word(producer_cursor)].version)
    <3>1. mem[Word(producer_cursor)].version \in Nat
      BY <1>2, MemWord
    <3> QED
      BY <1>4, <3>1, ReserveWrites, NextIsOdd DEF VersionWritten
  <2>3. (Word(log[m]))' = Word(producer_cursor)
    BY <2>1, Zenon DEF Word
  <2> QED
    BY <2>1, <2>2, <2>3
<1>5. ASSUME NEW m \in DOMAIN log', m \notin DOMAIN log
      PROVE  \E size1 \in stream.sizes : Reserve(size1)
  <2>1. ~(ProducerDies /\ Unpublished)
    <3>1. ProducerDies /\ Unpublished => DOMAIN log' = 1 .. Len(log) - 1
      BY LogShrinks
    <3> QED
      BY <1>2, <1>5, <3>1
  <2>2. log' # log
    BY <1>5
  <2> QED
    BY <2>1, <2>2, LogStays
<1> SUFFICES ASSUME NEW m \in DOMAIN log', m \in DOMAIN log PROVE Place(m, size)'
  <2> SUFFICES ASSUME NEW m \in DOMAIN log', m \notin DOMAIN log PROVE Place(m, size)'
    BY <1>3
  <2>1. PICK size1 \in stream.sizes : Reserve(size1)
    BY <1>5
  <2>2. /\ log'[m] = producer_cursor /\ m = Len(log') /\ ppc' = "header"
        /\ Odd((mem[Word(log[m])].version)')
    BY <1>4, <2>1
  <2>3. Len(log') \in Nat
    BY <1>2, <2>1, LogGrows
  <2> QED
    BY <1>2, <2>2, <2>3 DEF Place
<1>6. /\ log'[m] = log[m] /\ log[m] \in Nat /\ log[m] % size = 0
      /\ (Word(log[m]))' = Word(log[m]) /\ \A i : (Word(log[m] + i))' = Word(log[m] + i)
  BY <1>1, <1>2 DEF Keeps, Word
<1>7. PlaceStep(size, log[m])
  BY <1>6, PlaceSteps
<1>8. ASSUME m < Len(log') \/ ppc' # "header" PROVE (mem[Word(log[m])].length)' = size - 1
  <2>1. CASE m < Len(log) \/ ppc # "header"
    <3>1. mem[Word(log[m])].length = size - 1
      BY <2>1 DEF PlacesInv, Place
    <3> QED
      BY <1>6, <1>7, <3>1 DEF PlaceStep
  <2>2. CASE ~(m < Len(log) \/ ppc # "header")
    <3>1. m = Len(log) /\ ppc = "header"
      BY <1>2, <2>2
    <3>2. CASE WriteHeader
      <4>1. mem'[Word(Start)].length = size - 1 /\ log[m] = Start
        BY <1>2, <3>1, <3>2, HeaderWrites DEF Start
      <4> QED
        BY <1>6, <4>1
    <3>3. CASE ProducerDies
      <4>1. DOMAIN log' = 1 .. Len(log) - 1
        BY <3>1, <3>3, LogShrinks DEF Unpublished
      <4> QED
        BY <1>2, <3>1, <4>1
    <3> QED
      BY <3>1, <3>2, <3>3 DEF ProducerNext, ProducerStep, Reserve, Publish, Seal, Commit,
         WritePayload, AttachProducer
  <2> QED
    BY <2>1, <2>2
<1>9. ASSUME ~Odd((mem[Word(log[m])].version)')
      PROVE  \E n \in DOMAIN log' :
               /\ Lasting(n)' /\ log'[m] <= log'[n]
               /\ (Word(log[n]) = Word(log[m]))'
               /\ \A i \in 0 .. size - 1 : (mem[Word(log[m] + i)].msg)' = n
  <2>1. CASE ~Odd(mem[Word(log[m])].version)
    <3>1. PICK n \in DOMAIN log :
            /\ Lasting(n) /\ log[m] <= log[n] /\ Word(log[n]) = Word(log[m])
            /\ \A i \in 0 .. size - 1 : mem[Word(log[m] + i)].msg = n
      BY <2>1 DEF PlacesInv, Place
    <3>2. Lasting(n)'
      BY <1>1, <3>1 DEF Keeps
    <3>3. n \in DOMAIN log' /\ log'[n] = log[n]
      BY <1>1, <3>1, <3>2 DEF Keeps, Lasting
    <3>4. \A i \in 0 .. size - 1 : (mem[Word(log[m] + i)].msg)' = n
      BY <1>6, <1>7, <2>1, <3>1 DEF PlaceStep
    <3>5. (Word(log[n]) = Word(log[m]))'
      BY <1>6, <3>1, <3>3 DEF Word
    <3> QED
      BY <1>6, <3>1, <3>2, <3>3, <3>4, <3>5
  <2>2. CASE Odd(mem[Word(log[m])].version)
    <3>1. Seal /\ Word(log[m]) = Word(Start)
      BY <1>6, <1>7, <1>9, <2>2 DEF PlaceStep
    <3>2. PICK n : n = Len(log)
      OBVIOUS
    <3>3. /\ ppc = "payload" /\ ppc' = "commit" /\ UNCHANGED log
          /\ n \in DOMAIN log' /\ n \in Nat /\ Start = log[n]
      BY <3>1, <3>2, OwnWords DEF Seal
    <3>4. Lasting(n)'
      BY <3>3 DEF Lasting, Unpublished
    <3>5. log[m] <= log[n]
      <4>1. CASE m = n
        BY <1>6, <4>1
      <4>2. CASE m < n
        <5>1. End(m) <= log[n] /\ End(m) = log[m] + size
          BY <1>2, <3>3, <4>2 DEF LogInv
        <5> QED
          BY <1>2, <3>3, <5>1
      <4> QED
        BY <1>2, <3>2, <4>1, <4>2
    <3>6. ASSUME NEW i \in 0 .. size - 1 PROVE mem'[Word(log[m] + i)].msg = n
      <4>1. Word(log[m] + i) = Word(Start + i)
        BY <1>2, <1>6, <3>1, <3>3, PlaceWords
      <4>2. Whole(n)'
        <5>1. Whole(Len(log))'
          BY <3>1, SealedIsWhole
        <5> QED
          BY <3>2, <3>3, <5>1 DEF Whole, End, Claim, Unpublished
      <4>3. (Word(log[n] + i))' = Word(Start + i) /\ End(n)' = log[n] + size /\ log'[n] = log[n]
        <5>1. End(n)' = End(n)
          BY <1>1, <3>3 DEF Keeps
        <5> QED
          BY <1>2, <3>3, <5>1 DEF Word
      <4>4. i \in 0 .. (End(n) - log[n] - 1)'
        BY <1>2, <3>3, <4>3
      <4> QED
        BY <4>1, <4>2, <4>3, <4>4 DEF Whole
    <3>7. (Word(log[n]) = Word(log[m]))'
      BY <3>1, <3>3 DEF Word
    <3> QED
      BY <1>6, <3>3, <3>4, <3>5, <3>6, <3>7
  <2> QED
    BY <2>1, <2>2
<1> QED
  BY <1>6, <1>8, <1>9 DEF Place

(* A copy that goes on under one even version is not touched: a write to   *)
(* its place has made the version odd, and versions never fall.            *)
LEMMA CopyKeptProducer ==
  ASSUME TypeOK, LogInv, WritingInv, PlacesInv, PositionInv, CopyInv, ProducerNext
  PROVE  CopyInv'
<1>1. Keeps /\ UNCHANGED <<stream, rpc, api, current, version_before, uncopied, seen>>
  BY LogStep, ProducerSteps DEF reader
<1> SUFFICES ASSUME NEW size \in stream.sizes, OfSize(size), NEW r \in Readers,
                    api[r] # "PollZeroCopy"
             PROVE  /\ rpc[r] \in {"length", "payload"} =>
                         ~Odd(version_before[r]) /\ version_before[r] <= Frame(r)'.version
                    /\ rpc[r] = "payload" =>
                         /\ uncopied[r] \subseteq 1 .. size - 1
                         /\ version_before[r] = Frame(r)'.version => seen[r] = {Frame(r)'.msg}
                    /\ rpc[r] = "deliver" =>
                         \E n \in DOMAIN log' :
                           /\ Lasting(n)' /\ seen[r] = {n} /\ current[r] <= log'[n]
                           /\ (Word(log[n]))' = Word(current[r])
  BY <1>1 DEF CopyInv, Copy, OfSize, Odd, Word
<1>2. Frame(r)' = mem'[Word(current[r])]
  BY <1>1 DEF Frame, Word
<1>3. /\ version_before[r] \in Nat /\ current[r] \in Nat
      /\ \A x \in Nat : mem[Word(x)].version \in Nat
      /\ size \in Nat /\ size > 0
  <2>1. size \in Nat /\ size > 0
    BY Uniform
  <2>2. \A x \in Nat : mem[Word(x)].version \in Nat
    BY MemWord
  <2> QED
    BY <2>1, <2>2 DEF TypeOK
<1>4. Guarded(r)
  BY DEF Guarded
<1>5. ASSUME rpc[r] \in {"length", "payload"}
      PROVE  PlaceStep(size, current[r])
  <2>1. Boundary(current[r])
    BY <1>4, <1>5 DEF PositionInv, Position
  <2>2. current[r] % size = 0
    BY <2>1, Uniform DEF Boundary
  <2> QED
    BY <1>3, <2>2, PlaceSteps
<1>6. ASSUME rpc[r] \in {"length", "payload"}
      PROVE  ~Odd(version_before[r]) /\ version_before[r] <= Frame(r)'.version
  <2>1. ~Odd(version_before[r]) /\ version_before[r] <= mem[Word(current[r])].version
    BY <1>6 DEF CopyInv, Copy, Frame
  <2>2. mem[Word(current[r])].version <= mem'[Word(current[r])].version
    BY <1>5, <1>6 DEF PlaceStep
  <2>3. mem[Word(current[r])].version \in Nat /\ mem'[Word(current[r])].version \in Nat
    <3>1. TypeOK'
      BY TypeStepProducer
    <3>2. mem' \in [Ring -> Headers]
      BY <3>1 DEF TypeOK, Ring, Headers
    <3> QED
      BY <1>3, <3>2, MemWord DEF Headers
  <2> QED
    BY <1>2, <1>3, <2>1, <2>2, <2>3
<1>7. ASSUME rpc[r] = "payload", version_before[r] = Frame(r)'.version
      PROVE  seen[r] = {Frame(r)'.msg}
  <2>1. PlaceStep(size, current[r])
    BY <1>5, <1>7
  <2>2. ~Odd(version_before[r]) /\ version_before[r] <= mem[Word(current[r])].version
    BY <1>7 DEF CopyInv, Copy, Frame
  <2>3. mem[Word(current[r])].version = version_before[r]
    BY <1>2, <1>3, <1>7, <2>1, <2>2 DEF PlaceStep
  <2>4. seen[r] = {mem[Word(current[r])].msg}
    BY <1>7, <2>3 DEF CopyInv, Copy, Frame
  <2>5. mem'[Word(current[r])].msg = mem[Word(current[r])].msg
    <3>1. 0 \in 0 .. size - 1 /\ current[r] + 0 = current[r]
      BY <1>3
    <3>2. \A i \in 0 .. size - 1 :
            mem'[Word(current[r] + i)].msg = mem[Word(current[r] + i)].msg
      BY <2>1, <2>2, <2>3 DEF PlaceStep
    <3>3. mem'[Word(current[r] + 0)].msg = mem[Word(current[r] + 0)].msg
      BY <3>1, <3>2
    <3> QED
      BY <3>1, <3>3
  <2> QED
    BY <1>2, <2>4, <2>5
<1>8. ASSUME rpc[r] = "deliver"
      PROVE  \E n \in DOMAIN log' :
               /\ Lasting(n)' /\ seen[r] = {n} /\ current[r] <= log'[n]
               /\ (Word(log[n]))' = Word(current[r])
  <2>1. PICK n \in DOMAIN log :
          /\ Lasting(n) /\ seen[r] = {n} /\ current[r] <= log[n]
          /\ Word(log[n]) = Word(current[r])
    BY <1>8 DEF CopyInv, Copy
  <2>2. Lasting(n)'
    BY <1>1, <2>1 DEF Keeps
  <2>3. n \in DOMAIN log' /\ log'[n] = log[n]
    BY <1>1, <2>1, <2>2 DEF Keeps, Lasting
  <2>4. (Word(log[n]))' = Word(log[n])
    BY <2>3 DEF Word
  <2> QED
    BY <2>1, <2>2, <2>3, <2>4
<1>9. rpc[r] = "payload" => uncopied[r] \subseteq 1 .. size - 1
  BY DEF CopyInv, Copy
<1> QED
  BY <1>6, <1>7, <1>8, <1>9

-----------------------------------------------------------------------------
(* The readers' own steps.                                                 *)

(* A reader's step leaves the other readers' variables alone.              *)
LEMMA OtherReaders ==
  ASSUME TypeOK, NEW r \in Readers, ReaderNext(r), NEW s \in Readers, s # r
  PROVE  /\ cursor'[s] = cursor[s] /\ rpc'[s] = rpc[s] /\ api'[s] = api[s]
         /\ current'[s] = current[s] /\ limit'[s] = limit[s]
         /\ version_before'[s] = version_before[s] /\ length'[s] = length[s]
         /\ uncopied'[s] = uncopied[s] /\ seen'[s] = seen[s]
<1> DEFINE Kept == /\ cursor'[s] = cursor[s] /\ rpc'[s] = rpc[s] /\ api'[s] = api[s]
                   /\ current'[s] = current[s] /\ limit'[s] = limit[s]
                   /\ version_before'[s] = version_before[s] /\ length'[s] = length[s]
                   /\ uncopied'[s] = uncopied[s] /\ seen'[s] = seen[s]
<1>0. ReaderTypes
  BY TypeGroups
<1> USE <1>0 DEF ReaderTypes
<1>c. ASSUME NEW c, Done(r, c) PROVE Kept
  BY <1>c DEF Done
<1>1. ASSUME NEW function \in Functions, Poll(r, function) PROVE Kept
  BY <1>1 DEF Poll
<1>2. ASSUME CheckLapped(r) PROVE Kept
  BY <1>2, <1>c DEF CheckLapped
<1>3. ASSUME LoadVersion(r) PROVE Kept
  BY <1>3 DEF LoadVersion
<1>4. ASSUME GiveUp(r) PROVE Kept
  BY <1>4, <1>c DEF GiveUp
<1>5. ASSUME LoadHeader(r) PROVE Kept
  BY <1>5, <1>c DEF LoadHeader
<1>6. ASSUME NEW i \in uncopied[r], LoadPayload(r, i) PROVE Kept
  BY <1>6 DEF LoadPayload
<1>7. ASSUME Verify(r) PROVE Kept
  BY <1>7 DEF Verify
<1>8. ASSUME Advance(r) PROVE Kept
  BY <1>8, <1>c DEF Advance
<1>9. ASSUME BatchEnds(r) PROVE Kept
  BY <1>9, <1>c DEF BatchEnds
<1>10. ASSUME BatchContinues(r) PROVE Kept
  BY <1>10 DEF BatchContinues
<1> QED
  BY <1>1, <1>2, <1>3, <1>4, <1>5, <1>6, <1>7, <1>8, <1>9, <1>10 DEF ReaderNext, ReaderStep

(* What the ring looks like does not depend on the readers.                *)
RingKept ==
  /\ UNCHANGED <<stream, members, mem, producer_cursor, commit_cursor, log, ppc, claimed_cursor>>
  /\ Claim' = Claim
  /\ \A m : End(m)' = End(m) /\ (Sealed(m)' <=> Sealed(m)) /\ (Whole(m)' <=> Whole(m))
            /\ (Lasting(m)' <=> Lasting(m))
  /\ \A p : (Boundary(p)' <=> Boundary(p)) /\ Word(p)' = Word(p)

(* What is said of the ring alone holds after a reader's step.             *)
LEMMA RingStays ==
  ASSUME UNCHANGED <<stream, producer>>, UNCHANGED members
  PROVE  RingKept
<1>1. UNCHANGED <<stream, members, mem, producer_cursor, commit_cursor, log, ppc, claimed_cursor>>
  BY DEF producer
<1>2. Claim' = Claim
  BY <1>1 DEF Claim, Unpublished
<1>3. \A m : End(m)' = End(m)
  BY <1>1, <1>2 DEF End
<1>4. \A m : (Sealed(m)' <=> Sealed(m)) /\ (Lasting(m)' <=> Lasting(m))
  BY <1>1, <1>3 DEF Sealed, Lasting, Unpublished
<1>5. \A m : Whole(m)' <=> Whole(m)
  BY <1>1, <1>3 DEF Whole, Word
<1>6. \A p : (Boundary(p)' <=> Boundary(p)) /\ Word(p)' = Word(p)
  BY <1>1 DEF Boundary, Word
<1> QED
  BY <1>1, <1>2, <1>3, <1>4, <1>5, <1>6 DEF RingKept

(* A guarded reader in a call is at a committed frame, and its header has  *)
(* the frame's length.                                                     *)
LEMMA ReaderFrame ==
  ASSUME TypeOK, LogInv, PositionInv, MemberInv, PlacesInv,
         NEW r \in Readers, Guarded(r), rpc[r] # "idle"
  PROVE  \E m \in DOMAIN log :
           /\ log[m] = current[r] /\ log[m] < commit_cursor
           /\ Frame(r).length = End(m) - log[m] - 1
           /\ End(m) \in Nat /\ log[m] < End(m) /\ End(m) <= limit[r] /\ End(m) <= commit_cursor
           /\ Boundary(End(m)) /\ Sealed(m) /\ Lasting(m)
           /\ (Holeless /\ r \in members => Whole(m))
           /\ {n \in DOMAIN log : log[n] = current[r]} = {m}
<1>1. /\ cursor[r] <= current[r] /\ current[r] < limit[r] /\ limit[r] <= commit_cursor
      /\ Boundary(current[r]) /\ Boundary(limit[r])
      /\ current[r] \in Nat /\ limit[r] \in Nat /\ commit_cursor \in Nat /\ producer_cursor \in Nat
      /\ commit_cursor <= producer_cursor /\ cursor[r] \in Nat
  BY DEF PositionInv, Position, TypeOK, LogInv
<1>2. PICK m \in DOMAIN log : log[m] = current[r]
  BY <1>1 DEF Boundary
<1>3. log[m] < commit_cursor
  BY <1>1, <1>2
<1>4. /\ End(m) <= commit_cursor /\ Sealed(m) /\ Boundary(End(m)) /\ Lasting(m)
      /\ (m < Len(log) \/ ppc # "header")
      /\ \A n \in DOMAIN log : log[n] = log[m] => n = m
  BY <1>3, AtFrame
<1>5. End(m) \in Nat /\ log[m] < End(m) /\ End(m) <= limit[r] /\ End(m) - log[m] \in stream.sizes
  BY <1>1, <1>2, FramesInOrder
<1>6. Holeless /\ r \in members => Whole(m)
  BY <1>1, <1>2, <1>4 DEF MemberInv, Member
<1>7. Frame(r).length = End(m) - log[m] - 1
  <2>1. CASE Holeless /\ r \in members
    BY <1>2, <1>6, <2>1 DEF Whole, Frame
  <2>2. ASSUME NEW size \in stream.sizes, OfSize(size)
        PROVE  Frame(r).length = End(m) - log[m] - 1
    <3>1. mem[Word(log[m])].length = size - 1
      BY <1>4, <2>2 DEF PlacesInv, Place
    <3>2. End(m) - log[m] = size
      BY <1>5, <2>2 DEF OfSize
    <3> QED
      BY <1>2, <3>1, <3>2 DEF Frame
  <2> QED
    BY <2>1, <2>2 DEF Guarded
<1>8. {n \in DOMAIN log : log[n] = current[r]} = {m}
  BY <1>2, <1>4
<1> QED
  BY <1>2, <1>3, <1>4, <1>5, <1>6, <1>7, <1>8

(* The reader that moves goes from one boundary to the next.               *)
LEMMA PositionStep ==
  ASSUME TypeOK, LogInv, PositionInv, MemberInv, PlacesInv,
         NEW r \in Readers, ReaderNext(r), Guarded(r)
  PROVE  Position(r)'
<1>0. ReaderTypes
  BY TypeGroups
<1> USE <1>0 DEF ReaderTypes
<1>1. RingKept
  BY ReaderSteps, RingStays
<1>2. Position(r)' <=>
        /\ cursor'[r] <= commit_cursor /\ Boundary(cursor'[r])
        /\ rpc'[r] # "idle" =>
             /\ cursor'[r] <= current'[r] /\ current'[r] < limit'[r] /\ limit'[r] <= commit_cursor
             /\ Boundary(current'[r]) /\ Boundary(limit'[r])
        /\ rpc'[r] \in {"payload", "deliver"} =>
             \E m \in DOMAIN log : log[m] = current'[r] /\ length'[r] = End(m) - log[m] - 1
  BY <1>1 DEF Position, RingKept, Boundary
<1>3. /\ commit_cursor \in Nat /\ cursor[r] \in Nat /\ current[r] \in Nat /\ limit[r] \in Nat
      /\ cursor[r] <= commit_cursor /\ Boundary(cursor[r])
      /\ Boundary(commit_cursor)
  BY DEF PositionInv, Position, TypeOK, LogInv
<1>4. ASSUME rpc[r] # "idle"
      PROVE  /\ cursor[r] <= current[r] /\ current[r] < limit[r] /\ limit[r] <= commit_cursor
             /\ Boundary(current[r]) /\ Boundary(limit[r]) /\ current[r] <= commit_cursor
  BY <1>3, <1>4 DEF PositionInv, Position
<1>5. ASSUME rpc[r] \in {"payload", "deliver"}
      PROVE  \E m \in DOMAIN log : log[m] = current[r] /\ length[r] = End(m) - log[m] - 1
  BY <1>5 DEF PositionInv, Position
<1>6. ASSUME NEW c, Done(r, c), c <= commit_cursor, Boundary(c) PROVE Position(r)'
  BY <1>2, <1>6 DEF Done
<1>7. ASSUME rpc[r] # "idle"
      PROVE  \E m \in DOMAIN log :
               /\ log[m] = current[r] /\ log[m] \in Nat /\ Frame(r).length = End(m) - log[m] - 1
               /\ End(m) \in Nat /\ log[m] < End(m) /\ End(m) <= limit[r] /\ End(m) <= commit_cursor
               /\ Boundary(End(m))
               /\ current[r] + 1 + Frame(r).length = End(m)
  <2>1. PICK m \in DOMAIN log :
          /\ log[m] = current[r] /\ Frame(r).length = End(m) - log[m] - 1
          /\ End(m) \in Nat /\ log[m] < End(m) /\ End(m) <= limit[r] /\ End(m) <= commit_cursor
          /\ Boundary(End(m))
    BY <1>7, ReaderFrame
  <2>2. current[r] + 1 + Frame(r).length = End(m) /\ log[m] \in Nat
    BY <1>3, <2>1
  <2> QED
    BY <2>1, <2>2
<1>8. ASSUME NEW function \in Functions, Poll(r, function) PROVE Position(r)'
  BY <1>2, <1>3, <1>8 DEF Poll
<1>9. ASSUME CheckLapped(r) PROVE Position(r)'
  <2>1. rpc[r] = "prod"
    BY <1>9 DEF CheckLapped
  <2>2. CASE producer_cursor - current[r] > Capacity
    BY <1>4, <1>6, <1>9, <2>1, <2>2 DEF CheckLapped
  <2>3. CASE ~(producer_cursor - current[r] > Capacity)
    BY <1>2, <1>3, <1>4, <1>9, <2>1, <2>3 DEF CheckLapped
  <2> QED
    BY <2>2, <2>3
<1>10. ASSUME LoadVersion(r) PROVE Position(r)'
  BY <1>2, <1>3, <1>4, <1>10 DEF LoadVersion
<1>11. ASSUME GiveUp(r) PROVE Position(r)'
  BY <1>4, <1>6, <1>11 DEF GiveUp
<1>12. ASSUME LoadHeader(r) PROVE Position(r)'
  <2>1. rpc[r] = "length"
    BY <1>12 DEF LoadHeader
  <2>2. CASE Frame(r).length > Capacity
    BY <1>4, <1>6, <1>12, <2>1, <2>2 DEF LoadHeader
  <2>3. CASE ~(Frame(r).length > Capacity)
    <3>1. rpc'[r] = "payload" /\ length'[r] = Frame(r).length
          /\ UNCHANGED <<cursor, current, limit>>
      BY <1>12, <2>3 DEF LoadHeader
    <3> QED
      BY <1>2, <1>3, <1>4, <1>7, <2>1, <3>1
  <2> QED
    BY <2>2, <2>3
<1>13. ASSUME NEW i \in uncopied[r], LoadPayload(r, i) PROVE Position(r)'
  BY <1>2, <1>3, <1>4, <1>5, <1>13 DEF LoadPayload
<1>14. ASSUME Verify(r) PROVE Position(r)'
  BY <1>2, <1>3, <1>4, <1>5, <1>14 DEF Verify
<1>15. ASSUME Advance(r) PROVE Position(r)'
  <2>1. rpc[r] = "deliver"
    BY <1>15 DEF Advance
  <2>2. PICK m \in DOMAIN log : log[m] = current[r] /\ length[r] = End(m) - log[m] - 1
    BY <1>5, <2>1
  <2>3. PICK k \in DOMAIN log :
          log[k] = current[r] /\ End(k) \in Nat /\ End(k) <= commit_cursor /\ Boundary(End(k))
          /\ {n \in DOMAIN log : log[n] = current[r]} = {k}
    BY <2>1, ReaderFrame
  <2>4. m = k
    BY <2>2, <2>3
  <2>5. current[r] + 1 + length[r] = End(m)
    BY <1>3, <2>2, <2>3, <2>4
  <2> QED
    BY <1>6, <1>15, <2>3, <2>4, <2>5 DEF Advance
<1>16. ASSUME BatchEnds(r) PROVE Position(r)'
  BY <1>6, <1>7, <1>16 DEF BatchEnds
<1>17. ASSUME BatchContinues(r) PROVE Position(r)'
  <2>1. rpc[r] = "deliver" /\ rpc'[r] = "prod" /\ UNCHANGED <<cursor, limit>>
        /\ current'[r] = current[r] + 1 + Frame(r).length /\ current'[r] < limit[r]
    BY <1>17 DEF BatchContinues
  <2>2. PICK m \in DOMAIN log :
          /\ log[m] = current[r] /\ log[m] \in Nat /\ End(m) \in Nat /\ log[m] < End(m)
          /\ Boundary(End(m)) /\ current[r] + 1 + Frame(r).length = End(m)
    BY <1>7, <2>1
  <2> QED
    BY <1>2, <1>3, <1>4, <2>1, <2>2
<1> QED
  BY <1>8, <1>9, <1>10, <1>11, <1>12, <1>13, <1>14, <1>15, <1>16, <1>17 DEF ReaderNext, ReaderStep

(* A reader's step keeps PositionInv.                                      *)
LEMMA PositionKeptReader ==
  ASSUME TypeOK, LogInv, PositionInv, MemberInv, PlacesInv, NEW r \in Readers, ReaderNext(r)
  PROVE  PositionInv'
<1>1. RingKept
  BY ReaderSteps, RingStays
<1> SUFFICES ASSUME NEW s \in Readers, Guarded(s) PROVE Position(s)'
  BY <1>1 DEF PositionInv, Guarded, Holeless, OfSize, RingKept
<1>2. CASE s = r
  BY <1>2, PositionStep
<1>3. CASE s # r
  <2>1. cursor'[s] = cursor[s] /\ rpc'[s] = rpc[s] /\ current'[s] = current[s]
        /\ limit'[s] = limit[s] /\ length'[s] = length[s]
    BY <1>3, OtherReaders
  <2>2. Position(s)
    BY DEF PositionInv
  <2> QED
    BY <1>1, <2>1, <2>2 DEF Position, RingKept, Boundary
<1> QED
  BY <1>2, <1>3

(* A member copies only whole frames.                                      *)
LEMMA MemberStep ==
  ASSUME TypeOK, LogInv, PositionInv, MemberInv, PlacesInv,
         NEW r \in Readers, ReaderNext(r), Holeless, r \in members
  PROVE  Member(r)'
<1>0. ReaderTypes
  BY TypeGroups
<1> USE <1>0 DEF ReaderTypes
<1>1. RingKept
  BY ReaderSteps, RingStays
<1>2. Member(r) /\ Guarded(r)
  BY DEF MemberInv, Guarded
<1>3. /\ cursor[r] \in Nat /\ current[r] \in Nat /\ length[r] \in Nat /\ Frame(r).length \in Nat
      /\ Claim \in Nat /\ Capacity \in Nat /\ \A m \in DOMAIN log : log[m] \in Nat
  <2>1. cursor[r] \in Nat /\ current[r] \in Nat /\ length[r] \in Nat /\ Claim \in Nat
    BY DEF TypeOK, Claim
  <2>2. Frame(r).length \in Nat
    BY <2>1, MemWord DEF Frame
  <2> QED
    BY <2>1, <2>2, Sizes, LogFacts
<1>4. rpc[r] # "idle" => cursor[r] <= current[r]
  BY <1>2 DEF PositionInv, Position
<1>5. ASSUME cursor'[r] \in Nat, cursor[r] <= cursor'[r],
             rpc'[r] \in {"payload", "deliver"} =>
               seen'[r] = {m \in DOMAIN log : log[m] = current'[r]},
             rpc'[r] = "payload" => uncopied'[r] \subseteq 1 .. length'[r]
      PROVE  Member(r)'
  <2>1. Claim' <= cursor'[r] + Capacity
    BY <1>1, <1>2, <1>3, <1>5 DEF Member, RingKept
  <2>2. \A m \in DOMAIN log' : Sealed(m)' /\ cursor'[r] <= log'[m] => Whole(m)'
    BY <1>1, <1>2, <1>3, <1>5 DEF Member, RingKept
  <2> QED
    BY <1>1, <1>5, <2>1, <2>2 DEF Member, RingKept
<1>6. ASSUME NEW c \in Nat, Done(r, c), cursor[r] <= c PROVE Member(r)'
  BY <1>5, <1>6 DEF Done
<1>7. ASSUME UNCHANGED cursor, rpc'[r] \notin {"payload", "deliver"} PROVE Member(r)'
  BY <1>3, <1>5, <1>7
<1>8. ASSUME rpc[r] # "idle"
      PROVE  \E m \in DOMAIN log :
               /\ log[m] = current[r] /\ Whole(m) /\ Frame(r).length = End(m) - log[m] - 1
               /\ {n \in DOMAIN log : log[n] = current[r]} = {m}
  BY <1>2, <1>8, ReaderFrame
<1>9. ASSUME NEW function \in Functions, Poll(r, function) PROVE Member(r)'
  BY <1>7, <1>9 DEF Poll
<1>10. ASSUME CheckLapped(r) PROVE Member(r)'
  BY <1>3, <1>4, <1>6, <1>7, <1>10 DEF CheckLapped
<1>11. ASSUME LoadVersion(r) PROVE Member(r)'
  BY <1>7, <1>11 DEF LoadVersion
<1>12. ASSUME GiveUp(r) PROVE Member(r)'
  BY <1>3, <1>4, <1>6, <1>12 DEF GiveUp
<1>13. ASSUME LoadHeader(r) PROVE Member(r)'
  <2>1. rpc[r] = "length"
    BY <1>13 DEF LoadHeader
  <2>2. CASE Frame(r).length > Capacity
    BY <1>3, <1>4, <1>6, <1>13, <2>1, <2>2 DEF LoadHeader
  <2>3. CASE ~(Frame(r).length > Capacity)
    <3>1. /\ rpc'[r] = "payload" /\ length'[r] = Frame(r).length /\ UNCHANGED <<cursor, current>>
          /\ uncopied'[r] = 1 .. Frame(r).length /\ seen'[r] = {Frame(r).msg}
      BY <1>13, <2>3 DEF LoadHeader
    <3>2. PICK m \in DOMAIN log :
            /\ log[m] = current[r] /\ Whole(m) /\ End(m) \in Nat /\ log[m] < End(m)
            /\ {n \in DOMAIN log : log[n] = current[r]} = {m}
      BY <1>8, <2>1, FramesInOrder
    <3>3. 0 \in 0 .. End(m) - log[m] - 1 /\ log[m] + 0 = log[m]
      BY <1>3, <3>2
    <3>4. Frame(r).msg = m
      BY <3>2, <3>3 DEF Whole, Frame
    <3> QED
      BY <1>3, <1>5, <3>1, <3>2, <3>4
  <2> QED
    BY <2>2, <2>3
<1>14. ASSUME NEW i \in uncopied[r], LoadPayload(r, i) PROVE Member(r)'
  <2>1. /\ rpc[r] = "payload" /\ UNCHANGED <<cursor, current, length, rpc>>
        /\ uncopied'[r] = uncopied[r] \ {i}
        /\ seen'[r] = seen[r] \cup {mem[Word(current[r] + i)].msg}
    BY <1>14 DEF LoadPayload
  <2>2. PICK m \in DOMAIN log :
          /\ log[m] = current[r] /\ Whole(m)
          /\ {n \in DOMAIN log : log[n] = current[r]} = {m}
    BY <1>8, <2>1
  <2>3. length[r] = End(m) - log[m] - 1
    BY <1>2, <2>1, <2>2 DEF PositionInv, Position
  <2>4. i \in 1 .. length[r] /\ uncopied[r] \subseteq 1 .. length[r] /\ seen[r] = {m}
    BY <1>2, <2>1, <2>2 DEF Member
  <2>5. i \in 0 .. End(m) - log[m] - 1
    BY <1>3, <2>3, <2>4
  <2>6. mem[Word(current[r] + i)].msg = m
    BY <2>2, <2>5 DEF Whole
  <2> QED
    BY <1>3, <1>5, <2>1, <2>2, <2>4, <2>6
<1>15. ASSUME Verify(r) PROVE Member(r)'
  <2>1. rpc[r] = "payload" /\ UNCHANGED <<cursor, current, length, seen, uncopied>>
        /\ rpc'[r] \in {"deliver", "prod"}
    BY <1>15 DEF Verify
  <2>2. seen[r] = {m \in DOMAIN log : log[m] = current[r]}
    BY <1>2, <2>1 DEF Member
  <2> QED
    BY <1>3, <1>5, <2>1, <2>2
<1>16. ASSUME Advance(r) PROVE Member(r)'
  <2>1. current[r] + 1 + length[r] \in Nat /\ cursor[r] <= current[r] + 1 + length[r]
    BY <1>3, <1>4, <1>16 DEF Advance
  <2> QED
    BY <1>6, <1>16, <2>1 DEF Advance
<1>17. ASSUME BatchEnds(r) PROVE Member(r)'
  <2>1. current[r] + 1 + Frame(r).length \in Nat /\ cursor[r] <= current[r] + 1 + Frame(r).length
    BY <1>3, <1>4, <1>17 DEF BatchEnds
  <2> QED
    BY <1>6, <1>17, <2>1 DEF BatchEnds
<1>18. ASSUME BatchContinues(r) PROVE Member(r)'
  BY <1>7, <1>18 DEF BatchContinues
<1> QED
  BY <1>9, <1>10, <1>11, <1>12, <1>13, <1>14, <1>15, <1>16, <1>17, <1>18 DEF ReaderNext, ReaderStep

(* A reader's step keeps MemberInv.                                        *)
LEMMA MemberKeptReader ==
  ASSUME TypeOK, LogInv, PositionInv, MemberInv, PlacesInv, NEW r \in Readers, ReaderNext(r)
  PROVE  MemberInv'
<1>1. RingKept
  BY ReaderSteps, RingStays
<1> SUFFICES ASSUME Holeless, NEW s \in members PROVE Member(s)'
  BY <1>1 DEF MemberInv, Holeless, RingKept
<1>2. CASE s = r
  BY <1>2, MemberStep
<1>3. CASE s # r
  <2>1. s \in Readers
    BY DEF TypeOK
  <2>2. cursor'[s] = cursor[s] /\ rpc'[s] = rpc[s] /\ current'[s] = current[s]
        /\ length'[s] = length[s] /\ uncopied'[s] = uncopied[s] /\ seen'[s] = seen[s]
    BY <1>3, <2>1, OtherReaders
  <2>3. Member(s)
    BY DEF MemberInv
  <2> QED
    BY <1>1, <2>2, <2>3 DEF Member, RingKept
<1> QED
  BY <1>2, <1>3

(* A copy that Verify accepts was made under one even version.             *)
LEMMA CopyStep ==
  ASSUME TypeOK, LogInv, PositionInv, MemberInv, PlacesInv, CopyInv,
         NEW r \in Readers, ReaderNext(r),
         NEW size \in stream.sizes, OfSize(size), api'[r] # "PollZeroCopy"
  PROVE  Copy(r, size)'
<1>0. ReaderTypes
  BY TypeGroups
<1> USE <1>0 DEF ReaderTypes
<1>1. RingKept
  BY ReaderSteps, RingStays
<1>2. Guarded(r) /\ size \in Nat /\ size > 0 /\ current[r] \in Nat
  BY Uniform DEF Guarded
<1>3. Copy(r, size)' <=>
        /\ rpc'[r] \in {"length", "payload"} =>
             /\ ~Odd(version_before'[r])
             /\ version_before'[r] <= mem[Word(current'[r])].version
        /\ rpc'[r] = "payload" =>
             /\ uncopied'[r] \subseteq 1 .. size - 1
             /\ version_before'[r] = mem[Word(current'[r])].version =>
                  seen'[r] = {mem[Word(current'[r])].msg}
        /\ rpc'[r] = "deliver" =>
             \E n \in DOMAIN log :
               /\ Lasting(n) /\ seen'[r] = {n} /\ current'[r] <= log[n]
               /\ Word(log[n]) = Word(current'[r])
  BY <1>1 DEF Copy, RingKept, Frame, Odd, Word
<1>4. ASSUME api[r] # "PollZeroCopy"
      PROVE  Copy(r, size)
  BY <1>4 DEF CopyInv
<1>5. ASSUME rpc'[r] \notin {"length", "payload", "deliver"} PROVE Copy(r, size)'
  BY <1>3, <1>5
<1>6. ASSUME NEW c, Done(r, c) PROVE Copy(r, size)'
  BY <1>5, <1>6 DEF Done
<1>7. ASSUME rpc[r] # "idle"
      PROVE  \E m \in DOMAIN log :
               /\ log[m] = current[r] /\ Frame(r).length = size - 1
               /\ mem[Word(current[r])].version \in Nat
               /\ ~Odd(mem[Word(current[r])].version) =>
                    \E n \in DOMAIN log :
                      /\ Lasting(n) /\ log[m] <= log[n] /\ Word(log[n]) = Word(log[m])
                      /\ \A i \in 0 .. size - 1 : mem[Word(log[m] + i)].msg = n
  <2>1. PICK m \in DOMAIN log : log[m] = current[r] /\ Frame(r).length = End(m) - log[m] - 1
    BY <1>2, <1>7, ReaderFrame
  <2>2. End(m) = log[m] + size /\ log[m] \in Nat
    BY Uniform
  <2>3. Frame(r).length = size - 1
    BY <1>2, <2>1, <2>2
  <2>4. mem[Word(current[r])].version \in Nat
    BY <1>2, MemWord
  <2> QED
    BY <2>1, <2>3, <2>4 DEF PlacesInv, Place
<1>8. ASSUME NEW function \in Functions, Poll(r, function) PROVE Copy(r, size)'
  BY <1>5, <1>8 DEF Poll
<1>9. ASSUME CheckLapped(r) PROVE Copy(r, size)'
  <2>1. CASE producer_cursor - current[r] > Capacity
    BY <1>6, <1>9, <2>1 DEF CheckLapped
  <2>2. CASE ~(producer_cursor - current[r] > Capacity)
    <3>1. rpc'[r] = "before"
      BY <1>9, <2>2 DEF CheckLapped
    <3> QED
      BY <1>5, <3>1
  <2> QED
    BY <2>1, <2>2
<1>10. ASSUME LoadVersion(r) PROVE Copy(r, size)'
  <2>1. CASE Odd(Frame(r).version)
    BY <1>5, <1>10, <2>1 DEF LoadVersion
  <2>2. CASE ~Odd(Frame(r).version)
    <3>1. rpc'[r] = "length" /\ version_before'[r] = mem[Word(current[r])].version /\ UNCHANGED current
      BY <1>10, <2>2 DEF LoadVersion, Frame
    <3>2. mem[Word(current[r])].version \in Nat
      BY <1>2, MemWord
    <3> QED
      BY <1>3, <2>2, <3>1, <3>2 DEF Frame
  <2> QED
    BY <2>1, <2>2
<1>11. ASSUME GiveUp(r) PROVE Copy(r, size)'
  BY <1>6, <1>11 DEF GiveUp
<1>12. ASSUME LoadHeader(r) PROVE Copy(r, size)'
  <2>1. rpc[r] = "length"
    BY <1>12 DEF LoadHeader
  <2>2. CASE Frame(r).length > Capacity
    BY <1>6, <1>12, <2>2 DEF LoadHeader
  <2>3. CASE ~(Frame(r).length > Capacity)
    <3>1. /\ rpc'[r] = "payload" /\ UNCHANGED <<api, current, version_before>>
          /\ uncopied'[r] = 1 .. Frame(r).length /\ seen'[r] = {Frame(r).msg}
      BY <1>12, <2>3 DEF LoadHeader
    <3>2. /\ ~Odd(version_before[r]) /\ version_before[r] <= mem[Word(current[r])].version
      BY <1>4, <2>1, <3>1 DEF Copy, Frame
    <3>3. Frame(r).length = size - 1
      BY <1>7, <2>1
    <3> QED
      BY <1>3, <3>1, <3>2, <3>3 DEF Frame
  <2> QED
    BY <2>2, <2>3
<1>13. ASSUME NEW i \in uncopied[r], LoadPayload(r, i) PROVE Copy(r, size)'
  <2>1. /\ rpc[r] = "payload" /\ UNCHANGED <<rpc, api, current, version_before>>
        /\ uncopied'[r] = uncopied[r] \ {i}
        /\ seen'[r] = seen[r] \cup {mem[Word(current[r] + i)].msg}
    BY <1>13 DEF LoadPayload
  <2>2. /\ ~Odd(version_before[r]) /\ version_before[r] <= mem[Word(current[r])].version
        /\ uncopied[r] \subseteq 1 .. size - 1
        /\ version_before[r] = mem[Word(current[r])].version =>
             seen[r] = {mem[Word(current[r])].msg}
    BY <1>4, <2>1 DEF Copy, Frame
  <2>3. ASSUME version_before[r] = mem[Word(current[r])].version
        PROVE  seen'[r] = {mem[Word(current[r])].msg}
    <3>1. PICK n \in DOMAIN log :
            \A j \in 0 .. size - 1 : mem[Word(current[r] + j)].msg = n
      BY <1>7, <2>1, <2>2, <2>3
    <3>2. /\ 0 \in 0 .. size - 1 /\ current[r] + 0 = current[r]
          /\ i \in 0 .. size - 1
      BY <1>2, <2>2
    <3>3. mem[Word(current[r] + 0)].msg = n /\ mem[Word(current[r] + i)].msg = n
      BY <3>1, <3>2
    <3> QED
      BY <2>1, <2>2, <2>3, <3>2, <3>3
  <2> QED
    BY <1>3, <2>1, <2>2, <2>3
<1>14. ASSUME Verify(r) PROVE Copy(r, size)'
  <2>1. rpc[r] = "payload" /\ UNCHANGED <<api, current, version_before, uncopied, seen>>
    BY <1>14 DEF Verify
  <2>2. CASE Frame(r).version = version_before[r]
    <3>1. rpc'[r] = "deliver"
      BY <1>14, <2>2 DEF Verify
    <3>2. ~Odd(mem[Word(current[r])].version) /\ seen[r] = {mem[Word(current[r])].msg}
      BY <1>4, <2>1, <2>2 DEF Copy, Frame
    <3>3. PICK n \in DOMAIN log :
            /\ Lasting(n) /\ current[r] <= log[n] /\ Word(log[n]) = Word(current[r])
            /\ \A j \in 0 .. size - 1 : mem[Word(current[r] + j)].msg = n
      BY <1>7, <2>1, <3>2
    <3>4. 0 \in 0 .. size - 1 /\ current[r] + 0 = current[r]
      BY <1>2
    <3>5. mem[Word(current[r] + 0)].msg = n
      BY <3>3, <3>4
    <3>6. seen'[r] = {n}
      BY <2>1, <3>2, <3>4, <3>5
    <3> QED
      BY <1>3, <2>1, <3>1, <3>3, <3>6
  <2>3. CASE Frame(r).version # version_before[r]
    <3>1. rpc'[r] = "prod"
      BY <1>14, <2>1, <2>3 DEF Verify
    <3> QED
      BY <1>5, <3>1
  <2> QED
    BY <2>2, <2>3
<1>15. ASSUME Advance(r) PROVE Copy(r, size)'
  BY <1>6, <1>15 DEF Advance
<1>16. ASSUME BatchEnds(r) PROVE Copy(r, size)'
  BY <1>6, <1>16 DEF BatchEnds
<1>17. ASSUME BatchContinues(r) PROVE Copy(r, size)'
  BY <1>5, <1>17 DEF BatchContinues
<1> QED
  BY <1>8, <1>9, <1>10, <1>11, <1>12, <1>13, <1>14, <1>15, <1>16, <1>17 DEF ReaderNext, ReaderStep

(* A reader's step keeps CopyInv.                                          *)
LEMMA CopyKeptReader ==
  ASSUME TypeOK, LogInv, PositionInv, MemberInv, PlacesInv, CopyInv,
         NEW r \in Readers, ReaderNext(r)
  PROVE  CopyInv'
<1>1. RingKept
  BY ReaderSteps, RingStays
<1> SUFFICES ASSUME NEW size \in stream.sizes, OfSize(size), NEW s \in Readers,
                    api'[s] # "PollZeroCopy"
             PROVE  Copy(s, size)'
  BY <1>1 DEF CopyInv, OfSize, RingKept
<1>2. CASE s = r
  BY <1>2, CopyStep
<1>3. CASE s # r
  <2>1. /\ rpc'[s] = rpc[s] /\ api'[s] = api[s] /\ current'[s] = current[s]
        /\ version_before'[s] = version_before[s]
        /\ uncopied'[s] = uncopied[s] /\ seen'[s] = seen[s]
    BY <1>3, OtherReaders
  <2>2. Copy(s, size)
    BY <2>1 DEF CopyInv
  <2> QED
    BY <1>1, <2>1, <2>2 DEF Copy, RingKept, Frame, Odd, Word
<1> QED
  BY <1>2, <1>3

-----------------------------------------------------------------------------
(* The theorems.                                                           *)

(* The empty ring.                                                         *)
LEMMA FramesInit == Init => FramesInv
<1> SUFFICES ASSUME Init PROVE FramesInv
  OBVIOUS
<1>1. stream \in Streams /\ Capacity \in Nat /\ Capacity > 0
  BY FramesAssumption DEF Init
<1>2. TypeOK
  BY <1>1 DEF Init, TypeOK, Functions, Writing
<1>3. log = <<>> /\ Len(log) = 0 /\ DOMAIN log = {}
  BY EmptySeq DEF Init
<1>4. LogInv
  BY <1>3 DEF Init, LogInv, Boundary, Writing, Unpublished
<1>5. WritingInv
  BY DEF Init, WritingInv, Writing
<1>6. PositionInv
  BY DEF Init, PositionInv, Position, Boundary
<1>7. MemberInv
  <2>1. ASSUME NEW r \in members PROVE Member(r)
    <3>1. rpc[r] = "idle" /\ cursor[r] = 0 /\ Claim = 0
      BY <1>2, <2>1 DEF Init, Claim, Unpublished, TypeOK
    <3> QED
      BY <1>1, <1>3, <3>1 DEF Member
  <2> QED
    BY <2>1 DEF MemberInv
<1>8. PlacesInv
  <2>1. \A size \in stream.sizes : 0 % size = 0
    BY <1>2, Sizes
  <2> QED
    BY <1>3, <2>1 DEF Init, PlacesInv, Place
<1>9. CopyInv
  BY DEF Init, CopyInv, Copy
<1> QED
  BY <1>2, <1>4, <1>5, <1>6, <1>7, <1>8, <1>9 DEF Init, FramesInv

(* Every step keeps the invariant.                                         *)
LEMMA FramesNext == FramesInv /\ [Next]_vars => FramesInv'
<1> SUFFICES ASSUME FramesInv, [Next]_vars PROVE FramesInv'
  OBVIOUS
<1>1. TypeOK /\ LogInv /\ WritingInv /\ (~stream.evicts => members = Readers)
      /\ PositionInv /\ MemberInv /\ PlacesInv /\ CopyInv
  BY DEF FramesInv
<1>2. CASE ProducerNext
  <2>1. TypeOK'
    BY <1>1, <1>2, TypeStepProducer
  <2>2. LogInv' /\ WritingInv'
    BY <1>1, <1>2, LogInvKept, WritingKept
  <2>3. PositionInv' /\ MemberInv'
    BY <1>1, <1>2, PositionKeptProducer, MemberKeptProducer
  <2>4. PlacesInv' /\ CopyInv'
    BY <1>1, <1>2, PlacesKept, CopyKeptProducer
  <2>5. (~stream.evicts => members = Readers)'
    BY <1>1, <1>2, ProducerSteps
  <2> QED
    BY <2>1, <2>2, <2>3, <2>4, <2>5 DEF FramesInv
<1>3. ASSUME RingKept
      PROVE  LogInv' /\ (UNCHANGED unwritten => WritingInv') /\ PlacesInv'
             /\ (~stream.evicts => members = Readers)'
  <2>1. LogInv'
    BY <1>1, <1>3 DEF LogInv, RingKept, Unpublished, Start, Boundary
  <2>2. UNCHANGED unwritten => WritingInv'
    BY <1>1, <1>3 DEF WritingInv, RingKept, Start, Odd, Word
  <2>3. PlacesInv'
    BY <1>1, <1>3 DEF PlacesInv, Place, RingKept, OfSize, Odd, Word
  <2>4. (~stream.evicts => members = Readers)'
    BY <1>1, <1>3 DEF RingKept
  <2> QED
    BY <2>1, <2>2, <2>3, <2>4
<1>4. ASSUME NEW r \in Readers, ReaderNext(r) PROVE FramesInv'
  <2>1. RingKept /\ UNCHANGED unwritten
    BY <1>4, ReaderSteps, RingStays DEF producer
  <2>2. TypeOK'
    BY <1>1, <1>4, TypeStepReader
  <2>3. PositionInv' /\ MemberInv' /\ CopyInv'
    BY <1>1, <1>4, PositionKeptReader, MemberKeptReader, CopyKeptReader
  <2> QED
    BY <1>3, <2>1, <2>2, <2>3 DEF FramesInv
<1>5. ASSUME NEW r \in Readers, Evict(r) PROVE FramesInv'
  <2>1. /\ stream.evicts /\ members' = members \ {r}
        /\ UNCHANGED <<stream, mem, producer_cursor, commit_cursor, log, ppc, claimed_cursor, unwritten>>
        /\ UNCHANGED <<cursor, rpc, api, current, limit, version_before, length, uncopied, seen>>
    BY <1>5 DEF Evict, producer, reader
  <2>2. TypeOK'
    BY <1>1, <2>1 DEF TypeOK
  <2>3. Claim' = Claim /\ Start' = Start
    BY <2>1 DEF Claim, Unpublished, Start
  <2>4. /\ \A m : End(m)' = End(m) /\ (Sealed(m)' <=> Sealed(m)) /\ (Lasting(m)' <=> Lasting(m))
        /\ \A p : (Boundary(p)' <=> Boundary(p)) /\ Word(p)' = Word(p)
    BY <2>1, <2>3 DEF End, Sealed, Lasting, Unpublished, Boundary, Word
  <2>5. \A m : Whole(m)' <=> Whole(m)
    BY <2>1, <2>4 DEF Whole, Word
  <2>6. LogInv'
    BY <1>1, <2>1, <2>3, <2>4 DEF LogInv, Unpublished, Boundary
  <2>7. WritingInv'
    BY <1>1, <2>1, <2>3 DEF WritingInv, Odd, Word
  <2>8. PositionInv'
    <3>1. \A s \in Readers : Guarded(s)' => Guarded(s)
      BY <2>1 DEF Guarded, Holeless, OfSize
    <3>2. \A s \in Readers : Position(s)' <=> Position(s)
      BY <2>1, <2>4 DEF Position, Boundary
    <3> QED
      BY <1>1, <3>1, <3>2 DEF PositionInv
  <2>9. MemberInv'
    <3>1. \A s \in members' : s \in members /\ (Member(s)' <=> Member(s))
      BY <2>1, <2>3, <2>4, <2>5 DEF Member
    <3> QED
      BY <1>1, <2>1, <3>1 DEF MemberInv, Holeless
  <2>10. PlacesInv'
    BY <1>1, <2>1, <2>4 DEF PlacesInv, Place, OfSize, Odd, Word
  <2>11. CopyInv'
    BY <1>1, <2>1, <2>4 DEF CopyInv, Copy, OfSize, Odd, Word, Frame
  <2> QED
    BY <2>1, <2>2, <2>6, <2>7, <2>8, <2>9, <2>10, <2>11 DEF FramesInv
<1>6. CASE UNCHANGED vars
  <2>1. RingKept /\ UNCHANGED <<unwritten, stream, members, reader>>
    BY <1>6, RingStays DEF vars, producer
  <2>2. UNCHANGED <<cursor, rpc, api, current, limit, version_before, length, uncopied, seen>>
    BY <2>1 DEF reader
  <2>3. TypeOK'
    BY <1>1, <2>1, <2>2 DEF TypeOK, RingKept
  <2>4. PositionInv'
    <3>1. \A s \in Readers : Guarded(s)' => Guarded(s)
      BY <2>1 DEF Guarded, Holeless, OfSize
    <3>2. \A s \in Readers : Position(s)' <=> Position(s)
      BY <2>1, <2>2 DEF Position, Boundary, RingKept
    <3> QED
      BY <1>1, <3>1, <3>2 DEF PositionInv
  <2>5. MemberInv'
    <3>1. \A s \in members : Member(s)' <=> Member(s)
      BY <2>1, <2>2 DEF Member, RingKept
    <3> QED
      BY <1>1, <2>1, <3>1 DEF MemberInv, Holeless
  <2>6. CopyInv'
    BY <1>1, <2>1, <2>2 DEF CopyInv, Copy, OfSize, Odd, Word, Frame, RingKept
  <2> QED
    BY <1>3, <2>1, <2>3, <2>4, <2>5, <2>6 DEF FramesInv
<1> QED
  BY <1>2, <1>4, <1>5, <1>6, NextSplits

(* The frames of BroadcastRingBuffer, for every capacity, every set of     *)
(* frame sizes, any number of readers and messages: Reserve's claims have  *)
(* no gaps, a claim stays a ring away from what a member has not released, *)
(* and every sealed frame is whole.                                        *)
THEOREM FramesInvHolds == Spec => []FramesInv
<1>1. Init => FramesInv
  BY FramesInit
<1>2. FramesInv /\ [Next]_vars => FramesInv'
  BY FramesNext
<1> QED
  BY <1>1, <1>2, PTL DEF Spec

(* What a member reads is the message that was written at its cursor,      *)
(* whole, whatever the sizes of the frames: PollZeroCopy, PollCopy and     *)
(* PollCopyBatch lose and tear nothing as long as no second producer goes  *)
(* on behind a frame that the first one left unsealed.                     *)
THEOREM MembersRead ==
  ASSUME \A s \in Streams : "payload" \in s.dies => ~s.recovers
  PROVE  Spec => []MembersReadTheLog
<1>1. FramesInv => MembersReadTheLog
  BY DEF FramesInv, MemberInv, Member, Holeless, MembersReadTheLog, TypeOK
<1> QED
  BY <1>1, FramesInvHolds, PTL

(* PollCopy and PollCopyBatch return one message, also to a reader that    *)
(* was evicted and is overtaken during the copy, when all frames have one  *)
(* size that divides the ring; and for frames of any sizes when nobody is  *)
(* evicted.                                                                *)
THEOREM CopiesWhole ==
  ASSUME \A s \in Streams :
           \/ \E size \in s.sizes : s.sizes = {size} /\ Capacity % size = 0
           \/ ~s.evicts /\ ("payload" \in s.dies => ~s.recovers)
  PROVE  Spec => []CopiesAreWhole
<1>1. ASSUME FramesInv, NEW r \in Readers, rpc[r] = "deliver", api[r] # "PollZeroCopy"
      PROVE  \E m \in DOMAIN log :
               seen[r] = {m} /\ log[m] >= current[r] /\ Word(log[m]) = Word(current[r])
  <2>1. TypeOK /\ LogInv /\ PositionInv /\ MemberInv /\ PlacesInv /\ CopyInv
        /\ (~stream.evicts => members = Readers)
    BY <1>1 DEF FramesInv
  <2>2. stream \in Streams /\ current[r] \in Nat /\ \A m \in DOMAIN log : log[m] \in Nat
    BY <2>1, LogFacts DEF TypeOK
  <2>3. ASSUME NEW size \in stream.sizes, OfSize(size)
        PROVE  \E m \in DOMAIN log :
                 seen[r] = {m} /\ log[m] >= current[r] /\ Word(log[m]) = Word(current[r])
    <3>1. PICK n \in DOMAIN log :
            seen[r] = {n} /\ current[r] <= log[n] /\ Word(log[n]) = Word(current[r])
      BY <1>1, <2>1, <2>3 DEF CopyInv, Copy
    <3> QED
      BY <2>2, <3>1
  <2>4. CASE ~stream.evicts /\ Holeless
    <3>1. r \in members /\ Guarded(r)
      BY <2>1, <2>4 DEF Guarded
    <3>2. PICK m \in DOMAIN log :
            log[m] = current[r] /\ {n \in DOMAIN log : log[n] = current[r]} = {m}
      BY <1>1, <2>1, <3>1, ReaderFrame
    <3>3. seen[r] = {m}
      BY <1>1, <2>1, <2>4, <3>1, <3>2 DEF MemberInv, Member
    <3> QED
      BY <2>2, <3>2, <3>3
  <2> QED
    BY <2>2, <2>3, <2>4 DEF OfSize, Holeless
<1>2. FramesInv => CopiesAreWhole
  BY <1>1 DEF CopiesAreWhole
<1> QED
  BY <1>2, FramesInvHolds, PTL
=============================================================================
