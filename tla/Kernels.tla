------------------------------- MODULE Kernels -------------------------------
(***************************************************************************)
(* Loops that a benchmark takes for granted: the sums of                   *)
(* common/execution/execution_pipeline.h with several accumulators, whose  *)
(* tail the unrolled loop leaves over, and the pointer-chasing ring of     *)
(* common/measurement/entropy_generator.h.                                 *)
(***************************************************************************)
EXTENDS Integers, Sequences

Ext == INSTANCE SequencesExt

CONSTANTS
  Width,           \* bits of an accumulator (64 in the code)
  MaxLength,       \* bound: elements of a stream
  MaxElements      \* bound: elements of a ring

(* What an accumulator can hold, and how far streams and rings go.         *)
KernelBounds == 2 ^ Width \in Nat \ {0} /\ MaxLength \in Nat /\ MaxElements \in Nat

VARIABLES data, indices

Wrap(n) == n % 2 ^ Width

(* Numbers that all differ, one of them the largest that fits, or none.   *)
Streams == {[i \in 1 .. n |-> IF i = largest THEN 2 ^ Width - 1 ELSE Wrap(i)] :
              n \in 0 .. MaxLength, largest \in 0 .. MaxLength}

(* num_elements is size_bytes / 4, and at least 2.                         *)
NumElements(size_bytes) == IF size_bytes \div 4 < 2 THEN 2 ELSE size_bytes \div 4

(* std::shuffle leaves the first index where it is.                        *)
Shuffles(n) == {p \in [1 .. n -> 0 .. n - 1] :
                  p[1] = 0 /\ \A i, j \in 1 .. n : p[i] = p[j] => i = j}

Init ==
  \/ data \in Streams /\ indices = <<0, 1>>
  \/ data = <<>> /\ \E size_bytes \in 0 .. 4 * MaxElements : indices \in Shuffles(NumElements(size_bytes))

-----------------------------------------------------------------------------
Sum(s) == Ext!FoldLeft(LAMBDA sum, x : Wrap(sum + x), 0, s)

\* Mutant: the elements after the last full round are left out.
SumWaysNoTail(s, ways) ==
  LET unrolled_limit == Len(s) - (Len(s) % ways)
      acc(j) == Sum([i \in 1 .. unrolled_limit \div ways |-> s[(i - 1) * ways + j]])
  IN  Sum([j \in 1 .. ways |-> acc(j)])

(* Sum4Way and Sum8Way.                                                    *)
SumWays(s, ways) ==
  LET unrolled_limit == Len(s) - (Len(s) % ways)
      acc(j) == Sum([i \in 1 .. unrolled_limit \div ways |-> s[(i - 1) * ways + j]])
      total == Sum([j \in 1 .. ways |-> acc(j)])
  IN  Sum(<<total>> \o SubSeq(s, unrolled_limit + 1, Len(s)))

-----------------------------------------------------------------------------
\* Mutant: the loop ends one element early, whose pointer stays 0.
PointerChaseRingShort(order) ==
  LET n == Len(order) IN
  [e \in 0 .. n - 1 |-> LET i == CHOOSE j \in 1 .. n : order[j] = e
                        IN  IF i >= n - 1 THEN order[1] ELSE order[i + 1]]

PointerChaseRing(order) ==
  LET n == Len(order) IN
  [e \in 0 .. n - 1 |-> LET i == CHOOSE j \in 1 .. n : order[j] = e
                        IN  IF i = n THEN order[1] ELSE order[i + 1]]

-----------------------------------------------------------------------------
(* However many accumulators, the sum is that of one, although the         *)
(* accumulators wrap and the length is no multiple of their number.        *)
SumsAgree == \A ways \in {4, 8} : SumWays(data, ways) = Sum(data)

(* A chase from any element comes through all of them before it is back:   *)
(* "a single random Hamiltonian cycle".                                    *)
SingleCycle ==
  LET n == Len(indices)
      next_ptrs == PointerChaseRing(indices)
      chase[k \in 1 .. n] == IF k = 1 THEN 0 ELSE next_ptrs[chase[k - 1]]
  IN  {chase[k] : k \in 1 .. n} = 0 .. n - 1 /\ next_ptrs[chase[n]] = 0
===============================================================================
