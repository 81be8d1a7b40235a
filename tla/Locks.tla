-------------------------------- MODULE Locks --------------------------------
(***************************************************************************)
(* The locks of common/locks_under_the_hood/locks_under_the_hood.h and of  *)
(* common/mesi_coherency/mesi_coherency.h, all one word: spinlocks that    *)
(* exchange or compare and exchange, with or without a look first, the     *)
(* futex mutex, the adaptive one that spins before it sleeps, and the one  *)
(* that does so with atomic::wait.  A behaviour is about one kind.  The    *)
(* kernel compares and sleeps in one step.                                 *)
(***************************************************************************)
EXTENDS Integers

CONSTANTS
  Threads,
  MaxSpin,     \* bound: iterations of the spin loop (40 in the code)
  MaxLocks     \* bound: calls of lock() per thread

ASSUME LocksAssumption == MaxSpin \in Nat /\ MaxLocks \in Nat

VARIABLES
  kind,        \* which lock it is
  state,       \* flag, locked or state: 0 when free, 2 when someone may sleep
  pc,          \* where a thread is in lock() or unlock(),
  c,           \*   what it last saw of state,
  spin,        \*   its spins,
  calls        \*   and the calls it has made

vars == <<kind, state, pc, c, spin, calls>>

Futexes == {"RawFutexMutex", "AdaptiveFutexMutex", "Cpp20AtomicWaitLock"}
CasLocks == {"NaiveCasSpinlock", "ReadBeforeCasSpinlock"}
Kinds == {"NaiveTASLock", "TTASLock"} \cup CasLocks \cup Futexes
Waiting == {"try", "claim", "look", "spin", "spin_claim", "contend", "wait", "asleep"}

TypeOK ==
  /\ kind \in Kinds
  /\ state \in 0 .. 2
  /\ pc \in [Threads -> {"idle", "held", "wake"} \cup Waiting]
  /\ c \in [Threads -> 0 .. 2]
  /\ spin \in [Threads -> 0 .. MaxSpin]
  /\ calls \in [Threads -> 0 .. MaxLocks]

Init ==
  /\ kind \in Kinds
  /\ state = 0
  /\ pc = [t \in Threads |-> "idle"]
  /\ c = [t \in Threads |-> 0]
  /\ spin = [t \in Threads |-> 0]
  /\ calls = [t \in Threads |-> 0]

-----------------------------------------------------------------------------
Goto(t, l) == pc' = [pc EXCEPT ![t] = l]

Lock(t) ==
  /\ pc[t] = "idle" /\ calls[t] < MaxLocks
  /\ calls' = [calls EXCEPT ![t] = calls[t] + 1]
  /\ c' = [c EXCEPT ![t] = 0]
  /\ spin' = [spin EXCEPT ![t] = 0]
  /\ Goto(t, "try")
  /\ UNCHANGED <<kind, state>>

(* flag.test_and_set(), until it was clear.                                *)
TestAndSet(t) ==
  /\ kind = "NaiveTASLock" /\ pc[t] = "try"
  /\ state' = 1
  /\ Goto(t, IF state = 0 THEN "held" ELSE "try")
  /\ UNCHANGED <<kind, c, spin, calls>>

(* Only after it has seen the lock free does a thread exchange.            *)
Test(t) ==
  /\ kind = "TTASLock" /\ pc[t] = "try" /\ state = 0
  /\ Goto(t, "claim")
  /\ UNCHANGED <<kind, state, c, spin, calls>>

\* Mutant: whoever saw the lock free takes it.
ExchangeBlindly(t) ==
  /\ pc[t] = "claim"
  /\ state' = 1
  /\ Goto(t, "held")
  /\ UNCHANGED <<kind, c, spin, calls>>

Exchange(t) ==
  /\ pc[t] = "claim"
  /\ state' = 1
  /\ Goto(t, IF state = 0 THEN "held" ELSE "try")
  /\ UNCHANGED <<kind, c, spin, calls>>

(* A thread that fails to compare and exchange 0 for 1 tries again, once   *)
(* it has seen the lock free if it is the kind that reads in between.      *)
CompareExchange(t) ==
  /\ kind \in CasLocks /\ pc[t] = "try"
  /\ \/ state = 0 /\ state' = 1 /\ Goto(t, "held")
     \/ state # 0 /\ kind = "ReadBeforeCasSpinlock" /\ Goto(t, "look") /\ UNCHANGED state
  /\ UNCHANGED <<kind, c, spin, calls>>

Look(t) ==
  /\ pc[t] = "look" /\ state = 0
  /\ Goto(t, "try")
  /\ UNCHANGED <<kind, state, c, spin, calls>>

-----------------------------------------------------------------------------
(* The three-state locks.  A thread that saw state 2 goes to sleep without *)
(* writing it again.                                                       *)
Slow(seen) == IF seen = 2 THEN "wait" ELSE "contend"

FastPath(t) ==
  /\ kind \in Futexes /\ pc[t] = "try"
  /\ IF state = 0
       THEN state' = 1 /\ Goto(t, "held") /\ UNCHANGED c
       ELSE /\ c' = [c EXCEPT ![t] = state]
            /\ Goto(t, IF kind = "RawFutexMutex" THEN Slow(state) ELSE "spin")
            /\ UNCHANGED state
  /\ UNCHANGED <<kind, spin, calls>>

SpinLoad(t) ==
  /\ pc[t] = "spin" /\ spin[t] < MaxSpin
  /\ IF state = 0
       THEN Goto(t, "spin_claim") /\ UNCHANGED spin
       ELSE spin' = [spin EXCEPT ![t] = spin[t] + 1] /\ UNCHANGED pc
  /\ UNCHANGED <<kind, state, c, calls>>

SpinClaim(t) ==
  /\ pc[t] = "spin_claim"
  /\ IF state = 0
       THEN state' = 1 /\ Goto(t, "held") /\ UNCHANGED <<c, spin>>
       ELSE /\ c' = [c EXCEPT ![t] = state]
            /\ spin' = [spin EXCEPT ![t] = spin[t] + 1]
            /\ Goto(t, "spin")
            /\ UNCHANGED state
  /\ UNCHANGED <<kind, calls>>

SpinEnds(t) ==
  /\ pc[t] = "spin" /\ spin[t] = MaxSpin
  /\ Goto(t, Slow(c[t]))
  /\ UNCHANGED <<kind, state, c, spin, calls>>

\* Mutant: who takes the lock after a sleep forgets that others may sleep.
ContendAlone(t) ==
  /\ pc[t] = "contend"
  /\ c' = [c EXCEPT ![t] = state]
  /\ IF state = 0 THEN state' = 1 /\ Goto(t, "held") ELSE state' = 2 /\ Goto(t, "wait")
  /\ UNCHANGED <<kind, spin, calls>>

Contend(t) ==
  /\ pc[t] = "contend"
  /\ c' = [c EXCEPT ![t] = state]
  /\ state' = 2
  /\ Goto(t, IF state = 0 THEN "held" ELSE "wait")
  /\ UNCHANGED <<kind, spin, calls>>

(* What a thread does after it has slept: the futex returns, atomic::wait  *)
(* compares again.                                                         *)
Awake == IF kind = "Cpp20AtomicWaitLock" THEN "wait" ELSE "contend"

Wait(t) ==
  /\ pc[t] = "wait"
  /\ Goto(t, IF state = 2 THEN "asleep" ELSE "contend")
  /\ UNCHANGED <<kind, state, c, spin, calls>>

(* The kernel may end a sleep for a signal.                                *)
Interrupted(t) ==
  /\ pc[t] = "asleep"
  /\ Goto(t, Awake)
  /\ UNCHANGED <<kind, state, c, spin, calls>>

-----------------------------------------------------------------------------
Unlock(t) ==
  /\ pc[t] = "held"
  /\ state' = 0
  /\ Goto(t, IF state = 2 THEN "wake" ELSE "idle")
  /\ UNCHANGED <<kind, c, spin, calls>>

Sleepers == {u \in Threads : pc[u] = "asleep"}

Wake(t) ==
  /\ pc[t] = "wake"
  /\ IF Sleepers = {}
       THEN Goto(t, "idle")
       ELSE \E u \in Sleepers : pc' = [pc EXCEPT ![t] = "idle", ![u] = Awake]
  /\ UNCHANGED <<kind, state, c, spin, calls>>

-----------------------------------------------------------------------------
Step(t) ==
  \/ TestAndSet(t) \/ Test(t) \/ Exchange(t) \/ CompareExchange(t) \/ Look(t)
  \/ FastPath(t) \/ SpinLoad(t) \/ SpinClaim(t) \/ SpinEnds(t) \/ Contend(t) \/ Wait(t)
  \/ Unlock(t) \/ Wake(t)

Next == \E t \in Threads : Lock(t) \/ Interrupted(t) \/ Step(t)

(* Threads run, and leave their critical sections; no one has to call      *)
(* lock() and no signal has to come.                                       *)
Fairness == \A t \in Threads : WF_vars(Step(t))

Spec == Init /\ [][Next]_vars /\ Fairness

-----------------------------------------------------------------------------
(* lock() returns in one thread at a time, until it calls unlock().        *)
MutualExclusion ==
  \A t, u \in Threads : pc[t] = "held" /\ pc[u] = "held" => t = u

(* No wake-up is lost: while anyone sleeps, the next unlock() will wake    *)
(* someone, or a thread is on its way to do so or to take over from it.    *)
NoLostWakeup ==
  Sleepers # {} => state = 2 \/ \E u \in Threads : pc[u] \in {"wake", "wait", "contend"}

(* lock() returns, when every thread takes the lock finitely often: none   *)
(* of these locks is fair.                                                 *)
LockReturns == \A t \in Threads : pc[t] \in Waiting ~> pc[t] = "held"

-----------------------------------------------------------------------------
(* The inductive invariant: a thread is in the lock() of this kind, and    *)
(* the lock is not free while it is held.                                  *)
KindInv ==
  \A t \in Threads :
    /\ pc[t] = "claim" => kind = "TTASLock"
    /\ pc[t] = "look" => kind \in CasLocks
    /\ pc[t] \in {"contend", "wait", "asleep"} => kind \in Futexes
    /\ pc[t] = "spin_claim" => spin[t] < MaxSpin
    /\ pc[t] \in {"spin", "spin_claim"} => kind \in Futexes

HeldInv == \A t \in Threads : pc[t] = "held" => state # 0

LocksInv == TypeOK /\ KindInv /\ HeldInv /\ MutualExclusion /\ NoLostWakeup
=============================================================================
