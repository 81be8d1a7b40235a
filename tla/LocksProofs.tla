------------------------------ MODULE LocksProofs ------------------------------
(* Every lock excludes, and no futex lock loses a wake-up, for any number  *)
(* of threads, spins and calls.                                            *)
EXTENDS Locks, TLAPS

USE LocksAssumption

(* Each lock() goes its own way, and the spin counter stays in its bound.  *)
LEMMA TypeStep ==
  ASSUME TypeOK, KindInv, [Next]_vars
  PROVE  (TypeOK /\ KindInv)'
<1>0. CASE UNCHANGED vars
  BY <1>0 DEF TypeOK, KindInv, Waiting, Kinds, CasLocks, Futexes, vars
<1> SUFFICES ASSUME NEW t \in Threads, Lock(t) \/ Interrupted(t) \/ Step(t)
             PROVE  (TypeOK /\ KindInv)'
  BY <1>0 DEF Next
<1>1. CASE Lock(t)
  BY <1>1 DEF TypeOK, KindInv, Waiting, Kinds, CasLocks, Futexes, Lock, Goto
<1>2. CASE Interrupted(t)
  BY <1>2 DEF TypeOK, KindInv, Waiting, Kinds, CasLocks, Futexes, Interrupted, Goto, Awake
<1>3. CASE TestAndSet(t)
  BY <1>3 DEF TypeOK, KindInv, Waiting, Kinds, CasLocks, Futexes, TestAndSet, Goto
<1>4. CASE Test(t)
  BY <1>4 DEF TypeOK, KindInv, Waiting, Kinds, CasLocks, Futexes, Test, Goto
<1>5. CASE Exchange(t)
  BY <1>5 DEF TypeOK, KindInv, Waiting, Kinds, CasLocks, Futexes, Exchange, Goto
<1>6. CASE FastPath(t)
  BY <1>6 DEF TypeOK, KindInv, Waiting, Kinds, CasLocks, Futexes, FastPath, Goto, Slow
<1>7. CASE SpinLoad(t)
  BY <1>7 DEF TypeOK, KindInv, Waiting, Kinds, CasLocks, Futexes, SpinLoad, Goto
<1>8. CASE SpinClaim(t)
  BY <1>8 DEF TypeOK, KindInv, Waiting, Kinds, CasLocks, Futexes, SpinClaim, Goto
<1>9. CASE SpinEnds(t)
  BY <1>9 DEF TypeOK, KindInv, Waiting, Kinds, CasLocks, Futexes, SpinEnds, Goto, Slow
<1>10. CASE Contend(t)
  BY <1>10 DEF TypeOK, KindInv, Waiting, Kinds, CasLocks, Futexes, Contend, Goto
<1>11. CASE Wait(t)
  BY <1>11 DEF TypeOK, KindInv, Waiting, Kinds, CasLocks, Futexes, Wait, Goto
<1>12. CASE Unlock(t)
  BY <1>12 DEF TypeOK, KindInv, Waiting, Kinds, CasLocks, Futexes, Unlock, Goto
<1>13. CASE Wake(t)
  BY <1>13 DEF TypeOK, KindInv, Waiting, Kinds, CasLocks, Futexes, Wake, Goto, Awake, Sleepers
<1>14. CASE CompareExchange(t)
  BY <1>14 DEF TypeOK, KindInv, Waiting, Kinds, CasLocks, Futexes, CompareExchange, Goto
<1>15. CASE Look(t)
  BY <1>15 DEF TypeOK, KindInv, Waiting, Kinds, CasLocks, Futexes, Look, Goto
<1> QED
  BY <1>1, <1>2, <1>3, <1>4, <1>5, <1>6, <1>7, <1>8, <1>9, <1>10, <1>11, <1>12, <1>13,
     <1>14, <1>15 DEF Step

(* Whoever takes the lock finds it free, and nobody else frees it.         *)
LEMMA HeldStep ==
  ASSUME TypeOK, HeldInv, MutualExclusion, [Next]_vars
  PROVE  (HeldInv /\ MutualExclusion)'
<1>0. CASE UNCHANGED vars
  BY <1>0 DEF TypeOK, HeldInv, MutualExclusion, vars
<1> SUFFICES ASSUME NEW t \in Threads, Lock(t) \/ Interrupted(t) \/ Step(t)
             PROVE  (HeldInv /\ MutualExclusion)'
  BY <1>0 DEF Next
<1>1. CASE Lock(t)
  BY <1>1 DEF TypeOK, HeldInv, MutualExclusion, Lock, Goto
<1>2. CASE Interrupted(t)
  BY <1>2 DEF TypeOK, HeldInv, MutualExclusion, Interrupted, Goto, Awake
<1>3. CASE TestAndSet(t)
  BY <1>3 DEF TypeOK, HeldInv, MutualExclusion, TestAndSet, Goto
<1>4. CASE Test(t)
  BY <1>4 DEF TypeOK, HeldInv, MutualExclusion, Test, Goto
<1>5. CASE Exchange(t)
  BY <1>5 DEF TypeOK, HeldInv, MutualExclusion, Exchange, Goto
<1>6. CASE FastPath(t)
  BY <1>6 DEF TypeOK, HeldInv, MutualExclusion, FastPath, Goto, Slow
<1>7. CASE SpinLoad(t)
  BY <1>7 DEF TypeOK, HeldInv, MutualExclusion, SpinLoad, Goto
<1>8. CASE SpinClaim(t)
  BY <1>8 DEF TypeOK, HeldInv, MutualExclusion, SpinClaim, Goto
<1>9. CASE SpinEnds(t)
  BY <1>9 DEF TypeOK, HeldInv, MutualExclusion, SpinEnds, Goto, Slow
<1>10. CASE Contend(t)
  BY <1>10 DEF TypeOK, HeldInv, MutualExclusion, Contend, Goto
<1>11. CASE Wait(t)
  BY <1>11 DEF TypeOK, HeldInv, MutualExclusion, Wait, Goto
<1>12. CASE Unlock(t)
  BY <1>12 DEF TypeOK, HeldInv, MutualExclusion, Unlock, Goto
<1>13. CASE Wake(t)
  BY <1>13 DEF TypeOK, HeldInv, MutualExclusion, Wake, Goto, Awake, Sleepers
<1>14. CASE CompareExchange(t)
  BY <1>14 DEF TypeOK, HeldInv, MutualExclusion, CompareExchange, Goto
<1>15. CASE Look(t)
  BY <1>15 DEF TypeOK, HeldInv, MutualExclusion, Look, Goto
<1> QED
  BY <1>1, <1>2, <1>3, <1>4, <1>5, <1>6, <1>7, <1>8, <1>9, <1>10, <1>11, <1>12, <1>13,
     <1>14, <1>15 DEF Step

(* A thread that stops being on its way leaves the state at 2, leaves      *)
(* another thread on its way, or leaves no sleeper.                        *)
LEMMA WakeupStep ==
  ASSUME TypeOK, KindInv, NoLostWakeup, [Next]_vars
  PROVE  NoLostWakeup'
<1>0. CASE UNCHANGED vars
  BY <1>0 DEF TypeOK, KindInv, NoLostWakeup, Sleepers, Waiting, Kinds, CasLocks, Futexes, vars
<1> SUFFICES ASSUME NEW t \in Threads, Lock(t) \/ Interrupted(t) \/ Step(t)
             PROVE  NoLostWakeup'
  BY <1>0 DEF Next
<1>1. CASE Lock(t)
  BY <1>1 DEF TypeOK, KindInv, NoLostWakeup, Sleepers, Waiting, Kinds, CasLocks, Futexes, Lock, Goto
<1>2. CASE Interrupted(t)
  BY <1>2 DEF TypeOK, KindInv, NoLostWakeup, Sleepers, Waiting, Kinds, CasLocks, Futexes, Interrupted, Goto, Awake
<1>3. CASE TestAndSet(t)
  BY <1>3 DEF TypeOK, KindInv, NoLostWakeup, Sleepers, Waiting, Kinds, CasLocks, Futexes, TestAndSet, Goto
<1>4. CASE Test(t)
  BY <1>4 DEF TypeOK, KindInv, NoLostWakeup, Sleepers, Waiting, Kinds, CasLocks, Futexes, Test, Goto
<1>5. CASE Exchange(t)
  BY <1>5 DEF TypeOK, KindInv, NoLostWakeup, Sleepers, Waiting, Kinds, CasLocks, Futexes, Exchange, Goto
<1>6. CASE FastPath(t)
  BY <1>6 DEF TypeOK, KindInv, NoLostWakeup, Sleepers, Waiting, Kinds, CasLocks, Futexes, FastPath, Goto, Slow
<1>7. CASE SpinLoad(t)
  BY <1>7 DEF TypeOK, KindInv, NoLostWakeup, Sleepers, Waiting, Kinds, CasLocks, Futexes, SpinLoad, Goto
<1>8. CASE SpinClaim(t)
  BY <1>8 DEF TypeOK, KindInv, NoLostWakeup, Sleepers, Waiting, Kinds, CasLocks, Futexes, SpinClaim, Goto
<1>9. CASE SpinEnds(t)
  BY <1>9 DEF TypeOK, KindInv, NoLostWakeup, Sleepers, Waiting, Kinds, CasLocks, Futexes, SpinEnds, Goto, Slow
<1>10. CASE Contend(t)
  BY <1>10 DEF TypeOK, KindInv, NoLostWakeup, Sleepers, Waiting, Kinds, CasLocks, Futexes, Contend, Goto
<1>11. CASE Wait(t)
  BY <1>11 DEF TypeOK, KindInv, NoLostWakeup, Sleepers, Waiting, Kinds, CasLocks, Futexes, Wait, Goto
<1>12. CASE Unlock(t)
  BY <1>12 DEF TypeOK, KindInv, NoLostWakeup, Sleepers, Waiting, Kinds, CasLocks, Futexes, Unlock, Goto
<1>13. CASE Wake(t)
  BY <1>13 DEF TypeOK, KindInv, NoLostWakeup, Sleepers, Waiting, Kinds, CasLocks, Futexes, Wake, Goto, Awake
<1>14. CASE CompareExchange(t)
  BY <1>14 DEF TypeOK, KindInv, NoLostWakeup, Sleepers, Waiting, Kinds, CasLocks, Futexes, CompareExchange, Goto
<1>15. CASE Look(t)
  BY <1>15 DEF TypeOK, KindInv, NoLostWakeup, Sleepers, Waiting, Kinds, CasLocks, Futexes, Look, Goto
<1> QED
  BY <1>1, <1>2, <1>3, <1>4, <1>5, <1>6, <1>7, <1>8, <1>9, <1>10, <1>11, <1>12, <1>13,
     <1>14, <1>15 DEF Step

-----------------------------------------------------------------------------
(* The invariant of every behaviour.                                       *)
THEOREM Invariance == Spec => []LocksInv
<1>1. Init => LocksInv
  BY DEF Init, LocksInv, TypeOK, KindInv, HeldInv, MutualExclusion,
         NoLostWakeup, Sleepers
<1>2. LocksInv /\ [Next]_vars => LocksInv'
  BY TypeStep, HeldStep, WakeupStep DEF LocksInv
<1> QED
  BY <1>1, <1>2, PTL DEF Spec

(* lock() returns in one thread at a time, until it calls unlock().        *)
THEOREM LocksExclude == Spec => []MutualExclusion
  BY Invariance, PTL DEF LocksInv

(* While anyone sleeps, someone will be woken.                             *)
THEOREM WakeupsArrive == Spec => []NoLostWakeup
  BY Invariance, PTL DEF LocksInv
=============================================================================
