------------------------------- MODULE EbrProofs -------------------------------
(***************************************************************************)
(* Proofs about Ebr, for every number of threads, blocks and nodes and for *)
(* every choice of the delayed stores: EbrInv is inductive, its reclamation *)
(* is one by grace periods, and what README.md calls memory safety holds   *)
(* of the readers whose pin was visible when they followed the pointer and *)
(* whom it did not lead to a node already retired.                         *)
(***************************************************************************)
EXTENDS Ebr, TLAPS

USE EbrAssumption

(* Retire needs that its thread still has the node it unlinked.            *)
LEMMA TypeStep ==
  ASSUME TypeOK, BlockInv, [Next]_vars
  PROVE  TypeOK'
<1>0. CASE UNCHANGED vars
  BY <1>0 DEF TypeOK, Empty, vars, shared, heap, thread, history
<1> SUFFICES ASSUME NEW t \in Threads, Step(t)
             PROVE  TypeOK'
  BY <1>0 DEF Next, Step, GcStep
<1>1. CASE RegisterThread(t)
  BY <1>1 DEF TypeOK, Empty, RegisterThread, Idle, Drained, shared, heap, thread, history
<1>2. CASE Drain(t)
  BY <1>2 DEF TypeOK, Empty, Drain, shared, heap, thread, history
<1>3. CASE Publish(t)
  BY <1>3 DEF TypeOK, Empty, Publish, shared, heap, thread, history
<1>4. CASE UnregisterThread(t)
  BY <1>4 DEF TypeOK, Empty, UnregisterThread, Idle, Drained, shared, heap, thread, history
<1>5. CASE EnterNested(t)
  BY <1>5 DEF TypeOK, Empty, EnterNested, Idle, shared, heap, thread, history
<1>6. CASE EnterCritical(t)
  BY <1>6 DEF TypeOK, Empty, EnterCritical, Idle, Goto, shared, heap, thread, history
<1>7. CASE Pin(t)
  BY <1>7 DEF TypeOK, Empty, Pin, Goto, StoreLocal, shared, heap, thread, history
<1>8. CASE Follow(t)
  BY <1>8 DEF TypeOK, Empty, Follow, Idle, shared, heap, thread, history
<1>9. CASE ExitCritical(t)
  BY <1>9 DEF TypeOK, Empty, Inactive, Idle, Left, StoreLocal, ExitCritical, shared, heap, thread, history
<1>10. CASE Replace(t)
  BY <1>10 DEF TypeOK, Empty, Replace, Swap, Idle, Goto, shared, heap, thread, history
<1>11. CASE ReplaceTable(t)
  BY <1>11 DEF TypeOK, Empty, ReplaceTable, Swap, Idle, Goto, shared, heap, thread, history
<1>12. CASE RetireLoad(t)
  BY <1>12 DEF TypeOK, Empty, Pinned, RetireLoad, Goto, shared, heap, thread, history
<1>13. CASE Retire(t)
  <2>1. <<epoch[t], old[t]>> \in Nat \X Nodes
    BY <1>13 DEF TypeOK, BlockInv, Retire
  <2> QED
    BY <1>13, <2>1 DEF TypeOK, Retire, Goto, shared, heap, thread, history
<1>14. CASE Gc(t)
  BY <1>14 DEF TypeOK, Empty, Gc, Idle, Goto, shared, heap, thread, history
<1>15. CASE GcMin(t)
  BY <1>15 DEF TypeOK, Empty, GcMin, Goto, shared, heap, thread, history
<1>16. CASE GcHead(t)
  BY <1>16 DEF TypeOK, Empty, GcHead, Goto, shared, heap, thread, history
<1>17. CASE GcScanned(t)
  BY <1>17 DEF TypeOK, Empty, GcScanned, Goto, shared, heap, thread, history
<1>18. CASE GcAdvance(t)
  BY <1>18 DEF TypeOK, Empty, GcAdvance, Goto, Drained, shared, heap, thread, history
<1>19. CASE GcFree(t)
  BY <1>19 DEF TypeOK, Empty, GcFree, Goto, shared, heap, thread, history
<1>20. ASSUME NEW b \in Tcbs, GcScan(t, b) PROVE TypeOK'
  BY <1>20 DEF TypeOK, Empty, GcScan, Local, shared, heap, thread, history
<1> QED
  BY <1>1, <1>2, <1>3, <1>4, <1>5, <1>6, <1>7, <1>8, <1>9, <1>10, <1>11, <1>12, <1>13, <1>14,
      <1>15, <1>16, <1>17, <1>18, <1>19, <1>20 DEF Step, GcStep

(* Blocks are handed to one thread each and never leave the list.          *)
LEMMA BlockStep ==
  ASSUME TypeOK, BlockInv, [Next]_vars
  PROVE  BlockInv'
<1>0. CASE UNCHANGED vars
  BY <1>0 DEF TypeOK, BlockInv, Empty, vars, shared, heap, thread, history
<1> SUFFICES ASSUME NEW t \in Threads, Step(t)
             PROVE  BlockInv'
  BY <1>0 DEF Next, Step, GcStep
<1>1. CASE RegisterThread(t)
  BY <1>1 DEF TypeOK, BlockInv, Empty, RegisterThread, Idle, Drained, shared, heap, thread,
      history
<1>2. CASE Drain(t)
  BY <1>2 DEF TypeOK, BlockInv, Empty, Drain, shared, heap, thread, history
<1>3. CASE Publish(t)
  BY <1>3 DEF TypeOK, BlockInv, Empty, Publish, shared, heap, thread, history
<1>4. CASE UnregisterThread(t)
  BY <1>4 DEF TypeOK, BlockInv, Empty, UnregisterThread, Idle, Drained, shared, heap, thread,
      history
<1>5. CASE EnterNested(t)
  BY <1>5 DEF TypeOK, BlockInv, Empty, EnterNested, Idle, shared, heap, thread, history
<1>6. CASE EnterCritical(t)
  BY <1>6 DEF TypeOK, BlockInv, Empty, EnterCritical, Idle, Goto, shared, heap, thread, history
<1>7. CASE Pin(t)
  BY <1>7 DEF TypeOK, BlockInv, Empty, Pin, Goto, StoreLocal, shared, heap, thread, history
<1>8. CASE Follow(t)
  BY <1>8 DEF TypeOK, BlockInv, Empty, Follow, Idle, shared, heap, thread, history
<1>9. CASE ExitCritical(t)
  BY <1>9 DEF TypeOK, BlockInv, Empty, Inactive, Idle, Left, StoreLocal, ExitCritical, shared, heap,
      thread, history
<1>10. CASE Replace(t)
  BY <1>10 DEF TypeOK, BlockInv, Empty, Replace, Swap, Idle, Goto, shared, heap, thread, history
<1>11. CASE ReplaceTable(t)
  BY <1>11 DEF TypeOK, BlockInv, Empty, ReplaceTable, Swap, Idle, Goto, shared, heap, thread,
      history
<1>12. CASE RetireLoad(t)
  BY <1>12 DEF TypeOK, BlockInv, Empty, RetireLoad, Goto, shared, heap, thread, history
<1>13. CASE Retire(t)
  BY <1>13 DEF TypeOK, BlockInv, Empty, Retire, Goto, shared, heap, thread, history
<1>14. CASE Gc(t)
  BY <1>14 DEF TypeOK, BlockInv, Empty, Gc, Idle, Goto, shared, heap, thread, history
<1>15. CASE GcMin(t)
  BY <1>15 DEF TypeOK, BlockInv, Empty, GcMin, Goto, shared, heap, thread, history
<1>16. CASE GcHead(t)
  BY <1>16 DEF TypeOK, BlockInv, Empty, GcHead, Goto, shared, heap, thread, history
<1>17. CASE GcScanned(t)
  BY <1>17 DEF TypeOK, BlockInv, Empty, GcScanned, Goto, shared, heap, thread, history
<1>18. CASE GcAdvance(t)
  BY <1>18 DEF TypeOK, BlockInv, Empty, GcAdvance, Goto, Drained, shared, heap, thread, history
<1>19. CASE GcFree(t)
  BY <1>19 DEF TypeOK, BlockInv, Empty, GcFree, Goto, shared, heap, thread, history
<1>20. ASSUME NEW b \in Tcbs, GcScan(t, b) PROVE BlockInv'
  BY <1>20 DEF TypeOK, BlockInv, Empty, GcScan, Local, shared, heap, thread, history
<1> QED
  BY <1>1, <1>2, <1>3, <1>4, <1>5, <1>6, <1>7, <1>8, <1>9, <1>10, <1>11, <1>12, <1>13, <1>14,
      <1>15, <1>16, <1>17, <1>18, <1>19, <1>20 DEF Step, GcStep

(* A pin stays until its thread unpins it, and epochs only grow.           *)
LEMMA PinStep ==
  ASSUME TypeOK, BlockInv, PinInv, [Next]_vars
  PROVE  PinInv'
<1>0. CASE UNCHANGED vars
  BY <1>0 DEF TypeOK, BlockInv, PinInv, PinOf, Pinned, Empty, Inactive, vars, shared, heap,
      thread, history
<1> SUFFICES ASSUME NEW t \in Threads, Step(t)
             PROVE  PinInv'
  BY <1>0 DEF Next, Step, GcStep
<1>1. CASE RegisterThread(t)
  BY <1>1 DEF TypeOK, BlockInv, PinInv, PinOf, Pinned, Empty, Inactive, RegisterThread, Idle,
      Drained, shared, heap, thread, history
<1>2. CASE Drain(t)
  BY <1>2 DEF TypeOK, BlockInv, PinInv, PinOf, Pinned, Empty, Inactive, Drain, shared, heap,
      thread, history
<1>3. CASE Publish(t)
  BY <1>3 DEF TypeOK, BlockInv, PinInv, PinOf, Pinned, Empty, Inactive, Publish, shared, heap,
      thread, history
<1>4. CASE UnregisterThread(t)
  BY <1>4 DEF TypeOK, BlockInv, PinInv, PinOf, Pinned, Empty, Inactive, UnregisterThread, Idle,
      Drained, shared, heap, thread, history
<1>5. CASE EnterNested(t)
  BY <1>5 DEF TypeOK, BlockInv, PinInv, PinOf, Pinned, Empty, Inactive, EnterNested, Idle, shared,
      heap, thread, history
<1>6. CASE EnterCritical(t)
  BY <1>6 DEF TypeOK, BlockInv, PinInv, PinOf, Pinned, Empty, Inactive, EnterCritical, Idle, Goto,
      shared, heap, thread, history
<1>7. CASE Pin(t)
  BY <1>7 DEF TypeOK, BlockInv, PinInv, PinOf, Pinned, Empty, Inactive, Pin, Goto, StoreLocal,
      shared, heap, thread, history
<1>8. CASE Follow(t)
  BY <1>8 DEF TypeOK, BlockInv, PinInv, PinOf, Pinned, Empty, Inactive, Follow, Idle, shared,
      heap, thread, history
<1>9. CASE ExitCritical(t)
  BY <1>9 DEF TypeOK, BlockInv, PinInv, PinOf, Pinned, Empty, Inactive, ExitCritical, Idle,
      StoreLocal, Left, shared, heap, thread, history
<1>10. CASE Replace(t)
  BY <1>10 DEF TypeOK, BlockInv, PinInv, PinOf, Pinned, Empty, Inactive, Replace, Swap, Idle,
      Goto, shared, heap, thread, history
<1>11. CASE ReplaceTable(t)
  BY <1>11 DEF TypeOK, BlockInv, PinInv, PinOf, Pinned, Empty, Inactive, ReplaceTable, Swap, Idle,
      Goto, shared, heap, thread, history
<1>12. CASE RetireLoad(t)
  BY <1>12 DEF TypeOK, BlockInv, PinInv, PinOf, Pinned, Empty, Inactive, RetireLoad, Goto, shared,
      heap, thread, history
<1>13. CASE Retire(t)
  BY <1>13 DEF TypeOK, BlockInv, PinInv, PinOf, Pinned, Empty, Inactive, Retire, Goto, shared,
      heap, thread, history
<1>14. CASE Gc(t)
  BY <1>14 DEF TypeOK, BlockInv, PinInv, PinOf, Pinned, Empty, Inactive, Gc, Idle, Goto, shared,
      heap, thread, history
<1>15. CASE GcMin(t)
  BY <1>15 DEF TypeOK, BlockInv, PinInv, PinOf, Pinned, Empty, Inactive, GcMin, Goto, shared,
      heap, thread, history
<1>16. CASE GcHead(t)
  BY <1>16 DEF TypeOK, BlockInv, PinInv, PinOf, Pinned, Empty, Inactive, GcHead, Goto, shared,
      heap, thread, history
<1>17. CASE GcScanned(t)
  BY <1>17 DEF TypeOK, BlockInv, PinInv, PinOf, Pinned, Empty, Inactive, GcScanned, Goto, shared,
      heap, thread, history
<1>18. CASE GcAdvance(t)
  BY <1>18 DEF TypeOK, BlockInv, PinInv, PinOf, Pinned, Empty, Inactive, GcAdvance, Goto, Drained,
      shared, heap, thread, history
<1>19. CASE GcFree(t)
  BY <1>19 DEF TypeOK, BlockInv, PinInv, PinOf, Pinned, Empty, Inactive, GcFree, Goto, shared,
      heap, thread, history
<1>20. ASSUME NEW b \in Tcbs, GcScan(t, b) PROVE PinInv'
  BY <1>20 DEF TypeOK, BlockInv, PinInv, PinOf, Pinned, Empty, Inactive, GcScan, Local, shared,
      heap, thread, history
<1> QED
  BY <1>1, <1>2, <1>3, <1>4, <1>5, <1>6, <1>7, <1>8, <1>9, <1>10, <1>11, <1>12, <1>13, <1>14,
      <1>15, <1>16, <1>17, <1>18, <1>19, <1>20 DEF Step, GcStep

(* Only Swap, Retire and GcFree move nodes.                                *)
LEMMA PlaceStep ==
  ASSUME TypeOK, BlockInv, OnePlace, Allocated, [Next]_vars
  PROVE  (OnePlace /\ Allocated)'
<1>0. CASE UNCHANGED <<heap, old, retirement_batches>>
  BY <1>0 DEF OnePlace, Allocated, Retired, heap
<1>1. CASE UNCHANGED vars
  BY <1>0, <1>1 DEF vars, shared, heap, thread
<1> SUFFICES ASSUME NEW t \in Threads, Step(t)
             PROVE  (OnePlace /\ Allocated)'
  BY <1>1 DEF Next
<1>2. ASSUME RegisterThread(t) \/ Drain(t) \/ UnregisterThread(t) \/ EnterNested(t)
             \/ EnterCritical(t) \/ Pin(t) \/ Follow(t) \/ ExitCritical(t)
             \/ RetireLoad(t) \/ Gc(t) \/ GcMin(t) \/ GcHead(t)
             \/ GcScanned(t) \/ GcAdvance(t) \/ (\E b \in Tcbs : GcScan(t, b))
      PROVE  UNCHANGED <<heap, old, retirement_batches>>
  BY <1>2 DEF RegisterThread, Drain, UnregisterThread, EnterNested, EnterCritical, Pin, Follow,
      ExitCritical, RetireLoad, Gc, GcMin, GcHead, GcScanned, GcAdvance, GcScan, shared, heap,
      thread
<1>3. CASE Replace(t) \/ ReplaceTable(t)
  <2>0. Swap(t) /\ visible' \in {visible, link'} /\ (pending' = {} => visible' = link')
    BY <1>3 DEF Replace, ReplaceTable, Swap
  <2>1. PICK n \in Nodes \ allocated : link' = n /\ allocated' = allocated \cup {n}
    BY <2>0 DEF Swap
  <2>2. old' = [old EXCEPT ![t] = link] /\ UNCHANGED <<freed, retirement_batches>>
    BY <2>0 DEF Swap, shared
  <2>3. \A u \in Threads : old'[u] = IF u = t THEN link ELSE old[u]
    BY <2>2 DEF TypeOK
  <2>4. \A b \in Tcbs : Retired(b)' = Retired(b)
    BY <2>2 DEF Retired
  <2>5. Allocated'
    BY <2>0, <2>1, <2>2, <2>3, <2>4 DEF Allocated
  <2>6. OnePlace'
    BY <2>1, <2>2, <2>3, <2>4 DEF OnePlace, Allocated, TypeOK
  <2> QED
    BY <2>5, <2>6
<1>6. CASE Publish(t)
  <2>1. UNCHANGED <<link, allocated, freed, old, retirement_batches>> /\ visible' = link
    BY <1>6 DEF Publish, shared, thread
  <2> QED
    BY <2>1 DEF OnePlace, Allocated, Retired
<1>4. CASE Retire(t)
  <2>1. tls_tcb[t] \in Tcbs /\ old[t] \in Nodes /\ old[t] # NoNode
    BY <1>4 DEF BlockInv, TypeOK, Retire
  <2>2. \A b \in Tcbs :
          Retired(b)' = IF b = tls_tcb[t] THEN Retired(b) \cup {old[t]} ELSE Retired(b)
    <3>0. PICK own \in Tcbs : own = tls_tcb[t]
      BY <2>1
    <3>1. \A b \in Tcbs : retirement_batches'[b] =
            IF b = own THEN retirement_batches[b] \cup {<<epoch[t], old[t]>>} ELSE retirement_batches[b]
      BY <1>4, <2>1, <3>0 DEF Retire, TypeOK
    <3>2. Retired(own)' = Retired(own) \cup {old[t]}
      <4>1. retirement_batches'[own] = retirement_batches[own] \cup {<<epoch[t], old[t]>>}
        BY <3>1
      <4>2. <<epoch[t], old[t]>>[2] = old[t]
        OBVIOUS
      <4> QED
        BY <4>1, <4>2 DEF Retired
    <3>3. \A b \in Tcbs \ {own} : Retired(b)' = Retired(b)
      BY <3>1 DEF Retired
    <3> QED
      BY <3>0, <3>2, <3>3
  <2>3. \A u \in Threads : old'[u] = IF u = t THEN NoNode ELSE old[u]
    BY <1>4 DEF Retire, TypeOK
  <2>4. UNCHANGED heap
    BY <1>4 DEF Retire
  <2>5. Allocated'
    BY <2>1, <2>2, <2>3, <2>4 DEF Allocated, heap
  <2>6. OnePlace'
    <3>1. \A b \in Tcbs : NoNode \notin Retired(b)
      BY DEF Retired, TypeOK
    <3>2. \A b \in Tcbs : \A x, y \in retirement_batches'[b] : x[2] = y[2] => x = y
      <4> SUFFICES ASSUME NEW b \in Tcbs, NEW x \in retirement_batches'[b],
                          NEW y \in retirement_batches'[b], x[2] = y[2]
                   PROVE  x = y
        OBVIOUS
      <4>1. CASE b # tls_tcb[t]
        BY <1>4, <2>1, <4>1 DEF Retire, TypeOK, OnePlace
      <4>2. CASE b = tls_tcb[t]
        <5>1. old[t] \notin Retired(b)
          BY DEF OnePlace
        <5>2. retirement_batches'[b] = retirement_batches[b] \cup {<<epoch[t], old[t]>>}
          BY <1>4, <2>1, <4>2 DEF Retire, TypeOK
        <5> QED
          BY <5>1, <5>2 DEF Retired, OnePlace
      <4> QED
        BY <4>1, <4>2
    <3>3. \A b \in Tcbs : link \notin Retired(b)' /\ Retired(b)' \cap freed = {}
      BY <2>1, <2>2 DEF OnePlace
    <3>4. \A b \in Tcbs, u \in Threads : old'[u] \notin Retired(b)'
      BY <2>1, <2>2, <2>3, <3>1 DEF OnePlace
    <3>5. \A b, c \in Tcbs : b # c => Retired(b)' \cap Retired(c)' = {}
      BY <2>1, <2>2 DEF OnePlace
    <3> QED
      BY <2>1, <2>3, <2>4, <3>2, <3>3, <3>4, <3>5 DEF OnePlace, heap
  <2> QED
    BY <2>5, <2>6
<1>5. CASE GcFree(t)
  <2>1. CASE tls_tcb[t] = NoTcb
    BY <1>5, <2>1 DEF GcFree, OnePlace, Allocated, Retired, heap, thread
  <2>2. CASE tls_tcb[t] # NoTcb
    <3>1. PICK own \in Tcbs : own = tls_tcb[t]
      BY <2>2 DEF TypeOK
    <3> DEFINE gone == {x[2] : x \in {y \in retirement_batches[own] : y[1] < min_epoch[t]}}
    <3>2. freed' = freed \cup gone /\ UNCHANGED <<link, visible, pending, allocated, old>>
      BY <1>5, <2>2, <3>1 DEF GcFree
    <3>3. retirement_batches' = [retirement_batches EXCEPT ![own] =
            retirement_batches[own] \ {y \in retirement_batches[own] : y[1] < min_epoch[t]}]
      BY <1>5, <2>2, <3>1 DEF GcFree
    <3>4. gone \subseteq Retired(own)
      BY DEF Retired
    <3>5. \A b \in Tcbs : Retired(b)' \subseteq Retired(b)
      BY <3>1, <3>3 DEF Retired, TypeOK
    <3>6. Allocated'
      BY <3>1, <3>2, <3>4, <3>5 DEF Allocated
    <3>7. \A b \in Tcbs : Retired(b)' \cap gone = {}
      <4>1. Retired(own)' \cap gone = {}
        <5>1. retirement_batches'[own] = {y \in retirement_batches[own] : ~ (y[1] < min_epoch[t])}
          BY <3>1, <3>3 DEF TypeOK
        <5>2. \A x, y \in retirement_batches[own] : x[2] = y[2] => x = y
          BY <3>1 DEF OnePlace
        <5> SUFFICES ASSUME NEW n \in Retired(own)', n \in gone PROVE FALSE
          OBVIOUS
        <5>3. PICK x \in retirement_batches[own] : x[2] = n /\ ~ (x[1] < min_epoch[t])
          BY <5>1 DEF Retired
        <5>4. PICK y \in retirement_batches[own] : y[2] = n /\ y[1] < min_epoch[t]
          OBVIOUS
        <5> QED
          BY <5>2, <5>3, <5>4
      <4>2. \A b \in Tcbs \ {own} : Retired(b)' \cap gone = {}
        BY <3>1, <3>4, <3>5 DEF OnePlace
      <4> HIDE DEF gone
      <4> QED
        BY <4>1, <4>2
    <3>8. OnePlace'
      <4>1. \A b \in Tcbs : retirement_batches'[b] \subseteq retirement_batches[b]
        BY <3>1, <3>3 DEF TypeOK
      <4>2. \A b \in Tcbs : Retired(b) \cap freed = {} /\ link \notin gone
        BY <3>1, <3>4 DEF OnePlace
      <4>3. \A u \in Threads : old[u] \notin gone
        BY <3>1, <3>4 DEF OnePlace
      <4>4. \A b \in Tcbs : \A x, y \in retirement_batches'[b] : x[2] = y[2] => x = y
        BY <4>1 DEF OnePlace
      <4> HIDE DEF gone
      <4>5. link' \notin freed'
        BY <3>1, <3>2, <4>2 DEF OnePlace
      <4>6. \A u \in Threads : old'[u] # NoNode => old'[u] # link' /\ old'[u] \notin freed'
        BY <3>2, <4>3 DEF OnePlace
      <4>7. \A b \in Tcbs : link' \notin Retired(b)' /\ Retired(b)' \cap freed' = {}
        BY <3>2, <3>5, <3>7 DEF OnePlace
      <4>8. \A b, c \in Tcbs : b # c => Retired(b)' \cap Retired(c)' = {}
        BY <3>5 DEF OnePlace
      <4>9. \A b \in Tcbs, u \in Threads : old'[u] \notin Retired(b)'
        BY <3>2, <3>5 DEF OnePlace
      <4> QED
        BY <3>2, <4>4, <4>5, <4>6, <4>7, <4>8, <4>9 DEF OnePlace
    <3> QED
      BY <3>6, <3>8
  <2> QED
    BY <2>1, <2>2
<1> QED
  BY <1>0, <1>2, <1>3, <1>4, <1>5, <1>6 DEF Step, GcStep

(* A thread that a node awaits stays pinned where it is, and tags grow.     *)
LEMMA HoldStep ==
  ASSUME TypeOK, BlockInv, PinInv, OnePlace, HoldInv, [Next]_vars
  PROVE  HoldInv'
<1>0. CASE UNCHANGED vars
  BY <1>0 DEF TypeOK, BlockInv, PinInv, OnePlace, HoldInv, PinOf, Pinned, Empty, Inactive,
      Retired, vars, shared, heap, thread, history
<1> SUFFICES ASSUME NEW t \in Threads, Step(t)
             PROVE  HoldInv'
  BY <1>0 DEF Next, Step, GcStep
<1>1. CASE RegisterThread(t)
  BY <1>1 DEF TypeOK, BlockInv, PinInv, OnePlace, HoldInv, PinOf, Pinned, Empty, Inactive,
      Retired, RegisterThread, Idle, Drained, shared, heap, thread, history
<1>2. CASE Drain(t)
  BY <1>2 DEF TypeOK, BlockInv, PinInv, OnePlace, HoldInv, PinOf, Pinned, Empty, Inactive,
      Retired, Drain, shared, heap, thread, history
<1>3. CASE Publish(t)
  BY <1>3 DEF TypeOK, BlockInv, PinInv, OnePlace, HoldInv, PinOf, Pinned, Empty, Inactive,
      Retired, Publish, shared, heap, thread, history
<1>4. CASE UnregisterThread(t)
  BY <1>4 DEF TypeOK, BlockInv, PinInv, OnePlace, HoldInv, PinOf, Pinned, Empty, Inactive,
      Retired, UnregisterThread, Idle, Drained, shared, heap, thread, history
<1>5. CASE EnterNested(t)
  BY <1>5 DEF TypeOK, BlockInv, PinInv, OnePlace, HoldInv, PinOf, Pinned, Empty, Inactive,
      Retired, EnterNested, Idle, shared, heap, thread, history
<1>6. CASE EnterCritical(t)
  BY <1>6 DEF TypeOK, BlockInv, PinInv, OnePlace, HoldInv, PinOf, Pinned, Empty, Inactive,
      Retired, EnterCritical, Idle, Goto, shared, heap, thread, history
<1>7. CASE Pin(t)
  BY <1>7 DEF TypeOK, BlockInv, PinInv, OnePlace, HoldInv, PinOf, Pinned, Empty, Inactive,
      Retired, Pin, Goto, StoreLocal, shared, heap, thread, history
<1>8. CASE Follow(t)
  BY <1>8 DEF TypeOK, BlockInv, PinInv, OnePlace, HoldInv, PinOf, Pinned, Empty, Inactive,
      Retired, Follow, Idle, shared, heap, thread, history
<1>9. CASE ExitCritical(t)
  BY <1>9 DEF TypeOK, BlockInv, PinInv, OnePlace, HoldInv, PinOf, Pinned, Empty, Inactive,
      Retired, ExitCritical, Idle, StoreLocal, Left, shared, heap, thread, history
<1>10. CASE Replace(t)
  BY <1>10 DEF TypeOK, BlockInv, PinInv, OnePlace, HoldInv, PinOf, Pinned, Empty, Inactive,
      Retired, Replace, Swap, Idle, Goto, shared, heap, thread, history
<1>11. CASE ReplaceTable(t)
  BY <1>11 DEF TypeOK, BlockInv, PinInv, OnePlace, HoldInv, PinOf, Pinned, Empty, Inactive,
      Retired, ReplaceTable, Swap, Idle, Goto, shared, heap, thread, history
<1>12. CASE RetireLoad(t)
  BY <1>12 DEF TypeOK, BlockInv, PinInv, OnePlace, HoldInv, PinOf, Pinned, Empty, Inactive,
      Retired, RetireLoad, Goto, shared, heap, thread, history
<1>13. CASE Retire(t)
  BY <1>13 DEF TypeOK, BlockInv, PinInv, OnePlace, HoldInv, PinOf, Pinned, Empty, Inactive,
      Retired, Retire, Goto, shared, heap, thread, history
<1>14. CASE Gc(t)
  BY <1>14 DEF TypeOK, BlockInv, PinInv, OnePlace, HoldInv, PinOf, Pinned, Empty, Inactive,
      Retired, Gc, Idle, Goto, shared, heap, thread, history
<1>15. CASE GcMin(t)
  BY <1>15 DEF TypeOK, BlockInv, PinInv, OnePlace, HoldInv, PinOf, Pinned, Empty, Inactive,
      Retired, GcMin, Goto, shared, heap, thread, history
<1>16. CASE GcHead(t)
  BY <1>16 DEF TypeOK, BlockInv, PinInv, OnePlace, HoldInv, PinOf, Pinned, Empty, Inactive,
      Retired, GcHead, Goto, shared, heap, thread, history
<1>17. CASE GcScanned(t)
  BY <1>17 DEF TypeOK, BlockInv, PinInv, OnePlace, HoldInv, PinOf, Pinned, Empty, Inactive,
      Retired, GcScanned, Goto, shared, heap, thread, history
<1>18. CASE GcAdvance(t)
  BY <1>18 DEF TypeOK, BlockInv, PinInv, OnePlace, HoldInv, PinOf, Pinned, Empty, Inactive,
      Retired, GcAdvance, Goto, Drained, shared, heap, thread, history
<1>19. CASE GcFree(t)
  BY <1>19 DEF TypeOK, BlockInv, PinInv, OnePlace, HoldInv, PinOf, Pinned, Empty, Inactive,
      Retired, GcFree, Goto, shared, heap, thread, history
<1>20. ASSUME NEW b \in Tcbs, GcScan(t, b) PROVE HoldInv'
  BY <1>20 DEF TypeOK, BlockInv, PinInv, OnePlace, HoldInv, PinOf, Pinned, Empty, Inactive,
      Retired, GcScan, Local, shared, heap, thread, history
<1> QED
  BY <1>1, <1>2, <1>3, <1>4, <1>5, <1>6, <1>7, <1>8, <1>9, <1>10, <1>11, <1>12, <1>13, <1>14,
      <1>15, <1>16, <1>17, <1>18, <1>19, <1>20 DEF Step, GcStep

(* The scan meets the block of a thread that is awaited, whose pin then    *)
(* bounds the minimum; so nothing is freed that awaits somebody.           *)
LEMMA GcInvStep ==
  ASSUME TypeOK, BlockInv, PinInv, OnePlace, HoldInv, GcInv, [Next]_vars
  PROVE  GcInv'
<1>0. CASE UNCHANGED vars
  BY <1>0 DEF TypeOK, BlockInv, PinInv, OnePlace, HoldInv, GcInv, Tagged, PinOf, Pinned, Empty,
      Inactive, Retired, vars, shared, heap, thread, history
<1> SUFFICES ASSUME NEW t \in Threads, Step(t)
             PROVE  GcInv'
  BY <1>0 DEF Next, Step, GcStep
<1>1. CASE RegisterThread(t)
  BY <1>1 DEF TypeOK, BlockInv, PinInv, OnePlace, HoldInv, GcInv, Tagged, PinOf, Pinned, Empty,
      Inactive, Retired, RegisterThread, Idle, Drained, shared, heap, thread, history
<1>2. CASE Drain(t)
  BY <1>2 DEF TypeOK, BlockInv, PinInv, OnePlace, HoldInv, GcInv, Tagged, PinOf, Pinned, Empty,
      Inactive, Retired, Drain, shared, heap, thread, history
<1>3. CASE Publish(t)
  BY <1>3 DEF TypeOK, BlockInv, PinInv, OnePlace, HoldInv, GcInv, Tagged, PinOf, Pinned, Empty,
      Inactive, Retired, Publish, shared, heap, thread, history
<1>4. CASE UnregisterThread(t)
  BY <1>4 DEF TypeOK, BlockInv, PinInv, OnePlace, HoldInv, GcInv, Tagged, PinOf, Pinned, Empty,
      Inactive, Retired, UnregisterThread, Idle, Drained, shared, heap, thread, history
<1>5. CASE EnterNested(t)
  BY <1>5 DEF TypeOK, BlockInv, PinInv, OnePlace, HoldInv, GcInv, Tagged, PinOf, Pinned, Empty,
      Inactive, Retired, EnterNested, Idle, shared, heap, thread, history
<1>6. CASE EnterCritical(t)
  BY <1>6 DEF TypeOK, BlockInv, PinInv, OnePlace, HoldInv, GcInv, Tagged, PinOf, Pinned, Empty,
      Inactive, Retired, EnterCritical, Idle, Goto, shared, heap, thread, history
<1>7. CASE Pin(t)
  BY <1>7 DEF TypeOK, BlockInv, PinInv, OnePlace, HoldInv, GcInv, Tagged, PinOf, Pinned, Empty,
      Inactive, Retired, Pin, Goto, StoreLocal, shared, heap, thread, history
<1>8. CASE Follow(t)
  BY <1>8 DEF TypeOK, BlockInv, PinInv, OnePlace, HoldInv, GcInv, Tagged, PinOf, Pinned, Empty,
      Inactive, Retired, Follow, Idle, shared, heap, thread, history
<1>9. CASE ExitCritical(t)
  <2>1. UNCHANGED <<retirement_batches, pc, old, tls_tcb, todo, min_epoch>>
    BY <1>9 DEF ExitCritical, Left
  <2>2. Tagged' = Tagged /\ \A c \in Tcbs : Retired(c)' = Retired(c)
    BY <2>1 DEF Tagged, Retired
  <2>3. \A n \in Nodes : awaited'[n] \subseteq awaited[n]
    BY <1>9 DEF ExitCritical, Left, history, TypeOK
  <2>4. \A n \in Nodes : \A u \in awaited'[n] : PinOf(u)' = PinOf(u)
    <3> SUFFICES ASSUME NEW n \in Nodes, NEW u \in awaited'[n] PROVE PinOf(u)' = PinOf(u)
      OBVIOUS
    <3>1. u \in awaited[n] /\ u \in Threads /\ u \in Pinned
      BY <2>3 DEF HoldInv, TypeOK
    <3>2. CASE critical_depth[t] # 1
      BY <1>9, <2>1, <3>2 DEF ExitCritical, PinOf
    <3>3. CASE critical_depth[t] = 1
      <4>1. u # t
        BY <1>9, <3>3 DEF ExitCritical, Left
      <4>2. tls_tcb[u] \in Tcbs /\ tls_tcb[u] # tls_tcb[t]
        BY <3>1, <4>1 DEF BlockInv, TypeOK, Pinned
      <4> QED
        BY <1>9, <2>1, <4>2 DEF ExitCritical, StoreLocal, PinOf, TypeOK
    <3> QED
      BY <3>2, <3>3
  <2> QED
    BY <2>1, <2>2, <2>3, <2>4 DEF GcInv, TypeOK
<1>10. CASE Replace(t)
  BY <1>10 DEF TypeOK, BlockInv, PinInv, OnePlace, HoldInv, GcInv, Tagged, PinOf, Pinned, Empty,
      Inactive, Retired, Replace, Swap, Idle, Goto, shared, heap, thread, history
<1>11. CASE ReplaceTable(t)
  BY <1>11 DEF TypeOK, BlockInv, PinInv, OnePlace, HoldInv, GcInv, Tagged, PinOf, Pinned, Empty,
      Inactive, Retired, ReplaceTable, Swap, Idle, Goto, shared, heap, thread, history
<1>12. CASE RetireLoad(t)
  BY <1>12 DEF TypeOK, BlockInv, PinInv, OnePlace, HoldInv, GcInv, Tagged, PinOf, Pinned, Empty,
      Inactive, Retired, RetireLoad, Goto, shared, heap, thread, history
<1>13. CASE Retire(t)
  <2>1. UNCHANGED <<tls_tcb, todo, min_epoch, awaited, local_epoch>> /\ pc[t] = "batch"
    BY <1>13 DEF Retire, shared, history
  <2>2. /\ \A u \in Threads \ {t} : pc'[u] = pc[u] /\ old'[u] = old[u]
        /\ pc'[t] \in {"gc", "idle"}
    BY <1>13 DEF Retire, Goto, TypeOK
  <2>3. PICK own \in Tcbs : own = tls_tcb[t]
    BY <1>13 DEF Retire, BlockInv, TypeOK
  <2>4. \A c \in Tcbs : retirement_batches'[c] =
          IF c = own THEN retirement_batches[c] \cup {<<epoch[t], old[t]>>} ELSE retirement_batches[c]
    BY <1>13, <2>3 DEF Retire, TypeOK
  <2>5. \A c \in Tcbs : Retired(c)' = IF c = own THEN Retired(c) \cup {old[t]} ELSE Retired(c)
    <3>1. Retired(own)' = Retired(own) \cup {old[t]}
      <4>1. <<epoch[t], old[t]>>[2] = old[t]
        OBVIOUS
      <4> QED
        BY <2>4, <4>1 DEF Retired
    <3>2. \A c \in Tcbs \ {own} : Retired(c)' = Retired(c)
      BY <2>4 DEF Retired
    <3> QED
      BY <3>1, <3>2
  <2>6. Tagged' = Tagged
    <3>1. {old'[u] : u \in {v \in Threads : pc'[v] = "batch"}} \cup {old[t]}
            = {old[u] : u \in {v \in Threads : pc[v] = "batch"}}
      BY <2>1, <2>2
    <3>2. UNION {Retired(c)' : c \in Tcbs} = (UNION {Retired(c) : c \in Tcbs}) \cup {old[t]}
      BY <2>5
    <3> QED
      BY <3>1, <3>2 DEF Tagged
  <2>7. \A w \in Threads \ {t} : tls_tcb[w] # NoTcb => Retired(tls_tcb[w])' = Retired(tls_tcb[w])
    BY <2>1, <2>3, <2>5 DEF BlockInv, TypeOK
  <2> QED
    BY <2>1, <2>2, <2>6, <2>7 DEF GcInv, PinOf
<1>14. CASE Gc(t)
  BY <1>14 DEF TypeOK, BlockInv, PinInv, OnePlace, HoldInv, GcInv, Tagged, PinOf, Pinned, Empty,
      Inactive, Retired, Gc, Idle, Goto, shared, heap, thread, history
<1>15. CASE GcMin(t)
  BY <1>15 DEF TypeOK, BlockInv, PinInv, OnePlace, HoldInv, GcInv, Tagged, PinOf, Pinned, Empty,
      Inactive, Retired, GcMin, Goto, shared, heap, thread, history
<1>16. CASE GcHead(t)
  BY <1>16 DEF TypeOK, BlockInv, PinInv, OnePlace, HoldInv, GcInv, Tagged, PinOf, Pinned, Empty,
      Inactive, Retired, GcHead, Goto, shared, heap, thread, history
<1>17. CASE GcScanned(t)
  <2>1. UNCHANGED <<retirement_batches, old, tls_tcb, todo, min_epoch, awaited, local_epoch>>
    BY <1>17 DEF GcScanned, shared, history
  <2>2. /\ \A u \in Threads \ {t} : pc'[u] = pc[u]
        /\ pc[t] = "scan" /\ todo[t] = {} /\ pc'[t] \in {"cas", "free"}
    BY <1>17 DEF GcScanned, Goto, TypeOK
  <2>3. Tagged' = Tagged /\ \A c \in Tcbs : Retired(c)' = Retired(c)
    <3>1. {u \in Threads : pc'[u] = "batch"} = {u \in Threads : pc[u] = "batch"}
      BY <2>2
    <3> QED
      BY <2>1, <3>1 DEF Tagged, Retired
  <2>4. \A w \in Threads : tls_tcb[w] # NoTcb => Retired(tls_tcb[w])' = Retired(tls_tcb[w])
    BY <2>1, <2>3 DEF TypeOK
  <2> QED
    BY <2>1, <2>2, <2>3, <2>4 DEF GcInv, PinOf
<1>18. CASE GcAdvance(t)
  BY <1>18 DEF TypeOK, BlockInv, PinInv, OnePlace, HoldInv, GcInv, Tagged, PinOf, Pinned, Empty,
      Inactive, Retired, GcAdvance, Goto, Drained, shared, heap, thread, history
<1>19. CASE GcFree(t)
  <2>1. UNCHANGED <<old, tls_tcb, todo, awaited, local_epoch>>
    BY <1>19 DEF GcFree, history
  <2>2. /\ \A u \in Threads \ {t} : pc'[u] = pc[u] /\ min_epoch'[u] = min_epoch[u]
        /\ pc[t] = "free" /\ pc'[t] = "idle"
    BY <1>19 DEF GcFree, Goto, TypeOK
  <2>3. \A c \in Tcbs : retirement_batches'[c] \subseteq retirement_batches[c]
    BY <1>19 DEF GcFree, TypeOK
  <2>4. {u \in Threads : pc'[u] = "batch"} = {u \in Threads : pc[u] = "batch"}
    BY <2>2
  <2>5. ASSUME NEW n \in Nodes, NEW u \in awaited[n] PROVE n \in Tagged'
    <3>1. n \in Tagged /\ u \in Threads /\ u \in Pinned
      BY DEF GcInv, HoldInv, TypeOK
    <3>2. CASE n \in {old[w] : w \in {v \in Threads : pc[v] = "batch"}}
      BY <2>1, <2>4, <3>2 DEF Tagged
    <3>3. CASE n \in UNION {Retired(c) : c \in Tcbs}
      <4>1. PICK c \in Tcbs : \E x \in retirement_batches[c] : x[2] = n
        BY <3>3 DEF Retired
      <4>3. PICK x \in retirement_batches[c] : x[2] = n
        BY <4>1
      <4>2. x \in retirement_batches'[c]
        <5>1. CASE c # tls_tcb[t] \/ tls_tcb[t] = NoTcb
          BY <1>19, <5>1 DEF GcFree, TypeOK
        <5>2. CASE c = tls_tcb[t] /\ tls_tcb[t] # NoTcb
          <6>1. PinOf(u) <= x[1] /\ PinOf(u) \in Nat /\ x[1] \in Nat
            BY <3>1, <4>3 DEF HoldInv, PinInv, TypeOK
          <6>2. min_epoch[t] <= PinOf(u) /\ min_epoch[t] \in Nat
            BY <2>2, <4>3, <5>2 DEF GcInv, Retired, TypeOK
          <6>3. ~ (x[1] < min_epoch[t])
            BY <6>1, <6>2
          <6> QED
            BY <1>19, <5>2, <6>3 DEF GcFree, TypeOK
        <5> QED
          BY <5>1, <5>2
      <4> QED
        BY <4>3, <4>2 DEF Tagged, Retired
    <3> QED
      BY <3>1, <3>2, <3>3 DEF Tagged
  <2>6. \A w \in Threads : tls_tcb[w] # NoTcb => Retired(tls_tcb[w])' \subseteq Retired(tls_tcb[w])
    BY <2>1, <2>3 DEF Retired, TypeOK
  <2> QED
    BY <2>1, <2>2, <2>5, <2>6 DEF GcInv, PinOf
<1>20. ASSUME NEW b \in Tcbs, GcScan(t, b) PROVE GcInv'
  BY <1>20 DEF TypeOK, BlockInv, PinInv, OnePlace, HoldInv, GcInv, Tagged, PinOf, Pinned, Empty,
      Inactive, Retired, GcScan, Local, shared, heap, thread, history
<1> QED
  BY <1>1, <1>2, <1>3, <1>4, <1>5, <1>6, <1>7, <1>8, <1>9, <1>10, <1>11, <1>12, <1>13, <1>14,
      <1>15, <1>16, <1>17, <1>18, <1>19, <1>20 DEF Step, GcStep

(* What is retired under a reader that is pinned awaits it.                *)
LEMMA ReaderStep ==
  ASSUME TypeOK, BlockInv, PinInv, OnePlace, Allocated, HoldInv, ReaderInv, [Next]_vars
  PROVE  ReaderInv'
<1>0. CASE UNCHANGED vars
  BY <1>0 DEF TypeOK, BlockInv, PinInv, OnePlace, Allocated, HoldInv, ReaderInv, Tagged, PinOf,
      Pinned, Empty, Inactive, Retired, vars, shared, heap, thread, history
<1> SUFFICES ASSUME NEW t \in Threads, Step(t)
             PROVE  ReaderInv'
  BY <1>0 DEF Next, Step, GcStep
<1>1. CASE RegisterThread(t)
  BY <1>1 DEF TypeOK, BlockInv, PinInv, OnePlace, Allocated, HoldInv, ReaderInv, Tagged, PinOf,
      Pinned, Empty, Inactive, Retired, RegisterThread, Idle, Drained, shared, heap, thread,
      history
<1>2. CASE Drain(t)
  BY <1>2 DEF TypeOK, BlockInv, PinInv, OnePlace, Allocated, HoldInv, ReaderInv, Tagged, PinOf,
      Pinned, Empty, Inactive, Retired, Drain, shared, heap, thread, history
<1>3. CASE Publish(t)
  BY <1>3 DEF TypeOK, BlockInv, PinInv, OnePlace, Allocated, HoldInv, ReaderInv, Tagged, PinOf,
      Pinned, Empty, Inactive, Retired, Publish, shared, heap, thread, history
<1>4. CASE UnregisterThread(t)
  BY <1>4 DEF TypeOK, BlockInv, PinInv, OnePlace, Allocated, HoldInv, ReaderInv, Tagged, PinOf,
      Pinned, Empty, Inactive, Retired, UnregisterThread, Idle, Drained, shared, heap, thread,
      history
<1>5. CASE EnterNested(t)
  BY <1>5 DEF TypeOK, BlockInv, PinInv, OnePlace, Allocated, HoldInv, ReaderInv, Tagged, PinOf,
      Pinned, Empty, Inactive, Retired, EnterNested, Idle, shared, heap, thread, history
<1>6. CASE EnterCritical(t)
  BY <1>6 DEF TypeOK, BlockInv, PinInv, OnePlace, Allocated, HoldInv, ReaderInv, Tagged, PinOf,
      Pinned, Empty, Inactive, Retired, EnterCritical, Idle, Goto, shared, heap, thread, history
<1>7. CASE Pin(t)
  BY <1>7 DEF TypeOK, BlockInv, PinInv, OnePlace, Allocated, HoldInv, ReaderInv, Tagged, PinOf,
      Pinned, Empty, Inactive, Retired, Pin, Goto, StoreLocal, shared, heap, thread, history
<1>8. CASE Follow(t)
  BY <1>8 DEF TypeOK, BlockInv, PinInv, OnePlace, Allocated, HoldInv, ReaderInv, Tagged, PinOf,
      Pinned, Empty, Inactive, Retired, Follow, Idle, shared, heap, thread, history
<1>9. CASE ExitCritical(t)
  BY <1>9 DEF TypeOK, BlockInv, PinInv, OnePlace, Allocated, HoldInv, ReaderInv, Tagged, PinOf,
      Pinned, Empty, Inactive, Retired, ExitCritical, Idle, StoreLocal, Left, shared, heap,
      thread, history
<1>10. CASE Replace(t)
  BY <1>10 DEF TypeOK, BlockInv, PinInv, OnePlace, Allocated, HoldInv, ReaderInv, Tagged, PinOf,
      Pinned, Empty, Inactive, Retired, Replace, Swap, Idle, Goto, shared, heap, thread, history
<1>11. CASE ReplaceTable(t)
  BY <1>11 DEF TypeOK, BlockInv, PinInv, OnePlace, Allocated, HoldInv, ReaderInv, Tagged, PinOf,
      Pinned, Empty, Inactive, Retired, ReplaceTable, Swap, Idle, Goto, shared, heap, thread,
      history
<1>12. CASE RetireLoad(t)
  BY <1>12 DEF TypeOK, BlockInv, PinInv, OnePlace, Allocated, HoldInv, ReaderInv, Tagged, PinOf,
      Pinned, Empty, Inactive, Retired, RetireLoad, Goto, shared, heap, thread, history
<1>13. CASE Retire(t)
  BY <1>13 DEF TypeOK, BlockInv, PinInv, OnePlace, Allocated, HoldInv, ReaderInv, Tagged, PinOf,
      Pinned, Empty, Inactive, Retired, Retire, Goto, shared, heap, thread, history
<1>14. CASE Gc(t)
  BY <1>14 DEF TypeOK, BlockInv, PinInv, OnePlace, Allocated, HoldInv, ReaderInv, Tagged, PinOf,
      Pinned, Empty, Inactive, Retired, Gc, Idle, Goto, shared, heap, thread, history
<1>15. CASE GcMin(t)
  BY <1>15 DEF TypeOK, BlockInv, PinInv, OnePlace, Allocated, HoldInv, ReaderInv, Tagged, PinOf,
      Pinned, Empty, Inactive, Retired, GcMin, Goto, shared, heap, thread, history
<1>16. CASE GcHead(t)
  BY <1>16 DEF TypeOK, BlockInv, PinInv, OnePlace, Allocated, HoldInv, ReaderInv, Tagged, PinOf,
      Pinned, Empty, Inactive, Retired, GcHead, Goto, shared, heap, thread, history
<1>17. CASE GcScanned(t)
  BY <1>17 DEF TypeOK, BlockInv, PinInv, OnePlace, Allocated, HoldInv, ReaderInv, Tagged, PinOf,
      Pinned, Empty, Inactive, Retired, GcScanned, Goto, shared, heap, thread, history
<1>18. CASE GcAdvance(t)
  BY <1>18 DEF TypeOK, BlockInv, PinInv, OnePlace, Allocated, HoldInv, ReaderInv, Tagged, PinOf,
      Pinned, Empty, Inactive, Retired, GcAdvance, Goto, Drained, shared, heap, thread, history
<1>19. CASE GcFree(t)
  <2>1. UNCHANGED <<old, tls_tcb, todo, awaited, local_epoch>>
    BY <1>19 DEF GcFree, history
  <2>2. /\ \A u \in Threads \ {t} : pc'[u] = pc[u] /\ min_epoch'[u] = min_epoch[u]
        /\ pc[t] = "free" /\ pc'[t] = "idle"
    BY <1>19 DEF GcFree, Goto, TypeOK
  <2>3. \A c \in Tcbs : retirement_batches'[c] \subseteq retirement_batches[c]
    BY <1>19 DEF GcFree, TypeOK
  <2>4. {u \in Threads : pc'[u] = "batch"} = {u \in Threads : pc[u] = "batch"}
    BY <2>2
  <2>5. Tagged' \subseteq Tagged /\ freed' \subseteq freed \cup Tagged
    <3>1. Tagged' \subseteq Tagged
      <4>1. \A c \in Tcbs : Retired(c)' \subseteq Retired(c)
        BY <2>3 DEF Retired
      <4> QED
        BY <2>1, <2>4, <4>1 DEF Tagged
    <3>2. CASE tls_tcb[t] = NoTcb
      BY <1>19, <3>1, <3>2 DEF GcFree
    <3>3. CASE tls_tcb[t] # NoTcb
      <4>1. tls_tcb[t] \in Tcbs
        BY <3>3 DEF TypeOK
      <4>2. freed' \subseteq freed \cup Retired(tls_tcb[t])
        BY <1>19, <3>3 DEF GcFree, Retired
      <4> QED
        BY <3>1, <4>1, <4>2 DEF Tagged
    <3> QED
      BY <3>2, <3>3
  <2>6. UNCHANGED <<critical_depth, ptr, store_buffer, early, misled, allocated>>
    BY <1>19 DEF GcFree, history
  <2>7. Pinned' = Pinned
    BY <2>2, <2>6 DEF Pinned
  <2> QED
    BY <2>1, <2>2, <2>5, <2>6, <2>7 DEF ReaderInv
<1>20. ASSUME NEW b \in Tcbs, GcScan(t, b) PROVE ReaderInv'
  BY <1>20 DEF TypeOK, BlockInv, PinInv, OnePlace, Allocated, HoldInv, ReaderInv, Tagged, PinOf,
      Pinned, Empty, Inactive, Retired, GcScan, Local, shared, heap, thread, history
<1> QED
  BY <1>1, <1>2, <1>3, <1>4, <1>5, <1>6, <1>7, <1>8, <1>9, <1>10, <1>11, <1>12, <1>13, <1>14,
      <1>15, <1>16, <1>17, <1>18, <1>19, <1>20 DEF Step, GcStep

LEMMA InitInv == Init => EbrInv
  BY DEF Init, EbrInv, TypeOK, OnePlace, Allocated, BlockInv, PinInv, HoldInv, GcInv, ReaderInv,
      Pinned, Tagged, Retired, Empty, Inactive

(* What a reader of ReaderInv holds awaits it, and is not freed.           *)
LEMMA Safe == EbrInv => NoUseAfterFree
<1> SUFFICES ASSUME EbrInv, NEW t \in Threads \ (early \cup misled), ptr[t] \in freed PROVE FALSE
  BY DEF NoUseAfterFree
<1>1. ptr[t] # NoNode /\ ptr[t] \in Nodes
  BY DEF EbrInv, TypeOK
<1>2. ptr[t] \in Tagged
  BY <1>1 DEF EbrInv, ReaderInv, GcInv
<1>3. CASE ptr[t] \in {old[u] : u \in {v \in Threads : pc[v] = "batch"}}
  BY <1>1, <1>3 DEF EbrInv, OnePlace
<1>4. CASE ptr[t] \in UNION {Retired(b) : b \in Tcbs}
  BY <1>4 DEF EbrInv, OnePlace
<1> QED
  BY <1>2, <1>3, <1>4 DEF Tagged

LEMMA StepInv == EbrInv /\ [Next]_vars => EbrInv'
  BY TypeStep, BlockStep, PinStep, PlaceStep, HoldStep, GcInvStep, ReaderStep DEF EbrInv

(* The invariant of every behaviour.                                       *)
THEOREM Invariance == Spec => []EbrInv
  BY InitInv, StepInv, PTL DEF Spec

(* Every variable keeps its type.                                          *)
THEOREM TypeCorrect == Spec => []TypeOK
  BY Invariance, PTL DEF EbrInv

(* Gc frees no node under a reader that followed the pointer once its pin  *)
(* was visible, and was not led by a table that is not replaced yet to     *)
(* everybody, whatever stores of pins and tables are delayed.              *)
THEOREM ReclamationSafe == Spec => []NoUseAfterFree
  BY Invariance, Safe, PTL

(* Nothing is freed twice, or freed while the last writer's link leads to it. *)
THEOREM RetiredOnce == Spec => []OnePlace
  BY Invariance, PTL DEF EbrInv

-----------------------------------------------------------------------------
(* Only a pin that becomes visible adds a thread to those that are waited  *)
(* for.                                                                    *)
LEMMA PinsEnter ==
  ASSUME EbrInv, NEW t \in Threads, Pin(t) \/ Drain(t)
  PROVE  Periods!Enter(t) \/ UNCHANGED <<Pinned, Waits>>
<1>1. UNCHANGED <<retirement_batches, old, awaited, critical_depth>>
  BY DEF Pin, Drain, shared, heap, thread, history
<1>2. pc' = pc \/ (pc[t] = "pin" /\ pc' = [pc EXCEPT ![t] = "idle"])
  BY DEF Pin, Drain, Goto, shared, heap, thread
<1>3. UNCHANGED Waits
  <2>1. {u \in Threads : pc'[u] = "batch"} = {u \in Threads : pc[u] = "batch"}
    BY <1>2 DEF EbrInv, TypeOK
  <2>2. Tagged' = Tagged
    BY <1>1, <2>1 DEF Tagged, Retired
  <2> QED
    BY <1>1, <2>2 DEF Waits
<1>4. \A u \in Threads \ {t} : pc'[u] = pc[u] /\ store_buffer'[u] = store_buffer[u]
  BY <1>2 DEF Pin, Drain, StoreLocal, EbrInv, TypeOK
<1>5. Pinned' \ {t} = Pinned \ {t}
  BY <1>1, <1>4 DEF Pinned
<1>6. t \in Pinned => t \in Pinned'
  BY <1>1, <1>2 DEF Pinned, Pin, Drain, StoreLocal, EbrInv, TypeOK
<1> QED
  BY <1>3, <1>5, <1>6 DEF Periods!Enter

LEMMA Leaving ==
  ASSUME EbrInv, NEW t \in Threads, ExitCritical(t)
  PROVE  Periods!Leave(t) \/ UNCHANGED <<Pinned, Waits>>
<1>1. UNCHANGED <<retirement_batches, old, pc>>
  BY DEF ExitCritical
<1>2. Tagged' = Tagged
  BY <1>1 DEF Tagged, Retired
<1>3. CASE critical_depth[t] # 1
  <2>1. UNCHANGED <<awaited, store_buffer>> /\ critical_depth[t] > 0
    BY <1>3 DEF ExitCritical, history
  <2>2. \A u \in Threads : critical_depth'[u] > 0 <=> critical_depth[u] > 0
    BY <1>3, <2>1 DEF ExitCritical, EbrInv, TypeOK
  <2> QED
    BY <1>1, <1>2, <2>1, <2>2 DEF Pinned, Waits
<1>4. CASE critical_depth[t] = 1
  <2>1. \A n \in Nodes : awaited'[n] = awaited[n] \ {t}
    BY <1>4 DEF ExitCritical, Left
  <2>2. \A u \in Threads : critical_depth'[u] = IF u = t THEN 0 ELSE critical_depth[u]
    BY <1>4 DEF ExitCritical, EbrInv, TypeOK
  <2>3. \A u \in Threads \ {t} : store_buffer'[u] = store_buffer[u]
    BY <1>4 DEF ExitCritical, StoreLocal, EbrInv, TypeOK
  <2>4. Pinned' = Pinned \ {t}
    BY <1>1, <2>2, <2>3 DEF Pinned
  <2>5. Tagged \subseteq Nodes
    BY DEF Tagged, Retired, EbrInv, TypeOK, BlockInv
  <2>6. Waits' = {<<x[1], x[2] \ {t}>> : x \in Waits}
    <3>1. Waits' = {<<n, awaited[n] \ {t}>> : n \in Tagged}
      BY <1>2, <2>1, <2>5 DEF Waits
    <3> DEFINE Entry(n) == <<n, awaited[n]>>
               Less(x) == <<x[1], x[2] \ {t}>>
    <3>2. \A n \in Tagged : Less(Entry(n)) = <<n, awaited[n] \ {t}>>
      OBVIOUS
    <3>3. Waits = {Entry(n) : n \in Tagged}
      BY DEF Waits
    <3>4. Waits' = {Less(Entry(n)) : n \in Tagged}
      BY <3>1, <3>2
    <3>5. {Less(Entry(n)) : n \in Tagged} = {Less(x) : x \in Waits}
      <4> HIDE DEF Entry, Less
      <4> QED
        BY <3>3
    <3> QED
      BY <3>4, <3>5
  <2> QED
    BY <2>4, <2>6 DEF Periods!Leave
<1> QED
  BY <1>3, <1>4

(* The node that Retire tags was not tagged before, and awaits the pinned. *)
LEMMA Tagging ==
  ASSUME EbrInv, NEW t \in Threads, RetireLoad(t)
  PROVE  \E n \in Nodes : Periods!Retire(n)
<1>1. PICK n \in Nodes : n = old[t]
  BY DEF RetireLoad, EbrInv, BlockInv, TypeOK
<1>2. UNCHANGED <<retirement_batches, old, critical_depth, store_buffer>>
  BY DEF RetireLoad, shared, heap, thread
<1>3. /\ pc[t] = "retire" /\ pc'[t] = "batch"
      /\ \A u \in Threads \ {t} : pc'[u] = pc[u]
  BY DEF RetireLoad, Goto, EbrInv, TypeOK
<1>4. Pinned' = Pinned
  BY <1>2, <1>3 DEF Pinned
<1>5. awaited' = [awaited EXCEPT ![n] = Pinned]
  BY <1>1 DEF RetireLoad
<1>6. Tagged' = Tagged \cup {n}
  <2>1. {u \in Threads : pc'[u] = "batch"} = {u \in Threads : pc[u] = "batch"} \cup {t}
    BY <1>3
  <2> QED
    BY <1>1, <1>2, <2>1 DEF Tagged, Retired
<1>7. n \notin Tagged
  <2>1. n \notin {old[u] : u \in {v \in Threads : pc[v] = "batch"}}
    BY <1>1, <1>3 DEF EbrInv, OnePlace
  <2>2. n \notin UNION {Retired(b) : b \in Tcbs}
    BY <1>1 DEF EbrInv, OnePlace
  <2> QED
    BY <2>1, <2>2 DEF Tagged
<1>8. Tagged \subseteq Nodes
  BY DEF Tagged, Retired, EbrInv, TypeOK, BlockInv
<1>9. \A m \in Tagged : awaited'[m] = awaited[m]
  BY <1>5, <1>7, <1>8 DEF EbrInv, TypeOK
<1>10. awaited'[n] = Pinned
  BY <1>5 DEF EbrInv, TypeOK
<1>11. Waits' = Waits \cup {<<n, Pinned>>}
  BY <1>6, <1>9, <1>10 DEF Waits
<1> QED
  BY <1>4, <1>11 DEF Periods!Retire

(* What Gc frees awaits nobody: what awaits somebody is tagged, before and *)
(* after.                                                                  *)
LEMMA Freeing ==
  ASSUME EbrInv, EbrInv', NEW t \in Threads, GcFree(t)
  PROVE  (\E past \in SUBSET Waits : Periods!Reclaim(past)) \/ UNCHANGED <<Pinned, Waits>>
<1>1. UNCHANGED <<old, critical_depth, store_buffer, awaited>>
  BY DEF GcFree, history
<1>2. /\ pc[t] = "free" /\ pc'[t] = "idle"
      /\ \A u \in Threads \ {t} : pc'[u] = pc[u]
  BY DEF GcFree, Goto, EbrInv, TypeOK
<1>3. Pinned' = Pinned
  BY <1>1, <1>2 DEF Pinned
<1>4. Tagged' \subseteq Tagged
  <2>1. \A c \in Tcbs : retirement_batches'[c] \subseteq retirement_batches[c]
    BY DEF GcFree, EbrInv, TypeOK
  <2>2. {u \in Threads : pc'[u] = "batch"} = {u \in Threads : pc[u] = "batch"}
    BY <1>2
  <2>3. \A c \in Tcbs : Retired(c)' \subseteq Retired(c)
    BY <2>1 DEF Retired
  <2> QED
    BY <1>1, <2>2, <2>3 DEF Tagged
<1>5. Tagged \subseteq Nodes
  BY DEF Tagged, Retired, EbrInv, TypeOK, BlockInv
<1>6. \A n \in Tagged \ Tagged' : awaited[n] = {}
  BY <1>1, <1>5 DEF EbrInv, GcInv
<1> DEFINE past == {<<n, awaited[n]>> : n \in Tagged \ Tagged'}
<1>7. \A n \in Tagged : <<n, awaited[n]>>[1] = n /\ <<n, awaited[n]>>[2] = awaited[n]
  OBVIOUS
<1>8. past \subseteq {x \in Waits : x[2] = {}}
  BY <1>6, <1>7 DEF Waits
<1>9. Waits' = Waits \ past
  <2>1. Waits' = {<<n, awaited[n]>> : n \in Tagged'}
    BY <1>1 DEF Waits
  <2>2. \A m, n \in Tagged : <<m, awaited[m]>> = <<n, awaited[n]>> => m = n
    BY <1>7
  <2> QED
    BY <1>4, <2>1, <2>2 DEF Waits
<1>10. CASE past = {}
  BY <1>3, <1>9, <1>10
<1>11. CASE past # {}
  <2>1. Periods!Reclaim(past)
    BY <1>3, <1>8, <1>9, <1>11 DEF Periods!Reclaim
  <2> QED
    BY <1>8, <2>1
<1> QED
  BY <1>10, <1>11

(* No other step changes who waits for whom.                               *)
LEMMA OthersStutter ==
  ASSUME EbrInv, NEW t \in Threads, Step(t),
         ~ (Pin(t) \/ Drain(t) \/ ExitCritical(t) \/ RetireLoad(t) \/ GcFree(t))
  PROVE  UNCHANGED <<Pinned, Waits>>
<1> DEFINE Quiet == /\ UNCHANGED <<store_buffer, awaited>>
                    /\ \A u \in Threads : critical_depth'[u] > 0 /\ pc'[u] # "pin"
                                            <=> critical_depth[u] > 0 /\ pc[u] # "pin"
                    /\ Tagged' = Tagged
<1>1. ASSUME Quiet PROVE UNCHANGED <<Pinned, Waits>>
  BY <1>1 DEF Pinned, Waits
<1>2. ASSUME UNCHANGED <<retirement_batches, old, store_buffer, awaited>>,
             \A u \in Threads : critical_depth'[u] > 0 /\ pc'[u] # "pin"
                                  <=> critical_depth[u] > 0 /\ pc[u] # "pin",
             \A u \in Threads : pc'[u] = "batch" <=> pc[u] = "batch"
      PROVE  Quiet
  BY <1>2 DEF Tagged, Retired
<1> HIDE DEF Quiet
<1>3. CASE RegisterThread(t) \/ UnregisterThread(t) \/ Publish(t)
  BY <1>1, <1>2, <1>3 DEF RegisterThread, UnregisterThread, Publish, shared, heap, thread, history
<1>4. CASE EnterNested(t) \/ EnterCritical(t) \/ Follow(t)
  BY <1>1, <1>2, <1>4 DEF EnterNested, EnterCritical, Follow, Goto, Idle, shared, heap, thread,
      history, EbrInv, TypeOK
<1>5. CASE Replace(t) \/ ReplaceTable(t)
  <2>1. /\ UNCHANGED <<retirement_batches, store_buffer, awaited, critical_depth>>
        /\ pc[t] = "idle" /\ pc'[t] = "retire"
        /\ \A u \in Threads \ {t} : pc'[u] = pc[u] /\ old'[u] = old[u]
    BY <1>5 DEF Replace, ReplaceTable, Swap, Idle, Goto, shared, thread, history, EbrInv, TypeOK
  <2>2. {old'[u] : u \in {v \in Threads : pc'[v] = "batch"}}
          = {old[u] : u \in {v \in Threads : pc[v] = "batch"}}
    BY <2>1
  <2>3. Tagged' = Tagged
    BY <2>1, <2>2 DEF Tagged, Retired
  <2>4. \A u \in Threads : critical_depth'[u] > 0 /\ pc'[u] # "pin"
                             <=> critical_depth[u] > 0 /\ pc[u] # "pin"
    BY <2>1
  <2> QED
    BY <1>1, <2>1, <2>3, <2>4 DEF Quiet
<1>6. CASE Retire(t)
  <2>1. UNCHANGED <<tls_tcb, awaited, store_buffer, critical_depth>> /\ pc[t] = "batch"
    BY <1>6 DEF Retire, shared, history
  <2>2. /\ \A u \in Threads \ {t} : pc'[u] = pc[u] /\ old'[u] = old[u]
        /\ pc'[t] \in {"gc", "idle"}
    BY <1>6 DEF Retire, Goto, EbrInv, TypeOK
  <2>3. PICK own \in Tcbs : own = tls_tcb[t]
    BY <1>6 DEF Retire, EbrInv, BlockInv, TypeOK
  <2>4. \A c \in Tcbs : retirement_batches'[c] =
          IF c = own THEN retirement_batches[c] \cup {<<epoch[t], old[t]>>} ELSE retirement_batches[c]
    BY <1>6, <2>3 DEF Retire, EbrInv, TypeOK
  <2>5. \A c \in Tcbs : Retired(c)' = IF c = own THEN Retired(c) \cup {old[t]} ELSE Retired(c)
    <3>1. Retired(own)' = Retired(own) \cup {old[t]}
      <4>1. <<epoch[t], old[t]>>[2] = old[t]
        OBVIOUS
      <4> QED
        BY <2>4, <4>1 DEF Retired
    <3>2. \A c \in Tcbs \ {own} : Retired(c)' = Retired(c)
      BY <2>4 DEF Retired
    <3> QED
      BY <3>1, <3>2
  <2>6. Tagged' = Tagged
    <3>1. {old'[u] : u \in {v \in Threads : pc'[v] = "batch"}} \cup {old[t]}
            = {old[u] : u \in {v \in Threads : pc[v] = "batch"}}
      BY <2>1, <2>2
    <3>2. UNION {Retired(c)' : c \in Tcbs} = (UNION {Retired(c) : c \in Tcbs}) \cup {old[t]}
      BY <2>5
    <3> QED
      BY <3>1, <3>2 DEF Tagged
  <2>7. \A u \in Threads : critical_depth'[u] > 0 /\ pc'[u] # "pin"
                             <=> critical_depth[u] > 0 /\ pc[u] # "pin"
    BY <2>1, <2>2
  <2> QED
    BY <1>1, <2>1, <2>6, <2>7 DEF Quiet
<1>7. CASE Gc(t) \/ GcMin(t) \/ GcHead(t) \/ GcScanned(t) \/ GcAdvance(t)
           \/ \E b \in Tcbs : GcScan(t, b)
  BY <1>1, <1>2, <1>7 DEF Gc, GcMin, GcHead, GcScanned, GcAdvance, GcScan, Goto, Idle, shared, heap,
      thread, history, EbrInv, TypeOK
<1> QED
  BY <1>3, <1>4, <1>5, <1>6, <1>7 DEF Step, GcStep

LEMMA PeriodsInit == Init => Periods!Init
  BY DEF Init, Periods!Init, Pinned, Waits, Tagged, Retired

LEMMA PeriodsStep ==
  ASSUME EbrInv, EbrInv', [Next]_vars
  PROVE  [Periods!Next]_<<Pinned, Waits>>
<1>0. CASE UNCHANGED vars
  BY <1>0 DEF vars, shared, heap, thread, history, Pinned, Waits, Tagged, Retired
<1> SUFFICES ASSUME NEW t \in Threads, Step(t)
             PROVE  [Periods!Next]_<<Pinned, Waits>>
  BY <1>0 DEF Next
<1>1. CASE Pin(t) \/ Drain(t)
  BY <1>1, PinsEnter DEF Periods!Next
<1>2. CASE ExitCritical(t)
  BY <1>2, Leaving DEF Periods!Next
<1>3. CASE RetireLoad(t)
  BY <1>3, Tagging DEF Periods!Next
<1>4. CASE GcFree(t)
  BY <1>4, Freeing DEF Periods!Next
<1> QED
  BY <1>1, <1>2, <1>3, <1>4, OthersStutter

(* Whatever is delayed, what Gc frees awaits nobody whose pin was visible  *)
(* when Retire loaded the epoch: registering, leaving and collecting of    *)
(* threads implement GracePeriods.                                         *)
THEOREM GracePeriodsKept == Spec => ImplementsGracePeriods
<1>1. EbrInv /\ EbrInv' /\ [Next]_vars => [Periods!Next]_<<Pinned, Waits>>
  BY PeriodsStep
<1>2. Spec => Periods!Init /\ [][Periods!Next]_<<Pinned, Waits>>
  BY <1>1, PeriodsInit, Invariance, PTL DEF Spec
<1> QED
  BY <1>2 DEF ImplementsGracePeriods, Periods!Spec
=============================================================================
