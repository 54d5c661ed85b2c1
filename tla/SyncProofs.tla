----------------------------- MODULE SyncProofs -------------------------------
(***************************************************************************)
(* Proofs about two primitives of gpos that threads share: CEvent, with    *)
(* its totals and snapshots, implements what EventWaiters promises to its  *)
(* callers; and objects of a CSyncPool have one owner and none is lost.    *)
(* Both for any finite number of threads.                                  *)
(***************************************************************************)
EXTENDS Event, SyncPool, FiniteSetTheorems, TLAPS

(* Event *)

\* m_ulWaiters counts the waiters, and a snapshot is never ahead of its total.
Counted ==
    /\ TypeOK
    /\ ulWaiters = Cardinality(Waiting)
    /\ \A t \in Waiting :
          signalsPrevious[t] <= ulSignalsTotal /\ broadcastsPrevious[t] <= ulBroadcastsTotal

\* The threads that wait can be counted.
LEMMA WaitingFinite == IsFiniteSet(Waiting) /\ Waiting \subseteq Threads
  BY ThreadsAssumption, FS_Subset DEF Waiting

\* "ulWaiters > 0", which Signal and Broadcast ask, is whether anybody waits.
LEMMA SomebodyWaits == Counted => (ulWaiters > 0 <=> Waiting # {})
  BY WaitingFinite, FS_EmptySet, FS_CardinalityType DEF Counted

\* At first nobody waits.
LEMMA EventInit == Init => Counted
<1>. SUFFICES ASSUME Init PROVE Counted
  OBVIOUS
<1>1. Waiting = {}
  BY DEF Init, Waiting
<1>. QED
  BY <1>1, FS_EmptySet DEF Init, Counted, TypeOK, Places

\* The steps of the event by what they do to the set of waiters.
LEMMA SameWaiters ==
  ASSUME Counted, NEW t \in Threads,
         Lock(t) \/ Unlock(t) \/ Signal(t) \/ Broadcast(t) \/ Regain(t) \/ SleepAgain(t)
  PROVE  Waiting' = Waiting
  BY DEF Counted, TypeOK, Waiting, Places, Lock, Unlock, Signal, Broadcast, Regain, SleepAgain

\* StartWait adds the thread to those that wait.
LEMMA Enters ==
  ASSUME Counted, NEW t \in Threads, StartWait(t)
  PROVE  t \notin Waiting /\ Waiting' = Waiting \union {t}
  BY DEF Counted, TypeOK, Waiting, Places, StartWait

\* Return takes it out.
LEMMA Leaves ==
  ASSUME Counted, NEW t \in Threads, at[t] = "looking", Return(t)
  PROVE  t \in Waiting /\ Waiting' = Waiting \ {t}
  BY DEF Counted, TypeOK, Waiting, Places, Return

\* Each step keeps the counters in order.
LEMMA EventNext == Counted /\ [Next]_vars => Counted'
<1>. SUFFICES ASSUME Counted, [Next]_vars PROVE Counted'
  OBVIOUS
<1>. USE DEF counters, locals
<1>0. TypeOK'
  <2>1. ASSUME NEW t \in Threads, at[t] = "looking" PROVE ulWaiters - 1 \in Nat
    BY <2>1, SomebodyWaits DEF Waiting, Counted, TypeOK
  <2>2. ASSUME NEW t \in Threads, WakeByBroadcast(t) \/ WakeBySignal(t) \/ GiveUp(t)
        PROVE  TypeOK'
    BY <2>1, <2>2
    DEF WakeByBroadcast, WakeBySignal, GiveUp, GotSignal, Return, Counted, TypeOK, Places
  <2>3. ASSUME NEW t \in Threads,
               \/ Lock(t) \/ Unlock(t) \/ Signal(t) \/ Broadcast(t) \/ StartWait(t)
               \/ Regain(t) \/ SleepAgain(t)
        PROVE  TypeOK'
    BY <2>3
    DEF Lock, Unlock, Signal, Broadcast, StartWait, Regain, SleepAgain, Counted, TypeOK, Places
  <2>4. CASE UNCHANGED vars
    BY <2>4 DEF vars, Counted, TypeOK
  <2>. QED
    BY <2>2, <2>3, <2>4 DEF Next
<1>1. ASSUME NEW t \in Threads,
             Lock(t) \/ Unlock(t) \/ Signal(t) \/ Broadcast(t) \/ Regain(t) \/ SleepAgain(t)
      PROVE  Counted'
  BY <1>0, <1>1, SameWaiters, WaitingFinite
  DEF Lock, Unlock, Signal, Broadcast, Regain, SleepAgain, Counted, TypeOK
<1>2. ASSUME NEW t \in Threads, StartWait(t) PROVE Counted'
  <2>1. Cardinality(Waiting') = Cardinality(Waiting) + 1
    BY <1>2, Enters, WaitingFinite, FS_AddElement
  <2>2. ulWaiters' = Cardinality(Waiting')
    BY <1>2, <2>1 DEF StartWait, Counted
  <2>3. ASSUME NEW u \in Waiting'
        PROVE  /\ signalsPrevious'[u] <= ulSignalsTotal'
               /\ broadcastsPrevious'[u] <= ulBroadcastsTotal'
    <3>1. u = t \/ (u \in Waiting /\ u # t)
      BY <1>2, Enters
    <3>. QED
      BY <1>2, <3>1, WaitingFinite DEF StartWait, Counted, TypeOK
  <2>. QED
    BY <1>0, <2>1, <2>2, <2>3 DEF Counted
<1>3. ASSUME NEW t \in Threads, WakeByBroadcast(t) \/ WakeBySignal(t) \/ GiveUp(t)
      PROVE  Counted'
  <2>1. at[t] = "looking" /\ Return(t)
    BY <1>3 DEF WakeByBroadcast, WakeBySignal, GiveUp
  <2>2. Cardinality(Waiting') = Cardinality(Waiting) - 1
    BY <2>1, Leaves, WaitingFinite, FS_RemoveElement
  <2>. QED
    BY <1>0, <2>1, <2>2, Leaves, WaitingFinite DEF Return, Counted, TypeOK
<1>4. CASE UNCHANGED vars
  BY <1>4 DEF vars, Counted, TypeOK, Waiting
<1>. QED
  BY <1>1, <1>2, <1>3, <1>4 DEF Next

-----------------------------------------------------------------------------
\* The event starts as the promise does.
LEMMA PromiseInit == Init => Promise!Init
  BY DEF Init, Promise!Init, Waiting

\* Each step of the code is a step of the promise or leaves its state alone.
LEMMA PromiseNext == Counted /\ [Next]_vars => [Promise!Next]_Promise!eventVars
<1>. SUFFICES ASSUME Counted, [Next]_vars
              PROVE  Promise!Next \/ UNCHANGED Promise!eventVars
  OBVIOUS
<1>. USE DEF counters, locals
<1>. DEFINE sawSignal == {t \in Waiting : signalsPrevious[t] < ulSignalsTotal}
            sawBroadcast == {t \in Waiting : broadcastsPrevious[t] < ulBroadcastsTotal}
<1>0. Counted'
  BY EventNext
<1>1. ASSUME NEW t \in Threads, Lock(t) \/ Unlock(t) \/ Regain(t) \/ SleepAgain(t)
      PROVE  UNCHANGED Promise!eventVars
  BY <1>1, SameWaiters DEF Lock, Unlock, Regain, SleepAgain, Promise!eventVars
<1>2. ASSUME NEW t \in Threads, Signal(t) PROVE Promise!Signal
  <2>1. Waiting # {} /\ Waiting' = Waiting
    BY <1>2, SomebodyWaits, SameWaiters DEF Signal
  <2>2. sawSignal' = Waiting
    BY <1>2, <2>1 DEF Signal, Counted, TypeOK, Waiting
  <2>. QED
    BY <1>2, <2>1, <2>2 DEF Signal, Promise!Signal
<1>3. ASSUME NEW t \in Threads, Broadcast(t) PROVE Promise!Broadcast
  <2>1. Waiting # {} /\ Waiting' = Waiting
    BY <1>3, SomebodyWaits, SameWaiters DEF Broadcast
  <2>2. sawBroadcast' = Waiting
    BY <1>3, <2>1 DEF Broadcast, Counted, TypeOK, Waiting
  <2>. QED
    BY <1>3, <2>1, <2>2 DEF Broadcast, Promise!Broadcast
<1>4. ASSUME NEW t \in Threads, StartWait(t) PROVE Promise!StartWait(t)
  <2>1. t \notin Waiting /\ Waiting' = Waiting \union {t}
    BY <1>4, Enters
  <2>2. sawSignal' = sawSignal /\ sawBroadcast' = sawBroadcast
    BY <1>4, <2>1 DEF StartWait, Counted, TypeOK, Waiting
  <2>. QED
    BY <1>4, <2>1, <2>2 DEF StartWait, Promise!StartWait
<1>5. ASSUME NEW t \in Threads, at[t] = "looking", Return(t) PROVE Promise!Depart(t)
  <2>1. t \in Waiting /\ Waiting' = Waiting \ {t}
    BY <1>5, Leaves
  <2>. QED
    BY <1>5, <2>1 DEF Return, Promise!Depart
<1>6. ASSUME NEW t \in Threads, WakeByBroadcast(t) PROVE Promise!Wake(t)
  BY <1>5, <1>6 DEF WakeByBroadcast, GotBroadcast, Waiting, Promise!Wake
<1>7. ASSUME NEW t \in Threads, WakeBySignal(t) PROVE Promise!Wake(t)
  BY <1>5, <1>7 DEF WakeBySignal, GotBroadcast, GotSignal, Waiting, Promise!Wake
<1>8. ASSUME NEW t \in Threads, GiveUp(t) PROVE Promise!GiveUp(t)
  BY <1>5, <1>8 DEF GiveUp, GotBroadcast, GotSignal, Waiting, Counted, TypeOK, Promise!GiveUp
<1>9. CASE UNCHANGED vars
  BY <1>9 DEF vars, Waiting, Promise!eventVars
<1>. QED
  BY <1>1, <1>2, <1>3, <1>4, <1>6, <1>7, <1>8, <1>9 DEF Next, Promise!Next

\* The counters of CEvent keep their types, m_ulWaiters counts the waiters.
THEOREM EventTyping == Spec => []TypeOK
<1>1. Counted => TypeOK
  BY DEF Counted
<1>. QED
  BY <1>1, EventInit, EventNext, PTL DEF Spec

\* CEvent implements the promise: which waiters Signal, Broadcast and
\* EresTimedWait let return, and which signals are left, does not depend on the
\* totals it keeps.
THEOREM EventImplementsPromise == Spec => ImplementsPromise
  BY EventInit, EventNext, PromiseInit, PromiseNext, PTL
  DEF Spec, ImplementsPromise, Promise!Spec

-----------------------------------------------------------------------------
(* The object pool *)

PoolInv == PoolTypeOK /\ OneOwner /\ ObjectsAccounted

\* UlpExchangeAdd on m_ulpLast, modulo the number of objects, is a slot.
LEMMA ClockInSlots == \A i \in Nat : (i + 1) % Size \in Slots
  BY SizeAssumption DEF Slots

\* CSyncPool::Init leaves every slot free.
LEMMA PoolBegins == PoolInit => PoolInv
  BY SizeAssumption
  DEF PoolInit, PoolInv, PoolTypeOK, OneOwner, ObjectsAccounted, Slots, Objects, Stages, Holders,
      InUse, BeingFreed, Releasing

\* The strengthening is inductive: the types, one owner, and the ledger of slots
\* support each other in every step.
LEMMA PoolMoves == PoolInv /\ [PoolNext]_poolVars => PoolInv'
<1>. SUFFICES ASSUME PoolInv, [PoolNext]_poolVars PROVE PoolInv'
  OBVIOUS
<1>. USE SizeAssumption, HeapAssumption, SharedAssumption
     DEF PoolInv, PoolTypeOK, OneOwner, ObjectsAccounted, Objects, Stages, Holders,
         InUse, BeingFreed, Releasing, PoolGoto, Gains, ReturnObject, bitmaps, retrieveLocals
<1>0. 0 \in Slots
  BY DEF Slots
<1>1. ASSUME NEW w \in Workers, StartRetrieve(w) PROVE PoolInv'
  BY <1>1 DEF StartRetrieve
<1>2. ASSUME NEW w \in Workers, AdvanceClock(w) PROVE PoolInv'
  BY <1>2, ClockInSlots DEF AdvanceClock, Slots
<1>3. ASSUME NEW w \in Workers, Reserve(w) PROVE PoolInv'
  BY <1>0, <1>3 DEF Reserve
<1>4. ASSUME NEW w \in Workers, FailReserve(w) PROVE PoolInv'
  BY <1>4 DEF FailReserve
<1>5. ASSUME NEW w \in Workers, Unmark(w) PROVE PoolInv'
  BY <1>5 DEF Unmark
<1>6. ASSUME NEW w \in Workers, Unreserve(w) PROVE PoolInv'
  BY <1>6 DEF Unreserve
<1>7. ASSUME NEW w \in Workers, Allocate(w) PROVE PoolInv'
  BY <1>0, <1>7 DEF Allocate
<1>8. ASSUME NEW w \in Workers, OutOfMemory(w) PROVE PoolInv'
  BY <1>0, <1>8 DEF OutOfMemory
<1>9. ASSUME NEW w \in Workers, NEW o \in Objects, Recycle(w, o) PROVE PoolInv'
  BY <1>9 DEF Recycle
<1>10. ASSUME NEW w \in Workers, NEW o \in Objects, HandOver(w, o) PROVE PoolInv'
  BY <1>10 DEF HandOver, Put, Take
<1>11. CASE UNCHANGED poolVars
  BY <1>11 DEF poolVars
<1>. QED
  BY <1>1, <1>2, <1>3, <1>4, <1>5, <1>6, <1>7, <1>8, <1>9, <1>10, <1>11 DEF PoolNext, Retrieving

\* The state of CSyncPool keeps its types.
THEOREM PoolTyping == PoolSpec => []PoolTypeOK
<1>1. PoolInv => PoolTypeOK
  BY DEF PoolInv
<1>. QED
  BY <1>1, PoolBegins, PoolMoves, PTL DEF PoolSpec

\* PtRetrieve never gives an object that another thread holds.
THEOREM PoolOneOwner == PoolSpec => []OneOwner
<1>1. PoolInv => OneOwner
  BY DEF PoolInv
<1>. QED
  BY <1>1, PoolBegins, PoolMoves, PTL DEF PoolSpec

\* The bitmaps say of every object whose it is: PtRetrieve and Recycle lose no
\* object, and the two assertions about the bits hold.
THEOREM PoolObjectsAccounted == PoolSpec => []ObjectsAccounted
<1>1. PoolInv => ObjectsAccounted
  BY DEF PoolInv
<1>. QED
  BY <1>1, PoolBegins, PoolMoves, PTL DEF PoolSpec
=============================================================================
