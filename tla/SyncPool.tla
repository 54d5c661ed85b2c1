------------------------------ MODULE SyncPool -------------------------------
(***************************************************************************)
(* gpos::CSyncPool: a pool of objects that threads retrieve and recycle    *)
(* without a lock.  Each object of the array has a reserved and a recycled *)
(* bit.  A clock shared by all threads picks the next object to look at: a *)
(* free object is reserved; a recycled one only becomes free, to be found  *)
(* when the clock comes round again.                                       *)
(*                                                                         *)
(* FSetBit and FUnsetBit retry until they set the bit or see it set, so    *)
(* each is one step on its bit, and the two bitmaps are sets of slots.     *)
(* m_ulpLast is kept modulo the number of objects, all the code looks at.  *)
(***************************************************************************)
EXTENDS Naturals

CONSTANTS
    Workers,
    Shared,      \* what threads hand objects to: a list, for one
    Size,        \* m_ulObjs
    HeapObjects, \* bound: what the allocator can return when the pool is used up
    None

Slots == 0..(Size - 1)
Objects == Slots \union HeapObjects

ASSUME SizeAssumption == Size \in Nat \ {0}
ASSUME HeapAssumption == HeapObjects \intersect Slots = {}
ASSUME NoneAssumption == None \notin Objects
ASSUME SharedAssumption == Shared \notin Workers

Holders == Workers \union {Shared}

VARIABLES
    reserved,  \* m_rgulBitMapReserved: the slots whose bit is set
    recycled,  \* m_rgulBitMapRecycled
    last,      \* m_ulpLast % m_ulObjs
    heap,      \* objects made with GPOS_NEW and not yet deleted
    poolAt,    \* where each thread is in PtRetrieve
    index,     \* ulpIndex
    tries,     \* the loop counter i
    held       \* the objects retrieved and not recycled, by who has them

bitmaps == <<reserved, recycled>>
retrieveLocals == <<index, tries>>
poolVars == <<bitmaps, last, heap, poolAt, retrieveLocals, held>>

Stages == {"idle", "clock", "reserve", "unmark", "unreserve"}

PoolTypeOK ==
    /\ reserved \subseteq Slots /\ recycled \subseteq Slots
    /\ last \in Slots
    /\ heap \subseteq HeapObjects
    /\ poolAt \in [Workers -> Stages]
    /\ index \in [Workers -> Slots]
    /\ tries \in [Workers -> 0..(2 * Size)]
    /\ held \in [Holders -> SUBSET Objects]

PoolInit ==
    /\ reserved = {} /\ recycled = {} /\ last = 0 /\ heap = {}
    /\ poolAt = [w \in Workers |-> "idle"]
    /\ index = [w \in Workers |-> 0]
    /\ tries = [w \in Workers |-> 0]
    /\ held = [w \in Holders |-> {}]

PoolGoto(w, stage) == poolAt' = [poolAt EXCEPT ![w] = stage]
Gains(w, o) == held' = [held EXCEPT ![w] = @ \union {o}]

\* PtRetrieve returns: its locals are gone.
ReturnObject(w) ==
    /\ PoolGoto(w, "idle")
    /\ index' = [index EXCEPT ![w] = 0]
    /\ tries' = [tries EXCEPT ![w] = 0]

-----------------------------------------------------------------------------
\* The call of PtRetrieve.
StartRetrieve(w) ==
    /\ poolAt[w] = "idle"
    /\ PoolGoto(w, "clock")
    /\ UNCHANGED <<bitmaps, last, heap, retrieveLocals, held>>

\* A mutant that counts rounds by the clock instead of by its own tries.
AdvanceClock_NoCount(w) ==
    /\ poolAt[w] = "clock" /\ tries[w] < 2 * Size
    /\ last' = (last + 1) % Size
    /\ index' = [index EXCEPT ![w] = last]
    /\ tries' = [tries EXCEPT ![w] = IF last + 1 = Size THEN @ + Size ELSE @]
    /\ PoolGoto(w, "reserve")
    /\ UNCHANGED <<bitmaps, heap, held>>

\* "two full clock rotations", less what other callers take from them.
AdvanceClock(w) ==
    /\ poolAt[w] = "clock" /\ tries[w] < 2 * Size
    /\ last' = (last + 1) % Size
    /\ index' = [index EXCEPT ![w] = last]
    /\ tries' = [tries EXCEPT ![w] = @ + 1]
    /\ PoolGoto(w, "reserve")
    /\ UNCHANGED <<bitmaps, heap, held>>

\* FSetBit finds the reserved bit unset: the object is the caller's.
Reserve(w) ==
    /\ poolAt[w] = "reserve" /\ index[w] \notin reserved
    /\ reserved' = reserved \union {index[w]}
    /\ Gains(w, index[w])
    /\ ReturnObject(w)
    /\ UNCHANGED <<recycled, last, heap>>

\* A mutant that frees a reserved object without a look at the recycled bit.
FailReserve_NoTest(w) ==
    /\ poolAt[w] = "reserve" /\ index[w] \in reserved
    /\ PoolGoto(w, "unreserve")
    /\ UNCHANGED <<bitmaps, last, heap, retrieveLocals, held>>

\* The bit is set already; the caller goes on to the recycled bit.
FailReserve(w) ==
    /\ poolAt[w] = "reserve" /\ index[w] \in reserved
    /\ PoolGoto(w, "unmark")
    /\ UNCHANGED <<bitmaps, last, heap, retrieveLocals, held>>

\* A mutant that tests the recycled bit and does not clear it.
Unmark_Keeps(w) ==
    /\ poolAt[w] = "unmark"
    /\ IF index[w] \in recycled THEN PoolGoto(w, "unreserve") ELSE PoolGoto(w, "clock")
    /\ UNCHANGED <<bitmaps, last, heap, retrieveLocals, held>>

\* The test of the recycled bit and FUnsetBit, which can still find it unset:
\* then another caller has cleared it and goes on to free the object.
Unmark(w) ==
    /\ poolAt[w] = "unmark"
    /\ IF index[w] \in recycled THEN PoolGoto(w, "unreserve") ELSE PoolGoto(w, "clock")
    /\ recycled' = recycled \ {index[w]}
    /\ UNCHANGED <<reserved, last, heap, retrieveLocals, held>>

\* A mutant that reserves the recycled object for itself at once.
Unreserve_Takes(w) ==
    /\ poolAt[w] = "unreserve"
    /\ Gains(w, index[w])
    /\ ReturnObject(w)
    /\ UNCHANGED <<bitmaps, last, heap>>

\* "unset the reserve bit - must succeed"
Unreserve(w) ==
    /\ poolAt[w] = "unreserve"
    /\ reserved' = reserved \ {index[w]}
    /\ PoolGoto(w, "clock")
    /\ UNCHANGED <<recycled, last, heap, retrieveLocals, held>>

\* "no object is currently available, create a new one", with id ULONG_MAX.
Allocate(w) ==
    /\ poolAt[w] = "clock" /\ tries[w] = 2 * Size
    /\ \E o \in HeapObjects \ heap :
         /\ heap' = heap \union {o}
         /\ Gains(w, o)
    /\ ReturnObject(w)
    /\ UNCHANGED <<bitmaps, last>>

\* GPOS_NEW may raise: PtRetrieve returns nothing.
OutOfMemory(w) ==
    /\ poolAt[w] = "clock" /\ tries[w] = 2 * Size
    /\ ReturnObject(w)
    /\ UNCHANGED <<bitmaps, last, heap, held>>

\* Recycle by the thread that holds the object: an object of the array is
\* marked, one from the heap deleted.
Recycle(w, o) ==
    /\ poolAt[w] = "idle" /\ o \in held[w]
    /\ held' = [held EXCEPT ![w] = @ \ {o}]
    /\ recycled' = IF o \in Slots THEN recycled \union {o} ELSE recycled
    /\ heap' = heap \ {o}
    /\ UNCHANGED <<reserved, last, poolAt, retrieveLocals>>

\* A thread hands an object on, for any thread to take.
Put(w, o) == held' = [held EXCEPT ![w] = @ \ {o}, ![Shared] = @ \union {o}]
Take(w, o) == held' = [held EXCEPT ![Shared] = @ \ {o}, ![w] = @ \union {o}]

HandOver(w, o) ==
    /\ \/ o \in held[w] /\ Put(w, o)
       \/ o \in held[Shared] /\ Take(w, o)
    /\ UNCHANGED <<bitmaps, last, heap, poolAt, retrieveLocals>>

Retrieving(w) ==
    \/ AdvanceClock(w) \/ Reserve(w) \/ FailReserve(w) \/ Unmark(w) \/ Unreserve(w)
    \/ Allocate(w) \/ OutOfMemory(w)

PoolNext ==
    \E w \in Workers :
      \/ StartRetrieve(w) \/ Retrieving(w)
      \/ \E o \in Objects : Recycle(w, o) \/ HandOver(w, o)

PoolSpec == PoolInit /\ [][PoolNext]_poolVars

\* A thread inside PtRetrieve keeps running.
PoolFairSpec == PoolSpec /\ \A w \in Workers : WF_poolVars(Retrieving(w))

-----------------------------------------------------------------------------
InUse(o) == \E h \in Holders : o \in held[h]
Releasing(w) == poolAt[w] = "unreserve"
BeingFreed(o) == \E w \in Workers : Releasing(w) /\ index[w] = o

\* "thread-safe object retrieval and release" (CSyncPool.h): no two threads
\* have the same object, and none has one that is in a list.
OneOwner == \A v, w \in Holders : v # w => held[v] \intersect held[w] = {}

\* The two bits say whose an object is: an object is reserved while it is in
\* use, marked for recycling, or being freed by one thread, and it is only one
\* of these at a time; so none is lost.  It is what the code asserts with
\* "Object was reserved before being recycled" of PtRetrieve and "Object has
\* already been marked for recycling" of Recycle.
ObjectsAccounted ==
    /\ \A o \in Slots : o \in reserved <=> InUse(o) \/ o \in recycled \/ BeingFreed(o)
    /\ \A o \in Slots : ~(InUse(o) /\ (o \in recycled \/ BeingFreed(o)))
    /\ \A o \in Slots : ~(o \in recycled /\ BeingFreed(o))
    /\ \A v, w \in Workers :
         Releasing(v) /\ Releasing(w) /\ index[v] = index[w] => v = w
    /\ \A o \in HeapObjects : o \in heap <=> InUse(o)

\* PtRetrieve does not wait for other threads: it returns after two rounds.
RetrieveReturns ==
    \A w \in Workers : poolAt[w] # "idle" ~> poolAt[w] = "idle"
=============================================================================
