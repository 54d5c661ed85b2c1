------------------------------- MODULE Cache ---------------------------------
(***************************************************************************)
(* gpos::CCache with its accessors: a hash table of reference-counted      *)
(* entries, deletion that waits for the last accessor, and eviction by a   *)
(* clock.  The metadata cache is one.                                      *)
(*                                                                         *)
(* Each bucket has a spinlock that an access holds for its whole lifetime, *)
(* so such a scope is one step.  The hand of the clock is a hash table     *)
(* iterator, which keeps its place by an invalid element (here Marker) in  *)
(* the chain of a bucket.  Sizes are in bytes, all entries are alike.      *)
(***************************************************************************)
EXTENDS Naturals, Sequences, FiniteSets, SequencesExt

CONSTANTS
    Workers,
    Entries,    \* bound: the cache entries alive at once
    Keys,
    Buckets,    \* number of buckets
    GClockInit, \* m_ulGClockInitCounter
    EntrySize,  \* bytes of an entry with its object
    Kinds,      \* the caches looked at, see KindsAssumption
    MaxSize,    \* bound: no insertion starts with a size above it
    None,
    Marker      \* m_ptInvalid of the clock hand

ASSUME KeysAssumption == Keys \subseteq Nat /\ Buckets \in Nat \ {0}
ASSUME SizesAssumption ==
    GClockInit \in Nat \ {0} /\ EntrySize \in Nat \ {0} /\ MaxSize \in Nat
\* unique is m_fUnique; mayMark says whether MarkForDeletion is called; entries
\* and keys are those used, quotas those set, where 0 means unlimited.
ASSUME KindsAssumption ==
    \A k \in Kinds :
      /\ k.unique \in BOOLEAN /\ k.mayMark \in BOOLEAN
      /\ k.entries \subseteq Entries /\ k.keys \subseteq Keys
      /\ k.quotas \subseteq Nat /\ k.quotas # {}
ASSUME ElementsAssumption ==
    None \notin Entries \union Keys \union Workers /\ Marker \notin Entries
ASSUME FiniteAssumption == IsFiniteSet(Workers) /\ IsFiniteSet(Entries)

VARIABLES
    kind,        \* which of Kinds the cache is; never changes
    chain,       \* m_sht: the chain of each bucket
    keyOf,       \* m_pKey of each entry, None when destroyed
    refs,        \* the reference count of each entry's object, 0 when destroyed
    gclock,      \* m_ulGClockCounter of each entry
    marked,      \* the entries with m_fDeleted
    shown,       \* history: the entries the clock hand has looked at in its pass
    size,        \* m_ullCacheSize
    quota,       \* m_ullCacheQuota
    evictor,     \* m_ulEvictionLock, by whom it is held
    hand,        \* m_ulBucketIndex of m_chtitClockHand
    handAdvanced,\* m_fClockHandAdvanced
    toFree, freed, round,  \* ullToFree, ullTotalFreed, ulRetryCount
    at,          \* where each worker is
    new,         \* the entry a worker is about to insert
    accessor,    \* m_pce of the worker's accessor
    previous,    \* the entry PtNext has left and not yet released
    customer     \* the object for which the worker owns a reference itself

entryVars == <<keyOf, gclock, marked, shown>>
sizeVars == <<size, quota>>
handVars == <<hand, handAdvanced>>
evictVars == <<toFree, freed, round>>
workerVars == <<new, accessor, previous, customer>>
vars == <<kind, chain, refs, entryVars, sizeVars, evictor, handVars, evictVars, at, workerVars>>

BucketIndexes == 0..(Buckets - 1)
BucketOf(k) == k % Buckets
EntryOrNone == Entries \union {None}
Stages == {"idle", "insert", "customer", "releaseOld", "tryEvict", "evictTest", "budget",
           "round", "insertHand", "look", "unlock"}
Huge == 100 * EntrySize
EXPECTED_REF_COUNT_FOR_DELETE == 1

InTable(e) == \E b \in BucketIndexes : Contains(chain[b], e)

TypeOK ==
    /\ kind \in Kinds
    /\ chain \in [BucketIndexes -> Seq(Entries \union {Marker})]
    /\ keyOf \in [Entries -> Keys \union {None}]
    /\ refs \in [Entries -> Nat]
    /\ gclock \in [Entries -> 0..GClockInit]
    /\ marked \subseteq Entries /\ shown \subseteq Entries
    /\ size \in Nat /\ quota \in kind.quotas
    /\ evictor \in Workers \union {None}
    /\ hand \in 0..Buckets /\ handAdvanced \in BOOLEAN
    /\ {toFree, freed} \subseteq Nat /\ round \in 0..(GClockInit + 1)
    /\ at \in [Workers -> Stages]
    /\ new \in [Workers -> EntryOrNone] /\ accessor \in [Workers -> EntryOrNone]
    /\ previous \in [Workers -> EntryOrNone] /\ customer \in [Workers -> EntryOrNone]

Nothing == [w \in Workers |-> None]

Init ==
    /\ kind \in Kinds
    /\ chain = [b \in BucketIndexes |-> <<>>]
    /\ keyOf = [e \in Entries |-> None]
    /\ refs = [e \in Entries |-> 0]
    /\ gclock = [e \in Entries |-> 0]
    /\ marked = {} /\ shown = {}
    /\ size = 0 /\ quota \in kind.quotas
    /\ evictor = None
    /\ hand = 0 /\ handAdvanced = FALSE
    /\ toFree = 0 /\ freed = 0 /\ round = 0
    /\ at = [w \in Workers |-> "idle"]
    /\ new = Nothing /\ accessor = Nothing /\ previous = Nothing /\ customer = Nothing

Goto(w, stage) == at' = [at EXCEPT ![w] = stage]
OverQuota == quota # 0 /\ size > quota

-----------------------------------------------------------------------------
\* The places of a chain from i on whose entries match a key.
Matches(b, i, k) ==
    {j \in i..Len(chain[b]) : chain[b][j] # Marker /\ keyOf[chain[b][j]] = k}
Unmarked(b, places) == {j \in places : chain[b][j] \notin marked}
IsFirst(j, places) == j \in places /\ \A l \in places : j <= l

\* DestroyCacheEntry: the entry is no more, and its object has lost the last
\* reference.
DestroyCacheEntry(e) ==
    /\ refs' = [refs EXCEPT ![e] = 0]
    /\ keyOf' = [keyOf EXCEPT ![e] = None]
    /\ gclock' = [gclock EXCEPT ![e] = 0]
    /\ marked' = marked \ {e}
    /\ shown' = shown \ {e}

\* The entry leaves its chain.
Unlink(e) ==
    LET b == BucketOf(keyOf[e])
    IN  \E i \in DOMAIN chain[b] :
          chain[b][i] = e /\ chain' = [chain EXCEPT ![b] = RemoveAt(@, i)]

\* CCacheAccessor::PtInsert makes an entry for an object the caller owns, and
\* CCache::PceInsert first looks at the quota.
StartInsert(w, e, k) ==
    /\ at[w] = "idle" /\ accessor[w] = None /\ customer[w] = None
    /\ keyOf[e] = None /\ size <= MaxSize
    /\ keyOf' = [keyOf EXCEPT ![e] = k]
    /\ refs' = [refs EXCEPT ![e] = 2]
    /\ gclock' = [gclock EXCEPT ![e] = GClockInit]
    /\ new' = [new EXCEPT ![w] = e]
    /\ customer' = [customer EXCEPT ![w] = e]
    /\ Goto(w, IF OverQuota THEN "tryEvict" ELSE "insert")
    /\ UNCHANGED <<chain, marked, shown, sizeVars, evictor, handVars, evictVars, accessor,
                   previous>>

KeyIsFree(e) == kind.unique => Matches(BucketOf(keyOf[e]), 1, keyOf[e]) = {}

\* The rest of PceInsert when the key is new or need not be.
InsertNew(w) ==
    LET e == new[w]
        b == BucketOf(keyOf[e])
    IN  /\ at[w] = "insert"
        /\ KeyIsFree(e)
        /\ chain' = [chain EXCEPT ![b] = <<e>> \o @]
        /\ size' = size + EntrySize
        /\ refs' = [refs EXCEPT ![e] = @ + 1]
        /\ accessor' = [accessor EXCEPT ![w] = e]
        /\ new' = [new EXCEPT ![w] = None]
        /\ Goto(w, "idle")
        /\ UNCHANGED <<entryVars, quota, evictor, handVars, evictVars, previous, customer>>

\* The rest of PceInsert when a unique cache has the key: the accessor pins the
\* entry found, and the new one goes with its object.
InsertFindsOther(w) ==
    LET e == new[w]
        b == BucketOf(keyOf[e])
        others == Matches(b, 1, keyOf[e])
    IN  /\ at[w] = "insert" /\ kind.unique
        /\ \E j \in others :
             /\ IsFirst(j, others)
             /\ refs' = [refs EXCEPT ![e] = 0, ![chain[b][j]] = @ + 1]
             /\ gclock' = [gclock EXCEPT ![e] = 0, ![chain[b][j]] = GClockInit]
             /\ accessor' = [accessor EXCEPT ![w] = chain[b][j]]
        /\ keyOf' = [keyOf EXCEPT ![e] = None]
        /\ new' = [new EXCEPT ![w] = None]
        /\ customer' = [customer EXCEPT ![w] = None]
        /\ Goto(w, "idle")
        /\ UNCHANGED <<chain, marked, shown, sizeVars, evictor, handVars, evictVars, previous>>

\* CCacheAccessor::Lookup pins the first unmarked entry inside PceLookup.
Lookup(w, k) ==
    LET b == BucketOf(k)
        found == Unmarked(b, Matches(b, 1, k))
    IN  /\ at[w] = "idle" /\ accessor[w] = None /\ customer[w] = None
        /\ \E j \in found :
             /\ IsFirst(j, found)
             /\ refs' = [refs EXCEPT ![chain[b][j]] = @ + 1]
             /\ gclock' = [gclock EXCEPT ![chain[b][j]] = GClockInit]
             /\ accessor' = [accessor EXCEPT ![w] = chain[b][j]]
        /\ Goto(w, "customer")
        /\ UNCHANGED <<chain, keyOf, marked, shown, sizeVars, evictor, handVars, evictVars, new,
                       previous, customer>>

\* A mutant without the reference for the customer.
AddCustomer_Unpaid(w) ==
    /\ at[w] = "customer"
    /\ customer' = [customer EXCEPT ![w] = accessor[w]]
    /\ Goto(w, "idle")
    /\ UNCHANGED <<chain, refs, entryVars, sizeVars, evictor, handVars, evictVars, new, accessor,
                   previous>>

\* The reference Lookup adds for the customer, without a lock.
AddCustomer(w) ==
    /\ at[w] = "customer"
    /\ refs' = [refs EXCEPT ![accessor[w]] = @ + 1]
    /\ customer' = [customer EXCEPT ![w] = accessor[w]]
    /\ Goto(w, "idle")
    /\ UNCHANGED <<chain, entryVars, sizeVars, evictor, handVars, evictVars, new, accessor,
                   previous>>

\* The customer releases the object, without a lock.
CustomerRelease(w) ==
    /\ at[w] = "idle" /\ customer[w] # None
    /\ refs' = [refs EXCEPT ![customer[w]] = @ - 1]
    /\ customer' = [customer EXCEPT ![w] = None]
    /\ UNCHANGED <<chain, entryVars, sizeVars, evictor, handVars, evictVars, at, new, accessor,
                   previous>>

\* CCacheAccessor::MarkForDeletion, without a lock.
MarkForDeletion(w) ==
    /\ kind.mayMark /\ at[w] = "idle" /\ accessor[w] # None
    /\ marked' = marked \union {accessor[w]}
    /\ UNCHANGED <<chain, refs, keyOf, gclock, shown, sizeVars, evictor, handVars, evictVars,
                   at, workerVars>>

\* PceNext: pin the next unmarked entry with the key of the present one.
AccessNext(w) ==
    LET e == accessor[w]
        b == BucketOf(keyOf[e])
    IN  /\ at[w] = "idle" /\ e # None
        /\ \E i \in DOMAIN chain[b] :
             LET found == Unmarked(b, Matches(b, i + 1, keyOf[e]))
             IN  /\ chain[b][i] = e
                 /\ \E j \in found :
                      /\ IsFirst(j, found)
                      /\ refs' = [refs EXCEPT ![chain[b][j]] = @ + 1]
                      /\ accessor' = [accessor EXCEPT ![w] = chain[b][j]]
        /\ previous' = [previous EXCEPT ![w] = e]
        /\ Goto(w, "releaseOld")
        /\ UNCHANGED <<chain, entryVars, sizeVars, evictor, handVars, evictVars, new, customer>>

\* The entry stays, with one reference less.
DecRefCount(e) ==
    /\ refs' = [refs EXCEPT ![e] = @ - 1]
    /\ UNCHANGED <<chain, entryVars>>

\* CCache::ReleaseEntry: the last accessor to leave a marked entry removes and
\* destroys it; the size of the cache stays as it is.
ReleaseEntry(e) ==
    IF e \in marked /\ refs[e] = EXPECTED_REF_COUNT_FOR_DELETE + 1
    THEN Unlink(e) /\ DestroyCacheEntry(e)
    ELSE DecRefCount(e)

\* The accessor goes out of scope, or PtNext finds no further entry.
Release(w) ==
    /\ at[w] = "idle" /\ accessor[w] # None
    /\ ReleaseEntry(accessor[w])
    /\ accessor' = [accessor EXCEPT ![w] = None]
    /\ UNCHANGED <<sizeVars, evictor, handVars, evictVars, at, new, previous, customer>>

\* PtNext releases the entry it has left.
ReleaseOld(w) ==
    /\ at[w] = "releaseOld"
    /\ ReleaseEntry(previous[w])
    /\ previous' = [previous EXCEPT ![w] = None]
    /\ Goto(w, "idle")
    /\ UNCHANGED <<sizeVars, evictor, handVars, evictVars, new, accessor, customer>>

-----------------------------------------------------------------------------
\* SetCacheQuota evicts at once when the cache is too large for the new quota.
SetCacheQuota(w, q) ==
    /\ at[w] = "idle" /\ q # quota
    /\ quota' = q
    /\ Goto(w, IF q # 0 /\ size > q THEN "tryEvict" ELSE "idle")
    /\ UNCHANGED <<chain, refs, entryVars, size, evictor, handVars, evictVars, workerVars>>

\* PceInsert goes on, SetCacheQuota returns.
AfterEviction(w) == Goto(w, IF new[w] = None THEN "idle" ELSE "insert")

\* "only one thread can execute eviction process at a time"
TryEvict(w) ==
    /\ at[w] = "tryEvict"
    /\ IF evictor = None
       THEN evictor' = w /\ Goto(w, "evictTest")
       ELSE UNCHANGED evictor /\ AfterEviction(w)
    /\ UNCHANGED <<chain, refs, entryVars, sizeVars, handVars, evictVars, workerVars>>

\* The size is compared again, this time also with a quota of 0.
EvictTest(w) ==
    /\ at[w] = "evictTest"
    /\ Goto(w, IF size > quota THEN "budget" ELSE "unlock")
    /\ UNCHANGED <<chain, refs, entryVars, sizeVars, evictor, handVars, evictVars, workerVars>>

\* ullToFree: what brings the size to nine tenths of the quota.  If the quota
\* has risen since the test the conversion of a negative double is undefined;
\* it gives nothing or more than everything.
EvictBudget(w) ==
    /\ at[w] = "budget"
    /\ IF 10 * size >= 9 * quota
       THEN toFree' = (10 * size - 9 * quota) \div 10
       ELSE toFree' \in {0, Huge}
    /\ freed' = 0 /\ round' = 0
    /\ Goto(w, "round")
    /\ UNCHANGED <<chain, refs, entryVars, sizeVars, evictor, handVars, workerVars>>

HandIn(b) == Contains(chain[b], Marker)
HandInserted == \E b \in BucketIndexes : HandIn(b)

\* EvictEntriesOnePass has freed enough.
EnoughFreed(w) ==
    /\ at[w] = "round" /\ freed >= toFree
    /\ Goto(w, "unlock")
    /\ UNCHANGED <<chain, refs, entryVars, sizeVars, evictor, handVars, evictVars, workerVars>>

\* The last removal has moved the hand already.
HandIsThere(w) ==
    /\ at[w] = "round" /\ freed < toFree /\ handAdvanced
    /\ handAdvanced' = FALSE
    /\ Goto(w, "look")
    /\ UNCHANGED <<chain, refs, entryVars, sizeVars, evictor, hand, evictVars, workerVars>>

\* A mutant that puts the hand back where it was (Prepend for Append).
FAdvance_Stays(w) ==
    /\ at[w] = "round" /\ freed < toFree /\ ~handAdvanced
    /\ IF ~HandInserted
       THEN Goto(w, "insertHand") /\ UNCHANGED <<chain, hand>>
       ELSE Goto(w, "look") /\ UNCHANGED <<chain, hand>>
    /\ UNCHANGED <<refs, entryVars, sizeVars, evictor, handAdvanced, evictVars, workerVars>>

\* CSyncHashtableIter::AdvanceInvalidElement, or the start in a fresh bucket:
\* the hand steps over the next entry and stays unless that was the last.
FAdvance(w) ==
    /\ at[w] = "round" /\ freed < toFree /\ ~handAdvanced
    /\ \/ /\ ~HandInserted
          /\ Goto(w, "insertHand") /\ UNCHANGED <<chain, hand>>
       \/ \E p \in DOMAIN chain[hand] :
            /\ chain[hand][p] = Marker
            /\ IF p + 1 < Len(chain[hand])
               THEN /\ chain' = [chain EXCEPT ![hand] =
                                   [@ EXCEPT ![p] = chain[hand][p + 1], ![p + 1] = Marker]]
                    /\ Goto(w, "look") /\ UNCHANGED hand
               ELSE /\ chain' = [chain EXCEPT ![hand] = RemoveAt(@, p)]
                    /\ hand' = hand + 1
                    /\ Goto(w, "insertHand")
    /\ UNCHANGED <<refs, entryVars, sizeVars, evictor, handAdvanced, evictVars, workerVars>>

\* A mutant that circles until it has freed enough.
InsertHand_NoLimit(w) ==
    /\ at[w] = "insertHand"
    /\ IF hand < Buckets /\ chain[hand] # <<>>
       THEN /\ chain' = [chain EXCEPT ![hand] = <<Marker>> \o @]
            /\ Goto(w, "look") /\ UNCHANGED <<hand, shown>>
       ELSE /\ UNCHANGED chain
            /\ IF hand < Buckets
               THEN hand' = hand + 1 /\ UNCHANGED <<at, shown>>
               ELSE hand' = 0 /\ shown' = {} /\ Goto(w, "round")
    /\ UNCHANGED <<refs, keyOf, gclock, marked, sizeVars, evictor, handAdvanced, evictVars, workerVars>>

\* CSyncHashtableIter::InsertInvalidElement, one bucket at a time.  At the end
\* of the table the pass is over and the iterator is rewound.
InsertHand(w) ==
    /\ at[w] = "insertHand"
    /\ IF hand < Buckets /\ chain[hand] # <<>>
       THEN /\ chain' = [chain EXCEPT ![hand] = <<Marker>> \o @]
            /\ Goto(w, "look") /\ UNCHANGED <<hand, round, shown>>
       ELSE /\ UNCHANGED chain
            /\ IF hand < Buckets
               THEN hand' = hand + 1 /\ UNCHANGED <<at, round, shown>>
               ELSE /\ hand' = 0 /\ shown' = {} /\ round' = round + 1
                    /\ Goto(w, IF round = GClockInit THEN "unlock" ELSE "round")
    /\ UNCHANGED <<refs, keyOf, gclock, marked, sizeVars, evictor, handAdvanced, toFree, freed, workerVars>>

\* The hand stands before the entry; its bucket may have no more of them by now.
Pointed(e) ==
    \E p \in DOMAIN chain[hand] :
      /\ chain[hand][p] = Marker
      /\ p < Len(chain[hand]) /\ chain[hand][p + 1] = e

\* A mutant that looks at the counter only.
Evictable_Cold(e) == gclock[e] = 0

\* Cold, and only its own reference is left.
Evictable(e) == gclock[e] = 0 /\ refs[e] = EXPECTED_REF_COUNT_FOR_DELETE

\* A mutant that forgets the size of the entry.
SizeAfterEviction_Same == size

SizeAfterEviction == size - EntrySize

\* A cold entry only its own reference keeps is removed and destroyed.
Evict(w) ==
    /\ at[w] = "look"
    /\ \E e \in Entries :
         Pointed(e) /\ Evictable(e) /\ Unlink(e) /\ DestroyCacheEntry(e)
    /\ size' = SizeAfterEviction
    /\ freed' = freed + EntrySize
    /\ handAdvanced' = TRUE
    /\ Goto(w, "round")
    /\ UNCHANGED <<quota, evictor, hand, toFree, round, workerVars>>

Cooler(e) == IF gclock[e] = 0 THEN 0 ELSE gclock[e] - 1

\* Any other entry loses one from its counter, or is in use.
PassBy(w) ==
    /\ at[w] = "look"
    /\ \/ /\ \A e \in Entries : ~Pointed(e)
          /\ UNCHANGED <<gclock, shown>>
       \/ \E e \in Entries :
            /\ Pointed(e) /\ ~Evictable(e)
            /\ gclock' = [gclock EXCEPT ![e] = Cooler(e)]
            /\ shown' = shown \union {e}
    /\ Goto(w, "round")
    /\ UNCHANGED <<chain, refs, keyOf, marked, sizeVars, evictor, handVars, evictVars,
                   workerVars>>

Unlock(w) ==
    /\ at[w] = "unlock"
    /\ evictor' = None
    /\ AfterEviction(w)
    /\ toFree' = 0 /\ freed' = 0 /\ round' = 0
    /\ UNCHANGED <<chain, refs, entryVars, sizeVars, handVars, workerVars>>

EvictStep(w) ==
    /\ \/ EvictTest(w) \/ EvictBudget(w) \/ EnoughFreed(w) \/ HandIsThere(w) \/ FAdvance(w)
       \/ InsertHand(w) \/ Evict(w) \/ PassBy(w) \/ Unlock(w)
    /\ UNCHANGED kind

UserStep(w) ==
    /\ \/ \E e \in kind.entries, k \in kind.keys : StartInsert(w, e, k)
       \/ \E k \in kind.keys : Lookup(w, k)
       \/ \E q \in kind.quotas : SetCacheQuota(w, q)
       \/ InsertNew(w) \/ InsertFindsOther(w) \/ AddCustomer(w) \/ CustomerRelease(w)
       \/ MarkForDeletion(w) \/ AccessNext(w) \/ Release(w) \/ ReleaseOld(w)
       \/ TryEvict(w)
    /\ UNCHANGED kind

Next == \E w \in Workers : UserStep(w) \/ EvictStep(w)

Spec == Init /\ [][Next]_vars

\* A thread that evicts keeps running.
FairSpec == Spec /\ \A w \in Workers : WF_vars(EvictStep(w))

-----------------------------------------------------------------------------
Holders(held, e) == Cardinality({w \in Workers : held[w] = e})
Cached == {e \in Entries : InTable(e)}

\* A reference count is the cache's own reference, until the entry is destroyed,
\* and those of accessors and customers; it is what eviction and deletion decide
\* by (EXPECTED_REF_COUNT_FOR_DELETE).
RefsExact ==
    \A e \in Entries :
      refs[e] = (IF InTable(e) \/ Holders(new, e) > 0 THEN 1 ELSE 0)
                + Holders(accessor, e) + Holders(previous, e) + Holders(customer, e)

\* Neither eviction nor ReleaseEntry takes an entry from the table while an
\* accessor holds it, so PceNext and ReleaseEntry find it in its chain.
PinnedInTable ==
    \A w \in Workers : {accessor[w], previous[w]} \subseteq Cached \union {None}

\* "total size of the cache in bytes": m_ullCacheSize is that of the entries in
\* the table, unless ReleaseEntry has removed a marked one, and never less.
SizeExact ==
    LET actual == EntrySize * Cardinality(Cached)
    IN  size >= actual /\ (~kind.mayMark => size = actual)

\* "No element is returned twice" (CSyncHashtableIter.h): within a pass the hand
\* never comes to an entry again, whatever is inserted and removed beside it,
\* so a pass takes at most one from a counter.
NoneTwice ==
    \A w \in Workers :
      at[w] = "look" => \A e \in shown : ~Pointed(e)

\* The rounds of EvictEntries end and the eviction lock is released, so later
\* insertions can evict.
EvictionEnds == evictor # None ~> evictor = None

-----------------------------------------------------------------------------
(* What a comment promises and the code does not keep, see the README.     *)

\* m_ulpEntries of the hash table counts what its chains hold.
UlpEntries == MapThenSumSet(LAMBDA b : Len(chain[b]), BucketIndexes)

\* "return number of cache entries" (CCache::UlpEntries).
CountsEntries == UlpEntries = Cardinality(Cached)

\* "Evict entries until the cache size is within the cache quota or until the
\* cache does not have any more evictable entries" (CCache::EvictEntries), as
\* a single worker finds it when EvictEntries is done.
EvictsAll ==
    \A w \in Workers :
      at[w] = "unlock" => size <= quota \/ \A e \in Cached : refs[e] > 1

\* "Cannot evict from an unlimited sized cache": the quota an evicting thread
\* finds as EvictEntries begins.
QuotaLimited == \A w \in Workers : at[w] = "tryEvict" => quota # 0
=============================================================================
