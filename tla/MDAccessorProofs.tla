--------------------------- MODULE MDAccessorProofs ---------------------------
(***************************************************************************)
(* Proof that the reference counts of metadata objects are exact and that  *)
(* the shared cache holds objects in memory only, for any finite number of *)
(* workers and sessions and any ids and objects.                           *)
(***************************************************************************)
EXTENDS MDAccessor, FiniteSetTheorems, TLAPS

\* Which of its locals a worker has set, by its place in Pimdobj.
StagesOK ==
    \A w \in Workers :
      /\ at[w] # "idle" => want[w] \in Mdids
      /\ obj[w] # None <=> at[w] \in {"insert", "store"}
      /\ pinned[w] # None => at[w] \in {"store", "leave"}
      /\ ownPool[w] # None => at[w] \in {"insert", "store", "leave"}
      /\ at[w] \in {"insert", "store"} /\ ownPool[w] # None => ownPool[w] = obj[w]
      /\ at[w] = "insert" => ownPool[w] # None

\* An object is only ever known by the id it was fetched for.
Known(o, m) ==
    \/ cached[m] = o
    \/ \E s \in Sessions : local[s][m] = o
    \/ \E w \in Workers : obj[w] = o /\ want[w] = m

OneName == \A o \in Objects : \A m, n \in Mdids : Known(o, m) /\ Known(o, n) => m = n

\* Objects that are cached, pinned or in hand are in memory; a pinned one is
\* cached.
HeldLive ==
    /\ \A m \in Mdids : cached[m] # None => state[cached[m]] = "live"
    /\ \A w \in Workers : obj[w] # None => state[obj[w]] = "live"
    /\ \A w \in Workers : pinned[w] # None => InCache(pinned[w])

UnusedUnknown ==
    \A o \in Objects :
      state[o] = "unused" =>
        (\A m \in Mdids : ~Known(o, m)) /\ \A w \in Workers : ownPool[w] # o

\* What is in the pool of an accessor is known to its own session at most, so
\* destroying the pool hurts no other.
PoolsApart ==
    \A w \in Workers : ownPool[w] # None =>
      /\ ~InCache(ownPool[w])
      /\ \A v \in Workers \ {w} : obj[v] # ownPool[w] /\ ownPool[v] # ownPool[w]
      /\ \A s \in Sessions : Uses(s, ownPool[w]) => s = session[w] /\ at[w] = "leave"

Apart == StagesOK /\ OneName /\ HeldLive /\ UnusedUnknown /\ PoolsApart
IInv == TypeOK /\ Apart /\ RefsExact

-----------------------------------------------------------------------------
\* Counting.
LEMMA HoldersCount ==
  ASSUME NEW held \in [Workers -> ObjectOrNone], NEW o \in Objects
  PROVE  /\ Holders(held, o) \in Nat
         /\ Holders(held, o) = 0 <=> \A w \in Workers : held[w] # o
<1>. DEFINE H == {w \in Workers : held[w] = o}
<1>1. IsFiniteSet(H)
  BY FiniteAssumption, FS_Subset
<1>. QED
  BY <1>1, FS_CardinalityType, FS_EmptySet DEF Holders

\* A worker that changes what it holds changes the number of holders by itself.
LEMMA HoldersUpdate ==
  ASSUME NEW held, NEW new, NEW o \in Objects, NEW w \in Workers,
         \A v \in Workers \ {w} : new[v] = held[v]
  PROVE  Holders(new, o)
           = Holders(held, o) - (IF held[w] = o THEN 1 ELSE 0) + (IF new[w] = o THEN 1 ELSE 0)
<1>. DEFINE H == {v \in Workers : held[v] = o}
            G == {v \in Workers : new[v] = o}
<1>1. IsFiniteSet(H) /\ Cardinality(H) \in Nat
  BY FiniteAssumption, FS_Subset, FS_CardinalityType
<1>4. w \in H <=> held[w] = o
  OBVIOUS
<1>5. Holders(held, o) = Cardinality(H) /\ Holders(new, o) = Cardinality(G)
  BY DEF Holders
<1>. HIDE DEF H, G
<1>2. CASE new[w] = o
  <2>1. G = H \union {w}
    BY <1>2 DEF H, G
  <2>2. Cardinality(H \union {w}) =
          IF w \in H THEN Cardinality(H) ELSE Cardinality(H) + 1
    BY <1>1, FS_AddElement
  <2>. QED
    BY <1>1, <1>2, <1>4, <1>5, <2>1, <2>2
<1>3. CASE new[w] # o
  <2>1. G = H \ {w}
    BY <1>3 DEF H, G
  <2>2. Cardinality(H \ {w}) = IF w \in H THEN Cardinality(H) - 1 ELSE Cardinality(H)
    BY <1>1, FS_RemoveElement
  <2>. QED
    BY <1>1, <1>3, <1>4, <1>5, <2>1, <2>2
<1>. QED
  BY <1>2, <1>3

Users(o) == {s \in Sessions : Uses(s, o)}

\* The users of an object are a number, zero when there is none.
LEMMA UsersCount ==
  ASSUME NEW o \in Objects
  PROVE  /\ IsFiniteSet(Users(o)) /\ Cardinality(Users(o)) \in Nat
         /\ Cardinality(Users(o)) = 0 <=> \A s \in Sessions : ~Uses(s, o)
  BY FiniteAssumption, FS_Subset, FS_CardinalityType, FS_EmptySet DEF Users

\* The last reference to an object is the cache's, a worker's or a session's.
LEMMA LastReference ==
  ASSUME IInv, NEW o \in Objects, state[o] = "live", refs[o] = 1
  PROVE  /\ InCache(o) =>
              /\ \A w \in Workers : obj[w] # o /\ pinned[w] # o
              /\ \A s \in Sessions : ~Uses(s, o)
         /\ \A w \in Workers : obj[w] = o =>
              /\ ~InCache(o)
              /\ \A v \in Workers \ {w} : obj[v] # o
              /\ \A s \in Sessions : ~Uses(s, o)
         /\ \A s \in Sessions : Uses(s, o) =>
              /\ ~InCache(o)
              /\ \A w \in Workers : obj[w] # o
              /\ \A r \in Sessions \ {s} : ~Uses(r, o)
<1>1. (IF InCache(o) THEN 1 ELSE 0) + Holders(pinned, o) + Holders(obj, o)
        + Cardinality(Users(o)) = 1
  BY DEF IInv, RefsExact, References, Users, Count
<1>2. /\ Holders(pinned, o) \in Nat /\ Holders(obj, o) \in Nat
      /\ Holders(pinned, o) = 0 <=> \A w \in Workers : pinned[w] # o
      /\ Holders(obj, o) = 0 <=> \A w \in Workers : obj[w] # o
  BY HoldersCount DEF IInv, TypeOK
<1>3. /\ Cardinality(Users(o)) \in Nat
      /\ Cardinality(Users(o)) = 0 <=> \A s \in Sessions : ~Uses(s, o)
  BY UsersCount
<1>4. ASSUME NEW w \in Workers, NEW v \in Workers, v # w, obj[w] = o, obj[v] = o PROVE FALSE
  <2>. DEFINE less == [obj EXCEPT ![w] = None]
  <2>1. /\ less \in [Workers -> ObjectOrNone] /\ less[v] = o /\ less[w] # o
        /\ \A x \in Workers \ {w} : less[x] = obj[x]
    BY <1>4, NoneAssumption DEF IInv, TypeOK, ObjectOrNone
  <2>. HIDE DEF less
  <2>2. Holders(less, o) # 0 /\ Holders(less, o) \in Nat
    BY <2>1, HoldersCount
  <2>3. Holders(less, o)
          = Holders(obj, o) - (IF obj[w] = o THEN 1 ELSE 0) + (IF less[w] = o THEN 1 ELSE 0)
    BY <2>1, HoldersUpdate
  <2>4. Holders(less, o) = Holders(obj, o) - 1
    BY <1>2, <1>4, <2>1, <2>3
  <2>. QED
    BY <1>1, <1>2, <1>3, <2>2, <2>4
<1>5. ASSUME NEW r \in Sessions, NEW s \in Sessions, r # s, Uses(s, o), Uses(r, o) PROVE FALSE
  <2>1. Users(o) \ {s} # {} /\ s \in Users(o)
    BY <1>5 DEF Users
  <2>2. Cardinality(Users(o) \ {s}) = Cardinality(Users(o)) - 1 /\ IsFiniteSet(Users(o) \ {s})
    BY <2>1, UsersCount, FS_RemoveElement
  <2>3. Cardinality(Users(o) \ {s}) \in Nat \ {0}
    BY <2>1, <2>2, FS_EmptySet, FS_CardinalityType
  <2>. QED
    BY <1>1, <1>2, <1>3, <2>2, <2>3
<1>. QED
  BY <1>1, <1>2, <1>3, <1>4, <1>5

\* The empty tables satisfy the invariant.
LEMMA AccessorInit == Init => IInv
<1>. SUFFICES ASSUME Init PROVE IInv
  OBVIOUS
<1>1. TypeOK
  BY DEF Init, TypeOK, Nothing, ObjectOrNone, Stages
<1>2. Apart
  BY NoneAssumption
  DEF Init, Nothing, Apart, StagesOK, OneName, HeldLive, UnusedUnknown, PoolsApart, Known
<1>. QED
  BY <1>1, <1>2 DEF IInv, Init, RefsExact

-----------------------------------------------------------------------------
\* How the references change in a step of one worker.
LEMMA ReferencesMove ==
  ASSUME NEW w \in Workers, NEW o \in Objects, TypeOK, TypeOK',
         \A v \in Workers \ {w} : pinned'[v] = pinned[v] /\ obj'[v] = obj[v]
  PROVE  /\ References(o) \in Nat
         /\ References(o)' =
              References(o)
              + (IF InCache(o)' THEN 1 ELSE 0) - (IF InCache(o) THEN 1 ELSE 0)
              + (IF pinned'[w] = o THEN 1 ELSE 0) - (IF pinned[w] = o THEN 1 ELSE 0)
              + (IF obj'[w] = o THEN 1 ELSE 0) - (IF obj[w] = o THEN 1 ELSE 0)
              + Cardinality(Users(o)') - Cardinality(Users(o))
<1>1. /\ Holders(pinned', o)
           = Holders(pinned, o) - (IF pinned[w] = o THEN 1 ELSE 0)
                                + (IF pinned'[w] = o THEN 1 ELSE 0)
      /\ Holders(obj', o)
           = Holders(obj, o) - (IF obj[w] = o THEN 1 ELSE 0)
                             + (IF obj'[w] = o THEN 1 ELSE 0)
  BY HoldersUpdate
<1>2. Holders(pinned, o) \in Nat /\ Holders(obj, o) \in Nat
  BY HoldersCount DEF TypeOK
<1>3. Cardinality(Users(o)) \in Nat
  BY UsersCount
<1>4. Cardinality(Users(o)') \in Nat
  BY FiniteAssumption, FS_Subset, FS_CardinalityType DEF Users
<1>5. References(o) = (IF InCache(o) THEN 1 ELSE 0) + Holders(pinned, o) + Holders(obj, o)
                        + Cardinality(Users(o))
  BY DEF References, Count, Users
<1>6. References(o)' = (IF InCache(o)' THEN 1 ELSE 0) + Holders(pinned', o)
                         + Holders(obj', o) + Cardinality(Users(o)')
  BY DEF References, Count, Users, Holders
<1>. QED
  BY <1>1, <1>2, <1>3, <1>4, <1>5, <1>6

\* Each step of a worker keeps the types.
LEMMA TypesKept ==
  ASSUME IInv, Next
  PROVE  TypeOK'
<1>. USE DEF IInv, TypeOK, ObjectOrNone, workerVars, holdVars
<1>1. ASSUME NEW w \in Workers, NEW m \in Mdids, Start(w, m) PROVE TypeOK'
  BY <1>1 DEF Start, Goto, Stages
<1>2. ASSUME NEW w \in Workers, LookupCache(w) PROVE TypeOK'
  <2>1. want[w] \in Mdids /\ (cached[want[w]] # None => cached[want[w]] \in Objects)
    BY <1>2 DEF LookupCache, Apart, StagesOK
  <2>. QED
    <3>1. CASE cached[want[w]] = None
      BY <1>2, <3>1 DEF LookupCache, Goto, Stages
    <3>2. CASE cached[want[w]] # None
      <4>. DEFINE o == cached[want[w]]
      <4>1. o \in Objects
        BY <2>1, <3>2
      <4>2. /\ refs' = [refs EXCEPT ![o] = refs[o] + 1 + 1]
            /\ obj' = [obj EXCEPT ![w] = o] /\ pinned' = [pinned EXCEPT ![w] = o]
            /\ at' = [at EXCEPT ![w] = "store"]
            /\ UNCHANGED <<local, cached, state, session, want, ownPool>>
        BY <1>2, <3>2 DEF LookupCache, Goto, CustomerReference
      <4>. HIDE DEF o
      <4>. QED
        BY <4>1, <4>2 DEF Stages
    <3>. QED
      BY <3>1, <3>2
<1>3. ASSUME NEW w \in Workers, NEW o \in Objects, Fetch(w, o) PROVE TypeOK'
  BY <1>3 DEF Fetch, Goto, Stages
<1>4. ASSUME NEW w \in Workers, PtInsert(w) PROVE TypeOK'
  <2>1. want[w] \in Mdids /\ (cached[want[w]] # None => cached[want[w]] \in Objects)
    BY <1>4 DEF PtInsert, Apart, StagesOK
  <2>2. obj[w] \in Objects
    BY <1>4 DEF PtInsert, Apart, StagesOK
  <2>. QED
    <3>1. CASE cached[want[w]] = None
      <4>1. /\ cached' = [cached EXCEPT ![want[w]] = obj[w]]
            /\ refs' = [refs EXCEPT ![obj[w]] = refs[obj[w]] + 2]
            /\ ownPool' = [ownPool EXCEPT ![w] = None]
            /\ pinned' = [pinned EXCEPT ![w] = obj[w]]
            /\ at' = [at EXCEPT ![w] = "store"]
            /\ UNCHANGED <<local, state, session, want, obj>>
        BY <1>4, <3>1 DEF PtInsert, Goto
      <4>. QED
        BY <2>1, <2>2, <4>1 DEF Stages
    <3>2. CASE cached[want[w]] # None
      <4>. DEFINE o == cached[want[w]]
      <4>1. o \in Objects
        BY <2>1, <3>2
      <4>2. /\ refs' = [refs EXCEPT ![o] = refs[o] + 1]
            /\ pinned' = [pinned EXCEPT ![w] = o]
            /\ at' = [at EXCEPT ![w] = "store"]
            /\ UNCHANGED <<local, cached, state, session, want, obj, ownPool>>
        BY <1>4, <3>2 DEF PtInsert, Goto
      <4>. HIDE DEF o
      <4>. QED
        BY <4>1, <4>2 DEF Stages
    <3>. QED
      BY <3>1, <3>2
<1>5. ASSUME NEW w \in Workers, Store(w) PROVE TypeOK'
  <2>1. obj[w] \in Objects /\ refs[obj[w]] > 0
    BY <1>5 DEF Store, Apart, StagesOK, HeldLive, RefsExact
  <2>. QED
    <3>1. want[w] \in Mdids /\ session[w] \in Sessions
      BY <1>5 DEF Store, Apart, StagesOK
    <3>2. local' \in [Sessions -> [Mdids -> ObjectOrNone]]
      <4>1. [local[session[w]] EXCEPT ![want[w]] = obj[w]] \in [Mdids -> ObjectOrNone]
        BY <2>1, <3>1
      <4>. QED
        BY <1>5, <3>1, <4>1 DEF Store
    <3>3. refs' \in [Objects -> Nat] /\ state' \in [Objects -> {"unused", "live", "gone"}]
      BY <1>5, <2>1 DEF Store, Release
    <3>. QED
      BY <1>5, <3>2, <3>3 DEF Store, Goto, Stages
<1>6. ASSUME NEW w \in Workers, Leave(w) PROVE TypeOK'
  <2>1. pinned[w] # None => refs[pinned[w]] > 0
    BY <1>6 DEF Leave, Apart, HeldLive, InCache, RefsExact
  <2>. QED
    <3>1. refs' \in [Objects -> Nat]
      <4>1. \A o \in Objects : o = pinned[w] => refs[o] - 1 \in Nat
        BY <2>1, NoneAssumption
      <4>. QED
        BY <1>6, <4>1 DEF Leave
    <3>2. state' \in [Objects -> {"unused", "live", "gone"}]
      BY <1>6 DEF Leave
    <3>. QED
      BY <1>6, <3>1, <3>2 DEF Leave, Goto, Stages
<1>7. ASSUME NEW m \in Mdids, Evict(m) PROVE TypeOK'
  BY <1>7 DEF Evict, Release
<1>8. ASSUME NEW s \in Sessions, EndSession(s) PROVE TypeOK'
  <2>1. \A o \in Objects : state[o] = "live" => refs[o] > 0
    BY DEF RefsExact
  <2>. QED
    BY <1>8, <2>1 DEF EndSession
<1>. QED
  BY <1>1, <1>2, <1>3, <1>4, <1>5, <1>6, <1>7, <1>8 DEF Next

\* What the cache has and the workers hold.
LEMMA InUse ==
  ASSUME IInv
  PROVE  /\ \A m \in Mdids : cached[m] # None =>
              cached[m] \in Objects /\ state[cached[m]] = "live" /\ InCache(cached[m])
         /\ \A w \in Workers : obj[w] # None => obj[w] \in Objects /\ state[obj[w]] = "live"
         /\ \A w \in Workers : pinned[w] # None => pinned[w] \in Objects /\ InCache(pinned[w])
  BY DEF IInv, TypeOK, ObjectOrNone, Apart, HeldLive, InCache

\* Each step of a worker keeps objects apart.
LEMMA ApartKept ==
  ASSUME IInv, Next
  PROVE  Apart'
<1>. USE NoneAssumption DEF workerVars, holdVars
<1>1. ASSUME NEW w \in Workers, NEW m \in Mdids, Start(w, m) PROVE Apart'
  <2>1. StagesOK'
    BY <1>1 DEF Start, Goto, StagesOK, IInv, TypeOK, Apart
  <2>2. \A o \in Objects, n \in Mdids : Known(o, n)' => Known(o, n)
    BY <1>1 DEF Start, Known, IInv, TypeOK, Apart, StagesOK
  <2>. QED
    BY <1>1, <2>1, <2>2
    DEF Start, Goto, IInv, TypeOK, Apart, OneName, HeldLive, UnusedUnknown, PoolsApart, InCache, Uses,
        StagesOK
<1>2. ASSUME NEW w \in Workers, LookupCache(w) PROVE Apart'
  <2>1. StagesOK'
    BY <1>2 DEF LookupCache, Goto, StagesOK, IInv, TypeOK, Apart, ObjectOrNone
  <2>2. \A o \in Objects, n \in Mdids : Known(o, n)' => Known(o, n)
    BY <1>2 DEF LookupCache, Known, IInv, TypeOK, Apart, StagesOK
  <2>3. OneName'
    BY <2>2 DEF IInv, Apart, OneName
  <2>4. HeldLive'
    <3>1. \A n \in Mdids : cached'[n] # None => state'[cached'[n]] = "live"
      BY <1>2
      DEF LookupCache, Goto, IInv, TypeOK, Apart, HeldLive, PoolsApart, StagesOK, InCache, Known, OneName
    <3>2. \A v \in Workers : obj'[v] # None => state'[obj'[v]] = "live"
      BY <1>2
      DEF LookupCache, Goto, IInv, TypeOK, Apart, HeldLive, PoolsApart, StagesOK, InCache
    <3>3. \A v \in Workers : pinned'[v] # None => InCache(pinned[v])'
      BY <1>2
      DEF LookupCache, Goto, IInv, TypeOK, Apart, HeldLive, StagesOK, InCache
    <3>. QED
      BY <3>1, <3>2, <3>3 DEF HeldLive
  <2>5. UnusedUnknown'
    BY <1>2, <2>2
    DEF LookupCache, Goto, IInv, TypeOK, Apart, UnusedUnknown, StagesOK, HeldLive
  <2>6. PoolsApart'
    BY <1>2
    DEF LookupCache, Goto, IInv, TypeOK, Apart, StagesOK, PoolsApart, InCache, Uses, Known, OneName
  <2>. QED
    BY <2>1, <2>3, <2>4, <2>5, <2>6 DEF Apart
<1>3. ASSUME NEW w \in Workers, NEW o \in Objects, Fetch(w, o) PROVE Apart'
  <2>1. StagesOK'
    BY <1>3 DEF Fetch, Goto, StagesOK, IInv, TypeOK, Apart, ObjectOrNone
  <2>2. \A p \in Objects, n \in Mdids : Known(p, n)' => Known(p, n) \/ (p = o /\ n = want[w])
    BY <1>3 DEF Fetch, Known, IInv, TypeOK, Apart, StagesOK
  <2>3. \A n \in Mdids : ~Known(o, n)
    BY <1>3 DEF Fetch, IInv, Apart, UnusedUnknown
  <2>4. OneName'
    BY <2>2, <2>3 DEF OneName, IInv, Apart
  <2>. QED
    BY <1>3, <2>1, <2>2, <2>3, <2>4
    DEF Fetch, Goto, IInv, TypeOK, Apart, HeldLive, UnusedUnknown, PoolsApart, InCache, Uses,
        StagesOK, Known
<1>4. ASSUME NEW w \in Workers, PtInsert(w) PROVE Apart'
  <2>1. StagesOK'
    BY <1>4 DEF PtInsert, Goto, StagesOK, IInv, TypeOK, Apart, ObjectOrNone
  <2>2. \A o \in Objects, n \in Mdids : Known(o, n)' => Known(o, n)
    BY <1>4 DEF PtInsert, Known, IInv, TypeOK, Apart, StagesOK
  <2>3. OneName'
    BY <2>2 DEF IInv, Apart, OneName
  <2>4. HeldLive'
    <3>1. ASSUME NEW n \in Mdids, cached'[n] # None PROVE state'[cached'[n]] = "live"
      <4>1. want[w] \in Mdids /\ obj[w] # None
        BY <1>4 DEF PtInsert, StagesOK, Apart, IInv, TypeOK
      <4>2. cached'[n] = obj[w] \/ cached'[n] = cached[n]
        BY <1>4, <4>1 DEF PtInsert, IInv, TypeOK
      <4>. QED
        BY <1>4, <3>1, <4>1, <4>2, InUse DEF PtInsert
    <3>2. \A v \in Workers : obj'[v] # None => state'[obj'[v]] = "live"
      BY <1>4
      DEF PtInsert, Goto, IInv, TypeOK, Apart, HeldLive, PoolsApart, StagesOK, InCache
    <3>3. \A v \in Workers : pinned'[v] # None => InCache(pinned[v])'
      BY <1>4
      DEF PtInsert, Goto, IInv, TypeOK, Apart, HeldLive, StagesOK, InCache
    <3>. QED
      BY <3>1, <3>2, <3>3 DEF HeldLive
  <2>5. UnusedUnknown'
    BY <1>4, <2>2
    DEF PtInsert, Goto, IInv, TypeOK, Apart, UnusedUnknown, StagesOK, HeldLive
  <2>6. PoolsApart'
    BY <1>4
    DEF PtInsert, Goto, IInv, TypeOK, Apart, StagesOK, PoolsApart, InCache, Uses, Known, OneName
  <2>. QED
    BY <2>1, <2>3, <2>4, <2>5, <2>6 DEF Apart
<1>5. ASSUME NEW w \in Workers, Store(w) PROVE Apart'
  <2>1. StagesOK'
    BY <1>5 DEF Store, Goto, StagesOK, IInv, TypeOK, Apart, ObjectOrNone
  <2>2. \A o \in Objects, n \in Mdids : Known(o, n)' => Known(o, n)
    BY <1>5 DEF Store, Known, IInv, TypeOK, Apart, StagesOK
  <2>3. OneName'
    BY <2>2 DEF IInv, Apart, OneName
  <2>4. HeldLive'
    <3>0. \A o \in Objects : state[o] = "live" /\ state'[o] # "live" => o = obj[w] /\ refs[o] = 1
      BY <1>5 DEF Store, Release, StagesOK, HeldLive, Apart, IInv, TypeOK
    <3>1. ASSUME NEW n \in Mdids, cached'[n] # None PROVE state'[cached'[n]] = "live"
      <4>1. cached'[n] = cached[n] /\ obj[w] # None
        BY <1>5 DEF Store, StagesOK, Apart, IInv
      <4>2. ~(refs[obj[w]] = 1 /\ cached[n] = obj[w])
        BY <3>1, <4>1, InUse, LastReference
      <4>. QED
        BY <3>0, <3>1, <4>1, <4>2, InUse
    <3>2. ASSUME NEW v \in Workers, obj'[v] # None PROVE state'[obj'[v]] = "live"
      <4>1. obj'[v] = obj[v] /\ v # w /\ obj[w] # None
        BY <1>5, <3>2 DEF Store, StagesOK, Apart, IInv, TypeOK
      <4>2. ~(refs[obj[w]] = 1 /\ obj[v] = obj[w])
        BY <3>2, <4>1, InUse, LastReference
      <4>. QED
        BY <3>0, <3>2, <4>1, <4>2, InUse
    <3>3. \A v \in Workers : pinned'[v] # None => InCache(pinned[v])'
      BY <1>5, LastReference
      DEF Store, Release, Goto, IInv, TypeOK, Apart, HeldLive, StagesOK, InCache
    <3>. QED
      BY <3>1, <3>2, <3>3 DEF HeldLive
  <2>5. UnusedUnknown'
    BY <1>5, <2>2
    DEF Store, Release, Goto, IInv, TypeOK, Apart, UnusedUnknown, StagesOK, HeldLive
  <2>6. PoolsApart'
    <3>1. \A r \in Sessions, p \in Objects :
            Uses(r, p)' => Uses(r, p) \/ (r = session[w] /\ p = obj[w])
      <4>1. \A r \in Sessions, n \in Mdids :
              local'[r][n] = local[r][n] \/ (r = session[w] /\ local'[r][n] = obj[w])
        BY <1>5 DEF Store, IInv, TypeOK
      <4>. QED
        BY <4>1 DEF Uses
    <3>2. /\ UNCHANGED <<cached, ownPool, session>> /\ obj[w] # None /\ obj'[w] = None
          /\ \A v \in Workers \ {w} : obj'[v] = obj[v] /\ at'[v] = at[v]
          /\ at'[w] = "leave"
      BY <1>5 DEF Store, Goto, IInv, TypeOK, Apart, StagesOK
    <3>3. ASSUME NEW v \in Workers, ownPool[v] # None
          PROVE  /\ ~InCache(ownPool[v])'
                 /\ \A u \in Workers \ {v} : obj'[u] # ownPool[v] /\ ownPool[u] # ownPool[v]
                 /\ \A r \in Sessions :
                      Uses(r, ownPool[v])' => r = session[v] /\ at'[v] = "leave"
      <4>1. ownPool[v] \in Objects
        BY <3>3 DEF IInv, TypeOK, ObjectOrNone
      <4>2. /\ ~InCache(ownPool[v])
            /\ \A u \in Workers \ {v} : obj[u] # ownPool[v] /\ ownPool[u] # ownPool[v]
            /\ \A r \in Sessions : Uses(r, ownPool[v]) => r = session[v] /\ at[v] = "leave"
        BY <3>3 DEF IInv, Apart, PoolsApart
      <4>3. ~InCache(ownPool[v])'
        BY <3>2, <4>2 DEF InCache
      <4>. QED
        BY <3>1, <3>2, <3>3, <4>1, <4>2, <4>3
    <3>. QED
      BY <3>2, <3>3 DEF PoolsApart, InCache, Uses
  <2>. QED
    BY <2>1, <2>3, <2>4, <2>5, <2>6 DEF Apart
<1>6. ASSUME NEW w \in Workers, Leave(w) PROVE Apart'
  <2>1. StagesOK'
    BY <1>6 DEF Leave, Goto, StagesOK, IInv, TypeOK, Apart, ObjectOrNone
  <2>2. \A o \in Objects, n \in Mdids : Known(o, n)' => Known(o, n)
    BY <1>6 DEF Leave, Known, IInv, TypeOK, Apart, StagesOK
  <2>3. OneName'
    BY <2>2 DEF IInv, Apart, OneName
  <2>4. HeldLive'
    <3>0. \A o \in Objects : state[o] = "live" /\ state'[o] # "live" => o = ownPool[w]
      BY <1>6 DEF Leave, PoolToDestroy, StagesOK, HeldLive, Apart, IInv, TypeOK
    <3>1. ASSUME NEW n \in Mdids, cached'[n] # None PROVE state'[cached'[n]] = "live"
      <4>1. cached'[n] = cached[n]
        BY <1>6 DEF Leave
      <4>2. cached[n] # ownPool[w]
        BY <3>1, <4>1, InUse DEF PoolsApart, Apart, IInv
      <4>. QED
        BY <3>0, <3>1, <4>1, <4>2, InUse
    <3>2. ASSUME NEW v \in Workers, obj'[v] # None PROVE state'[obj'[v]] = "live"
      <4>1. obj'[v] = obj[v] /\ v # w
        BY <1>6, <3>2 DEF Leave, StagesOK, Apart, IInv
      <4>2. obj[v] # ownPool[w]
        BY <3>2, <4>1 DEF PoolsApart, Apart, IInv
      <4>. QED
        BY <3>0, <3>2, <4>1, <4>2, InUse
    <3>3. \A v \in Workers : pinned'[v] # None => InCache(pinned[v])'
      BY <1>6
      DEF Leave, PoolToDestroy, Goto, IInv, TypeOK, Apart, HeldLive, StagesOK, InCache
    <3>. QED
      BY <3>1, <3>2, <3>3 DEF HeldLive
  <2>5. UnusedUnknown'
    BY <1>6, <2>2
    DEF Leave, PoolToDestroy, Goto, IInv, TypeOK, Apart, UnusedUnknown, StagesOK, HeldLive
  <2>6. PoolsApart'
    BY <1>6
    DEF Leave, PoolToDestroy, Goto, IInv, TypeOK, Apart, StagesOK, PoolsApart, InCache, Uses, Known, OneName
  <2>. QED
    BY <2>1, <2>3, <2>4, <2>5, <2>6 DEF Apart
<1>7. ASSUME NEW m \in Mdids, Evict(m) PROVE Apart'
  <2>2. \A o \in Objects, n \in Mdids : Known(o, n)' => Known(o, n)
    BY <1>7 DEF Evict, Known, IInv, TypeOK
  <2>3. OneName'
    BY <2>2 DEF IInv, Apart, OneName
  <2>1. StagesOK'
    BY <1>7 DEF Evict, Release, IInv, TypeOK, Apart, StagesOK
  <2>4. HeldLive'
    <3>0. \A o \in Objects : state[o] = "live" /\ state'[o] # "live" => o = cached[m] /\ refs[o] = 1
      BY <1>7 DEF Evict, Release, StagesOK, HeldLive, Apart, IInv, TypeOK
    <3>1. ASSUME NEW n \in Mdids, cached'[n] # None PROVE state'[cached'[n]] = "live"
      <4>1. cached'[n] = cached[n] /\ n # m
        BY <1>7, <3>1 DEF Evict, IInv, TypeOK
      <4>2. cached[n] # cached[m]
        BY <3>1, <4>1, InUse DEF OneName, Known, Apart, IInv
      <4>. QED
        BY <3>0, <3>1, <4>1, <4>2, InUse
    <3>2. ASSUME NEW v \in Workers, obj'[v] # None PROVE state'[obj'[v]] = "live"
      <4>1. obj'[v] = obj[v] /\ cached[m] # None
        BY <1>7 DEF Evict, holdVars
      <4>2. ~(refs[cached[m]] = 1 /\ obj[v] = cached[m])
        BY <4>1, InUse, LastReference
      <4>. QED
        BY <3>0, <3>2, <4>1, <4>2, InUse
    <3>3. ASSUME NEW v \in Workers, pinned'[v] # None PROVE InCache(pinned[v])'
      <4>1. pinned'[v] = pinned[v] /\ cached[m] # None /\ refs[cached[m]] = 1
        BY <1>7 DEF Evict, holdVars
      <4>2. pinned[v] # cached[m]
        BY <4>1, InUse, LastReference
      <4>. QED
        BY <1>7, <3>3, <4>1, <4>2, InUse DEF Evict, InCache, IInv, TypeOK
    <3>. QED
      BY <3>1, <3>2, <3>3 DEF HeldLive
  <2>5. UnusedUnknown'
    BY <1>7, <2>2
    DEF Evict, Release, IInv, TypeOK, Apart, UnusedUnknown, StagesOK, HeldLive
  <2>6. PoolsApart'
    BY <1>7
    DEF Evict, Release, IInv, TypeOK, Apart, StagesOK, PoolsApart, InCache, Uses, Known, OneName
  <2>. QED
    BY <2>1, <2>3, <2>4, <2>5, <2>6 DEF Apart
<1>8. ASSUME NEW s \in Sessions, EndSession(s) PROVE Apart'
  <2>2. \A o \in Objects, n \in Mdids : Known(o, n)' => Known(o, n)
    BY <1>8 DEF EndSession, Known, IInv, TypeOK
  <2>3. OneName'
    BY <2>2 DEF IInv, Apart, OneName
  <2>1. StagesOK'
    BY <1>8 DEF EndSession, Released, IInv, TypeOK, Apart, StagesOK
  <2>4. HeldLive'
    <3>0. \A o \in Objects :
           state[o] = "live" /\ state'[o] # "live" => Uses(s, o) /\ refs[o] = 1
      BY <1>8 DEF EndSession, Released, Uses, StagesOK, HeldLive, Apart, IInv, TypeOK
    <3>1. ASSUME NEW n \in Mdids, cached'[n] # None PROVE state'[cached'[n]] = "live"
      <4>1. cached'[n] = cached[n]
        BY <1>8 DEF EndSession
      <4>2. ~(Uses(s, cached[n]) /\ refs[cached[n]] = 1)
        BY <3>1, <4>1, InUse, LastReference
      <4>. QED
        BY <3>0, <3>1, <4>1, <4>2, InUse
    <3>2. ASSUME NEW v \in Workers, obj'[v] # None PROVE state'[obj'[v]] = "live"
      <4>1. obj'[v] = obj[v]
        BY <1>8 DEF EndSession, holdVars
      <4>2. ~(Uses(s, obj[v]) /\ refs[obj[v]] = 1)
        BY <3>2, <4>1, InUse, LastReference
      <4>. QED
        BY <3>0, <3>2, <4>1, <4>2, InUse
    <3>3. \A v \in Workers : pinned'[v] # None => InCache(pinned[v])'
      BY <1>8, LastReference
      DEF EndSession, Released, IInv, TypeOK, Apart, HeldLive, StagesOK, InCache
    <3>. QED
      BY <3>1, <3>2, <3>3 DEF HeldLive
  <2>5. UnusedUnknown'
    BY <1>8, <2>2
    DEF EndSession, Released, IInv, TypeOK, Apart, UnusedUnknown, StagesOK, HeldLive
  <2>6. PoolsApart'
    BY <1>8
    DEF EndSession, Released, IInv, TypeOK, Apart, StagesOK, PoolsApart, InCache, Uses, Known, OneName
  <2>. QED
    BY <2>1, <2>3, <2>4, <2>5, <2>6 DEF Apart
<1>. QED
  BY <1>1, <1>2, <1>3, <1>4, <1>5, <1>6, <1>7, <1>8 DEF Next

-----------------------------------------------------------------------------
\* A step that changes neither counts nor holders keeps the counts exact.
LEMMA ReferencesStay ==
  ASSUME NEW o \in Objects, UNCHANGED <<local, cached, obj, pinned>>
  PROVE  References(o)' = References(o)
<1>1. Holders(pinned, o)' = Holders(pinned, o) /\ Holders(obj, o)' = Holders(obj, o)
  BY DEF Holders
<1>2. (InCache(o)' <=> InCache(o)) /\ \A s \in Sessions : Uses(s, o)' <=> Uses(s, o)
  BY DEF InCache, Uses
<1>. QED
  BY <1>1, <1>2 DEF References, Count

\* Each step of a worker keeps the counts exact.
LEMMA RefsKept ==
  ASSUME IInv, Next
  PROVE  RefsExact'
<1>0. TypeOK /\ TypeOK' /\ Apart /\ Apart' /\ RefsExact
  BY TypesKept, ApartKept DEF IInv
<1>. USE NoneAssumption DEF workerVars, holdVars
<1>. SUFFICES ASSUME NEW o \in Objects, state'[o] = "live"
              PROVE  refs'[o] = References(o)' /\ refs'[o] > 0
  BY DEF RefsExact
<1>9. state[o] = "live" => refs[o] = References(o) /\ refs[o] \in Nat \ {0}
  BY <1>0 DEF RefsExact, TypeOK
<1>10. ASSUME UNCHANGED <<local, cached, refs, state, obj, pinned>>
       PROVE  refs'[o] = References(o)' /\ refs'[o] > 0
  BY <1>9, <1>10, ReferencesStay
<1>1. ASSUME NEW w \in Workers, NEW m \in Mdids, Start(w, m)
      PROVE  refs'[o] = References(o)' /\ refs'[o] > 0
  BY <1>1, <1>10 DEF Start
<1>2. ASSUME NEW w \in Workers, LookupCache(w)
      PROVE  refs'[o] = References(o)' /\ refs'[o] > 0
  <2>1. CASE cached[want[w]] = None
    BY <1>2, <1>10, <2>1 DEF LookupCache
  <2>2. CASE cached[want[w]] # None
    <3>1. /\ refs'[o] = IF o = cached[want[w]] THEN refs[o] + 2 ELSE refs[o]
          /\ obj[w] = None /\ pinned[w] = None
          /\ obj' = [obj EXCEPT ![w] = cached[want[w]]]
          /\ pinned' = [pinned EXCEPT ![w] = cached[want[w]]]
          /\ UNCHANGED <<local, cached, state>>
      <4>1. obj[w] = None /\ pinned[w] = None
        BY <1>0, <1>2 DEF LookupCache, Apart, StagesOK
      <4>2. /\ cached[want[w]] \in Objects /\ refs \in [Objects -> Nat]
            /\ refs' = [refs EXCEPT ![cached[want[w]]] = @ + 1 + 1]
            /\ obj' = [obj EXCEPT ![w] = cached[want[w]]]
            /\ pinned' = [pinned EXCEPT ![w] = cached[want[w]]]
            /\ UNCHANGED <<local, cached, state>>
        <5>1. cached[want[w]] \in Objects /\ refs \in [Objects -> Nat]
          BY <1>0, <1>2, <2>2 DEF LookupCache, Apart, StagesOK, TypeOK, ObjectOrNone
        <5>2. /\ refs' = [refs EXCEPT ![cached[want[w]]] = @ + 1 + 1]
              /\ obj' = [obj EXCEPT ![w] = cached[want[w]]]
              /\ pinned' = [pinned EXCEPT ![w] = cached[want[w]]]
              /\ UNCHANGED <<local, cached, state>>
          BY <1>2, <2>2 DEF LookupCache, CustomerReference
        <5>. QED
          BY <5>1, <5>2
      <4>. QED
        BY <4>1, <4>2
    <3>2. /\ obj'[w] = cached[want[w]] /\ pinned'[w] = cached[want[w]]
          /\ \A v \in Workers \ {w} : obj'[v] = obj[v] /\ pinned'[v] = pinned[v]
      BY <1>0, <3>1 DEF TypeOK
    <3>3. InCache(o)' = InCache(o) /\ Users(o)' = Users(o)
      BY <3>1 DEF InCache, Users, Uses
    <3>4. Cardinality(Users(o)) \in Nat
      BY UsersCount
    <3>. QED
      BY <1>0, <1>9, <3>1, <3>2, <3>3, <3>4, ReferencesMove
  <2>. QED
    BY <2>1, <2>2
<1>3. ASSUME NEW w \in Workers, NEW p \in Objects, Fetch(w, p)
      PROVE  refs'[o] = References(o)' /\ refs'[o] > 0
  <2>1. /\ refs'[o] = IF o = p THEN 1 ELSE refs[o]
        /\ state[o] = IF o = p THEN "unused" ELSE "live"
        /\ obj[w] = None /\ obj'[w] = p /\ UNCHANGED <<local, cached, pinned>>
        /\ \A v \in Workers \ {w} : obj'[v] = obj[v] /\ pinned'[v] = pinned[v]
    BY <1>0, <1>3 DEF Fetch, Apart, StagesOK, TypeOK
  <2>2. InCache(o)' = InCache(o) /\ Users(o)' = Users(o) /\ pinned'[w] = pinned[w]
    BY <2>1 DEF InCache, Users, Uses
  <2>3. Cardinality(Users(o)) \in Nat
    BY UsersCount
  <2>4. o = p => References(o) = 0
    <3>. SUFFICES ASSUME o = p PROVE References(o) = 0
      OBVIOUS
    <3>1. state[o] = "unused"
      BY <2>1
    <3>2. \A m \in Mdids : ~Known(o, m)
      BY <1>0, <3>1 DEF Apart, UnusedUnknown
    <3>3. ~InCache(o) /\ \A s \in Sessions : ~Uses(s, o)
      BY <3>2 DEF Known, InCache, Uses
    <3>4. \A v \in Workers : obj[v] # o /\ pinned[v] # o
      BY <1>0, <3>1, <3>3 DEF Apart, HeldLive
    <3>5. Holders(obj, o) = 0 /\ Holders(pinned, o) = 0
      BY <1>0, <3>4, HoldersCount DEF TypeOK
    <3>6. Cardinality(Users(o)) = 0
      BY <3>3, UsersCount
    <3>. QED
      BY <3>3, <3>5, <3>6 DEF References, Count, Users
  <2>5. References(o) \in Nat
        /\ References(o)' = References(o) + (IF o = p THEN 1 ELSE 0)
    BY <1>0, <2>1, <2>2, <2>3, ReferencesMove
  <2>. QED
    BY <1>9, <2>1, <2>4, <2>5
<1>4. ASSUME NEW w \in Workers, PtInsert(w)
      PROVE  refs'[o] = References(o)' /\ refs'[o] > 0
  <2>0. /\ want[w] \in Mdids /\ obj[w] \in Objects /\ pinned[w] = None /\ obj' = obj
        /\ ~InCache(obj[w]) /\ UNCHANGED <<local, state>>
    BY <1>0, <1>4 DEF PtInsert, Apart, StagesOK, PoolsApart, TypeOK, ObjectOrNone
  <2>1. Users(o)' = Users(o) /\ Cardinality(Users(o)) \in Nat
    BY <2>0, UsersCount DEF Users, Uses
  <2>2. CASE cached[want[w]] = None
    <3>1. /\ cached' = [cached EXCEPT ![want[w]] = obj[w]]
          /\ refs'[o] = IF o = obj[w] THEN refs[o] + 2 ELSE refs[o]
          /\ pinned' = [pinned EXCEPT ![w] = obj[w]]
      BY <1>0, <1>4, <2>2 DEF PtInsert, TypeOK
    <3>2. InCache(o)' <=> InCache(o) \/ o = obj[w]
      BY <1>0, <2>0, <2>2, <3>1 DEF InCache, TypeOK
    <3>3. /\ pinned'[w] = obj[w] /\ obj'[w] = obj[w]
          /\ \A v \in Workers \ {w} : obj'[v] = obj[v] /\ pinned'[v] = pinned[v]
      BY <1>0, <2>0, <3>1 DEF TypeOK
    <3>. QED
      BY <1>0, <1>9, <2>0, <2>1, <3>1, <3>2, <3>3, ReferencesMove
  <2>3. CASE cached[want[w]] # None
    <3>1. /\ cached' = cached
          /\ refs'[o] = IF o = cached[want[w]] THEN refs[o] + 1 ELSE refs[o]
          /\ pinned' = [pinned EXCEPT ![w] = cached[want[w]]]
      BY <1>0, <1>4, <2>3 DEF PtInsert, TypeOK
    <3>2. InCache(o)' = InCache(o)
      BY <3>1 DEF InCache
    <3>3. /\ pinned'[w] = cached[want[w]] /\ obj'[w] = obj[w]
          /\ \A v \in Workers \ {w} : obj'[v] = obj[v] /\ pinned'[v] = pinned[v]
      BY <1>0, <2>0, <3>1 DEF TypeOK
    <3>. QED
      BY <1>0, <1>9, <2>0, <2>1, <3>1, <3>2, <3>3, ReferencesMove
  <2>. QED
    BY <2>2, <2>3
<1>5. ASSUME NEW w \in Workers, Store(w)
      PROVE  refs'[o] = References(o)' /\ refs'[o] > 0
  <2>1. /\ obj[w] \in Objects /\ want[w] \in Mdids /\ obj'[w] = None
        /\ \A v \in Workers \ {w} : obj'[v] = obj[v] /\ pinned'[v] = pinned[v]
        /\ UNCHANGED <<cached, pinned>>
    BY <1>0, <1>5 DEF Store, Apart, StagesOK, TypeOK, ObjectOrNone
  <2>2. InCache(o)' = InCache(o) /\ Cardinality(Users(o)) \in Nat /\ IsFiniteSet(Users(o))
    BY <2>1, UsersCount DEF InCache
  <2>3. CASE local[session[w]][want[w]] = None
    <3>1. /\ local' = [local EXCEPT ![session[w]][want[w]] = obj[w]]
          /\ UNCHANGED <<refs, state>> /\ session[w] \in Sessions
      BY <1>0, <1>5, <2>3 DEF Store, TypeOK
    <3>2. CASE o = obj[w]
      <4>1. session[w] \notin Users(o)
        <5>1. Known(o, want[w])
          BY <2>1, <3>2 DEF Known
        <5>2. ASSUME NEW n \in Mdids, local[session[w]][n] = o PROVE FALSE
          <6>1. Known(o, n)
            BY <3>1, <5>2 DEF Known
          <6>. QED
            BY <1>0, <2>1, <2>3, <5>1, <5>2, <6>1 DEF Apart, OneName
        <5>. QED
          BY <5>2 DEF Users, Uses
      <4>2. Users(o)' = Users(o) \union {session[w]}
        BY <1>0, <2>1, <2>3, <3>1, <3>2 DEF Users, Uses, TypeOK
      <4>3. Cardinality(Users(o)') = Cardinality(Users(o)) + 1
        BY <2>2, <4>1, <4>2, FS_AddElement
      <4>. QED
        BY <1>0, <1>9, <2>1, <2>2, <3>1, <3>2, <4>3, ReferencesMove
    <3>3. CASE o # obj[w]
      <4>1. Users(o)' = Users(o)
        BY <1>0, <2>1, <2>3, <3>1, <3>3 DEF Users, Uses, TypeOK
      <4>. QED
        BY <1>0, <1>9, <2>1, <2>2, <3>1, <3>3, <4>1, ReferencesMove
    <3>. QED
      BY <3>2, <3>3
  <2>4. CASE local[session[w]][want[w]] # None
    <3>1. /\ refs'[o] = IF o = obj[w] THEN refs[o] - 1 ELSE refs[o]
          /\ state[o] = "live" /\ (o = obj[w] => refs[o] # 1) /\ local' = local
      BY <1>0, <1>5, <2>4 DEF Store, Release, TypeOK
    <3>2. Users(o)' = Users(o)
      BY <3>1 DEF Users, Uses
    <3>. QED
      BY <1>0, <1>9, <2>1, <2>2, <3>1, <3>2, ReferencesMove
  <2>. QED
    BY <2>3, <2>4
<1>6. ASSUME NEW w \in Workers, Leave(w)
      PROVE  refs'[o] = References(o)' /\ refs'[o] > 0
  <2>1. /\ refs'[o] = IF o = pinned[w] THEN refs[o] - 1 ELSE refs[o]
        /\ state[o] = "live" /\ pinned'[w] = None /\ obj'[w] = obj[w]
        /\ \A v \in Workers \ {w} : obj'[v] = obj[v] /\ pinned'[v] = pinned[v]
        /\ UNCHANGED <<local, cached>>
    BY <1>0, <1>6 DEF Leave, TypeOK
  <2>2. /\ InCache(o)' = InCache(o) /\ Users(o)' = Users(o)
        /\ Cardinality(Users(o)) \in Nat
    BY <2>1, UsersCount DEF InCache, Users, Uses
  <2>3. o = pinned[w] => References(o) > 1
    <3>. SUFFICES ASSUME o = pinned[w] PROVE References(o) > 1
      OBVIOUS
    <3>1. InCache(o)
      BY <1>0 DEF Apart, HeldLive
    <3>2. /\ Holders(pinned, o) \in Nat /\ Holders(obj, o) \in Nat
          /\ Holders(pinned, o) = 0 <=> \A v \in Workers : pinned[v] # o
      BY <1>0, HoldersCount DEF TypeOK
    <3>3. References(o) = 1 + Holders(pinned, o) + Holders(obj, o) + Cardinality(Users(o))
      BY <3>1 DEF References, Count, Users
    <3>. QED
      BY <2>2, <3>2, <3>3
  <2>. QED
    BY <1>0, <1>9, <2>1, <2>2, <2>3, ReferencesMove
<1>7. ASSUME NEW m \in Mdids, Evict(m)
      PROVE  refs'[o] = References(o)' /\ refs'[o] > 0
  <2>1. /\ o # cached[m] /\ refs'[o] = refs[o] /\ state[o] = "live"
        /\ cached' = [cached EXCEPT ![m] = None] /\ UNCHANGED <<local, obj, pinned>>
    BY <1>0, <1>7 DEF Evict, Release, TypeOK
  <2>2. InCache(o)' <=> InCache(o)
    BY <1>0, <2>1 DEF InCache, TypeOK
  <2>3. References(o)' = References(o)
    <3>1. Holders(pinned, o)' = Holders(pinned, o) /\ Holders(obj, o)' = Holders(obj, o)
      BY <2>1 DEF Holders
    <3>2. \A s \in Sessions : Uses(s, o)' <=> Uses(s, o)
      BY <2>1 DEF Uses
    <3>. QED
      BY <2>2, <3>1, <3>2 DEF References, Count
  <2>. QED
    BY <1>9, <2>1, <2>3
<1>8. ASSUME NEW s \in Sessions, EndSession(s)
      PROVE  refs'[o] = References(o)' /\ refs'[o] > 0
  <2>1. /\ refs'[o] = IF Uses(s, o) THEN refs[o] - 1 ELSE refs[o]
        /\ state[o] = "live" /\ (Uses(s, o) => refs[o] # 1)
        /\ local' = [local EXCEPT ![s] = [m \in Mdids |-> None]]
        /\ UNCHANGED <<cached, obj, pinned>>
    BY <1>0, <1>8 DEF EndSession, Released, Uses, TypeOK
  <2>2. IsFiniteSet(Users(o)) /\ Cardinality(Users(o)) \in Nat /\ (s \in Users(o) <=> Uses(s, o))
    BY UsersCount DEF Users
  <2>3. Users(o)' = Users(o) \ {s}
    BY <1>0, <2>1 DEF Users, Uses, TypeOK
  <2>4. Cardinality(Users(o)') =
          IF Uses(s, o) THEN Cardinality(Users(o)) - 1 ELSE Cardinality(Users(o))
    BY <2>2, <2>3, FS_RemoveElement
  <2>5. /\ Holders(pinned, o) \in Nat /\ Holders(obj, o) \in Nat
        /\ Holders(pinned, o)' = Holders(pinned, o) /\ Holders(obj, o)' = Holders(obj, o)
    <3>1. Holders(pinned, o) \in Nat /\ Holders(obj, o) \in Nat
      BY <1>0, HoldersCount DEF TypeOK
    <3>2. Holders(pinned, o)' = Holders(pinned, o) /\ Holders(obj, o)' = Holders(obj, o)
      BY <2>1 DEF Holders
    <3>. QED
      BY <3>1, <3>2
  <2>6. References(o) = (IF InCache(o) THEN 1 ELSE 0) + Holders(pinned, o) + Holders(obj, o)
                          + Cardinality(Users(o))
    BY DEF References, Count, Users
  <2>7. References(o)' = (IF InCache(o) THEN 1 ELSE 0) + Holders(pinned, o) + Holders(obj, o)
                           + Cardinality(Users(o)')
    BY <2>1, <2>5 DEF References, Count, Users, InCache
  <2>. QED
    BY <1>9, <2>1, <2>2, <2>4, <2>5, <2>6, <2>7
<1>. QED
  BY <1>1, <1>2, <1>3, <1>4, <1>5, <1>6, <1>7, <1>8 DEF Next

\* The invariant is inductive.
LEMMA AccessorNext == IInv /\ [Next]_vars => IInv'
<1>1. IInv /\ Next => IInv'
  BY TypesKept, ApartKept, RefsKept DEF IInv
<1>2. ASSUME IInv, UNCHANGED vars PROVE IInv'
  <2>. USE <1>2 DEF vars, workerVars, holdVars
  <2>1. TypeOK' /\ Apart'
    BY DEF IInv, TypeOK, Apart, StagesOK, OneName, HeldLive, UnusedUnknown, PoolsApart, Known, InCache,
           Uses
  <2>2. \A o \in Objects : References(o)' = References(o)
    BY ReferencesStay
  <2>. QED
    BY <2>1, <2>2 DEF IInv, RefsExact
<1>. QED
  BY <1>1, <1>2

\* CMDAccessor and the cache's accessors keep their types.
THEOREM AccessorTyping == Spec => []TypeOK
<1>1. IInv => TypeOK
  BY DEF IInv
<1>. QED
  BY <1>1, AccessorInit, AccessorNext, PTL DEF Spec

\* Every reference that Pimdobj, the cache and the sessions take is given back
\* once: the count of an object in memory is the number of its holders.
THEOREM ReferencesExact == Spec => []RefsExact
<1>1. IInv => RefsExact
  BY DEF IInv
<1>. QED
  BY <1>1, AccessorInit, AccessorNext, PTL DEF Spec

\* What the cache all sessions share holds is in memory, whatever a session does
\* with the pools of the objects it did not insert.
THEOREM CacheHoldsLiveObjects == Spec => []CachedLive
<1>1. IInv => CachedLive
  BY DEF IInv, Apart, HeldLive, CachedLive
<1>. QED
  BY <1>1, AccessorInit, AccessorNext, PTL DEF Spec
=============================================================================
