----------------------------- MODULE MDAccessor ------------------------------
(***************************************************************************)
(* CMDAccessor::Pimdobj: how the workers of optimization sessions find     *)
(* metadata objects.  A session (a CMDAccessor) remembers the objects it   *)
(* uses in a hash table of its own and owns a reference to each; behind it *)
(* is the metadata cache all sessions share, which drops an object when    *)
(* only its own reference is left (module Cache models the cache itself).  *)
(* An object that is fetched lives in a memory pool of the cache accessor, *)
(* which the cache takes over when it takes the object.                    *)
(***************************************************************************)
EXTENDS Naturals, FiniteSets

CONSTANTS
    Workers,
    Sessions,
    Mdids,      \* ids of metadata objects
    Ctas,       \* those of tables being created, which bypass the cache
    Objects,    \* bound: the objects fetched in a run
    None

ASSUME CtasAssumption == Ctas \subseteq Mdids
ASSUME NoneAssumption == None \notin Objects \union Mdids
ASSUME FiniteAssumption == IsFiniteSet(Workers) /\ IsFiniteSet(Sessions)

VARIABLES
    session,    \* whose accessor each worker uses
    local,      \* m_shtCacheAccessors of each session
    cached,     \* the object of each mdid in the metadata cache
    refs,       \* reference count of each object
    state,      \* "unused", "live", or "gone" with its memory
    at,         \* where each worker is in Pimdobj
    want,       \* the mdid it asks for
    obj,        \* its pmdobjNew
    ownPool,    \* the object in the memory pool of its cache accessor
    pinned      \* the object its cache accessor holds

workerVars == <<session, want>>
holdVars == <<obj, ownPool, pinned>>
vars == <<local, cached, refs, state, at, workerVars, holdVars>>

ObjectOrNone == Objects \union {None}
Stages == {"idle", "lookup", "fetch", "insert", "store", "leave"}

TypeOK ==
    /\ session \in [Workers -> Sessions]
    /\ local \in [Sessions -> [Mdids -> ObjectOrNone]]
    /\ cached \in [Mdids -> ObjectOrNone]
    /\ refs \in [Objects -> Nat]
    /\ state \in [Objects -> {"unused", "live", "gone"}]
    /\ at \in [Workers -> Stages]
    /\ want \in [Workers -> Mdids \union {None}]
    /\ obj \in [Workers -> ObjectOrNone]
    /\ ownPool \in [Workers -> ObjectOrNone]
    /\ pinned \in [Workers -> ObjectOrNone]

Nothing == [w \in Workers |-> None]

Init ==
    /\ session \in [Workers -> Sessions]
    /\ local = [s \in Sessions |-> [m \in Mdids |-> None]]
    /\ cached = [m \in Mdids |-> None]
    /\ refs = [o \in Objects |-> 0]
    /\ state = [o \in Objects |-> "unused"]
    /\ at = [w \in Workers |-> "idle"]
    /\ want = Nothing /\ obj = Nothing /\ ownPool = Nothing /\ pinned = Nothing

Goto(w, stage) == at' = [at EXCEPT ![w] = stage]

-----------------------------------------------------------------------------
\* The object is not in the table of the session.  (If it is, nothing changes.)
Start(w, m) ==
    /\ at[w] = "idle"
    /\ local[session[w]][m] = None
    /\ want' = [want EXCEPT ![w] = m]
    /\ Goto(w, "lookup")
    /\ UNCHANGED <<session, local, cached, refs, state, holdVars>>

\* What CCacheAccessor::Lookup adds to the accessor's own reference.
CustomerReference == 1

\* CCacheAccessor::Lookup.
LookupCache(w) ==
    LET o == cached[want[w]]
    IN  /\ at[w] = "lookup"
        /\ IF o = None
           THEN Goto(w, "fetch") /\ UNCHANGED <<refs, obj, pinned>>
           ELSE /\ refs' = [refs EXCEPT ![o] = @ + 1 + CustomerReference]
                /\ obj' = [obj EXCEPT ![w] = o]
                /\ pinned' = [pinned EXCEPT ![w] = o]
                /\ Goto(w, "store")
        /\ UNCHANGED <<local, cached, state, workerVars, ownPool>>

\* The provider's answer is parsed: a new object, in the accessor's pool or,
\* for a table being created, in that of the session.
Fetch(w, o) ==
    LET bypass == want[w] \in Ctas
    IN  /\ at[w] = "fetch"
        /\ state[o] = "unused"
        /\ state' = [state EXCEPT ![o] = "live"]
        /\ refs' = [refs EXCEPT ![o] = 1]
        /\ obj' = [obj EXCEPT ![w] = o]
        /\ ownPool' = [ownPool EXCEPT ![w] = IF bypass THEN None ELSE o]
        /\ Goto(w, IF bypass THEN "store" ELSE "insert")
        /\ UNCHANGED <<local, cached, workerVars, pinned>>

\* CCacheAccessor::PtInsert into a unique cache.  Whatever it finds there, the
\* accessor pins; the worker goes on with the object it has fetched.
PtInsert(w) ==
    LET o == obj[w]
        found == cached[want[w]]
    IN  /\ at[w] = "insert"
        /\ IF found = None
           THEN /\ cached' = [cached EXCEPT ![want[w]] = o]
                /\ refs' = [refs EXCEPT ![o] = @ + 2]
                /\ ownPool' = [ownPool EXCEPT ![w] = None]
                /\ pinned' = [pinned EXCEPT ![w] = o]
           ELSE /\ refs' = [refs EXCEPT ![found] = @ + 1]
                /\ pinned' = [pinned EXCEPT ![w] = found]
                /\ UNCHANGED <<cached, ownPool>>
        /\ Goto(w, "store")
        /\ UNCHANGED <<local, state, workerVars, obj>>

\* An object goes with its last reference.
Release(o) ==
    /\ refs' = [refs EXCEPT ![o] = @ - 1]
    /\ state' = [state EXCEPT ![o] = IF refs[o] = 1 THEN "gone" ELSE @]

\* The reference passes to the table of the session, unless the table has an
\* object for the mdid by now.
Store(w) ==
    LET s == session[w]
        m == want[w]
    IN  /\ at[w] = "store"
        /\ IF local[s][m] = None
           THEN local' = [local EXCEPT ![s][m] = obj[w]] /\ UNCHANGED <<refs, state>>
           ELSE Release(obj[w]) /\ UNCHANGED local
        /\ obj' = [obj EXCEPT ![w] = None]
        /\ Goto(w, "leave")
        /\ UNCHANGED <<cached, workerVars, ownPool, pinned>>

\* A mutant that destroys the pool of an object the cache has taken as well.
PoolToDestroy_Always(w) == {ownPool[w], pinned[w]} \ {None}

\* The pool of an object that was not inserted.
PoolToDestroy(w) == {ownPool[w]} \ {None}

\* The destructor of the cache accessor.
Leave(w) ==
    /\ at[w] = "leave"
    /\ state' = [o \in Objects |-> IF o \in PoolToDestroy(w) THEN "gone" ELSE state[o]]
    /\ refs' = [o \in Objects |-> IF o = pinned[w] THEN refs[o] - 1 ELSE refs[o]]
    /\ ownPool' = [ownPool EXCEPT ![w] = None]
    /\ pinned' = [pinned EXCEPT ![w] = None]
    /\ want' = [want EXCEPT ![w] = None]
    /\ Goto(w, "idle")
    /\ UNCHANGED <<session, local, cached, obj>>

-----------------------------------------------------------------------------
\* The cache evicts an object that nobody else refers to.
Evict(m) ==
    LET o == cached[m]
    IN  /\ o # None /\ refs[o] = 1
        /\ cached' = [cached EXCEPT ![m] = None]
        /\ Release(o)
        /\ UNCHANGED <<local, at, workerVars, holdVars>>

\* A mutant that forgets to release what the table holds.
Released_Nothing(s) == {}

Released(s) == {local[s][m] : m \in Mdids} \ {None}

\* ~CMDAccessor, when the workers of the session are done: DestroyAccessorElement
\* for every element.  A new session may take its place.
EndSession(s) ==
    /\ \A w \in Workers : session[w] = s => at[w] = "idle"
    /\ \E m \in Mdids : local[s][m] # None
    /\ refs' = [o \in Objects |->
                  IF o \in Released(s) /\ state[o] = "live" THEN refs[o] - 1 ELSE refs[o]]
    /\ state' = [o \in Objects |->
                   IF o \in Released(s) /\ refs[o] = 1 THEN "gone" ELSE state[o]]
    /\ local' = [local EXCEPT ![s] = [m \in Mdids |-> None]]
    /\ UNCHANGED <<cached, at, workerVars, holdVars>>

Next ==
    \/ \E w \in Workers :
         \/ \E m \in Mdids : Start(w, m)
         \/ LookupCache(w)
         \/ \E o \in Objects : Fetch(w, o)
         \/ PtInsert(w)
         \/ Store(w)
         \/ Leave(w)
    \/ \E m \in Mdids : Evict(m)
    \/ \E s \in Sessions : EndSession(s)

Spec == Init /\ [][Next]_vars

-----------------------------------------------------------------------------
Count(b) == IF b THEN 1 ELSE 0
Holders(held, o) == Cardinality({w \in Workers : held[w] = o})
InCache(o) == \E m \in Mdids : cached[m] = o
Uses(s, o) == \E m \in Mdids : local[s][m] = o

\* Who refers to an object: the cache, the accessors that pin it, the workers that
\* have it in hand and the sessions that use it.
References(o) ==
    Count(InCache(o)) + Holders(pinned, o) + Holders(obj, o)
      + Cardinality({s \in Sessions : Uses(s, o)})

\* The reference count of an object in memory is exact, so the cache evicts no
\* object that is in use.  An object with no reference is destroyed: nothing
\* keeps a fetched object for ever.
RefsExact == \A o \in Objects : state[o] = "live" => refs[o] = References(o) /\ refs[o] > 0

\* What the shared cache hands out is in memory.
CachedLive == \A m \in Mdids : cached[m] # None => state[cached[m]] = "live"

-----------------------------------------------------------------------------
(* What a comment promises and the code does not keep, see the README.     *)

\* What a session has in its table, and returns to the optimizer, is in memory
\* until the session ends.
LocalLive ==
    \A s \in Sessions, m \in Mdids : local[s][m] # None => state[local[s][m]] = "live"
=============================================================================
