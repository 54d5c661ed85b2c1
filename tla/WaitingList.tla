----------------------------- MODULE WaitingList -----------------------------
(***************************************************************************)
(* The scheduler's list of waiting jobs: gpos::CSyncList, a lock-free      *)
(* stack, of links that come from a CSyncPool and go back to it, as        *)
(* CScheduler::Schedule and CScheduler::PjRetrieve use the two.  Module    *)
(* Scheduler takes the list as a sequence with an atomic head; here a step *)
(* is one access to the head or to a link.                                 *)
(*                                                                         *)
(* A Pop reads the head, then its successor, then swaps.  If the head was  *)
(* popped, recycled and pushed again in between, the swap succeeds with an *)
(* old successor.  The clock of the pool is there to delay the reuse.      *)
(***************************************************************************)
EXTENDS SyncPool, Sequences

CONSTANT MaxAge  \* bound: moves of the clock during a Pop that succeeds

ASSUME MaxAgeAssumption == MaxAge \in Nat

VARIABLES
    head,      \* m_ptHead of m_listjlWaiting
    next,      \* m_link.m_pvNext of each link
    listAt,    \* where each thread is in Schedule or PjRetrieve
    readHead,  \* ptHead of Push, ptHeadOld of Pop
    readNext,  \* ptHeadNew of Pop
    waiting,   \* history: the links as an atomic stack would hold them
    age        \* history: moves of the clock since a Pop read the head

linkVars == <<head, next>>
listLocals == <<readHead, readNext>>
history == <<waiting, age>>
vars == <<poolVars, linkVars, listAt, listLocals, history>>

ListStages == {"idle", "retrieving", "init", "pushRead", "pushLink", "pushSwap",
               "popRead", "popNext", "popSwap", "popReset", "recycle", "aborted"}
ObjectOrNone == Objects \union {None}

ListTypeOK ==
    /\ PoolTypeOK
    /\ head \in ObjectOrNone
    /\ next \in [Objects -> ObjectOrNone]
    /\ listAt \in [Workers -> ListStages]
    /\ readHead \in [Workers -> ObjectOrNone]
    /\ readNext \in [Workers -> ObjectOrNone]
    /\ waiting \in Seq(Objects)
    /\ age \in [Workers -> 0..(MaxAge + 1)]

ListInit ==
    /\ PoolInit
    /\ head = None
    /\ next = [o \in Objects |-> None]
    /\ listAt = [w \in Workers |-> "idle"]
    /\ readHead = [w \in Workers |-> None]
    /\ readNext = [w \in Workers |-> None]
    /\ waiting = <<>>
    /\ age = [w \in Workers |-> 0]

ListGoto(w, stage) == listAt' = [listAt EXCEPT ![w] = stage]
SetNext(o, n) == next' = [next EXCEPT ![o] = n]
Reads(w, h) == readHead' = [readHead EXCEPT ![w] = h]

\* The one link a thread owns between PtRetrieve and Push, or Pop and Recycle.
Link(w) == CHOOSE o \in Objects : o \in held[w]
poolOthers == <<bitmaps, last, heap, poolAt, retrieveLocals>>

\* Push and Pop return: their locals are gone.
ForgetReads(w) ==
    /\ Reads(w, None)
    /\ readNext' = [readNext EXCEPT ![w] = None]
    /\ age' = [age EXCEPT ![w] = 0]

Popping(w) == listAt[w] \in {"popNext", "popSwap"}

-----------------------------------------------------------------------------
\* Schedule asks the pool for a link.
Schedule(w) ==
    /\ listAt[w] = "idle" /\ StartRetrieve(w)
    /\ ListGoto(w, "retrieving")
    /\ UNCHANGED <<linkVars, listLocals, history>>

\* A step of PtRetrieve; the clock is what Pops in progress are measured by.
RetrieveStep(w) ==
    /\ listAt[w] = "retrieving" /\ Retrieving(w)
    /\ age' = IF AdvanceClock(w)
              THEN [v \in Workers |-> IF Popping(v) /\ age[v] <= MaxAge THEN age[v] + 1 ELSE age[v]]
              ELSE age
    /\ ListGoto(w, IF held'[w] # {} THEN "init"
                   ELSE IF poolAt'[w] = "idle" THEN "idle" ELSE "retrieving")
    /\ UNCHANGED <<linkVars, listLocals, waiting>>

\* A swap has failed often enough for CheckBackOff to sleep and find that the
\* task is aborted: the thread leaves Push or Pop by an exception, and a link
\* that Push has not inserted is never recycled.
Abort(w) ==
    /\ listAt[w] \in {"pushSwap", "popSwap"} /\ head # readHead[w]
    /\ ForgetReads(w)
    /\ ListGoto(w, "aborted")
    /\ UNCHANGED <<poolVars, linkVars, waiting>>

\* SJobLink::Init
InitLink(w) ==
    /\ listAt[w] = "init"
    /\ SetNext(Link(w), None)
    /\ ListGoto(w, "pushRead")
    /\ UNCHANGED <<poolVars, head, listLocals, history>>

PushRead(w) ==
    /\ listAt[w] = "pushRead"
    /\ Reads(w, head)
    /\ ListGoto(w, "pushLink")
    /\ UNCHANGED <<poolVars, linkVars, readNext, history>>

PushLink(w) ==
    /\ listAt[w] = "pushLink"
    /\ SetNext(Link(w), readHead[w])
    /\ ListGoto(w, "pushSwap")
    /\ UNCHANGED <<poolVars, head, listLocals, history>>

PushSwap(w) ==
    /\ listAt[w] = "pushSwap" /\ head = readHead[w]
    /\ head' = Link(w)
    /\ waiting' = <<Link(w)>> \o waiting
    /\ Put(w, Link(w))
    /\ ForgetReads(w)
    /\ ListGoto(w, "idle")
    /\ UNCHANGED <<poolOthers, next>>

PushRetry(w) ==
    /\ listAt[w] = "pushSwap" /\ head # readHead[w]
    /\ ListGoto(w, "pushRead")
    /\ UNCHANGED <<poolVars, linkVars, listLocals, history>>

\* PjRetrieve finds no job.
PopEmpty(w) ==
    /\ listAt[w] = "popRead" /\ head = None
    /\ ListGoto(w, "idle")
    /\ ForgetReads(w)
    /\ UNCHANGED <<poolVars, linkVars, waiting>>

\* PjRetrieve begins, or Pop tries again, and reads the head.
PopRead(w) ==
    /\ poolAt[w] = "idle" /\ listAt[w] \in {"idle", "popRead"} /\ head # None
    /\ Reads(w, head)
    /\ age' = [age EXCEPT ![w] = 0]
    /\ ListGoto(w, "popNext")
    /\ UNCHANGED <<poolVars, linkVars, readNext, waiting>>

Deleted(o) == o \in HeapObjects \ heap

\* The link of a deleted object can hold anything.
PopNext(w) ==
    /\ listAt[w] = "popNext"
    /\ \E n \in ObjectOrNone :
         /\ Deleted(readHead[w]) \/ n = next[readHead[w]]
         /\ readNext' = [readNext EXCEPT ![w] = n]
    /\ ListGoto(w, "popSwap")
    /\ UNCHANGED <<poolVars, linkVars, readHead, history>>

\* The swap succeeds.  Pops that take too long for the clock are cut off here,
\* so that the runs can tell which delay the clock of the pool covers.
PopSwap(w) ==
    /\ listAt[w] = "popSwap" /\ head = readHead[w]
    /\ age[w] <= MaxAge
    /\ head' = readNext[w]
    /\ waiting' = IF waiting = <<>> THEN <<>> ELSE Tail(waiting)
    /\ Take(w, readHead[w])
    /\ ForgetReads(w)
    /\ ListGoto(w, "popReset")
    /\ UNCHANGED <<poolOthers, next>>

PopRetry(w) ==
    /\ listAt[w] = "popSwap" /\ head # readHead[w]
    /\ ForgetReads(w)
    /\ ListGoto(w, "popRead")
    /\ UNCHANGED <<poolVars, linkVars, waiting>>

\* "reset link", after the swap.
PopReset(w) ==
    /\ listAt[w] = "popReset"
    /\ SetNext(Link(w), None)
    /\ ListGoto(w, "recycle")
    /\ UNCHANGED <<poolVars, head, listLocals, history>>

\* PjRetrieve gives the link back to the pool.
RecycleLink(w) ==
    /\ listAt[w] = "recycle"
    /\ Recycle(w, Link(w))
    /\ ListGoto(w, "idle")
    /\ UNCHANGED <<linkVars, listLocals, history>>

ListNext ==
    \E w \in Workers :
         \/ Schedule(w) \/ RetrieveStep(w) \/ InitLink(w)
         \/ PushRead(w) \/ PushLink(w) \/ PushSwap(w) \/ PushRetry(w)
         \/ PopEmpty(w) \/ PopRead(w) \/ PopNext(w) \/ PopSwap(w) \/ PopRetry(w)
         \/ PopReset(w) \/ RecycleLink(w) \/ Abort(w)

ListSpec == ListInit /\ [][ListNext]_vars

\* A thread inside PtRetrieve keeps running.
ListFairSpec == ListSpec /\ \A w \in Workers : WF_vars(RetrieveStep(w))

-----------------------------------------------------------------------------
\* "In order for the objects to be used in lock-free lists, the class uses the
\* clock algorithm to recycle objects": the links from the head on are those an
\* atomic stack would hold, in order, and no thread holds one of them, so Pop
\* loses no job and returns none twice.
ListIntact ==
    /\ head = IF waiting = <<>> THEN None ELSE waiting[1]
    /\ \A i \in 1..Len(waiting) :
         /\ next[waiting[i]] = IF i = Len(waiting) THEN None ELSE waiting[i + 1]
         /\ \A w \in Workers : waiting[i] \notin held[w]

-----------------------------------------------------------------------------
(* What a comment promises and the code does not keep, see the README.     *)

\* A Pop does not look into an object that CSyncPool::Recycle has deleted.
NoDeletedRead ==
    \A w \in Workers : listAt[w] = "popNext" => ~Deleted(readHead[w])
=============================================================================
