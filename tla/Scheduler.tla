----------------------------- MODULE Scheduler ------------------------------
(***************************************************************************)
(* The job scheduler of the optimizer: CScheduler (the workers' loop, the  *)
(* waiting list, the counters), CJob (reference counts, parents) and       *)
(* CJobQueue (one main job per shared operation), with the workers' event  *)
(* CEvent as specified by EventWaiters.                                    *)
(*                                                                         *)
(* The workers run without a common lock.  A step of this module is one    *)
(* atomic access to shared state in the release build: an atomic add, a    *)
(* Push or Pop of the lock-free list, a section under the mutex or under a *)
(* spinlock.  What a job does when it runs is left open: it may complete,  *)
(* fork children, or return to be run again, as CJobStateMachine::FRun     *)
(* allows.                                                                 *)
(***************************************************************************)
EXTENDS Integers, Sequences, FiniteSets

CONSTANTS
    Workers,      \* the tasks that run CScheduler::ProcessJobs
    Jobs,         \* job slots of the job factory, reused after Release
    Queues,       \* job queues; a job of queue q forks only below q
    NoJob,
    Ratio,        \* OPT_SCHED_QUEUED_RUNNING_RATIO
    MaxUlong,     \* ULONG_PTR counters range over 0..MaxUlong and wrap
    MaxForks,     \* bound: forks and fruitless runs in a search stage
    MaxStages,    \* bound: search stages
    MayFail       \* whether a worker may raise and a run be cancelled

NoQueue == 0

ASSUME QueuesAssumption == Queues \subseteq Nat \ {0}
ASSUME NoJobAssumption == NoJob \notin Jobs
ASSUME BoundsAssumption ==
    /\ {Ratio, MaxForks, MaxStages} \subseteq Nat
    /\ MaxUlong \in Nat \ {0}
ASSUME MayFailAssumption == MayFail \in BOOLEAN
ASSUME FiniteAssumption ==
    /\ IsFiniteSet(Workers) /\ Workers # {}
    /\ IsFiniteSet(Jobs) /\ Cardinality(Jobs) <= MaxUlong

VARIABLES
    \* CJob, one slot per job
    refs,         \* m_ulpRefs
    parent,       \* m_pjParent
    jobQueue,     \* m_pjq
    status,       \* of the slot: "free", "pending" (Added), "done" (to be released)
    below,        \* the queues its descendants may join (the memo is acyclic)
    \* CJobQueue
    mainJob,      \* m_pj
    opCompleted,  \* m_fCompleted
    listQueued,   \* m_listjQueued
    \* CScheduler
    listWaiting,  \* m_listjlWaiting, head first
    ulpTotal, ulpQueued, ulpRunning, ulpTasksActive,
    \* locals of a worker
    pc,
    pj,           \* the job ExecuteJobs works on
    pjq,          \* its job queue, read at the start of FExecute
    pjDone,       \* the argument of Complete or CompleteQueued
    pjNext,       \* the argument of Schedule
    fCompleted,   \* what FExecute is going to return
    \* the event of the waiting workers
    waiters, signals, sawSignal, sawBroadcast,
    \* environment
    forks,        \* forks and fruitless runs so far in this stage
    stages,       \* search stages begun
    cancelled     \* the tasks have been asked to abort

jobVars == <<refs, parent, jobQueue, status, below>>
queueVars == <<mainJob, opCompleted, listQueued>>
counterVars == <<ulpTotal, ulpQueued, ulpRunning, ulpTasksActive>>
jobLocals == <<pj, pjq>>
localVars == <<pc, jobLocals, pjDone, pjNext, fCompleted>>
eventVars == <<waiters, signals, sawSignal, sawBroadcast>>
envVars == <<forks, stages, cancelled>>
vars == <<jobVars, queueVars, listWaiting, counterVars, localVars, eventVars, envVars>>

JobEvent == INSTANCE EventWaiters WITH Threads <- Workers

Labels ==
    {"outer", "retrieve", "dequeued", "preExecute", "check", "add", "run",
     "addTotal", "push", "incQueued", "increase", "signal", "dropMain", "notify",
     "drain", "post", "resumeParent", "decTotal", "release", "leaving",
     "checkEmpty", "waiting", "exit", "failed"}

JobTypes ==
    /\ refs \in [Jobs -> Int]
    /\ parent \in [Jobs -> Jobs \union {NoJob}]
    /\ jobQueue \in [Jobs -> Queues \union {NoQueue}]
    /\ status \in [Jobs -> {"free", "pending", "done"}]
    /\ below \in [Jobs -> SUBSET Queues]

QueueTypes ==
    /\ mainJob \in [Queues -> Jobs \union {NoJob}]
    /\ opCompleted \in [Queues -> BOOLEAN]
    /\ listQueued \in [Queues -> Seq(Jobs)]

CounterTypes ==
    /\ listWaiting \in Seq(Jobs)
    /\ ulpTotal \in 0..MaxUlong
    /\ ulpQueued \in 0..MaxUlong
    /\ ulpRunning \in 0..MaxUlong
    /\ ulpTasksActive \in 0..MaxUlong

LocalTypes ==
    /\ pc \in [Workers -> Labels]
    /\ pj \in [Workers -> Jobs \union {NoJob}]
    /\ pjq \in [Workers -> Queues \union {NoQueue}]
    /\ pjDone \in [Workers -> Jobs \union {NoJob}]
    /\ pjNext \in [Workers -> Jobs \union {NoJob}]
    /\ fCompleted \in [Workers -> BOOLEAN]

TypeOK ==
    /\ JobTypes /\ QueueTypes /\ CounterTypes /\ LocalTypes
    /\ JobEvent!TypeOK
    /\ forks \in Nat /\ stages \in Nat /\ cancelled \in BOOLEAN

Incr(n) == IF n = MaxUlong THEN 0 ELSE n + 1
Decr(n) == IF n = 0 THEN MaxUlong ELSE n - 1

Goto(w, label) == pc' = [pc EXCEPT ![w] = label]

\* The worker is done with its job: the next round of ExecuteJobs.
NextJob(w) ==
    /\ pj' = [pj EXCEPT ![w] = NoJob]
    /\ pjq' = [pjq EXCEPT ![w] = NoQueue]

\* The queues of the groups that an operation of queue q can depend on.
LowerQueues(S, q) == IF q = NoQueue THEN S ELSE {k \in S : k < q}

\* CEngine::ScheduleMainJob has added the root job; the workers start.
Init ==
    \E root \in Jobs, q \in Queues \union {NoQueue} :
        /\ refs = [j \in Jobs |-> 0]
        /\ parent = [j \in Jobs |-> NoJob]
        /\ jobQueue = [j \in Jobs |-> IF j = root THEN q ELSE NoQueue]
        /\ status = [j \in Jobs |-> IF j = root THEN "pending" ELSE "free"]
        /\ below = [j \in Jobs |-> IF j = root THEN LowerQueues(Queues, q) ELSE {}]
        /\ mainJob = [k \in Queues |-> NoJob]
        /\ opCompleted = [k \in Queues |-> FALSE]
        /\ listQueued = [k \in Queues |-> <<>>]
        /\ listWaiting = <<root>>
        /\ ulpTotal = 1 /\ ulpQueued = 1
        /\ ulpRunning = 0 /\ ulpTasksActive = 0
        /\ pc = [w \in Workers |-> "outer"]
        /\ pj = [w \in Workers |-> NoJob]
        /\ pjq = [w \in Workers |-> NoQueue]
        /\ pjDone = [w \in Workers |-> NoJob]
        /\ pjNext = [w \in Workers |-> NoJob]
        /\ fCompleted = [w \in Workers |-> FALSE]
        /\ JobEvent!Init
        /\ forks = 0 /\ stages = 1 /\ cancelled = FALSE

-----------------------------------------------------------------------------
(* CScheduler::ProcessJobs and PjRetrieve                                  *)

IncTasksActive(w) ==
    /\ pc[w] = "outer"
    /\ ulpTasksActive' = Incr(ulpTasksActive)
    /\ Goto(w, "retrieve")
    /\ UNCHANGED <<jobVars, queueVars, listWaiting, ulpTotal, ulpQueued, ulpRunning,
                   jobLocals, pjDone, pjNext, fCompleted, eventVars, envVars>>

\* PjRetrieve pops the list first and corrects the counter afterwards.
Retrieve(w) ==
    /\ pc[w] = "retrieve" /\ listWaiting # <<>>
    /\ pj' = [pj EXCEPT ![w] = Head(listWaiting)]
    /\ listWaiting' = Tail(listWaiting)
    /\ Goto(w, "dequeued")
    /\ UNCHANGED <<jobVars, queueVars, counterVars, pjq, pjDone, pjNext, fCompleted,
                   eventVars, envVars>>

DecQueued(w) ==
    /\ pc[w] = "dequeued"
    /\ ulpQueued' = Decr(ulpQueued)
    /\ Goto(w, "preExecute")
    /\ UNCHANGED <<jobVars, queueVars, listWaiting, ulpTotal, ulpRunning, ulpTasksActive,
                   jobLocals, pjDone, pjNext, fCompleted, eventVars, envVars>>

RetrieveNothing(w) ==
    /\ pc[w] = "retrieve" /\ listWaiting = <<>>
    /\ Goto(w, "leaving")
    /\ UNCHANGED <<jobVars, queueVars, listWaiting, counterVars, jobLocals, pjDone, pjNext,
                   fCompleted, eventVars, envVars>>

DecrTasksActive(w) ==
    /\ pc[w] = "leaving"
    /\ ulpTasksActive' = Decr(ulpTasksActive)
    /\ Goto(w, "checkEmpty")
    /\ UNCHANGED <<jobVars, queueVars, listWaiting, ulpTotal, ulpQueued, ulpRunning,
                   jobLocals, pjDone, pjNext, fCompleted, eventVars, envVars>>

\* Mutants of StopWhenEmpty: look at the queued jobs instead of all jobs; forget
\* the workers that wait.
StopWhenEmpty_NoneQueued(w) ==
    /\ pc[w] = "checkEmpty" /\ ulpQueued = 0
    /\ JobEvent!Broadcast
    /\ Goto(w, "exit")
    /\ UNCHANGED <<jobVars, queueVars, listWaiting, counterVars, jobLocals, pjDone, pjNext,
                   fCompleted, envVars>>

StopWhenEmpty_NoBroadcast(w) ==
    /\ pc[w] = "checkEmpty" /\ ulpTotal = 0
    /\ Goto(w, "exit")
    /\ UNCHANGED <<jobVars, queueVars, listWaiting, counterVars, jobLocals, pjDone, pjNext,
                   fCompleted, eventVars, envVars>>

\* Under the mutex: stop when no job is left, else wait for work.
StopWhenEmpty(w) ==
    /\ pc[w] = "checkEmpty" /\ ulpTotal = 0
    /\ JobEvent!Broadcast
    /\ Goto(w, "exit")
    /\ UNCHANGED <<jobVars, queueVars, listWaiting, counterVars, jobLocals, pjDone, pjNext,
                   fCompleted, envVars>>

WaitForWork(w) ==
    /\ pc[w] = "checkEmpty" /\ ulpTotal # 0
    /\ JobEvent!StartWait(w)
    /\ Goto(w, "waiting")
    /\ UNCHANGED <<jobVars, queueVars, listWaiting, counterVars, jobLocals, pjDone, pjNext,
                   fCompleted, envVars>>

\* GPOS_CHECK_ABORT follows the wait.
WakeUp(w) ==
    /\ pc[w] = "waiting"
    /\ JobEvent!Wake(w)
    /\ Goto(w, IF cancelled THEN "failed" ELSE "outer")
    /\ UNCHANGED <<jobVars, queueVars, listWaiting, counterVars, jobLocals, pjDone, pjNext,
                   fCompleted, envVars>>

-----------------------------------------------------------------------------
(* PreExecute, FExecute and CJobQueue::EjqrAdd                             *)

PreExecute(w) ==
    /\ pc[w] = "preExecute"
    /\ ulpRunning' = Incr(ulpRunning)
    /\ refs' = [refs EXCEPT ![pj[w]] = @ + 1]
    /\ fCompleted' = [fCompleted EXCEPT ![w] = TRUE]
    /\ pjq' = [pjq EXCEPT ![w] = jobQueue[pj[w]]]
    /\ Goto(w, IF jobQueue[pj[w]] = NoQueue THEN "run" ELSE "check")
    /\ UNCHANGED <<parent, jobQueue, status, below, queueVars, listWaiting,
                   ulpTotal, ulpQueued, ulpTasksActive, pj, pjDone, pjNext,
                   eventVars, envVars>>

\* EjqrAdd reads the flag before it takes the spinlock; a job that finds the
\* operation completed is completed without running.
CheckCompleted(w) ==
    /\ pc[w] = "check"
    /\ Goto(w, IF opCompleted[pjq[w]] THEN "post" ELSE "add")
    /\ UNCHANGED <<jobVars, queueVars, listWaiting, counterVars, jobLocals, pjDone, pjNext,
                   fCompleted, eventVars, envVars>>

\* Mutants of AddAgain and AddFirst: a main job that comes back takes no
\* reference; the flag is not read again under the lock.
AddAgain_NoReference(w, q) ==
    /\ mainJob[q] = pj[w]
    /\ Goto(w, "run")
    /\ UNCHANGED <<refs, mainJob, listQueued, fCompleted>>

AddFirst_NoRecheck(w, q) ==
    /\ mainJob[q] # pj[w]
    /\ listQueued[q] = <<>>
    /\ listQueued' = [listQueued EXCEPT ![q] = <<pj[w]>>]
    /\ mainJob' = [mainJob EXCEPT ![q] = pj[w]]
    /\ refs' = [refs EXCEPT ![pj[w]] = @ + 1]
    /\ Goto(w, "run")
    /\ UNCHANGED fCompleted

\* The section under the spinlock: the main job comes back after its children
\* (EjqrMain), the first job becomes the main job (EjqrMain), another one
\* waits in the list (EjqrQueued), or the operation completed meanwhile.
AddAgain(w, q) ==
    /\ mainJob[q] = pj[w]
    /\ refs' = [refs EXCEPT ![pj[w]] = @ + 1]
    /\ Goto(w, "run")
    /\ UNCHANGED <<mainJob, listQueued, fCompleted>>

AddFirst(w, q) ==
    /\ mainJob[q] # pj[w] /\ ~opCompleted[q]
    /\ listQueued[q] = <<>>
    /\ listQueued' = [listQueued EXCEPT ![q] = <<pj[w]>>]
    /\ mainJob' = [mainJob EXCEPT ![q] = pj[w]]
    /\ refs' = [refs EXCEPT ![pj[w]] = @ + 1]
    /\ Goto(w, "run")
    /\ UNCHANGED fCompleted

AddQueued(w, q) ==
    /\ mainJob[q] # pj[w] /\ ~opCompleted[q]
    /\ listQueued[q] # <<>>
    /\ listQueued' = [listQueued EXCEPT ![q] = Append(@, pj[w])]
    /\ refs' = [refs EXCEPT ![pj[w]] = @ + 1]
    /\ fCompleted' = [fCompleted EXCEPT ![w] = FALSE]
    /\ Goto(w, "post")
    /\ UNCHANGED mainJob

AddTooLate(w, q) ==
    /\ mainJob[q] # pj[w] /\ opCompleted[q]
    /\ Goto(w, "post")
    /\ UNCHANGED <<refs, mainJob, listQueued, fCompleted>>

EjqrAdd(w) ==
    /\ pc[w] = "add"
    /\ LET q == pjq[w]
       IN  AddAgain(w, q) \/ AddFirst(w, q) \/ AddQueued(w, q) \/ AddTooLate(w, q)
    /\ UNCHANGED <<parent, jobQueue, status, below, opCompleted, listWaiting,
                   counterVars, jobLocals, pjDone, pjNext, eventVars, envVars>>

-----------------------------------------------------------------------------
(* A running job: CJobStateMachine::FRun and the schedulers of its actions *)

\* An action of the job creates a child and calls CScheduler::Add, which
\* first raises the parent's reference count.
Fork(w, c, q) ==
    /\ pc[w] = "run" /\ forks < MaxForks
    /\ status[c] = "free"
    /\ q \in below[pj[w]] \union {NoQueue}
    /\ refs' = [refs EXCEPT ![pj[w]] = @ + 1, ![c] = 0]
    /\ parent' = [parent EXCEPT ![c] = pj[w]]
    /\ jobQueue' = [jobQueue EXCEPT ![c] = q]
    /\ status' = [status EXCEPT ![c] = "pending"]
    /\ below' = [below EXCEPT ![c] = LowerQueues(below[pj[w]], q)]
    /\ pjNext' = [pjNext EXCEPT ![w] = c]
    /\ fCompleted' = [fCompleted EXCEPT ![w] = FALSE]
    /\ Goto(w, "addTotal")
    /\ forks' = forks + 1
    /\ UNCHANGED <<queueVars, listWaiting, counterVars, jobLocals, pjDone, eventVars,
                   stages, cancelled>>

AddTotal(w) ==
    /\ pc[w] = "addTotal"
    /\ ulpTotal' = Incr(ulpTotal)
    /\ Goto(w, "push")
    /\ UNCHANGED <<jobVars, queueVars, listWaiting, ulpQueued, ulpRunning, ulpTasksActive,
                   jobLocals, pjDone, pjNext, fCompleted, eventVars, envVars>>

\* Mutant of RunCompletes: the stage times out after children were scheduled.
RunCompletes_WithChildren(w) ==
    /\ pc[w] = "run"
    /\ fCompleted' = [fCompleted EXCEPT ![w] = TRUE]
    /\ Goto(w, IF pjq[w] = NoQueue THEN "post" ELSE "notify")
    /\ UNCHANGED <<jobVars, queueVars, listWaiting, counterVars, jobLocals, pjDone,
                   pjNext, eventVars, envVars>>

\* FRun reaches the final state (or the stage has timed out) in a run that
\* scheduled no child.
RunCompletes(w) ==
    /\ pc[w] = "run" /\ fCompleted[w]
    /\ Goto(w, IF pjq[w] = NoQueue THEN "post" ELSE "notify")
    /\ UNCHANGED <<jobVars, queueVars, listWaiting, counterVars, jobLocals, pjDone, pjNext,
                   fCompleted, eventVars, envVars>>

\* FRun returns false: children are scheduled, or there was nothing to schedule
\* (a group expression of arity 0) and the job only has to run once more.
RunReturns(w) ==
    /\ pc[w] = "run"
    /\ fCompleted[w] => forks < MaxForks
    /\ forks' = IF fCompleted[w] THEN forks + 1 ELSE forks
    /\ fCompleted' = [fCompleted EXCEPT ![w] = FALSE]
    /\ Goto(w, IF pjq[w] = NoQueue THEN "post" ELSE "dropMain")
    /\ UNCHANGED <<jobVars, queueVars, listWaiting, counterVars, jobLocals, pjDone, pjNext,
                   eventVars, stages, cancelled>>

\* FExecute gives back the reference of a main job that is suspended.
DropMain(w) ==
    /\ pc[w] = "dropMain"
    /\ refs' = [refs EXCEPT ![pj[w]] = @ - 1]
    /\ Goto(w, "post")
    /\ UNCHANGED <<parent, jobQueue, status, below, queueVars, listWaiting,
                   counterVars, jobLocals, pjDone, pjNext, fCompleted, eventVars, envVars>>

-----------------------------------------------------------------------------
(* CScheduler::Schedule of the job pjNext, on behalf of Add or Resume      *)

Push(w) ==
    /\ pc[w] = "push"
    /\ listWaiting' = <<pjNext[w]>> \o listWaiting
    /\ Goto(w, "incQueued")
    /\ UNCHANGED <<jobVars, queueVars, counterVars, jobLocals, pjDone, pjNext, fCompleted,
                   eventVars, envVars>>

IncQueued(w) ==
    /\ pc[w] = "incQueued"
    /\ ulpQueued' = Incr(ulpQueued)
    /\ Goto(w, "increase")
    /\ UNCHANGED <<jobVars, queueVars, listWaiting, ulpTotal, ulpRunning, ulpTasksActive,
                   jobLocals, pjDone, pjNext, fCompleted, eventVars, envVars>>

FIncreaseWorkers ==
    /\ Cardinality(Workers) > ulpTasksActive
    /\ Ratio < ulpQueued \div (ulpTasksActive + 1)

\* Where Schedule returns to: the job's action after Add, ExecuteJobs after
\* Resume of the job itself, Complete or CompleteQueued after ResumeParent.
ScheduleReturns(w) ==
    /\ pjNext' = [pjNext EXCEPT ![w] = NoJob]
    /\ IF pjDone[w] # NoJob
       THEN Goto(w, "decTotal") /\ UNCHANGED jobLocals
       ELSE IF pjNext[w] = pj[w]
            THEN Goto(w, "retrieve") /\ NextJob(w)
            ELSE Goto(w, "run") /\ UNCHANGED jobLocals

\* The counters are read without the mutex.
NoIncrease(w) ==
    /\ pc[w] = "increase" /\ ~FIncreaseWorkers
    /\ ScheduleReturns(w)
    /\ UNCHANGED <<jobVars, queueVars, listWaiting, counterVars, pjDone, fCompleted,
                   eventVars, envVars>>

Increase(w) ==
    /\ pc[w] = "increase" /\ FIncreaseWorkers
    /\ Goto(w, "signal")
    /\ UNCHANGED <<jobVars, queueVars, listWaiting, counterVars, jobLocals, pjDone, pjNext,
                   fCompleted, eventVars, envVars>>

SignalWorker(w) ==
    /\ pc[w] = "signal"
    /\ JobEvent!Signal
    /\ ScheduleReturns(w)
    /\ UNCHANGED <<jobVars, queueVars, listWaiting, counterVars, pjDone, fCompleted,
                   envVars>>

-----------------------------------------------------------------------------
(* Completion: CJobQueue::NotifyCompleted, EjrPostExecute, Complete        *)

NotifyCompleted(w) ==
    /\ pc[w] = "notify"
    /\ opCompleted' = [opCompleted EXCEPT ![pjq[w]] = TRUE]
    /\ Goto(w, "drain")
    /\ UNCHANGED <<jobVars, mainJob, listQueued, listWaiting, counterVars, jobLocals, pjDone,
                   pjNext, fCompleted, eventVars, envVars>>

\* Mutant of DrainOne: completes a queued job whatever references it has.
DrainOne_AnyCount(w) ==
    LET q == pjq[w]
        j == Head(listQueued[q])
    IN  /\ pc[w] = "drain" /\ listQueued[q] # <<>>
        /\ listQueued' = [listQueued EXCEPT ![q] = Tail(@)]
        /\ refs' = [refs EXCEPT ![j] = @ - 1]
        /\ IF j # pj[w]
           THEN pjDone' = [pjDone EXCEPT ![w] = j] /\ Goto(w, "resumeParent")
           ELSE UNCHANGED <<pjDone, pc>>
        /\ UNCHANGED <<parent, jobQueue, status, below, mainJob, opCompleted,
                       listWaiting, counterVars, jobLocals, pjNext, fCompleted, eventVars,
                       envVars>>

\* No other worker touches the list once the flag is set, so removing the
\* head and returning its reference are one step.
DrainOne(w) ==
    LET q == pjq[w]
        j == Head(listQueued[q])
    IN  /\ pc[w] = "drain" /\ listQueued[q] # <<>>
        /\ listQueued' = [listQueued EXCEPT ![q] = Tail(@)]
        /\ refs' = [refs EXCEPT ![j] = @ - 1]
        /\ IF refs[j] = 1
           THEN pjDone' = [pjDone EXCEPT ![w] = j] /\ Goto(w, "resumeParent")
           ELSE UNCHANGED <<pjDone, pc>>
        /\ UNCHANGED <<parent, jobQueue, status, below, mainJob, opCompleted,
                       listWaiting, counterVars, jobLocals, pjNext, fCompleted, eventVars,
                       envVars>>

DrainEnds(w) ==
    /\ pc[w] = "drain" /\ listQueued[pjq[w]] = <<>>
    /\ Goto(w, "post")
    /\ UNCHANGED <<jobVars, queueVars, listWaiting, counterVars, jobLocals, pjDone, pjNext,
                   fCompleted, eventVars, envVars>>

\* EjrPostExecute returns the run reference and decides on the old count.
\* m_ulpRunning is only read by an assertion, so its decrement joins the step.
PostExecute(w) ==
    /\ refs' = [refs EXCEPT ![pj[w]] = @ - 1]
    /\ ulpRunning' = Decr(ulpRunning)
    /\ UNCHANGED <<parent, jobQueue, status, below, queueVars, listWaiting,
                   ulpTotal, ulpQueued, ulpTasksActive, fCompleted, eventVars, envVars>>

PostCompleted(w) ==
    /\ pc[w] = "post" /\ fCompleted[w]
    /\ PostExecute(w)
    /\ pjDone' = [pjDone EXCEPT ![w] = pj[w]]
    /\ Goto(w, "resumeParent")
    /\ UNCHANGED <<jobLocals, pjNext>>

\* Mutant of PostRunnable: suspends although the children are done already.
PostRunnable_Suspends(w) ==
    /\ pc[w] = "post" /\ ~fCompleted[w] /\ refs[pj[w]] = 1
    /\ PostExecute(w)
    /\ NextJob(w)
    /\ Goto(w, "retrieve")
    /\ UNCHANGED <<pjDone, pjNext>>

PostRunnable(w) ==
    /\ pc[w] = "post" /\ ~fCompleted[w] /\ refs[pj[w]] = 1
    /\ PostExecute(w)
    /\ pjNext' = [pjNext EXCEPT ![w] = pj[w]]
    /\ Goto(w, "push")
    /\ UNCHANGED <<jobLocals, pjDone>>

PostSuspended(w) ==
    /\ pc[w] = "post" /\ ~fCompleted[w] /\ refs[pj[w]] # 1
    /\ PostExecute(w)
    /\ NextJob(w)
    /\ Goto(w, "retrieve")
    /\ UNCHANGED <<pjDone, pjNext>>

\* ResumeParent: the last reference to go makes the parent runnable.
ResumeParent(w) ==
    LET j == pjDone[w]
        p == parent[j]
    IN  /\ pc[w] = "resumeParent"
        /\ status' = [status EXCEPT ![j] = "done"]
        /\ IF p = NoJob
           THEN UNCHANGED refs
           ELSE refs' = [refs EXCEPT ![p] = @ - 1]
        /\ IF p # NoJob /\ refs[p] = 1
           THEN pjNext' = [pjNext EXCEPT ![w] = p] /\ Goto(w, "push")
           ELSE UNCHANGED pjNext /\ Goto(w, "decTotal")
        /\ UNCHANGED <<parent, jobQueue, below, queueVars, listWaiting, counterVars,
                       jobLocals, pjDone, fCompleted, eventVars, envVars>>

DecTotal(w) ==
    /\ pc[w] = "decTotal"
    /\ ulpTotal' = Decr(ulpTotal)
    /\ Goto(w, "release")
    /\ UNCHANGED <<jobVars, queueVars, listWaiting, ulpQueued, ulpRunning, ulpTasksActive,
                   jobLocals, pjDone, pjNext, fCompleted, eventVars, envVars>>

\* CJobFactory::Release returns the slot.  A worker that completed its own job
\* retrieves the next one, one that completes queued jobs goes on draining.
Release(w) ==
    LET j == pjDone[w]
    IN  /\ pc[w] = "release"
        /\ status' = [status EXCEPT ![j] = "free"]
        /\ parent' = [parent EXCEPT ![j] = NoJob]
        /\ jobQueue' = [jobQueue EXCEPT ![j] = NoQueue]
        /\ below' = [below EXCEPT ![j] = {}]
        /\ pjDone' = [pjDone EXCEPT ![w] = NoJob]
        /\ IF j = pj[w]
           THEN NextJob(w) /\ Goto(w, "retrieve")
           ELSE UNCHANGED jobLocals /\ Goto(w, "drain")
        /\ UNCHANGED <<refs, queueVars, listWaiting, counterVars, pjNext, fCompleted,
                       eventVars, envVars>>

-----------------------------------------------------------------------------
(* Search stages and failures                                              *)

\* All tasks have returned: FinalizeSearchStage resets the job queues and
\* MultiThreadedOptimize schedules the root job of the next stage.
NextStage ==
    /\ \A w \in Workers : pc[w] = "exit"
    /\ stages < MaxStages /\ ~cancelled
    /\ stages' = stages + 1
    /\ forks' = 0
    /\ mainJob' = [k \in Queues |-> NoJob]
    /\ opCompleted' = [k \in Queues |-> FALSE]
    /\ \E root \in Jobs, q \in Queues \union {NoQueue} :
          /\ refs' = [refs EXCEPT ![root] = 0]
          /\ status' = [status EXCEPT ![root] = "pending"]
          /\ jobQueue' = [jobQueue EXCEPT ![root] = q]
          /\ below' = [below EXCEPT ![root] = LowerQueues(Queues, q)]
          /\ listWaiting' = <<root>> \o listWaiting
    /\ ulpTotal' = Incr(ulpTotal) /\ ulpQueued' = Incr(ulpQueued)
    /\ pc' = [w \in Workers |-> "outer"]
    /\ UNCHANGED <<parent, listQueued, ulpRunning, ulpTasksActive, jobLocals, pjDone, pjNext,
                   fCompleted, eventVars, cancelled>>

\* A job raises, or Schedule finds no memory for a link.  The exception leaves
\* ProcessJobs and nothing of the scheduler is undone.
Raise(w) ==
    /\ MayFail
    /\ pc[w] \in {"run", "push"}
    /\ Goto(w, "failed")
    /\ UNCHANGED <<jobVars, queueVars, listWaiting, counterVars, jobLocals, pjDone, pjNext,
                   fCompleted, eventVars, envVars>>

\* The task proxy cancels the other tasks when one has failed, or the whole
\* optimization is cancelled from outside.
Cancel ==
    /\ MayFail /\ ~cancelled
    /\ cancelled' = TRUE
    /\ UNCHANGED <<jobVars, queueVars, listWaiting, counterVars, localVars, eventVars,
                   forks, stages>>

\* GPOS_CHECK_ABORT between two jobs, every OPT_SCHED_CFA of them, ...
AbortBetweenJobs(w) ==
    /\ cancelled /\ pc[w] = "retrieve"
    /\ Goto(w, "failed")
    /\ UNCHANGED <<jobVars, queueVars, listWaiting, counterVars, jobLocals, pjDone, pjNext,
                   fCompleted, eventVars, envVars>>

\* ... and in the polling loop of CEvent::EresTimedWait.
AbortWaiting(w) ==
    /\ cancelled /\ pc[w] = "waiting"
    /\ JobEvent!GiveUp(w)
    /\ Goto(w, "failed")
    /\ UNCHANGED <<jobVars, queueVars, listWaiting, counterVars, jobLocals, pjDone, pjNext,
                   fCompleted, envVars>>

Step(w) ==
    \/ IncTasksActive(w) \/ Retrieve(w) \/ DecQueued(w) \/ RetrieveNothing(w)
    \/ DecrTasksActive(w) \/ StopWhenEmpty(w) \/ WaitForWork(w) \/ WakeUp(w)
    \/ PreExecute(w) \/ CheckCompleted(w) \/ EjqrAdd(w)
    \/ (\E c \in Jobs, q \in Queues \union {NoQueue} : Fork(w, c, q))
    \/ AddTotal(w) \/ RunCompletes(w) \/ RunReturns(w) \/ DropMain(w)
    \/ Push(w) \/ IncQueued(w) \/ NoIncrease(w) \/ Increase(w) \/ SignalWorker(w)
    \/ NotifyCompleted(w) \/ DrainOne(w) \/ DrainEnds(w)
    \/ PostCompleted(w) \/ PostRunnable(w) \/ PostSuspended(w)
    \/ ResumeParent(w) \/ DecTotal(w) \/ Release(w)
    \/ AbortWaiting(w)

\* All tasks have ended.
Stopped == \A w \in Workers : pc[w] \in {"exit", "failed"}

Next ==
    \/ \E w \in Workers : Step(w) \/ Raise(w) \/ AbortBetweenJobs(w)
    \/ NextStage
    \/ Cancel
    \/ Stopped /\ UNCHANGED vars

Spec == Init /\ [][Next]_vars

\* Every task is a thread that keeps running, a waiter keeps polling, and
\* CAutoTaskProxy does cancel the others once a task has failed.
Fairness ==
    /\ \A w \in Workers : WF_vars(Step(w))
    /\ WF_vars(Cancel /\ \E w \in Workers : pc[w] = "failed")

FairSpec == Spec /\ Fairness

-----------------------------------------------------------------------------
(* Properties                                                              *)

PendingChildren(j) == {c \in Jobs : status[c] = "pending" /\ parent[c] = j}

InList(j, list) == \E i \in DOMAIN list : list[i] = j

\* Between PreExecute and EjrPostExecute the worker holds a reference to pj.
Executes(w) ==
    /\ pj[w] # NoJob
    /\ pc[w] \notin {"dequeued", "preExecute"}
    /\ pjDone[w] # pj[w] /\ pjNext[w] # pj[w]

\* Within that, from EjqrAdd to the end of FExecute, it performs the operation.
Performs(w) == Executes(w) /\ pc[w] \notin {"check", "add", "post"}

\* The reference a job queue holds to a job in its list.  The main job stays in
\* the list while it is suspended, without a reference.
HeldByQueue(j) ==
    /\ jobQueue[j] # NoQueue
    /\ InList(j, listQueued[jobQueue[j]])
    /\ mainJob[jobQueue[j]] = j => \E w \in Workers : pj[w] = j /\ Performs(w)

One(P) == IF P THEN 1 ELSE 0

\* The reference count of a job is, at every step, the number of its pending
\* children plus the references of the executing worker and of the job queue.
\* Every decision of the scheduler (runnable, suspended, resume the parent)
\* compares the old count with 1 and relies on it.
RefsExact ==
    \A j \in Jobs :
        refs[j] = Cardinality(PendingChildren(j))
                    + One(\E w \in Workers : pj[w] = j /\ Executes(w))
                    + One(HeldByQueue(j))

\* The worker holds j outside the waiting list: about to push it, about to
\* execute it, executing it, or about to complete it.
Carries(w, j) ==
    \/ pjNext[w] = j /\ pc[w] \in {"addTotal", "push", "failed"}
    \/ pj[w] = j /\ pc[w] \in {"dequeued", "preExecute"}
    \/ pj[w] = j /\ Executes(w)
    \/ pjDone[w] = j /\ status[j] = "pending"

\* No job is lost and none is scheduled twice: a pending job is once in the
\* waiting list, or with one worker, or it is suspended and then a pending
\* child or the main job of its queue is there to resume it.
OnePlace ==
    \A j \in Jobs : status[j] = "pending" =>
        LET inWaiting == {i \in DOMAIN listWaiting : listWaiting[i] = j}
            carriers == {w \in Workers : Carries(w, j)}
        IN  /\ Cardinality(inWaiting) + Cardinality(carriers) <= 1
            /\ inWaiting = {} /\ carriers = {} =>
                 \/ PendingChildren(j) # {}
                 \/ /\ HeldByQueue(j)
                    /\ mainJob[jobQueue[j]] \notin {j, NoJob}
                    /\ status[mainJob[jobQueue[j]]] = "pending"

\* Nothing the scheduler is going to dereference has gone back to the pool:
\* the jobs workers deal with, parents to be notified, queued jobs, and the
\* main job EjqrAdd compares with while the operation is open.
LiveReferences ==
    /\ \A w \in Workers, j \in Jobs : Carries(w, j) \/ pjDone[w] = j => status[j] # "free"
    /\ \A j \in Jobs : status[j] = "pending" /\ parent[j] # NoJob
                        => status[parent[j]] = "pending"
    /\ \A q \in Queues :
         /\ \A i \in DOMAIN listQueued[q] :
                status[listQueued[q][i]] = "pending" /\ jobQueue[listQueued[q][i]] = q
         /\ mainJob[q] # NoJob /\ ~opCompleted[q]
              => status[mainJob[q]] = "pending" /\ jobQueue[mainJob[q]] = q

\* A shared operation is performed by its main job only, one worker at a time,
\* and never again once it is completed ("!m_fCompleted" in EjqrAdd and
\* NotifyCompleted), although m_pj is left pointing at a recycled slot.
OperationOnce ==
    \A w \in Workers : Performs(w) /\ jobQueue[pj[w]] # NoQueue =>
        /\ mainJob[jobQueue[pj[w]]] = pj[w]
        /\ pc[w] \in {"run", "addTotal", "dropMain", "notify"}
             => ~opCompleted[jobQueue[pj[w]]]
        /\ \A v \in Workers \ {w} :
             Performs(v) => jobQueue[pj[v]] # jobQueue[pj[w]]

\* A worker leaves ProcessJobs only when the whole tree is done, and the job
\* queues are then empty, as CJobQueue::Reset asserts between search stages.
ExitMeansDone ==
    (\E w \in Workers : pc[w] = "exit") =>
        /\ \A j \in Jobs : status[j] # "pending"
        /\ \A q \in Queues : listQueued[q] = <<>>
        /\ listWaiting = <<>>

Count(labels) == Cardinality({w \in Workers : pc[w] \in labels})

\* The workers implement the job tree.
Tree == INSTANCE JobTree WITH
    status <- [j \in Jobs |-> CASE status[j] = "free" -> "unborn"
                                [] status[j] = "pending" -> "active"
                                [] status[j] = "done" -> "done"],
    up <- parent,
    op <- jobQueue,
    main <- mainJob,
    performed <- opCompleted

\* Fork/join and once-per-stage semantics of JobTree hold step by step for the
\* lock-free implementation.
ImplementsTree == Tree!Spec

\* Every search stage ends: no wake-up is lost and no job waits for ever, nor
\* does a task that waits for jobs of a task that failed.
AllStop == <>[]Stopped
=============================================================================
