------------------------------ MODULE TaskPool ------------------------------
(***************************************************************************)
(* The worker pool of libgpos: CWorkerPoolManager with its queue           *)
(* CTaskSchedulerFifo and its threads CThreadManager, the tasks CTask, and *)
(* the threads that own a CAutoTaskProxy (ATP) and create, schedule,       *)
(* cancel, await and destroy tasks through it.                             *)
(*                                                                         *)
(* A step is one section under a mutex or spinlock, or one access to a     *)
(* shared word outside of them.  The sections of m_mutex are single steps  *)
(* but for the exit of a worker, whose m_ulpWorkers-- is a load and a      *)
(* store that the atomic adds of CreateWorkerThread may fall between.      *)
(***************************************************************************)
EXTENDS Integers, Sequences, FiniteSets

CONSTANTS
    Owners,     \* threads with an ATP; each has one, for one use of the pool
    Tasks,      \* task objects, each created at most once
    Threads,    \* the descriptors of CThreadManager
    NoTask,
    NoThread,
    WorkersMin, WorkersMax, \* the arguments of gpos_set_threads
    WorkersLow,             \* the maximum set when the work is done
    MayFail     \* whether pthread_create may fail and an owner be cancelled

ASSUME NoTaskAssumption == NoTask \notin Tasks \union Owners
ASSUME NoThreadAssumption == NoThread \notin Threads
ASSUME MayFailAssumption == MayFail \in BOOLEAN
ASSUME LimitsAssumption ==
    /\ {WorkersMin, WorkersMax, WorkersLow} \subseteq Nat
    /\ WorkersMin <= WorkersMax /\ WorkersLow <= WorkersMin

VARIABLES
    \* CTask
    estatus,      \* m_estatus, with "unborn" and "deleted" around its life
    fCancel,      \* *m_pfCancel
    fReported,    \* m_fReported
    atp,          \* the ATP whose m_list holds the task
    \* CWorkerPoolManager
    m_qtsk,       \* the queue of m_ts
    ulpWorkers,   \* m_ulpWorkers
    ulWorkersMax, \* m_ulWorkersMax
    fActive,      \* m_fActive
    leaver,       \* the worker that holds m_mutex on its way out
    loaded,       \* what it has read of m_ulpWorkers
    waiters, signals, sawSignal, sawBroadcast,   \* m_event
    \* threads
    thread,       \* where the thread of a descriptor is
    m_ptsk,       \* CWorker::m_ptsk
    \* the owners and their ATP
    owner,        \* where an owner is
    cur,          \* the task its call is about
    destroying,   \* owners in CAutoTaskProxy::Destroy
    leaving,      \* owners in the dtor of their ATP
    signalled,    \* owners whose event was signalled since they began to wait
    main,         \* the thread that sets the limits and shuts the pool down
    refused       \* a thread could not be created

taskVars == <<estatus, fCancel, fReported, atp>>
countVars == <<ulpWorkers, ulWorkersMax, fActive>>
leaveVars == <<leaver, loaded>>
eventVars == <<waiters, signals, sawSignal, sawBroadcast>>
threadVars == <<thread, m_ptsk>>
ownerVars == <<owner, cur, destroying, leaving, signalled>>
mainVars == <<main, refused>>
vars == <<taskVars, m_qtsk, countVars, leaveVars, eventVars, threadVars,
          ownerVars, mainVars>>

PoolEvent == INSTANCE EventWaiters

Statuses == {"unborn", "init", "queued", "dequeued", "running", "completed",
             "error", "deleted"}
ThreadPlaces == {"unused", "next", "wait", "exec", "run", "signalCompleted",
                 "signalError", "leave", "exited", "finished"}
OwnerPlaces == {"idle", "increase", "create", "undo", "cancelQueued",
                "cancelSignal", "wait", "timedWait", "waitAny", "timedWaitAny",
                "execute", "destroyWait", "delete", "notFound", "gone"}

\* The tasks, and the places where they are.
TaskTypeOK ==
    /\ estatus \in [Tasks -> Statuses]
    /\ fCancel \in [Tasks -> BOOLEAN] /\ fReported \in [Tasks -> BOOLEAN]
    /\ atp \in [Tasks -> Owners \union {NoTask}]
    /\ m_qtsk \in Seq(Tasks)
    /\ thread \in [Threads -> ThreadPlaces]
    /\ m_ptsk \in [Threads -> Tasks \union {NoTask}]
    /\ owner \in [Owners -> OwnerPlaces]
    /\ cur \in [Owners -> Tasks \union {NoTask}]

TypeOK ==
    /\ TaskTypeOK
    /\ \A t \in Tasks : atp[t] \in Owners <=> estatus[t] \notin {"unborn", "deleted"}
    /\ {ulpWorkers, ulWorkersMax, loaded} \subseteq Nat /\ fActive \in BOOLEAN
    /\ leaver \in Threads \union {NoThread}
    /\ PoolEvent!TypeOK
    /\ UNION {destroying, leaving, signalled} \subseteq Owners
    /\ main \in {"setMin", "setMax", "work", "low", "lower", "stop", "join", "end"}
    /\ refused \in BOOLEAN

Init ==
    /\ estatus = [t \in Tasks |-> "unborn"]
    /\ fCancel = [t \in Tasks |-> FALSE]
    /\ fReported = [t \in Tasks |-> FALSE]
    /\ atp = [t \in Tasks |-> NoTask]
    /\ m_qtsk = <<>>
    /\ ulpWorkers = 0 /\ ulWorkersMax = 0 /\ fActive = TRUE
    /\ leaver = NoThread /\ loaded = 0
    /\ PoolEvent!Init
    /\ thread = [w \in Threads |-> "unused"]
    /\ m_ptsk = [w \in Threads |-> NoTask]
    /\ owner = [o \in Owners |-> "idle"]
    /\ cur = [o \in Owners |-> NoTask]
    /\ destroying = {} /\ leaving = {} /\ signalled = {}
    /\ main = "setMin" /\ refused = FALSE

Finished(t) == estatus[t] \in {"completed", "error"}
Scheduled(t) == estatus[t] \in {"queued", "dequeued", "running", "completed", "error"}

MutexFree == leaver = NoThread

SetStatus(t, ets) == estatus' = [estatus EXCEPT ![t] = ets]

Waiting(o) == owner[o] \in {"wait", "timedWait", "waitAny", "timedWaitAny"}

\* Mutant of Signal: the event keeps a signal that nobody waited for.
Signal_Kept(t, ets) ==
    /\ SetStatus(t, ets)
    /\ signalled' = signalled \union {atp[t]}

\* CTask::Signal: the status and the event of the task's ATP, under its mutex.
Signal(t, ets) ==
    /\ SetStatus(t, ets)
    /\ signalled' = signalled \union {o \in Owners : o = atp[t] /\ Waiting(o)}

-----------------------------------------------------------------------------
(* Threads: CThreadManager and CWorker::Run                                *)

\* CThreadManager::EresCreate takes a descriptor from the unused ones, after GC
\* has joined the finished threads when there is none.
StartThread ==
    LET unused == {w \in Threads : thread[w] = "unused"}
        claimed == {w \in Threads : thread[w] = "finished"}
    IN  IF unused # {}
        THEN thread' = [thread EXCEPT ![CHOOSE w \in unused : TRUE] = "next"]
        ELSE \E w \in claimed :
                thread' = [v \in Threads |-> IF v = w THEN "next"
                                             ELSE IF v \in claimed THEN "unused"
                                             ELSE thread[v]]

\* EsrTskNext, while the pool is active and not above its maximum: a task ...
Dequeue(w) ==
    /\ thread[w] = "next" /\ MutexFree
    /\ fActive /\ ~(ulpWorkers > ulWorkersMax)
    /\ m_qtsk # <<>>
    /\ SetStatus(Head(m_qtsk), "dequeued")
    /\ m_ptsk' = [m_ptsk EXCEPT ![w] = Head(m_qtsk)]
    /\ m_qtsk' = Tail(m_qtsk)
    /\ thread' = [thread EXCEPT ![w] = "exec"]
    /\ UNCHANGED <<fCancel, fReported, atp, countVars, leaveVars, eventVars, ownerVars, mainVars>>

\* ... or a wait for one.
WaitForTask(w) ==
    /\ thread[w] = "next" /\ MutexFree
    /\ fActive /\ ~(ulpWorkers > ulWorkersMax)
    /\ m_qtsk = <<>>
    /\ PoolEvent!StartWait(w)
    /\ thread' = [thread EXCEPT ![w] = "wait"]
    /\ UNCHANGED <<taskVars, m_qtsk, countVars, leaveVars, m_ptsk, ownerVars, mainVars>>

WakeUp(w) ==
    /\ thread[w] = "wait" /\ MutexFree
    /\ PoolEvent!Wake(w)
    /\ thread' = [thread EXCEPT ![w] = "next"]
    /\ UNCHANGED <<taskVars, m_qtsk, countVars, leaveVars, m_ptsk, ownerVars, mainVars>>

\* Mutant of Leave: the worker that leaves does not wake another one.
Leave_Silently(w) ==
    /\ thread[w] = "next" /\ MutexFree
    /\ ~fActive \/ ulpWorkers > ulWorkersMax
    /\ leaver' = w /\ loaded' = ulpWorkers
    /\ thread' = [thread EXCEPT ![w] = "leave"]
    /\ UNCHANGED <<taskVars, m_qtsk, countVars, eventVars, m_ptsk, ownerVars, mainVars>>

\* Otherwise the worker wakes another one and loads m_ulpWorkers ...
Leave(w) ==
    /\ thread[w] = "next" /\ MutexFree
    /\ ~fActive \/ ulpWorkers > ulWorkersMax
    /\ PoolEvent!Signal
    /\ leaver' = w /\ loaded' = ulpWorkers
    /\ thread' = [thread EXCEPT ![w] = "leave"]
    /\ UNCHANGED <<taskVars, m_qtsk, countVars, m_ptsk, ownerVars, mainVars>>

\* ... stores it decremented, and releases the mutex.
Left(w) ==
    /\ thread[w] = "leave"
    /\ ulpWorkers' = loaded - 1
    /\ leaver' = NoThread /\ loaded' = 0
    /\ thread' = [thread EXCEPT ![w] = "exited"]
    /\ UNCHANGED <<taskVars, m_qtsk, ulWorkersMax, fActive, eventVars, m_ptsk,
                   ownerVars, mainVars>>

\* CThreadManager::SetFinished joins the other finished threads.
SetFinished(w) ==
    /\ thread[w] = "exited"
    /\ thread' = [v \in Threads |-> IF v = w THEN "finished"
                                    ELSE IF thread[v] = "finished" THEN "unused"
                                    ELSE thread[v]]
    /\ UNCHANGED <<taskVars, m_qtsk, countVars, leaveVars, eventVars, m_ptsk, ownerVars, mainVars>>

\* CTask::Execute: a cancelled task is not run.
Execute(w) ==
    LET t == m_ptsk[w]
    IN  /\ thread[w] = "exec"
        /\ \/ /\ fCancel[t]
              /\ thread' = [thread EXCEPT ![w] = "signalError"]
              /\ UNCHANGED estatus
           \/ /\ ~fCancel[t]
              /\ thread' = [thread EXCEPT ![w] = "run"]
              /\ SetStatus(t, "running")
        /\ UNCHANGED <<fCancel, fReported, atp, m_qtsk, countVars, leaveVars, eventVars,
                       m_ptsk, ownerVars, mainVars>>

\* The task function returns or raises; the abort of a cancelled task raises.
RunEnds(w) ==
    /\ thread[w] = "run"
    /\ \E place \in {"signalCompleted", "signalError"} :
          thread' = [thread EXCEPT ![w] = place]
    /\ UNCHANGED <<taskVars, m_qtsk, countVars, leaveVars, eventVars, m_ptsk, ownerVars, mainVars>>

\* The end of CTask::Execute, and m_ptsk = NULL in CWorker::Execute.
SignalEnd(w) ==
    /\ thread[w] \in {"signalCompleted", "signalError"}
    /\ Signal(m_ptsk[w], IF thread[w] = "signalError" THEN "error" ELSE "completed")
    /\ thread' = [thread EXCEPT ![w] = "next"]
    /\ m_ptsk' = [m_ptsk EXCEPT ![w] = NoTask]
    /\ UNCHANGED <<fCancel, fReported, atp, m_qtsk, countVars, leaveVars, eventVars,
                   owner, cur, destroying, leaving, mainVars>>

-----------------------------------------------------------------------------
(* Owners: CAutoTaskProxy, and what it calls in CWorkerPoolManager         *)

\* The owner calls a method of its ATP on its task t, outside the dtor.
Calls(o, t) == owner[o] = "idle" /\ o \notin leaving /\ atp[t] = o

Goto(o, place) == owner' = [owner EXCEPT ![o] = place]

\* The call returns; a Destroy in progress goes on to its Wait.
Returns(o) ==
    IF o \in destroying
    THEN Goto(o, "destroyWait") /\ UNCHANGED cur
    ELSE Goto(o, "idle") /\ cur' = [cur EXCEPT ![o] = NoTask]

PtskCreate(o, t) ==
    /\ main = "work"
    /\ owner[o] = "idle" /\ o \notin leaving
    /\ estatus[t] = "unborn"
    /\ SetStatus(t, "init")
    /\ atp' = [atp EXCEPT ![t] = o]
    /\ UNCHANGED <<fCancel, fReported, m_qtsk, countVars, leaveVars, eventVars, threadVars,
                   ownerVars, mainVars>>

\* The section under the mutex: Enqueue and Signal.
Schedule(o, t) ==
    /\ Calls(o, t) /\ estatus[t] = "init" /\ MutexFree
    /\ m_qtsk' = Append(m_qtsk, t)
    /\ SetStatus(t, "queued")
    /\ PoolEvent!Signal
    /\ Goto(o, "increase")
    /\ UNCHANGED <<fCancel, fReported, atp, countVars, leaveVars, threadVars,
                   cur, destroying, leaving, signalled, mainVars>>

\* GPOS_CHECK_ABORT between the section and FWorkersIncrease: the exception
\* leaves the scope of the ATP.
AbortSchedule(o) ==
    /\ MayFail
    /\ owner[o] = "increase"
    /\ Goto(o, "idle")
    /\ leaving' = leaving \union {o}
    /\ UNCHANGED <<taskVars, m_qtsk, countVars, leaveVars, eventVars, threadVars,
                   cur, destroying, signalled, mainVars>>

\* Mutant of FWorkersIncrease: not for a single task.
FWorkersIncrease_Lazy == Len(m_qtsk) > 1
FWorkersIncrease == m_qtsk # <<>>

\* FWorkersIncrease reads the queue without the mutex.
CheckIncrease(o) ==
    /\ owner[o] = "increase"
    /\ Goto(o, IF FWorkersIncrease THEN "create" ELSE "idle")
    /\ UNCHANGED <<taskVars, m_qtsk, countVars, leaveVars, eventVars, threadVars,
                   cur, destroying, leaving, signalled, mainVars>>

\* CreateWorkerThread: the count is raised first, and taken back when the
\* maximum was reached or when no thread could be created.
CreateWorkerThread(o) ==
    /\ owner[o] = "create"
    /\ ulpWorkers' = ulpWorkers + 1
    /\ \/ /\ ulpWorkers < ulWorkersMax
          /\ StartThread
          /\ Goto(o, "idle")
          /\ UNCHANGED refused
       \/ /\ ulpWorkers >= ulWorkersMax \/ MayFail
          /\ Goto(o, "undo")
          /\ refused' = (refused \/ ulpWorkers < ulWorkersMax)
          /\ UNCHANGED thread
    /\ UNCHANGED <<taskVars, m_qtsk, ulWorkersMax, fActive, leaveVars, eventVars, m_ptsk,
                   cur, destroying, leaving, signalled, main>>

\* Mutant of UndoIncrease: the count is left raised.
UndoIncrease_Forgotten(o) ==
    /\ owner[o] = "undo"
    /\ Goto(o, "idle")
    /\ UNCHANGED <<taskVars, m_qtsk, countVars, leaveVars, eventVars, threadVars,
                   cur, destroying, leaving, signalled, mainVars>>

UndoIncrease(o) ==
    /\ owner[o] = "undo"
    /\ ulpWorkers' = ulpWorkers - 1
    /\ Goto(o, "idle")
    /\ UNCHANGED <<taskVars, m_qtsk, ulWorkersMax, fActive, leaveVars, eventVars, threadVars,
                   cur, destroying, leaving, signalled, mainVars>>

\* CWorkerPoolManager::Cancel, the section under the spinlock of the table: the
\* flag is set, and the status read that decides whether to look in the queue.
Mark(o, t, place) ==
    /\ fCancel' = [fCancel EXCEPT ![t] = TRUE]
    /\ Goto(o, IF estatus[t] = "queued" THEN "cancelQueued" ELSE place)
    /\ cur' = [cur EXCEPT ![o] = IF owner'[o] = "idle" THEN NoTask ELSE t]

\* CAutoTaskProxy::Cancel; the test of FFinished takes no lock.
Cancel(o, t) ==
    /\ Calls(o, t) /\ ~Finished(t)
    /\ Mark(o, t, "idle")
    /\ UNCHANGED <<estatus, fReported, atp, m_qtsk, countVars, leaveVars, eventVars,
                   threadVars, destroying, leaving, signalled, mainVars>>

WithoutElement(s, i) == SubSeq(s, 1, i - 1) \o SubSeq(s, i + 1, Len(s))

\* The section under m_mutex, EresCancel: a worker may have taken the task.
CancelQueued(o) ==
    /\ owner[o] = "cancelQueued" /\ MutexFree
    /\ \/ /\ \E i \in DOMAIN m_qtsk : m_qtsk[i] = cur[o] /\ m_qtsk' = WithoutElement(m_qtsk, i)
          /\ Goto(o, "cancelSignal") /\ UNCHANGED cur
       \/ /\ \A i \in DOMAIN m_qtsk : m_qtsk[i] # cur[o]
          /\ Returns(o)
          /\ UNCHANGED m_qtsk
    /\ UNCHANGED <<taskVars, countVars, leaveVars, eventVars, threadVars,
                   destroying, leaving, signalled, mainVars>>

\* Mutant of CancelSignal: nobody signals the end of the cancelled task.
CancelSignal_Forgotten(o) ==
    /\ owner[o] = "cancelSignal"
    /\ Returns(o)
    /\ UNCHANGED <<taskVars, m_qtsk, countVars, leaveVars, eventVars, threadVars,
                   destroying, leaving, signalled, mainVars>>

\* "if task was dequeued, signal task completion"
CancelSignal(o) ==
    /\ owner[o] = "cancelSignal"
    /\ Signal(cur[o], "error")
    /\ Returns(o)
    /\ UNCHANGED <<fCancel, fReported, atp, m_qtsk, countVars, leaveVars, eventVars,
                   threadVars, destroying, leaving, mainVars>>

-----------------------------------------------------------------------------
(* Owners: waiting, synchronous execution, destruction                     *)

idleOwnerVars == <<m_qtsk, countVars, leaveVars, eventVars, threadVars, mainVars>>

\* A wait ends with task t: it is reported, and CheckError may propagate the
\* error, which takes the owner to the dtor of its ATP.
Report(o, t) ==
    /\ fReported' = [fReported EXCEPT ![t] = TRUE]
    /\ \/ /\ Goto(o, IF o \in destroying THEN "delete" ELSE "idle")
          /\ cur' = [cur EXCEPT ![o] = IF o \in destroying THEN t ELSE NoTask]
          /\ UNCHANGED <<destroying, leaving>>
       \/ /\ estatus[t] = "error" /\ o \notin leaving
          /\ Goto(o, "idle")
          /\ cur' = [cur EXCEPT ![o] = NoTask]
          /\ destroying' = destroying \ {o}
          /\ leaving' = leaving \union {o}

Sleep(o, t, place) ==
    /\ Goto(o, place)
    /\ cur' = [cur EXCEPT ![o] = t]
    /\ UNCHANGED <<fReported, destroying, leaving>>

\* Wait and EresTimedWait, under the mutex of the ATP from here to Report but
\* for the time asleep.
Wait(o, t, place) ==
    /\ \/ Calls(o, t) /\ place \in {"wait", "timedWait"}
       \/ owner[o] = "destroyWait" /\ cur[o] = t /\ place = "wait"
    /\ Scheduled(t) /\ ~fReported[t]
    /\ IF Finished(t) THEN Report(o, t) ELSE Sleep(o, t, place)
    /\ UNCHANGED <<estatus, fCancel, atp, signalled, idleOwnerVars>>

\* The event returns GPOS_OK; the loop looks at the task and may wait again.
WaitWakes(o) ==
    /\ owner[o] \in {"wait", "timedWait"} /\ o \in signalled
    /\ signalled' = signalled \ {o}
    /\ IF Finished(cur[o]) THEN Report(o, cur[o]) ELSE Sleep(o, cur[o], owner[o])
    /\ UNCHANGED <<estatus, fCancel, atp, idleOwnerVars>>

\* The tasks of o that EresFindFinished may return.
FinishedTasks(o) == {t \in Tasks : atp[t] = o /\ Finished(t) /\ ~fReported[t]}

\* WaitAny and EresTimedWaitAny, for an ATP with a scheduled, unreported task
\* (asserted by EresFindFinished).
WaitAny(o, place) ==
    /\ owner[o] = "idle" /\ o \notin leaving
    /\ \E t \in Tasks : atp[t] = o /\ Scheduled(t) /\ ~fReported[t]
    /\ \/ \E t \in FinishedTasks(o) : Report(o, t)
       \/ FinishedTasks(o) = {} /\ Sleep(o, NoTask, place)
    /\ UNCHANGED <<estatus, fCancel, atp, signalled, idleOwnerVars>>

\* One wait, no loop: a finished task has to be there.
WaitAnyWakes(o) ==
    /\ owner[o] \in {"waitAny", "timedWaitAny"} /\ o \in signalled
    /\ signalled' = signalled \ {o}
    /\ \/ \E t \in FinishedTasks(o) : Report(o, t)
       \/ FinishedTasks(o) = {} /\ Sleep(o, NoTask, "notFound")
    /\ UNCHANGED <<estatus, fCancel, atp, idleOwnerVars>>

\* The event returns GPOS_TIMEOUT, which it does only when no signal came.
TimesOut(o) ==
    /\ o \notin signalled
    /\ \/ /\ owner[o] = "timedWait" /\ Finished(cur[o])
          /\ Report(o, cur[o])
       \/ /\ owner[o] = "timedWait" /\ ~Finished(cur[o])
          /\ Sleep(o, NoTask, "idle")
       \/ /\ owner[o] = "timedWaitAny"
          /\ Sleep(o, NoTask, "idle")
    /\ UNCHANGED <<estatus, fCancel, atp, signalled, idleOwnerVars>>

\* CAutoTaskProxy::Execute runs the task in the owner's thread.
ExecuteHere(o, t) ==
    /\ Calls(o, t) /\ estatus[t] = "init"
    /\ IF fCancel[t]
       THEN /\ SetStatus(t, "error")
            /\ fReported' = [fReported EXCEPT ![t] = TRUE]
            /\ UNCHANGED <<owner, cur>>
       ELSE /\ SetStatus(t, "running")
            /\ Goto(o, "execute") /\ cur' = [cur EXCEPT ![o] = t]
            /\ UNCHANGED fReported
    /\ UNCHANGED <<fCancel, atp, destroying, leaving, signalled, idleOwnerVars>>

\* A propagated error leaves before the task is reported.
ExecuteEnds(o) ==
    /\ owner[o] = "execute"
    /\ \E ets \in {"completed", "error"} :
          /\ SetStatus(cur[o], ets)
          /\ \/ fReported' = [fReported EXCEPT ![cur[o]] = TRUE] /\ UNCHANGED leaving
             \/ ets = "error" /\ leaving' = leaving \union {o} /\ UNCHANGED fReported
    /\ Goto(o, "idle") /\ cur' = [cur EXCEPT ![o] = NoTask]
    /\ UNCHANGED <<fCancel, atp, destroying, signalled, idleOwnerVars>>

\* Mutant of Destroy: cancels the task and does not wait for it.
Destroy_NoWait(o, t) ==
    /\ owner[o] = "idle" /\ atp[t] = o
    /\ destroying' = destroying \union {o}
    /\ Goto(o, "delete") /\ cur' = [cur EXCEPT ![o] = t]
    /\ fCancel' = [fCancel EXCEPT ![t] = TRUE]
    /\ UNCHANGED <<estatus, fReported, atp, leaving, signalled, idleOwnerVars>>

\* CAutoTaskProxy::Destroy, by the owner or by DestroyAll in the dtor: a
\* scheduled task is cancelled and waited for before it is deleted.
Destroy(o, t) ==
    /\ owner[o] = "idle" /\ atp[t] = o
    /\ destroying' = destroying \union {o}
    /\ IF ~Scheduled(t) \/ fReported[t]
       THEN /\ Goto(o, "delete") /\ cur' = [cur EXCEPT ![o] = t]
            /\ UNCHANGED fCancel
       ELSE IF Finished(t)
       THEN /\ Goto(o, "destroyWait") /\ cur' = [cur EXCEPT ![o] = t]
            /\ UNCHANGED fCancel
       ELSE Mark(o, t, "destroyWait")
    /\ UNCHANGED <<estatus, fReported, atp, leaving, signalled, idleOwnerVars>>

\* The end of Destroy: PtskRemoveTask, m_list.Remove, GPOS_DELETE.
Delete(o) ==
    /\ owner[o] = "delete"
    /\ SetStatus(cur[o], "deleted")
    /\ atp' = [atp EXCEPT ![cur[o]] = NoTask]
    /\ destroying' = destroying \ {o}
    /\ Goto(o, "idle") /\ cur' = [cur EXCEPT ![o] = NoTask]
    /\ UNCHANGED <<fCancel, fReported, leaving, signalled, idleOwnerVars>>

\* The owner leaves the scope of its ATP, by return or by exception.
Leaves(o) ==
    /\ main = "work"
    /\ owner[o] = "idle" /\ o \notin leaving
    /\ leaving' = leaving \union {o}
    /\ UNCHANGED <<taskVars, owner, cur, destroying, signalled, idleOwnerVars>>

AtpRemoveRef(o) ==
    /\ owner[o] = "idle" /\ o \in leaving
    /\ \A t \in Tasks : atp[t] # o
    /\ Goto(o, "gone")
    /\ UNCHANGED <<taskVars, cur, destroying, leaving, signalled, idleOwnerVars>>

-----------------------------------------------------------------------------
(* The main program: gpos_set_threads, a smaller limit, Shutdown           *)

idleMainVars == <<taskVars, m_qtsk, leaveVars, m_ptsk, ownerVars, refused>>

\* SetWorkersMin, with the maximum raised to the minimum: its loop creates the
\* threads one by one ...
SetWorkersMin ==
    /\ main = "setMin"
    /\ ulWorkersMax' = WorkersMin
    /\ IF ulpWorkers < WorkersMin
       THEN /\ ulpWorkers' = ulpWorkers + 1
            /\ StartThread
            /\ UNCHANGED main
       ELSE /\ main' = "setMax"
            /\ UNCHANGED <<ulpWorkers, thread>>
    /\ UNCHANGED <<fActive, eventVars, idleMainVars>>

\* ... and SetWorkersMax.
SetWorkersMax ==
    /\ main = "setMax"
    /\ ulWorkersMax' = WorkersMax
    /\ main' = "work"
    /\ UNCHANGED <<ulpWorkers, fActive, thread, eventVars, idleMainVars>>

\* SetWorkersMax with a lower limit, when no ATP is left ...
LowerWorkersMax ==
    /\ main = "work" /\ \A o \in Owners : owner[o] = "gone"
    /\ ulWorkersMax' = WorkersLow
    /\ main' = "low"
    /\ UNCHANGED <<ulpWorkers, fActive, thread, eventVars, idleMainVars>>

\* ... signals a worker, which will leave and wake the next.
SignalSurplus ==
    /\ main = "low" /\ MutexFree
    /\ IF ulWorkersMax < ulpWorkers THEN PoolEvent!Signal ELSE UNCHANGED eventVars
    /\ main' = "stop"
    /\ UNCHANGED <<countVars, thread, idleMainVars>>

\* Shutdown, once UlWorkers() has come down as the tests of the pool await.
Stop ==
    /\ main = "stop" /\ MutexFree
    /\ ulpWorkers <= ulWorkersMax
    /\ fActive' = FALSE
    /\ PoolEvent!Broadcast
    /\ main' = "join"
    /\ UNCHANGED <<ulpWorkers, ulWorkersMax, thread, idleMainVars>>

\* CThreadManager::ShutDown joins the threads and ends when all are unused.
Join ==
    /\ main = "join"
    /\ \A w \in Threads : thread[w] \in {"unused", "finished"}
    /\ thread' = [w \in Threads |-> "unused"]
    /\ main' = "end"
    /\ UNCHANGED <<countVars, eventVars, idleMainVars>>

-----------------------------------------------------------------------------
WorkerStep(w) ==
    \/ Dequeue(w) \/ WaitForTask(w) \/ WakeUp(w) \/ Leave(w) \/ Left(w)
    \/ SetFinished(w) \/ Execute(w) \/ SignalEnd(w)

\* What an owner cannot put off: the rest of a call, and of its dtor.
OwnerStep(o) ==
    \/ CheckIncrease(o) \/ CreateWorkerThread(o) \/ UndoIncrease(o)
    \/ CancelQueued(o) \/ CancelSignal(o)
    \/ (owner[o] = "destroyWait" /\ Wait(o, cur[o], "wait"))
    \/ WaitWakes(o) \/ WaitAnyWakes(o) \/ ExecuteEnds(o) \/ Delete(o)
    \/ (o \in leaving /\ \E t \in Tasks : Destroy(o, t)) \/ AtpRemoveRef(o)

OwnerCall(o) ==
    \/ \E t \in Tasks :
          \/ PtskCreate(o, t) \/ Schedule(o, t) \/ Cancel(o, t)
          \/ Wait(o, t, "wait") \/ Wait(o, t, "timedWait")
          \/ ExecuteHere(o, t) \/ Destroy(o, t)
    \/ WaitAny(o, "waitAny") \/ WaitAny(o, "timedWaitAny")
    \/ AbortSchedule(o) \/ TimesOut(o) \/ Leaves(o)

MainStep ==
    \/ SetWorkersMin \/ SetWorkersMax \/ LowerWorkersMax \/ SignalSurplus
    \/ Stop \/ Join

Next ==
    \/ \E w \in Threads : WorkerStep(w) \/ RunEnds(w)
    \/ \E o \in Owners : OwnerStep(o) \/ OwnerCall(o)
    \/ MainStep

Spec == Init /\ [][Next]_vars

\* Threads run.  A task function need not return, unless the task is cancelled
\* (it has to pass GPOS_CHECK_ABORT); an owner need not call its ATP, nor time
\* out, but it completes its calls and the dtor.
Fairness ==
    /\ \A w \in Threads :
         /\ WF_vars(WorkerStep(w))
         /\ WF_vars(RunEnds(w) /\ fCancel[m_ptsk[w]])
    /\ \A o \in Owners : WF_vars(OwnerStep(o))
    /\ WF_vars(MainStep)

FairSpec == Spec /\ Fairness

-----------------------------------------------------------------------------
(* Properties                                                              *)

\* Where a task is: in the queue, with the worker that dequeued it, or in the
\* hands of its owner, who has cancelled it in the queue or executes it.
Places(t) ==
    ({"queue"} \X {i \in DOMAIN m_qtsk : m_qtsk[i] = t})
      \union ({"worker"} \X {w \in Threads : m_ptsk[w] = t})
      \union ({"owner"} \X {o \in Owners : cur[o] = t
                                           /\ owner[o] \in {"cancelSignal", "execute"}})

\* A scheduled task that has not finished is in one place; no other task is
\* anywhere.  A worker, the queue or a canceller never gets at a deleted task.
OnePlace ==
    \A t \in Tasks :
        IF Scheduled(t) /\ ~Finished(t)
        THEN \E place \in Places(t) : Places(t) = {place}
        ELSE Places(t) = {}

\* After its single wait WaitAny finds a finished task: GPOS_OK == eresFound.
WaitAnyFinds == \A o \in Owners : owner[o] # "notFound"

\* m_ulpWorkers counts the threads that have not left EsrTskNext for good, and
\* the increments about to be taken back.  Where no increment exceeds the limit for
\* a moment no worker leaves beside one, and the plain decrement loses none.
WorkersExact ==
    ulpWorkers =
        Cardinality({w \in Threads : thread[w] \notin {"unused", "exited", "finished"}})
          + Cardinality({o \in Owners : owner[o] = "undo"})

\* However long the running tasks take, a queued task is taken up or cancelled:
\* Schedule wakes a worker or creates one, unless a thread was refused to it.
QueuedTaken ==
    \A t \in Tasks : estatus[t] = "queued" ~> estatus[t] # "queued" \/ refused

\* The dtor of an ATP ends: each task it cancels finishes and wakes it.
DestroyEnds == \A o \in Owners : o \in leaving ~> owner[o] = "gone"

\* The number of workers comes down to a lower limit, one leaving worker waking
\* the next, and Shutdown then joins all of them.
ShutdownEnds == (\A o \in Owners : owner[o] = "gone") ~> main = "end"

\* "Worker pool has no workers", asserted by Schedule when an owner calls it; a
\* maximum of one worker violates it (CreateWorkerThread and FWorkersDecrease).
PoolHasWorkers ==
    \A o \in Owners, t \in Tasks : Calls(o, t) /\ estatus[t] = "init" => ulpWorkers > 0
=============================================================================
