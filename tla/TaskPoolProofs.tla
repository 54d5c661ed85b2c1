--------------------------- MODULE TaskPoolProofs ----------------------------
(***************************************************************************)
(* Proofs about the worker pool: a scheduled task is in one place until it *)
(* has finished, for any number of owners, tasks and threads and whatever  *)
(* the limits.                                                             *)
(***************************************************************************)
EXTENDS TaskPool, SequenceTheorems, TLAPS

Live(t) == estatus[t] \in {"queued", "dequeued", "running"}

\* The places of a thread that holds a task.
Busy == {"exec", "run", "signalCompleted", "signalError"}

\* The places of an owner whose call is about its task cur.
Minding == {"cancelQueued", "cancelSignal", "wait", "timedWait", "execute",
            "destroyWait", "delete"}

Queued(t) == \E i \in 1..Len(m_qtsk) : m_qtsk[i] = t
HeldBy(w, t) == m_ptsk[w] = t
InHand(o, t) == cur[o] = t /\ owner[o] \in {"cancelSignal", "execute"}

\* A task is in the list of one ATP from its creation to its deletion.
Listed == \A t \in Tasks : atp[t] \in Owners <=> estatus[t] \notin {"unborn", "deleted"}

\* m_fReported is set when the task has finished.
ReportedOK == \A t \in Tasks : fReported[t] => estatus[t] \in {"completed", "error", "deleted"}

QueueOK ==
    /\ \A i \in 1..Len(m_qtsk) : estatus[m_qtsk[i]] = "queued"
    /\ \A i, j \in 1..Len(m_qtsk) : m_qtsk[i] = m_qtsk[j] => i = j

WorkersOK ==
    /\ \A w \in Threads : m_ptsk[w] \in Tasks <=> thread[w] \in Busy
    /\ \A w \in Threads : m_ptsk[w] \in Tasks => estatus[m_ptsk[w]] \in {"dequeued", "running"}
    /\ \A v, w \in Threads : m_ptsk[v] = m_ptsk[w] /\ m_ptsk[w] \in Tasks => v = w

OwnersOK ==
    \A o \in Owners :
      /\ owner[o] \in Minding => cur[o] \in Tasks /\ atp[cur[o]] = o
      /\ owner[o] = "cancelSignal" => estatus[cur[o]] = "queued" /\ ~Queued(cur[o])
      /\ owner[o] = "execute" =>
            estatus[cur[o]] = "running" /\ \A w \in Threads : m_ptsk[w] # cur[o]
      /\ owner[o] = "delete" => ~Live(cur[o])

\* Nothing is lost: whoever is responsible for a task with this status.
NotLost ==
    \A t \in Tasks :
      /\ estatus[t] = "queued" => Queued(t) \/ \E o \in Owners : InHand(o, t)
      /\ estatus[t] = "dequeued" => \E w \in Threads : HeldBy(w, t)
      /\ estatus[t] = "running" =>
            (\E w \in Threads : HeldBy(w, t)) \/ \E o \in Owners : InHand(o, t)

IInv ==
    TaskTypeOK /\ Listed /\ ReportedOK /\ QueueOK /\ WorkersOK /\ OwnersOK /\ NotLost

-----------------------------------------------------------------------------
\* EresCancel's removal from the queue keeps the other tasks, in their order.
LEMMA RemovalKeepsOthers ==
  ASSUME NEW S, NEW s \in Seq(S), NEW i \in 1..Len(s)
  PROVE  LET r == WithoutElement(s, i)
         IN  /\ r \in Seq(S)
             /\ Len(r) = Len(s) - 1
             /\ \A j \in 1..Len(r) : r[j] = IF j < i THEN s[j] ELSE s[j + 1]
<1> DEFINE a == SubSeq(s, 1, i - 1)
           b == SubSeq(s, i + 1, Len(s))
<1>1. a \in Seq(S) /\ Len(a) = i - 1 /\ \A j \in 1..(i - 1) : a[j] = s[j]
  OBVIOUS
<1>2. b \in Seq(S) /\ Len(b) = Len(s) - i /\ \A j \in 1..(Len(s) - i) : b[j] = s[i + j]
  OBVIOUS
<1>. HIDE DEF a, b
<1>3. Len(s) \in Nat /\ i \in 1..Len(s)
  BY LenProperties
<1>4. /\ a \o b \in Seq(S)
      /\ Len(a \o b) = Len(a) + Len(b)
      /\ \A j \in 1..(Len(a) + Len(b)) :
            (a \o b)[j] = IF j <= Len(a) THEN a[j] ELSE b[j - Len(a)]
  BY <1>1, <1>2, ConcatProperties
<1>5. Len(a \o b) = Len(s) - 1
  BY <1>1, <1>2, <1>3, <1>4
<1>6. \A j \in 1..(Len(s) - 1) : (a \o b)[j] = IF j < i THEN s[j] ELSE s[j + 1]
  BY <1>1, <1>2, <1>3, <1>4
<1>. QED
  BY <1>4, <1>5, <1>6 DEF WithoutElement, a, b

\* CThreadManager::EresCreate starts a thread that holds no task.
LEMMA StartsIdle ==
  ASSUME TaskTypeOK, StartThread
  PROVE  /\ thread' \in [Threads -> ThreadPlaces]
         /\ \A w \in Threads : thread'[w] \in Busy <=> thread[w] \in Busy
<1>. DEFINE unused == {w \in Threads : thread[w] = "unused"}
<1>1. CASE unused # {}
  <2>1. PICK v \in unused : thread' = [thread EXCEPT ![v] = "next"]
    BY <1>1 DEF StartThread
  <2>. QED
    BY <2>1 DEF TaskTypeOK, ThreadPlaces, Busy
<1>2. CASE unused = {}
  BY <1>2 DEF StartThread, TaskTypeOK, ThreadPlaces, Busy
<1>. QED
  BY <1>1, <1>2

\* The empty pool satisfies the invariant.
LEMMA PoolInit == Init => IInv
  BY NoTaskAssumption
  DEF Init, IInv, TaskTypeOK, Listed, ReportedOK, QueueOK, WorkersOK, OwnersOK, NotLost,
      Statuses, ThreadPlaces, OwnerPlaces, Busy, Minding, Queued, HeldBy, InHand, Live

\* The steps that leave every task where it is, with its status.
LEMMA TasksStay ==
  ASSUME IInv, UNCHANGED <<estatus, fReported, atp, m_qtsk, m_ptsk>>,
         fCancel' \in [Tasks -> BOOLEAN],
         thread' \in [Threads -> ThreadPlaces],
         \A w \in Threads : thread'[w] \in Busy <=> thread[w] \in Busy,
         UNCHANGED <<owner, cur>>
  PROVE  IInv'
  BY DEF IInv, TaskTypeOK, Listed, ReportedOK, QueueOK, WorkersOK, OwnersOK, NotLost,
      Queued, HeldBy, InHand, Live

\* The steps by which an owner proceeds in a call, with no task in its hands.
LEMMA OwnerMoves ==
  ASSUME IInv, NEW o \in Owners, NEW place \in OwnerPlaces, NEW x \in Tasks \union {NoTask},
         owner[o] \notin {"cancelSignal", "execute"},
         place \notin {"cancelSignal", "execute"},
         place \in Minding => x \in Tasks /\ atp[x] = o,
         place = "delete" => ~Live(x),
         owner' = [owner EXCEPT ![o] = place],
         cur' = [cur EXCEPT ![o] = x],
         UNCHANGED <<estatus, atp, m_qtsk, m_ptsk>>,
         thread' \in [Threads -> ThreadPlaces],
         \A w \in Threads : thread'[w] \in Busy <=> thread[w] \in Busy,
         fCancel' \in [Tasks -> BOOLEAN], fReported' \in [Tasks -> BOOLEAN],
         ReportedOK'
  PROVE  IInv'
<1>. USE DEF IInv
<1>1. TaskTypeOK' /\ Listed' /\ QueueOK' /\ WorkersOK'
  BY DEF TaskTypeOK, Listed, QueueOK, WorkersOK
<1>2. OwnersOK'
  BY DEF TaskTypeOK, OwnersOK, Queued, Live, Minding
<1>3. NotLost'
  BY DEF TaskTypeOK, NotLost, Queued, HeldBy, InHand
<1>. QED
  BY <1>1, <1>2, <1>3

\* A report makes the task reported, when it has finished, and moves the owner
\* on.
LEMMA ReportMoves ==
  ASSUME IInv, NEW o \in Owners, NEW t \in Tasks,
         owner[o] \notin {"cancelSignal", "execute"},
         atp[t] = o, Finished(t), Report(o, t),
         UNCHANGED <<estatus, fCancel, atp, idleOwnerVars>>
  PROVE  IInv'
<1>1. fReported' \in [Tasks -> BOOLEAN] /\ ReportedOK'
  BY DEF Report, IInv, TaskTypeOK, ReportedOK, Finished
<1>2. /\ UNCHANGED <<estatus, atp, m_qtsk, m_ptsk, thread, fCancel>>
      /\ thread \in [Threads -> ThreadPlaces] /\ fCancel \in [Tasks -> BOOLEAN]
  BY DEF idleOwnerVars, threadVars, IInv, TaskTypeOK
<1>3. ~Live(t)
  BY DEF Live, Finished
<1>4. ASSUME NEW place \in {"idle", "delete"}, NEW x \in {t, NoTask},
             place = "delete" => x = t,
             Goto(o, place), cur' = [cur EXCEPT ![o] = x]
      PROVE  IInv'
  <2>1. place \in OwnerPlaces /\ place \notin {"cancelSignal", "execute"}
        /\ x \in Tasks \union {NoTask}
        /\ (place \in Minding => x \in Tasks /\ atp[x] = o)
        /\ (place = "delete" => ~Live(x))
    BY <1>3, <1>4 DEF OwnerPlaces, Minding
  <2>2. owner' = [owner EXCEPT ![o] = place]
    BY <1>4 DEF Goto
  <2>. HIDE DEF OwnerPlaces, Minding, ReportedOK
  <2>. QED
    BY <1>1, <1>2, <1>4, <2>1, <2>2, OwnerMoves
<1>. QED
  BY <1>4 DEF Report

\* So does falling asleep, or waking up without a task.
LEMMA SleepMoves ==
  ASSUME IInv, NEW o \in Owners, NEW x \in Tasks \union {NoTask},
         NEW place \in {"idle", "wait", "timedWait", "waitAny", "timedWaitAny", "notFound"},
         owner[o] \notin {"cancelSignal", "execute"},
         place \in Minding => x \in Tasks /\ atp[x] = o,
         Sleep(o, x, place),
         UNCHANGED <<estatus, fCancel, atp, idleOwnerVars>>
  PROVE  IInv'
<1>1. /\ UNCHANGED <<estatus, atp, m_qtsk, m_ptsk, thread, fCancel, fReported>>
      /\ thread \in [Threads -> ThreadPlaces] /\ fCancel \in [Tasks -> BOOLEAN]
      /\ fReported \in [Tasks -> BOOLEAN]
  BY DEF Sleep, idleOwnerVars, threadVars, IInv, TaskTypeOK
<1>2. ReportedOK'
  BY <1>1 DEF IInv, ReportedOK
<1>3. place \in OwnerPlaces /\ place \notin {"cancelSignal", "execute", "delete"}
  BY DEF OwnerPlaces
<1>. QED
  BY <1>1, <1>2, <1>3, OwnerMoves DEF Sleep, Goto

-----------------------------------------------------------------------------
\* The steps of threads.
LEMMA WorkerKeeps ==
  ASSUME IInv, NEW w \in Threads, WorkerStep(w) \/ RunEnds(w)
  PROVE  IInv'
<1>. USE DEF taskVars, countVars, leaveVars, eventVars, threadVars, ownerVars, mainVars
<1>0. TaskTypeOK
  BY DEF IInv
<1>1. CASE Dequeue(w)
  <2>. DEFINE t == Head(m_qtsk)
  <2>1. /\ m_qtsk # <<>> /\ t \in Tasks /\ t = m_qtsk[1]
        /\ Len(m_qtsk) \in Nat \ {0}
        /\ m_qtsk' \in Seq(Tasks) /\ Len(m_qtsk') = Len(m_qtsk) - 1
        /\ \A i \in 1..Len(m_qtsk') : m_qtsk'[i] = m_qtsk[i + 1]
    BY <1>0, <1>1, HeadTailProperties, LenProperties DEF Dequeue, TaskTypeOK
  <2>2. /\ estatus[t] = "queued" /\ t \in Tasks
        /\ estatus' = [estatus EXCEPT ![t] = "dequeued"]
        /\ thread[w] = "next" /\ thread' = [thread EXCEPT ![w] = "exec"]
        /\ m_ptsk[w] \notin Tasks /\ m_ptsk' = [m_ptsk EXCEPT ![w] = t]
        /\ UNCHANGED <<fCancel, fReported, atp, owner, cur>>
    BY <1>1, <2>1 DEF Dequeue, SetStatus, IInv, QueueOK, WorkersOK, Busy
  <2>3. \A x \in Tasks : Queued(x)' <=> Queued(x) /\ x # t
    <3>1. ASSUME NEW i \in 1..Len(m_qtsk')
          PROVE  i + 1 \in 1..Len(m_qtsk) /\ m_qtsk'[i] = m_qtsk[i + 1] /\ m_qtsk'[i] # t
      BY <2>1 DEF IInv, QueueOK
    <3>2. ASSUME NEW i \in 1..Len(m_qtsk), m_qtsk[i] # t
          PROVE  i - 1 \in 1..Len(m_qtsk') /\ m_qtsk'[i - 1] = m_qtsk[i]
      BY <2>1, <3>2
    <3>. QED
      BY <3>1, <3>2 DEF Queued
  <2>. HIDE DEF t
  <2>4. TaskTypeOK' /\ Listed' /\ ReportedOK'
    BY <1>0, <2>1, <2>2 DEF TaskTypeOK, Listed, ReportedOK, IInv, Statuses, ThreadPlaces
  <2>5. QueueOK'
    <3>1. ASSUME NEW i \in 1..Len(m_qtsk')
          PROVE  i + 1 \in 1..Len(m_qtsk) /\ m_qtsk'[i] = m_qtsk[i + 1] /\ m_qtsk'[i] # t
      BY <2>1 DEF IInv, QueueOK
    <3>2. ASSUME NEW i \in 1..Len(m_qtsk')  PROVE  estatus'[m_qtsk'[i]] = "queued"
      <4>1. m_qtsk[i + 1] \in Tasks /\ estatus[m_qtsk[i + 1]] = "queued"
        BY <1>0, <3>1, ElementOfSeq DEF IInv, QueueOK, TaskTypeOK
      <4>. QED
        BY <1>0, <2>2, <3>1, <4>1 DEF TaskTypeOK
    <3>3. ASSUME NEW i \in 1..Len(m_qtsk'), NEW j \in 1..Len(m_qtsk'), m_qtsk'[i] = m_qtsk'[j]
          PROVE  i = j
      <4>1. i + 1 = j + 1
        BY <3>1, <3>3 DEF IInv, QueueOK
      <4>. QED
        BY <2>1, <4>1
    <3>. QED
      BY <3>2, <3>3 DEF QueueOK
  <2>6. WorkersOK'
    BY <1>0, <2>2 DEF IInv, WorkersOK, TaskTypeOK, Busy
  <2>7. OwnersOK'
    <3>1. Queued(t)
      BY <2>1 DEF Queued
    <3>2. ASSUME NEW o \in Owners, owner[o] \in {"cancelSignal", "execute", "delete"}
          PROVE  cur[o] \in Tasks /\ cur[o] # t
      BY <2>2, <3>1, <3>2 DEF IInv, OwnersOK, Live, Minding
    <3>. QED
      BY <1>0, <2>2, <2>3, <3>2 DEF IInv, OwnersOK, TaskTypeOK, Live, Minding
  <2>8. NotLost'
    BY <1>0, <2>2, <2>3 DEF IInv, NotLost, TaskTypeOK, HeldBy, InHand
  <2>. QED
    BY <2>4, <2>5, <2>6, <2>7, <2>8 DEF IInv
<1>2. CASE WaitForTask(w) \/ WakeUp(w) \/ Leave(w) \/ Left(w) \/ SetFinished(w)
  BY <1>0, <1>2, TasksStay
  DEF WaitForTask, WakeUp, Leave, Left, SetFinished, TaskTypeOK, ThreadPlaces, Busy
<1>3. CASE Execute(w)
  <2>1. /\ UNCHANGED <<fCancel, fReported, atp, m_qtsk, m_ptsk, owner, cur>>
        /\ thread[w] = "exec" /\ thread' \in [Threads -> ThreadPlaces]
        /\ \A v \in Threads : thread'[v] \in Busy <=> thread[v] \in Busy
    BY <1>0, <1>3 DEF Execute, TaskTypeOK, ThreadPlaces, Busy
  <2>2. CASE UNCHANGED estatus
    BY <1>0, <2>1, <2>2, TasksStay DEF TaskTypeOK
  <2>3. CASE SetStatus(m_ptsk[w], "running")
    <3>1. m_ptsk[w] \in Tasks /\ estatus[m_ptsk[w]] \in {"dequeued", "running"}
      BY <2>1 DEF IInv, WorkersOK, Busy
    <3>. QED
      BY <1>0, <2>1, <2>3, <3>1
      DEF IInv, TaskTypeOK, Listed, ReportedOK, QueueOK, WorkersOK, OwnersOK, NotLost,
          Queued, HeldBy, InHand, Live, SetStatus, Statuses, Minding
  <2>. QED
    BY <1>3, <2>2, <2>3 DEF Execute
<1>4. CASE RunEnds(w)
  BY <1>0, <1>4, TasksStay DEF RunEnds, TaskTypeOK, ThreadPlaces, Busy
<1>5. CASE SignalEnd(w)
  <2>1. /\ UNCHANGED <<fCancel, fReported, atp, m_qtsk, owner, cur>>
        /\ thread[w] \in Busy /\ thread' = [thread EXCEPT ![w] = "next"]
        /\ m_ptsk' = [m_ptsk EXCEPT ![w] = NoTask]
        /\ \E ets \in {"error", "completed"} : estatus' = [estatus EXCEPT ![m_ptsk[w]] = ets]
    BY <1>5 DEF SignalEnd, Signal, SetStatus, Busy
  <2>2. m_ptsk[w] \in Tasks /\ estatus[m_ptsk[w]] \in {"dequeued", "running"}
    BY <2>1 DEF IInv, WorkersOK
  <2>3. TaskTypeOK' /\ Listed' /\ ReportedOK' /\ QueueOK'
    BY <1>0, <2>1, <2>2
    DEF IInv, TaskTypeOK, Listed, ReportedOK, QueueOK, Statuses, ThreadPlaces
  <2>4. WorkersOK'
    BY <1>0, <2>1, <2>2, NoTaskAssumption DEF IInv, TaskTypeOK, WorkersOK, Busy
  <2>5. OwnersOK' /\ NotLost'
    BY <1>0, <2>1, <2>2, NoTaskAssumption
    DEF IInv, TaskTypeOK, OwnersOK, NotLost, Queued, HeldBy, InHand, Live, Minding, QueueOK,
        WorkersOK
  <2>. QED
    BY <2>3, <2>4, <2>5 DEF IInv
<1>. QED
  BY <1>1, <1>2, <1>3, <1>4, <1>5 DEF WorkerStep

\* The steps of owners that move no task.
LEMMA OwnerMarks ==
  ASSUME IInv, NEW o \in Owners, NEW t \in Tasks, NEW place \in {"idle", "destroyWait"},
         owner[o] = "idle", atp[t] = o, Mark(o, t, place),
         UNCHANGED <<estatus, fReported, atp, idleOwnerVars>>
  PROVE  IInv'
<1>1. /\ UNCHANGED <<estatus, atp, m_qtsk, m_ptsk, thread, fReported>>
      /\ thread \in [Threads -> ThreadPlaces] /\ fReported \in [Tasks -> BOOLEAN]
      /\ fCancel' \in [Tasks -> BOOLEAN] /\ ReportedOK'
  BY DEF Mark, idleOwnerVars, threadVars, IInv, TaskTypeOK, ReportedOK
<1>2. PICK p \in {"cancelQueued", place} : owner' = [owner EXCEPT ![o] = p]
  BY DEF Mark, Goto
<1>3. owner'[o] = p /\ p \in OwnerPlaces
  BY <1>2 DEF IInv, TaskTypeOK, OwnerPlaces
<1>4. PICK x \in {t, NoTask} : cur' = [cur EXCEPT ![o] = x] /\ (p # "idle" => x = t)
  BY <1>3 DEF Mark
<1>. QED
  BY <1>1, <1>2, <1>3, <1>4, OwnerMoves DEF Minding

\* The calls of an owner keep the invariant.
LEMMA OwnerCallKeeps ==
  ASSUME IInv, NEW o \in Owners, OwnerCall(o)
  PROVE  IInv'
<1>. USE DEF countVars, leaveVars, eventVars, threadVars, mainVars, idleOwnerVars, taskVars
<1>0. TaskTypeOK
  BY DEF IInv
<1>1. ASSUME NEW t \in Tasks, PtskCreate(o, t) PROVE IInv'
  <2>1. /\ estatus[t] = "unborn" /\ estatus' = [estatus EXCEPT ![t] = "init"]
        /\ atp' = [atp EXCEPT ![t] = o]
        /\ UNCHANGED <<fCancel, fReported, m_qtsk, thread, m_ptsk, owner, cur>>
    BY <1>1 DEF PtskCreate, SetStatus, ownerVars
  <2>. QED
    BY <1>0, <2>1, NoTaskAssumption
    DEF IInv, TaskTypeOK, Listed, ReportedOK, QueueOK, WorkersOK, OwnersOK, NotLost,
        Queued, HeldBy, InHand, Live, Statuses, Minding
<1>2. ASSUME NEW t \in Tasks, Schedule(o, t) PROVE IInv'
  <2>1. /\ estatus[t] = "init" /\ estatus' = [estatus EXCEPT ![t] = "queued"]
        /\ atp[t] = o /\ owner[o] = "idle" /\ owner' = [owner EXCEPT ![o] = "increase"]
        /\ UNCHANGED <<fCancel, fReported, atp, thread, m_ptsk, cur>>
    BY <1>2 DEF Schedule, Calls, SetStatus, Goto
  <2>2. /\ m_qtsk' \in Seq(Tasks) /\ Len(m_qtsk) \in Nat
        /\ Len(m_qtsk') = Len(m_qtsk) + 1
        /\ \A i \in 1..Len(m_qtsk) : m_qtsk'[i] = m_qtsk[i] /\ m_qtsk[i] \in Tasks
        /\ m_qtsk'[Len(m_qtsk) + 1] = t
    BY <1>0, <1>2 DEF Schedule, TaskTypeOK
  <2>3. \A i \in 1..Len(m_qtsk) : m_qtsk[i] # t
    BY <2>1 DEF IInv, QueueOK
  <2>4. \A x \in Tasks : Queued(x)' <=> Queued(x) \/ x = t
    BY <2>2 DEF Queued
  <2>5. TaskTypeOK' /\ Listed' /\ ReportedOK'
    BY <1>0, <2>1, <2>2
    DEF IInv, TaskTypeOK, Listed, ReportedOK, Statuses, OwnerPlaces
  <2>6. QueueOK'
    <3>1. ASSUME NEW i \in 1..Len(m_qtsk')
          PROVE  \/ i \in 1..Len(m_qtsk) /\ m_qtsk'[i] = m_qtsk[i]
                 \/ i = Len(m_qtsk) + 1 /\ m_qtsk'[i] = t
      BY <2>2
    <3>2. ASSUME NEW i \in 1..Len(m_qtsk')  PROVE  estatus'[m_qtsk'[i]] = "queued"
      BY <1>0, <2>1, <2>2, <3>1 DEF IInv, TaskTypeOK, QueueOK
    <3>3. ASSUME NEW i \in 1..Len(m_qtsk'), NEW j \in 1..Len(m_qtsk'), m_qtsk'[i] = m_qtsk'[j]
          PROVE  i = j
      BY <2>3, <3>1, <3>3 DEF IInv, QueueOK
    <3>. QED
      BY <3>2, <3>3 DEF QueueOK
  <2>7. WorkersOK'
    BY <1>0, <2>1 DEF IInv, TaskTypeOK, WorkersOK
  <2>8. OwnersOK'
    BY <1>0, <2>1, <2>4 DEF IInv, TaskTypeOK, OwnersOK, Live, Minding
  <2>9. NotLost'
    BY <1>0, <2>1, <2>4 DEF IInv, TaskTypeOK, NotLost, HeldBy, InHand
  <2>. QED
    BY <2>5, <2>6, <2>7, <2>8, <2>9 DEF IInv
<1>3. ASSUME NEW t \in Tasks, Cancel(o, t) PROVE IInv'
  BY <1>3, OwnerMarks DEF Cancel, Calls
<1>4. ASSUME NEW t \in Tasks, NEW place \in {"wait", "timedWait"}, Wait(o, t, place)
      PROVE  IInv'
  <2>1. /\ owner[o] \notin {"cancelSignal", "execute"} /\ atp[t] = o
        /\ UNCHANGED <<estatus, fCancel, atp, idleOwnerVars>>
    BY <1>4 DEF Wait, Calls, IInv, OwnersOK, Minding
  <2>. QED
    BY <1>4, <2>1, ReportMoves, SleepMoves DEF Wait
<1>5. ASSUME NEW t \in Tasks, ExecuteHere(o, t) PROVE IInv'
  <2>1. /\ estatus[t] = "init" /\ atp[t] = o /\ owner[o] = "idle"
        /\ UNCHANGED <<fCancel, atp, m_qtsk, thread, m_ptsk>>
    BY <1>5 DEF ExecuteHere, Calls
  <2>2. CASE /\ estatus' = [estatus EXCEPT ![t] = "error"]
             /\ fReported' = [fReported EXCEPT ![t] = TRUE]
             /\ UNCHANGED <<owner, cur>>
    BY <1>0, <2>1, <2>2
    DEF IInv, TaskTypeOK, Listed, ReportedOK, QueueOK, WorkersOK, OwnersOK, NotLost,
        Queued, HeldBy, InHand, Live, Statuses, Minding
  <2>3. CASE /\ estatus' = [estatus EXCEPT ![t] = "running"]
             /\ owner' = [owner EXCEPT ![o] = "execute"]
             /\ cur' = [cur EXCEPT ![o] = t]
             /\ UNCHANGED fReported
    <3>1. TaskTypeOK' /\ Listed' /\ ReportedOK' /\ QueueOK'
      BY <1>0, <2>1, <2>3
      DEF IInv, TaskTypeOK, Listed, ReportedOK, QueueOK, Statuses, OwnerPlaces
    <3>2. \A w \in Threads : m_ptsk[w] # t
      BY <1>0, <2>1 DEF IInv, WorkersOK
    <3>3. WorkersOK' /\ OwnersOK'
      BY <1>0, <2>1, <2>3, <3>2
      DEF IInv, TaskTypeOK, WorkersOK, OwnersOK, Queued, Live, Minding
    <3>4. NotLost'
      BY <1>0, <2>1, <2>3 DEF IInv, TaskTypeOK, NotLost, Queued, HeldBy, InHand
    <3>. QED
      BY <3>1, <3>3, <3>4 DEF IInv
  <2>. QED
    BY <1>5, <2>2, <2>3 DEF ExecuteHere, SetStatus, Goto
<1>6. ASSUME NEW t \in Tasks, Destroy(o, t) PROVE IInv'
  <2>1. /\ owner[o] = "idle" /\ atp[t] = o
        /\ UNCHANGED <<estatus, fReported, atp, idleOwnerVars>>
    BY <1>6 DEF Destroy
  <2>2. ASSUME NEW place \in {"delete", "destroyWait"}, Goto(o, place),
               cur' = [cur EXCEPT ![o] = t], UNCHANGED fCancel,
               place = "delete" => ~Live(t)
        PROVE  IInv'
    <3>1. ReportedOK' /\ UNCHANGED <<thread, m_qtsk, m_ptsk>> /\ place \in OwnerPlaces
      BY <2>1 DEF IInv, ReportedOK, OwnerPlaces
    <3>. QED
      BY <1>0, <2>1, <2>2, <3>1, OwnerMoves DEF Goto, TaskTypeOK
  <2>3. ~Scheduled(t) \/ fReported[t] => ~Live(t)
    BY DEF Scheduled, Live, IInv, ReportedOK
  <2>. QED
    BY <1>6, <2>1, <2>2, <2>3, OwnerMarks DEF Destroy
<1>7. ASSUME NEW place \in {"waitAny", "timedWaitAny"}, WaitAny(o, place) PROVE IInv'
  BY <1>7, ReportMoves, SleepMoves DEF WaitAny, FinishedTasks, Minding
<1>8. CASE AbortSchedule(o) \/ Leaves(o)
  <2>1. /\ UNCHANGED <<taskVars, m_qtsk, thread, m_ptsk, cur>>
        /\ owner[o] \in {"increase", "idle"} /\ owner' = [owner EXCEPT ![o] = "idle"]
    BY <1>0, <1>8 DEF AbortSchedule, Leaves, Goto, TaskTypeOK
  <2>2. cur' = [cur EXCEPT ![o] = cur[o]] /\ ReportedOK'
    BY <1>0, <2>1 DEF TaskTypeOK, IInv, ReportedOK
  <2>. QED
    BY <1>0, <2>1, <2>2, OwnerMoves DEF TaskTypeOK, OwnerPlaces, Minding
<1>9. CASE TimesOut(o)
  <2>1. owner[o] = "timedWait" => cur[o] \in Tasks /\ atp[cur[o]] = o
    BY DEF IInv, OwnersOK, Minding
  <2>. QED
    BY <1>9, <2>1, ReportMoves, SleepMoves DEF TimesOut, Minding
<1>. QED
  BY <1>1, <1>2, <1>3, <1>4, <1>5, <1>6, <1>7, <1>8, <1>9 DEF OwnerCall

\* So do the rest of its calls and its dtor.
LEMMA OwnerStepKeeps ==
  ASSUME IInv, NEW o \in Owners, OwnerStep(o)
  PROVE  IInv'
<1>. USE DEF countVars, leaveVars, eventVars, threadVars, mainVars, idleOwnerVars, taskVars
<1>0. TaskTypeOK
  BY DEF IInv
<1>1. CASE CheckIncrease(o) \/ CreateWorkerThread(o) \/ UndoIncrease(o)
  <2>1. PICK place \in {"idle", "create", "undo"} : owner' = [owner EXCEPT ![o] = place]
    BY <1>1 DEF CheckIncrease, CreateWorkerThread, UndoIncrease, Goto
  <2>2. /\ UNCHANGED <<taskVars, m_qtsk, m_ptsk, cur>>
        /\ owner[o] \in {"increase", "create", "undo"}
    BY <1>1 DEF CheckIncrease, CreateWorkerThread, UndoIncrease
  <2>3. /\ thread' \in [Threads -> ThreadPlaces]
        /\ \A w \in Threads : thread'[w] \in Busy <=> thread[w] \in Busy
    BY <1>0, <1>1, StartsIdle
    DEF CheckIncrease, CreateWorkerThread, UndoIncrease, TaskTypeOK
  <2>4. cur' = [cur EXCEPT ![o] = cur[o]] /\ ReportedOK'
    BY <1>0, <2>2 DEF TaskTypeOK, IInv, ReportedOK
  <2>. QED
    <3>1. place \in OwnerPlaces /\ place \notin Minding
      BY DEF OwnerPlaces, Minding
    <3>2. /\ cur[o] \in Tasks \union {NoTask} /\ fCancel' \in [Tasks -> BOOLEAN]
          /\ fReported' \in [Tasks -> BOOLEAN] /\ UNCHANGED <<estatus, atp, m_qtsk, m_ptsk>>
          /\ place # "delete" /\ place \notin {"cancelSignal", "execute"}
      BY <1>0, <2>2 DEF TaskTypeOK
    <3>. QED
      BY <2>1, <2>2, <2>3, <2>4, <3>1, <3>2, OwnerMoves
<1>2. CASE CancelQueued(o)
  <2>0. /\ owner[o] = "cancelQueued" /\ cur[o] \in Tasks /\ atp[cur[o]] = o
        /\ UNCHANGED <<taskVars, thread, m_ptsk>>
    BY <1>2 DEF CancelQueued, IInv, OwnersOK, Minding
  <2>1. ASSUME NEW i \in DOMAIN m_qtsk, m_qtsk[i] = cur[o],
               m_qtsk' = WithoutElement(m_qtsk, i),
               Goto(o, "cancelSignal"), UNCHANGED cur
        PROVE  IInv'
    <3>. DEFINE old(j) == IF j < i THEN j ELSE j + 1
    <3>1. /\ Len(m_qtsk) \in Nat /\ i \in 1..Len(m_qtsk)
          /\ m_qtsk' \in Seq(Tasks) /\ Len(m_qtsk') = Len(m_qtsk) - 1
          /\ \A j \in 1..Len(m_qtsk') : m_qtsk'[j] = m_qtsk[old(j)]
      BY <1>0, <2>1, RemovalKeepsOthers, LenProperties DEF TaskTypeOK
    <3>2. ASSUME NEW j \in 1..Len(m_qtsk')
          PROVE  old(j) \in 1..Len(m_qtsk) /\ m_qtsk'[j] = m_qtsk[old(j)] /\ m_qtsk'[j] # cur[o]
      <4>1. old(j) \in 1..Len(m_qtsk) /\ m_qtsk'[j] = m_qtsk[old(j)] /\ old(j) # i
        BY <3>1
      <4>. QED
        BY <2>1, <3>1, <4>1 DEF IInv, QueueOK
    <3>3. ASSUME NEW k \in 1..Len(m_qtsk), m_qtsk[k] # cur[o]
          PROVE  \E j \in 1..Len(m_qtsk') : m_qtsk'[j] = m_qtsk[k]
      <4>1. CASE k < i
        BY <3>1, <4>1
      <4>2. CASE k > i
        <5>1. k - 1 \in 1..Len(m_qtsk') /\ old(k - 1) = k
          BY <3>1, <4>2
        <5>. QED
          BY <3>1, <5>1
      <4>. QED
        BY <2>1, <3>1, <3>3, <4>1, <4>2
    <3>4. \A x \in Tasks : Queued(x)' <=> Queued(x) /\ x # cur[o]
      BY <3>2, <3>3 DEF Queued
    <3>5. estatus[cur[o]] = "queued"
      BY <2>1, <3>1 DEF IInv, QueueOK
    <3>6. QueueOK'
      <4>1. \A j \in 1..Len(m_qtsk') : estatus[m_qtsk'[j]] = "queued"
        BY <3>2 DEF IInv, QueueOK
      <4>2. ASSUME NEW j \in 1..Len(m_qtsk'), NEW k \in 1..Len(m_qtsk'), m_qtsk'[j] = m_qtsk'[k]
            PROVE  j = k
        <5>1. old(j) = old(k)
          BY <3>2, <4>2 DEF IInv, QueueOK
        <5>. QED
          BY <3>1, <5>1
      <4>. QED
        BY <2>0, <4>1, <4>2 DEF QueueOK
    <3>7. TaskTypeOK' /\ Listed' /\ ReportedOK' /\ WorkersOK'
      BY <1>0, <2>0, <2>1, <3>1
      DEF IInv, TaskTypeOK, Listed, ReportedOK, WorkersOK, OwnerPlaces, Goto
    <3>8. OwnersOK'
      BY <1>0, <2>0, <2>1, <3>4, <3>5 DEF IInv, TaskTypeOK, OwnersOK, Goto, Minding, Live
    <3>9. NotLost'
      BY <1>0, <2>0, <2>1, <3>4, <3>5 DEF IInv, TaskTypeOK, NotLost, Goto, HeldBy, InHand
    <3>. QED
      BY <3>6, <3>7, <3>8, <3>9 DEF IInv
  <2>2. ASSUME Returns(o), UNCHANGED m_qtsk PROVE IInv'
    <3>1. PICK place \in {"idle", "destroyWait"}, x \in {cur[o], NoTask} :
            /\ owner' = [owner EXCEPT ![o] = place] /\ cur' = [cur EXCEPT ![o] = x]
            /\ place = "destroyWait" => x = cur[o]
      <4>1. cur = [cur EXCEPT ![o] = cur[o]]
        BY <1>0 DEF TaskTypeOK
      <4>. QED
        BY <2>2, <4>1 DEF Returns, Goto
    <3>2. ReportedOK'
      BY <2>0 DEF IInv, ReportedOK
    <3>. QED
      BY <1>0, <2>0, <2>2, <3>1, <3>2, OwnerMoves DEF TaskTypeOK, OwnerPlaces, Minding
  <2>. QED
    BY <1>2, <2>1, <2>2 DEF CancelQueued
<1>3. CASE CancelSignal(o)
  <2>1. /\ owner[o] = "cancelSignal" /\ cur[o] \in Tasks /\ atp[cur[o]] = o
        /\ estatus[cur[o]] = "queued" /\ ~Queued(cur[o])
        /\ estatus' = [estatus EXCEPT ![cur[o]] = "error"]
        /\ UNCHANGED <<fCancel, fReported, atp, m_qtsk, thread, m_ptsk>>
    BY <1>3 DEF CancelSignal, Signal, SetStatus, IInv, OwnersOK, Minding
  <2>2. PICK place \in {"idle", "destroyWait"}, x \in {cur[o], NoTask} :
          /\ owner' = [owner EXCEPT ![o] = place] /\ cur' = [cur EXCEPT ![o] = x]
          /\ place = "destroyWait" => x = cur[o]
    <3>1. cur = [cur EXCEPT ![o] = cur[o]]
      BY <1>0 DEF TaskTypeOK
    <3>. QED
      BY <1>3, <3>1 DEF CancelSignal, Returns, Goto
  <2>3. TaskTypeOK' /\ Listed' /\ ReportedOK'
    BY <1>0, <2>1, <2>2 DEF IInv, TaskTypeOK, Listed, ReportedOK, Statuses, OwnerPlaces
  <2>4. QueueOK' /\ WorkersOK'
    <3>1. \A t \in Tasks : t # cur[o] => estatus'[t] = estatus[t]
      BY <1>0, <2>1 DEF TaskTypeOK
    <3>2. \A i \in 1..Len(m_qtsk) : m_qtsk[i] \in Tasks /\ m_qtsk[i] # cur[o]
      BY <1>0, <2>1 DEF TaskTypeOK, Queued
    <3>3. QueueOK'
      BY <2>1, <3>1, <3>2 DEF IInv, QueueOK
    <3>4. \A w \in Threads : m_ptsk[w] # cur[o]
      BY <2>1 DEF IInv, WorkersOK
    <3>. QED
      BY <2>1, <3>1, <3>3, <3>4 DEF IInv, WorkersOK
  <2>5. OwnersOK' /\ NotLost'
    BY <1>0, <2>1, <2>2
    DEF IInv, TaskTypeOK, OwnersOK, NotLost, Queued, HeldBy, InHand, Live, Minding
  <2>. QED
    BY <2>3, <2>4, <2>5 DEF IInv
<1>4. CASE owner[o] = "destroyWait" /\ Wait(o, cur[o], "wait")
  <2>1. /\ cur[o] \in Tasks /\ atp[cur[o]] = o
        /\ UNCHANGED <<estatus, fCancel, atp, idleOwnerVars>>
    BY <1>4 DEF Wait, IInv, OwnersOK, Minding
  <2>. QED
    BY <1>4, <2>1, ReportMoves, SleepMoves DEF Wait
<1>5. CASE WaitWakes(o)
  <2>1. /\ cur[o] \in Tasks /\ atp[cur[o]] = o
        /\ owner[o] \in {"wait", "timedWait"}
    BY <1>5 DEF WaitWakes, IInv, OwnersOK, Minding
  <2>. QED
    BY <1>5, <2>1, ReportMoves, SleepMoves DEF WaitWakes
<1>6. CASE WaitAnyWakes(o)
  BY <1>6, ReportMoves, SleepMoves DEF WaitAnyWakes, FinishedTasks, Minding
<1>7. CASE ExecuteEnds(o)
  <2>1. /\ owner[o] = "execute" /\ cur[o] \in Tasks /\ atp[cur[o]] = o
        /\ estatus[cur[o]] = "running" /\ \A w \in Threads : m_ptsk[w] # cur[o]
        /\ owner' = [owner EXCEPT ![o] = "idle"] /\ cur' = [cur EXCEPT ![o] = NoTask]
        /\ UNCHANGED <<fCancel, atp, m_qtsk, thread, m_ptsk>>
    BY <1>7 DEF ExecuteEnds, Goto, IInv, OwnersOK, Minding
  <2>2. PICK ets \in {"completed", "error"}, r \in BOOLEAN :
          /\ estatus' = [estatus EXCEPT ![cur[o]] = ets]
          /\ fReported' = [fReported EXCEPT ![cur[o]] = r]
    <3>1. fReported = [fReported EXCEPT ![cur[o]] = fReported[cur[o]]]
          /\ fReported[cur[o]] \in BOOLEAN
      BY <1>0, <2>1 DEF TaskTypeOK
    <3>. QED
      BY <1>7, <3>1 DEF ExecuteEnds, SetStatus
  <2>3. TaskTypeOK' /\ Listed' /\ ReportedOK'
    BY <1>0, <2>1, <2>2 DEF IInv, TaskTypeOK, Listed, ReportedOK, Statuses, OwnerPlaces
  <2>4. QueueOK' /\ WorkersOK'
    <3>1. \A t \in Tasks : t # cur[o] => estatus'[t] = estatus[t]
      BY <1>0, <2>2 DEF TaskTypeOK
    <3>2. \A i \in 1..Len(m_qtsk) : m_qtsk[i] \in Tasks /\ m_qtsk[i] # cur[o]
      BY <1>0, <2>1 DEF TaskTypeOK, IInv, QueueOK
    <3>3. QueueOK'
      BY <2>1, <3>1, <3>2 DEF IInv, QueueOK
    <3>. QED
      BY <2>1, <3>1, <3>3 DEF IInv, WorkersOK
  <2>5. OwnersOK' /\ NotLost'
    BY <1>0, <2>1, <2>2
    DEF IInv, TaskTypeOK, OwnersOK, NotLost, Queued, HeldBy, InHand, Live, Minding
  <2>. QED
    BY <2>3, <2>4, <2>5 DEF IInv
<1>8. CASE Delete(o)
  <2>1. /\ owner[o] = "delete" /\ cur[o] \in Tasks /\ atp[cur[o]] = o /\ ~Live(cur[o])
        /\ estatus' = [estatus EXCEPT ![cur[o]] = "deleted"]
        /\ atp' = [atp EXCEPT ![cur[o]] = NoTask]
        /\ owner' = [owner EXCEPT ![o] = "idle"] /\ cur' = [cur EXCEPT ![o] = NoTask]
        /\ UNCHANGED <<fCancel, fReported, m_qtsk, thread, m_ptsk>>
    BY <1>8 DEF Delete, SetStatus, Goto, IInv, OwnersOK, Minding
  <2>2. TaskTypeOK' /\ Listed' /\ ReportedOK'
    BY <1>0, <2>1, NoTaskAssumption
    DEF IInv, TaskTypeOK, Listed, ReportedOK, Statuses, OwnerPlaces
  <2>3. QueueOK' /\ WorkersOK'
    BY <1>0, <2>1 DEF IInv, TaskTypeOK, QueueOK, WorkersOK, Live
  <2>4. OwnersOK' /\ NotLost'
    BY <1>0, <2>1
    DEF IInv, TaskTypeOK, OwnersOK, NotLost, Queued, HeldBy, InHand, Live, Minding
  <2>. QED
    BY <2>2, <2>3, <2>4 DEF IInv
<1>9. CASE AtpRemoveRef(o)
  <2>1. /\ UNCHANGED <<taskVars, m_qtsk, thread, m_ptsk, cur>>
        /\ owner[o] = "idle" /\ owner' = [owner EXCEPT ![o] = "gone"]
    BY <1>9 DEF AtpRemoveRef, Goto
  <2>2. cur' = [cur EXCEPT ![o] = cur[o]] /\ ReportedOK'
    BY <1>0, <2>1 DEF TaskTypeOK, IInv, ReportedOK
  <2>. QED
    BY <1>0, <2>1, <2>2, OwnerMoves DEF TaskTypeOK, OwnerPlaces, Minding
<1>10. ASSUME NEW t \in Tasks, Destroy(o, t) PROVE IInv'
  BY <1>10, OwnerCallKeeps DEF OwnerCall
<1>. QED
  BY <1>1, <1>2, <1>3, <1>4, <1>5, <1>6, <1>7, <1>8, <1>9, <1>10 DEF OwnerStep

\* The main thread starts threads and changes limits.
LEMMA MainKeeps == IInv /\ MainStep => IInv'
<1>. SUFFICES ASSUME IInv, MainStep PROVE IInv'
  OBVIOUS
<1>. USE DEF idleMainVars, taskVars, ownerVars
<1>1. /\ UNCHANGED <<taskVars, m_qtsk, m_ptsk, owner, cur>>
      /\ fCancel \in [Tasks -> BOOLEAN]
  BY DEF IInv, TaskTypeOK, MainStep, SetWorkersMin, SetWorkersMax, LowerWorkersMax,
      SignalSurplus, Stop, Join
<1>2. /\ thread' \in [Threads -> ThreadPlaces]
      /\ \A w \in Threads : thread'[w] \in Busy <=> thread[w] \in Busy
  <2>1. CASE SetWorkersMin
    BY <2>1, StartsIdle DEF SetWorkersMin, IInv, TaskTypeOK
  <2>2. CASE Join
    BY <2>2 DEF Join, IInv, TaskTypeOK, ThreadPlaces, Busy
  <2>3. CASE SetWorkersMax \/ LowerWorkersMax \/ SignalSurplus \/ Stop
    BY <2>3 DEF SetWorkersMax, LowerWorkersMax, SignalSurplus, Stop, IInv, TaskTypeOK
  <2>. QED
    BY <2>1, <2>2, <2>3 DEF MainStep
<1>. QED
  BY <1>1, <1>2, TasksStay

\* The invariant is inductive.
LEMMA PoolNext == IInv /\ [Next]_vars => IInv'
<1>. SUFFICES ASSUME IInv, [Next]_vars PROVE IInv'
  OBVIOUS
<1>1. CASE UNCHANGED vars
  BY <1>1, TasksStay
  DEF vars, taskVars, threadVars, ownerVars, IInv, TaskTypeOK
<1>2. CASE Next
  BY <1>2, WorkerKeeps, OwnerStepKeeps, OwnerCallKeeps, MainKeeps DEF Next
<1>. QED
  BY <1>1, <1>2

-----------------------------------------------------------------------------
\* The event of an ATP is signalled for a reason: whoever awaits any task finds
\* one.
SignalsOK ==
    \A o \in Owners :
      /\ o \in signalled => Waiting(o)
      /\ o \in signalled /\ owner[o] \in {"waitAny", "timedWaitAny"} => FinishedTasks(o) # {}
      /\ owner[o] # "notFound"

\* A step of a thread or of the main program that signals no ATP.
LEMMA QuietStep ==
  ASSUME SignalsOK, UNCHANGED <<owner, signalled, atp, fReported>>,
         \A t \in Tasks : Finished(t) => Finished(t)'
  PROVE  SignalsOK'
  BY DEF SignalsOK, Waiting, FinishedTasks

\* A step of an owner that was not signalled, or no longer is.
LEMMA OwnerGoesOn ==
  ASSUME SignalsOK, NEW o \in Owners, o \notin signalled', owner'[o] # "notFound",
         \A p \in Owners \ {o} : owner'[p] = owner[p] /\ (p \in signalled' => p \in signalled),
         \A t \in Tasks, p \in Owners \ {o} :
            atp[t] = p => UNCHANGED <<atp[t], estatus[t], fReported[t]>>
  PROVE  SignalsOK'
  BY DEF SignalsOK, Waiting, FinishedTasks, Finished

\* At first nobody waits for a signal.
LEMMA SignalsInit == Init => SignalsOK
  BY DEF Init, SignalsOK

\* A worker signals the owner whose task it finishes.
LEMMA WorkerSignals ==
  ASSUME IInv, SignalsOK, NEW w \in Threads, WorkerStep(w) \/ RunEnds(w)
  PROVE  SignalsOK'
<1>. USE DEF taskVars, ownerVars, Finished
<1>0. TaskTypeOK
  BY DEF IInv
<1>1. CASE Dequeue(w)
  <2>1. Head(m_qtsk) \in Tasks /\ estatus[Head(m_qtsk)] = "queued"
    <3>1. m_qtsk # <<>> /\ m_qtsk \in Seq(Tasks)
      BY <1>0, <1>1 DEF Dequeue, TaskTypeOK
    <3>. QED
      BY <3>1, LenProperties, EmptySeq, HeadTailProperties DEF IInv, QueueOK
  <2>. QED
    BY <1>0, <1>1, <2>1, QuietStep DEF Dequeue, SetStatus, TaskTypeOK
<1>2. CASE WaitForTask(w) \/ WakeUp(w) \/ Leave(w) \/ Left(w) \/ SetFinished(w) \/ RunEnds(w)
  BY <1>2, QuietStep
  DEF WaitForTask, WakeUp, Leave, Left, SetFinished, RunEnds
<1>3. CASE Execute(w)
  <2>1. m_ptsk[w] \in Tasks /\ estatus[m_ptsk[w]] \in {"dequeued", "running"}
    BY <1>3 DEF Execute, IInv, WorkersOK, Busy
  <2>. QED
    BY <1>0, <1>3, <2>1, QuietStep DEF Execute, SetStatus, TaskTypeOK
<1>4. CASE SignalEnd(w)
  <2>. DEFINE t == m_ptsk[w]
  <2>1. t \in Tasks /\ estatus[t] \in {"dequeued", "running"} /\ ~fReported[t]
    BY <1>0, <1>4 DEF SignalEnd, IInv, WorkersOK, ReportedOK, Busy
  <2>2. /\ \E ets \in {"completed", "error"} : estatus' = [estatus EXCEPT ![t] = ets]
        /\ signalled' = signalled \union {o \in Owners : o = atp[t] /\ Waiting(o)}
        /\ UNCHANGED <<owner, atp, fReported>>
    BY <1>4 DEF SignalEnd, Signal, SetStatus
  <2>. HIDE DEF t
  <2>3. \A o \in Owners : FinishedTasks(o) # {} => FinishedTasks(o)' # {}
    BY <1>0, <2>1, <2>2 DEF FinishedTasks, TaskTypeOK
  <2>4. \A o \in Owners : o = atp[t] => FinishedTasks(o)' # {}
    BY <1>0, <2>1, <2>2 DEF FinishedTasks, TaskTypeOK
  <2>. QED
    BY <2>2, <2>3, <2>4 DEF SignalsOK, Waiting
<1>. QED
  BY <1>1, <1>2, <1>3, <1>4 DEF WorkerStep

\* An owner that goes to sleep has no finished task to wait for.
LEMMA OwnerSignals ==
  ASSUME IInv, SignalsOK, NEW o \in Owners, OwnerStep(o) \/ OwnerCall(o)
  PROVE  SignalsOK'
<1>. USE DEF taskVars, idleOwnerVars
<1>0. TaskTypeOK /\ (o \in signalled => Waiting(o))
  BY DEF IInv, SignalsOK
<1>1. owner[o] \in Minding => cur[o] \in Tasks /\ atp[cur[o]] = o
  BY DEF IInv, OwnersOK
<1>2. CASE \/ CheckIncrease(o) \/ CreateWorkerThread(o) \/ UndoIncrease(o)
           \/ CancelQueued(o) \/ AtpRemoveRef(o) \/ AbortSchedule(o) \/ Leaves(o)
  BY <1>0, <1>2, OwnerGoesOn
  DEF CheckIncrease, CreateWorkerThread, UndoIncrease, CancelQueued, AtpRemoveRef,
      AbortSchedule, Leaves, Returns, Goto, Waiting, TaskTypeOK
<1>3. CASE CancelSignal(o)
  <2>1. atp[cur[o]] = o /\ cur[o] \in Tasks /\ ~Waiting(o)
    BY <1>1, <1>3 DEF CancelSignal, Minding, Waiting
  <2>2. /\ \E place \in {"idle", "destroyWait"} : owner' = [owner EXCEPT ![o] = place]
        /\ estatus' = [estatus EXCEPT ![cur[o]] = "error"]
        /\ UNCHANGED <<atp, fReported>>
    BY <1>3 DEF CancelSignal, Signal, SetStatus, Returns, Goto
  <2>3. signalled' = signalled
    BY <1>3, <2>1 DEF CancelSignal, Signal
  <2>4. owner'[o] # "notFound" /\ \A p \in Owners \ {o} : owner'[p] = owner[p]
    BY <1>0, <2>2 DEF TaskTypeOK
  <2>5. \A t \in Tasks, p \in Owners \ {o} :
           atp[t] = p => UNCHANGED <<atp[t], estatus[t], fReported[t]>>
    BY <1>0, <2>1, <2>2 DEF TaskTypeOK
  <2>. QED
    BY <1>0, <2>1, <2>3, <2>4, <2>5, OwnerGoesOn
<1>4. ASSUME NEW t \in Tasks, NEW place \in {"wait", "timedWait"}, Wait(o, t, place)
      PROVE  SignalsOK'
  <2>1. atp[t] = o /\ ~Waiting(o)
    BY <1>1, <1>4 DEF Wait, Calls, Minding, Waiting
  <2>. QED
    BY <1>0, <1>4, <2>1, OwnerGoesOn DEF Wait, Report, Sleep, Goto, TaskTypeOK
<1>5. CASE WaitWakes(o)
  <2>1. atp[cur[o]] = o /\ cur[o] \in Tasks /\ owner[o] # "notFound"
    BY <1>1, <1>5 DEF WaitWakes, Minding
  <2>. QED
    BY <1>0, <1>5, <2>1, OwnerGoesOn DEF WaitWakes, Report, Sleep, Goto, TaskTypeOK
<1>6. CASE WaitAnyWakes(o)
  <2>1. FinishedTasks(o) # {}
    BY <1>6 DEF WaitAnyWakes, SignalsOK
  <2>2. PICK t \in FinishedTasks(o) : Report(o, t)
    BY <1>6, <2>1 DEF WaitAnyWakes
  <2>. QED
    <3>1. /\ t \in Tasks /\ atp[t] = o /\ UNCHANGED <<atp, estatus>>
          /\ \A u \in Tasks : u # t => fReported'[u] = fReported[u]
      BY <1>0, <1>6, <2>2 DEF WaitAnyWakes, FinishedTasks, Report, TaskTypeOK
    <3>2. /\ owner'[o] # "notFound" /\ o \notin signalled'
          /\ \A p \in Owners \ {o} : owner'[p] = owner[p] /\ (p \in signalled' => p \in signalled)
      BY <1>0, <1>6, <2>1, <2>2 DEF WaitAnyWakes, Report, Goto, TaskTypeOK
    <3>. QED
      BY <1>0, <3>1, <3>2, OwnerGoesOn
<1>7. ASSUME NEW place \in {"waitAny", "timedWaitAny"}, WaitAny(o, place) PROVE SignalsOK'
  BY <1>0, <1>7, OwnerGoesOn
  DEF WaitAny, FinishedTasks, Report, Sleep, Goto, Waiting, TaskTypeOK
<1>8. CASE TimesOut(o)
  BY <1>0, <1>1, <1>8, OwnerGoesOn
  DEF TimesOut, Report, Sleep, Goto, Minding, TaskTypeOK
<1>9. CASE ExecuteEnds(o) \/ Delete(o)
  <2>1. atp[cur[o]] = o /\ cur[o] \in Tasks /\ ~Waiting(o)
    BY <1>1, <1>9 DEF ExecuteEnds, Delete, Minding, Waiting
  <2>. QED
    BY <1>0, <1>9, <2>1, OwnerGoesOn
    DEF ExecuteEnds, Delete, SetStatus, Goto, TaskTypeOK
<1>10. ASSUME NEW t \in Tasks, Schedule(o, t) \/ Cancel(o, t) \/ ExecuteHere(o, t) \/ Destroy(o, t)
       PROVE  SignalsOK'
  <2>1. atp[t] = o /\ ~Waiting(o)
    BY <1>10 DEF Schedule, Cancel, ExecuteHere, Destroy, Calls, Waiting
  <2>. QED
    BY <1>0, <1>10, <2>1, OwnerGoesOn
    DEF Schedule, Cancel, ExecuteHere, Destroy, Calls, Mark, SetStatus, Goto, TaskTypeOK
<1>11. ASSUME NEW t \in Tasks, PtskCreate(o, t) PROVE SignalsOK'
  <2>1. atp[t] \notin Owners /\ ~Waiting(o)
    BY <1>11 DEF PtskCreate, Waiting, IInv, Listed
  <2>. QED
    BY <1>0, <1>11, <2>1, OwnerGoesOn DEF PtskCreate, SetStatus, ownerVars, TaskTypeOK
<1>. QED
  BY <1>1, <1>2, <1>3, <1>4, <1>5, <1>6, <1>7, <1>8, <1>9, <1>10, <1>11
  DEF OwnerStep, OwnerCall, Minding

\* Each step keeps the signals.
LEMMA SignalsNext == IInv /\ SignalsOK /\ [Next]_vars => SignalsOK'
<1>. SUFFICES ASSUME IInv, SignalsOK, [Next]_vars PROVE SignalsOK'
  OBVIOUS
<1>1. CASE UNCHANGED vars
  BY <1>1, QuietStep DEF vars, taskVars, ownerVars, Finished
<1>2. CASE MainStep
  BY <1>2, QuietStep
  DEF MainStep, SetWorkersMin, SetWorkersMax, LowerWorkersMax, SignalSurplus, Stop, Join,
      idleMainVars, taskVars, ownerVars, Finished
<1>. QED
  BY <1>1, <1>2, WorkerSignals, OwnerSignals DEF Next

-----------------------------------------------------------------------------
\* The invariant puts each task in one place.
LEMMA IInvImpliesOnePlace == IInv => OnePlace
<1>. SUFFICES ASSUME IInv, NEW t \in Tasks
              PROVE  IF Scheduled(t) /\ ~Finished(t)
                     THEN \E place \in Places(t) : Places(t) = {place}
                     ELSE Places(t) = {}
  BY DEF OnePlace
<1>0. Scheduled(t) /\ ~Finished(t) <=> Live(t)
  BY DEF Scheduled, Finished, Live
<1>1. DOMAIN m_qtsk = 1..Len(m_qtsk)
  BY LenProperties DEF IInv, TaskTypeOK
<1>2. /\ \A i \in 1..Len(m_qtsk) : m_qtsk[i] = t => estatus[t] = "queued"
      /\ \A w \in Threads : HeldBy(w, t) => estatus[t] \in {"dequeued", "running"}
      /\ \A o \in Owners : InHand(o, t) => estatus[t] \in {"queued", "running"}
  BY DEF IInv, QueueOK, WorkersOK, OwnersOK, HeldBy, InHand
<1>3. /\ \A i \in 1..Len(m_qtsk), w \in Threads : ~(m_qtsk[i] = t /\ HeldBy(w, t))
      /\ \A i \in 1..Len(m_qtsk), o \in Owners : ~(m_qtsk[i] = t /\ InHand(o, t))
      /\ \A w \in Threads, o \in Owners : ~(HeldBy(w, t) /\ InHand(o, t))
  BY DEF IInv, QueueOK, WorkersOK, OwnersOK, HeldBy, InHand, Queued
<1>. DEFINE inQueue == {i \in DOMAIN m_qtsk : m_qtsk[i] = t}
            holding == {w \in Threads : m_ptsk[w] = t}
            inHand == {o \in Owners : cur[o] = t /\ owner[o] \in {"cancelSignal", "execute"}}
<1>a. Places(t) = ({"queue"} \X inQueue) \union ({"worker"} \X holding)
                    \union ({"owner"} \X inHand)
  BY DEF Places
<1>b. /\ \A i : i \in inQueue <=> i \in 1..Len(m_qtsk) /\ m_qtsk[i] = t
      /\ \A w : w \in holding <=> w \in Threads /\ HeldBy(w, t)
      /\ \A o : o \in inHand <=> o \in Owners /\ InHand(o, t)
  BY <1>1 DEF HeldBy, InHand
<1>. HIDE DEF inQueue, holding, inHand
<1>c. \A S : S \X {} = {} /\ {} \X S = {}
  OBVIOUS
<1>d. \A x, y : {x} \X {y} = {<<x, y>>}
  OBVIOUS
<1>4. ASSUME ~Live(t) PROVE Places(t) = {}
  <2>1. inQueue = {} /\ holding = {} /\ inHand = {}
    BY <1>2, <1>4, <1>b DEF Live
  <2>. QED
    BY <1>a, <1>c, <2>1
<1>5. ASSUME NEW i \in 1..Len(m_qtsk), m_qtsk[i] = t
      PROVE  Places(t) = {<<"queue", i>>}
  <2>1. inQueue = {i} /\ holding = {} /\ inHand = {}
    <3>1. \A j \in 1..Len(m_qtsk) : m_qtsk[j] = t => j = i
      BY <1>5 DEF IInv, QueueOK
    <3>. QED
      BY <1>3, <1>5, <1>b, <3>1
  <2>. QED
    BY <1>a, <1>c, <1>d, <2>1
<1>6. ASSUME NEW w \in Threads, HeldBy(w, t)
      PROVE  Places(t) = {<<"worker", w>>}
  <2>1. inQueue = {} /\ holding = {w} /\ inHand = {}
    <3>1. \A v \in Threads : HeldBy(v, t) => v = w
      BY <1>6 DEF IInv, WorkersOK, HeldBy
    <3>. QED
      BY <1>3, <1>6, <1>b, <3>1
  <2>. QED
    BY <1>a, <1>c, <1>d, <2>1
<1>7. ASSUME NEW o \in Owners, InHand(o, t)
      PROVE  Places(t) = {<<"owner", o>>}
  <2>1. \A p \in Owners : InHand(p, t) => p = o
    BY <1>7 DEF IInv, OwnersOK, InHand, Minding
  <2>2. inQueue = {} /\ holding = {} /\ inHand = {o}
    BY <1>3, <1>7, <1>b, <2>1
  <2>. QED
    BY <1>a, <1>c, <1>d, <2>2
<1>8. ASSUME Live(t) PROVE \E place \in Places(t) : Places(t) = {place}
  BY <1>5, <1>6, <1>7, <1>8 DEF IInv, NotLost, Live, Queued
<1>. QED
  BY <1>0, <1>4, <1>8

\* The tasks keep their types, and threads, owners and the queue refer to tasks.
THEOREM TaskTyping == Spec => []TaskTypeOK
<1>1. IInv => TaskTypeOK
  BY DEF IInv
<1>. QED
  BY <1>1, PoolInit, PoolNext, PTL DEF Spec

\* A scheduled task that has not finished is in one place, any other in none:
\* Schedule, EsrTskNext, Cancel, Execute and Destroy lose no task, and nobody
\* gets at one that was deleted.
THEOREM TasksInOnePlace == Spec => []OnePlace
  BY IInvImpliesOnePlace, PoolInit, PoolNext, PTL DEF Spec

\* After its one wait WaitAny finds a finished task (GPOS_OK == eresFound): an
\* ATP is signalled only for a task of its own that has finished, and nobody
\* else reports or deletes that task.
THEOREM WaitAnyAlwaysFinds == Spec => []WaitAnyFinds
<1>1. SignalsOK => WaitAnyFinds
  BY DEF SignalsOK, WaitAnyFinds
<1>. QED
  BY <1>1, PoolInit, PoolNext, SignalsInit, SignalsNext, PTL DEF Spec
=============================================================================
