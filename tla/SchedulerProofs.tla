-------------------------- MODULE SchedulerProofs ---------------------------
(***************************************************************************)
(* Proofs about the scheduler, for any number of workers, jobs and queues: *)
(* it is well typed, reference counts are exact, no job is lost or         *)
(* executed twice at a time, a shared operation is performed once, and the *)
(* workers implement the job tree.                                         *)
(***************************************************************************)
EXTENDS Scheduler, FiniteSetTheorems, SequenceTheorems, TLAPS

\* Where a worker has a job, a job queue, a job to complete, one to schedule.
NoJobLabels ==
    {"outer", "retrieve", "leaving", "checkEmpty", "waiting", "exit", "failed"}
CompletionLabels == {"resumeParent", "decTotal", "release"}
ScheduleLabels == {"addTotal", "push", "incQueued", "increase", "signal"}

LocalOK(w) ==
    /\ pc[w] \notin NoJobLabels => pj[w] \in Jobs
    /\ pc[w] \in NoJobLabels \ {"failed"} => pj[w] = NoJob /\ pjq[w] = NoQueue
    /\ pc[w] \notin CompletionLabels \union ScheduleLabels \union {"failed"} => pjDone[w] = NoJob
    /\ pc[w] \notin ScheduleLabels \union {"failed"} => pjNext[w] = NoJob
    /\ pc[w] \in {"check", "add", "dropMain", "notify", "drain"} => pjq[w] \in Queues
    /\ pc[w] \in CompletionLabels => pjDone[w] \in Jobs
    /\ pc[w] \in ScheduleLabels => pjNext[w] \in Jobs
    /\ pc[w] # "failed" /\ pjDone[w] \notin {NoJob, pj[w]} => pjq[w] \in Queues

Typed == TypeOK /\ \A w \in Workers : LocalOK(w)

\* No step of one worker changes the locals of another.
SameLocals(v) ==
    /\ pc'[v] = pc[v] /\ pj'[v] = pj[v] /\ pjq'[v] = pjq[v]
    /\ pjDone'[v] = pjDone[v] /\ pjNext'[v] = pjNext[v] /\ fCompleted'[v] = fCompleted[v]

\* What holds of the locals of a worker holds until it moves.
LEMMA LocalFrame == ASSUME NEW v \in Workers, LocalOK(v), SameLocals(v) PROVE LocalOK(v)'
  BY DEF LocalOK, SameLocals

\* The first state is well typed.
LEMMA TypedInit == Init => Typed
<1>. SUFFICES ASSUME Init PROVE Typed
  OBVIOUS
<1>. USE DEF Init
<1>1. JobTypes
  BY QueuesAssumption DEF JobTypes, LowerQueues
<1>2. QueueTypes
  BY DEF QueueTypes
<1>3. CounterTypes
  BY BoundsAssumption DEF CounterTypes
<1>4. LocalTypes
  BY DEF LocalTypes, Labels
<1>5. JobEvent!TypeOK
  BY DEF JobEvent!Init, JobEvent!TypeOK
<1>6. \A w \in Workers : LocalOK(w)
  BY DEF LocalOK, NoJobLabels, CompletionLabels, ScheduleLabels
<1>7. forks = 0 /\ stages = 1 /\ cancelled = FALSE
  OBVIOUS
<1>. HIDE DEF Init
<1>. QED
  BY <1>1, <1>2, <1>3, <1>4, <1>5, <1>6, <1>7 DEF Typed, TypeOK

\* The counters are machine words.
LEMMA WordTypes == ASSUME NEW n \in 0..MaxUlong
                   PROVE Incr(n) \in 0..MaxUlong /\ Decr(n) \in 0..MaxUlong
  BY BoundsAssumption DEF Incr, Decr

\* The parts of a list that is not empty.
LEMMA HeadTail == ASSUME NEW S, NEW s \in Seq(S), s # <<>>
                  PROVE Head(s) \in S /\ Tail(s) \in Seq(S)
  OBVIOUS

\* Whatever is done to the event keeps its type.
LEMMA EventTypes ==
  ASSUME JobEvent!TypeOK
  PROVE /\ JobEvent!Signal => JobEvent!TypeOK'
        /\ JobEvent!Broadcast => JobEvent!TypeOK'
        /\ \A w \in Workers : /\ JobEvent!StartWait(w) => JobEvent!TypeOK'
                              /\ JobEvent!Wake(w) => JobEvent!TypeOK'
                              /\ JobEvent!GiveUp(w) => JobEvent!TypeOK'
        /\ UNCHANGED eventVars => JobEvent!TypeOK'
  BY DEF JobEvent!TypeOK, JobEvent!Signal, JobEvent!Broadcast, JobEvent!StartWait,
         JobEvent!Wake, JobEvent!GiveUp, JobEvent!Depart, JobEvent!eventVars, eventVars

\* What a step leaves alone keeps its types.
LEMMA TypesFrame ==
  /\ JobTypes /\ UNCHANGED jobVars => JobTypes'
  /\ QueueTypes /\ UNCHANGED queueVars => QueueTypes'
  /\ CounterTypes /\ UNCHANGED <<listWaiting, counterVars>> => CounterTypes'
  BY DEF JobTypes, QueueTypes, CounterTypes, jobVars, queueVars, counterVars

\* Each step keeps the types.
LEMMA TypedNext == Typed /\ [Next]_vars => Typed'
<1>. SUFFICES ASSUME Typed, [Next]_vars PROVE Typed'
  OBVIOUS
<1>. USE DEF Typed, TypeOK, Goto, jobVars, queueVars, counterVars, jobLocals, localVars, envVars
<1>w. ASSUME NEW w \in Workers, LocalOK(w)', \A v \in Workers \ {w} : SameLocals(v)
      PROVE \A v \in Workers : LocalOK(v)'
  BY <1>w, LocalFrame
<1>1. ASSUME NEW w \in Workers, IncTasksActive(w)
      PROVE Typed'
  <2>. USE <1>1 DEF IncTasksActive
  <2>0. LocalOK(w)
    OBVIOUS
  <2>1. JobTypes'
    BY TypesFrame
  <2>2. QueueTypes'
    BY TypesFrame
  <2>3. CounterTypes'
    BY <2>0, WordTypes DEF CounterTypes
  <2>4. LocalTypes'
    BY <2>0 DEF LocalTypes, Labels
  <2>5. JobEvent!TypeOK'
    BY EventTypes
  <2>6. LocalOK(w)'
    BY <2>0, NoJobAssumption, QueuesAssumption
    DEF LocalOK, LocalTypes, NoJobLabels, CompletionLabels, ScheduleLabels, NoQueue
  <2>7. \A v \in Workers \ {w} : SameLocals(v)
    BY DEF SameLocals, LocalTypes
  <2>8. (forks \in Nat /\ stages \in Nat /\ cancelled \in BOOLEAN)'
    OBVIOUS
  <2>. QED
    BY <1>w, <2>1, <2>2, <2>3, <2>4, <2>5, <2>6, <2>7, <2>8
<1>2. ASSUME NEW w \in Workers, Retrieve(w)
      PROVE Typed'
  <2>. USE <1>2 DEF Retrieve
  <2>0. LocalOK(w)
    OBVIOUS
  <2>a. Head(listWaiting) \in Jobs /\ Tail(listWaiting) \in Seq(Jobs)
    BY HeadTail DEF CounterTypes
  <2>1. JobTypes'
    BY TypesFrame
  <2>2. QueueTypes'
    BY TypesFrame
  <2>3. CounterTypes'
    BY <2>0, <2>a, WordTypes DEF CounterTypes
  <2>4. LocalTypes'
    BY <2>0, <2>a DEF LocalTypes, Labels
  <2>5. JobEvent!TypeOK'
    BY EventTypes
  <2>6. LocalOK(w)'
    BY <2>0, <2>a, NoJobAssumption, QueuesAssumption
    DEF LocalOK, LocalTypes, NoJobLabels, CompletionLabels, ScheduleLabels, NoQueue
  <2>7. \A v \in Workers \ {w} : SameLocals(v)
    BY DEF SameLocals, LocalTypes
  <2>8. (forks \in Nat /\ stages \in Nat /\ cancelled \in BOOLEAN)'
    OBVIOUS
  <2>. QED
    BY <1>w, <2>1, <2>2, <2>3, <2>4, <2>5, <2>6, <2>7, <2>8
<1>3. ASSUME NEW w \in Workers, DecQueued(w)
      PROVE Typed'
  <2>. USE <1>3 DEF DecQueued
  <2>0. LocalOK(w)
    OBVIOUS
  <2>1. JobTypes'
    BY TypesFrame
  <2>2. QueueTypes'
    BY TypesFrame
  <2>3. CounterTypes'
    BY <2>0, WordTypes DEF CounterTypes
  <2>4. LocalTypes'
    BY <2>0 DEF LocalTypes, Labels
  <2>5. JobEvent!TypeOK'
    BY EventTypes
  <2>6. LocalOK(w)'
    BY <2>0, NoJobAssumption, QueuesAssumption
    DEF LocalOK, LocalTypes, NoJobLabels, CompletionLabels, ScheduleLabels, NoQueue
  <2>7. \A v \in Workers \ {w} : SameLocals(v)
    BY DEF SameLocals, LocalTypes
  <2>8. (forks \in Nat /\ stages \in Nat /\ cancelled \in BOOLEAN)'
    OBVIOUS
  <2>. QED
    BY <1>w, <2>1, <2>2, <2>3, <2>4, <2>5, <2>6, <2>7, <2>8
<1>4. ASSUME NEW w \in Workers, RetrieveNothing(w)
      PROVE Typed'
  <2>. USE <1>4 DEF RetrieveNothing
  <2>0. LocalOK(w)
    OBVIOUS
  <2>1. JobTypes'
    BY TypesFrame
  <2>2. QueueTypes'
    BY TypesFrame
  <2>3. CounterTypes'
    BY TypesFrame
  <2>4. LocalTypes'
    BY <2>0 DEF LocalTypes, Labels
  <2>5. JobEvent!TypeOK'
    BY EventTypes
  <2>6. LocalOK(w)'
    BY <2>0, NoJobAssumption, QueuesAssumption
    DEF LocalOK, LocalTypes, NoJobLabels, CompletionLabels, ScheduleLabels, NoQueue
  <2>7. \A v \in Workers \ {w} : SameLocals(v)
    BY DEF SameLocals, LocalTypes
  <2>8. (forks \in Nat /\ stages \in Nat /\ cancelled \in BOOLEAN)'
    OBVIOUS
  <2>. QED
    BY <1>w, <2>1, <2>2, <2>3, <2>4, <2>5, <2>6, <2>7, <2>8
<1>5. ASSUME NEW w \in Workers, DecrTasksActive(w)
      PROVE Typed'
  <2>. USE <1>5 DEF DecrTasksActive
  <2>0. LocalOK(w)
    OBVIOUS
  <2>1. JobTypes'
    BY TypesFrame
  <2>2. QueueTypes'
    BY TypesFrame
  <2>3. CounterTypes'
    BY <2>0, WordTypes DEF CounterTypes
  <2>4. LocalTypes'
    BY <2>0 DEF LocalTypes, Labels
  <2>5. JobEvent!TypeOK'
    BY EventTypes
  <2>6. LocalOK(w)'
    BY <2>0, NoJobAssumption, QueuesAssumption
    DEF LocalOK, LocalTypes, NoJobLabels, CompletionLabels, ScheduleLabels, NoQueue
  <2>7. \A v \in Workers \ {w} : SameLocals(v)
    BY DEF SameLocals, LocalTypes
  <2>8. (forks \in Nat /\ stages \in Nat /\ cancelled \in BOOLEAN)'
    OBVIOUS
  <2>. QED
    BY <1>w, <2>1, <2>2, <2>3, <2>4, <2>5, <2>6, <2>7, <2>8
<1>6. ASSUME NEW w \in Workers, StopWhenEmpty(w)
      PROVE Typed'
  <2>. USE <1>6 DEF StopWhenEmpty
  <2>0. LocalOK(w)
    OBVIOUS
  <2>1. JobTypes'
    BY TypesFrame
  <2>2. QueueTypes'
    BY TypesFrame
  <2>3. CounterTypes'
    BY TypesFrame
  <2>4. LocalTypes'
    BY <2>0 DEF LocalTypes, Labels
  <2>5. JobEvent!TypeOK'
    BY EventTypes
  <2>6. LocalOK(w)'
    BY <2>0, NoJobAssumption, QueuesAssumption
    DEF LocalOK, LocalTypes, NoJobLabels, CompletionLabels, ScheduleLabels, NoQueue
  <2>7. \A v \in Workers \ {w} : SameLocals(v)
    BY DEF SameLocals, LocalTypes
  <2>8. (forks \in Nat /\ stages \in Nat /\ cancelled \in BOOLEAN)'
    OBVIOUS
  <2>. QED
    BY <1>w, <2>1, <2>2, <2>3, <2>4, <2>5, <2>6, <2>7, <2>8
<1>7. ASSUME NEW w \in Workers, WaitForWork(w)
      PROVE Typed'
  <2>. USE <1>7 DEF WaitForWork
  <2>0. LocalOK(w)
    OBVIOUS
  <2>1. JobTypes'
    BY TypesFrame
  <2>2. QueueTypes'
    BY TypesFrame
  <2>3. CounterTypes'
    BY TypesFrame
  <2>4. LocalTypes'
    BY <2>0 DEF LocalTypes, Labels
  <2>5. JobEvent!TypeOK'
    BY EventTypes
  <2>6. LocalOK(w)'
    BY <2>0, NoJobAssumption, QueuesAssumption
    DEF LocalOK, LocalTypes, NoJobLabels, CompletionLabels, ScheduleLabels, NoQueue
  <2>7. \A v \in Workers \ {w} : SameLocals(v)
    BY DEF SameLocals, LocalTypes
  <2>8. (forks \in Nat /\ stages \in Nat /\ cancelled \in BOOLEAN)'
    OBVIOUS
  <2>. QED
    BY <1>w, <2>1, <2>2, <2>3, <2>4, <2>5, <2>6, <2>7, <2>8
<1>8. ASSUME NEW w \in Workers, WakeUp(w)
      PROVE Typed'
  <2>. USE <1>8 DEF WakeUp
  <2>0. LocalOK(w)
    OBVIOUS
  <2>1. JobTypes'
    BY TypesFrame
  <2>2. QueueTypes'
    BY TypesFrame
  <2>3. CounterTypes'
    BY TypesFrame
  <2>4. LocalTypes'
    BY <2>0 DEF LocalTypes, Labels
  <2>5. JobEvent!TypeOK'
    BY EventTypes
  <2>6. LocalOK(w)'
    BY <2>0, NoJobAssumption, QueuesAssumption
    DEF LocalOK, LocalTypes, NoJobLabels, CompletionLabels, ScheduleLabels, NoQueue
  <2>7. \A v \in Workers \ {w} : SameLocals(v)
    BY DEF SameLocals, LocalTypes
  <2>8. (forks \in Nat /\ stages \in Nat /\ cancelled \in BOOLEAN)'
    OBVIOUS
  <2>. QED
    BY <1>w, <2>1, <2>2, <2>3, <2>4, <2>5, <2>6, <2>7, <2>8
<1>9. ASSUME NEW w \in Workers, PreExecute(w)
      PROVE Typed'
  <2>. USE <1>9 DEF PreExecute
  <2>0. LocalOK(w)
    OBVIOUS
  <2>a. pj[w] \in Jobs /\ jobQueue[pj[w]] \in Queues \union {NoQueue}
    BY <2>0 DEF LocalOK, NoJobLabels, JobTypes
  <2>b. refs[pj[w]] \in Int
    BY <2>a DEF JobTypes
  <2>1. JobTypes'
    BY <2>0, <2>a, <2>b DEF JobTypes
  <2>2. QueueTypes'
    BY TypesFrame
  <2>3. CounterTypes'
    BY <2>0, <2>a, <2>b, WordTypes DEF CounterTypes
  <2>4. LocalTypes'
    BY <2>0, <2>a, <2>b DEF LocalTypes, Labels
  <2>5. JobEvent!TypeOK'
    BY EventTypes
  <2>6. LocalOK(w)'
    BY <2>0, <2>a, <2>b, NoJobAssumption, QueuesAssumption
    DEF LocalOK, LocalTypes, NoJobLabels, CompletionLabels, ScheduleLabels, NoQueue
  <2>7. \A v \in Workers \ {w} : SameLocals(v)
    BY DEF SameLocals, LocalTypes
  <2>8. (forks \in Nat /\ stages \in Nat /\ cancelled \in BOOLEAN)'
    OBVIOUS
  <2>. QED
    BY <1>w, <2>1, <2>2, <2>3, <2>4, <2>5, <2>6, <2>7, <2>8
<1>10. ASSUME NEW w \in Workers, CheckCompleted(w)
      PROVE Typed'
  <2>. USE <1>10 DEF CheckCompleted
  <2>0. LocalOK(w)
    OBVIOUS
  <2>1. JobTypes'
    BY TypesFrame
  <2>2. QueueTypes'
    BY TypesFrame
  <2>3. CounterTypes'
    BY TypesFrame
  <2>4. LocalTypes'
    BY <2>0 DEF LocalTypes, Labels
  <2>5. JobEvent!TypeOK'
    BY EventTypes
  <2>6. LocalOK(w)'
    BY <2>0, NoJobAssumption, QueuesAssumption
    DEF LocalOK, LocalTypes, NoJobLabels, CompletionLabels, ScheduleLabels, NoQueue
  <2>7. \A v \in Workers \ {w} : SameLocals(v)
    BY DEF SameLocals, LocalTypes
  <2>8. (forks \in Nat /\ stages \in Nat /\ cancelled \in BOOLEAN)'
    OBVIOUS
  <2>. QED
    BY <1>w, <2>1, <2>2, <2>3, <2>4, <2>5, <2>6, <2>7, <2>8
<1>11. ASSUME NEW w \in Workers, EjqrAdd(w)
      PROVE Typed'
  <2>. USE <1>11 DEF EjqrAdd, AddAgain, AddFirst, AddQueued, AddTooLate
  <2>0. LocalOK(w)
    OBVIOUS
  <2>a. pj[w] \in Jobs /\ pjq[w] \in Queues
    BY <2>0 DEF LocalOK, NoJobLabels
  <2>b. refs[pj[w]] \in Int /\ listQueued[pjq[w]] \in Seq(Jobs)
    BY <2>a DEF JobTypes, QueueTypes
  <2>1. JobTypes'
    BY <2>0, <2>a, <2>b DEF JobTypes
  <2>2. QueueTypes'
    <3>1. Append(listQueued[pjq[w]], pj[w]) \in Seq(Jobs) /\ <<pj[w]>> \in Seq(Jobs)
      BY <2>a, <2>b
    <3>2. CASE AddAgain(w, pjq[w]) \/ AddTooLate(w, pjq[w])
      BY <3>2 DEF QueueTypes
    <3>3. CASE AddFirst(w, pjq[w])
      BY <2>a, <3>1, <3>3 DEF QueueTypes
    <3>4. CASE AddQueued(w, pjq[w])
      BY <2>a, <3>1, <3>4 DEF QueueTypes
    <3>. QED
      BY <3>2, <3>3, <3>4
  <2>3. CounterTypes'
    BY TypesFrame
  <2>4. LocalTypes'
    BY <2>0, <2>a, <2>b DEF LocalTypes, Labels
  <2>5. JobEvent!TypeOK'
    BY EventTypes
  <2>6. LocalOK(w)'
    BY <2>0, <2>a, <2>b, NoJobAssumption, QueuesAssumption
    DEF LocalOK, LocalTypes, NoJobLabels, CompletionLabels, ScheduleLabels, NoQueue
  <2>7. \A v \in Workers \ {w} : SameLocals(v)
    BY DEF SameLocals, LocalTypes
  <2>8. (forks \in Nat /\ stages \in Nat /\ cancelled \in BOOLEAN)'
    OBVIOUS
  <2>. QED
    BY <1>w, <2>1, <2>2, <2>3, <2>4, <2>5, <2>6, <2>7, <2>8
<1>12. ASSUME NEW w \in Workers, NEW c \in Jobs, NEW q \in Queues \union {NoQueue},
             Fork(w, c, q)
      PROVE Typed'
  <2>. USE <1>12 DEF Fork
  <2>0. LocalOK(w)
    OBVIOUS
  <2>a. pj[w] \in Jobs
    BY <2>0 DEF LocalOK, NoJobLabels
  <2>b. refs[pj[w]] \in Int
    BY <2>a DEF JobTypes
  <2>1. JobTypes'
    BY <2>0, <2>a, <2>b DEF JobTypes, LowerQueues
  <2>2. QueueTypes'
    BY TypesFrame
  <2>3. CounterTypes'
    BY TypesFrame
  <2>4. LocalTypes'
    BY <2>0, <2>a, <2>b DEF LocalTypes, Labels
  <2>5. JobEvent!TypeOK'
    BY EventTypes
  <2>6. LocalOK(w)'
    BY <2>0, <2>a, <2>b, NoJobAssumption, QueuesAssumption
    DEF LocalOK, LocalTypes, NoJobLabels, CompletionLabels, ScheduleLabels, NoQueue
  <2>7. \A v \in Workers \ {w} : SameLocals(v)
    BY DEF SameLocals, LocalTypes
  <2>8. (forks \in Nat /\ stages \in Nat /\ cancelled \in BOOLEAN)'
    OBVIOUS
  <2>. QED
    BY <1>w, <2>1, <2>2, <2>3, <2>4, <2>5, <2>6, <2>7, <2>8
<1>13. ASSUME NEW w \in Workers, AddTotal(w)
      PROVE Typed'
  <2>. USE <1>13 DEF AddTotal
  <2>0. LocalOK(w)
    OBVIOUS
  <2>1. JobTypes'
    BY TypesFrame
  <2>2. QueueTypes'
    BY TypesFrame
  <2>3. CounterTypes'
    BY <2>0, WordTypes DEF CounterTypes
  <2>4. LocalTypes'
    BY <2>0 DEF LocalTypes, Labels
  <2>5. JobEvent!TypeOK'
    BY EventTypes
  <2>6. LocalOK(w)'
    BY <2>0, NoJobAssumption, QueuesAssumption
    DEF LocalOK, LocalTypes, NoJobLabels, CompletionLabels, ScheduleLabels, NoQueue
  <2>7. \A v \in Workers \ {w} : SameLocals(v)
    BY DEF SameLocals, LocalTypes
  <2>8. (forks \in Nat /\ stages \in Nat /\ cancelled \in BOOLEAN)'
    OBVIOUS
  <2>. QED
    BY <1>w, <2>1, <2>2, <2>3, <2>4, <2>5, <2>6, <2>7, <2>8
<1>14. ASSUME NEW w \in Workers, RunCompletes(w)
      PROVE Typed'
  <2>. USE <1>14 DEF RunCompletes
  <2>0. LocalOK(w)
    OBVIOUS
  <2>1. JobTypes'
    BY TypesFrame
  <2>2. QueueTypes'
    BY TypesFrame
  <2>3. CounterTypes'
    BY TypesFrame
  <2>4. LocalTypes'
    BY <2>0 DEF LocalTypes, Labels
  <2>5. JobEvent!TypeOK'
    BY EventTypes
  <2>6. LocalOK(w)'
    BY <2>0, NoJobAssumption, QueuesAssumption
    DEF LocalOK, LocalTypes, NoJobLabels, CompletionLabels, ScheduleLabels, NoQueue
  <2>7. \A v \in Workers \ {w} : SameLocals(v)
    BY DEF SameLocals, LocalTypes
  <2>8. (forks \in Nat /\ stages \in Nat /\ cancelled \in BOOLEAN)'
    OBVIOUS
  <2>. QED
    BY <1>w, <2>1, <2>2, <2>3, <2>4, <2>5, <2>6, <2>7, <2>8
<1>15. ASSUME NEW w \in Workers, RunReturns(w)
      PROVE Typed'
  <2>. USE <1>15 DEF RunReturns
  <2>0. LocalOK(w)
    OBVIOUS
  <2>1. JobTypes'
    BY TypesFrame
  <2>2. QueueTypes'
    BY TypesFrame
  <2>3. CounterTypes'
    BY TypesFrame
  <2>4. LocalTypes'
    BY <2>0 DEF LocalTypes, Labels
  <2>5. JobEvent!TypeOK'
    BY EventTypes
  <2>6. LocalOK(w)'
    BY <2>0, NoJobAssumption, QueuesAssumption
    DEF LocalOK, LocalTypes, NoJobLabels, CompletionLabels, ScheduleLabels, NoQueue
  <2>7. \A v \in Workers \ {w} : SameLocals(v)
    BY DEF SameLocals, LocalTypes
  <2>8. (forks \in Nat /\ stages \in Nat /\ cancelled \in BOOLEAN)'
    OBVIOUS
  <2>. QED
    BY <1>w, <2>1, <2>2, <2>3, <2>4, <2>5, <2>6, <2>7, <2>8
<1>16. ASSUME NEW w \in Workers, DropMain(w)
      PROVE Typed'
  <2>. USE <1>16 DEF DropMain
  <2>0. LocalOK(w)
    OBVIOUS
  <2>a. pj[w] \in Jobs
    BY <2>0 DEF LocalOK, NoJobLabels
  <2>b. refs[pj[w]] \in Int
    BY <2>a DEF JobTypes
  <2>1. JobTypes'
    BY <2>0, <2>a, <2>b DEF JobTypes
  <2>2. QueueTypes'
    BY TypesFrame
  <2>3. CounterTypes'
    BY TypesFrame
  <2>4. LocalTypes'
    BY <2>0, <2>a, <2>b DEF LocalTypes, Labels
  <2>5. JobEvent!TypeOK'
    BY EventTypes
  <2>6. LocalOK(w)'
    BY <2>0, <2>a, <2>b, NoJobAssumption, QueuesAssumption
    DEF LocalOK, LocalTypes, NoJobLabels, CompletionLabels, ScheduleLabels, NoQueue
  <2>7. \A v \in Workers \ {w} : SameLocals(v)
    BY DEF SameLocals, LocalTypes
  <2>8. (forks \in Nat /\ stages \in Nat /\ cancelled \in BOOLEAN)'
    OBVIOUS
  <2>. QED
    BY <1>w, <2>1, <2>2, <2>3, <2>4, <2>5, <2>6, <2>7, <2>8
<1>17. ASSUME NEW w \in Workers, Push(w)
      PROVE Typed'
  <2>. USE <1>17 DEF Push
  <2>0. LocalOK(w)
    OBVIOUS
  <2>1. JobTypes'
    BY TypesFrame
  <2>2. QueueTypes'
    BY TypesFrame
  <2>3. CounterTypes'
    BY <2>0, WordTypes DEF CounterTypes, LocalOK, ScheduleLabels
  <2>4. LocalTypes'
    BY <2>0 DEF LocalTypes, Labels
  <2>5. JobEvent!TypeOK'
    BY EventTypes
  <2>6. LocalOK(w)'
    BY <2>0, NoJobAssumption, QueuesAssumption
    DEF LocalOK, LocalTypes, NoJobLabels, CompletionLabels, ScheduleLabels, NoQueue
  <2>7. \A v \in Workers \ {w} : SameLocals(v)
    BY DEF SameLocals, LocalTypes
  <2>8. (forks \in Nat /\ stages \in Nat /\ cancelled \in BOOLEAN)'
    OBVIOUS
  <2>. QED
    BY <1>w, <2>1, <2>2, <2>3, <2>4, <2>5, <2>6, <2>7, <2>8
<1>18. ASSUME NEW w \in Workers, IncQueued(w)
      PROVE Typed'
  <2>. USE <1>18 DEF IncQueued
  <2>0. LocalOK(w)
    OBVIOUS
  <2>1. JobTypes'
    BY TypesFrame
  <2>2. QueueTypes'
    BY TypesFrame
  <2>3. CounterTypes'
    BY <2>0, WordTypes DEF CounterTypes
  <2>4. LocalTypes'
    BY <2>0 DEF LocalTypes, Labels
  <2>5. JobEvent!TypeOK'
    BY EventTypes
  <2>6. LocalOK(w)'
    BY <2>0, NoJobAssumption, QueuesAssumption
    DEF LocalOK, LocalTypes, NoJobLabels, CompletionLabels, ScheduleLabels, NoQueue
  <2>7. \A v \in Workers \ {w} : SameLocals(v)
    BY DEF SameLocals, LocalTypes
  <2>8. (forks \in Nat /\ stages \in Nat /\ cancelled \in BOOLEAN)'
    OBVIOUS
  <2>. QED
    BY <1>w, <2>1, <2>2, <2>3, <2>4, <2>5, <2>6, <2>7, <2>8
<1>19. ASSUME NEW w \in Workers, NoIncrease(w)
      PROVE Typed'
  <2>. USE <1>19 DEF NoIncrease, ScheduleReturns, NextJob
  <2>0. LocalOK(w)
    OBVIOUS
  <2>1. JobTypes'
    BY TypesFrame
  <2>2. QueueTypes'
    BY TypesFrame
  <2>3. CounterTypes'
    BY TypesFrame
  <2>4. LocalTypes'
    BY <2>0 DEF LocalTypes, Labels
  <2>5. JobEvent!TypeOK'
    BY EventTypes
  <2>6. LocalOK(w)'
    BY <2>0, NoJobAssumption, QueuesAssumption
    DEF LocalOK, LocalTypes, NoJobLabels, CompletionLabels, ScheduleLabels, NoQueue
  <2>7. \A v \in Workers \ {w} : SameLocals(v)
    BY DEF SameLocals, LocalTypes
  <2>8. (forks \in Nat /\ stages \in Nat /\ cancelled \in BOOLEAN)'
    OBVIOUS
  <2>. QED
    BY <1>w, <2>1, <2>2, <2>3, <2>4, <2>5, <2>6, <2>7, <2>8
<1>20. ASSUME NEW w \in Workers, Increase(w)
      PROVE Typed'
  <2>. USE <1>20 DEF Increase
  <2>0. LocalOK(w)
    OBVIOUS
  <2>1. JobTypes'
    BY TypesFrame
  <2>2. QueueTypes'
    BY TypesFrame
  <2>3. CounterTypes'
    BY TypesFrame
  <2>4. LocalTypes'
    BY <2>0 DEF LocalTypes, Labels
  <2>5. JobEvent!TypeOK'
    BY EventTypes
  <2>6. LocalOK(w)'
    BY <2>0, NoJobAssumption, QueuesAssumption
    DEF LocalOK, LocalTypes, NoJobLabels, CompletionLabels, ScheduleLabels, NoQueue
  <2>7. \A v \in Workers \ {w} : SameLocals(v)
    BY DEF SameLocals, LocalTypes
  <2>8. (forks \in Nat /\ stages \in Nat /\ cancelled \in BOOLEAN)'
    OBVIOUS
  <2>. QED
    BY <1>w, <2>1, <2>2, <2>3, <2>4, <2>5, <2>6, <2>7, <2>8
<1>21. ASSUME NEW w \in Workers, SignalWorker(w)
      PROVE Typed'
  <2>. USE <1>21 DEF SignalWorker, ScheduleReturns, NextJob
  <2>0. LocalOK(w)
    OBVIOUS
  <2>1. JobTypes'
    BY TypesFrame
  <2>2. QueueTypes'
    BY TypesFrame
  <2>3. CounterTypes'
    BY TypesFrame
  <2>4. LocalTypes'
    BY <2>0 DEF LocalTypes, Labels
  <2>5. JobEvent!TypeOK'
    BY EventTypes
  <2>6. LocalOK(w)'
    BY <2>0, NoJobAssumption, QueuesAssumption
    DEF LocalOK, LocalTypes, NoJobLabels, CompletionLabels, ScheduleLabels, NoQueue
  <2>7. \A v \in Workers \ {w} : SameLocals(v)
    BY DEF SameLocals, LocalTypes
  <2>8. (forks \in Nat /\ stages \in Nat /\ cancelled \in BOOLEAN)'
    OBVIOUS
  <2>. QED
    BY <1>w, <2>1, <2>2, <2>3, <2>4, <2>5, <2>6, <2>7, <2>8
<1>22. ASSUME NEW w \in Workers, NotifyCompleted(w)
      PROVE Typed'
  <2>. USE <1>22 DEF NotifyCompleted
  <2>0. LocalOK(w)
    OBVIOUS
  <2>1. JobTypes'
    BY TypesFrame
  <2>2. QueueTypes'
    BY <2>0 DEF QueueTypes, LocalOK
  <2>3. CounterTypes'
    BY TypesFrame
  <2>4. LocalTypes'
    BY <2>0 DEF LocalTypes, Labels
  <2>5. JobEvent!TypeOK'
    BY EventTypes
  <2>6. LocalOK(w)'
    BY <2>0, NoJobAssumption, QueuesAssumption
    DEF LocalOK, LocalTypes, NoJobLabels, CompletionLabels, ScheduleLabels, NoQueue
  <2>7. \A v \in Workers \ {w} : SameLocals(v)
    BY DEF SameLocals, LocalTypes
  <2>8. (forks \in Nat /\ stages \in Nat /\ cancelled \in BOOLEAN)'
    OBVIOUS
  <2>. QED
    BY <1>w, <2>1, <2>2, <2>3, <2>4, <2>5, <2>6, <2>7, <2>8
<1>23. ASSUME NEW w \in Workers, DrainOne(w)
      PROVE Typed'
  <2>. USE <1>23 DEF DrainOne
  <2>0. LocalOK(w)
    OBVIOUS
  <2>a. pj[w] \in Jobs /\ pjq[w] \in Queues
    BY <2>0 DEF LocalOK, NoJobLabels
  <2>b. Head(listQueued[pjq[w]]) \in Jobs /\ Tail(listQueued[pjq[w]]) \in Seq(Jobs)
    BY <2>a, HeadTail DEF QueueTypes
  <2>c. refs[Head(listQueued[pjq[w]])] \in Int
    BY <2>b DEF JobTypes
  <2>1. JobTypes'
    BY <2>0, <2>a, <2>b, <2>c DEF JobTypes
  <2>2. QueueTypes'
    BY <2>0, <2>a, <2>b, <2>c DEF QueueTypes, LocalOK
  <2>3. CounterTypes'
    BY TypesFrame
  <2>4. LocalTypes'
    BY <2>0, <2>a, <2>b, <2>c DEF LocalTypes, Labels
  <2>5. JobEvent!TypeOK'
    BY EventTypes
  <2>6. LocalOK(w)'
    BY <2>0, <2>a, <2>b, <2>c, NoJobAssumption, QueuesAssumption
    DEF LocalOK, LocalTypes, NoJobLabels, CompletionLabels, ScheduleLabels, NoQueue
  <2>7. \A v \in Workers \ {w} : SameLocals(v)
    BY DEF SameLocals, LocalTypes
  <2>8. (forks \in Nat /\ stages \in Nat /\ cancelled \in BOOLEAN)'
    OBVIOUS
  <2>. QED
    BY <1>w, <2>1, <2>2, <2>3, <2>4, <2>5, <2>6, <2>7, <2>8
<1>24. ASSUME NEW w \in Workers, DrainEnds(w)
      PROVE Typed'
  <2>. USE <1>24 DEF DrainEnds
  <2>0. LocalOK(w)
    OBVIOUS
  <2>1. JobTypes'
    BY TypesFrame
  <2>2. QueueTypes'
    BY TypesFrame
  <2>3. CounterTypes'
    BY TypesFrame
  <2>4. LocalTypes'
    BY <2>0 DEF LocalTypes, Labels
  <2>5. JobEvent!TypeOK'
    BY EventTypes
  <2>6. LocalOK(w)'
    BY <2>0, NoJobAssumption, QueuesAssumption
    DEF LocalOK, LocalTypes, NoJobLabels, CompletionLabels, ScheduleLabels, NoQueue
  <2>7. \A v \in Workers \ {w} : SameLocals(v)
    BY DEF SameLocals, LocalTypes
  <2>8. (forks \in Nat /\ stages \in Nat /\ cancelled \in BOOLEAN)'
    OBVIOUS
  <2>. QED
    BY <1>w, <2>1, <2>2, <2>3, <2>4, <2>5, <2>6, <2>7, <2>8
<1>25. ASSUME NEW w \in Workers, PostCompleted(w)
      PROVE Typed'
  <2>. USE <1>25 DEF PostCompleted, PostExecute
  <2>0. LocalOK(w)
    OBVIOUS
  <2>a. pj[w] \in Jobs
    BY <2>0 DEF LocalOK, NoJobLabels
  <2>b. refs[pj[w]] \in Int
    BY <2>a DEF JobTypes
  <2>1. JobTypes'
    BY <2>0, <2>a, <2>b DEF JobTypes
  <2>2. QueueTypes'
    BY TypesFrame
  <2>3. CounterTypes'
    BY <2>0, <2>a, <2>b, WordTypes DEF CounterTypes
  <2>4. LocalTypes'
    BY <2>0, <2>a, <2>b DEF LocalTypes, Labels
  <2>5. JobEvent!TypeOK'
    BY EventTypes
  <2>6. LocalOK(w)'
    BY <2>0, <2>a, <2>b, NoJobAssumption, QueuesAssumption
    DEF LocalOK, LocalTypes, NoJobLabels, CompletionLabels, ScheduleLabels, NoQueue
  <2>7. \A v \in Workers \ {w} : SameLocals(v)
    BY DEF SameLocals, LocalTypes
  <2>8. (forks \in Nat /\ stages \in Nat /\ cancelled \in BOOLEAN)'
    OBVIOUS
  <2>. QED
    BY <1>w, <2>1, <2>2, <2>3, <2>4, <2>5, <2>6, <2>7, <2>8
<1>26. ASSUME NEW w \in Workers, PostRunnable(w)
      PROVE Typed'
  <2>. USE <1>26 DEF PostRunnable, PostExecute
  <2>0. LocalOK(w)
    OBVIOUS
  <2>a. pj[w] \in Jobs
    BY <2>0 DEF LocalOK, NoJobLabels
  <2>b. refs[pj[w]] \in Int
    BY <2>a DEF JobTypes
  <2>1. JobTypes'
    BY <2>0, <2>a, <2>b DEF JobTypes
  <2>2. QueueTypes'
    BY TypesFrame
  <2>3. CounterTypes'
    BY <2>0, <2>a, <2>b, WordTypes DEF CounterTypes
  <2>4. LocalTypes'
    BY <2>0, <2>a, <2>b DEF LocalTypes, Labels
  <2>5. JobEvent!TypeOK'
    BY EventTypes
  <2>6. LocalOK(w)'
    BY <2>0, <2>a, <2>b, NoJobAssumption, QueuesAssumption
    DEF LocalOK, LocalTypes, NoJobLabels, CompletionLabels, ScheduleLabels, NoQueue
  <2>7. \A v \in Workers \ {w} : SameLocals(v)
    BY DEF SameLocals, LocalTypes
  <2>8. (forks \in Nat /\ stages \in Nat /\ cancelled \in BOOLEAN)'
    OBVIOUS
  <2>. QED
    BY <1>w, <2>1, <2>2, <2>3, <2>4, <2>5, <2>6, <2>7, <2>8
<1>27. ASSUME NEW w \in Workers, PostSuspended(w)
      PROVE Typed'
  <2>. USE <1>27 DEF PostSuspended, PostExecute, NextJob
  <2>0. LocalOK(w)
    OBVIOUS
  <2>a. pj[w] \in Jobs
    BY <2>0 DEF LocalOK, NoJobLabels
  <2>b. refs[pj[w]] \in Int
    BY <2>a DEF JobTypes
  <2>1. JobTypes'
    BY <2>0, <2>a, <2>b DEF JobTypes
  <2>2. QueueTypes'
    BY TypesFrame
  <2>3. CounterTypes'
    BY <2>0, <2>a, <2>b, WordTypes DEF CounterTypes
  <2>4. LocalTypes'
    BY <2>0, <2>a, <2>b DEF LocalTypes, Labels
  <2>5. JobEvent!TypeOK'
    BY EventTypes
  <2>6. LocalOK(w)'
    BY <2>0, <2>a, <2>b, NoJobAssumption, QueuesAssumption
    DEF LocalOK, LocalTypes, NoJobLabels, CompletionLabels, ScheduleLabels, NoQueue
  <2>7. \A v \in Workers \ {w} : SameLocals(v)
    BY DEF SameLocals, LocalTypes
  <2>8. (forks \in Nat /\ stages \in Nat /\ cancelled \in BOOLEAN)'
    OBVIOUS
  <2>. QED
    BY <1>w, <2>1, <2>2, <2>3, <2>4, <2>5, <2>6, <2>7, <2>8
<1>28. ASSUME NEW w \in Workers, ResumeParent(w)
      PROVE Typed'
  <2>. USE <1>28 DEF ResumeParent
  <2>0. LocalOK(w)
    OBVIOUS
  <2>a. pjDone[w] \in Jobs /\ parent[pjDone[w]] \in Jobs \union {NoJob} /\ pj[w] \in Jobs
    BY <2>0 DEF LocalOK, NoJobLabels, CompletionLabels, JobTypes
  <2>b. parent[pjDone[w]] # NoJob => refs[parent[pjDone[w]]] \in Int
    BY <2>a DEF JobTypes
  <2>1. JobTypes'
    BY <2>0, <2>a, <2>b DEF JobTypes
  <2>2. QueueTypes'
    BY TypesFrame
  <2>3. CounterTypes'
    BY TypesFrame
  <2>4. LocalTypes'
    BY <2>0, <2>a, <2>b DEF LocalTypes, Labels
  <2>5. JobEvent!TypeOK'
    BY EventTypes
  <2>6. LocalOK(w)'
    BY <2>0, <2>a, <2>b, NoJobAssumption, QueuesAssumption
    DEF LocalOK, LocalTypes, NoJobLabels, CompletionLabels, ScheduleLabels, NoQueue
  <2>7. \A v \in Workers \ {w} : SameLocals(v)
    BY DEF SameLocals, LocalTypes
  <2>8. (forks \in Nat /\ stages \in Nat /\ cancelled \in BOOLEAN)'
    OBVIOUS
  <2>. QED
    BY <1>w, <2>1, <2>2, <2>3, <2>4, <2>5, <2>6, <2>7, <2>8
<1>29. ASSUME NEW w \in Workers, DecTotal(w)
      PROVE Typed'
  <2>. USE <1>29 DEF DecTotal
  <2>0. LocalOK(w)
    OBVIOUS
  <2>1. JobTypes'
    BY TypesFrame
  <2>2. QueueTypes'
    BY TypesFrame
  <2>3. CounterTypes'
    BY <2>0, WordTypes DEF CounterTypes
  <2>4. LocalTypes'
    BY <2>0 DEF LocalTypes, Labels
  <2>5. JobEvent!TypeOK'
    BY EventTypes
  <2>6. LocalOK(w)'
    BY <2>0, NoJobAssumption, QueuesAssumption
    DEF LocalOK, LocalTypes, NoJobLabels, CompletionLabels, ScheduleLabels, NoQueue
  <2>7. \A v \in Workers \ {w} : SameLocals(v)
    BY DEF SameLocals, LocalTypes
  <2>8. (forks \in Nat /\ stages \in Nat /\ cancelled \in BOOLEAN)'
    OBVIOUS
  <2>. QED
    BY <1>w, <2>1, <2>2, <2>3, <2>4, <2>5, <2>6, <2>7, <2>8
<1>30. ASSUME NEW w \in Workers, Release(w)
      PROVE Typed'
  <2>. USE <1>30 DEF Release, NextJob
  <2>0. LocalOK(w)
    OBVIOUS
  <2>a. pj[w] \in Jobs /\ pjDone[w] \in Jobs
    BY <2>0 DEF LocalOK, NoJobLabels, CompletionLabels
  <2>1. JobTypes'
    BY <2>0, <2>a DEF JobTypes
  <2>2. QueueTypes'
    BY TypesFrame
  <2>3. CounterTypes'
    BY TypesFrame
  <2>4. LocalTypes'
    BY <2>0, <2>a DEF LocalTypes, Labels
  <2>5. JobEvent!TypeOK'
    BY EventTypes
  <2>6. LocalOK(w)'
    BY <2>0, <2>a, NoJobAssumption, QueuesAssumption
    DEF LocalOK, LocalTypes, NoJobLabels, CompletionLabels, ScheduleLabels, NoQueue
  <2>7. \A v \in Workers \ {w} : SameLocals(v)
    BY DEF SameLocals, LocalTypes
  <2>8. (forks \in Nat /\ stages \in Nat /\ cancelled \in BOOLEAN)'
    OBVIOUS
  <2>. QED
    BY <1>w, <2>1, <2>2, <2>3, <2>4, <2>5, <2>6, <2>7, <2>8
<1>31. ASSUME NEW w \in Workers, AbortWaiting(w)
      PROVE Typed'
  <2>. USE <1>31 DEF AbortWaiting
  <2>0. LocalOK(w)
    OBVIOUS
  <2>1. JobTypes'
    BY TypesFrame
  <2>2. QueueTypes'
    BY TypesFrame
  <2>3. CounterTypes'
    BY TypesFrame
  <2>4. LocalTypes'
    BY <2>0 DEF LocalTypes, Labels
  <2>5. JobEvent!TypeOK'
    BY EventTypes
  <2>6. LocalOK(w)'
    BY <2>0, NoJobAssumption, QueuesAssumption
    DEF LocalOK, LocalTypes, NoJobLabels, CompletionLabels, ScheduleLabels, NoQueue
  <2>7. \A v \in Workers \ {w} : SameLocals(v)
    BY DEF SameLocals, LocalTypes
  <2>8. (forks \in Nat /\ stages \in Nat /\ cancelled \in BOOLEAN)'
    OBVIOUS
  <2>. QED
    BY <1>w, <2>1, <2>2, <2>3, <2>4, <2>5, <2>6, <2>7, <2>8
<1>32. ASSUME NEW w \in Workers, Raise(w)
      PROVE Typed'
  <2>. USE <1>32 DEF Raise
  <2>0. LocalOK(w)
    OBVIOUS
  <2>1. JobTypes'
    BY TypesFrame
  <2>2. QueueTypes'
    BY TypesFrame
  <2>3. CounterTypes'
    BY TypesFrame
  <2>4. LocalTypes'
    BY <2>0 DEF LocalTypes, Labels
  <2>5. JobEvent!TypeOK'
    BY EventTypes
  <2>6. LocalOK(w)'
    BY <2>0, NoJobAssumption, QueuesAssumption
    DEF LocalOK, LocalTypes, NoJobLabels, CompletionLabels, ScheduleLabels, NoQueue
  <2>7. \A v \in Workers \ {w} : SameLocals(v)
    BY DEF SameLocals, LocalTypes
  <2>8. (forks \in Nat /\ stages \in Nat /\ cancelled \in BOOLEAN)'
    OBVIOUS
  <2>. QED
    BY <1>w, <2>1, <2>2, <2>3, <2>4, <2>5, <2>6, <2>7, <2>8
<1>33. ASSUME NEW w \in Workers, AbortBetweenJobs(w)
      PROVE Typed'
  <2>. USE <1>33 DEF AbortBetweenJobs
  <2>0. LocalOK(w)
    OBVIOUS
  <2>1. JobTypes'
    BY TypesFrame
  <2>2. QueueTypes'
    BY TypesFrame
  <2>3. CounterTypes'
    BY TypesFrame
  <2>4. LocalTypes'
    BY <2>0 DEF LocalTypes, Labels
  <2>5. JobEvent!TypeOK'
    BY EventTypes
  <2>6. LocalOK(w)'
    BY <2>0, NoJobAssumption, QueuesAssumption
    DEF LocalOK, LocalTypes, NoJobLabels, CompletionLabels, ScheduleLabels, NoQueue
  <2>7. \A v \in Workers \ {w} : SameLocals(v)
    BY DEF SameLocals, LocalTypes
  <2>8. (forks \in Nat /\ stages \in Nat /\ cancelled \in BOOLEAN)'
    OBVIOUS
  <2>. QED
    BY <1>w, <2>1, <2>2, <2>3, <2>4, <2>5, <2>6, <2>7, <2>8
<1>34. CASE NextStage
  <2>. USE <1>34 DEF NextStage
  <2>1. JobTypes'
    BY DEF JobTypes, LowerQueues
  <2>2. QueueTypes'
    BY DEF QueueTypes
  <2>3. CounterTypes'
    BY WordTypes DEF CounterTypes
  <2>4. LocalTypes'
    BY DEF LocalTypes, Labels
  <2>5. JobEvent!TypeOK'
    BY EventTypes
  <2>6. \A w \in Workers : LocalOK(w)'
    BY DEF LocalOK, NoJobLabels, CompletionLabels, ScheduleLabels
  <2>. QED
    BY <2>1, <2>2, <2>3, <2>4, <2>5, <2>6
<1>35. CASE Cancel \/ UNCHANGED vars
  <2>. USE <1>35 DEF Cancel, vars
  <2>1. JobTypes' /\ QueueTypes' /\ CounterTypes' /\ LocalTypes'
    BY TypesFrame DEF LocalTypes
  <2>2. JobEvent!TypeOK'
    BY EventTypes
  <2>3. \A w \in Workers : LocalOK(w)'
    BY DEF LocalOK
  <2>. QED
    BY <2>1, <2>2, <2>3
<1>. QED
  BY <1>1, <1>2, <1>3, <1>4, <1>5, <1>6, <1>7, <1>8, <1>9, <1>10, <1>11, <1>12, <1>13, <1>14, <1>15, <1>16, <1>17, <1>18, <1>19, <1>20, <1>21, <1>22, <1>23, <1>24, <1>25, <1>26, <1>27, <1>28, <1>29, <1>30, <1>31, <1>32, <1>33, <1>34, <1>35 DEF Next, Step, Stopped

\* The state of the scheduler keeps its types: every pointer a worker follows is
\* a job or a queue, and the counters stay machine words.
THEOREM SchedulerTyping == Spec => []TypeOK
<1>1. Typed => TypeOK
  BY DEF Typed
<1>. QED
  BY <1>1, TypedInit, TypedNext, PTL DEF Spec

-----------------------------------------------------------------------------
(* What a worker does with jobs.                                           *)

\* It executes j ...
Runs(w, j) == pj[w] = j /\ Executes(w)

\* ... or has it in hand without a reference: to push, execute or complete it.
Holds(w, j) ==
    \/ pjNext[w] = j /\ pc[w] \in {"addTotal", "push", "failed"}
    \/ pj[w] = j /\ pc[w] \in {"dequeued", "preExecute"}
    \/ pjDone[w] = j /\ pc[w] = "resumeParent"

\* It executes a main job and completes the jobs queued behind it.
Draining(w) ==
    /\ Executes(w)
    /\ pc[w] = "drain" \/ pjDone[w] # NoJob

InQueue(j) == jobQueue[j] # NoQueue /\ InList(j, listQueued[jobQueue[j]])

Finished(j) == ~InQueue(j) /\ (jobQueue[j] # NoQueue => opCompleted[jobQueue[j]])

WorkerOK(w) ==
    /\ Executes(w) =>
         /\ pjq[w] = jobQueue[pj[w]]
         /\ fCompleted[w] => PendingChildren(pj[w]) = {}
         /\ pc[w] \in {"check", "add"} =>
              /\ fCompleted[w]
              /\ InQueue(pj[w]) => mainJob[pjq[w]] = pj[w]
         /\ pc[w] = "add" /\ mainJob[pjq[w]] = pj[w] => ~opCompleted[pjq[w]]
         /\ pc[w] = "post" /\ fCompleted[w] => Finished(pj[w])
         /\ pc[w] = "dropMain" => ~fCompleted[w]
         /\ pc[w] = "notify" \/ Draining(w) => fCompleted[w]
         /\ Draining(w) => pjq[w] # NoQueue
    /\ Performs(w) /\ pjq[w] # NoQueue =>
         /\ mainJob[pjq[w]] = pj[w]
         /\ opCompleted[pjq[w]] <=> Draining(w)
    /\ pc[w] = "resumeParent" => Finished(pjDone[w])
    /\ pc[w] = "addTotal" => pjDone[w] = NoJob /\ pjNext[w] # pj[w]
    /\ pjDone[w] \notin {NoJob, pj[w]} => pjNext[w] # pj[w]
    /\ pjDone[w] # NoJob /\ pc[w] # "resumeParent" => status[pjDone[w]] = "done"

-----------------------------------------------------------------------------
(* Where the jobs are.                                                     *)

Carried(j) == \E w \in Workers : Runs(w, j) \/ Holds(w, j)

Distinct(list) == \A i, k \in DOMAIN list : list[i] = list[k] => i = k

\* A waiting job has no reference, so no child, and is with no worker.
WaitingOK ==
    /\ Distinct(listWaiting)
    /\ \A j \in Jobs : InList(j, listWaiting) => status[j] = "pending" /\ refs[j] = 0 /\ ~Carried(j)

\* A job is with one worker at most; one that is not executed has no reference.
HandsOK ==
    /\ \A w \in Workers, j \in Jobs : Holds(w, j) => status[j] = "pending" /\ refs[j] = 0
    /\ \A w \in Workers, j \in Jobs : Runs(w, j) => status[j] = "pending" /\ ~Holds(w, j)
    /\ \A v, w \in Workers, j \in Jobs :
          (Runs(v, j) \/ Holds(v, j)) /\ (Runs(w, j) \/ Holds(w, j)) => v = w
    /\ \A v, w \in Workers : pjDone[v] = pjDone[w] /\ pjDone[w] # NoJob => v = w

SlotsOK ==
    \A j \in Jobs :
      /\ status[j] = "pending" /\ parent[j] # NoJob => status[parent[j]] = "pending"
      /\ status[j] = "free" => parent[j] = NoJob /\ jobQueue[j] = NoQueue /\ below[j] = {}
      /\ status[j] = "done" => \E w \in Workers : pjDone[w] = j

\* Jobs queue behind a main job that is in the list until the operation is
\* completed, and then with the worker that drains the list.
QueueOK(q) ==
    /\ Distinct(listQueued[q])
    /\ \A j \in Jobs : InList(j, listQueued[q]) => status[j] = "pending" /\ jobQueue[j] = q
    /\ listQueued[q] # <<>> =>
         /\ mainJob[q] \in Jobs /\ jobQueue[mainJob[q]] = q
         /\ ~opCompleted[q] => InList(mainJob[q], listQueued[q])
         /\ opCompleted[q] => \E w \in Workers : Runs(w, mainJob[q]) /\ Draining(w)
    /\ mainJob[q] # NoJob /\ ~opCompleted[q] => listQueued[q] # <<>>

QueuesOK == \A q \in Queues : QueueOK(q)

NotLost ==
    \A j \in Jobs :
      status[j] = "pending" /\ ~InList(j, listWaiting) /\ ~Carried(j) =>
        PendingChildren(j) # {} \/ (InQueue(j) /\ mainJob[jobQueue[j]] # j)

\* Those that ulpTotal counts.
Counted ==
    {j \in Jobs :
       \/ status[j] = "pending" /\ ~\E w \in Workers : pc[w] = "addTotal" /\ pjNext[w] = j
       \/ \E w \in Workers :
            pjDone[w] = j /\ pc[w] \in {"push", "incQueued", "increase", "signal", "decTotal", "failed"}}

TotalOK == ulpTotal = Cardinality(Counted)

WorkersOK == \A w \in Workers : WorkerOK(w)

Safe ==
    Typed /\ WorkersOK /\ WaitingOK /\ HandsOK /\ SlotsOK /\ QueuesOK /\ NotLost /\ RefsExact

IInv == Safe /\ TotalOK /\ ExitMeansDone

-----------------------------------------------------------------------------
(* Lists.                                                                  *)

\* Prepending a job (CSyncList::Push).
LEMMA ListPush ==
  ASSUME NEW S, NEW s \in Seq(S), NEW x \in S
  PROVE  /\ <<x>> \o s \in Seq(S)
         /\ \A j : InList(j, <<x>> \o s) <=> j = x \/ InList(j, s)
         /\ Distinct(s) /\ ~InList(x, s) => Distinct(<<x>> \o s)
<1>. DEFINE p == <<x>> \o s
<1>1. /\ p \in Seq(S) /\ Len(p) = Len(s) + 1 /\ Len(s) \in Nat
      /\ p[1] = x /\ \A i \in 1..Len(s) : p[i + 1] = s[i]
  OBVIOUS
<1>2. DOMAIN p = 1..(Len(s) + 1) /\ DOMAIN s = 1..Len(s)
  BY <1>1
<1>. HIDE DEF p
<1>3. \A j : InList(j, p) <=> j = x \/ InList(j, s)
  <2>1. ASSUME NEW j, InList(j, p) PROVE j = x \/ InList(j, s)
    <3>1. PICK i \in 1..(Len(s) + 1) : p[i] = j
      BY <1>2, <2>1 DEF InList
    <3>2. CASE i = 1
      BY <1>1, <3>1, <3>2
    <3>3. CASE i # 1
      <4>1. i - 1 \in 1..Len(s) /\ p[(i - 1) + 1] = s[i - 1] /\ (i - 1) + 1 = i
        BY <1>1, <3>1, <3>3
      <4>. QED
        BY <1>2, <3>1, <4>1 DEF InList
    <3>. QED
      BY <3>2, <3>3
  <2>2. ASSUME NEW j, InList(j, s) PROVE InList(j, p)
    <3>1. PICK i \in 1..Len(s) : s[i] = j
      BY <1>2, <2>2 DEF InList
    <3>2. i + 1 \in 1..(Len(s) + 1) /\ p[i + 1] = j
      BY <1>1, <3>1
    <3>. QED
      BY <1>2, <3>2 DEF InList
  <2>3. InList(x, p)
    BY <1>1, <1>2 DEF InList
  <2>. QED
    BY <2>1, <2>2, <2>3
<1>4. ASSUME Distinct(s), ~InList(x, s) PROVE Distinct(p)
  <2>. SUFFICES ASSUME NEW i \in 1..(Len(s) + 1), NEW k \in 1..(Len(s) + 1), p[i] = p[k]
                PROVE  i = k
    BY <1>2 DEF Distinct
  <2>1. \A n \in 1..(Len(s) + 1) : n # 1 =>
          n - 1 \in 1..Len(s) /\ p[n] = s[n - 1] /\ p[n] # x
    <3>. SUFFICES ASSUME NEW n \in 1..(Len(s) + 1), n # 1
                  PROVE  n - 1 \in 1..Len(s) /\ p[n] = s[n - 1] /\ p[n] # x
      OBVIOUS
    <3>1. n - 1 \in 1..Len(s) /\ (n - 1) + 1 = n /\ p[(n - 1) + 1] = s[n - 1]
      BY <1>1
    <3>. QED
      BY <1>2, <1>4, <3>1 DEF InList
  <2>2. i # 1 /\ k # 1 => i - 1 = k - 1
    BY <1>2, <1>4, <2>1 DEF Distinct
  <2>. QED
    BY <1>1, <2>1, <2>2
<1>. QED
  BY <1>1, <1>3, <1>4 DEF p

\* Taking the first job (CSyncList::Pop).
LEMMA ListPop ==
  ASSUME NEW S, NEW s \in Seq(S), s # <<>>, Distinct(s)
  PROVE  /\ Head(s) \in S /\ Tail(s) \in Seq(S) /\ InList(Head(s), s)
         /\ Distinct(Tail(s))
         /\ \A j : InList(j, Tail(s)) <=> InList(j, s) /\ j # Head(s)
<1>. DEFINE t == Tail(s)
<1>1. /\ Head(s) \in S /\ t \in Seq(S) /\ Len(t) = Len(s) - 1 /\ Len(s) \in Nat \ {0}
      /\ s[1] = Head(s) /\ \A i \in 1..(Len(s) - 1) : t[i] = s[i + 1]
  OBVIOUS
<1>2. DOMAIN t = 1..(Len(s) - 1) /\ DOMAIN s = 1..Len(s)
  BY <1>1
<1>. HIDE DEF t
<1>3. InList(Head(s), s)
  BY <1>1, <1>2 DEF InList
<1>4. Distinct(t)
  <2>. SUFFICES ASSUME NEW i \in 1..(Len(s) - 1), NEW k \in 1..(Len(s) - 1), t[i] = t[k]
                PROVE  i = k
    BY <1>2 DEF Distinct
  <2>1. s[i + 1] = s[k + 1] /\ i + 1 \in 1..Len(s) /\ k + 1 \in 1..Len(s)
    BY <1>1
  <2>2. i + 1 = k + 1
    BY <1>2, <2>1 DEF Distinct
  <2>. QED
    BY <2>2
<1>5. ASSUME NEW j, InList(j, t) PROVE InList(j, s) /\ j # Head(s)
  <2>1. PICK i \in 1..(Len(s) - 1) : t[i] = j
    BY <1>2, <1>5 DEF InList
  <2>2. i + 1 \in 1..Len(s) /\ s[i + 1] = j /\ i + 1 # 1 /\ 1 \in 1..Len(s)
    BY <1>1, <2>1
  <2>. QED
    BY <1>1, <1>2, <2>2 DEF InList, Distinct
<1>6. ASSUME NEW j, InList(j, s), j # Head(s) PROVE InList(j, t)
  <2>1. PICK i \in 1..Len(s) : s[i] = j
    BY <1>2, <1>6 DEF InList
  <2>2. i # 1 /\ i - 1 \in 1..(Len(s) - 1) /\ (i - 1) + 1 = i
    BY <1>1, <1>6, <2>1
  <2>3. t[i - 1] = j
    BY <1>1, <2>1, <2>2
  <2>. QED
    BY <1>2, <2>2, <2>3 DEF InList
<1>. QED
  BY <1>1, <1>3, <1>4, <1>5, <1>6 DEF t

\* Appending a job.
LEMMA ListAppend ==
  ASSUME NEW S, NEW s \in Seq(S), NEW x \in S
  PROVE  /\ Append(s, x) \in Seq(S) /\ Append(s, x) # <<>>
         /\ \A j : InList(j, Append(s, x)) <=> j = x \/ InList(j, s)
         /\ Distinct(s) /\ ~InList(x, s) => Distinct(Append(s, x))
<1>. DEFINE a == Append(s, x)
<1>1. /\ a \in Seq(S) /\ Len(a) = Len(s) + 1 /\ Len(s) \in Nat
      /\ a[Len(s) + 1] = x /\ \A i \in 1..Len(s) : a[i] = s[i]
  OBVIOUS
<1>2. DOMAIN a = 1..(Len(s) + 1) /\ DOMAIN s = 1..Len(s)
  BY <1>1
<1>. HIDE DEF a
<1>3. \A j : InList(j, a) <=> j = x \/ InList(j, s)
  BY <1>1, <1>2 DEF InList
<1>4. ASSUME Distinct(s), ~InList(x, s) PROVE Distinct(a)
  BY <1>1, <1>2, <1>4 DEF InList, Distinct
<1>. QED
  BY <1>1, <1>3, <1>4 DEF a

\* The empty list has no job.
LEMMA ListEmpty == \A j : ~InList(j, << >>)
  BY DEF InList

\* A list of one job.
LEMMA ListSingle == ASSUME NEW x PROVE Distinct(<<x>>) /\ \A j : InList(j, <<x>>) <=> j = x
  BY DEF InList, Distinct
-----------------------------------------------------------------------------
(* Frames.                                                                 *)

\* What a worker does with jobs depends on its own locals.
LEMMA SameView ==
  ASSUME NEW v \in Workers, SameLocals(v)
  PROVE  /\ Executes(v)' <=> Executes(v)
         /\ Performs(v)' <=> Performs(v)
         /\ Draining(v)' <=> Draining(v)
         /\ \A j : Runs(v, j)' <=> Runs(v, j)
         /\ \A j : Holds(v, j)' <=> Holds(v, j)
  BY DEF SameLocals, Executes, Performs, Draining, Runs, Holds

\* A step that keeps what WorkerOK says of the jobs of another worker.
LEMMA WorkerFrame ==
  ASSUME NEW v \in Workers, SameLocals(v), WorkerOK(v),
         Executes(v) =>
           /\ jobQueue'[pj[v]] = jobQueue[pj[v]]
           /\ PendingChildren(pj[v])' \subseteq PendingChildren(pj[v])
           /\ InQueue(pj[v])' => InQueue(pj[v])
           /\ Finished(pj[v]) => Finished(pj[v])',
         Executes(v) /\ pjq[v] # NoQueue =>
           /\ mainJob'[pjq[v]] = pj[v] <=> mainJob[pjq[v]] = pj[v]
           /\ mainJob[pjq[v]] = pj[v] => opCompleted'[pjq[v]] = opCompleted[pjq[v]],
         pc[v] = "resumeParent" => (Finished(pjDone[v]) => Finished(pjDone[v])'),
         status[pjDone[v]] = "done" => status'[pjDone[v]] = "done",
         pc[v] \in {"check", "add"} => pjq[v] # NoQueue
  PROVE  WorkerOK(v)'
<1>1. Executes(v)' <=> Executes(v)
  BY SameView
<1>2. Performs(v)' <=> Performs(v)
  BY SameView
<1>3. Draining(v)' <=> Draining(v)
  BY SameView
<1>. QED
  BY <1>1, <1>2, <1>3 DEF WorkerOK, SameLocals, Performs

\* The reference count of a job, as the number of its children and two flags.
Executed(j) == \E w \in Workers : Runs(w, j)

RefsOf(j) ==
    refs[j] = Cardinality(PendingChildren(j)) + (IF Executed(j) THEN 1 ELSE 0)
                + (IF HeldByQueue(j) THEN 1 ELSE 0)

\* RefsExact job by job.
LEMMA RefsUnfold == RefsExact <=> \A j \in Jobs : RefsOf(j)
  BY DEF RefsExact, RefsOf, Executed, Runs, One

\* The children of a job are finitely many, so counting them makes sense.
LEMMA ChildrenFinite ==
  ASSUME NEW j
  PROVE  /\ IsFiniteSet(PendingChildren(j)) /\ Cardinality(PendingChildren(j)) \in Nat
         /\ Cardinality(PendingChildren(j)) = 0 <=> PendingChildren(j) = {}
<1>1. IsFiniteSet(PendingChildren(j))
  BY FiniteAssumption, FS_Subset DEF PendingChildren
<1>. QED
  BY <1>1, FS_CardinalityType, FS_EmptySet

\* A job without references has no children, is not executed nor held.
LEMMA NoReferences ==
  ASSUME NEW j \in Jobs, RefsOf(j)
  PROVE  refs[j] = 0 <=> PendingChildren(j) = {} /\ ~Executed(j) /\ ~HeldByQueue(j)
  BY ChildrenFinite DEF RefsOf

\* A job that a queue refers to is with its worker or in the list.
LEMMA HeldInQueue ==
  ASSUME NEW j
  PROVE  HeldByQueue(j) <=>
           InQueue(j) /\ (mainJob[jobQueue[j]] = j => \E w \in Workers : Runs(w, j) /\ Performs(w))
  BY DEF HeldByQueue, InQueue, Runs, Performs

-----------------------------------------------------------------------------
(* Steps that move no job.                                                 *)

\* The worker goes on executing, but may stop performing an operation whose list
\* does not have its job, and stop draining a list that is empty.
LEMMA QuietStep ==
  ASSUME Safe, Typed', NEW w \in Workers,
         \A v \in Workers \ {w} : SameLocals(v),
         UNCHANGED <<jobVars, queueVars, listWaiting>>,
         \A j \in Jobs : Runs(w, j)' <=> Runs(w, j),
         \A j \in Jobs : Holds(w, j)' <=> Holds(w, j),
         Performs(w)' => Performs(w),
         Performs(w) /\ ~Performs(w)' => ~InQueue(pj[w]),
         Draining(w) /\ ~Draining(w)' => listQueued[pjq[w]] = <<>>,
         pjDone'[w] = pjDone[w], WorkerOK(w)'
  PROVE  Safe'
<1>. USE DEF jobVars, queueVars
<1>1. WorkersOK'
  <2>1. ASSUME NEW v \in Workers \ {w} PROVE WorkerOK(v)'
    <3>1. pc[v] \in {"check", "add"} => pjq[v] # NoQueue
      BY QueuesAssumption DEF Safe, Typed, LocalOK, NoQueue
    <3>2. PendingChildren(pj[v])' = PendingChildren(pj[v])
      BY <2>1 DEF PendingChildren, SameLocals
    <3>3. (InQueue(pj[v])' <=> InQueue(pj[v])) /\ (Finished(pj[v])' <=> Finished(pj[v]))
      BY <2>1 DEF InQueue, Finished, InList, SameLocals
    <3>4. Finished(pjDone[v])' <=> Finished(pjDone[v])
      BY <2>1 DEF InQueue, Finished, InList, SameLocals
    <3>. QED
      BY <2>1, <3>1, <3>2, <3>3, <3>4, WorkerFrame DEF Safe, WorkersOK
  <2>. QED
    BY <2>1 DEF WorkersOK
<1>2. /\ \A v \in Workers, j \in Jobs : Runs(v, j)' <=> Runs(v, j)
      /\ \A v \in Workers, j \in Jobs : Holds(v, j)' <=> Holds(v, j)
      /\ \A v \in Workers : pjDone'[v] = pjDone[v]
  BY SameView DEF SameLocals
<1>3. \A j \in Jobs : Carried(j)' <=> Carried(j)
  BY <1>2 DEF Carried
<1>4. WaitingOK'
  BY <1>3 DEF WaitingOK, Safe, Distinct, InList
<1>5. HandsOK'
  BY <1>2 DEF HandsOK, Safe
<1>6. SlotsOK'
  BY <1>2 DEF SlotsOK, Safe
<1>7. QueuesOK'
  <2>1. ASSUME NEW q \in Queues, listQueued[q] # <<>>, opCompleted[q]
        PROVE  \E v \in Workers : Runs(v, mainJob[q])' /\ Draining(v)'
    <3>1. PICK v \in Workers : Runs(v, mainJob[q]) /\ Draining(v)
      BY <2>1 DEF Safe, QueuesOK, QueueOK
    <3>2. mainJob[q] \in Jobs /\ Runs(v, mainJob[q])'
      BY <1>2, <2>1, <3>1 DEF Safe, QueuesOK, QueueOK
    <3>3. CASE v # w
      BY <3>1, <3>2, <3>3, SameView
    <3>4. CASE v = w
      <4>1. jobQueue[mainJob[q]] = q
        BY <2>1 DEF Safe, QueuesOK, QueueOK
      <4>2. pjq[w] = q
        BY <3>1, <3>4, <4>1 DEF Safe, WorkersOK, WorkerOK, Runs
      <4>. QED
        BY <2>1, <3>1, <3>2, <3>4, <4>2
    <3>. QED
      BY <3>3, <3>4
  <2>. QED
    BY <2>1 DEF QueuesOK, QueueOK, Safe, Distinct, InList
<1>8. NotLost'
  BY <1>3 DEF NotLost, Safe, PendingChildren, InQueue, InList
<1>9. RefsExact'
  <2>1. \A j \in Jobs : HeldByQueue(j)' <=> HeldByQueue(j)
    BY <1>2, SameView, HeldInQueue DEF HeldByQueue, InQueue, InList, Runs, Performs
  <2>2. \A j \in Jobs : (Executed(j)' <=> Executed(j)) /\ PendingChildren(j)' = PendingChildren(j)
    BY <1>2 DEF Executed, PendingChildren
  <2>. QED
    BY <2>1, <2>2, RefsUnfold DEF Safe, RefsOf, RefsExact, Executed, Runs, One
<1>. QED
  BY <1>1, <1>4, <1>5, <1>6, <1>7, <1>8, <1>9 DEF Safe

\* A worker that has no job before nor after.
LEMMA IdleStep ==
  ASSUME Safe, Typed', NEW w \in Workers, NEW label \in NoJobLabels, Goto(w, label),
         pc[w] \in NoJobLabels \ {"failed"},
         UNCHANGED <<jobVars, queueVars, listWaiting, jobLocals, pjDone, pjNext, fCompleted>>
  PROVE  Safe'
<1>. USE DEF Goto, jobLocals
<1>1. pj[w] = NoJob /\ pjDone[w] = NoJob /\ pjNext[w] = NoJob
  BY DEF Safe, Typed, LocalOK, NoJobLabels, CompletionLabels, ScheduleLabels
<1>2. pc' = [pc EXCEPT ![w] = label] /\ pc \in [Workers -> Labels]
  BY DEF Safe, Typed, TypeOK, LocalTypes
<1>3. \A v \in Workers \ {w} : SameLocals(v)
  BY <1>2 DEF SameLocals
<1>4. /\ ~Executes(w) /\ ~Executes(w)'
      /\ \A j \in Jobs : ~Holds(w, j) /\ ~Holds(w, j)'
  BY <1>1, <1>2, NoJobAssumption DEF Executes, Holds, NoJobLabels
<1>5. WorkerOK(w)'
  BY <1>1, <1>2, <1>4 DEF WorkerOK, Performs, NoJobLabels
<1>. QED
  BY <1>1, <1>3, <1>4, <1>5, QuietStep DEF Runs, Performs, Draining

\* A job that finds its operation completed is not in the queue.
LEMMA NotQueuedTwice ==
  ASSUME Safe, NEW w \in Workers, Executes(w), ~Draining(w), pj[w] \in Jobs,
         pjq[w] \in Queues, opCompleted[pjq[w]], mainJob[pjq[w]] = pj[w]
  PROVE  ~InQueue(pj[w])
<1>. SUFFICES ASSUME InQueue(pj[w]) PROVE FALSE
  OBVIOUS
<1>1. InList(pj[w], listQueued[pjq[w]])
  BY DEF Safe, WorkersOK, WorkerOK, InQueue
<1>2. PICK v \in Workers : Runs(v, pj[w]) /\ Draining(v)
  BY <1>1, ListEmpty DEF Safe, QueuesOK, QueueOK
<1>. QED
  BY <1>2 DEF Safe, HandsOK, Runs

\* The steps of Execute that move no job.
LEMMA QuietActions ==
  ASSUME Safe, Typed', NEW w \in Workers,
         \/ DecQueued(w) \/ CheckCompleted(w) \/ AddTotal(w) \/ RunCompletes(w) \/ RunReturns(w)
         \/ IncQueued(w) \/ Increase(w) \/ NoIncrease(w) \/ SignalWorker(w) \/ DecTotal(w)
         \/ Raise(w) \/ DrainEnds(w)
  PROVE  Safe'
<1>0. LocalOK(w) /\ LocalTypes /\ WorkerOK(w)
  BY DEF Safe, Typed, TypeOK, WorkersOK
<1>. USE NoJobAssumption, QueuesAssumption
     DEF Goto, jobLocals, ScheduleReturns, NextJob, LocalOK, LocalTypes, NoJobLabels,
         CompletionLabels, ScheduleLabels
<1>1. UNCHANGED <<jobVars, queueVars, listWaiting>> /\ \A v \in Workers \ {w} : SameLocals(v)
  BY <1>0
  DEF DecQueued, CheckCompleted, AddTotal, RunCompletes, RunReturns, IncQueued, Increase,
      NoIncrease, SignalWorker, DecTotal, Raise, DrainEnds, SameLocals
<1>2. /\ \A j \in Jobs : Runs(w, j)' <=> Runs(w, j)
      /\ \A j \in Jobs : Holds(w, j)' <=> Holds(w, j)
      /\ pjDone'[w] = pjDone[w]
  BY <1>0
  DEF DecQueued, CheckCompleted, AddTotal, RunCompletes, RunReturns, IncQueued, Increase,
      NoIncrease, SignalWorker, DecTotal, Raise, DrainEnds, Runs, Executes, Holds, WorkerOK
<1>3. /\ Performs(w)' => Performs(w)
      /\ Performs(w) /\ ~Performs(w)' => ~InQueue(pj[w])
      /\ Draining(w) /\ ~Draining(w)' => listQueued[pjq[w]] = <<>>
  BY <1>0, ListEmpty
  DEF DecQueued, CheckCompleted, AddTotal, RunCompletes, RunReturns, IncQueued, Increase,
      NoIncrease, SignalWorker, DecTotal, Raise, DrainEnds, Executes, Performs, Draining, WorkerOK,
      InQueue
<1>4. WorkerOK(w)'
  <2>1. /\ \A j : PendingChildren(j)' = PendingChildren(j)
        /\ \A j : (InQueue(j)' <=> InQueue(j)) /\ (Finished(j)' <=> Finished(j))
    BY <1>1 DEF PendingChildren, InQueue, Finished, InList, jobVars, queueVars
  <2>2. CASE CheckCompleted(w)
    BY <1>0, <1>1, <2>1, <2>2, NotQueuedTwice
    DEF CheckCompleted, Executes, Performs, Draining, WorkerOK, Finished, jobVars, queueVars
  <2>3. CASE DecQueued(w) \/ AddTotal(w) \/ IncQueued(w) \/ Increase(w) \/ DecTotal(w) \/ Raise(w)
    BY <1>0, <1>1, <2>1, <2>3
    DEF DecQueued, AddTotal, IncQueued, Increase, DecTotal, Raise, Executes, Performs, Draining,
        WorkerOK, jobVars, queueVars
  <2>5. CASE NoIncrease(w) \/ SignalWorker(w)
    BY <1>0, <1>1, <2>1, <2>5
    DEF NoIncrease, SignalWorker, Executes, Performs, Draining, WorkerOK, jobVars, queueVars
  <2>6. CASE RunCompletes(w) \/ RunReturns(w)
    BY <1>0, <1>1, <2>1, <2>6
    DEF RunCompletes, RunReturns, Executes, Performs, Draining, WorkerOK, Finished, InQueue,
        jobVars, queueVars
  <2>4. CASE DrainEnds(w)
    BY <1>0, <1>1, <2>1, <2>4, ListEmpty
    DEF DrainEnds, Executes, Performs, Draining, WorkerOK, Finished, InQueue, jobVars, queueVars
  <2>. QED
    BY <2>2, <2>3, <2>4, <2>5, <2>6
<1>. QED
  BY <1>1, <1>2, <1>3, <1>4, QuietStep

-----------------------------------------------------------------------------
(* Steps that move a job.                                                  *)

\* What a step of w that changes references, lists or locals does not disturb.
LEMMA SlotsStay ==
  ASSUME Safe, NEW w \in Workers, \A v \in Workers \ {w} : SameLocals(v),
         UNCHANGED <<parent, jobQueue, status, below, queueVars>>,
         Draining(w) => Draining(w)' /\ Executes(w)' /\ pj'[w] = pj[w],
         pjDone[w] = NoJob \/ pjDone'[w] = pjDone[w]
  PROVE  /\ \A v \in Workers \ {w} : WorkerOK(v)'
         /\ SlotsOK' /\ QueuesOK'
         /\ \A j : PendingChildren(j)' = PendingChildren(j)
         /\ \A j : (InQueue(j)' <=> InQueue(j)) /\ (Finished(j)' <=> Finished(j))
<1>. USE DEF queueVars
<1>1. /\ \A j : PendingChildren(j)' = PendingChildren(j)
      /\ \A j : (InQueue(j)' <=> InQueue(j)) /\ (Finished(j)' <=> Finished(j))
  BY DEF PendingChildren, InQueue, Finished, InList
<1>2. ASSUME NEW v \in Workers \ {w} PROVE WorkerOK(v)'
  <2>1. pc[v] \in {"check", "add"} => pjq[v] # NoQueue
    BY QueuesAssumption DEF Safe, Typed, LocalOK, NoQueue
  <2>2. PendingChildren(pj[v])' = PendingChildren(pj[v])
    BY <1>2 DEF PendingChildren, SameLocals
  <2>3. /\ (InQueue(pj[v])' <=> InQueue(pj[v])) /\ (Finished(pj[v])' <=> Finished(pj[v]))
        /\ Finished(pjDone[v])' <=> Finished(pjDone[v])
    BY <1>2 DEF InQueue, Finished, InList, SameLocals
  <2>. QED
    BY <1>2, <2>1, <2>2, <2>3, WorkerFrame DEF Safe, WorkersOK
<1>3. SlotsOK'
  <2>1. ASSUME NEW j \in Jobs, status[j] = "done" PROVE \E v \in Workers : pjDone'[v] = j
    <3>1. PICK v \in Workers : pjDone[v] = j
      BY <2>1 DEF Safe, SlotsOK
    <3>2. pjDone'[v] = j
      BY <3>1, NoJobAssumption DEF SameLocals
    <3>. QED
      BY <3>2
  <2>. QED
    BY <2>1 DEF Safe, SlotsOK
<1>4. QueuesOK'
  <2>1. ASSUME NEW q \in Queues, listQueued[q] # <<>>, opCompleted[q]
        PROVE  \E v \in Workers : Runs(v, mainJob[q])' /\ Draining(v)'
    <3>1. PICK v \in Workers : Runs(v, mainJob[q]) /\ Draining(v)
      BY <2>1 DEF Safe, QueuesOK, QueueOK
    <3>2. CASE v # w
      BY <3>1, <3>2, SameView DEF Runs, SameLocals
    <3>3. CASE v = w
      BY <3>1, <3>3 DEF Runs
    <3>. QED
      BY <3>2, <3>3
  <2>. QED
    BY <2>1 DEF QueuesOK, QueueOK, Safe, Distinct, InList
<1>. QED
  BY <1>1, <1>2, <1>3, <1>4

\* Who else carries jobs, and how, is the same after a step of w.
LEMMA OthersSame ==
  ASSUME NEW w \in Workers, \A v \in Workers \ {w} : SameLocals(v)
  PROVE  \A v \in Workers \ {w} :
           /\ pjDone'[v] = pjDone[v] /\ pc'[v] = pc[v]
           /\ Performs(v)' <=> Performs(v)
           /\ Draining(v)' <=> Draining(v)
           /\ \A j : (Runs(v, j)' <=> Runs(v, j)) /\ (Holds(v, j)' <=> Holds(v, j))
  BY SameView DEF SameLocals

\* The counts of jobs whose children stay the same.
LEMMA RefsStay ==
  ASSUME Safe,
         \A j \in Jobs :
            \/ /\ refs'[j] = refs[j] /\ PendingChildren(j)' = PendingChildren(j)
               /\ Executed(j)' <=> Executed(j)
               /\ HeldByQueue(j)' <=> HeldByQueue(j)
            \/ RefsOf(j)'
  PROVE  RefsExact'
<1>1. \A j \in Jobs : RefsOf(j)'
  BY RefsUnfold DEF Safe, RefsOf
<1>. QED
  BY <1>1 DEF RefsExact, RefsOf, Executed, Runs, One

\* A queue holds the same jobs while its lists are the same and the performers too.
LEMMA HeldStays ==
  ASSUME NEW w \in Workers, \A v \in Workers \ {w} : SameLocals(v),
         UNCHANGED <<jobQueue, queueVars>>, NEW j,
         Runs(w, j)' /\ Performs(w)' <=> Runs(w, j) /\ Performs(w)
  PROVE  HeldByQueue(j)' <=> HeldByQueue(j)
  BY OthersSame DEF HeldByQueue, InQueue, InList, Runs, Performs, queueVars

\* CScheduler::PjRetrieve takes a job off the waiting list.
LEMMA RetrieveKeeps == ASSUME Safe, Typed', NEW w \in Workers, Retrieve(w) PROVE Safe'
<1>. USE NoJobAssumption DEF Retrieve, Goto
<1>0. LocalOK(w) /\ LocalTypes /\ listWaiting \in Seq(Jobs)
  BY DEF Safe, Typed, TypeOK, CounterTypes
<1>. DEFINE j == Head(listWaiting)
<1>1. /\ j \in Jobs /\ InList(j, listWaiting)
      /\ Distinct(listWaiting') /\ \A k : InList(k, listWaiting') <=> InList(k, listWaiting) /\ k # j
  BY <1>0, ListPop DEF Safe, WaitingOK
<1>2. status[j] = "pending" /\ refs[j] = 0 /\ ~Carried(j)
  BY <1>1 DEF Safe, WaitingOK
<1>3. \A v \in Workers \ {w} : SameLocals(v)
  BY <1>0 DEF LocalTypes, SameLocals
<1>4. /\ ~Executes(w) /\ ~Executes(w)'
      /\ \A k \in Jobs : ~Holds(w, k) /\ (Holds(w, k)' <=> k = j)
      /\ pjDone[w] = NoJob /\ pjDone'[w] = NoJob
  BY <1>0, <1>1
  DEF LocalOK, LocalTypes, NoJobLabels, CompletionLabels, ScheduleLabels, Executes, Holds
<1>5. WorkerOK(w)'
  BY <1>0, <1>1, <1>4 DEF WorkerOK, Performs, Draining, LocalTypes
<1>. HIDE DEF j
<1>6. UNCHANGED <<refs, parent, jobQueue, status, below, queueVars>>
  BY DEF jobVars
<1>7. (\A v \in Workers \ {w} : WorkerOK(v)') /\ SlotsOK' /\ QueuesOK'
      /\ (\A k : PendingChildren(k)' = PendingChildren(k)) /\ (\A k : InQueue(k)' <=> InQueue(k))
  BY <1>3, <1>4, <1>6, SlotsStay DEF Draining
<1>8. \A k \in Jobs : Carried(k)' <=> Carried(k) \/ k = j
  BY <1>3, <1>4, OthersSame DEF Carried, Runs
<1>9. WaitingOK'
  BY <1>1, <1>6, <1>8 DEF Safe, WaitingOK
<1>10. HandsOK'
  BY <1>2, <1>3, <1>4, <1>6, OthersSame DEF Safe, HandsOK, Carried, Runs
<1>11. NotLost'
  BY <1>1, <1>6, <1>7, <1>8 DEF Safe, NotLost, queueVars
<1>12. RefsExact'
  <2>1. \A k \in Jobs : (Executed(k)' <=> Executed(k)) /\ (HeldByQueue(k)' <=> HeldByQueue(k))
    BY <1>3, <1>4, <1>6, OthersSame, HeldStays DEF Executed, Runs
  <2>. QED
    BY <1>6, <1>7, <2>1, RefsStay
<1>. QED
  BY <1>5, <1>7, <1>9, <1>10, <1>11, <1>12 DEF Safe, WorkersOK

\* CScheduler::Schedule puts a job on the waiting list.
LEMMA PushKeeps == ASSUME Safe, Typed', NEW w \in Workers, Push(w) PROVE Safe'
<1>. USE NoJobAssumption DEF Push, Goto, jobLocals
<1>. DEFINE j == pjNext[w]
<1>0. LocalOK(w) /\ LocalTypes /\ WorkerOK(w) /\ listWaiting \in Seq(Jobs)
  BY DEF Safe, Typed, TypeOK, CounterTypes, WorkersOK
<1>1. /\ j \in Jobs /\ Holds(w, j) /\ \A k \in Jobs : Holds(w, k)' <=> FALSE
      /\ \A k \in Jobs : Holds(w, k) => k = j
      /\ \A k \in Jobs : Runs(w, k)' <=> Runs(w, k)
      /\ (Performs(w)' <=> Performs(w)) /\ (Draining(w)' <=> Draining(w))
      /\ (Executes(w)' <=> Executes(w)) /\ pjDone'[w] = pjDone[w] /\ pj'[w] = pj[w]
  BY <1>0
  DEF LocalOK, LocalTypes, NoJobLabels, CompletionLabels, ScheduleLabels, Executes, Holds, Runs,
      Performs, Draining
<1>2. /\ \A v \in Workers \ {w} : SameLocals(v)
      /\ UNCHANGED <<refs, parent, jobQueue, status, below, queueVars>>
  BY <1>0 DEF LocalTypes, SameLocals, jobVars
<1>3. /\ status[j] = "pending" /\ refs[j] = 0 /\ ~InList(j, listWaiting)
      /\ \A v \in Workers : ~Runs(v, j) /\ (v # w => ~Holds(v, j))
  BY <1>1 DEF Safe, HandsOK, WaitingOK, Carried
<1>4. /\ Distinct(listWaiting')
      /\ \A k : InList(k, listWaiting') <=> k = j \/ InList(k, listWaiting)
  BY <1>0, <1>1, <1>3, ListPush DEF Safe, WaitingOK
<1>12. Draining(w) => Draining(w)' /\ Executes(w)' /\ pj'[w] = pj[w]
  BY <1>1 DEF Draining
<1>. HIDE DEF Push
<1>5. (\A v \in Workers \ {w} : WorkerOK(v)') /\ SlotsOK' /\ QueuesOK'
      /\ (\A k : PendingChildren(k)' = PendingChildren(k))
      /\ (\A k : (InQueue(k)' <=> InQueue(k)) /\ (Finished(k)' <=> Finished(k)))
  BY <1>1, <1>2, <1>12, SlotsStay
<1>6. WorkerOK(w)'
  BY <1>0, <1>1, <1>2, <1>5 DEF Push, WorkerOK, LocalTypes, queueVars
<1>. HIDE DEF j
<1>7. \A k \in Jobs : Carried(k)' <=> Carried(k) /\ k # j
  BY <1>1, <1>2, <1>3, OthersSame DEF Carried
<1>8. WaitingOK'
  BY <1>2, <1>3, <1>4, <1>7 DEF Safe, WaitingOK
<1>9. HandsOK'
  BY <1>1, <1>2, OthersSame DEF Safe, HandsOK
<1>10. NotLost'
  BY <1>2, <1>4, <1>5, <1>7 DEF Safe, NotLost, queueVars
<1>11. RefsExact'
  <2>1. \A k \in Jobs : (Executed(k)' <=> Executed(k)) /\ (HeldByQueue(k)' <=> HeldByQueue(k))
    BY <1>1, <1>2, OthersSame, HeldStays DEF Executed
  <2>. QED
    BY <1>2, <1>5, <2>1, RefsStay
<1>. QED
  BY <1>5, <1>6, <1>8, <1>9, <1>10, <1>11 DEF Safe, WorkersOK

\* CScheduler::PreExecute gives the worker its reference.
LEMMA PreExecuteKeeps == ASSUME Safe, Typed', NEW w \in Workers, PreExecute(w) PROVE Safe'
<1>. USE NoJobAssumption, QueuesAssumption DEF PreExecute, Goto
<1>0. LocalOK(w) /\ LocalTypes /\ JobTypes
  BY DEF Safe, Typed, TypeOK
<1>j. PICK j \in Jobs : pj[w] = j
  BY <1>0 DEF LocalOK, LocalTypes, NoJobLabels, CompletionLabels, ScheduleLabels
<1>1. /\ Holds(w, j) /\ ~Executes(w) /\ Executes(w)' /\ Runs(w, j)'
      /\ \A k \in Jobs : ~Runs(w, k) /\ (Runs(w, k)' => k = j)
      /\ \A k \in Jobs : (Holds(w, k) => k = j) /\ ~Holds(w, k)'
      /\ pjDone[w] = NoJob /\ pjDone'[w] = NoJob /\ ~Draining(w) /\ ~Performs(w)
      /\ Performs(w)' => jobQueue[j] = NoQueue
  BY <1>0, <1>j
  DEF LocalOK, LocalTypes, NoJobLabels, CompletionLabels, ScheduleLabels, Executes, Holds, Runs,
      Performs, Draining
<1>2. /\ \A v \in Workers \ {w} : SameLocals(v)
      /\ UNCHANGED <<parent, jobQueue, status, below, queueVars, listWaiting>>
  BY <1>0 DEF LocalTypes, SameLocals
<1>3. /\ status[j] = "pending" /\ refs[j] = 0 /\ ~InList(j, listWaiting)
      /\ \A v \in Workers : ~Runs(v, j) /\ (v # w => ~Holds(v, j))
  BY <1>1 DEF Safe, HandsOK, WaitingOK, Carried
<1>4. refs'[j] = 1 /\ \A k \in Jobs \ {j} : refs'[k] = refs[k]
  BY <1>0, <1>j, <1>1, <1>3 DEF JobTypes
<1>5. (\A v \in Workers \ {w} : WorkerOK(v)') /\ SlotsOK' /\ QueuesOK'
      /\ (\A k : PendingChildren(k)' = PendingChildren(k))
      /\ (\A k : (InQueue(k)' <=> InQueue(k)) /\ (Finished(k)' <=> Finished(k)))
  BY <1>1, <1>2, SlotsStay
<1>6. PendingChildren(j) = {} /\ ~Executed(j) /\ ~HeldByQueue(j)
  BY <1>1, <1>3, NoReferences, RefsUnfold DEF Safe
<1>7. InQueue(j) => mainJob[jobQueue[j]] = j
  BY <1>6, HeldInQueue
<1>8. WorkerOK(w)'
  <2>1. /\ pj'[w] = j /\ pjq'[w] = jobQueue[j] /\ fCompleted'[w] = TRUE /\ pjNext'[w] = NoJob
        /\ pc'[w] = IF jobQueue[j] = NoQueue THEN "run" ELSE "check"
    BY <1>0, <1>j, <1>1 DEF LocalTypes, LocalOK, NoJobLabels, CompletionLabels, ScheduleLabels
  <2>. QED
    BY <1>1, <1>2, <1>5, <1>6, <1>7, <2>1 DEF WorkerOK, Performs, Draining, queueVars
<1>9. \A k \in Jobs : Carried(k)' <=> Carried(k)
  <2>1. \A k \in Jobs : (Runs(w, k)' \/ Holds(w, k)') <=> (Runs(w, k) \/ Holds(w, k))
    BY <1>1
  <2>. HIDE DEF PreExecute, Goto
  <2>. QED
    BY <1>2, <2>1, OthersSame DEF Carried
<1>10. WaitingOK'
  BY <1>2, <1>3, <1>4, <1>9 DEF Safe, WaitingOK
<1>11. HandsOK'
  BY <1>1, <1>2, <1>3, <1>4, OthersSame DEF Safe, HandsOK
<1>12. NotLost'
  BY <1>2, <1>5, <1>9 DEF Safe, NotLost, queueVars
<1>13. RefsExact'
  <2>1. \A k \in Jobs \ {j} : (Executed(k)' <=> Executed(k)) /\ (HeldByQueue(k)' <=> HeldByQueue(k))
    BY <1>1, <1>2, OthersSame, HeldStays DEF Executed
  <2>2. Executed(j)' /\ ~HeldByQueue(j)'
    <3>1. CASE jobQueue[j] = NoQueue
      BY <1>1, <1>2, <3>1 DEF Executed, HeldByQueue
    <3>2. CASE jobQueue[j] # NoQueue
      <4>1. Runs(w, j)' /\ Performs(w)' <=> Runs(w, j) /\ Performs(w)
        BY <1>1, <3>2
      <4>. HIDE DEF PreExecute, Goto
      <4>. QED
        BY <1>1, <1>2, <1>6, <4>1, HeldStays DEF Executed
    <3>. QED
      BY <3>1, <3>2
  <2>. HIDE DEF PreExecute, Goto
  <2>3. PendingChildren(j)' = {}
    BY <1>5, <1>6
  <2>4. RefsOf(j)'
    BY <1>1, <1>4, <2>2, <2>3, FS_EmptySet DEF RefsOf
  <2>5. \A k \in Jobs \ {j} : refs'[k] = refs[k] /\ PendingChildren(k)' = PendingChildren(k)
    BY <1>4, <1>5
  <2>. QED
    BY <2>1, <2>4, <2>5, RefsStay
<1>. QED
  BY <1>5, <1>8, <1>10, <1>11, <1>12, <1>13 DEF Safe, WorkersOK

\* CJobQueue::EjqrAdd gives the queue a reference to the worker's job.
LEMMA AddStep ==
  ASSUME Safe, Typed', NEW w \in Workers, NEW j \in Jobs, NEW q \in Queues,
         \A v \in Workers \ {w} : SameLocals(v),
         UNCHANGED <<parent, jobQueue, status, below, opCompleted, listWaiting>>,
         Runs(w, j), Runs(w, j)', pj'[w] = j, pjq[w] = q, jobQueue[j] = q, ~opCompleted[q],
         ~Draining(w), ~Performs(w),
         \A k \in Jobs : ~Holds(w, k) /\ ~Holds(w, k)',
         pjDone[w] = NoJob, pjDone'[w] = NoJob,
         \A k \in Jobs \ {j} : refs'[k] = refs[k],
         refs'[j] = refs[j] + 1,
         ~HeldByQueue(j), HeldByQueue(j)',
         \A k \in Queues \ {q} : mainJob'[k] = mainJob[k] /\ listQueued'[k] = listQueued[k],
         mainJob'[q] = mainJob[q] \/ (mainJob[q] = NoJob /\ mainJob'[q] = j),
         mainJob'[q] \in Jobs, jobQueue[mainJob'[q]] = q,
         InList(mainJob'[q], listQueued'[q]),
         Distinct(listQueued'[q]),
         \A k : InList(k, listQueued'[q]) <=> k = j \/ InList(k, listQueued[q]),
         WorkerOK(w)'
  PROVE  Safe'
<1>. USE NoJobAssumption, QueuesAssumption
<1>1. \A k : PendingChildren(k)' = PendingChildren(k)
  BY DEF PendingChildren
<1>2. /\ \A v \in Workers, k \in Jobs : Runs(v, k)' <=> Runs(v, k)
      /\ \A v \in Workers, k \in Jobs : Holds(v, k)' <=> Holds(v, k)
      /\ \A v \in Workers : pjDone'[v] = pjDone[v] /\ (Draining(v) => Draining(v)')
      /\ \A v \in Workers \ {w} : Performs(v)' <=> Performs(v)
  BY OthersSame DEF Runs
<1>3. \A k \in Jobs \ {j} : InQueue(k)' <=> InQueue(k)
  <2>. SUFFICES ASSUME NEW k \in Jobs \ {j} PROVE InQueue(k)' <=> InQueue(k)
    OBVIOUS
  <2>. jobQueue[k] \in Queues \union {NoQueue}
    BY DEF Safe, Typed, TypeOK, JobTypes
  <2>. QED
    BY DEF InQueue
<1>4. \A k \in Jobs \ {j} : Finished(k) => Finished(k)'
  BY <1>3 DEF Finished
<1>5. ASSUME NEW v \in Workers \ {w} PROVE WorkerOK(v)'
  <2>1. LocalOK(v) /\ LocalTypes /\ WorkerOK(v)
    BY <1>5 DEF Safe, Typed, TypeOK, WorkersOK
  <2>2. pc[v] \in {"check", "add"} => pjq[v] # NoQueue
    BY <2>1 DEF LocalOK, NoQueue
  <2>3. Executes(v) => pj[v] \in Jobs \ {j} /\ pjq[v] = jobQueue[pj[v]]
    BY <1>5, <2>1 DEF Executes, LocalTypes, WorkerOK, Safe, HandsOK, Runs
  <2>4. pc[v] = "resumeParent" => pjDone[v] \in Jobs \ {j}
    <3>1. pc[v] = "resumeParent" => pjDone[v] \in Jobs /\ Holds(v, pjDone[v])
      BY <2>1 DEF LocalOK, LocalTypes, NoJobLabels, CompletionLabels, ScheduleLabels, Holds
    <3>. QED
      BY <1>5, <3>1 DEF Safe, HandsOK
  <2>5. /\ pj[v]' = pj[v] /\ pjDone[v]' = pjDone[v]
    BY <1>5 DEF SameLocals
  <2>6. Executes(v) =>
          /\ PendingChildren(pj[v])' \subseteq PendingChildren(pj[v])
          /\ InQueue(pj[v])' => InQueue(pj[v])
          /\ Finished(pj[v]) => Finished(pj[v])'
    BY <1>1, <1>3, <1>4, <2>3, <2>5 DEF PendingChildren, InQueue, Finished
  <2>7. pc[v] = "resumeParent" => (Finished(pjDone[v]) => Finished(pjDone[v])')
    BY <1>4, <2>4, <2>5 DEF Finished, InQueue
  <2>8. Executes(v) /\ pjq[v] # NoQueue =>
          (mainJob'[pjq[v]] = pj[v] <=> mainJob[pjq[v]] = pj[v])
    BY <2>1, <2>3 DEF LocalTypes
  <2>. QED
    BY <1>5, <2>1, <2>2, <2>6, <2>7, <2>8, WorkerFrame
<1>6. WaitingOK'
  BY <1>2 DEF Safe, WaitingOK, Carried
<1>7. HandsOK'
  BY <1>2 DEF Safe, HandsOK
<1>8. SlotsOK'
  BY <1>2 DEF Safe, SlotsOK
<1>9. QueuesOK'
  <2>1. ASSUME NEW k \in Queues \ {q} PROVE QueueOK(k)'
    BY <1>2, <2>1 DEF Safe, QueuesOK, QueueOK
  <2>2. QueueOK(q)'
    <3>1. \A k \in Jobs : InList(k, listQueued[q]) => status[k] = "pending" /\ jobQueue[k] = q
      BY DEF Safe, QueuesOK, QueueOK
    <3>2. status[j] = "pending" /\ listQueued'[q] # <<>>
      BY ListEmpty DEF Safe, HandsOK
    <3>. QED
      BY <3>1, <3>2 DEF QueueOK
  <2>. QED
    BY <2>1, <2>2 DEF QueuesOK
<1>10. NotLost'
  <2>. SUFFICES ASSUME NEW k \in Jobs,
                       status[k] = "pending", ~InList(k, listWaiting), ~Carried(k)'
                PROVE  PendingChildren(k)' # {} \/ (InQueue(k)' /\ mainJob'[jobQueue[k]] # k)
    BY DEF NotLost
  <2>1. ~Carried(k) /\ k # j
    BY <1>2 DEF Carried
  <2>2. PendingChildren(k) # {} \/ (InQueue(k) /\ mainJob[jobQueue[k]] # k)
    BY <2>1 DEF Safe, NotLost
  <2>3. InQueue(k) => jobQueue[k] \in Queues
    BY DEF InQueue, Safe, Typed, TypeOK, JobTypes
  <2>. QED
    BY <1>1, <1>3, <2>1, <2>2, <2>3
<1>11. RefsExact'
  <2>1. \A k \in Jobs : Executed(k)' <=> Executed(k)
    BY <1>2 DEF Executed
  <2>2. ASSUME NEW k \in Jobs \ {j} PROVE HeldByQueue(k)' <=> HeldByQueue(k)
    <3>1. (\E v \in Workers : pj[v] = k /\ Performs(v))' <=> \E v \in Workers : pj[v] = k /\ Performs(v)
      BY <1>2, <2>2 DEF SameLocals, Runs
    <3>2. jobQueue[k] \in Queues \union {NoQueue}
      BY DEF Safe, Typed, TypeOK, JobTypes
    <3>3. jobQueue[k] # NoQueue => (mainJob'[jobQueue[k]] = k <=> mainJob[jobQueue[k]] = k)
      BY <3>2
    <3>4. InQueue(k)' <=> InQueue(k)
      BY <1>3
    <3>. QED
      BY <3>1, <3>3, <3>4 DEF HeldByQueue, InQueue
  <2>3. RefsOf(j)'
    <3>1. RefsOf(j)
      BY RefsUnfold DEF Safe
    <3>2. PendingChildren(j)' = PendingChildren(j) /\ (Executed(j)' <=> Executed(j))
      BY <1>1, <2>1
    <3>. QED
      BY <3>1, <3>2, ChildrenFinite DEF RefsOf
  <2>. QED
    BY <1>1, <2>1, <2>2, <2>3, RefsStay
<1>. QED
  BY <1>5, <1>6, <1>7, <1>8, <1>9, <1>10, <1>11 DEF Safe, WorkersOK

\* CJobQueue::EjqrAdd makes the job main, queues it or finds the operation completed.
LEMMA EjqrAddKeeps == ASSUME Safe, Typed', NEW w \in Workers, EjqrAdd(w) PROVE Safe'
<1>. USE NoJobAssumption, QueuesAssumption DEF EjqrAdd, Goto, jobLocals
<1>0. LocalOK(w) /\ LocalTypes /\ JobTypes /\ WorkerOK(w)
      /\ mainJob \in [Queues -> Jobs \union {NoJob}] /\ listQueued \in [Queues -> Seq(Jobs)]
  BY DEF Safe, Typed, TypeOK, QueueTypes, WorkersOK
<1>j. PICK j \in Jobs, q \in Queues : pj[w] = j /\ pjq[w] = q
  BY <1>0 DEF LocalOK, LocalTypes, NoJobLabels, CompletionLabels, ScheduleLabels
<1>q. q # NoQueue
  BY DEF NoQueue
<1>1. /\ \A v \in Workers \ {w} : SameLocals(v)
      /\ UNCHANGED <<parent, jobQueue, status, below, opCompleted, listWaiting>>
  BY <1>0 DEF LocalTypes, SameLocals, AddAgain, AddFirst, AddQueued, AddTooLate
<1>2. pjDone[w] = NoJob /\ pjNext[w] = NoJob /\ Executes(w)
  BY <1>0, <1>j
  DEF LocalOK, NoJobLabels, CompletionLabels, ScheduleLabels, Executes
<1>3. /\ Runs(w, j) /\ pj'[w] = j /\ jobQueue[j] = q
      /\ ~Draining(w) /\ ~Performs(w) /\ pjDone'[w] = NoJob /\ pjNext'[w] = NoJob
      /\ \A k \in Jobs : ~Holds(w, k)
  BY <1>0, <1>j, <1>2 DEF Runs, Draining, Performs, Holds, WorkerOK
<1>4. pc'[w] \in {"run", "post"}
  BY <1>0 DEF LocalTypes, AddAgain, AddFirst, AddQueued, AddTooLate
<1>5. Runs(w, j)' /\ Executes(w)' /\ ~Draining(w)' /\ \A k \in Jobs : ~Holds(w, k)'
  BY <1>3, <1>4 DEF Runs, Executes, Draining, Holds
<1>6. fCompleted[w] /\ PendingChildren(j) = {} /\ (InQueue(j) => mainJob[q] = j)
      /\ (mainJob[q] = j => ~opCompleted[q])
  BY <1>0, <1>j, <1>2 DEF WorkerOK
<1>7. \A v \in Workers : ~(Runs(v, j) /\ Performs(v))
  BY <1>3 DEF Safe, HandsOK
<1>8. QueueOK(q)
  BY DEF Safe, QueuesOK
<1>9. PendingChildren(j)' = {}
  BY <1>1, <1>6 DEF PendingChildren
<1>10. CASE AddAgain(w, q)
  <2>1. mainJob[q] = j /\ ~opCompleted[q] /\ InQueue(j) /\ InList(j, listQueued[q])
    BY <1>j, <1>q, <1>3, <1>6, <1>8, <1>10 DEF AddAgain, QueueOK, InQueue
  <2>2. UNCHANGED queueVars /\ pc'[w] = "run" /\ fCompleted'[w] = fCompleted[w] /\ pjq'[w] = q
    BY <1>0, <1>1, <1>j, <1>10 DEF AddAgain, LocalTypes, queueVars
  <2>3. /\ refs'[j] = refs[j] + 1 /\ \A k \in Jobs \ {j} : refs'[k] = refs[k]
    BY <1>0, <1>j, <1>10 DEF AddAgain, JobTypes
  <2>4. Performs(w)' /\ WorkerOK(w)'
    BY <1>1, <1>3, <1>5, <1>9, <2>1, <2>2 DEF WorkerOK, Performs, queueVars
  <2>5. ~HeldByQueue(j) /\ HeldByQueue(j)'
    <3>1. ~HeldByQueue(j)
      BY <1>3, <1>7, <2>1, HeldInQueue
    <3>2. HeldByQueue(j)'
      BY <1>q, <1>1, <1>3, <2>1, <2>2, <2>4 DEF HeldByQueue, queueVars
    <3>. QED
      BY <3>1, <3>2
  <2>. HIDE DEF EjqrAdd, Goto, jobLocals
  <2>6. /\ Distinct(listQueued'[q])
        /\ \A k : InList(k, listQueued'[q]) <=> k = j \/ InList(k, listQueued[q])
        /\ mainJob'[q] \in Jobs /\ jobQueue[mainJob'[q]] = q /\ InList(mainJob'[q], listQueued'[q])
        /\ \A k \in Queues \ {q} : mainJob'[k] = mainJob[k] /\ listQueued'[k] = listQueued[k]
        /\ mainJob'[q] = mainJob[q] \/ (mainJob[q] = NoJob /\ mainJob'[q] = j)
    BY <1>3, <1>8, <2>1, <2>2 DEF QueueOK, queueVars
  <2>7. Runs(w, j) /\ Runs(w, j)' /\ pj'[w] = j /\ pjq[w] = q /\ jobQueue[j] = q
        /\ ~opCompleted[q] /\ ~Draining(w) /\ ~Performs(w) /\ pjDone[w] = NoJob /\ pjDone'[w] = NoJob
        /\ (\A k \in Jobs : ~Holds(w, k) /\ ~Holds(w, k)')
    BY <1>2, <1>3, <1>5, <1>j, <2>1
  <2>. QED
    BY <1>1, <2>3, <2>4, <2>5, <2>6, <2>7, AddStep
<1>11. CASE AddFirst(w, q)
  <2>1. /\ mainJob[q] = NoJob /\ ~opCompleted[q] /\ listQueued[q] = <<>>
        /\ mainJob'[q] = j /\ listQueued'[q] = <<j>>
        /\ \A k \in Queues \ {q} : mainJob'[k] = mainJob[k] /\ listQueued'[k] = listQueued[k]
    BY <1>0, <1>j, <1>8, <1>11 DEF AddFirst, QueueOK
  <2>2. pc'[w] = "run" /\ fCompleted'[w] = fCompleted[w] /\ pjq'[w] = q
    BY <1>0, <1>1, <1>j, <1>11 DEF AddFirst, LocalTypes
  <2>3. /\ refs'[j] = refs[j] + 1 /\ \A k \in Jobs \ {j} : refs'[k] = refs[k]
    BY <1>0, <1>j, <1>11 DEF AddFirst, JobTypes
  <2>4. /\ Distinct(listQueued'[q]) /\ InList(j, listQueued'[q])
        /\ \A k : InList(k, listQueued'[q]) <=> k = j \/ InList(k, listQueued[q])
    BY <2>1, ListSingle, ListEmpty
  <2>5. Performs(w)' /\ WorkerOK(w)'
    BY <1>1, <1>3, <1>5, <1>9, <2>1, <2>2 DEF WorkerOK, Performs
  <2>6. ~HeldByQueue(j) /\ HeldByQueue(j)'
    BY <1>q, <1>1, <1>3, <1>5, <2>1, <2>4, <2>5, ListEmpty DEF HeldByQueue, InQueue, Runs
  <2>. HIDE DEF EjqrAdd, Goto, jobLocals
  <2>. QED
    BY <1>1, <1>2, <1>3, <1>5, <1>j, <2>1, <2>2, <2>3, <2>4, <2>5, <2>6, AddStep
<1>12. CASE AddQueued(w, q)
  <2>1. /\ mainJob[q] # j /\ ~opCompleted[q] /\ listQueued[q] # <<>> /\ ~InQueue(j)
        /\ UNCHANGED mainJob /\ listQueued'[q] = Append(listQueued[q], j)
        /\ \A k \in Queues \ {q} : listQueued'[k] = listQueued[k]
    BY <1>0, <1>j, <1>6, <1>12 DEF AddQueued
  <2>2. pc'[w] = "post" /\ fCompleted'[w] = FALSE /\ pjq'[w] = q
    BY <1>0, <1>1, <1>j, <1>12 DEF AddQueued, LocalTypes
  <2>3. /\ refs'[j] = refs[j] + 1 /\ \A k \in Jobs \ {j} : refs'[k] = refs[k]
    BY <1>0, <1>j, <1>12 DEF AddQueued, JobTypes
  <2>4. /\ Distinct(listQueued'[q]) /\ InList(j, listQueued'[q])
        /\ \A k : InList(k, listQueued'[q]) <=> k = j \/ InList(k, listQueued[q])
    <3>1. ~InList(j, listQueued[q]) /\ Distinct(listQueued[q]) /\ listQueued[q] \in Seq(Jobs)
      BY <1>0, <1>q, <1>3, <1>8, <2>1 DEF InQueue, QueueOK
    <3>. QED
      BY <2>1, <3>1, ListAppend
  <2>5. ~Performs(w)' /\ WorkerOK(w)'
    BY <1>1, <1>3, <1>5, <1>9, <2>1, <2>2 DEF WorkerOK, Performs
  <2>6. ~HeldByQueue(j) /\ HeldByQueue(j)'
    BY <1>q, <1>1, <1>3, <2>1, <2>4 DEF HeldByQueue, InQueue
  <2>7. mainJob[q] \in Jobs /\ jobQueue[mainJob[q]] = q /\ InList(mainJob[q], listQueued[q])
    BY <1>8, <2>1 DEF QueueOK
  <2>. HIDE DEF EjqrAdd, Goto, jobLocals
  <2>. QED
    BY <1>1, <1>2, <1>3, <1>5, <1>j, <2>1, <2>2, <2>3, <2>4, <2>5, <2>6, <2>7, AddStep
<1>13. CASE AddTooLate(w, q)
  <2>1. /\ UNCHANGED <<jobVars, queueVars>> /\ pc'[w] = "post" /\ fCompleted'[w] = fCompleted[w]
        /\ pjq'[w] = q /\ opCompleted[q] /\ mainJob[q] # j
    BY <1>0, <1>1, <1>j, <1>13 DEF AddTooLate, LocalTypes, jobVars, queueVars
  <2>2. Finished(j)'
    BY <1>1, <1>3, <1>6, <2>1 DEF Finished, InQueue, queueVars
  <2>3. ~Performs(w)' /\ WorkerOK(w)'
    BY <1>1, <1>3, <1>5, <1>6, <1>9, <2>1, <2>2 DEF WorkerOK, Performs, queueVars
  <2>4. \A k \in Jobs : Runs(w, k)' <=> Runs(w, k)
    BY <1>3, <1>5 DEF Runs
  <2>. HIDE DEF EjqrAdd, Goto, jobLocals
  <2>. QED
    BY <1>1, <1>2, <1>3, <1>5, <2>1, <2>3, <2>4, QuietStep DEF jobVars
<1>. QED
  BY <1>j, <1>10, <1>11, <1>12, <1>13

\* Nothing refers to a slot that is free.
LEMMA FreeSlot ==
  ASSUME Safe, NEW c \in Jobs, status[c] = "free"
  PROVE  /\ PendingChildren(c) = {} /\ ~InList(c, listWaiting) /\ ~InQueue(c)
         /\ \A v \in Workers : ~Runs(v, c) /\ ~Holds(v, c) /\ pjDone[v] # c
         /\ \A k \in Queues : ~InList(c, listQueued[k]) /\ (listQueued[k] # <<>> => mainJob[k] # c)
         /\ parent[c] = NoJob /\ jobQueue[c] = NoQueue
<1>. USE NoJobAssumption
<1>1. \A v \in Workers : ~Runs(v, c) /\ ~Holds(v, c)
  BY DEF Safe, HandsOK
<1>2. ASSUME NEW v \in Workers, pjDone[v] = c PROVE FALSE
  <2>1. WorkerOK(v)
    BY DEF Safe, WorkersOK
  <2>2. pc[v] # "resumeParent"
    BY <1>1, <1>2 DEF Holds
  <2>. QED
    BY <1>2, <2>1, <2>2 DEF WorkerOK
<1>3. \A k \in Queues : ~InList(c, listQueued[k]) /\ (listQueued[k] # <<>> => mainJob[k] # c)
  BY <1>1 DEF Safe, QueuesOK, QueueOK
<1>4. parent[c] = NoJob /\ jobQueue[c] = NoQueue
  BY DEF Safe, SlotsOK
<1>5. PendingChildren(c) = {}
  BY DEF Safe, SlotsOK, PendingChildren
<1>. QED
  BY <1>1, <1>2, <1>3, <1>4, <1>5 DEF Safe, WaitingOK, InQueue

\* CScheduler::Add makes a child of the running job.
LEMMA ForkKeeps ==
  ASSUME Safe, Typed', NEW w \in Workers, NEW c \in Jobs, NEW q \in Queues \union {NoQueue},
         Fork(w, c, q)
  PROVE  Safe'
<1>. USE NoJobAssumption DEF Fork, Goto, jobLocals, queueVars
<1>0. LocalOK(w) /\ LocalTypes /\ JobTypes /\ WorkerOK(w)
  BY DEF Safe, Typed, TypeOK, WorkersOK
<1>j. PICK j \in Jobs : pj[w] = j
  BY <1>0 DEF LocalOK, LocalTypes, NoJobLabels, CompletionLabels, ScheduleLabels
<1>1. /\ \A v \in Workers \ {w} : SameLocals(v)
      /\ UNCHANGED <<queueVars, listWaiting>>
  BY <1>0 DEF LocalTypes, SameLocals
<1>2. /\ pjDone[w] = NoJob /\ pjNext[w] = NoJob /\ pjDone'[w] = NoJob
      /\ pj'[w] = j /\ pjNext'[w] = c /\ pc'[w] = "addTotal" /\ fCompleted'[w] = FALSE
      /\ pjq'[w] = pjq[w]
  BY <1>0, <1>j
  DEF LocalOK, LocalTypes, NoJobLabels, CompletionLabels, ScheduleLabels
<1>3. /\ Executes(w) /\ Runs(w, j) /\ status[j] = "pending" /\ j # c
      /\ \A k \in Jobs : ~Holds(w, k)
  BY <1>0, <1>j, <1>2 DEF Executes, Runs, Holds, Safe, HandsOK
<1>4. /\ \A k \in Jobs : Runs(w, k)' <=> Runs(w, k)
      /\ (Executes(w)' <=> Executes(w)) /\ (Performs(w)' <=> Performs(w))
      /\ ~Draining(w) /\ ~Draining(w)'
      /\ \A k \in Jobs : Holds(w, k)' <=> k = c
  BY <1>0, <1>j, <1>2, <1>3 DEF Executes, Runs, Performs, Draining, Holds
<1>5. /\ refs'[j] = refs[j] + 1 /\ refs'[c] = 0 /\ \A k \in Jobs \ {j, c} : refs'[k] = refs[k]
      /\ parent'[c] = j /\ status'[c] = "pending" /\ jobQueue'[c] = q
      /\ \A k \in Jobs \ {c} : /\ parent'[k] = parent[k] /\ status'[k] = status[k]
                               /\ jobQueue'[k] = jobQueue[k] /\ below'[k] = below[k]
  BY <1>0, <1>j, <1>3 DEF JobTypes
<1>6. /\ status[c] = "free" /\ PendingChildren(c) = {} /\ ~InList(c, listWaiting) /\ ~InQueue(c)
      /\ \A v \in Workers : ~Runs(v, c) /\ ~Holds(v, c) /\ pjDone[v] # c
      /\ \A k \in Queues : ~InList(c, listQueued[k]) /\ (listQueued[k] # <<>> => mainJob[k] # c)
      /\ parent[c] = NoJob
  BY FreeSlot
<1>. HIDE DEF Fork, Goto, jobLocals
<1>7. /\ PendingChildren(j)' = PendingChildren(j) \union {c} /\ c \notin PendingChildren(j)
      /\ \A k \in Jobs \ {j} : PendingChildren(k)' = PendingChildren(k)
  BY <1>5, <1>6 DEF PendingChildren
<1>8. /\ \A k \in Jobs : InQueue(k)' <=> InQueue(k)
      /\ \A k \in Jobs \ {c} : Finished(k)' <=> Finished(k)
  <2>1. ~InQueue(c)'
    BY <1>1, <1>5, <1>6 DEF InQueue
  <2>2. \A k \in Jobs \ {c} : InQueue(k)' <=> InQueue(k)
    BY <1>1, <1>5 DEF InQueue
  <2>3. \A k \in Jobs \ {c} : Finished(k)' <=> Finished(k)
    BY <1>1, <1>5, <2>2 DEF Finished
  <2>. QED
    BY <1>6, <2>1, <2>2, <2>3
<1>9. /\ \A v \in Workers, k \in Jobs : Runs(v, k)' <=> Runs(v, k)
      /\ \A v \in Workers, k \in Jobs : Holds(v, k)' <=> Holds(v, k) \/ (v = w /\ k = c)
      /\ \A v \in Workers : pjDone'[v] = pjDone[v] /\ (Draining(v)' <=> Draining(v))
                            /\ (Performs(v)' <=> Performs(v))
  BY <1>1, <1>2, <1>3, <1>4, OthersSame
<1>10. ASSUME NEW v \in Workers PROVE WorkerOK(v)'
  <2>1. CASE v = w
    <3>1. PendingChildren(j)' = PendingChildren(j) \union {c}
      BY <1>7
    <3>2. /\ pjq[w] = jobQueue[j] /\ jobQueue'[j] = jobQueue[j]
          /\ Performs(w) /\ pjq[w] # NoQueue => mainJob[pjq[w]] = j /\ ~opCompleted[pjq[w]]
      BY <1>0, <1>j, <1>3, <1>4, <1>5 DEF WorkerOK
    <3>. QED
      BY <1>1, <1>2, <1>3, <1>4, <2>1, <3>2 DEF WorkerOK
  <2>2. CASE v # w
    <3>1. LocalOK(v) /\ LocalTypes /\ WorkerOK(v) /\ pj'[v] = pj[v] /\ pjDone'[v] = pjDone[v]
      BY <1>1, <2>2 DEF Safe, Typed, TypeOK, WorkersOK, SameLocals
    <3>2. pc[v] \in {"check", "add"} => pjq[v] # NoQueue
      BY <3>1, QueuesAssumption DEF LocalOK, NoQueue
    <3>3. Executes(v) => pj[v] \in Jobs \ {j, c}
      BY <1>3, <1>6, <2>2, <3>1 DEF Executes, LocalTypes, Safe, HandsOK, Runs
    <3>4. Executes(v) =>
            /\ jobQueue'[pj[v]] = jobQueue[pj[v]]
            /\ PendingChildren(pj[v])' \subseteq PendingChildren(pj[v])
            /\ InQueue(pj[v])' => InQueue(pj[v])
            /\ Finished(pj[v]) => Finished(pj[v])'
      BY <1>5, <1>7, <1>8, <3>1, <3>3 DEF PendingChildren, InQueue, Finished
    <3>5. pjDone[v] \in Jobs => pjDone[v] \in Jobs \ {c}
      BY <1>6
    <3>6. pc[v] = "resumeParent" => (Finished(pjDone[v]) => Finished(pjDone[v])')
      <4>1. pc[v] = "resumeParent" => pjDone[v] \in Jobs
        BY <3>1 DEF LocalOK, LocalTypes, NoJobLabels, CompletionLabels, ScheduleLabels
      <4>. QED
        BY <1>8, <3>1, <3>5, <4>1 DEF Finished, InQueue
    <3>7. status[pjDone[v]] = "done" => status'[pjDone[v]] = "done"
      BY <1>0, <1>5, <1>6, <3>1 DEF JobTypes, Fork
    <3>. QED
      BY <1>1, <2>2, <3>1, <3>2, <3>4, <3>6, <3>7, WorkerFrame
  <2>. QED
    BY <2>1, <2>2
<1>11. WaitingOK'
  <2>1. ~InList(j, listWaiting)
    BY <1>3 DEF Safe, WaitingOK, Carried
  <2>2. \A k \in Jobs \ {c} : Carried(k)' <=> Carried(k)
    BY <1>9 DEF Carried
  <2>. QED
    BY <1>1, <1>5, <1>6, <2>1, <2>2 DEF Safe, WaitingOK
<1>12. HandsOK'
  <2>1. \A v \in Workers : ~Holds(v, j)
    BY <1>3 DEF Safe, HandsOK
  <2>2. \A v \in Workers, k \in Jobs : Holds(v, k)' => status'[k] = "pending" /\ refs'[k] = 0
    BY <1>5, <1>9, <2>1 DEF Safe, HandsOK
  <2>3. \A v \in Workers, k \in Jobs : Runs(v, k)' => status'[k] = "pending" /\ ~Holds(v, k)'
    BY <1>5, <1>6, <1>9 DEF Safe, HandsOK
  <2>. QED
    BY <1>6, <1>9, <2>2, <2>3 DEF Safe, HandsOK
<1>13. SlotsOK'
  <2>1. \A k \in Jobs \ {c} :
          /\ status[k] = "pending" /\ parent[k] # NoJob => status[parent[k]] = "pending"
          /\ status[k] = "free" => parent[k] = NoJob /\ jobQueue[k] = NoQueue /\ below[k] = {}
          /\ status[k] = "done" => \E v \in Workers : pjDone[v] = k
          /\ parent[k] \in Jobs \union {NoJob}
    BY <1>0 DEF Safe, SlotsOK, JobTypes
  <2>2. \A k \in Jobs : status'[k] = "pending" /\ parent'[k] # NoJob => status'[parent'[k]] = "pending"
    BY <1>3, <1>5, <2>1
  <2>3. \A k \in Jobs : status'[k] = "free" =>
                        parent'[k] = NoJob /\ jobQueue'[k] = NoQueue /\ below'[k] = {}
    BY <1>5, <2>1
  <2>4. \A k \in Jobs : status'[k] = "done" => \E v \in Workers : pjDone'[v] = k
    BY <1>5, <1>9, <2>1
  <2>. QED
    BY <2>2, <2>3, <2>4 DEF SlotsOK
<1>14. QueuesOK'
  BY <1>1, <1>5, <1>6, <1>9 DEF Safe, QueuesOK, QueueOK
<1>15. NotLost'
  <2>. SUFFICES ASSUME NEW k \in Jobs,
                       status'[k] = "pending", ~InList(k, listWaiting'), ~Carried(k)'
                PROVE  PendingChildren(k)' # {} \/ (InQueue(k)' /\ mainJob'[jobQueue'[k]] # k)
    BY DEF NotLost
  <2>1. ~Carried(k) /\ k # c /\ k # j
    BY <1>3, <1>9 DEF Carried
  <2>. QED
    BY <1>1, <1>5, <1>7, <1>8, <2>1 DEF Safe, NotLost
<1>16. RefsExact'
  <2>1. \A k \in Jobs : Executed(k)' <=> Executed(k)
    BY <1>9 DEF Executed
  <2>2. \A k \in Jobs \ {c} : HeldByQueue(k)' <=> HeldByQueue(k)
    <3>. SUFFICES ASSUME NEW k \in Jobs \ {c} PROVE HeldByQueue(k)' <=> HeldByQueue(k)
      OBVIOUS
    <3>1. (\E v \in Workers : Runs(v, k) /\ Performs(v))' <=> \E v \in Workers : Runs(v, k) /\ Performs(v)
      BY <1>9
    <3>. QED
      BY <1>1, <1>5, <3>1 DEF HeldByQueue, Runs, Performs
  <2>3. RefsOf(c)'
    <3>1. ~Executed(c)' /\ ~HeldByQueue(c)'
      BY <1>1, <1>5, <1>6, <1>8, <2>1 DEF Executed, HeldByQueue, InQueue
    <3>2. PendingChildren(c)' = {}
      BY <1>3, <1>6, <1>7
    <3>. QED
      BY <1>5, <3>1, <3>2, FS_EmptySet DEF RefsOf
  <2>4. RefsOf(j)'
    <3>1. RefsOf(j)
      BY RefsUnfold DEF Safe
    <3>2. Cardinality(PendingChildren(j)') = Cardinality(PendingChildren(j)) + 1
      BY <1>7, ChildrenFinite, FS_AddElement
    <3>3. (Executed(j)' <=> Executed(j)) /\ (HeldByQueue(j)' <=> HeldByQueue(j))
      BY <1>3, <2>1, <2>2
    <3>. QED
      BY <1>5, <3>1, <3>2, <3>3, ChildrenFinite DEF RefsOf
  <2>. QED
    BY <1>5, <1>7, <2>1, <2>2, <2>3, <2>4, RefsStay
<1>. QED
  BY <1>10, <1>11, <1>12, <1>13, <1>14, <1>15, <1>16 DEF Safe, WorkersOK

\* The worker returns a reference of its job j, and may let go of j.
LEMMA HandStep ==
  ASSUME Safe, Typed', NEW w \in Workers, NEW j \in Jobs,
         \A v \in Workers \ {w} : SameLocals(v),
         UNCHANGED <<parent, jobQueue, status, below, queueVars, listWaiting>>,
         ~Draining(w), pjDone[w] = NoJob, pjDone'[w] \in {NoJob, j},
         Runs(w, j),
         \A k \in Jobs : ~Holds(w, k) /\ ((Runs(w, k)' \/ Holds(w, k)') => k = j),
         Runs(w, j)' => ~Holds(w, j)', Holds(w, j)' => refs'[j] = 0,
         \A k \in Jobs \ {j} : refs'[k] = refs[k],
         RefsOf(j)',
         ~Runs(w, j)' /\ ~Holds(w, j)' =>
            PendingChildren(j) # {} \/ (InQueue(j) /\ mainJob[jobQueue[j]] # j),
         WorkerOK(w)'
  PROVE  Safe'
<1>. USE NoJobAssumption
<1>1. (\A v \in Workers \ {w} : WorkerOK(v)') /\ SlotsOK' /\ QueuesOK'
      /\ (\A k : PendingChildren(k)' = PendingChildren(k))
      /\ (\A k : (InQueue(k)' <=> InQueue(k)))
  BY SlotsStay
<1>2. /\ status[j] = "pending" /\ ~InList(j, listWaiting)
      /\ \A v \in Workers \ {w} : ~Runs(v, j) /\ ~Holds(v, j) /\ pjDone[v] # j
  <2>1. status[j] = "pending" /\ ~InList(j, listWaiting)
    BY DEF Safe, HandsOK, WaitingOK, Carried
  <2>2. \A v \in Workers \ {w} : ~Runs(v, j) /\ ~Holds(v, j)
    BY DEF Safe, HandsOK
  <2>3. \A v \in Workers \ {w} : pjDone[v] # j
    BY <2>1, <2>2 DEF Safe, WorkersOK, WorkerOK, Holds
  <2>. QED
    BY <2>1, <2>2, <2>3
<1>3. \A v \in Workers \ {w} :
        /\ pjDone'[v] = pjDone[v] /\ (Performs(v)' <=> Performs(v))
        /\ \A k : (Runs(v, k)' <=> Runs(v, k)) /\ (Holds(v, k)' <=> Holds(v, k))
  BY OthersSame
<1>4. \A k \in Jobs \ {j} : /\ Carried(k)' <=> Carried(k)
                            /\ Executed(k)' <=> Executed(k)
                            /\ ~Runs(w, k) /\ ~Runs(w, k)'
  <2>1. \A k \in Jobs \ {j} : ~Runs(w, k) /\ ~Runs(w, k)' /\ ~Holds(w, k) /\ ~Holds(w, k)'
    BY DEF Runs
  <2>. QED
    BY <1>3, <2>1 DEF Carried, Executed
<1>5. WaitingOK'
  BY <1>2, <1>4 DEF Safe, WaitingOK
<1>6. HandsOK'
  <2>1. \A v \in Workers, k \in Jobs :
          Runs(v, k)' \/ Holds(v, k)' => Runs(v, k) \/ Holds(v, k)
    BY <1>3
  <2>2. \A v \in Workers, k \in Jobs : Holds(v, k)' => status[k] = "pending" /\ refs'[k] = 0
    BY <1>2, <1>3 DEF Safe, HandsOK
  <2>3. \A v \in Workers, k \in Jobs : Runs(v, k)' => status[k] = "pending" /\ ~Holds(v, k)'
    BY <1>2, <1>3 DEF Safe, HandsOK
  <2>4. \A u, v \in Workers : pjDone'[u] = pjDone'[v] /\ pjDone'[u] # NoJob => u = v
    BY <1>2, <1>3 DEF Safe, HandsOK
  <2>. QED
    BY <2>1, <2>2, <2>3, <2>4 DEF Safe, HandsOK
<1>7. NotLost'
  <2>. SUFFICES ASSUME NEW k \in Jobs, status[k] = "pending", ~InList(k, listWaiting), ~Carried(k)'
                PROVE  PendingChildren(k)' # {} \/ (InQueue(k)' /\ mainJob'[jobQueue'[k]] # k)
    BY DEF NotLost
  <2>1. k # j => ~Carried(k)
    BY <1>4
  <2>2. k = j => ~Runs(w, j)' /\ ~Holds(w, j)'
    BY DEF Carried
  <2>. QED
    BY <1>1, <2>1, <2>2 DEF Safe, NotLost, queueVars
<1>8. RefsExact'
  <2>1. \A k \in Jobs \ {j} : HeldByQueue(k)' <=> HeldByQueue(k)
    BY <1>4, HeldStays
  <2>. QED
    BY <1>1, <1>4, <2>1, RefsStay
<1>. QED
  BY <1>1, <1>5, <1>6, <1>7, <1>8 DEF Safe, WorkersOK

\* The main job returns the reference it has from its queue.
LEMMA DropMainKeeps == ASSUME Safe, Typed', NEW w \in Workers, DropMain(w) PROVE Safe'
<1>. USE NoJobAssumption, QueuesAssumption DEF DropMain, Goto, jobLocals
<1>0. LocalOK(w) /\ LocalTypes /\ JobTypes /\ WorkerOK(w)
  BY DEF Safe, Typed, TypeOK, WorkersOK
<1>j. PICK j \in Jobs, q \in Queues : pj[w] = j /\ pjq[w] = q /\ q # NoQueue
  BY <1>0 DEF LocalOK, LocalTypes, NoJobLabels, CompletionLabels, ScheduleLabels, NoQueue
<1>1. /\ \A v \in Workers \ {w} : SameLocals(v)
      /\ UNCHANGED <<parent, jobQueue, status, below, queueVars, listWaiting>>
  BY <1>0 DEF LocalTypes, SameLocals
<1>2. /\ pjDone[w] = NoJob /\ pjNext[w] = NoJob /\ pjDone'[w] = NoJob /\ pjNext'[w] = NoJob
      /\ pj'[w] = j /\ pjq'[w] = q /\ fCompleted'[w] = fCompleted[w] /\ pc'[w] = "post"
  BY <1>0, <1>j DEF LocalOK, LocalTypes, NoJobLabels, CompletionLabels, ScheduleLabels
<1>3. /\ Runs(w, j) /\ Runs(w, j)' /\ Executes(w) /\ Performs(w) /\ ~Performs(w)'
      /\ ~Draining(w) /\ ~Draining(w)'
      /\ \A k \in Jobs : ~Holds(w, k) /\ ~Holds(w, k)'
      /\ \A k \in Jobs : Runs(w, k)' => k = j
  BY <1>0, <1>j, <1>2 DEF Executes, Runs, Performs, Draining, Holds
<1>4. /\ jobQueue[j] = q /\ mainJob[q] = j /\ ~opCompleted[q] /\ ~fCompleted[w]
  BY <1>0, <1>j, <1>3 DEF WorkerOK
<1>5. InQueue(j)
  BY <1>4, <1>j DEF Safe, QueuesOK, QueueOK, InQueue
<1>6. refs'[j] = refs[j] - 1 /\ \A k \in Jobs \ {j} : refs'[k] = refs[k]
  BY <1>0, <1>j DEF JobTypes
<1>. HIDE DEF DropMain, Goto, jobLocals
<1>7. RefsOf(j)'
  <2>1. RefsOf(j) /\ Executed(j) /\ HeldByQueue(j)
    BY <1>3, <1>5, HeldInQueue, RefsUnfold DEF Safe, Executed
  <2>2. \A v \in Workers \ {w} : ~Runs(v, j)
    BY <1>3 DEF Safe, HandsOK
  <2>3. ~HeldByQueue(j)'
    BY <1>1, <1>3, <1>4, <2>2, OthersSame DEF HeldByQueue, Runs, Performs, queueVars
  <2>4. Executed(j)'
    BY <1>3 DEF Executed
  <2>5. PendingChildren(j)' = PendingChildren(j)
    BY <1>1 DEF PendingChildren
  <2>. QED
    BY <1>6, <2>1, <2>3, <2>4, <2>5, ChildrenFinite DEF RefsOf
<1>8. WorkerOK(w)'
  BY <1>1, <1>2, <1>3, <1>4 DEF WorkerOK, queueVars
<1>. QED
  BY <1>1, <1>2, <1>3, <1>6, <1>7, <1>8, HandStep

\* CScheduler::EjrPostExecute returns the reference of the worker.
LEMMA PostKeeps ==
  ASSUME Safe, Typed', NEW w \in Workers,
         PostCompleted(w) \/ PostRunnable(w) \/ PostSuspended(w)
  PROVE  Safe'
<1>. USE NoJobAssumption
     DEF PostCompleted, PostRunnable, PostSuspended, PostExecute, NextJob, Goto, jobLocals
<1>0. LocalOK(w) /\ LocalTypes /\ JobTypes /\ WorkerOK(w)
  BY DEF Safe, Typed, TypeOK, WorkersOK
<1>j. PICK j \in Jobs : pj[w] = j
  BY <1>0 DEF LocalOK, LocalTypes, NoJobLabels, CompletionLabels, ScheduleLabels
<1>1. /\ \A v \in Workers \ {w} : SameLocals(v)
      /\ UNCHANGED <<parent, jobQueue, status, below, queueVars, listWaiting>>
  BY <1>0 DEF LocalTypes, SameLocals
<1>2. /\ pc[w] = "post" /\ pjDone[w] = NoJob /\ pjNext[w] = NoJob /\ fCompleted'[w] = fCompleted[w]
  BY <1>0 DEF LocalOK, LocalTypes, NoJobLabels, CompletionLabels, ScheduleLabels
<1>3. /\ Runs(w, j) /\ Executes(w) /\ ~Performs(w) /\ ~Draining(w)
      /\ \A k \in Jobs : ~Holds(w, k)
  BY <1>0, <1>j, <1>2 DEF Executes, Runs, Performs, Draining, Holds
<1>4. /\ pjq[w] = jobQueue[j]
      /\ fCompleted[w] => PendingChildren(j) = {} /\ Finished(j)
  BY <1>0, <1>j, <1>2, <1>3 DEF WorkerOK
<1>5. refs'[j] = refs[j] - 1 /\ \A k \in Jobs \ {j} : refs'[k] = refs[k]
  BY <1>0, <1>j DEF JobTypes
<1>6. /\ RefsOf(j) /\ Executed(j) /\ status[j] = "pending"
      /\ \A v \in Workers \ {w} : ~Runs(v, j)
      /\ ~\E v \in Workers : Runs(v, j) /\ Performs(v)
  BY <1>3, RefsUnfold DEF Safe, Executed, HandsOK
<1>7. ~Executes(w)'
  BY <1>0, <1>j, <1>2 DEF Executes, LocalTypes
<1>8. RefsOf(j)'
  <2>1. ~Executed(j)'
    BY <1>1, <1>6, <1>7, OthersSame DEF Executed, Runs
  <2>2. PendingChildren(j)' = PendingChildren(j)
    BY <1>1 DEF PendingChildren
  <2>3. HeldByQueue(j)' <=> HeldByQueue(j)
    <3>1. Runs(w, j)' /\ Performs(w)' <=> Runs(w, j) /\ Performs(w)
      BY <1>3, <1>7 DEF Runs
    <3>. HIDE DEF PostCompleted, PostRunnable, PostSuspended
    <3>. QED
      BY <1>1, <3>1, HeldStays
  <2>. QED
    BY <1>5, <1>6, <2>1, <2>2, <2>3, ChildrenFinite DEF RefsOf
<1>9. CASE PostCompleted(w)
  <2>1. pjDone'[w] = j /\ pjNext'[w] = NoJob /\ pj'[w] = j /\ pc'[w] = "resumeParent"
    BY <1>0, <1>j, <1>2, <1>9 DEF LocalTypes
  <2>2. \A k \in Jobs : ~Runs(w, k)' /\ (Holds(w, k)' <=> k = j)
    BY <1>7, <2>1 DEF Runs, Holds
  <2>3. ~HeldByQueue(j) /\ PendingChildren(j) = {}
    BY <1>4, <1>9, HeldInQueue DEF Finished
  <2>4. refs'[j] = 0
    BY <1>5, <1>6, <2>3, FS_EmptySet DEF RefsOf
  <2>5. Finished(j)'
    BY <1>1, <1>4, <1>9 DEF Finished, InQueue, queueVars
  <2>6. WorkerOK(w)'
    BY <1>7, <2>1, <2>5 DEF WorkerOK, Performs
  <2>. HIDE DEF PostCompleted, PostRunnable, PostSuspended, PostExecute, NextJob, Goto, jobLocals
  <2>. QED
    BY <1>1, <1>2, <1>3, <1>5, <1>8, <2>1, <2>2, <2>4, <2>6, HandStep
<1>10. CASE PostRunnable(w)
  <2>1. pjDone'[w] = NoJob /\ pjNext'[w] = j /\ pj'[w] = j /\ pc'[w] = "push" /\ refs[j] = 1
    BY <1>0, <1>j, <1>2, <1>10 DEF LocalTypes
  <2>2. \A k \in Jobs : ~Runs(w, k)' /\ (Holds(w, k)' <=> k = j)
    BY <1>7, <2>1 DEF Runs, Holds
  <2>3. refs'[j] = 0
    BY <1>5, <2>1
  <2>4. WorkerOK(w)'
    BY <1>7, <2>1 DEF WorkerOK, Performs
  <2>. HIDE DEF PostCompleted, PostRunnable, PostSuspended, PostExecute, NextJob, Goto, jobLocals
  <2>. QED
    BY <1>1, <1>2, <1>3, <1>5, <1>8, <2>1, <2>2, <2>3, <2>4, HandStep
<1>11. CASE PostSuspended(w)
  <2>1. pjDone'[w] = NoJob /\ pjNext'[w] = NoJob /\ pj'[w] = NoJob /\ pc'[w] = "retrieve"
        /\ refs[j] # 1
    BY <1>0, <1>j, <1>2, <1>11 DEF LocalTypes
  <2>2. \A k \in Jobs : ~Runs(w, k)' /\ ~Holds(w, k)'
    BY <1>7, <2>1 DEF Runs, Holds
  <2>3. PendingChildren(j) # {} \/ HeldByQueue(j)
    BY <1>6, <2>1, FS_EmptySet DEF RefsOf
  <2>4. PendingChildren(j) # {} \/ (InQueue(j) /\ mainJob[jobQueue[j]] # j)
    BY <1>6, <2>3, HeldInQueue
  <2>5. WorkerOK(w)'
    BY <1>7, <2>1 DEF WorkerOK, Performs
  <2>. HIDE DEF PostCompleted, PostRunnable, PostSuspended, PostExecute, NextJob, Goto, jobLocals
  <2>. QED
    BY <1>1, <1>2, <1>3, <1>5, <1>8, <2>1, <2>2, <2>4, <2>5, HandStep
<1>. QED
  BY <1>9, <1>10, <1>11

\* CJobQueue::NotifyCompleted starts to complete the operation.
LEMMA NotifyKeeps == ASSUME Safe, Typed', NEW w \in Workers, NotifyCompleted(w) PROVE Safe'
<1>. USE NoJobAssumption, QueuesAssumption DEF NotifyCompleted, Goto, jobLocals
<1>0. LocalOK(w) /\ LocalTypes /\ JobTypes /\ WorkerOK(w) /\ opCompleted \in [Queues -> BOOLEAN]
  BY DEF Safe, Typed, TypeOK, QueueTypes, WorkersOK
<1>j. PICK j \in Jobs, q \in Queues : pj[w] = j /\ pjq[w] = q /\ q # NoQueue
  BY <1>0 DEF LocalOK, LocalTypes, NoJobLabels, CompletionLabels, ScheduleLabels, NoQueue
<1>1. /\ \A v \in Workers \ {w} : SameLocals(v)
      /\ UNCHANGED <<refs, parent, jobQueue, status, below, mainJob, listQueued, listWaiting>>
      /\ opCompleted'[q] /\ \A k \in Queues \ {q} : opCompleted'[k] = opCompleted[k]
  BY <1>0, <1>j DEF LocalTypes, SameLocals, jobVars
<1>2. /\ pjDone[w] = NoJob /\ pjNext[w] = NoJob /\ pjDone'[w] = NoJob /\ pjNext'[w] = NoJob
      /\ pj'[w] = j /\ pjq'[w] = q /\ fCompleted'[w] = fCompleted[w] /\ pc'[w] = "drain"
  BY <1>0, <1>j DEF LocalOK, LocalTypes, NoJobLabels, CompletionLabels, ScheduleLabels
<1>3. /\ Runs(w, j) /\ Runs(w, j)' /\ Executes(w) /\ Performs(w) /\ Performs(w)'
      /\ ~Draining(w) /\ Draining(w)' /\ Executes(w)'
      /\ \A k \in Jobs : ~Holds(w, k) /\ ~Holds(w, k)'
      /\ \A k \in Jobs : Runs(w, k)' <=> Runs(w, k)
  BY <1>0, <1>j, <1>2 DEF Executes, Runs, Performs, Draining, Holds
<1>4. /\ jobQueue[j] = q /\ mainJob[q] = j /\ ~opCompleted[q] /\ fCompleted[w]
      /\ PendingChildren(j) = {}
  BY <1>0, <1>j, <1>3 DEF WorkerOK
<1>. HIDE DEF NotifyCompleted, Goto, jobLocals
<1>5. \A k : PendingChildren(k)' = PendingChildren(k) /\ (InQueue(k)' <=> InQueue(k))
  BY <1>1 DEF PendingChildren, InQueue
<1>6. \A k \in Jobs : Finished(k) => Finished(k)'
  <2>1. \A k \in Jobs : jobQueue[k] \in Queues \union {NoQueue}
    BY <1>0 DEF JobTypes
  <2>. QED
    BY <1>1, <1>5, <2>1 DEF Finished
<1>7. /\ \A v \in Workers, k \in Jobs : Runs(v, k)' <=> Runs(v, k)
      /\ \A v \in Workers, k \in Jobs : Holds(v, k)' <=> Holds(v, k)
      /\ \A v \in Workers : pjDone'[v] = pjDone[v] /\ (Draining(v) => Draining(v)')
                            /\ (Performs(v)' <=> Performs(v))
  BY <1>1, <1>2, <1>3, OthersSame
<1>8. ASSUME NEW v \in Workers PROVE WorkerOK(v)'
  <2>1. CASE v = w
    BY <1>1, <1>2, <1>3, <1>4, <1>5, <1>j, <2>1 DEF WorkerOK
  <2>2. CASE v # w
    <3>1. LocalOK(v) /\ LocalTypes /\ WorkerOK(v) /\ pj'[v] = pj[v] /\ pjDone'[v] = pjDone[v]
      BY <1>1, <2>2 DEF Safe, Typed, TypeOK, WorkersOK, SameLocals
    <3>2. pc[v] \in {"check", "add"} => pjq[v] # NoQueue
      BY <3>1 DEF LocalOK, NoQueue
    <3>3. Executes(v) => pj[v] \in Jobs \ {j}
      BY <1>3, <2>2, <3>1 DEF Executes, LocalTypes, Safe, HandsOK, Runs
    <3>4. Executes(v) =>
            /\ jobQueue'[pj[v]] = jobQueue[pj[v]]
            /\ PendingChildren(pj[v])' \subseteq PendingChildren(pj[v])
            /\ InQueue(pj[v])' => InQueue(pj[v])
            /\ Finished(pj[v]) => Finished(pj[v])'
      BY <1>1, <1>5, <1>6, <3>1, <3>3 DEF PendingChildren, InQueue, Finished
    <3>5. pc[v] = "resumeParent" => (Finished(pjDone[v]) => Finished(pjDone[v])')
      <4>1. pc[v] = "resumeParent" => pjDone[v] \in Jobs
        BY <3>1 DEF LocalOK, LocalTypes, NoJobLabels, CompletionLabels, ScheduleLabels
      <4>. QED
        BY <1>6, <3>1, <4>1 DEF Finished, InQueue
    <3>6. Executes(v) /\ pjq[v] # NoQueue =>
            (mainJob[pjq[v]] = pj[v] => opCompleted'[pjq[v]] = opCompleted[pjq[v]])
      BY <1>1, <1>4, <3>1, <3>3 DEF LocalTypes
    <3>. QED
      BY <1>1, <2>2, <3>1, <3>2, <3>4, <3>5, <3>6, WorkerFrame
  <2>. QED
    BY <2>1, <2>2
<1>9. \A k \in Jobs : Carried(k)' <=> Carried(k)
  BY <1>7 DEF Carried
<1>10. WaitingOK'
  BY <1>1, <1>9 DEF Safe, WaitingOK
<1>11. HandsOK'
  BY <1>1, <1>7 DEF Safe, HandsOK
<1>12. SlotsOK'
  BY <1>1, <1>7 DEF Safe, SlotsOK
<1>13. QueuesOK'
  <2>1. ASSUME NEW k \in Queues \ {q} PROVE QueueOK(k)'
    BY <1>1, <1>7, <2>1 DEF Safe, QueuesOK, QueueOK
  <2>2. QueueOK(q)'
    BY <1>1, <1>3, <1>4 DEF Safe, QueuesOK, QueueOK
  <2>. QED
    BY <2>1, <2>2 DEF QueuesOK
<1>14. NotLost'
  BY <1>1, <1>5, <1>9 DEF Safe, NotLost
<1>15. RefsExact'
  <2>1. \A k \in Jobs : Executed(k)' <=> Executed(k)
    BY <1>7 DEF Executed
  <2>2. \A k \in Jobs : HeldByQueue(k)' <=> HeldByQueue(k)
    <3>. SUFFICES ASSUME NEW k \in Jobs PROVE HeldByQueue(k)' <=> HeldByQueue(k)
      OBVIOUS
    <3>1. (\E v \in Workers : Runs(v, k) /\ Performs(v))' <=> \E v \in Workers : Runs(v, k) /\ Performs(v)
      BY <1>7
    <3>. QED
      BY <1>1, <3>1 DEF HeldByQueue, Runs, Performs
  <2>. QED
    BY <1>1, <1>5, <2>1, <2>2, RefsStay
<1>. QED
  BY <1>8, <1>10, <1>11, <1>12, <1>13, <1>14, <1>15 DEF Safe, WorkersOK

\* A step of w that keeps what the other workers rely on.
LEMMA OtherWorkers ==
  ASSUME Safe, NEW w \in Workers, \A v \in Workers \ {w} : SameLocals(v),
         UNCHANGED <<mainJob, opCompleted>>,
         \A v \in Workers \ {w}, k \in Jobs : Runs(v, k) =>
            /\ jobQueue'[k] = jobQueue[k]
            /\ PendingChildren(k)' \subseteq PendingChildren(k)
            /\ InQueue(k)' => InQueue(k)
            /\ Finished(k) => Finished(k)',
         \A v \in Workers \ {w}, k \in Jobs : Holds(v, k) /\ Finished(k) => Finished(k)',
         \A v \in Workers \ {w} : status[pjDone[v]] = "done" => status'[pjDone[v]] = "done"
  PROVE  /\ \A v \in Workers \ {w} : WorkerOK(v)'
         /\ \A v \in Workers \ {w} :
              /\ pjDone'[v] = pjDone[v] /\ (Performs(v)' <=> Performs(v))
              /\ Draining(v)' <=> Draining(v)
              /\ \A k : (Runs(v, k)' <=> Runs(v, k)) /\ (Holds(v, k)' <=> Holds(v, k))
<1>. USE NoJobAssumption, QueuesAssumption
<1>1. ASSUME NEW v \in Workers \ {w} PROVE WorkerOK(v)'
  <2>1. LocalOK(v) /\ LocalTypes /\ WorkerOK(v) /\ pj'[v] = pj[v] /\ pjDone'[v] = pjDone[v]
    BY <1>1 DEF Safe, Typed, TypeOK, WorkersOK, SameLocals
  <2>2. pc[v] \in {"check", "add"} => pjq[v] # NoQueue
    BY <2>1 DEF LocalOK, NoQueue
  <2>3. Executes(v) => pj[v] \in Jobs /\ Runs(v, pj[v])
    BY <2>1 DEF Executes, LocalTypes, Runs
  <2>4. Executes(v) =>
          /\ jobQueue'[pj[v]] = jobQueue[pj[v]]
          /\ PendingChildren(pj[v])' \subseteq PendingChildren(pj[v])
          /\ InQueue(pj[v])' => InQueue(pj[v])
          /\ Finished(pj[v]) => Finished(pj[v])'
    BY <2>1, <2>3 DEF PendingChildren, InQueue, Finished
  <2>5. pc[v] = "resumeParent" => (Finished(pjDone[v]) => Finished(pjDone[v])')
    <3>1. pc[v] = "resumeParent" => pjDone[v] \in Jobs /\ Holds(v, pjDone[v])
      BY <2>1 DEF LocalOK, LocalTypes, NoJobLabels, CompletionLabels, ScheduleLabels, Holds
    <3>. QED
      BY <2>1, <3>1 DEF Finished, InQueue
  <2>. QED
    BY <1>1, <2>1, <2>2, <2>4, <2>5, WorkerFrame
<1>. QED
  BY <1>1, OthersSame

\* Which jobs a queue holds depends on its list and on who performs.
LEMMA HeldSame ==
  ASSUME NEW j, jobQueue'[j] = jobQueue[j], UNCHANGED mainJob,
         InQueue(j)' <=> InQueue(j),
         \A v \in Workers : Runs(v, j)' /\ Performs(v)' <=> Runs(v, j) /\ Performs(v)
  PROVE  HeldByQueue(j)' <=> HeldByQueue(j)
<1>1. (\E v \in Workers : Runs(v, j) /\ Performs(v))' <=> \E v \in Workers : Runs(v, j) /\ Performs(v)
  OBVIOUS
<1>. QED
  BY <1>1 DEF HeldByQueue, InQueue, Runs, Performs

\* CJobQueue::NotifyCompleted resumes a job queued behind the main job.
LEMMA DrainOneKeeps == ASSUME Safe, Typed', NEW w \in Workers, DrainOne(w) PROVE Safe'
<1>. USE NoJobAssumption, QueuesAssumption DEF DrainOne, Goto, jobLocals
<1>0. LocalOK(w) /\ LocalTypes /\ JobTypes /\ WorkerOK(w) /\ listQueued \in [Queues -> Seq(Jobs)]
  BY DEF Safe, Typed, TypeOK, QueueTypes, WorkersOK
<1>q. PICK q \in Queues : pjq[w] = q /\ q # NoQueue
  BY <1>0 DEF LocalOK, NoQueue
<1>m. PICK m \in Jobs : pj[w] = m
  BY <1>0 DEF LocalOK, LocalTypes, NoJobLabels
<1>1. QueueOK(q) /\ Distinct(listQueued[q]) /\ listQueued[q] # <<>> /\ listQueued[q] \in Seq(Jobs)
  BY <1>0, <1>q DEF Safe, QueuesOK, QueueOK
<1>j. PICK j \in Jobs : j = Head(listQueued[q])
  BY <1>1, ListPop
<1>2. /\ InList(j, listQueued[q]) /\ listQueued'[q] = Tail(listQueued[q]) /\ Distinct(listQueued'[q])
      /\ \A k : InList(k, listQueued'[q]) <=> InList(k, listQueued[q]) /\ k # j
      /\ \A k \in Queues \ {q} : listQueued'[k] = listQueued[k]
  BY <1>0, <1>1, <1>j, <1>q, ListPop
<1>3. /\ \A v \in Workers \ {w} : SameLocals(v)
      /\ UNCHANGED <<parent, jobQueue, status, below, mainJob, opCompleted, listWaiting>>
      /\ refs'[j] = refs[j] - 1 /\ \A k \in Jobs \ {j} : refs'[k] = refs[k]
  BY <1>0, <1>j, <1>q DEF LocalTypes, SameLocals, JobTypes
<1>4. /\ pjDone[w] = NoJob /\ pjNext[w] = NoJob /\ pjNext'[w] = NoJob /\ pc[w] = "drain"
      /\ pj'[w] = m /\ pjq'[w] = q /\ fCompleted'[w] = fCompleted[w]
      /\ IF refs[j] = 1 THEN pjDone'[w] = j /\ pc'[w] = "resumeParent"
                        ELSE pjDone'[w] = NoJob /\ pc'[w] = "drain"
  BY <1>0, <1>j, <1>m, <1>q
  DEF LocalOK, LocalTypes, NoJobLabels, CompletionLabels, ScheduleLabels
<1>5. /\ Runs(w, m) /\ Executes(w) /\ Performs(w) /\ Draining(w)
      /\ \A k \in Jobs : ~Holds(w, k)
  BY <1>0, <1>m, <1>4 DEF Executes, Runs, Performs, Draining, Holds
<1>6. /\ jobQueue[m] = q /\ mainJob[q] = m /\ opCompleted[q] /\ fCompleted[w]
      /\ PendingChildren(m) = {} /\ status[m] = "pending"
  BY <1>0, <1>m, <1>q, <1>5 DEF WorkerOK, Safe, HandsOK
<1>7. status[j] = "pending" /\ jobQueue[j] = q /\ InQueue(j)
  BY <1>1, <1>2, <1>q DEF QueueOK, InQueue
<1>. HIDE DEF DrainOne, Goto, jobLocals
<1>8. HeldByQueue(j)
  BY <1>5, <1>6, <1>7, HeldInQueue
<1>9. RefsOf(j) /\ RefsOf(m)
  BY RefsUnfold DEF Safe
<1>10. refs[j] = 1 => PendingChildren(j) = {} /\ ~Executed(j) /\ j # m
  <2>1. refs[j] = 1 => PendingChildren(j) = {} /\ ~Executed(j)
    BY <1>8, <1>9, ChildrenFinite DEF RefsOf
  <2>. QED
    BY <1>5, <2>1 DEF Executed
<1>11. /\ Runs(w, m)' /\ Executes(w)' /\ Performs(w)' /\ Draining(w)'
       /\ \A k \in Jobs : Runs(w, k)' <=> Runs(w, k)
       /\ \A k \in Jobs : Holds(w, k)' <=> k = j /\ refs[j] = 1
  BY <1>4, <1>5, <1>10, <1>m DEF Executes, Runs, Performs, Draining, Holds
<1>12. /\ \A k : PendingChildren(k)' = PendingChildren(k)
       /\ \A k \in Jobs : InQueue(k)' <=> InQueue(k) /\ k # j
       /\ \A k \in Jobs : Finished(k) => Finished(k)'
       /\ Finished(j)'
  <2>1. \A k : PendingChildren(k)' = PendingChildren(k)
    BY <1>3 DEF PendingChildren
  <2>2. \A k \in Jobs : jobQueue[k] \in Queues \union {NoQueue}
    BY <1>0 DEF JobTypes
  <2>3. \A k \in Jobs : InQueue(k)' <=> InQueue(k) /\ k # j
    BY <1>2, <1>3, <1>7, <2>2 DEF InQueue
  <2>. QED
    BY <1>3, <1>6, <1>7, <2>1, <2>3 DEF Finished
<1>13. /\ \A v \in Workers \ {w} : WorkerOK(v)'
       /\ \A v \in Workers \ {w} :
            /\ pjDone'[v] = pjDone[v] /\ (Performs(v)' <=> Performs(v))
            /\ Draining(v)' <=> Draining(v)
            /\ \A k : (Runs(v, k)' <=> Runs(v, k)) /\ (Holds(v, k)' <=> Holds(v, k))
  BY <1>3, <1>12, OtherWorkers
<1>14. WorkerOK(w)'
  <2>1. pjDone'[w] \in {NoJob, j} /\ (pc'[w] = "resumeParent" => pjDone'[w] = j)
        /\ (pjDone'[w] # NoJob => pc'[w] = "resumeParent")
    BY <1>4
  <2>2. PendingChildren(m)' = {} /\ jobQueue'[m] = q /\ opCompleted'[q] /\ mainJob'[q] = m
    BY <1>3, <1>6, <1>12
  <2>3. pc'[w] = "resumeParent" => Finished(pjDone[w])'
    BY <1>12, <2>1 DEF Finished, InQueue
  <2>4. pc'[w] \in {"drain", "resumeParent"}
    BY <1>4
  <2>. QED
    BY <1>4, <1>6, <1>11, <1>q, <2>1, <2>2, <2>3, <2>4 DEF WorkerOK
<1>15. /\ \A v \in Workers : pjDone[v] # j
       /\ refs[j] = 1 => ~InList(j, listWaiting)
                         /\ \A v \in Workers : ~Runs(v, j) /\ ~Holds(v, j)
  <2>1. refs[j] # 0
    BY <1>8, <1>9, ChildrenFinite DEF RefsOf
  <2>2. ~InList(j, listWaiting) /\ \A v \in Workers : ~Holds(v, j)
    BY <2>1 DEF Safe, WaitingOK, HandsOK
  <2>3. \A v \in Workers : pjDone[v] # j
    BY <1>7, <2>2 DEF Safe, WorkersOK, WorkerOK, Holds
  <2>. QED
    BY <1>10, <2>2, <2>3 DEF Executed
<1>16. \A k \in Jobs \ {j} : Carried(k)' <=> Carried(k)
  BY <1>5, <1>11, <1>13 DEF Carried
<1>17. WaitingOK'
  <2>1. ~InList(j, listWaiting)
    <3>1. refs[j] # 0
      BY <1>8, <1>9, ChildrenFinite DEF RefsOf
    <3>. QED
      BY <3>1 DEF Safe, WaitingOK
  <2>. QED
    BY <1>3, <1>16, <2>1 DEF Safe, WaitingOK
<1>18. HandsOK'
  <2>1. \A v \in Workers, k \in Jobs :
          /\ Runs(v, k)' <=> Runs(v, k)
          /\ Holds(v, k)' <=> Holds(v, k) \/ (v = w /\ k = j /\ refs[j] = 1)
    BY <1>5, <1>11, <1>13
  <2>2. \A v \in Workers, k \in Jobs : Holds(v, k)' => status'[k] = "pending" /\ refs'[k] = 0
    <3>1. \A v \in Workers : ~Holds(v, j)
      BY <1>8, <1>9, ChildrenFinite DEF RefsOf, Safe, HandsOK
    <3>. QED
      BY <1>0, <1>3, <1>7, <2>1, <3>1 DEF Safe, HandsOK
  <2>3. \A v \in Workers, k \in Jobs : Runs(v, k)' => status'[k] = "pending" /\ ~Holds(v, k)'
    BY <1>3, <1>15, <2>1 DEF Safe, HandsOK
  <2>4. \A u, v \in Workers : pjDone'[u] = pjDone'[v] /\ pjDone'[u] # NoJob => u = v
    BY <1>4, <1>13, <1>15 DEF Safe, HandsOK
  <2>5. \A u, v \in Workers, k \in Jobs :
          (Runs(u, k)' \/ Holds(u, k)') /\ (Runs(v, k)' \/ Holds(v, k)') => u = v
    BY <1>15, <2>1 DEF Safe, HandsOK
  <2>. QED
    BY <2>2, <2>3, <2>4, <2>5 DEF HandsOK
<1>19. SlotsOK'
  <2>1. \A v \in Workers, k \in Jobs : pjDone[v] = k => pjDone'[v] = k
    BY <1>4, <1>13
  <2>. QED
    BY <1>3, <2>1 DEF Safe, SlotsOK
<1>20. QueuesOK'
  <2>1. ASSUME NEW k \in Queues \ {q} PROVE QueueOK(k)'
    <3>1. \A v \in Workers, i \in Jobs : Runs(v, i) /\ Draining(v) => Runs(v, i)' /\ Draining(v)'
      BY <1>11, <1>13
    <3>. QED
      BY <1>2, <1>3, <2>1, <3>1 DEF Safe, QueuesOK, QueueOK
  <2>2. QueueOK(q)'
    BY <1>1, <1>2, <1>3, <1>6, <1>11 DEF QueueOK
  <2>. QED
    BY <2>1, <2>2 DEF QueuesOK
<1>21. NotLost'
  <2>. SUFFICES ASSUME NEW k \in Jobs, status[k] = "pending", ~InList(k, listWaiting), ~Carried(k)'
                PROVE  PendingChildren(k)' # {} \/ (InQueue(k)' /\ mainJob'[jobQueue'[k]] # k)
    BY <1>3 DEF NotLost
  <2>1. CASE k # j
    BY <1>3, <1>12, <1>16, <2>1 DEF Safe, NotLost
  <2>2. CASE k = j
    <3>1. ~Executed(j) /\ refs[j] # 1
      BY <1>11, <1>13, <2>2 DEF Carried, Executed
    <3>2. PendingChildren(j) # {}
      BY <1>8, <1>9, <3>1, FS_EmptySet DEF RefsOf
    <3>. QED
      BY <1>12, <2>2, <3>2
  <2>. QED
    BY <2>1, <2>2
<1>22. RefsExact'
  <2>1. \A k \in Jobs : Executed(k)' <=> Executed(k)
    BY <1>11, <1>13 DEF Executed
  <2>2. \A k \in Jobs \ {j} : HeldByQueue(k)' <=> HeldByQueue(k)
    BY <1>3, <1>5, <1>11, <1>12, <1>13, HeldSame
  <2>3. RefsOf(j)'
    <3>1. ~HeldByQueue(j)'
      BY <1>12 DEF HeldByQueue, InQueue
    <3>2. PendingChildren(j)' = PendingChildren(j)
      BY <1>12
    <3>. QED
      BY <1>3, <1>8, <1>9, <2>1, <3>1, <3>2, ChildrenFinite DEF RefsOf
  <2>. QED
    BY <1>3, <1>12, <2>1, <2>2, <2>3, RefsStay
<1>. QED
  BY <1>13, <1>14, <1>17, <1>18, <1>19, <1>20, <1>21, <1>22 DEF Safe, WorkersOK

\* CScheduler::ResumeParent returns the reference of the parent.
LEMMA ResumeParentKeeps == ASSUME Safe, Typed', NEW w \in Workers, ResumeParent(w) PROVE Safe'
<1>. USE NoJobAssumption DEF ResumeParent, Goto, jobLocals
<1>0. LocalOK(w) /\ LocalTypes /\ JobTypes /\ WorkerOK(w)
  BY DEF Safe, Typed, TypeOK, WorkersOK
<1>j. PICK j \in Jobs : pjDone[w] = j
  BY <1>0 DEF LocalOK, LocalTypes, CompletionLabels
<1>p. PICK p \in Jobs \union {NoJob} : parent[j] = p
  BY <1>0 DEF JobTypes
<1>1. /\ \A v \in Workers \ {w} : SameLocals(v)
      /\ UNCHANGED <<parent, jobQueue, below, queueVars, listWaiting>>
      /\ status'[j] = "done" /\ \A k \in Jobs \ {j} : status'[k] = status[k]
      /\ p # NoJob => refs'[p] = refs[p] - 1
      /\ \A k \in Jobs \ {p} : refs'[k] = refs[k]
  BY <1>0, <1>j, <1>p DEF LocalTypes, SameLocals, JobTypes
<1>2. /\ pc[w] = "resumeParent" /\ pjNext[w] = NoJob /\ pjDone'[w] = j
      /\ pj'[w] = pj[w] /\ pjq'[w] = pjq[w] /\ fCompleted'[w] = fCompleted[w]
      /\ IF p # NoJob /\ refs[p] = 1 THEN pjNext'[w] = p /\ pc'[w] = "push"
                                     ELSE pjNext'[w] = NoJob /\ pc'[w] = "decTotal"
  BY <1>0, <1>j, <1>p
  DEF LocalOK, LocalTypes, NoJobLabels, CompletionLabels, ScheduleLabels
<1>. HIDE DEF ResumeParent, Goto, jobLocals
<1>3. /\ Holds(w, j) /\ \A k \in Jobs : Holds(w, k) <=> k = j
  BY <1>j, <1>2 DEF Holds
<1>4. /\ status[j] = "pending" /\ refs[j] = 0 /\ ~InList(j, listWaiting)
      /\ \A v \in Workers : ~Runs(v, j) /\ (v # w => ~Holds(v, j))
  BY <1>3 DEF Safe, HandsOK, WaitingOK, Carried
<1>5. PendingChildren(j) = {} /\ ~HeldByQueue(j) /\ Finished(j)
  BY <1>0, <1>2, <1>j, <1>4, NoReferences, RefsUnfold DEF Safe, WorkerOK
<1>6. /\ \A k \in Queues : ~InList(j, listQueued[k])
      /\ \A k \in Queues : listQueued[k] # <<>> => mainJob[k] # j
  <2>1. \A k \in Queues : ~InList(j, listQueued[k])
    BY <1>5, QueuesAssumption DEF Safe, QueuesOK, QueueOK, Finished, InQueue, NoQueue
  <2>. QED
    BY <1>4, <2>1 DEF Safe, QueuesOK, QueueOK
<1>7. p # NoJob => /\ p \in Jobs /\ p # j /\ status[p] = "pending" /\ j \in PendingChildren(p)
                   /\ refs[p] # 0 /\ RefsOf(p)
  <2>1. p # NoJob => p \in Jobs /\ j \in PendingChildren(p) /\ RefsOf(p) /\ status[p] = "pending"
    BY <1>p, <1>4, RefsUnfold DEF PendingChildren, Safe, SlotsOK
  <2>. QED
    BY <1>5, <2>1, NoReferences
<1>8. /\ p # NoJob => PendingChildren(p)' = PendingChildren(p) \ {j}
      /\ \A k \in Jobs \ {p} : PendingChildren(k)' = PendingChildren(k)
      /\ \A k \in Jobs : PendingChildren(k)' \subseteq PendingChildren(k)
  BY <1>1, <1>p DEF PendingChildren
<1>9. /\ \A k \in Jobs : InQueue(k)' <=> InQueue(k)
      /\ \A k \in Jobs : Finished(k)' <=> Finished(k)
  BY <1>1 DEF InQueue, Finished, queueVars
<1>10. /\ \A v \in Workers \ {w} : WorkerOK(v)'
       /\ \A v \in Workers \ {w} :
            /\ pjDone'[v] = pjDone[v] /\ (Performs(v)' <=> Performs(v))
            /\ Draining(v)' <=> Draining(v)
            /\ \A k : (Runs(v, k)' <=> Runs(v, k)) /\ (Holds(v, k)' <=> Holds(v, k))
  <2>1. ASSUME NEW v \in Workers \ {w}, status[pjDone[v]] = "done" PROVE status'[pjDone[v]] = "done"
    <3>1. pjDone[v] # j
      BY <1>4, <2>1
    <3>2. status' = [status EXCEPT ![j] = "done"]
      BY <1>j DEF ResumeParent
    <3>. QED
      BY <1>0, <2>1, <3>1, <3>2 DEF JobTypes
  <2>. QED
    BY <1>1, <1>8, <1>9, <2>1, OtherWorkers DEF queueVars
<1>11. p # NoJob => pj[w] # p \/ ~Executes(w)
  <2>. SUFFICES ASSUME p # NoJob, pj[w] = p, Executes(w) PROVE FALSE
    OBVIOUS
  <2>1. PendingChildren(p) = {}
    BY <1>0, <1>j, <1>2 DEF WorkerOK, Draining
  <2>. QED
    BY <1>7, <2>1
<1>12. /\ Executes(w) => pjDone[w] # pj[w]
       /\ pj[w] # NoJob /\ pjDone[w] # pj[w] => Executes(w)
  BY <1>2 DEF Executes
<1>13. /\ Executes(w)' <=> Executes(w)
       /\ \A k \in Jobs : Runs(w, k)' <=> Runs(w, k)
       /\ Performs(w)' <=> Performs(w)
       /\ Draining(w)' <=> Draining(w)
       /\ \A k \in Jobs : Holds(w, k)' <=> p # NoJob /\ refs[p] = 1 /\ k = p
  BY <1>2, <1>7, <1>11, <1>12, <1>j DEF Executes, Runs, Performs, Draining, Holds
<1>14. WorkerOK(w)'
  <2>1. pj[w] \in Jobs \union {NoJob}
    BY <1>0 DEF LocalTypes
  <2>2. Executes(w) => /\ pj[w] \in Jobs /\ jobQueue'[pj[w]] = jobQueue[pj[w]]
                       /\ PendingChildren(pj[w])' \subseteq PendingChildren(pj[w])
                       /\ Draining(w)
    BY <1>1, <1>2, <1>8, <1>j, <2>1 DEF Executes, Draining
  <2>3. Executes(w)' => /\ pjq'[w] = jobQueue'[pj'[w]]
                        /\ PendingChildren(pj[w])' = {}
                        /\ fCompleted'[w] /\ pjq'[w] # NoQueue
    <3>. SUFFICES ASSUME Executes(w)'
                  PROVE  /\ pjq'[w] = jobQueue'[pj'[w]]
                         /\ PendingChildren(pj[w])' = {}
                         /\ fCompleted'[w] /\ pjq'[w] # NoQueue
      OBVIOUS
    <3>2. PendingChildren(pj[w]) = {}
      BY <1>0, <1>13, <2>2 DEF WorkerOK
    <3>3. PendingChildren(pj[w])' = {}
      BY <1>1, <1>2, <3>2 DEF PendingChildren
    <3>. QED
      BY <1>0, <1>2, <1>13, <2>2, <3>3 DEF WorkerOK
  <2>4. Performs(w)' /\ pjq'[w] # NoQueue =>
          mainJob'[pjq'[w]] = pj'[w] /\ (opCompleted'[pjq'[w]] <=> Draining(w)')
    BY <1>0, <1>1, <1>2, <1>13 DEF WorkerOK, queueVars
  <2>5. pjDone'[w] \notin {NoJob, pj'[w]} => pjNext'[w] # pj'[w]
    <3>1. pjDone[w] \notin {NoJob, pj[w]} => Executes(w) \/ pj[w] = NoJob
      BY <1>12
    <3>2. pj[w] # NoJob
      BY <1>0, <1>2 DEF LocalOK, NoJobLabels
    <3>. QED
      BY <1>2, <1>11, <1>j, <3>1, <3>2
  <2>. QED
    BY <1>1, <1>2, <2>3, <2>4, <2>5 DEF WorkerOK
<1>15. p # NoJob /\ refs[p] = 1 => ~Executed(p) /\ ~HeldByQueue(p) /\ PendingChildren(p)' = {}
  <2>. SUFFICES ASSUME p # NoJob, refs[p] = 1
                PROVE  ~Executed(p) /\ ~HeldByQueue(p) /\ PendingChildren(p)' = {}
    OBVIOUS
  <2>1. Cardinality(PendingChildren(p)) # 0
    BY <1>7, ChildrenFinite
  <2>2. ~Executed(p) /\ ~HeldByQueue(p) /\ Cardinality(PendingChildren(p)) = 1
    BY <1>7, <2>1, ChildrenFinite DEF RefsOf
  <2>5. Cardinality(PendingChildren(p) \ {j}) = Cardinality(PendingChildren(p)) - 1
    BY <1>7, ChildrenFinite, FS_RemoveElement
  <2>3. Cardinality(PendingChildren(p) \ {j}) = 0
    BY <2>2, <2>5
  <2>4. IsFiniteSet(PendingChildren(p) \ {j})
    BY ChildrenFinite, FS_RemoveElement
  <2>. QED
    BY <1>8, <2>2, <2>3, <2>4, FS_EmptySet
<1>16. p # NoJob => ~InList(p, listWaiting) /\ \A v \in Workers : ~Holds(v, p)
  BY <1>7 DEF Safe, WaitingOK, HandsOK
<1>17. /\ \A v \in Workers, k \in Jobs : Runs(v, k)' <=> Runs(v, k)
       /\ \A v \in Workers, k \in Jobs :
            Holds(v, k)' <=> (Holds(v, k) /\ k # j) \/ (v = w /\ p # NoJob /\ refs[p] = 1 /\ k = p)
       /\ \A v \in Workers : pjDone'[v] = pjDone[v]
  BY <1>2, <1>3, <1>4, <1>7, <1>10, <1>13, <1>j
<1>18. WaitingOK'
  <2>1. \A k \in Jobs \ {j, p} : Carried(k)' <=> Carried(k)
    BY <1>17 DEF Carried
  <2>. QED
    BY <1>1, <1>4, <1>16, <2>1 DEF Safe, WaitingOK
<1>19. HandsOK'
  <2>1. \A v \in Workers, k \in Jobs : Holds(v, k)' => status'[k] = "pending" /\ refs'[k] = 0
    BY <1>1, <1>7, <1>16, <1>17 DEF Safe, HandsOK
  <2>2. \A v \in Workers, k \in Jobs : Runs(v, k)' => status'[k] = "pending" /\ ~Holds(v, k)'
    BY <1>1, <1>4, <1>15, <1>17 DEF Safe, HandsOK, Executed
  <2>3. \A u, v \in Workers, k \in Jobs :
          (Runs(u, k)' \/ Holds(u, k)') /\ (Runs(v, k)' \/ Holds(v, k)') => u = v
    BY <1>15, <1>16, <1>17 DEF Safe, HandsOK, Executed
  <2>. QED
    BY <1>17, <2>1, <2>2, <2>3 DEF Safe, HandsOK
<1>20. SlotsOK'
  <2>1. \A k \in Jobs : parent[k] = j => status[k] # "pending"
    BY <1>5 DEF PendingChildren
  <2>2. \A k \in Jobs :
          /\ status[k] = "pending" /\ parent[k] # NoJob => status[parent[k]] = "pending"
          /\ status[k] = "free" => parent[k] = NoJob /\ jobQueue[k] = NoQueue /\ below[k] = {}
          /\ status[k] = "done" => \E v \in Workers : pjDone[v] = k
          /\ parent[k] \in Jobs \union {NoJob}
    BY <1>0 DEF Safe, SlotsOK, JobTypes
  <2>3. \A k \in Jobs : status'[k] = "pending" /\ parent'[k] # NoJob => status'[parent'[k]] = "pending"
    BY <1>1, <2>1, <2>2
  <2>4. \A k \in Jobs : status'[k] = "free" =>
                        parent'[k] = NoJob /\ jobQueue'[k] = NoQueue /\ below'[k] = {}
    BY <1>1, <2>2
  <2>5. \A k \in Jobs : status'[k] = "done" => \E v \in Workers : pjDone'[v] = k
    BY <1>1, <1>17, <1>j, <2>2
  <2>. QED
    BY <2>3, <2>4, <2>5 DEF SlotsOK
<1>21. QueuesOK'
  <2>1. \A v \in Workers, k \in Jobs : Runs(v, k) /\ Draining(v) => Runs(v, k)' /\ Draining(v)'
    BY <1>10, <1>13
  <2>. QED
    BY <1>1, <1>6, <2>1 DEF Safe, QueuesOK, QueueOK, queueVars
<1>22. \A k \in Jobs : (Executed(k)' <=> Executed(k)) /\ (HeldByQueue(k)' <=> HeldByQueue(k))
  <2>1. \A k \in Jobs : Executed(k)' <=> Executed(k)
    BY <1>17 DEF Executed
  <2>2. ASSUME NEW k \in Jobs PROVE HeldByQueue(k)' <=> HeldByQueue(k)
    <3>1. \A v \in Workers : Runs(v, k)' /\ Performs(v)' <=> Runs(v, k) /\ Performs(v)
      BY <1>10, <1>13
    <3>. QED
      BY <1>1, <1>9, <3>1, HeldSame DEF queueVars
  <2>. QED
    BY <2>1, <2>2
<1>23. NotLost'
  <2>. SUFFICES ASSUME NEW k \in Jobs, status'[k] = "pending", ~InList(k, listWaiting'), ~Carried(k)'
                PROVE  PendingChildren(k)' # {} \/ (InQueue(k)' /\ mainJob'[jobQueue'[k]] # k)
    BY DEF NotLost
  <2>1. k # j /\ status[k] = "pending" /\ ~InList(k, listWaiting) /\ ~Executed(k)
    BY <1>1, <1>17 DEF Carried, Executed
  <2>2. CASE k # p
    <3>1. ~Carried(k)
      BY <1>17, <2>1 DEF Carried
    <3>. QED
      BY <1>1, <1>8, <1>9, <2>1, <2>2, <3>1 DEF Safe, NotLost, queueVars
  <2>3. CASE k = p
    <3>0. p # NoJob
      BY <2>3
    <3>1. refs[p] # 1
      BY <1>17, <2>3, <3>0 DEF Carried
    <3>2. PendingChildren(p)' # {} \/ HeldByQueue(p)
      <4>. SUFFICES ASSUME PendingChildren(p)' = {}, ~HeldByQueue(p) PROVE FALSE
        OBVIOUS
      <4>1. Cardinality(PendingChildren(p)) = 1
        BY <1>7, <1>8, <3>0, ChildrenFinite, FS_RemoveElement, FS_EmptySet
      <4>. QED
        BY <1>7, <2>1, <2>3, <3>0, <3>1, <4>1 DEF RefsOf
    <3>3. HeldByQueue(p) => InQueue(p) /\ mainJob[jobQueue[p]] # p
      BY <2>1, <2>3, HeldInQueue DEF Executed
    <3>. QED
      BY <1>1, <1>9, <2>3, <3>2, <3>3 DEF queueVars
  <2>. QED
    BY <2>2, <2>3
<1>24. RefsExact'
  <2>1. p # NoJob => RefsOf(p)'
    <3>. SUFFICES ASSUME p # NoJob PROVE RefsOf(p)'
      OBVIOUS
    <3>1. Cardinality(PendingChildren(p)') = Cardinality(PendingChildren(p)) - 1
      BY <1>7, <1>8, ChildrenFinite, FS_RemoveElement
    <3>. QED
      BY <1>1, <1>7, <1>22, <3>1, ChildrenFinite DEF RefsOf
  <2>. QED
    BY <1>1, <1>8, <1>22, <2>1, RefsStay
<1>. QED
  BY <1>10, <1>14, <1>18, <1>19, <1>20, <1>21, <1>23, <1>24 DEF Safe, WorkersOK

\* CJobFactory::Release recycles a completed job.
LEMMA ReleaseKeeps == ASSUME Safe, Typed', NEW w \in Workers, Release(w) PROVE Safe'
<1>. USE NoJobAssumption DEF Release, Goto, jobLocals, NextJob
<1>0. LocalOK(w) /\ LocalTypes /\ JobTypes /\ WorkerOK(w)
  BY DEF Safe, Typed, TypeOK, WorkersOK
<1>j. PICK j \in Jobs : pjDone[w] = j
  BY <1>0 DEF LocalOK, LocalTypes, CompletionLabels
<1>1. /\ \A v \in Workers \ {w} : SameLocals(v)
      /\ UNCHANGED <<refs, queueVars, listWaiting>>
      /\ status'[j] = "free" /\ parent'[j] = NoJob /\ jobQueue'[j] = NoQueue /\ below'[j] = {}
      /\ \A k \in Jobs \ {j} : /\ parent'[k] = parent[k] /\ status'[k] = status[k]
                               /\ jobQueue'[k] = jobQueue[k] /\ below'[k] = below[k]
      /\ status' = [status EXCEPT ![j] = "free"]
  BY <1>0, <1>j DEF LocalTypes, SameLocals, JobTypes
<1>2. /\ pc[w] = "release" /\ pjNext[w] = NoJob /\ pjDone'[w] = NoJob /\ pjNext'[w] = NoJob
      /\ pj[w] \in Jobs /\ fCompleted'[w] = fCompleted[w]
      /\ IF j = pj[w] THEN pj'[w] = NoJob /\ pjq'[w] = NoQueue /\ pc'[w] = "retrieve"
                      ELSE pj'[w] = pj[w] /\ pjq'[w] = pjq[w] /\ pc'[w] = "drain"
  BY <1>0, <1>j
  DEF LocalOK, LocalTypes, NoJobLabels, CompletionLabels, ScheduleLabels
<1>. HIDE DEF Release, Goto, jobLocals, NextJob
<1>3. status[j] = "done"
  BY <1>0, <1>2, <1>j DEF WorkerOK
<1>4. /\ ~InList(j, listWaiting) /\ ~InQueue(j)
      /\ \A v \in Workers : ~Runs(v, j) /\ ~Holds(v, j) /\ (v # w => pjDone[v] # j)
      /\ \A k \in Queues : ~InList(j, listQueued[k]) /\ (listQueued[k] # <<>> => mainJob[k] # j)
  <2>1. /\ ~InList(j, listWaiting) /\ \A v \in Workers : ~Runs(v, j) /\ ~Holds(v, j)
    BY <1>3 DEF Safe, WaitingOK, HandsOK
  <2>2. \A v \in Workers : v # w => pjDone[v] # j
    BY <1>j DEF Safe, HandsOK
  <2>3. \A k \in Queues : ~InList(j, listQueued[k]) /\ (listQueued[k] # <<>> => mainJob[k] # j)
    BY <1>3, <2>1 DEF Safe, QueuesOK, QueueOK
  <2>4. jobQueue[j] \in Queues \union {NoQueue}
    BY <1>0 DEF JobTypes
  <2>. QED
    BY <2>1, <2>2, <2>3, <2>4 DEF InQueue
<1>5. \A k \in Jobs : status[k] = "pending" => parent[k] # j
  BY <1>3 DEF Safe, SlotsOK
<1>6. \A k \in Jobs : PendingChildren(k)' = PendingChildren(k)
  BY <1>1, <1>3 DEF PendingChildren
<1>7. /\ \A k \in Jobs : InQueue(k)' <=> InQueue(k)
      /\ \A k \in Jobs \ {j} : Finished(k)' <=> Finished(k)
  BY <1>1, <1>4 DEF InQueue, Finished, queueVars
<1>8. /\ \A v \in Workers \ {w} : WorkerOK(v)'
      /\ \A v \in Workers \ {w} :
           /\ pjDone'[v] = pjDone[v] /\ (Performs(v)' <=> Performs(v))
           /\ Draining(v)' <=> Draining(v)
           /\ \A k : (Runs(v, k)' <=> Runs(v, k)) /\ (Holds(v, k)' <=> Holds(v, k))
  <2>1. ASSUME NEW v \in Workers \ {w}, status[pjDone[v]] = "done" PROVE status'[pjDone[v]] = "done"
    BY <1>0, <1>1, <1>4, <2>1 DEF JobTypes
  <2>. QED
    BY <1>1, <1>4, <1>6, <1>7, <2>1, OtherWorkers DEF queueVars
<1>9. /\ Executes(w) <=> pj[w] # j
      /\ Executes(w)' <=> Executes(w)
      /\ \A k \in Jobs : Runs(w, k)' <=> Runs(w, k)
      /\ Performs(w)' <=> Performs(w)
      /\ Draining(w)' <=> Draining(w)
      /\ \A k \in Jobs : ~Holds(w, k) /\ ~Holds(w, k)'
  BY <1>2, <1>j DEF Executes, Runs, Performs, Draining, Holds
<1>10. WorkerOK(w)'
  <2>1. CASE j = pj[w]
    BY <1>2, <1>9, <2>1 DEF WorkerOK, Performs
  <2>2. CASE j # pj[w]
    <3>1. PICK m \in Jobs : m = pj[w] /\ m # j
      BY <1>2, <2>2
    <3>2. pj'[w] = m /\ pjq'[w] = pjq[w] /\ pc'[w] = "drain" /\ Executes(w) /\ Draining(w)
      BY <1>2, <1>9, <1>j, <3>1 DEF Draining
    <3>3. /\ pjq[w] = jobQueue[m] /\ jobQueue'[m] = jobQueue[m] /\ PendingChildren(m)' = {}
          /\ fCompleted[w] /\ pjq[w] # NoQueue
      BY <1>0, <1>1, <1>6, <3>1, <3>2 DEF WorkerOK
    <3>4. Performs(w)' /\ pjq[w] # NoQueue =>
            mainJob'[pjq[w]] = m /\ (opCompleted'[pjq[w]] <=> Draining(w)')
      BY <1>0, <1>1, <1>9, <3>1 DEF WorkerOK, queueVars
    <3>. QED
      BY <1>2, <1>9, <3>2, <3>3, <3>4 DEF WorkerOK
  <2>. QED
    BY <2>1, <2>2
<1>11. /\ \A v \in Workers, k \in Jobs : Runs(v, k)' <=> Runs(v, k)
       /\ \A v \in Workers, k \in Jobs : Holds(v, k)' <=> Holds(v, k)
       /\ \A v \in Workers : pjDone'[v] \in {pjDone[v], NoJob}
  BY <1>2, <1>8, <1>9
<1>12. \A k \in Jobs : Carried(k)' <=> Carried(k)
  BY <1>11 DEF Carried
<1>13. WaitingOK'
  BY <1>1, <1>4, <1>12 DEF Safe, WaitingOK
<1>14. HandsOK'
  BY <1>1, <1>4, <1>11 DEF Safe, HandsOK
<1>15. SlotsOK'
  <2>1. \A k \in Jobs :
          /\ status[k] = "pending" /\ parent[k] # NoJob => status[parent[k]] = "pending"
          /\ status[k] = "free" => parent[k] = NoJob /\ jobQueue[k] = NoQueue /\ below[k] = {}
          /\ parent[k] \in Jobs \union {NoJob}
    BY <1>0 DEF Safe, SlotsOK, JobTypes
  <2>2. \A k \in Jobs : status'[k] = "pending" /\ parent'[k] # NoJob => status'[parent'[k]] = "pending"
    BY <1>1, <1>5, <2>1
  <2>3. \A k \in Jobs : status'[k] = "free" =>
                        parent'[k] = NoJob /\ jobQueue'[k] = NoQueue /\ below'[k] = {}
    BY <1>1, <2>1
  <2>4. ASSUME NEW k \in Jobs, status'[k] = "done" PROVE \E v \in Workers : pjDone'[v] = k
    <3>1. k # j /\ status[k] = "done"
      BY <1>1, <2>4
    <3>2. PICK v \in Workers : pjDone[v] = k
      BY <3>1 DEF Safe, SlotsOK
    <3>. QED
      BY <1>8, <1>j, <3>1, <3>2
  <2>. QED
    BY <2>2, <2>3, <2>4 DEF SlotsOK
<1>16. QueuesOK'
  <2>1. \A v \in Workers, k \in Jobs : Runs(v, k) /\ Draining(v) => Runs(v, k)' /\ Draining(v)'
    BY <1>8, <1>9
  <2>. QED
    BY <1>1, <1>4, <2>1 DEF Safe, QueuesOK, QueueOK, queueVars
<1>17. NotLost'
  <2>. SUFFICES ASSUME NEW k \in Jobs, status'[k] = "pending", ~InList(k, listWaiting'), ~Carried(k)'
                PROVE  PendingChildren(k)' # {} \/ (InQueue(k)' /\ mainJob'[jobQueue'[k]] # k)
    BY DEF NotLost
  <2>. QED
    BY <1>1, <1>6, <1>7, <1>12 DEF Safe, NotLost, queueVars
<1>18. RefsExact'
  <2>1. \A k \in Jobs : Executed(k)' <=> Executed(k)
    BY <1>11 DEF Executed
  <2>2. HeldByQueue(j)' <=> HeldByQueue(j)
    BY <1>1, <1>4 DEF HeldByQueue, InQueue
  <2>3. ASSUME NEW k \in Jobs \ {j} PROVE HeldByQueue(k)' <=> HeldByQueue(k)
    <3>1. \A v \in Workers : Runs(v, k)' /\ Performs(v)' <=> Runs(v, k) /\ Performs(v)
      BY <1>8, <1>9
    <3>. QED
      BY <1>1, <1>7, <3>1, HeldSame DEF queueVars
  <2>. QED
    BY <1>1, <1>6, <2>1, <2>2, <2>3, RefsStay
<1>. QED
  BY <1>8, <1>10, <1>13, <1>14, <1>15, <1>16, <1>17, <1>18 DEF Safe, WorkersOK

\* Nothing is left when the workers have exited.
LEMMA NothingLeft ==
  ASSUME Safe, ExitMeansDone, \A w \in Workers : pc[w] = "exit"
  PROVE  /\ listWaiting = <<>> /\ \A q \in Queues : listQueued[q] = <<>>
         /\ \A j \in Jobs : /\ status[j] = "free" /\ parent[j] = NoJob /\ jobQueue[j] = NoQueue
                            /\ refs[j] = 0 /\ below[j] = {} /\ PendingChildren(j) = {}
<1>1. /\ listWaiting = <<>> /\ \A q \in Queues : listQueued[q] = <<>>
      /\ \A j \in Jobs : status[j] # "pending"
  BY FiniteAssumption DEF ExitMeansDone
<1>2. \A w \in Workers : pjDone[w] = NoJob /\ pj[w] = NoJob
  BY DEF Safe, Typed, LocalOK, NoJobLabels, CompletionLabels, ScheduleLabels
<1>3. \A j \in Jobs : status[j] = "free" /\ parent[j] = NoJob /\ jobQueue[j] = NoQueue /\ below[j] = {}
  BY <1>1, <1>2, NoJobAssumption DEF Safe, Typed, TypeOK, JobTypes, SlotsOK
<1>4. ASSUME NEW j \in Jobs PROVE refs[j] = 0 /\ PendingChildren(j) = {}
  <2>1. PendingChildren(j) = {}
    BY <1>1 DEF PendingChildren
  <2>2. ~Executed(j) /\ ~HeldByQueue(j)
    BY <1>2, <1>3, <1>4, NoJobAssumption DEF Executed, Runs, HeldByQueue
  <2>. QED
    BY <2>1, <2>2, NoReferences, RefsUnfold DEF Safe
<1>. QED
  BY <1>1, <1>3, <1>4

\* All workers are idle and one job, a root, waits to be executed.
OneRoot ==
  \E root \in Jobs :
    /\ status[root] = "pending" /\ listWaiting = <<root>>
    /\ \A w \in Workers : pc[w] = "outer"
    /\ \A j \in Jobs : parent[j] = NoJob /\ refs[j] = 0
    /\ \A j \in Jobs \ {root} : status[j] = "free" /\ jobQueue[j] = NoQueue /\ below[j] = {}
    /\ \A q \in Queues : listQueued[q] = <<>> /\ mainJob[q] = NoJob
    /\ ulpTotal = 1

\* With the root alone in the waiting list, the invariant holds.
LEMMA RootOnly == Typed /\ OneRoot => Safe /\ ExitMeansDone /\ TotalOK
<1>. SUFFICES ASSUME Typed, OneRoot PROVE Safe /\ ExitMeansDone /\ TotalOK
  OBVIOUS
<1>. USE NoJobAssumption
<1>r. PICK root \in Jobs :
        /\ status[root] = "pending" /\ listWaiting = <<root>>
        /\ \A w \in Workers : pc[w] = "outer"
        /\ \A j \in Jobs : parent[j] = NoJob /\ refs[j] = 0
        /\ \A j \in Jobs \ {root} : status[j] = "free" /\ jobQueue[j] = NoQueue /\ below[j] = {}
        /\ \A q \in Queues : listQueued[q] = <<>> /\ mainJob[q] = NoJob
        /\ ulpTotal = 1
  BY DEF OneRoot
<1>. USE <1>r
<1>1. \A w \in Workers : pj[w] = NoJob /\ pjq[w] = NoQueue /\ pjDone[w] = NoJob /\ pjNext[w] = NoJob
  BY DEF Typed, LocalOK, NoJobLabels, CompletionLabels, ScheduleLabels
<1>2. \A w \in Workers : ~Executes(w) /\ ~Performs(w) /\ \A j \in Jobs : ~Runs(w, j) /\ ~Holds(w, j)
  BY <1>1 DEF Executes, Performs, Runs, Holds
<1>3. WorkersOK
  BY <1>1, <1>2 DEF WorkersOK, WorkerOK
<1>4. /\ Distinct(listWaiting) /\ \A j : InList(j, listWaiting) <=> j = root
  BY ListSingle
<1>5. WaitingOK /\ NotLost
  BY <1>2, <1>4 DEF WaitingOK, NotLost, Carried
<1>6. HandsOK /\ SlotsOK
  BY <1>1, <1>2 DEF HandsOK, SlotsOK
<1>7. QueuesOK
  BY ListEmpty DEF QueuesOK, QueueOK, Distinct
<1>8. RefsExact
  <2>1. ASSUME NEW j \in Jobs PROVE RefsOf(j)
    <3>1. PendingChildren(j) = {}
      BY DEF PendingChildren
    <3>2. jobQueue[j] \in Queues \union {NoQueue}
      BY DEF Typed, TypeOK, JobTypes
    <3>3. ~Executed(j) /\ ~HeldByQueue(j)
      BY <1>2, <3>2, ListEmpty DEF Executed, HeldByQueue
    <3>. QED
      BY <3>1, <3>3, FS_EmptySet DEF RefsOf
  <2>. QED
    BY <2>1, RefsUnfold
<1>9. TotalOK
  <2>1. Counted = {root}
    BY <1>1 DEF Counted
  <2>. QED
    BY <2>1, FS_Singleton DEF TotalOK
<1>. QED
  BY <1>3, <1>5, <1>6, <1>7, <1>8, <1>9 DEF Safe, ExitMeansDone

-----------------------------------------------------------------------------
(* Every step keeps the invariant.                                         *)

\* Workers that exit or abort have no job.
LEMMA IdleActions ==
  ASSUME Safe, Typed', NEW w \in Workers,
         \/ IncTasksActive(w) \/ RetrieveNothing(w) \/ DecrTasksActive(w) \/ StopWhenEmpty(w)
         \/ WaitForWork(w) \/ WakeUp(w) \/ AbortWaiting(w) \/ AbortBetweenJobs(w)
  PROVE  Safe'
<1>1. PICK label \in NoJobLabels : Goto(w, label)
  BY DEF IncTasksActive, RetrieveNothing, DecrTasksActive, StopWhenEmpty, WaitForWork, WakeUp,
         AbortWaiting, AbortBetweenJobs, NoJobLabels
<1>2. /\ pc[w] \in NoJobLabels \ {"failed"}
      /\ UNCHANGED <<jobVars, queueVars, listWaiting, jobLocals, pjDone, pjNext, fCompleted>>
  BY DEF IncTasksActive, RetrieveNothing, DecrTasksActive, StopWhenEmpty, WaitForWork, WakeUp,
         AbortWaiting, AbortBetweenJobs, NoJobLabels
<1>. QED
  BY <1>1, <1>2, IdleStep

\* A step that changes nothing keeps the invariant.
LEMMA StutterKeeps ==
  ASSUME Safe, Typed', UNCHANGED <<jobVars, queueVars, listWaiting, localVars>>
  PROVE  Safe'
<1>1. PICK w \in Workers : TRUE
  BY FiniteAssumption
<1>2. \A v \in Workers : SameLocals(v)
  BY DEF SameLocals, localVars, jobLocals
<1>3. /\ Performs(w)' <=> Performs(w)
      /\ Draining(w)' <=> Draining(w)
      /\ \A j : (Runs(w, j)' <=> Runs(w, j)) /\ (Holds(w, j)' <=> Holds(w, j))
  BY <1>2, SameView
<1>4. \A j : PendingChildren(j)' = PendingChildren(j)
             /\ (InQueue(j)' <=> InQueue(j)) /\ (Finished(j)' <=> Finished(j))
  BY DEF PendingChildren, InQueue, Finished, jobVars, queueVars
<1>5. WorkerOK(w)'
  <2>1. WorkerOK(w) /\ (Executes(w)' <=> Executes(w))
    BY <1>2, SameView DEF Safe, WorkersOK
  <2>2. /\ PendingChildren(pj[w])' = PendingChildren(pj[w])
        /\ (InQueue(pj[w])' <=> InQueue(pj[w])) /\ (Finished(pj[w])' <=> Finished(pj[w]))
        /\ Finished(pjDone[w])' <=> Finished(pjDone[w])
    BY DEF PendingChildren, InQueue, Finished, jobVars, queueVars, localVars, jobLocals
  <2>. QED
    BY <1>3, <2>1, <2>2 DEF WorkerOK, jobVars, queueVars, localVars, jobLocals
<1>. QED
  BY <1>2, <1>3, <1>5, QuietStep DEF SameLocals

\* CEngine starts the next stage with a new root when all jobs are done.
LEMMA StageKeeps ==
  ASSUME Safe, ExitMeansDone, TotalOK, Typed', NextStage
  PROVE  Safe' /\ ExitMeansDone' /\ TotalOK'
<1>. USE NoJobAssumption DEF NextStage
<1>1. JobTypes /\ ulpTotal \in 0..MaxUlong
  BY DEF Safe, Typed, TypeOK, CounterTypes
<1>2. /\ listWaiting = <<>> /\ \A q \in Queues : listQueued[q] = <<>>
      /\ \A j \in Jobs : /\ status[j] = "free" /\ parent[j] = NoJob /\ jobQueue[j] = NoQueue
                         /\ refs[j] = 0 /\ below[j] = {} /\ PendingChildren(j) = {}
  BY NothingLeft
<1>3. PICK root \in Jobs, q \in Queues \union {NoQueue} :
        /\ refs' = [refs EXCEPT ![root] = 0]
        /\ status' = [status EXCEPT ![root] = "pending"]
        /\ jobQueue' = [jobQueue EXCEPT ![root] = q]
        /\ below' = [below EXCEPT ![root] = LowerQueues(Queues, q)]
        /\ listWaiting' = <<root>> \o listWaiting
  OBVIOUS
<1>6. ulpTotal = 0
  <2>1. Counted = {}
    BY <1>2, NoJobAssumption DEF Counted
  <2>. QED
    BY <2>1, FS_EmptySet DEF TotalOK
<1>4. /\ status'[root] = "pending" /\ listWaiting' = <<root>>
      /\ \A w \in Workers : pc'[w] = "outer"
      /\ \A j \in Jobs : parent'[j] = NoJob /\ refs'[j] = 0
      /\ \A j \in Jobs \ {root} : status'[j] = "free" /\ jobQueue'[j] = NoQueue /\ below'[j] = {}
      /\ \A k \in Queues : listQueued'[k] = <<>> /\ mainJob'[k] = NoJob
      /\ ulpTotal' = 1
  BY <1>1, <1>2, <1>3, <1>6, BoundsAssumption DEF JobTypes, Incr
<1>5. OneRoot'
  BY <1>4 DEF OneRoot
<1>. QED
  BY <1>5, RootOnly, PTL

\* Every step keeps Safe.
LEMMA SafeStep ==
  ASSUME Safe, Typed', NEW w \in Workers, Step(w) \/ Raise(w) \/ AbortBetweenJobs(w)
  PROVE  Safe'
  BY IdleActions, QuietActions, RetrieveKeeps, PreExecuteKeeps, EjqrAddKeeps, ForkKeeps, PushKeeps,
     DropMainKeeps, NotifyKeeps, DrainOneKeeps, PostKeeps, ResumeParentKeeps, ReleaseKeeps
  DEF Step

\* What ulpTotal counts depends on the states of the jobs and on two locals.
CountLabels == {"push", "incQueued", "increase", "signal", "decTotal", "failed"}
Adds(w, j) == pc[w] = "addTotal" /\ pjNext[w] = j
Completes(w, j) == pjDone[w] = j /\ pc[w] \in CountLabels

\* When a job is counted, as it depends on the locals of workers.
LEMMA CountedIs ==
  Counted = {j \in Jobs : \/ status[j] = "pending" /\ ~\E w \in Workers : Adds(w, j)
                          \/ \E w \in Workers : Completes(w, j)}
  BY DEF Counted, Adds, Completes, CountLabels

\* The other workers count the same jobs after a step of w.
LEMMA CountedOthers ==
  ASSUME NEW w \in Workers, \A v \in Workers \ {w} : SameLocals(v)
  PROVE  \A v \in Workers \ {w}, j \in Jobs :
           (Adds(v, j)' <=> Adds(v, j)) /\ (Completes(v, j)' <=> Completes(v, j))
  BY DEF SameLocals, Adds, Completes

\* A step that keeps statuses and what w adds and completes keeps the count.
LEMMA CountedSame ==
  ASSUME NEW w \in Workers, \A v \in Workers \ {w} : SameLocals(v),
         UNCHANGED <<status, ulpTotal>>, TotalOK,
         \A j \in Jobs : (Adds(w, j)' <=> Adds(w, j)) /\ (Completes(w, j)' <=> Completes(w, j))
  PROVE  TotalOK'
<1>1. Counted' = Counted
  BY CountedOthers DEF Counted, Adds, Completes, CountLabels
<1>. QED
  BY <1>1 DEF TotalOK

\* The other steps of a worker.
Uncounted(w) ==
    \/ IncTasksActive(w) \/ Retrieve(w) \/ DecQueued(w) \/ RetrieveNothing(w)
    \/ DecrTasksActive(w) \/ StopWhenEmpty(w) \/ WaitForWork(w) \/ WakeUp(w)
    \/ PreExecute(w) \/ CheckCompleted(w) \/ EjqrAdd(w)
    \/ RunCompletes(w) \/ RunReturns(w) \/ DropMain(w)
    \/ Push(w) \/ IncQueued(w) \/ NoIncrease(w) \/ Increase(w) \/ SignalWorker(w)
    \/ NotifyCompleted(w) \/ DrainOne(w) \/ DrainEnds(w)
    \/ PostCompleted(w) \/ PostRunnable(w) \/ PostSuspended(w)
    \/ AbortWaiting(w) \/ Raise(w) \/ AbortBetweenJobs(w)

\* The steps that leave ulpTotal alone keep the set it counts.
LEMMA UncountedKeeps ==
  ASSUME Safe, TotalOK, NEW w \in Workers, Uncounted(w)
  PROVE  TotalOK'
<1>0. LocalOK(w) /\ LocalTypes
  BY DEF Safe, Typed, TypeOK
<1>. USE NoJobAssumption
     DEF Goto, jobLocals, jobVars, queueVars, counterVars, ScheduleReturns, NextJob, LocalOK, LocalTypes,
         NoJobLabels, CompletionLabels, ScheduleLabels, Adds, Completes, CountLabels, SameLocals
<1>1. CASE \/ IncTasksActive(w) \/ Retrieve(w) \/ DecQueued(w) \/ RetrieveNothing(w)
           \/ DecrTasksActive(w) \/ StopWhenEmpty(w) \/ WaitForWork(w) \/ WakeUp(w)
           \/ AbortWaiting(w) \/ AbortBetweenJobs(w)
  <2>1. UNCHANGED <<status, ulpTotal>> /\ \A v \in Workers \ {w} : SameLocals(v)
    BY <1>0, <1>1
    DEF IncTasksActive, Retrieve, DecQueued, RetrieveNothing, DecrTasksActive, StopWhenEmpty,
        WaitForWork, WakeUp, AbortWaiting, AbortBetweenJobs
  <2>2. \A j \in Jobs : (Adds(w, j)' <=> Adds(w, j)) /\ (Completes(w, j)' <=> Completes(w, j))
    BY <1>0, <1>1
    DEF IncTasksActive, Retrieve, DecQueued, RetrieveNothing, DecrTasksActive, StopWhenEmpty,
        WaitForWork, WakeUp, AbortWaiting, AbortBetweenJobs
  <2>. QED
    BY <2>1, <2>2, CountedSame
<1>2. CASE \/ PreExecute(w) \/ CheckCompleted(w) \/ EjqrAdd(w)
           \/ RunCompletes(w) \/ RunReturns(w) \/ DropMain(w) \/ NotifyCompleted(w) \/ DrainOne(w)
           \/ DrainEnds(w) \/ PostCompleted(w) \/ PostRunnable(w) \/ PostSuspended(w)
  <2>1. UNCHANGED <<status, ulpTotal>> /\ \A v \in Workers \ {w} : SameLocals(v)
    BY <1>0, <1>2
    DEF PreExecute, CheckCompleted, EjqrAdd, AddAgain, AddFirst, AddQueued, AddTooLate, RunCompletes,
        RunReturns, DropMain, NotifyCompleted, DrainOne, DrainEnds, PostCompleted, PostRunnable,
        PostSuspended, PostExecute
  <2>2. \A j \in Jobs : (Adds(w, j)' <=> Adds(w, j)) /\ (Completes(w, j)' <=> Completes(w, j))
    BY <1>0, <1>2
    DEF PreExecute, CheckCompleted, EjqrAdd, AddAgain, AddFirst, AddQueued, AddTooLate, RunCompletes,
        RunReturns, DropMain, NotifyCompleted, DrainOne, DrainEnds, PostCompleted, PostRunnable,
        PostSuspended, PostExecute
  <2>. QED
    BY <2>1, <2>2, CountedSame
<1>3. CASE Push(w) \/ IncQueued(w) \/ NoIncrease(w) \/ Increase(w) \/ SignalWorker(w) \/ Raise(w)
  <2>1. UNCHANGED <<status, ulpTotal>> /\ \A v \in Workers \ {w} : SameLocals(v)
    BY <1>0, <1>3 DEF Push, IncQueued, NoIncrease, Increase, SignalWorker, Raise
  <2>2. \A j \in Jobs : (Adds(w, j)' <=> Adds(w, j)) /\ (Completes(w, j)' <=> Completes(w, j))
    BY <1>0, <1>3 DEF Push, IncQueued, NoIncrease, Increase, SignalWorker, Raise
  <2>. QED
    BY <2>1, <2>2, CountedSame
<1>. QED
  BY <1>1, <1>2, <1>3 DEF Uncounted

\* Every step of a worker keeps ulpTotal the size of the set it counts.
LEMMA CountedKeeps ==
  ASSUME Safe, TotalOK, NEW w \in Workers,
         \/ \E c \in Jobs, q \in Queues \union {NoQueue} : Fork(w, c, q)
         \/ AddTotal(w) \/ ResumeParent(w) \/ DecTotal(w) \/ Release(w)
  PROVE  TotalOK'
<1>0. LocalOK(w) /\ LocalTypes /\ JobTypes /\ WorkerOK(w) /\ ulpTotal \in 0..MaxUlong
  BY DEF Safe, Typed, TypeOK, CounterTypes, WorkersOK
<1>. USE NoJobAssumption DEF Goto, jobLocals, jobVars
<1>1. \A v \in Workers \ {w} : SameLocals(v)
  BY <1>0
  DEF LocalTypes, SameLocals, Fork, AddTotal, ResumeParent, DecTotal, Release, NextJob
<1>2. \A v \in Workers \ {w}, j \in Jobs :
        (Adds(v, j)' <=> Adds(v, j)) /\ (Completes(v, j)' <=> Completes(v, j))
  BY <1>1, CountedOthers
<1>3. \A v \in Workers, j \in Jobs :
        /\ Adds(v, j) => Holds(v, j) /\ status[j] = "pending"
        /\ Completes(v, j) => status[j] = "done"
  <2>1. \A v \in Workers, j \in Jobs : Adds(v, j) => Holds(v, j) /\ status[j] = "pending"
    BY DEF Adds, Holds, Safe, HandsOK
  <2>2. \A v \in Workers, j \in Jobs : Completes(v, j) => status[j] = "done"
    BY DEF Completes, CountLabels, Safe, WorkersOK, WorkerOK
  <2>. QED
    BY <2>1, <2>2
<1>4. IsFiniteSet(Counted) /\ Cardinality(Counted) \in Nat
  <2>1. IsFiniteSet(Counted)
    BY FiniteAssumption, FS_Subset DEF Counted
  <2>. QED
    BY <2>1, FS_CardinalityType
<1>5. ASSUME NEW c \in Jobs, NEW q \in Queues \union {NoQueue}, Fork(w, c, q) PROVE TotalOK'
  <2>1. /\ pc[w] = "run" /\ pjDone[w] = NoJob /\ pjDone'[w] = NoJob /\ UNCHANGED ulpTotal
        /\ pc'[w] = "addTotal" /\ pjNext'[w] = c /\ status[c] = "free"
        /\ status'[c] = "pending" /\ \A k \in Jobs \ {c} : status'[k] = status[k]
    BY <1>0, <1>5
    DEF Fork, LocalOK, LocalTypes, JobTypes, NoJobLabels, CompletionLabels, ScheduleLabels, counterVars
  <2>2. \A j \in Jobs : /\ ~Adds(w, j) /\ (Adds(w, j)' <=> j = c)
                        /\ ~Completes(w, j) /\ ~Completes(w, j)'
    BY <2>1 DEF Adds, Completes
  <2>3. Counted' = Counted
    BY <1>2, <1>3, <2>1, <2>2 DEF Counted, Adds, Completes, CountLabels
  <2>. QED
    BY <2>1, <2>3 DEF TotalOK
<1>6. CASE AddTotal(w)
  <2>1. PICK c \in Jobs : pjNext[w] = c
    BY <1>0, <1>6 DEF AddTotal, LocalOK, ScheduleLabels
  <2>2. /\ pc[w] = "addTotal" /\ pjDone[w] = NoJob /\ pjDone'[w] = NoJob /\ UNCHANGED status
        /\ pc'[w] = "push" /\ pjNext'[w] = c /\ ulpTotal' = Incr(ulpTotal)
    BY <1>0, <1>6, <2>1 DEF AddTotal, LocalTypes, WorkerOK
  <2>3. \A j \in Jobs : /\ ~Adds(w, j)' /\ (Adds(w, j) <=> j = c)
                        /\ ~Completes(w, j) /\ ~Completes(w, j)'
    BY <2>1, <2>2 DEF Adds, Completes
  <2>4. status[c] = "pending" /\ \A v \in Workers \ {w} : ~Adds(v, c) /\ ~Completes(v, c)
    BY <1>3, <2>3 DEF Safe, HandsOK
  <2>5. Counted' = Counted \union {c} /\ c \notin Counted
    BY <1>2, <2>2, <2>3, <2>4 DEF Counted, Adds, Completes, CountLabels
  <2>6. Cardinality(Counted') = Cardinality(Counted) + 1
    BY <1>4, <2>5, FS_AddElement
  <2>7. Cardinality(Counted') <= MaxUlong
    <3>1. Counted' \subseteq Jobs
      BY DEF Counted
    <3>2. Cardinality(Counted') <= Cardinality(Jobs) /\ Cardinality(Jobs) \in Nat
      BY <3>1, FiniteAssumption, FS_Subset, FS_CardinalityType
    <3>. QED
      BY <1>4, <2>6, <3>2, FiniteAssumption, BoundsAssumption
  <2>. QED
    BY <1>0, <1>4, <2>2, <2>6, <2>7, BoundsAssumption DEF TotalOK, Incr
<1>7. CASE ResumeParent(w)
  <2>1. PICK j \in Jobs : pjDone[w] = j
    BY <1>0, <1>7 DEF ResumeParent, LocalOK, CompletionLabels
  <2>2. /\ pc[w] = "resumeParent" /\ pjDone'[w] = j /\ pc'[w] \in {"push", "decTotal"}
        /\ status'[j] = "done" /\ \A k \in Jobs \ {j} : status'[k] = status[k]
        /\ UNCHANGED ulpTotal
    BY <1>0, <1>7, <2>1 DEF ResumeParent, LocalTypes, JobTypes, counterVars
  <2>3. status[j] = "pending" /\ \A v \in Workers : ~Adds(v, j)
    <3>1. Holds(w, j)
      BY <2>1, <2>2 DEF Holds
    <3>. QED
      BY <1>3, <2>2, <3>1 DEF Safe, HandsOK, Adds
  <2>4. \A k \in Jobs : /\ ~Adds(w, k) /\ ~Adds(w, k)'
                        /\ ~Completes(w, k) /\ (Completes(w, k)' <=> k = j)
    BY <2>1, <2>2 DEF Adds, Completes, CountLabels
  <2>5. Counted' = Counted
    BY <1>2, <2>2, <2>3, <2>4 DEF Counted, Adds, Completes, CountLabels
  <2>. QED
    BY <2>2, <2>5 DEF TotalOK
<1>8. CASE DecTotal(w)
  <2>1. PICK j \in Jobs : pjDone[w] = j
    BY <1>0, <1>8 DEF DecTotal, LocalOK, CompletionLabels
  <2>2. /\ pc[w] = "decTotal" /\ pc'[w] = "release" /\ UNCHANGED status
        /\ ulpTotal' = Decr(ulpTotal)
    BY <1>0, <1>8, <2>1 DEF DecTotal, LocalTypes
  <2>3. \A k \in Jobs : /\ ~Adds(w, k) /\ ~Adds(w, k)'
                        /\ ~Completes(w, k)' /\ (Completes(w, k) <=> k = j)
    BY <2>1, <2>2 DEF Adds, Completes, CountLabels
  <2>4. status[j] = "done" /\ \A v \in Workers \ {w} : ~Completes(v, j)
    BY <1>3, <2>1, <2>3 DEF Safe, HandsOK, Completes
  <2>5. Counted' = Counted \ {j} /\ j \in Counted
    BY <1>2, <2>2, <2>3, <2>4 DEF Counted, Adds, Completes, CountLabels
  <2>6. Cardinality(Counted') = Cardinality(Counted) - 1 /\ Cardinality(Counted) # 0
    BY <1>4, <2>5, FS_RemoveElement, FS_EmptySet
  <2>. QED
    BY <1>4, <2>2, <2>6 DEF TotalOK, Decr
<1>9. CASE Release(w)
  <2>1. PICK j \in Jobs : pjDone[w] = j
    BY <1>0, <1>9 DEF Release, LocalOK, CompletionLabels
  <2>2. /\ pc[w] = "release" /\ pc'[w] \in {"retrieve", "drain"} /\ UNCHANGED ulpTotal
        /\ status'[j] = "free" /\ \A k \in Jobs \ {j} : status'[k] = status[k]
    BY <1>0, <1>9, <2>1 DEF Release, LocalTypes, JobTypes, counterVars
  <2>3. \A k \in Jobs : /\ ~Adds(w, k) /\ ~Adds(w, k)'
                        /\ ~Completes(w, k)' /\ ~Completes(w, k)
    BY <2>1, <2>2 DEF Adds, Completes, CountLabels
  <2>4. status[j] = "done" /\ \A v \in Workers \ {w} : ~Completes(v, j)
    BY <1>0, <2>1, <2>2 DEF Safe, HandsOK, Completes, WorkerOK
  <2>5. Counted' = Counted
    BY <1>2, <2>2, <2>3, <2>4 DEF Counted, Adds, Completes, CountLabels
  <2>. QED
    BY <2>2, <2>5 DEF TotalOK
<1>. QED
  BY <1>5, <1>6, <1>7, <1>8, <1>9

\* A worker that finds ulpTotal zero finds nothing left: a job that is not
\* counted yet has a running parent, which is.
LEMMA EmptyTotal ==
  ASSUME Safe, TotalOK, ulpTotal = 0
  PROVE  /\ \A j \in Jobs : status[j] # "pending"
         /\ \A q \in Queues : listQueued[q] = <<>>
         /\ listWaiting = <<>>
<1>1. Counted = {}
  <2>1. IsFiniteSet(Counted)
    BY FiniteAssumption, FS_Subset DEF Counted
  <2>. QED
    BY <2>1, FS_EmptySet DEF TotalOK
<1>2. ASSUME NEW j \in Jobs, status[j] = "pending" PROVE FALSE
  <2>1. PICK w \in Workers : pc[w] = "addTotal" /\ pjNext[w] = j
    BY <1>1, <1>2 DEF Counted
  <2>2. PICK p \in Jobs : pj[w] = p
    BY <2>1 DEF Safe, Typed, LocalOK, NoJobLabels
  <2>3. pjDone[w] = NoJob /\ p # j
    BY <2>1, <2>2 DEF Safe, WorkersOK, WorkerOK
  <2>4. Runs(w, p)
    BY <2>1, <2>2, <2>3, NoJobAssumption DEF Runs, Executes
  <2>5. status[p] = "pending"
    BY <2>4 DEF Safe, HandsOK
  <2>6. PICK v \in Workers : pc[v] = "addTotal" /\ pjNext[v] = p
    BY <1>1, <2>5 DEF Counted
  <2>7. Holds(v, p)
    BY <2>6 DEF Holds
  <2>8. v = w
    BY <2>4, <2>7 DEF Safe, HandsOK
  <2>. QED
    BY <2>1, <2>3, <2>6, <2>8
<1>3. \A q \in Queues : listQueued[q] \in Seq(Jobs)
  BY DEF Safe, Typed, TypeOK, QueueTypes
<1>4. listWaiting \in Seq(Jobs)
  BY DEF Safe, Typed, TypeOK, CounterTypes
<1>5. \A q \in Queues : listQueued[q] = <<>>
  <2>. SUFFICES ASSUME NEW q \in Queues, listQueued[q] # <<>> PROVE FALSE
    OBVIOUS
  <2>1. QueueOK(q)
    BY DEF Safe, QueuesOK
  <2>2. Head(listQueued[q]) \in Jobs /\ InList(Head(listQueued[q]), listQueued[q])
    BY <1>3, <2>1, ListPop DEF QueueOK
  <2>. QED
    BY <1>2, <2>1, <2>2 DEF QueueOK
<1>6. listWaiting = <<>>
  <2>. SUFFICES ASSUME listWaiting # <<>> PROVE FALSE
    OBVIOUS
  <2>1. Head(listWaiting) \in Jobs /\ InList(Head(listWaiting), listWaiting)
    BY <1>4, ListPop DEF Safe, WaitingOK
  <2>. QED
    BY <1>2, <2>1 DEF Safe, WaitingOK
<1>. QED
  BY <1>2, <1>5, <1>6

\* Without pending jobs no worker has one to execute or to schedule.
LEMMA ExitKeeps ==
  ASSUME Safe, TotalOK, ExitMeansDone, NEW w \in Workers,
         Step(w) \/ Raise(w) \/ AbortBetweenJobs(w)
  PROVE  ExitMeansDone'
<1>0. LocalOK(w) /\ LocalTypes /\ JobTypes /\ WorkerOK(w)
  BY DEF Safe, Typed, TypeOK, WorkersOK
<1>1. CASE StopWhenEmpty(w)
  <2>1. UNCHANGED <<status, listQueued, listWaiting>> /\ ulpTotal = 0
    BY <1>1 DEF StopWhenEmpty, jobVars, queueVars
  <2>. QED
    BY <2>1, EmptyTotal DEF ExitMeansDone
<1>2. CASE ~StopWhenEmpty(w)
  <2>1. (\E v \in Workers : pc'[v] = "exit") => \E v \in Workers : pc[v] = "exit"
    BY <1>0, <1>2
    DEF Step, Raise, AbortBetweenJobs, IncTasksActive, Retrieve, DecQueued, RetrieveNothing,
        DecrTasksActive, WaitForWork, WakeUp, PreExecute, CheckCompleted, EjqrAdd, AddAgain, AddFirst,
        AddQueued, AddTooLate, Fork, AddTotal, RunCompletes, RunReturns, DropMain, Push, IncQueued,
        NoIncrease, Increase, SignalWorker, ScheduleReturns, NotifyCompleted, DrainOne, DrainEnds,
        PostCompleted, PostRunnable, PostSuspended, ResumeParent, DecTotal, Release, AbortWaiting,
        Goto, LocalTypes, LocalOK, NoJobLabels
  <2>. SUFFICES ASSUME NEW v \in Workers, pc[v] = "exit"
                PROVE  /\ \A j \in Jobs : status'[j] # "pending"
                       /\ \A q \in Queues : listQueued'[q] = <<>>
                       /\ listWaiting' = <<>>
    BY <2>1 DEF ExitMeansDone
  <2>2. /\ \A j \in Jobs : status[j] # "pending"
        /\ \A q \in Queues : listQueued[q] = <<>>
        /\ listWaiting = <<>>
    BY DEF ExitMeansDone
  <2>3. \A j \in Jobs : ~Runs(w, j) /\ ~Holds(w, j)
    BY <2>2 DEF Safe, HandsOK
  <2>4. pc[w] \notin {"preExecute", "add", "run", "drain", "resumeParent", "push"}
    <3>1. pc[w] \in {"preExecute", "add", "run", "drain"} => pj[w] \in Jobs /\ pjDone[w] = NoJob /\ pjNext[w] = NoJob
      BY <1>0 DEF LocalOK, NoJobLabels, CompletionLabels, ScheduleLabels
    <3>2. pc[w] \notin {"preExecute", "add", "run", "drain"}
      BY <2>3, <3>1, NoJobAssumption DEF Runs, Executes, Holds
    <3>3. pc[w] = "resumeParent" => pjDone[w] \in Jobs
      BY <1>0 DEF LocalOK, CompletionLabels
    <3>4. pc[w] = "push" => pjNext[w] \in Jobs
      BY <1>0 DEF LocalOK, ScheduleLabels
    <3>. QED
      BY <2>3, <3>2, <3>3, <3>4 DEF Holds
  <2>5. CASE Release(w)
    <3>1. \A j \in Jobs : status'[j] \in {status[j], "free"}
      BY <1>0, <2>5 DEF Release, JobTypes
    <3>. QED
      BY <2>2, <2>5, <3>1 DEF Release, queueVars
  <2>6. CASE ~Release(w)
    <3>1. UNCHANGED <<status, listQueued, listWaiting>>
      BY <2>2, <2>4, <2>6
      DEF Step, Raise, AbortBetweenJobs, IncTasksActive, Retrieve, DecQueued, RetrieveNothing,
          DecrTasksActive, StopWhenEmpty, WaitForWork, WakeUp, PreExecute, CheckCompleted, EjqrAdd, Fork, AddTotal,
          RunCompletes, RunReturns, DropMain, Push, IncQueued, NoIncrease, Increase, SignalWorker,
          NotifyCompleted, DrainOne, DrainEnds, PostCompleted, PostRunnable, PostSuspended,
          PostExecute, ResumeParent, DecTotal, AbortWaiting, jobVars, queueVars
    <3>. QED
      BY <2>2, <3>1
  <2>. QED
    BY <2>5, <2>6
<1>. QED
  BY <1>1, <1>2

\* The invariant holds initially.
LEMMA IInvInit == Init => IInv
<1>. SUFFICES ASSUME Init PROVE IInv
  OBVIOUS
<1>1. Typed
  BY TypedInit
<1>2. OneRoot
  BY DEF Init, OneRoot
<1>. QED
  BY <1>1, <1>2, RootOnly DEF IInv

\* Every step keeps the invariant.
LEMMA IInvNext == IInv /\ [Next]_vars => IInv'
<1>. SUFFICES ASSUME Safe, TotalOK, ExitMeansDone, [Next]_vars PROVE IInv'
  BY DEF IInv
<1>0. Typed'
  BY TypedNext DEF Safe
<1>1. ASSUME NEW w \in Workers, Step(w) \/ Raise(w) \/ AbortBetweenJobs(w) PROVE IInv'
  <2>1. Safe'
    BY <1>0, <1>1, SafeStep
  <2>2. TotalOK'
    BY <1>1, UncountedKeeps, CountedKeeps DEF Step, Uncounted
  <2>3. ExitMeansDone'
    BY <1>1, ExitKeeps
  <2>. QED
    BY <2>1, <2>2, <2>3 DEF IInv
<1>2. CASE NextStage
  BY <1>0, <1>2, StageKeeps DEF IInv
<1>3. CASE Cancel \/ UNCHANGED vars
  <2>1. UNCHANGED <<jobVars, queueVars, listWaiting, ulpTotal, localVars>>
    BY <1>3 DEF Cancel, vars, counterVars
  <2>2. Safe'
    BY <1>0, <2>1, StutterKeeps
  <2>3. TotalOK'
    BY <2>1 DEF TotalOK, Counted, jobVars, localVars
  <2>4. ExitMeansDone'
    BY <2>1 DEF ExitMeansDone, jobVars, queueVars, localVars
  <2>. QED
    BY <2>2, <2>3, <2>4 DEF IInv
<1>. QED
  BY <1>1, <1>2, <1>3 DEF Next

\* The invariant from which the properties below follow.
THEOREM InvariantHolds == Spec => []IInv
  BY IInvInit, IInvNext, PTL DEF Spec

-----------------------------------------------------------------------------
(* The properties of the scheduler.                                        *)

\* A pending job is carried by the worker that runs or holds it.
LEMMA CarriesIs ==
  ASSUME Safe, NEW w \in Workers, NEW j \in Jobs
  PROVE  /\ status[j] = "pending" => (Carries(w, j) <=> Runs(w, j) \/ Holds(w, j))
         /\ Carries(w, j) \/ pjDone[w] = j => status[j] # "free"
<1>1. WorkerOK(w)
  BY DEF Safe, WorkersOK
<1>2. pjDone[w] = j => status[j] = "done" \/ Holds(w, j)
  BY <1>1, NoJobAssumption DEF WorkerOK, Holds
<1>3. Holds(w, j) \/ Runs(w, j) => status[j] = "pending"
  BY DEF Safe, HandsOK
<1>. QED
  BY <1>2, <1>3 DEF Carries, Runs, Holds

\* A set without two elements.
LEMMA AtMostOne ==
  ASSUME NEW S, \A x, y \in S : x = y
  PROVE  Cardinality(S) \in {0, 1} /\ (S = {} => Cardinality(S) = 0)
<1>1. CASE S = {}
  BY <1>1, FS_EmptySet
<1>2. CASE S # {}
  <2>1. PICK x \in S : S = {x}
    BY <1>2
  <2>. QED
    BY <1>2, <2>1, FS_Singleton
<1>. QED
  BY <1>1, <1>2

\* The invariant bounds where a job is.
LEMMA SafeOnePlace == Safe => OnePlace
<1>. SUFFICES ASSUME Safe, NEW j \in Jobs, status[j] = "pending"
              PROVE  LET inWaiting == {i \in DOMAIN listWaiting : listWaiting[i] = j}
                         carriers == {w \in Workers : Carries(w, j)}
                     IN  /\ Cardinality(inWaiting) + Cardinality(carriers) <= 1
                         /\ inWaiting = {} /\ carriers = {} =>
                              \/ PendingChildren(j) # {}
                              \/ /\ HeldByQueue(j)
                                 /\ mainJob[jobQueue[j]] \notin {j, NoJob}
                                 /\ status[mainJob[jobQueue[j]]] = "pending"
  BY DEF OnePlace
<1>. DEFINE inWaiting == {i \in DOMAIN listWaiting : listWaiting[i] = j}
            carriers == {w \in Workers : Carries(w, j)}
<1>1. carriers = {w \in Workers : Runs(w, j) \/ Holds(w, j)}
  BY CarriesIs
<1>2. \A x, y \in inWaiting : x = y
  BY DEF Safe, WaitingOK, Distinct
<1>3. \A x, y \in carriers : x = y
  BY <1>1 DEF Safe, HandsOK
<1>4. inWaiting # {} <=> InList(j, listWaiting)
  BY DEF InList
<1>5. carriers # {} <=> Carried(j)
  BY <1>1 DEF Carried
<1>6. inWaiting = {} \/ carriers = {}
  BY <1>4, <1>5 DEF Safe, WaitingOK
<1>7. inWaiting = {} /\ carriers = {} =>
        \/ PendingChildren(j) # {}
        \/ /\ HeldByQueue(j)
           /\ mainJob[jobQueue[j]] \notin {j, NoJob}
           /\ status[mainJob[jobQueue[j]]] = "pending"
  <2>. SUFFICES ASSUME inWaiting = {}, carriers = {}, PendingChildren(j) = {}
                PROVE  /\ HeldByQueue(j)
                       /\ mainJob[jobQueue[j]] \notin {j, NoJob}
                       /\ status[mainJob[jobQueue[j]]] = "pending"
    OBVIOUS
  <2>1. InQueue(j) /\ mainJob[jobQueue[j]] # j
    BY <1>4, <1>5 DEF Safe, NotLost
  <2>2. PICK q \in Queues : jobQueue[j] = q /\ listQueued[q] # <<>>
    BY <2>1, ListEmpty DEF InQueue, Safe, Typed, TypeOK, JobTypes
  <2>3. mainJob[q] \in Jobs /\ status[mainJob[q]] = "pending"
    BY <2>2 DEF Safe, QueuesOK, QueueOK, HandsOK
  <2>. QED
    BY <2>1, <2>2, <2>3, HeldInQueue, NoJobAssumption
<1>. HIDE DEF inWaiting, carriers
<1>8. Cardinality(inWaiting) + Cardinality(carriers) <= 1
  BY <1>2, <1>3, <1>6, AtMostOne
<1>. QED
  BY <1>7, <1>8 DEF inWaiting, carriers

\* The invariant excludes references to free slots.
LEMMA SafeLive == Safe => LiveReferences
<1>. SUFFICES ASSUME Safe PROVE LiveReferences
  OBVIOUS
<1>1. \A w \in Workers, j \in Jobs : Carries(w, j) \/ pjDone[w] = j => status[j] # "free"
  BY CarriesIs
<1>2. \A j \in Jobs : status[j] = "pending" /\ parent[j] # NoJob => status[parent[j]] = "pending"
  BY DEF Safe, SlotsOK
<1>3. ASSUME NEW q \in Queues
      PROVE  /\ \A i \in DOMAIN listQueued[q] :
                  status[listQueued[q][i]] = "pending" /\ jobQueue[listQueued[q][i]] = q
             /\ mainJob[q] # NoJob /\ ~opCompleted[q]
                  => status[mainJob[q]] = "pending" /\ jobQueue[mainJob[q]] = q
  <2>1. QueueOK(q) /\ listQueued[q] \in Seq(Jobs)
    BY DEF Safe, QueuesOK, Typed, TypeOK, QueueTypes
  <2>2. \A i \in DOMAIN listQueued[q] : listQueued[q][i] \in Jobs
    BY <2>1
  <2>. QED
    BY <2>1, <2>2 DEF QueueOK, InList
<1>. QED
  BY <1>1, <1>2, <1>3 DEF LiveReferences

\* The invariant leaves an operation to one worker.
LEMMA SafeOnce == Safe => OperationOnce
<1>. SUFFICES ASSUME Safe, NEW w \in Workers, Performs(w), jobQueue[pj[w]] # NoQueue
              PROVE  /\ mainJob[jobQueue[pj[w]]] = pj[w]
                     /\ pc[w] \in {"run", "addTotal", "dropMain", "notify"}
                          => ~opCompleted[jobQueue[pj[w]]]
                     /\ \A v \in Workers \ {w} :
                          Performs(v) => jobQueue[pj[v]] # jobQueue[pj[w]]
  BY DEF OperationOnce
<1>1. \A v \in Workers : Performs(v) =>
        /\ pj[v] \in Jobs /\ Runs(v, pj[v])
        /\ pjq[v] = jobQueue[pj[v]]
        /\ pjq[v] # NoQueue => mainJob[pjq[v]] = pj[v] /\ (opCompleted[pjq[v]] <=> Draining(v))
  BY DEF Safe, WorkersOK, WorkerOK, Performs, Executes, Runs, Typed, TypeOK, LocalTypes
<1>2. pc[w] \in {"run", "addTotal", "dropMain", "notify"} => ~Draining(w)
  BY DEF Safe, WorkersOK, WorkerOK, Typed, LocalOK, CompletionLabels, ScheduleLabels, Draining
<1>3. ASSUME NEW v \in Workers \ {w}, Performs(v) PROVE jobQueue[pj[v]] # jobQueue[pj[w]]
  BY <1>1, <1>3 DEF Safe, HandsOK
<1>. QED
  BY <1>1, <1>2, <1>3

\* The reference count of every job is, at every step, the number of its pending
\* children plus the references of a worker and of a job queue: the invariant
\* behind every comparison of an old count with 1.
THEOREM CountsExact == Spec => []RefsExact
<1>1. IInv => RefsExact
  BY DEF IInv, Safe
<1>. QED
  BY <1>1, InvariantHolds, PTL

\* No job is lost and none is in two hands, whatever the interleaving.
THEOREM JobsInOnePlace == Spec => []OnePlace
<1>1. IInv => OnePlace
  BY SafeOnePlace DEF IInv
<1>. QED
  BY <1>1, InvariantHolds, PTL

\* No worker, queue or child refers to a slot that went back to the pool.
THEOREM NoDanglingJob == Spec => []LiveReferences
<1>1. IInv => LiveReferences
  BY SafeLive DEF IInv
<1>. QED
  BY <1>1, InvariantHolds, PTL

\* A shared operation is performed by one worker at a time, for its main job,
\* and not again once it is completed.
THEOREM PerformedOnce == Spec => []OperationOnce
<1>1. IInv => OperationOnce
  BY SafeOnce DEF IInv
<1>. QED
  BY <1>1, InvariantHolds, PTL

\* A worker that leaves ProcessJobs leaves no job behind.
THEOREM NothingLeftAtExit == Spec => []ExitMeansDone
<1>1. IInv => ExitMeansDone
  BY DEF IInv
<1>. QED
  BY <1>1, InvariantHolds, PTL

-----------------------------------------------------------------------------
(* The workers implement the job tree.                                     *)

\* The states of the jobs as JobTree names them.
TreeStatus ==
  [j \in Jobs |-> CASE status[j] = "free" -> "unborn"
                    [] status[j] = "pending" -> "active"
                    [] status[j] = "done" -> "done"]

TreeName(s) == CASE s = "free" -> "unborn" [] s = "pending" -> "active" [] s = "done" -> "done"

\* The statuses of jobs by the names of the tree, before and after a step.
LEMMA TreeNames ==
  /\ TreeStatus = [j \in Jobs |-> TreeName(status[j])]
  /\ TreeStatus' = [j \in Jobs |-> TreeName(status'[j])]
  /\ TreeName("free") = "unborn" /\ TreeName("pending") = "active" /\ TreeName("done") = "done"
  BY DEF TreeStatus, TreeName

\* What the tree sees of one job.
LEMMA TreeStatusIs ==
  ASSUME Safe, NEW j \in Jobs
  PROVE  /\ TreeStatus[j] = "unborn" <=> status[j] = "free"
         /\ TreeStatus[j] = "active" <=> status[j] = "pending"
         /\ TreeStatus[j] = "done" <=> status[j] = "done"
<1>1. CASE status[j] = "free"
  BY <1>1 DEF TreeStatus
<1>2. CASE status[j] = "pending"
  BY <1>2 DEF TreeStatus
<1>3. CASE status[j] = "done"
  BY <1>3 DEF TreeStatus
<1>. QED
  BY <1>1, <1>2, <1>3 DEF Safe, Typed, TypeOK, JobTypes

\* The state of one job changes.
LEMMA TreeStatusChange ==
  ASSUME Safe, NEW j \in Jobs, NEW s \in {"free", "pending", "done"},
         status' = [status EXCEPT ![j] = s]
  PROVE  TreeStatus' = [TreeStatus EXCEPT ![j] = TreeName(s)]
<1>1. JobTypes
  BY DEF Safe, Typed, TypeOK
<1>2. status'[j] = s /\ \A k \in Jobs \ {j} : status'[k] = status[k]
  BY <1>1 DEF JobTypes
<1>3. \A k \in Jobs : TreeStatus'[k] = IF k = j THEN TreeName(s) ELSE TreeStatus[k]
  BY <1>2, TreeNames
<1>4. TreeStatus' = [k \in Jobs |-> IF k = j THEN TreeName(s) ELSE TreeStatus[k]]
  BY <1>3, TreeNames
<1>5. TreeStatus = [k \in Jobs |-> TreeStatus[k]]
  BY TreeNames
<1>. HIDE DEF TreeStatus
<1>. QED
  BY <1>4, <1>5

\* The active children of the tree are the pending children.
LEMMA TreeChildren ==
  ASSUME Safe, NEW j \in Jobs
  PROVE  {c \in Jobs : parent[c] = j /\ TreeStatus[c] = "active"} = PendingChildren(j)
  BY TreeStatusIs DEF PendingChildren

\* A worker that performs an operation has the main job of its open queue.
LEMMA RunsMain ==
  ASSUME Safe, NEW w \in Workers, NEW j \in Jobs, pj[w] = j, pc[w] \in {"run", "notify"}
  PROVE  /\ status[j] = "pending" /\ pjq[w] = jobQueue[j]
         /\ jobQueue[j] # NoQueue => mainJob[jobQueue[j]] = j /\ ~opCompleted[jobQueue[j]]
         /\ pc[w] = "notify" => PendingChildren(j) = {}
<1>1. pjDone[w] = NoJob /\ pjNext[w] = NoJob
  BY DEF Safe, Typed, LocalOK, CompletionLabels, ScheduleLabels
<1>2. Executes(w) /\ Performs(w) /\ ~Draining(w)
  BY <1>1, NoJobAssumption DEF Executes, Performs, Draining
<1>3. Runs(w, j)
  BY <1>2 DEF Runs
<1>. QED
  BY <1>2, <1>3 DEF Safe, HandsOK, WorkersOK, WorkerOK

\* The initial states map to initial states of the tree.
LEMMA TreeInit == Init => Tree!Init
<1>. SUFFICES ASSUME Init PROVE Tree!Init
  OBVIOUS
<1>1. PICK root \in Jobs, q \in Queues \union {NoQueue} :
        /\ parent = [j \in Jobs |-> NoJob]
        /\ jobQueue = [j \in Jobs |-> IF j = root THEN q ELSE NoQueue]
        /\ status = [j \in Jobs |-> IF j = root THEN "pending" ELSE "free"]
        /\ below = [j \in Jobs |-> IF j = root THEN LowerQueues(Queues, q) ELSE {}]
        /\ mainJob = [k \in Queues |-> NoJob]
        /\ opCompleted = [k \in Queues |-> FALSE]
  BY DEF Init
<1>2. TreeStatus = [j \in Jobs |-> IF j = root THEN "active" ELSE "unborn"]
  BY <1>1 DEF TreeStatus
<1>. QED
  BY <1>1, <1>2 DEF Tree!Init, Tree!LowerQueues, LowerQueues, Tree!NoQueue, NoQueue, TreeStatus

\* Most steps do not show in the job tree.
Hidden(w) ==
    \/ IncTasksActive(w) \/ Retrieve(w) \/ DecQueued(w) \/ RetrieveNothing(w)
    \/ DecrTasksActive(w) \/ StopWhenEmpty(w) \/ WaitForWork(w) \/ WakeUp(w)
    \/ PreExecute(w) \/ CheckCompleted(w) \/ AddTotal(w)
    \/ RunCompletes(w) \/ RunReturns(w) \/ DropMain(w)
    \/ Push(w) \/ IncQueued(w) \/ NoIncrease(w) \/ Increase(w) \/ SignalWorker(w)
    \/ DrainOne(w) \/ DrainEnds(w)
    \/ PostCompleted(w) \/ PostRunnable(w) \/ PostSuspended(w) \/ DecTotal(w)
    \/ AbortWaiting(w) \/ Raise(w) \/ AbortBetweenJobs(w)

\* Most steps of a worker change nothing of what the tree has.
LEMMA HiddenStep ==
  ASSUME NEW w \in Workers, Hidden(w)
  PROVE  UNCHANGED <<status, parent, jobQueue, below, mainJob, opCompleted>>
  BY DEF Hidden, Raise, AbortBetweenJobs, IncTasksActive, Retrieve, DecQueued, RetrieveNothing,
         DecrTasksActive, StopWhenEmpty, WaitForWork, WakeUp, PreExecute, CheckCompleted, AddTotal,
         RunCompletes, RunReturns, DropMain, Push, IncQueued, NoIncrease, Increase, SignalWorker,
         DrainOne, DrainEnds, PostCompleted, PostRunnable, PostSuspended, PostExecute, DecTotal,
         AbortWaiting, jobVars, queueVars

TreeStep == Tree!Next \/ UNCHANGED Tree!treeVars

\* They are stuttering steps of the tree.
LEMMA TreeHidden ==
  ASSUME UNCHANGED <<status, parent, jobQueue, below, mainJob, opCompleted>>
  PROVE  UNCHANGED Tree!treeVars
  BY DEF Tree!treeVars

\* A worker that makes a child forks in the tree.
LEMMA TreeFork ==
  ASSUME Safe, NEW w \in Workers, NEW c \in Jobs, NEW q \in Queues \union {NoQueue}, Fork(w, c, q)
  PROVE  TreeStep
<1>1. PICK p \in Jobs : pj[w] = p
  BY DEF Fork, Safe, Typed, LocalOK, NoJobLabels
<1>2. /\ status[p] = "pending"
      /\ jobQueue[p] # NoQueue => mainJob[jobQueue[p]] = p /\ ~opCompleted[jobQueue[p]]
  BY <1>1, RunsMain DEF Fork
<1>3. TreeStatus[p] = "active" /\ TreeStatus[c] = "unborn"
  BY <1>2, TreeStatusIs DEF Fork
<1>4. TreeStatus' = [TreeStatus EXCEPT ![c] = "active"]
  BY TreeStatusChange, TreeNames DEF Fork
<1>5. Tree!MayRun(p)
  BY <1>2 DEF Tree!MayRun, Tree!NoQueue, NoQueue
<1>6. Tree!Fork(p, c, q)
  BY <1>1, <1>3, <1>4, <1>5
  DEF Fork, Tree!Fork, Tree!LowerQueues, LowerQueues, Tree!NoQueue, NoQueue, TreeStatus, queueVars
<1>. QED
  BY <1>6 DEF TreeStep, Tree!Next, Tree!NoQueue, NoQueue

\* The first job of an open queue becomes its main job; for others EjqrAdd does not show.
LEMMA TreeAdd ==
  ASSUME Safe, NEW w \in Workers, EjqrAdd(w)
  PROVE  TreeStep
<1>1. PICK j \in Jobs, q \in Queues : pj[w] = j /\ pjq[w] = q
  BY DEF EjqrAdd, Safe, Typed, LocalOK, NoJobLabels
<1>2. CASE AddFirst(w, q)
  <2>1. pjDone[w] = NoJob /\ pjNext[w] = NoJob
    BY DEF EjqrAdd, Safe, Typed, LocalOK, CompletionLabels, ScheduleLabels
  <2>2. Executes(w) /\ Runs(w, j)
    BY <1>1, <2>1, NoJobAssumption DEF EjqrAdd, Executes, Runs
  <2>3. status[j] = "pending" /\ jobQueue[j] = q
    BY <1>1, <2>2 DEF Safe, HandsOK, WorkersOK, WorkerOK
  <2>4. mainJob[q] = NoJob /\ ~opCompleted[q] /\ mainJob' = [mainJob EXCEPT ![q] = j]
    BY <1>1, <1>2 DEF AddFirst, Safe, QueuesOK, QueueOK
  <2>5. TreeStatus[j] = "active" /\ UNCHANGED TreeStatus
    BY <2>3, TreeStatusIs DEF EjqrAdd, TreeStatus
  <2>6. Tree!BecomeMain(j)
    BY <2>3, <2>4, <2>5 DEF EjqrAdd, Tree!BecomeMain, TreeStatus
  <2>. QED
    BY <2>6 DEF TreeStep, Tree!Next
<1>3. CASE ~AddFirst(w, q)
  <2>1. UNCHANGED <<status, parent, jobQueue, below, mainJob, opCompleted>>
    BY <1>1, <1>3 DEF EjqrAdd, AddAgain, AddQueued, AddTooLate
  <2>. QED
    BY <2>1, TreeHidden DEF TreeStep
<1>. QED
  BY <1>2, <1>3

\* NotifyCompleted performs the shared operation.
LEMMA TreePerform ==
  ASSUME Safe, NEW w \in Workers, NotifyCompleted(w)
  PROVE  TreeStep
<1>1. PICK j \in Jobs, q \in Queues : pj[w] = j /\ pjq[w] = q /\ q # NoQueue
  BY QueuesAssumption DEF NotifyCompleted, Safe, Typed, LocalOK, NoJobLabels, NoQueue
<1>2. /\ status[j] = "pending" /\ jobQueue[j] = q /\ mainJob[q] = j /\ ~opCompleted[q]
      /\ PendingChildren(j) = {}
  BY <1>1, RunsMain DEF NotifyCompleted
<1>3. TreeStatus[j] = "active" /\ UNCHANGED TreeStatus
  BY <1>2, TreeStatusIs DEF NotifyCompleted, jobVars, TreeStatus
<1>4. Tree!MayRun(j)
  BY <1>2 DEF Tree!MayRun
<1>5. Tree!ActiveChildren(j) = {}
  BY <1>2, TreeChildren DEF Tree!ActiveChildren, TreeStatus
<1>6. Tree!Perform(j)
  BY <1>1, <1>2, <1>3, <1>4, <1>5 DEF NotifyCompleted, Tree!Perform, TreeStatus, jobVars
<1>. QED
  BY <1>6 DEF TreeStep, Tree!Next

\* A job finishes when it is about to resume its parent.
LEMMA TreeFinish ==
  ASSUME Safe, NEW w \in Workers, ResumeParent(w)
  PROVE  TreeStep
<1>1. PICK j \in Jobs : pjDone[w] = j
  BY DEF ResumeParent, Safe, Typed, LocalOK, CompletionLabels
<1>2. Holds(w, j) /\ status[j] = "pending" /\ refs[j] = 0 /\ Finished(j)
  <2>1. Holds(w, j)
    BY <1>1 DEF ResumeParent, Holds
  <2>. QED
    BY <1>1, <2>1 DEF ResumeParent, Safe, HandsOK, WorkersOK, WorkerOK
<1>3. PendingChildren(j) = {}
  BY <1>2, NoReferences, RefsUnfold DEF Safe
<1>4. TreeStatus[j] = "active" /\ TreeStatus' = [TreeStatus EXCEPT ![j] = "done"]
  <2>1. TreeStatus[j] = "active"
    BY <1>2, TreeNames
  <2>2. status' = [status EXCEPT ![j] = "done"]
    BY <1>1 DEF ResumeParent
  <2>. QED
    BY <2>1, <2>2, TreeStatusChange, TreeNames
<1>5. Tree!ActiveChildren(j) = {}
  BY <1>3, TreeChildren DEF Tree!ActiveChildren, TreeStatus
<1>6. Tree!Finish(j)
  BY <1>1, <1>2, <1>4, <1>5
  DEF ResumeParent, Tree!Finish, Finished, TreeStatus, Tree!NoQueue, NoQueue, queueVars
<1>. QED
  BY <1>6 DEF TreeStep, Tree!Next

\* Release recycles the job.
LEMMA TreeRecycle ==
  ASSUME Safe, NEW w \in Workers, Release(w)
  PROVE  TreeStep
<1>1. PICK j \in Jobs : pjDone[w] = j
  BY DEF Release, Safe, Typed, LocalOK, CompletionLabels
<1>2. status[j] = "done"
  BY <1>1, NoJobAssumption DEF Release, Safe, WorkersOK, WorkerOK
<1>3. TreeStatus[j] = "done" /\ TreeStatus' = [TreeStatus EXCEPT ![j] = "unborn"]
  BY <1>1, <1>2, TreeStatusIs, TreeStatusChange, TreeNames DEF Release
<1>4. Tree!Recycle(j)
  BY <1>1, <1>3 DEF Release, Tree!Recycle, TreeStatus, Tree!NoQueue, NoQueue, queueVars
<1>. QED
  BY <1>4 DEF TreeStep, Tree!Next

\* A new stage of the engine starts one of the tree.
LEMMA TreeStage ==
  ASSUME Safe, ExitMeansDone, NextStage
  PROVE  TreeStep
<1>1. \A j \in Jobs : /\ status[j] = "free" /\ parent[j] = NoJob /\ jobQueue[j] = NoQueue
                      /\ below[j] = {}
  BY NothingLeft DEF NextStage
<1>2. PICK root \in Jobs, q \in Queues \union {NoQueue} :
        /\ status' = [status EXCEPT ![root] = "pending"]
        /\ jobQueue' = [jobQueue EXCEPT ![root] = q]
        /\ below' = [below EXCEPT ![root] = LowerQueues(Queues, q)]
  BY DEF NextStage
<1>3. JobTypes
  BY DEF Safe, Typed, TypeOK
<1>4. /\ \A j \in Jobs : TreeStatus[j] = "unborn"
      /\ TreeStatus' = [TreeStatus EXCEPT ![root] = "active"]
  BY <1>1, <1>2, TreeStatusIs, TreeStatusChange, TreeNames
<1>5. /\ TreeStatus' = [j \in Jobs |-> IF j = root THEN "active" ELSE "unborn"]
      /\ parent' = [j \in Jobs |-> NoJob]
      /\ jobQueue' = [j \in Jobs |-> IF j = root THEN q ELSE NoQueue]
      /\ below' = [j \in Jobs |-> IF j = root THEN LowerQueues(Queues, q) ELSE {}]
  <2>1. TreeStatus = [j \in Jobs |-> TreeStatus[j]]
    BY TreeNames
  <2>2. TreeStatus' = [j \in Jobs |-> IF j = root THEN "active" ELSE "unborn"]
    BY <1>4, <2>1
  <2>. QED
    <3>1. /\ parent' = [j \in Jobs |-> NoJob]
          /\ \A j \in Jobs : jobQueue[j] = NoQueue /\ below[j] = {}
      BY <1>1, <1>3 DEF NextStage, JobTypes
    <3>2. jobQueue' = [j \in Jobs |-> IF j = root THEN q ELSE NoQueue]
      BY <1>2, <1>3, <3>1 DEF JobTypes
    <3>3. below' = [j \in Jobs |-> IF j = root THEN LowerQueues(Queues, q) ELSE {}]
      BY <1>2, <1>3, <3>1 DEF JobTypes
    <3>. QED
      BY <2>2, <3>1, <3>2, <3>3
<1>6. Tree!StartStage(root, q)
  BY <1>5
  DEF NextStage, Tree!StartStage, Tree!LowerQueues, LowerQueues, Tree!NoQueue, NoQueue, TreeStatus
<1>7. Tree!NextStage
  BY <1>4, <1>6 DEF Tree!NextStage, Tree!NoQueue, NoQueue, TreeStatus
<1>. QED
  BY <1>7 DEF TreeStep, Tree!Next

\* Fork/join and once-per-stage semantics, step by step: what the lock-free
\* workers do to the jobs is a behaviour of the job tree.
THEOREM SchedulerImplementsTree == Spec => ImplementsTree
<1>1. Init => Tree!Init
  BY TreeInit
<1>2. IInv /\ [Next]_vars => [Tree!Next]_Tree!treeVars
  <2>. SUFFICES ASSUME Safe, ExitMeansDone, [Next]_vars PROVE TreeStep
    BY DEF IInv, TreeStep
  <2>1. ASSUME NEW w \in Workers, Step(w) \/ Raise(w) \/ AbortBetweenJobs(w) PROVE TreeStep
    <3>1. CASE Hidden(w)
      BY <3>1, HiddenStep, TreeHidden DEF TreeStep
    <3>2. CASE ~Hidden(w)
      BY <2>1, <3>2, TreeFork, TreeAdd, TreePerform, TreeFinish, TreeRecycle DEF Step, Hidden
    <3>. QED
      BY <3>1, <3>2
  <2>2. CASE NextStage
    BY <2>2, TreeStage
  <2>3. CASE Cancel \/ UNCHANGED vars
    <3>1. UNCHANGED <<status, parent, jobQueue, below, mainJob, opCompleted>>
      BY <2>3 DEF Cancel, vars, jobVars, queueVars
    <3>. QED
      BY <3>1, TreeHidden DEF TreeStep
  <2>. QED
    BY <2>1, <2>2, <2>3 DEF Next
<1>. QED
  BY <1>1, <1>2, InvariantHolds, PTL DEF Spec, ImplementsTree, Tree!Spec

\* So the jobs of the scheduler are in the states of the job tree ...
THEOREM TreeTyping == Spec => []Tree!TypeOK
<1>1. TypeOK => Tree!TypeOK
  <2>. SUFFICES ASSUME TypeOK PROVE Tree!TypeOK
    OBVIOUS
  <2>1. JobTypes /\ QueueTypes
    BY DEF TypeOK
  <2>2. \A j \in Jobs :
           (CASE status[j] = "free" -> "unborn"
              [] status[j] = "pending" -> "active"
              [] status[j] = "done" -> "done") \in {"unborn", "active", "done"}
    BY <2>1 DEF JobTypes
  <2>. QED
    BY <2>1, <2>2 DEF JobTypes, QueueTypes, Tree!TypeOK, Tree!NoQueue, NoQueue
<1>. QED
  BY <1>1, SchedulerTyping, PTL

\* ... and no job outlives an ancestor: a worker that finds the last child done
\* completes the parent, nobody else, and only then is its slot used again.
THEOREM ForkJoin == Spec => []Tree!AncestorsActive
<1>1. IInv => Tree!AncestorsActive
  <2>. SUFFICES ASSUME Safe, NEW j \in Jobs, parent[j] # NoJob,
                       (CASE status[j] = "free" -> "unborn"
                          [] status[j] = "pending" -> "active"
                          [] status[j] = "done" -> "done") = "active"
                PROVE  status[parent[j]] = "pending" /\ parent[j] \in Jobs
    BY DEF IInv, Tree!AncestorsActive
  <2>1. status[j] \in {"free", "pending", "done"} /\ parent[j] \in Jobs \union {NoJob}
    BY DEF Safe, Typed, TypeOK, JobTypes
  <2>2. status[j] = "pending"
    BY <2>1
  <2>. QED
    BY <2>1, <2>2 DEF Safe, SlotsOK
<1>. QED
  BY <1>1, InvariantHolds, PTL
=============================================================================
