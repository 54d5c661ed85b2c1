------------------------------- MODULE Event --------------------------------
(***************************************************************************)
(* gpos::CEvent with the counters of the code: threads take the mutex the  *)
(* event is bound to, signal, broadcast or wait.  A wait relinquishes the  *)
(* mutex inside the condition variable, and since the code never sleeps    *)
(* longer than the abort-check interval a sleeper may return at any time,  *)
(* so the condition variable itself adds no state.                         *)
(***************************************************************************)
EXTENDS Naturals, FiniteSets

CONSTANTS
    Threads,
    NoThread,   \* the mutex is free
    MaxTotal    \* bound on the number of effective signals and broadcasts

ASSUME ThreadsAssumption == IsFiniteSet(Threads)
ASSUME NoThreadAssumption == NoThread \notin Threads
ASSUME MaxTotalAssumption == MaxTotal \in Nat

VARIABLES
    mutex,             \* m_pmutex: its owner
    ulWaiters,         \* m_ulWaiters
    ulSignals,         \* m_ulSignals
    ulSignalsTotal,    \* m_ulSignalsTotal
    ulBroadcastsTotal, \* m_ulBroadcastsTotal
    at,                \* where each thread is
    signalsPrevious,   \* ulSignalsPrevious of each thread in EresTimedWait
    broadcastsPrevious \* ulBroadcastsPrevious of each thread in EresTimedWait

vars == <<mutex, ulWaiters, ulSignals, ulSignalsTotal, ulBroadcastsTotal, at,
          signalsPrevious, broadcastsPrevious>>

locals == <<signalsPrevious, broadcastsPrevious>>

\* "outside": does not use the event; "inside": holds the mutex, may operate;
\* "asleep": in InternalTimedWait without the mutex; "looking": has regained
\* the mutex and evaluates the loop of EresTimedWait.
Places == {"outside", "inside", "asleep", "looking"}

Waiting == {t \in Threads : at[t] \in {"asleep", "looking"}}

TypeOK ==
    /\ mutex \in Threads \union {NoThread}
    /\ {ulWaiters, ulSignals, ulSignalsTotal, ulBroadcastsTotal} \subseteq Nat
    /\ at \in [Threads -> Places]
    /\ signalsPrevious \in [Threads -> Nat]
    /\ broadcastsPrevious \in [Threads -> Nat]

Init ==
    /\ mutex = NoThread
    /\ ulWaiters = 0 /\ ulSignals = 0
    /\ ulSignalsTotal = 0 /\ ulBroadcastsTotal = 0
    /\ at = [t \in Threads |-> "outside"]
    /\ signalsPrevious = [t \in Threads |-> 0]
    /\ broadcastsPrevious = [t \in Threads |-> 0]

-----------------------------------------------------------------------------
counters == <<ulWaiters, ulSignals, ulSignalsTotal, ulBroadcastsTotal>>

\* The caller locks and unlocks the mutex around its calls.
Lock(t) ==
    /\ at[t] = "outside" /\ mutex = NoThread
    /\ mutex' = t
    /\ at' = [at EXCEPT ![t] = "inside"]
    /\ UNCHANGED <<counters, locals>>

Unlock(t) ==
    /\ at[t] = "inside"
    /\ mutex' = NoThread
    /\ at' = [at EXCEPT ![t] = "outside"]
    /\ UNCHANGED <<counters, locals>>

\* CEvent::Signal
Signal(t) ==
    /\ at[t] = "inside"
    /\ ulWaiters > 0
    /\ ulSignalsTotal + ulBroadcastsTotal < MaxTotal
    /\ ulSignals' = ulSignals + 1
    /\ ulSignalsTotal' = ulSignalsTotal + 1
    /\ UNCHANGED <<mutex, ulWaiters, ulBroadcastsTotal, at, locals>>

\* Mutant of Broadcast: pending signals survive it.
Broadcast_KeepsSignals(t) ==
    /\ at[t] = "inside"
    /\ ulWaiters > 0
    /\ ulSignalsTotal + ulBroadcastsTotal < MaxTotal
    /\ ulBroadcastsTotal' = ulBroadcastsTotal + 1
    /\ UNCHANGED <<mutex, ulWaiters, ulSignals, ulSignalsTotal, at, locals>>

\* CEvent::Broadcast
Broadcast(t) ==
    /\ at[t] = "inside"
    /\ ulWaiters > 0
    /\ ulSignalsTotal + ulBroadcastsTotal < MaxTotal
    /\ ulBroadcastsTotal' = ulBroadcastsTotal + 1
    /\ ulSignals' = 0
    /\ UNCHANGED <<mutex, ulWaiters, ulSignalsTotal, at, locals>>

\* CEvent::EresTimedWait up to the Relinquish of InternalTimedWait
StartWait(t) ==
    /\ at[t] = "inside"
    /\ signalsPrevious' = [signalsPrevious EXCEPT ![t] = ulSignalsTotal]
    /\ broadcastsPrevious' = [broadcastsPrevious EXCEPT ![t] = ulBroadcastsTotal]
    /\ ulWaiters' = ulWaiters + 1
    /\ mutex' = NoThread
    /\ at' = [at EXCEPT ![t] = "asleep"]
    /\ UNCHANGED <<ulSignals, ulSignalsTotal, ulBroadcastsTotal>>

\* The condition variable returns, for a signal or at the polling interval.
Regain(t) ==
    /\ at[t] = "asleep" /\ mutex = NoThread
    /\ mutex' = t
    /\ at' = [at EXCEPT ![t] = "looking"]
    /\ UNCHANGED <<counters, locals>>

\* Mutants: only the latest broadcast counts; a consumed signal still counts.
GotBroadcast_Latest(t) == broadcastsPrevious[t] = ulBroadcastsTotal - 1
GotBroadcast(t) == broadcastsPrevious[t] < ulBroadcastsTotal
GotSignal(t) == ulSignals > 0 /\ signalsPrevious[t] < ulSignalsTotal

\* EresTimedWait returns to its caller, which holds the mutex again; the dtor
\* of CAutoCounter runs, whether by return or by exception.
Return(t) ==
    /\ ulWaiters' = ulWaiters - 1
    /\ at' = [at EXCEPT ![t] = "inside"]
    /\ UNCHANGED <<mutex, ulSignalsTotal, ulBroadcastsTotal, locals>>

WakeByBroadcast(t) ==
    /\ at[t] = "looking"
    /\ GotBroadcast(t)
    /\ Return(t)
    /\ UNCHANGED ulSignals

WakeBySignal(t) ==
    /\ at[t] = "looking"
    /\ ~GotBroadcast(t) /\ GotSignal(t)
    /\ ulSignals' = ulSignals - 1
    /\ Return(t)

\* Timeout of the caller or abort request (GPOS_CHECK_ABORT raises).
GiveUp(t) ==
    /\ at[t] = "looking"
    /\ ~GotBroadcast(t) /\ ~GotSignal(t)
    /\ Return(t)
    /\ UNCHANGED ulSignals

\* Nothing yet: the loop calls InternalTimedWait again.
SleepAgain(t) ==
    /\ at[t] = "looking"
    /\ ~GotBroadcast(t) /\ ~GotSignal(t)
    /\ mutex' = NoThread
    /\ at' = [at EXCEPT ![t] = "asleep"]
    /\ UNCHANGED <<counters, locals>>

Next ==
    \E t \in Threads :
        \/ Lock(t) \/ Unlock(t) \/ Signal(t) \/ Broadcast(t) \/ StartWait(t)
        \/ Regain(t) \/ WakeByBroadcast(t) \/ WakeBySignal(t)
        \/ GiveUp(t) \/ SleepAgain(t)

\* A sleeper polls, the mutex does not starve it, and whoever holds the mutex
\* leaves it.  No caller is obliged to use the event, no waiter to give up.
Fairness ==
    \A t \in Threads :
        /\ SF_vars(Regain(t))
        /\ WF_vars(WakeByBroadcast(t) \/ WakeBySignal(t) \/ SleepAgain(t))
        /\ WF_vars(Unlock(t))

Spec == Init /\ [][Next]_vars
FairSpec == Spec /\ Fairness

-----------------------------------------------------------------------------
Promise == INSTANCE EventWaiters WITH
    waiters <- Waiting,
    signals <- ulSignals,
    sawSignal <- {t \in Waiting : signalsPrevious[t] < ulSignalsTotal},
    sawBroadcast <- {t \in Waiting : broadcastsPrevious[t] < ulBroadcastsTotal}

\* The totals and snapshots of the code implement the waiter-level promise:
\* who may return, and which signals are left, never depends on the counts.
ImplementsPromise == Promise!Spec

\* "all current waiters will receive the broadcast" (CEvent::Broadcast).
BroadcastDelivered ==
    \A t \in Threads :
        (t \in Waiting /\ broadcastsPrevious[t] < ulBroadcastsTotal)
            ~> t \notin Waiting
=============================================================================
