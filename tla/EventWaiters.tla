---------------------------- MODULE EventWaiters ----------------------------
(***************************************************************************)
(* What gpos::CEvent promises the threads that use it, as the state a      *)
(* caller can tell apart.  CEvent pairs a condition variable with a mutex; *)
(* every operation below runs with that mutex held, so each is one step.   *)
(*                                                                         *)
(* The code keeps two 64-bit totals and lets a waiter compare them with    *)
(* the values it read when it began to wait.  All that the comparison can  *)
(* tell is whether a signal (a broadcast) was sent since then, so the two  *)
(* sets sawSignal and sawBroadcast stand for the totals and the snapshots. *)
(* Module Event has the totals; it is shown there to implement this one.   *)
(***************************************************************************)
EXTENDS Naturals, FiniteSets

CONSTANT Threads

VARIABLES
    waiters,       \* the threads counted by m_ulWaiters
    signals,       \* m_ulSignals, the signals no waiter has consumed
    sawSignal,     \* waiters with ulSignalsPrevious < m_ulSignalsTotal
    sawBroadcast   \* waiters with ulBroadcastsPrevious < m_ulBroadcastsTotal

eventVars == <<waiters, signals, sawSignal, sawBroadcast>>

TypeOK ==
    /\ waiters \subseteq Threads
    /\ signals \in Nat
    /\ sawSignal \subseteq waiters
    /\ sawBroadcast \subseteq waiters

Init ==
    /\ waiters = {}
    /\ signals = 0
    /\ sawSignal = {}
    /\ sawBroadcast = {}

-----------------------------------------------------------------------------

\* CEvent::Signal has no effect when nobody waits.
Signal ==
    IF waiters = {}
    THEN UNCHANGED eventVars
    ELSE /\ signals' = signals + 1
         /\ sawSignal' = waiters
         /\ UNCHANGED <<waiters, sawBroadcast>>

\* CEvent::Broadcast wakes every present waiter and drops pending signals.
Broadcast ==
    IF waiters = {}
    THEN UNCHANGED eventVars
    ELSE /\ signals' = 0
         /\ sawBroadcast' = waiters
         /\ UNCHANGED <<waiters, sawSignal>>

\* The entry of CEvent::EresTimedWait: take the snapshots, count the waiter.
StartWait(t) ==
    /\ t \notin waiters
    /\ waiters' = waiters \union {t}
    /\ UNCHANGED <<signals, sawSignal, sawBroadcast>>

Depart(t) ==
    /\ waiters' = waiters \ {t}
    /\ sawSignal' = sawSignal \ {t}
    /\ sawBroadcast' = sawBroadcast \ {t}

\* A waiter returns GPOS_OK: a broadcast reached it, or it takes a signal.
\* The code looks at the broadcast first and then leaves the signals alone.
Wake(t) ==
    /\ t \in waiters
    /\ \/ t \in sawBroadcast /\ UNCHANGED signals
       \/ t \notin sawBroadcast /\ t \in sawSignal /\ signals > 0
          /\ signals' = signals - 1
    /\ Depart(t)

\* A waiter that finds neither leaves on a timeout or on an abort request.
GiveUp(t) ==
    /\ t \in waiters \ sawBroadcast
    /\ t \in sawSignal => signals = 0
    /\ UNCHANGED signals
    /\ Depart(t)

Next ==
    \/ Signal
    \/ Broadcast
    \/ \E t \in Threads : StartWait(t) \/ Wake(t) \/ GiveUp(t)

Spec == Init /\ [][Next]_eventVars
=============================================================================
