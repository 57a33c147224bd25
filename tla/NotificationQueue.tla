--------------------------- MODULE NotificationQueue ---------------------------
(***************************************************************************)
(* The queue between the vendor SAI's callbacks and syncd's notification   *)
(* thread (syncd/NotificationQueue.cpp).  Every operation runs under the   *)
(* queue's own mutex, so each one is a single action.                      *)
(*                                                                         *)
(* An item is represented by the name of its event, the only part of it    *)
(* the drop policy looks at.  m_dropCount only feeds a log line and is left *)
(* out.                                                                    *)
(***************************************************************************)
EXTENDS Naturals, Sequences

CONSTANTS
    Events,         \* the names of the notifications
    FdbEvent,       \* SAI_SWITCH_NOTIFICATION_NAME_FDB_EVENT
    QueueLimit,     \* m_queueSizeLimit
    ThresholdLimit  \* m_thresholdLimit

ASSUME EventsAssumption == FdbEvent \in Events
ASSUME LimitAssumption == QueueLimit \in Nat
ASSUME ThresholdAssumption == ThresholdLimit \in Nat \ {0}

VARIABLES m_queue, m_lastEvent, m_lastEventCount

queueVars == <<m_queue, m_lastEvent, m_lastEventCount>>

QueueTypeOK ==
    /\ m_queue \in Seq(Events)
    /\ m_lastEvent \in Events
    /\ m_lastEventCount \in Nat

QueueInit ==
    /\ m_queue = << >>
    /\ m_lastEvent = FdbEvent
    /\ m_lastEventCount = 0

--------------------------------------------------------------------------------
\* The length of the run of equal events that ends with currentEvent.  The run
\* is counted over everything offered, dropped items included.
RunLength(currentEvent) ==
    IF currentEvent = m_lastEvent THEN m_lastEventCount + 1 ELSE 1

\* Variants of the policy that a slip in this code would produce; no
\* behaviour of the queue uses them.
DropWhenStrictlyOver(currentEvent) ==
    /\ Len(m_queue) > QueueLimit
    /\ currentEvent = FdbEvent \/ RunLength(currentEvent) >= ThresholdLimit

DropBeyondThreshold(currentEvent) ==
    /\ Len(m_queue) >= QueueLimit
    /\ currentEvent = FdbEvent \/ RunLength(currentEvent) > ThresholdLimit

CandidateToDrop(currentEvent) ==
    /\ Len(m_queue) >= QueueLimit
    /\ currentEvent = FdbEvent \/ RunLength(currentEvent) >= ThresholdLimit

\* NotificationQueue::enqueue; the two actions are its two return values.
Enqueue(currentEvent) ==
    /\ ~CandidateToDrop(currentEvent)
    /\ m_queue' = Append(m_queue, currentEvent)
    /\ m_lastEventCount' = RunLength(currentEvent)
    /\ m_lastEvent' = currentEvent

EnqueueDropped(currentEvent) ==
    /\ CandidateToDrop(currentEvent)
    /\ m_lastEventCount' = RunLength(currentEvent)
    /\ m_lastEvent' = currentEvent
    /\ UNCHANGED m_queue

\* NotificationQueue::tryDequeue.  Draining the queue only replaces the
\* container: the run counters survive it.
TryDequeue ==
    /\ m_queue # << >>
    /\ m_queue' = Tail(m_queue)
    /\ UNCHANGED <<m_lastEvent, m_lastEventCount>>
================================================================================
