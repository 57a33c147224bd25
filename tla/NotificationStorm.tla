--------------------------- MODULE NotificationStorm ---------------------------
(***************************************************************************)
(* The notification queue under a storm: the vendor SAI offers events, the *)
(* notification thread takes them.  A history variable counts the runs of  *)
(* equal events offered since the queue was last below its limit: the drop *)
(* policy limits the queue per run, so that count decides how far the      *)
(* queue may outgrow its limit.                                            *)
(***************************************************************************)
EXTENDS NotificationQueue

VARIABLE runs

stormVars == <<queueVars, runs>>

StormInit == QueueInit /\ runs = 0

\* The history of one offered event: a new run starts when an event that
\* differs from the last one is offered to a queue that is at its limit.
CountRun(currentEvent) ==
    runs' = IF Len(m_queue) < QueueLimit THEN 0
            ELSE IF currentEvent = m_lastEvent THEN runs ELSE runs + 1

Offer(currentEvent) ==
    /\ Enqueue(currentEvent) \/ EnqueueDropped(currentEvent)
    /\ CountRun(currentEvent)

Take ==
    /\ TryDequeue
    /\ runs' = IF Len(m_queue') < QueueLimit THEN 0 ELSE runs

StormNext == Take \/ \E e \in Events : Offer(e)

StormSpec == StormInit /\ [][StormNext]_stormVars

--------------------------------------------------------------------------------
\* The queue and the history of it have their types.
StormTypeOK == QueueTypeOK /\ runs \in Nat

\* No FDB event ever sits beyond the configured queue size: the memory that an
\* FDB storm can take is bounded by QueueLimit whatever else arrives, and
\* whatever the consumer does (NotificationQueue::enqueue, condition 1).
FdbWithinLimit ==
    \A i \in 1..Len(m_queue) : m_queue[i] = FdbEvent => i <= QueueLimit

\* Condition 2 of NotificationQueue::enqueue bounds the queue per run: each
\* run of equal events can push it at most ThresholdLimit - 1 items further
\* beyond the limit.  (The number of runs is not bounded by the code, so two
\* alternating events can grow the queue for ever.)
StormBound ==
    Len(m_queue) <= QueueLimit + (ThresholdLimit - 1) * (runs + 1)
================================================================================
