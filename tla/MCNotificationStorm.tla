-------------------------- MODULE MCNotificationStorm --------------------------
(***************************************************************************)
(* A queue of limit 2 and threshold 3, offered events of three kinds.      *)
(***************************************************************************)
EXTENDS NotificationStorm

CONSTANTS
    MaxQueue,   \* the queue is offered nothing once it has this many items
    MaxRuns,    \* nor after this many runs at the limit
    MaxRunLength  \* nor an event that makes a run longer than this

MCOffer(e) ==
    /\ Len(m_queue) < MaxQueue
    /\ runs < MaxRuns
    /\ RunLength(e) <= MaxRunLength
    /\ Offer(e)

MCNext == Take \/ \E e \in Events : MCOffer(e)

MCSpec == StormInit /\ [][MCNext]_stormVars
================================================================================
