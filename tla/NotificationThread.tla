-------------------------- MODULE NotificationThread ---------------------------
(***************************************************************************)
(* Delivery of vendor SAI notifications: the callback threads of the       *)
(* vendor (NotificationHandler), the notification thread of syncd          *)
(* (NotificationProcessor::ntf_process_function) and the main thread,      *)
(* which starts and stops the notification thread and shares Syncd::m_mutex *)
(* with it.                                                                *)
(*                                                                         *)
(* The condition variable is waited on without a predicate and with a      *)
(* mutex no notifier takes, so a notify that comes between a test made by  *)
(* the notification thread and its wait is lost: the test and the wait are *)
(* steps of their own.                                                     *)
(***************************************************************************)
EXTENDS NotificationQueue

CONSTANTS
    Callbacks,      \* the vendor's threads
    FlowBulkEvent,  \* SAI_SWITCH_NOTIFICATION_NAME_FLOW_BULK_GET_SESSION_EVENT
    MaxQueue,       \* bound: no callback comes when the queue is this long
    MaxRunLength    \* bound: nor one that makes a run of equal events longer than this

ASSUME FlowBulkAssumption == FlowBulkEvent \in Events \ {FdbEvent}

VARIABLES
    callback,       \* callback[c] = "signal" between enqueue and signal()
    m_runThread,
    ntf,            \* where the notification thread is
    item,           \* the item it took from the queue
    main,           \* where the main thread is
    m_mutex         \* Syncd::m_mutex: "free" or the thread that holds it

threadVars == <<callback, m_runThread, ntf, item, main, m_mutex>>
vars == <<queueVars, threadVars>>

NtfStates == {"none", "check", "wait", "blocked", "drain", "process", "inside",
              "exited", "terminated"}
MainStates == {"init", "loop", "event", "stopping", "flagged", "join", "done"}

Init ==
    /\ QueueInit
    /\ callback = [c \in Callbacks |-> "idle"]
    /\ m_runThread = FALSE
    /\ ntf = "none"
    /\ item = FdbEvent
    /\ main = "init"
    /\ m_mutex = "free"

\* An exception that leaves ntf_process_function ends the process.
Running == ntf # "terminated"

--------------------------------------------------------------------------------
(* NotificationHandler::enqueueNotification, in a thread of the vendor.    *)

Callback(c, e) ==
    /\ Running
    /\ main \in {"init", "loop", "event", "stopping"}
    /\ callback[c] = "idle"
    /\ Len(m_queue) < MaxQueue /\ RunLength(e) <= MaxRunLength
    /\ \/ Enqueue(e) /\ callback' = [callback EXCEPT ![c] = "signal"]
       \/ EnqueueDropped(e) /\ UNCHANGED callback
    /\ UNCHANGED <<m_runThread, ntf, item, main, m_mutex>>

\* Variant: a notify that wakes no thread.
NotifyNobody == ntf' = ntf

\* notify_all wakes the thread if it is blocked in wait, and is lost otherwise.
NotifyAll == ntf' = IF ntf = "blocked" THEN "drain" ELSE ntf

Signal(c) ==
    /\ Running
    /\ callback[c] = "signal"
    /\ callback' = [callback EXCEPT ![c] = "idle"]
    /\ NotifyAll
    /\ UNCHANGED <<queueVars, m_runThread, item, main, m_mutex>>

--------------------------------------------------------------------------------
(* NotificationProcessor::ntf_process_function                             *)

NtfStep(from, to) ==
    /\ ntf = from
    /\ ntf' = to
    /\ UNCHANGED <<callback, m_runThread, main>>

TestRunThread ==
    /\ NtfStep("check", IF m_runThread THEN "wait" ELSE "exited")
    /\ UNCHANGED <<queueVars, item, m_mutex>>

Wait ==
    /\ NtfStep("wait", "blocked")
    /\ UNCHANGED <<queueVars, item, m_mutex>>

\* std::condition_variable may return from wait without a notify.
SpuriousWakeup ==
    /\ NtfStep("blocked", "drain")
    /\ UNCHANGED <<queueVars, item, m_mutex>>

Dequeue ==
    /\ TryDequeue
    /\ NtfStep("drain", "process")
    /\ item' = Head(m_queue)
    /\ UNCHANGED m_mutex

QueueEmpty ==
    /\ m_queue = << >>
    /\ NtfStep("drain", "check")
    /\ UNCHANGED <<queueVars, item, m_mutex>>

\* Variant: the synchronizer without its lock.
ProcessUnlocked ==
    /\ NtfStep("process", "inside")
    /\ UNCHANGED <<queueVars, item, m_mutex>>

\* The synchronizer: Syncd::syncProcessNotification takes m_mutex.  A flow bulk
\* event goes to its handler directly (NotificationProcessor::processNotification).
ProcessNotification ==
    /\ NtfStep("process", "inside")
    /\ \/ item = FlowBulkEvent /\ UNCHANGED m_mutex
       \/ item # FlowBulkEvent /\ m_mutex = "free" /\ m_mutex' = "ntf"
    /\ UNCHANGED <<queueVars, item>>

\* A handler returns, or throws: a RID it cannot translate.
HandlerLeaves(to) ==
    /\ NtfStep("inside", to)
    /\ m_mutex' = IF item = FlowBulkEvent THEN m_mutex ELSE "free"
    /\ UNCHANGED <<queueVars, item>>

HandlerReturns == HandlerLeaves("drain")
HandlerThrows == HandlerLeaves("terminated")

--------------------------------------------------------------------------------
(* The main thread: Syncd::run                                             *)

MainStep(from, to) ==
    /\ Running
    /\ main = from
    /\ main' = to
    /\ UNCHANGED <<queueVars, callback, item>>

\* startNotificationsProcessingThread, once the switch exists.
StartThread ==
    /\ MainStep("init", "loop")
    /\ m_runThread' = TRUE
    /\ ntf' = "check"
    /\ UNCHANGED m_mutex

\* onSyncdStart throws: the loop runs without a notification thread.
StartFails ==
    /\ MainStep("init", "loop")
    /\ UNCHANGED <<m_runThread, ntf, m_mutex>>

\* processEvent, under m_mutex.
ProcessEvent ==
    /\ MainStep("loop", "event")
    /\ m_mutex = "free"
    /\ m_mutex' = "main"
    /\ UNCHANGED <<m_runThread, ntf>>

EventDone ==
    /\ MainStep("event", "loop")
    /\ m_mutex' = "free"
    /\ UNCHANGED <<m_runThread, ntf>>

LeaveLoop ==
    /\ MainStep("loop", "stopping")
    /\ UNCHANGED <<m_runThread, ntf, m_mutex>>

\* Variant: a stop that forgets the flag.
KeepRunThread ==
    /\ MainStep("stopping", "flagged")
    /\ UNCHANGED <<m_runThread, ntf, m_mutex>>

\* stopNotificationsProcessingThread
ClearRunThread ==
    /\ MainStep("stopping", "flagged")
    /\ m_runThread' = FALSE
    /\ UNCHANGED <<ntf, m_mutex>>

StopNotify ==
    /\ MainStep("flagged", "join")
    /\ NotifyAll
    /\ UNCHANGED <<m_runThread, m_mutex>>

Join ==
    /\ MainStep("join", "done")
    /\ ntf \in {"none", "exited"}
    /\ UNCHANGED <<m_runThread, ntf, m_mutex>>

--------------------------------------------------------------------------------
NtfNext ==
    \/ TestRunThread
    \/ Wait
    \/ Dequeue
    \/ QueueEmpty
    \/ ProcessNotification
    \/ HandlerReturns

MainNext ==
    \/ StartThread
    \/ StartFails
    \/ ProcessEvent
    \/ EventDone
    \/ LeaveLoop
    \/ ClearRunThread
    \/ StopNotify
    \/ Join

Next ==
    \/ \E c \in Callbacks, e \in Events : Callback(c, e)
    \/ \E c \in Callbacks : Signal(c)
    \/ NtfNext
    \/ SpuriousWakeup
    \/ HandlerThrows
    \/ MainNext

Spec == Init /\ [][Next]_vars

\* A thread that can run runs; a thread that can take m_mutex again and again
\* gets it at last.  Nothing is assumed of the arrival of notifications or
\* events, of spurious wakeups, or of a decision to leave the main loop.
Fairness ==
    /\ WF_vars(TestRunThread \/ Wait \/ Dequeue \/ QueueEmpty \/ HandlerReturns)
    /\ SF_vars(ProcessNotification)
    /\ \A c \in Callbacks : WF_vars(Signal(c))
    /\ WF_vars(EventDone \/ ClearRunThread \/ StopNotify \/ Join)

FairSpec == Spec /\ Fairness

--------------------------------------------------------------------------------
TypeOK ==
    /\ QueueTypeOK
    /\ callback \in [Callbacks -> {"idle", "signal"}]
    /\ m_runThread \in BOOLEAN
    /\ ntf \in NtfStates
    /\ item \in Events
    /\ main \in MainStates
    /\ m_mutex \in {"free", "main", "ntf"}

\* Every notification but the flow bulk event is handled while the main thread
\* is outside processEvent (Syncd::m_mutex), from any interleaving of the
\* callbacks, a start, a stop and the events.
HandledApartFromEvents ==
    ntf = "inside" /\ item # FlowBulkEvent => main # "event"

\* A signal that finds the notification thread waiting is enough for the whole
\* backlog, whatever wakeups were lost before: the thread takes the oldest
\* queued item (Signal, ntf_process_function).
SignalledBacklogIsTaken ==
    ntf = "blocked" /\ m_queue # << >> /\ (\E c \in Callbacks : callback[c] = "signal")
        ~> ntf = "process"

\* A stop that finds the notification thread waiting returns, also when a
\* callback or a spurious wakeup gets in between the flag and the notify, and
\* whatever is still queued (stopNotificationsProcessingThread).
StopFromWaitReturns ==
    main = "flagged" /\ ntf = "blocked" ~> main = "done" \/ ntf = "terminated"
================================================================================
