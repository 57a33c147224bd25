-------------------------- MODULE NotificationProofs ---------------------------
(***************************************************************************)
(* The path of a notification, for every value of the constants.           *)
(* The notification queue in a storm: type correctness and the two memory  *)
(* bounds.  The notification thread: Syncd::m_mutex keeps notification     *)
(* handlers and processEvent apart.  Link event damping:                   *)
(* PendingIsReleased, SuppressedIsRemembered and DecayEndsInTime.  The     *)
(* first two of these are about flags and statuses: what the penalties are *)
(* does not matter, so nothing is needed of the decay but that it leaves   *)
(* the other fields alone.  The second needs an invariant that follows a   *)
(* status through the three threads.  The third is about the penalties     *)
(* alone.                                                                  *)
(***************************************************************************)
EXTENDS NotificationStorm, NotificationThread, LinkEventDamping, TLAPS

\* Appending and taking the head keep the queue's type; the elements move as
\* expected.
LEMMA AppendFacts ==
    ASSUME NEW q \in Seq(Events), NEW e \in Events
    PROVE  /\ Append(q, e) \in Seq(Events)
           /\ Len(Append(q, e)) = Len(q) + 1
           /\ \A i \in 1..Len(q) : Append(q, e)[i] = q[i]
           /\ Append(q, e)[Len(q) + 1] = e
  OBVIOUS

\* The rest of a queue that is not empty.
LEMMA TailFacts ==
    ASSUME NEW q \in Seq(Events), q # << >>
    PROVE  /\ Tail(q) \in Seq(Events)
           /\ Len(Tail(q)) = Len(q) - 1
           /\ \A i \in 1..Len(q) - 1 : Tail(q)[i] = q[i + 1]
  OBVIOUS

\* One more run at the limit is worth ThresholdLimit - 1 more places.
LEMMA OneMoreRun ==
    ASSUME NEW k \in Nat, NEW r \in Nat
    PROVE  /\ k * (r + 1) = k * r + k
           /\ k * r \in Nat
  OBVIOUS

\* A run has one event at least.
LEMMA RunLengthType ==
    ASSUME QueueTypeOK, NEW e \in Events
    PROVE  RunLength(e) \in Nat \ {0}
  BY DEF QueueTypeOK, RunLength

\* The queue holds events only, whatever is offered and taken
\* (NotificationQueue::enqueue, tryDequeue).
LEMMA StormTypeCorrect == StormSpec => []StormTypeOK
  <1>1. StormInit => StormTypeOK
    BY EventsAssumption, ThresholdAssumption
       DEF StormInit, QueueInit, StormTypeOK, QueueTypeOK
  <1>2. StormTypeOK /\ [StormNext]_stormVars => StormTypeOK'
    <2> SUFFICES ASSUME StormTypeOK, [StormNext]_stormVars PROVE StormTypeOK'
      OBVIOUS
    <2> USE DEF StormTypeOK
    <2>1. ASSUME NEW e \in Events, Offer(e) PROVE StormTypeOK'
      <3>1. RunLength(e) \in Nat
        BY RunLengthType
      <3>2. m_queue' \in Seq(Events)
        BY <2>1, AppendFacts DEF Offer, Enqueue, EnqueueDropped, QueueTypeOK
      <3>3. runs' \in Nat
        BY <2>1 DEF Offer, CountRun
      <3> QED
        BY <2>1, <3>1, <3>2, <3>3 DEF Offer, Enqueue, EnqueueDropped, QueueTypeOK
    <2>2. CASE Take
      <3>1. m_queue' \in Seq(Events)
        BY <2>2, TailFacts DEF Take, TryDequeue, QueueTypeOK
      <3> QED
        BY <2>2, <3>1 DEF Take, TryDequeue, QueueTypeOK
    <2>3. CASE UNCHANGED stormVars
      BY <2>3 DEF stormVars, queueVars, QueueTypeOK
    <2> QED
      BY <2>1, <2>2, <2>3 DEF StormNext
  <1> QED
    BY <1>1, <1>2, PTL DEF StormSpec

\* The FDB events of a storm never occupy a place beyond the queue's limit.
THEOREM FdbStormBounded == StormSpec => []FdbWithinLimit
  <1>1. StormInit => FdbWithinLimit
    BY DEF StormInit, QueueInit, FdbWithinLimit
  <1>2. StormTypeOK /\ FdbWithinLimit /\ [StormNext]_stormVars => FdbWithinLimit'
    <2> SUFFICES ASSUME StormTypeOK, FdbWithinLimit, [StormNext]_stormVars
                 PROVE  FdbWithinLimit'
      OBVIOUS
    <2> USE DEF StormTypeOK, QueueTypeOK
    <2>1. ASSUME NEW e \in Events, Offer(e) PROVE FdbWithinLimit'
      <3>1. CASE EnqueueDropped(e)
        BY <3>1 DEF EnqueueDropped, FdbWithinLimit
      <3>2. CASE Enqueue(e)
        <4>1. e = FdbEvent => Len(m_queue) + 1 <= QueueLimit
          BY <3>2, LimitAssumption DEF Enqueue, CandidateToDrop
        <4>2. m_queue' = Append(m_queue, e)
          BY <3>2 DEF Enqueue
        <4> QED
          BY <4>1, <4>2, AppendFacts, LimitAssumption DEF FdbWithinLimit
      <3> QED
        BY <2>1, <3>1, <3>2 DEF Offer
    <2>2. CASE Take
      <3>1. m_queue # << >> /\ m_queue' = Tail(m_queue)
        BY <2>2 DEF Take, TryDequeue
      <3> QED
        BY <3>1, TailFacts, LimitAssumption DEF FdbWithinLimit
    <2>3. CASE UNCHANGED stormVars
      BY <2>3 DEF stormVars, queueVars, FdbWithinLimit
    <2> QED
      BY <2>1, <2>2, <2>3 DEF StormNext
  <1> QED
    BY <1>1, <1>2, StormTypeCorrect, PTL DEF StormSpec

--------------------------------------------------------------------------------
(***************************************************************************)
(* StormBound is not inductive: it forgets how much of the current run's   *)
(* share is used up.  The strengthening charges the finished runs in full  *)
(* and the current one for what its counter says.                          *)
(***************************************************************************)
Share == ThresholdLimit - 1

StormInv ==
    /\ Len(m_queue) <= QueueLimit + Share * runs + m_lastEventCount
    /\ Len(m_queue) <= QueueLimit + Share * runs + Share
    /\ Len(m_queue) < QueueLimit => runs = 0

\* The queue outgrows its limit by at most ThresholdLimit - 1 items for each
\* run of equal events offered while it is at the limit.
THEOREM StormBounded == StormSpec => []StormBound
  <1>0. Share \in Nat
    BY ThresholdAssumption DEF Share
  <1>1. StormInit => StormInv
    BY <1>0, LimitAssumption, OneMoreRun DEF StormInit, QueueInit, StormInv
  <1>2. StormTypeOK /\ StormInv /\ [StormNext]_stormVars => StormInv'
    <2> SUFFICES ASSUME StormTypeOK, StormInv, [StormNext]_stormVars PROVE StormInv'
      OBVIOUS
    <2> USE <1>0, LimitAssumption, ThresholdAssumption DEF StormTypeOK, QueueTypeOK
    <2>0. Share' = Share
      BY DEF Share
    <2>1. ASSUME NEW e \in Events, Offer(e) PROVE StormInv'
      <3>1. RunLength(e) \in Nat \ {0}
        BY RunLengthType
      <3>2. m_lastEventCount' = RunLength(e)
        BY <2>1 DEF Offer, Enqueue, EnqueueDropped
      <3>3. /\ Len(m_queue') \in Nat
            /\ Len(m_queue') \in Len(m_queue)..Len(m_queue) + 1
        BY <2>1, AppendFacts DEF Offer, Enqueue, EnqueueDropped
      <3>4. CASE Len(m_queue) < QueueLimit
        <4>1. runs' = 0
          BY <2>1, <3>4 DEF Offer, CountRun
        <4>2. Share * runs' = 0
          BY <4>1
        <4> QED
          BY <2>0, <3>1, <3>2, <3>3, <3>4, <4>1, <4>2 DEF StormInv
      <3>5. CASE Len(m_queue) >= QueueLimit /\ e = m_lastEvent
        <4>1. runs' = runs
          BY <2>1, <3>5 DEF Offer, CountRun
        <4>2. CASE EnqueueDropped(e)
          <5>1. m_queue' = m_queue /\ RunLength(e) >= m_lastEventCount
            BY <3>5, <4>2, ThresholdAssumption
               DEF EnqueueDropped, RunLength
          <5> QED
            BY <2>0, <3>1, <3>2, <3>5, <4>1, <5>1, OneMoreRun, ThresholdAssumption
               DEF StormInv
        <4>3. CASE Enqueue(e)
          <5>1. RunLength(e) < ThresholdLimit
            BY <3>5, <4>3, <3>1, ThresholdAssumption DEF Enqueue, CandidateToDrop
          <5>2. RunLength(e) = m_lastEventCount + 1 /\ RunLength(e) <= Share
            BY <3>5, <5>1, ThresholdAssumption DEF RunLength, Share
          <5>3. Share * runs \in Nat
            BY OneMoreRun
          <5>4. Share * runs' = Share * runs
            BY <4>1
          <5> QED
            BY <2>0, <3>2, <3>3, <3>5, <4>1, <5>2, <5>3, <5>4 DEF StormInv
        <4> QED
          BY <2>1, <4>2, <4>3 DEF Offer
      <3>6. CASE Len(m_queue) >= QueueLimit /\ e # m_lastEvent
        <4>1. runs' = runs + 1 /\ RunLength(e) = 1
          BY <2>1, <3>6 DEF Offer, CountRun, RunLength
        <4>2. Share * runs' = Share * runs + Share /\ Share * runs \in Nat
          BY <4>1, OneMoreRun
        <4>3. CASE EnqueueDropped(e)
          <5>1. m_queue' = m_queue
            BY <4>3 DEF EnqueueDropped
          <5> QED
            BY <2>0, <3>2, <3>6, <4>1, <4>2, <5>1 DEF StormInv
        <4>4. CASE Enqueue(e)
          <5>1. 1 < ThresholdLimit
            BY <3>6, <4>1, <4>4, ThresholdAssumption DEF Enqueue, CandidateToDrop
          <5>2. Share >= 1
            BY <5>1, ThresholdAssumption DEF Share
          <5> QED
            BY <2>0, <3>2, <3>3, <3>6, <4>1, <4>2, <5>2 DEF StormInv
        <4> QED
          BY <2>1, <4>3, <4>4 DEF Offer
      <3> QED
        BY <3>4, <3>5, <3>6
    <2>2. CASE Take
      <3>1. /\ Len(m_queue') = Len(m_queue) - 1
            /\ m_lastEventCount' = m_lastEventCount
            /\ runs' = IF Len(m_queue') < QueueLimit THEN 0 ELSE runs
            /\ Len(m_queue') \in Nat
        BY <2>2, TailFacts DEF Take, TryDequeue
      <3>2. CASE Len(m_queue') < QueueLimit
        <4>1. runs' = 0 /\ Share * runs' = 0
          BY <3>1, <3>2
        <4> QED
          BY <2>0, <3>1, <3>2, <4>1 DEF StormInv
      <3>3. CASE ~(Len(m_queue') < QueueLimit)
        <4>1. runs' = runs /\ Share * runs \in Nat
          BY <3>1, <3>3, OneMoreRun
        <4> QED
          BY <2>0, <3>1, <3>3, <4>1 DEF StormInv
      <3> QED
        BY <3>2, <3>3
    <2>3. CASE UNCHANGED stormVars
      BY <2>0, <2>3 DEF stormVars, queueVars, StormInv
    <2> QED
      BY <2>1, <2>2, <2>3 DEF StormNext
  <1>3. StormTypeOK /\ StormInv => StormBound
    BY <1>0, LimitAssumption, OneMoreRun DEF StormTypeOK, StormInv, StormBound, Share
  <1> QED
    BY <1>1, <1>2, <1>3, StormTypeCorrect, PTL DEF StormSpec

--------------------------------------------------------------------------------
(* The notification thread                                                 *)

\* Enqueue and tryDequeue keep the type of the queue.
LEMMA QueueOperationsType ==
    ASSUME QueueTypeOK
    PROVE  /\ \A e \in Events : Enqueue(e) \/ EnqueueDropped(e) => QueueTypeOK'
           /\ TryDequeue => QueueTypeOK' /\ Head(m_queue) \in Events
  <1>1. ASSUME NEW e \in Events, Enqueue(e) \/ EnqueueDropped(e) PROVE QueueTypeOK'
    <2>1. RunLength(e) \in Nat
      BY RunLengthType
    <2>2. m_queue' \in Seq(Events)
      BY <1>1 DEF Enqueue, EnqueueDropped, QueueTypeOK
    <2> QED
      BY <1>1, <2>1, <2>2 DEF Enqueue, EnqueueDropped, QueueTypeOK
  <1>2. ASSUME TryDequeue PROVE QueueTypeOK' /\ Head(m_queue) \in Events
    BY <1>2 DEF TryDequeue, QueueTypeOK
  <1> QED
    BY <1>1, <1>2

\* Type correctness: the threads stay in their states, the queue holds events
\* only and m_mutex has one owner at most.
THEOREM TypeCorrect == Spec => []TypeOK
  <1>1. Init => TypeOK
    <2> SUFFICES ASSUME Init PROVE TypeOK
      OBVIOUS
    <2>1. QueueTypeOK
      BY EventsAssumption, ThresholdAssumption DEF Init, QueueInit, QueueTypeOK
    <2>2. m_runThread \in BOOLEAN /\ callback \in [Callbacks -> {"idle", "signal"}]
      BY DEF Init
    <2> QED
      BY <2>1, <2>2, EventsAssumption DEF Init, TypeOK, NtfStates, MainStates
  <1>2. TypeOK /\ [Next]_vars => TypeOK'
    <2> SUFFICES ASSUME TypeOK, [Next]_vars PROVE TypeOK'
      OBVIOUS
    <2> USE DEF TypeOK, NtfStates, MainStates
    <2>1. ASSUME NEW c \in Callbacks, NEW e \in Events, Callback(c, e) PROVE TypeOK'
      BY <2>1, QueueOperationsType DEF Callback
    <2>2. ASSUME NEW c \in Callbacks, Signal(c) PROVE TypeOK'
      BY <2>2 DEF Signal, NotifyAll, queueVars, QueueTypeOK
    <2>3. CASE NtfNext \/ SpuriousWakeup \/ HandlerThrows
      <3>1. CASE Dequeue
        BY <3>1, QueueOperationsType DEF Dequeue, NtfStep
      <3>2. CASE TestRunThread \/ Wait \/ QueueEmpty \/ SpuriousWakeup
        BY <3>2 DEF TestRunThread, Wait, QueueEmpty, SpuriousWakeup, NtfStep,
                    queueVars, QueueTypeOK
      <3>3. CASE ProcessNotification \/ HandlerReturns \/ HandlerThrows
        BY <3>3 DEF ProcessNotification, HandlerReturns, HandlerThrows, HandlerLeaves,
                    NtfStep, queueVars, QueueTypeOK
      <3> QED
        BY <2>3, <3>1, <3>2, <3>3 DEF NtfNext
    <2>4. CASE MainNext
      BY <2>4 DEF MainNext, StartThread, StartFails, ProcessEvent, EventDone, LeaveLoop,
                  ClearRunThread, StopNotify, Join, NotifyAll, MainStep, queueVars, QueueTypeOK
    <2>5. CASE UNCHANGED vars
      BY <2>5 DEF vars, threadVars, queueVars, QueueTypeOK
    <2> QED
      BY <2>1, <2>2, <2>3, <2>4, <2>5 DEF Next
  <1> QED
    BY <1>1, <1>2, PTL DEF Spec

--------------------------------------------------------------------------------
(***************************************************************************)
(* The inductive invariant says who holds m_mutex: the main thread exactly *)
(* while it is in processEvent, the notification thread exactly while it   *)
(* is in a handler that takes the mutex.  A start finds no thread.         *)
(***************************************************************************)
MutexOwner ==
    /\ m_mutex = "main" <=> main = "event"
    /\ m_mutex = "ntf" <=> ntf = "inside" /\ item # FlowBulkEvent
    /\ main = "init" => ntf = "none"

\* Every notification but the flow bulk event is handled while the main thread
\* is outside processEvent (Syncd::syncProcessNotification, Syncd::processEvent).
THEOREM HandlersApart == Spec => []HandledApartFromEvents
  <1>1. Init => MutexOwner
    BY DEF Init, MutexOwner
  <1>2. TypeOK /\ MutexOwner /\ [Next]_vars => MutexOwner'
    <2> SUFFICES ASSUME TypeOK, MutexOwner, [Next]_vars PROVE MutexOwner'
      OBVIOUS
    <2> USE DEF MutexOwner
    <2>1. ASSUME NEW c \in Callbacks, NEW e \in Events, Callback(c, e) PROVE MutexOwner'
      BY <2>1 DEF Callback
    <2>2. ASSUME NEW c \in Callbacks, Signal(c) PROVE MutexOwner'
      BY <2>2 DEF Signal, NotifyAll
    <2>3. CASE NtfNext \/ SpuriousWakeup \/ HandlerThrows
      <3>1. CASE TestRunThread \/ Wait \/ Dequeue \/ QueueEmpty \/ SpuriousWakeup
        BY <3>1 DEF TestRunThread, Wait, Dequeue, QueueEmpty, SpuriousWakeup, NtfStep
      <3>2. CASE ProcessNotification
        BY <3>2 DEF ProcessNotification, NtfStep
      <3>3. CASE HandlerReturns \/ HandlerThrows
        BY <3>3 DEF HandlerReturns, HandlerThrows, HandlerLeaves, NtfStep
      <3> QED
        BY <2>3, <3>1, <3>2, <3>3 DEF NtfNext
    <2>4. CASE MainNext
      <3>1. CASE StartThread \/ StartFails \/ LeaveLoop \/ ClearRunThread
        BY <3>1 DEF StartThread, StartFails, LeaveLoop, ClearRunThread, MainStep
      <3>2. CASE ProcessEvent \/ EventDone
        BY <3>2 DEF ProcessEvent, EventDone, MainStep
      <3>3. CASE StopNotify \/ Join
        BY <3>3 DEF StopNotify, NotifyAll, Join, MainStep
      <3> QED
        BY <2>4, <3>1, <3>2, <3>3 DEF MainNext
    <2>5. CASE UNCHANGED vars
      BY <2>5 DEF vars, threadVars
    <2> QED
      BY <2>1, <2>2, <2>3, <2>4, <2>5 DEF Next
  <1>3. MutexOwner => HandledApartFromEvents
    BY DEF MutexOwner, HandledApartFromEvents
  <1> QED
    BY <1>1, <1>2, <1>3, TypeCorrect, PTL DEF Spec

-----------------------------------------------------------------------------
(* Link event damping.                                                     *)

Fields == {"algorithm", "aied_config", "current_penalty", "last_decay", "damping_start",
           "is_damping_active", "physical_status", "advertised_status", "pending_state_sync"}

(* The state of a port as far as the invariant needs it.                   *)
Shape(s) ==
  /\ DOMAIN s = Fields
  /\ s.is_damping_active \in BOOLEAN
  /\ s.pending_state_sync \in BOOLEAN

Released(s) ==
  s.pending_state_sync => ~s.is_damping_active /\ s.advertised_status # s.physical_status

Good(s) == Shape(s) /\ Released(s)

ReleasedInv ==
  /\ DOMAIN m_portLinkEventDampingStates = Port
  /\ \A p \in Port : Good(m_portLinkEventDampingStates[p])

-----------------------------------------------------------------------------
(* The operators of the algorithm.                                         *)

(* The decay changes the penalty and its time stamp only.                  *)
LEMMA DecayFacts ==
  ASSUME NEW s, Shape(s)
  PROVE  /\ Shape(DecayPenalty(s))
         /\ DecayPenalty(s).is_damping_active = s.is_damping_active
         /\ DecayPenalty(s).pending_state_sync = s.pending_state_sync
         /\ DecayPenalty(s).advertised_status = s.advertised_status
         /\ DecayPenalty(s).physical_status = s.physical_status
  BY DEF DecayPenalty, Shape, Fields

(* A change of the link sets the physical status and may start damping; a  *)
(* pending sync is left alone.                                             *)
LEMMA TransitionFacts ==
  ASSUME NEW s, NEW new, Shape(s)
  PROVE  /\ Shape(Transition(s, new))
         /\ Transition(s, new).pending_state_sync = s.pending_state_sync
         /\ Transition(s, new).advertised_status = s.advertised_status
         /\ Transition(s, new).physical_status = new
  BY DEF Transition, Shape, Fields

(* Leaving damping marks the port exactly when the statuses differ.        *)
LEMMA LeaveFacts ==
  ASSUME NEW s, Shape(s)
  PROVE  /\ Shape(LeaveDamping(s))
         /\ LeaveDamping(s).is_damping_active = FALSE
         /\ LeaveDamping(s).pending_state_sync =
              (s.pending_state_sync \/ s.advertised_status # s.physical_status)
         /\ LeaveDamping(s).advertised_status = s.advertised_status
         /\ LeaveDamping(s).physical_status = s.physical_status
  BY DEF LeaveDamping, Shape, Fields

(* Before the verdict on an event the physical status is that of the event *)
(* and, if damping goes on, no sync has become pending and nothing has     *)
(* been advertised.                                                        *)
LEMMA CheckedFacts ==
  ASSUME NEW s, NEW new, Shape(s)
  PROVE  /\ Shape(Checked(s, new))
         /\ Checked(s, new).physical_status = new
         /\ Checked(s, new).is_damping_active =>
              /\ Checked(s, new).pending_state_sync = s.pending_state_sync
              /\ Checked(s, new).advertised_status = s.advertised_status
<1>d. /\ Shape(DecayPenalty(s))
      /\ DecayPenalty(s).pending_state_sync = s.pending_state_sync
      /\ DecayPenalty(s).advertised_status = s.advertised_status
  BY DecayFacts
<1>m. /\ Shape(Moved(s, new))
      /\ Moved(s, new).pending_state_sync = s.pending_state_sync
      /\ Moved(s, new).advertised_status = s.advertised_status
      /\ Moved(s, new).physical_status = new
  BY <1>d, TransitionFacts DEF Moved
<1>l. /\ Shape(LeaveDamping(Moved(s, new)))
      /\ LeaveDamping(Moved(s, new)).is_damping_active = FALSE
      /\ LeaveDamping(Moved(s, new)).physical_status = new
  BY <1>m, LeaveFacts
<1>1. CASE Moved(s, new).is_damping_active /\ Expired(Moved(s, new))
  <2>1. Checked(s, new) =
          [LeaveDamping(Moved(s, new)) EXCEPT !.advertised_status = Moved(s, new).physical_status]
    BY <1>1 DEF Checked
  <2> QED BY <2>1, <1>l DEF Shape, Fields
<1>2. CASE ~(Moved(s, new).is_damping_active /\ Expired(Moved(s, new)))
  <2>1. Checked(s, new) = Moved(s, new)
    BY <1>2 DEF Checked
  <2> QED BY <2>1, <1>m
<1> QED BY <1>1, <1>2

(* An event keeps a port good: a suppressed one leaves a damped port with  *)
(* nothing pending, a forwarded one clears what was pending.               *)
LEMMA ApplyKeepsGood ==
  ASSUME NEW s, NEW new, Good(s)
  PROVE  Good(ApplyAiedAlgorithm(s, new))
<1> DEFINE t == Checked(s, new)
<1>c. /\ Shape(t)
      /\ t.physical_status = new
      /\ t.is_damping_active => t.pending_state_sync = s.pending_state_sync
  BY CheckedFacts DEF Good
<1>1. CASE Suppressed(s, new)
  <2>1. ApplyAiedAlgorithm(s, new) = t
    BY <1>1 DEF ApplyAiedAlgorithm
  <2>2. t.is_damping_active /\ s.is_damping_active
    BY <1>1 DEF Suppressed
  <2> QED BY <1>c, <2>1, <2>2 DEF Good, Released, Shape
<1>2. CASE ~Suppressed(s, new)
  <2>1. ApplyAiedAlgorithm(s, new) =
          [t EXCEPT !.advertised_status = new,
                    !.pending_state_sync = t.pending_state_sync /\ new # t.physical_status]
    BY <1>2 DEF ApplyAiedAlgorithm
  <2>2. Shape(ApplyAiedAlgorithm(s, new)) /\ ~ApplyAiedAlgorithm(s, new).pending_state_sync
    BY <2>1, <1>c DEF Shape, Fields
  <2> QED BY <2>2 DEF Good, Released
<1> QED BY <1>1, <1>2

(* The timer check keeps a port good: only a damped port is released, and  *)
(* a damped port has nothing pending.                                      *)
LEMMA CheckKeepsGood ==
  ASSUME NEW s, Good(s)
  PROVE  Good(CheckPort(s))
<1> DEFINE d == DecayPenalty(s)
<1>d. /\ Shape(d)
      /\ d.is_damping_active = s.is_damping_active
      /\ d.pending_state_sync = s.pending_state_sync
      /\ d.advertised_status = s.advertised_status
      /\ d.physical_status = s.physical_status
  BY DecayFacts DEF Good
<1>1. CASE s.is_damping_active /\ s.algorithm = "AIED" /\ Expired(d)
  <2>1. CheckPort(s) = LeaveDamping(d)
    BY <1>1 DEF CheckPort
  <2>2. /\ Shape(LeaveDamping(d))
        /\ LeaveDamping(d).is_damping_active = FALSE
        /\ LeaveDamping(d).pending_state_sync =
             (d.pending_state_sync \/ d.advertised_status # d.physical_status)
        /\ LeaveDamping(d).advertised_status = d.advertised_status
        /\ LeaveDamping(d).physical_status = d.physical_status
    BY <1>d, LeaveFacts
  <2>3. ~d.pending_state_sync
    BY <1>d, <1>1 DEF Good, Released
  <2> QED BY <2>1, <2>2, <2>3 DEF Good, Released
<1>2. CASE s.is_damping_active /\ s.algorithm = "AIED" /\ ~Expired(d)
  <2>1. CheckPort(s) = d
    BY <1>2 DEF CheckPort
  <2> QED BY <2>1, <1>d DEF Good, Released
<1>3. CASE ~(s.is_damping_active /\ s.algorithm = "AIED")
  BY <1>3 DEF CheckPort
<1> QED BY <1>1, <1>2, <1>3

-----------------------------------------------------------------------------

(* The invariant holds when syncd starts.                                  *)
LEMMA InitReleased == DampingInit => ReleasedInv
<1>1. Good(NewState)
  <2>1. DOMAIN NewState = Fields
    BY DEF NewState, Fields
  <2>2. NewState.is_damping_active = FALSE /\ NewState.pending_state_sync = FALSE
    BY DEF NewState
  <2> QED BY <2>1, <2>2 DEF Good, Shape, Released
<1> QED BY <1>1 DEF DampingInit, ReleasedInv

(* Every step of the three threads keeps the invariant.                    *)
LEMMA NextReleased == ASSUME ReleasedInv, [DampingNext]_dampingVars PROVE ReleasedInv'
<1> DEFINE st == m_portLinkEventDampingStates
<1>1. CASE UNCHANGED m_portLinkEventDampingStates
  BY <1>1 DEF ReleasedInv
<1>2. CASE Tick
  <2>1. \A p \in Port : Good(st'[p])
    <3> SUFFICES ASSUME NEW p \in Port PROVE Good(st'[p])
      OBVIOUS
    <3>1. Good(st[p])
      BY DEF ReleasedInv
    <3>2. st'[p] = [st[p] EXCEPT !.last_decay = Older(st[p].last_decay),
                                 !.damping_start = IF st[p].is_damping_active
                                                   THEN Older(st[p].damping_start)
                                                   ELSE st[p].damping_start]
      BY <1>2, <3>1 DEF Tick, Good, Shape, Fields
    <3> QED BY <3>1, <3>2 DEF Good, Shape, Released, Fields
  <2> QED BY <1>2, <2>1 DEF Tick, ReleasedInv
<1>3. CASE ProcessPortStateChange
  <2> DEFINE p == Head(events).port
             new == Head(events).status
  <2>1. st' = st \/ st' = [st EXCEPT ![p] = ApplyAiedAlgorithm(st[p], new)]
    BY <1>3 DEF ProcessPortStateChange
  <2>2. CASE st' = [st EXCEPT ![p] = ApplyAiedAlgorithm(st[p], new)]
    <3>1. p \in Port => Good(ApplyAiedAlgorithm(st[p], new))
      BY ApplyKeepsGood DEF ReleasedInv
    <3> HIDE DEF p, new
    <3> QED BY <2>2, <3>1 DEF ReleasedInv
  <2> QED BY <2>1, <2>2, <1>1
<1>4. CASE CheckDampedPortsTimeout
  <2>1. \A p \in Port : Good(CheckPort(st[p]))
    BY CheckKeepsGood DEF ReleasedInv
  <2> QED BY <1>4, <2>1 DEF CheckDampedPortsTimeout, ReleasedInv
<1>5. ASSUME NEW p \in Port, NEW a \in Algorithm, NEW c \in Configs,
             ProcessLinkEventDampingConfigSet(p, a, c)
      PROVE  ReleasedInv'
  <2>1. st' = [st EXCEPT ![p] = [st[p] EXCEPT !.algorithm = a, !.aied_config = c]]
    BY <1>5 DEF ProcessLinkEventDampingConfigSet, ReleasedInv, Good, Shape, Fields
  <2>2. Good([st[p] EXCEPT !.algorithm = a, !.aied_config = c])
    BY DEF ReleasedInv, Good, Shape, Released, Fields
  <2> QED BY <2>1, <2>2 DEF ReleasedInv
<1>6. CASE Acknowledge
  <2>1. \A p \in Port : Good(Synced(st[p], batch[p]))
    BY DEF ReleasedInv, Synced, Good, Shape, Released, Fields
  <2> QED BY <1>6, <2>1 DEF Acknowledge, ReleasedInv
<1>7. CASE \/ \E p \in Port : LinkChanges(p)
           \/ SendNotification \/ ProcessPendingDampingSync \/ SendBatch \/ SendFails
           \/ UNCHANGED dampingVars
  BY <1>7, <1>1 DEF LinkChanges, SendNotification, ProcessPendingDampingSync, SendBatch,
                    SendFails, dampingVars
<1> QED BY <1>2, <1>3, <1>4, <1>5, <1>6, <1>7 DEF DampingNext

(* ReleasedInv holds in every reachable state.                             *)
THEOREM ReleasedInvariance == DampingSpec => []ReleasedInv
  BY InitReleased, NextReleased, PTL DEF DampingSpec

(* No interleaving of the notification thread, the timer thread, the main  *)
(* loop and configuration requests leaves a port with a pending sync that  *)
(* is damped again or has nothing to sync.                                 *)
THEOREM PendingStaysReleased == DampingSpec => []PendingIsReleased
<1>1. ReleasedInv => PendingIsReleased
  BY DEF ReleasedInv, Good, Released, PendingIsReleased
<1> QED BY <1>1, ReleasedInvariance, PTL

-----------------------------------------------------------------------------
(* SuppressedIsRemembered.  An event of a port passes through up to three  *)
(* hands before OA hears of it: the notification thread holds it in forwarding,   *)
(* or the main loop in batch.  The invariant says of each hand what it     *)
(* holds, as long as no event went past the damping state.                 *)

(* What an event does to the state of its port.                            *)
LEMMA ApplyFacts ==
  ASSUME NEW s, NEW new, Shape(s)
  PROVE  LET t == ApplyAiedAlgorithm(s, new) IN
         /\ t.physical_status = new
         /\ Suppressed(s, new) =>
              /\ s.is_damping_active /\ t.is_damping_active
              /\ t.pending_state_sync = s.pending_state_sync
              /\ t.advertised_status = s.advertised_status
         /\ ~Suppressed(s, new) => t.advertised_status = new /\ ~t.pending_state_sync
<1> DEFINE t == Checked(s, new)
<1>c. /\ Shape(t)
      /\ t.physical_status = new
      /\ t.is_damping_active => /\ t.pending_state_sync = s.pending_state_sync
                                /\ t.advertised_status = s.advertised_status
  BY CheckedFacts
<1>1. CASE Suppressed(s, new)
  <2>1. ApplyAiedAlgorithm(s, new) = t
    BY <1>1 DEF ApplyAiedAlgorithm
  <2>2. t.is_damping_active /\ s.is_damping_active
    BY <1>1 DEF Suppressed
  <2> QED BY <1>1, <1>c, <2>1, <2>2
<1>2. CASE ~Suppressed(s, new)
  <2>1. ApplyAiedAlgorithm(s, new) =
          [t EXCEPT !.advertised_status = new,
                    !.pending_state_sync = t.pending_state_sync /\ new # t.physical_status]
    BY <1>2 DEF ApplyAiedAlgorithm
  <2> HIDE DEF t
  <2> QED BY <1>2, <1>c, <2>1 DEF Shape, Fields
<1> QED BY <1>1, <1>2

(* What the timer check does to a port: it may only turn damping into a    *)
(* pending sync, and drops damping without one when nothing is to be sent. *)
LEMMA CheckFacts ==
  ASSUME NEW s, Shape(s)
  PROVE  LET t == CheckPort(s) IN
         /\ t.physical_status = s.physical_status
         /\ t.advertised_status = s.advertised_status
         /\ s.pending_state_sync => t.pending_state_sync
         /\ s.advertised_status # s.physical_status /\ s.is_damping_active =>
              t.is_damping_active \/ t.pending_state_sync
         /\ s.advertised_status = s.physical_status =>
              t.pending_state_sync = s.pending_state_sync
         /\ ~s.is_damping_active => t = s
<1> DEFINE d == DecayPenalty(s)
<1>d. /\ Shape(d)
      /\ d.is_damping_active = s.is_damping_active
      /\ d.pending_state_sync = s.pending_state_sync
      /\ d.advertised_status = s.advertised_status
      /\ d.physical_status = s.physical_status
  BY DecayFacts
<1>l. /\ Shape(LeaveDamping(d))
      /\ LeaveDamping(d).is_damping_active = FALSE
      /\ LeaveDamping(d).pending_state_sync =
           (d.pending_state_sync \/ d.advertised_status # d.physical_status)
      /\ LeaveDamping(d).advertised_status = d.advertised_status
      /\ LeaveDamping(d).physical_status = d.physical_status
  BY <1>d, LeaveFacts
<1>1. CASE s.is_damping_active /\ s.algorithm = "AIED" /\ Expired(d)
  <2>1. CheckPort(s) = LeaveDamping(d)
    BY <1>1 DEF CheckPort
  <2> HIDE DEF d
  <2> QED BY <1>1, <2>1, <1>d, <1>l DEF Shape
<1>2. CASE s.is_damping_active /\ s.algorithm = "AIED" /\ ~Expired(d)
  <2>1. CheckPort(s) = d
    BY <1>2 DEF CheckPort
  <2> HIDE DEF d
  <2> QED BY <1>2, <2>1, <1>d DEF Shape
<1>3. CASE ~(s.is_damping_active /\ s.algorithm = "AIED")
  <2>1. CheckPort(s) = s
    BY <1>3 DEF CheckPort
  <2> QED BY <2>1
<1> QED BY <1>1, <1>2, <1>3

Event == [port : Port, status : {UP, DOWN}]

Typed ==
  /\ link \in [Port -> {UP, DOWN}]
  /\ events \in Seq(Event)
  /\ adrift \in [Port -> BOOLEAN]
  /\ syncing \in {"idle", "send", "ack"}
  /\ DOMAIN forwarding = Port /\ DOMAIN batch = Port /\ DOMAIN told = Port

(* The last event of a port that is not handled yet tells its status.      *)
LastOf(p, i) == events[i].port = p /\ \A j \in DOMAIN events : j > i => events[j].port # p
LastTells(p) == \A i \in DOMAIN events : LastOf(p, i) => events[i].status = link[p]

(* Damping only ever starts with an event the algorithm saw.               *)
Fresh(p) ==
  LET s == m_portLinkEventDampingStates[p] IN
  s.physical_status = UNKNOWN => ~s.is_damping_active /\ ~s.pending_state_sync

(* The notification thread holds what has just been advertised.            *)
NtfHolds(p) ==
  LET s == m_portLinkEventDampingStates[p] IN
  ~adrift[p] /\ forwarding[p] # UNKNOWN =>
    /\ batch[p] = UNKNOWN
    /\ s.advertised_status = forwarding[p] /\ s.physical_status = forwarding[p]
    /\ ~s.pending_state_sync

(* The main loop holds the status of a port that waits for its sync.       *)
BatchHolds(p) ==
  LET s == m_portLinkEventDampingStates[p] IN
  ~adrift[p] /\ batch[p] # UNKNOWN =>
    /\ s.pending_state_sync
    /\ s.physical_status = batch[p]
    /\ told[p] = IF syncing = "ack" THEN batch[p] ELSE s.advertised_status

Remembered(p) ==
  LET s == m_portLinkEventDampingStates[p] IN
  ~adrift[p] /\ s.physical_status # UNKNOWN =>
    /\ Settled(p) => told[p] = s.advertised_status
    /\ s.advertised_status # s.physical_status => s.is_damping_active \/ s.pending_state_sync
    /\ (\A i \in DOMAIN events : events[i].port # p) => s.physical_status = link[p]

ToldInv ==
  /\ Typed
  /\ syncing = "idle" => batch = Nothing
  /\ \A p \in Port : LastTells(p) /\ Fresh(p) /\ NtfHolds(p) /\ BatchHolds(p) /\ Remembered(p)

(* At the start OA has been told nothing and nothing is suppressed.        *)
LEMMA InitTold == DampingInit => ToldInv
<1> SUFFICES ASSUME DampingInit PROVE ToldInv
  OBVIOUS
<1>1. Typed
  <2>1. events \in Seq(Event)
    BY DEF DampingInit
  <2> QED BY <2>1 DEF DampingInit, Typed, Nothing
<1>2. ASSUME NEW p \in Port
      PROVE  LastTells(p) /\ Fresh(p) /\ NtfHolds(p) /\ BatchHolds(p) /\ Remembered(p)
  <2>1. DOMAIN events = {}
    BY DEF DampingInit
  <2>2. /\ m_portLinkEventDampingStates[p] = NewState
        /\ forwarding[p] = UNKNOWN /\ batch[p] = UNKNOWN
    BY DEF DampingInit, Nothing
  <2>3. /\ NewState.physical_status = UNKNOWN
        /\ NewState.is_damping_active = FALSE /\ NewState.pending_state_sync = FALSE
    BY DEF NewState
  <2> QED BY <2>1, <2>2, <2>3 DEF LastTells, Fresh, NtfHolds, BatchHolds, Remembered
<1> QED BY <1>1, <1>2 DEF ToldInv, DampingInit

(* A link change queues the event that tells it.                           *)
LEMMA LinkChangesTold ==
  ASSUME ReleasedInv, ToldInv, NEW p \in Port, LinkChanges(p)
  PROVE  ToldInv'
<1> DEFINE new == IF link[p] = UP THEN DOWN ELSE UP
           e == [port |-> p, status |-> new]
<1>1. /\ link' = [link EXCEPT ![p] = new]
      /\ events' = Append(events, e)
      /\ UNCHANGED <<m_portLinkEventDampingStates, forwarding, syncing, batch, told, adrift>>
  BY DEF LinkChanges
<1>2. e \in Event /\ new \in {UP, DOWN} /\ e.port = p /\ e.status = new
  BY DEF Event
<1> HIDE DEF e, new
<1>3. Typed'
  BY <1>1, <1>2 DEF ToldInv, Typed
<1>4. /\ DOMAIN events' = 1 .. Len(events) + 1 /\ Len(events) \in Nat
      /\ DOMAIN events = 1 .. Len(events)
      /\ events'[Len(events) + 1] = e
      /\ \A i \in 1 .. Len(events) : events'[i] = events[i]
  BY <1>1, <1>2 DEF ToldInv, Typed
<1>5. ASSUME NEW q \in Port
      PROVE  (LastTells(q) /\ Fresh(q) /\ NtfHolds(q) /\ BatchHolds(q) /\ Remembered(q))'
  <2>1. LastTells(q)'
    <3>1. CASE q = p
      BY <3>1, <1>1, <1>2, <1>4 DEF ToldInv, Typed, LastTells, LastOf
    <3>2. CASE q # p
      <4>1. link'[q] = link[q]
        BY <3>2, <1>1 DEF ToldInv, Typed
      <4>2. ASSUME NEW i \in DOMAIN events', LastOf(q, i)' PROVE events'[i].status = link'[q]
        <5>1. i \in 1 .. Len(events)
          BY <4>2, <3>2, <1>2, <1>4 DEF LastOf
        <5>2. LastOf(q, i)
          BY <4>2, <5>1, <1>4 DEF LastOf
        <5>3. LastTells(q)
          BY DEF ToldInv
        <5> QED BY <5>1, <5>2, <5>3, <4>1, <1>4 DEF LastTells
      <4> QED BY <4>2 DEF LastTells
    <3> QED BY <3>1, <3>2
  <2>2. Fresh(q)' /\ NtfHolds(q)' /\ BatchHolds(q)'
    BY <1>1 DEF ToldInv, Fresh, NtfHolds, BatchHolds
  <2>3. Remembered(q)'
    <3>1. CASE q = p
      <4>1. ~(\A i \in DOMAIN events' : events'[i].port # q)
        BY <3>1, <1>2, <1>4
      <4> QED BY <4>1, <1>1 DEF ToldInv, Remembered, Settled
    <3>2. CASE q # p
      <4>1. link'[q] = link[q]
        BY <3>2, <1>1 DEF ToldInv, Typed
      <4>2. (\A i \in DOMAIN events' : events'[i].port # q) =>
              \A i \in DOMAIN events : events[i].port # q
        BY <1>4
      <4> QED BY <4>1, <4>2, <1>1 DEF ToldInv, Remembered, Settled
    <3> QED BY <3>1, <3>2
  <2> QED BY <2>1, <2>2, <2>3
<1> QED BY <1>1, <1>3, <1>5 DEF ToldInv

(* The notification thread handles the oldest event.                       *)
LEMMA ProcessTold ==
  ASSUME ReleasedInv, ToldInv, ProcessPortStateChange
  PROVE  ToldInv'
<1> DEFINE p == Head(events).port
           new == Head(events).status
           st == m_portLinkEventDampingStates
           s == st[p]
           damped == s.algorithm = "AIED" /\ ValidConfig(s.aied_config)
           inFlight == syncing # "idle" /\ batch[p] # UNKNOWN
           suppressed == damped /\ Suppressed(s, new)
<1>1. /\ forwarding = Nothing /\ events # <<>> /\ events' = Tail(events)
      /\ st' = IF damped THEN [st EXCEPT ![p] = ApplyAiedAlgorithm(s, new)] ELSE st
      /\ forwarding' = IF suppressed THEN forwarding ELSE [forwarding EXCEPT ![p] = new]
      /\ adrift' = [adrift EXCEPT ![p] = IF inFlight \/ ~damped THEN TRUE
                                         ELSE adrift[p] /\ suppressed]
      /\ UNCHANGED <<link, syncing, batch, told>>
  BY DEF ProcessPortStateChange, NtfIdle
<1>2. /\ p \in Port /\ new \in {UP, DOWN} /\ new # UNKNOWN
      /\ p = events[1].port /\ new = events[1].status
  <2>1. events \in Seq(Event) /\ events # <<>>
    BY <1>1 DEF ToldInv, Typed
  <2>2. Head(events) = events[1] /\ events[1] \in Event
    BY <2>1
  <2>3. events[1].port \in Port /\ events[1].status \in {UP, DOWN}
    BY <2>2 DEF Event
  <2> QED BY <2>2, <2>3 DEF UP, DOWN, UNKNOWN
<1>3. /\ Len(events) \in Nat \ {0} /\ Len(events') = Len(events) - 1
      /\ DOMAIN events = 1 .. Len(events) /\ DOMAIN events' = 1 .. Len(events) - 1
      /\ \A i \in 1 .. Len(events) - 1 : events'[i] = events[i + 1]
      /\ events' \in Seq(Event)
  BY <1>1 DEF ToldInv, Typed
<1>a. damped \in BOOLEAN /\ inFlight \in BOOLEAN /\ suppressed \in BOOLEAN
  BY DEF ValidConfig, Suppressed
<1>s. /\ Shape(s) /\ DOMAIN st = Port
      /\ \A q \in Port : LastTells(q) /\ Fresh(q) /\ NtfHolds(q) /\ BatchHolds(q) /\ Remembered(q)
  BY <1>2 DEF ReleasedInv, Good, ToldInv
<1>t. LET t == ApplyAiedAlgorithm(s, new) IN
      /\ t.physical_status = new
      /\ Suppressed(s, new) =>
           /\ s.is_damping_active /\ t.is_damping_active
           /\ t.pending_state_sync = s.pending_state_sync
           /\ t.advertised_status = s.advertised_status
      /\ ~Suppressed(s, new) => t.advertised_status = new /\ ~t.pending_state_sync
  BY <1>s, ApplyFacts
<1>4. /\ \A q \in Port \ {p} : /\ st'[q] = st[q] /\ forwarding'[q] = forwarding[q] /\ adrift'[q] = adrift[q]
      /\ damped => st'[p] = ApplyAiedAlgorithm(s, new)
      /\ forwarding'[p] = IF suppressed THEN UNKNOWN ELSE new
      /\ \A q \in Port : forwarding[q] = UNKNOWN
      /\ adrift'[p] = IF inFlight \/ ~damped THEN TRUE ELSE adrift[p] /\ suppressed
      /\ ~damped => st' = st
  <2> HIDE DEF p, new, damped, inFlight, suppressed
  <2>1. \A q \in Port : forwarding[q] = UNKNOWN
    BY <1>1 DEF Nothing
  <2>2. DOMAIN forwarding = Port /\ adrift \in [Port -> BOOLEAN]
    BY DEF ToldInv, Typed
  <2> QED BY <2>1, <2>2, <1>1, <1>2, <1>s
<1>5. Typed'
  <2> HIDE DEF p, new, damped, inFlight, suppressed
  <2> QED BY <1>1, <1>3, <1>2, <1>a DEF ToldInv, Typed
<1>6. \A q \in Port \ {p} : (\A i \in DOMAIN events' : events'[i].port # q) =>
                              \A i \in DOMAIN events : events[i].port # q
  <2> SUFFICES ASSUME NEW q \in Port \ {p}, \A i \in DOMAIN events' : events'[i].port # q,
                      NEW i \in DOMAIN events
               PROVE  events[i].port # q
    OBVIOUS
  <2>1. CASE i = 1
    BY <2>1, <1>2
  <2>2. CASE i # 1
    <3>1. i - 1 \in DOMAIN events' /\ events'[i - 1] = events[i]
      BY <2>2, <1>3
    <3> QED BY <3>1
  <2> QED BY <2>1, <2>2
<1>7. (\A i \in DOMAIN events' : events'[i].port # p) => new = link[p]
  <2> SUFFICES ASSUME \A i \in DOMAIN events' : events'[i].port # p PROVE new = link[p]
    OBVIOUS
  <2>1. ASSUME NEW j \in DOMAIN events, j > 1 PROVE events[j].port # p
    <3>1. j - 1 \in DOMAIN events' /\ events'[j - 1] = events[j]
      BY <2>1, <1>3
    <3> QED BY <3>1
  <2>2. LastOf(p, 1) /\ 1 \in DOMAIN events
    BY <2>1, <1>2, <1>3 DEF LastOf
  <2> QED BY <2>2, <1>2, <1>s DEF LastTells
<1>8. \A q \in Port : LastTells(q)'
  <2> SUFFICES ASSUME NEW q \in Port, NEW i \in DOMAIN events', LastOf(q, i)'
               PROVE  events'[i].status = link'[q]
    BY DEF LastTells
  <2>1. i + 1 \in DOMAIN events /\ events'[i] = events[i + 1]
    BY <1>3
  <2>2. ASSUME NEW j \in DOMAIN events, j > i + 1 PROVE events[j].port # q
    <3>1. j - 1 \in DOMAIN events' /\ events'[j - 1] = events[j] /\ j - 1 > i
      BY <2>2, <1>3
    <3> QED BY <3>1 DEF LastOf
  <2>3. LastOf(q, i + 1)
    BY <2>1, <2>2 DEF LastOf
  <2> QED BY <2>1, <2>3, <1>s, <1>1 DEF LastTells
<1>9. ASSUME NEW q \in Port
      PROVE  (Fresh(q) /\ NtfHolds(q) /\ BatchHolds(q) /\ Remembered(q))'
  <2> HIDE DEF new, damped, inFlight, suppressed, p
  <2>1. CASE q # p
    <3>1. st'[q] = st[q] /\ forwarding'[q] = forwarding[q] /\ adrift'[q] = adrift[q]
      BY <2>1, <1>4
    <3>2. Fresh(q)' /\ NtfHolds(q)' /\ BatchHolds(q)'
      BY <3>1, <1>1, <1>s DEF Fresh, NtfHolds, BatchHolds
    <3>3. Remembered(q)'
      <4>1. (\A i \in DOMAIN events' : events'[i].port # q) =>
              \A i \in DOMAIN events : events[i].port # q
        BY <2>1, <1>6
      <4> QED BY <3>1, <4>1, <1>1, <1>s DEF Remembered, Settled
    <3> QED BY <3>2, <3>3
  <2>2. CASE q = p /\ ~damped
    <3>1. adrift'[q] /\ st'[q] = st[q]
      BY <2>2, <1>4
    <3> QED BY <3>1, <1>s DEF Fresh, NtfHolds, BatchHolds, Remembered
  <2>3. CASE q = p /\ damped
    <3>1. st'[q].physical_status = new /\ new # UNKNOWN
      BY <2>3, <1>4, <1>t, <1>2
    <3>2. Fresh(q)'
      BY <3>1 DEF Fresh
    <3>3. CASE inFlight
      <4>1. adrift'[q]
        BY <2>3, <3>3, <1>4
      <4> QED BY <4>1, <3>2 DEF NtfHolds, BatchHolds, Remembered
    <3>4. CASE ~inFlight
      <4>1. batch'[q] = UNKNOWN
        <5>1. syncing = "idle" => batch[q] = UNKNOWN
          BY DEF ToldInv, Nothing
        <5> QED BY <5>1, <3>4, <2>3, <1>1 DEF inFlight
      <4>2. BatchHolds(q)'
        BY <4>1 DEF BatchHolds
      <4>3. CASE suppressed
        <5>1. /\ forwarding'[q] = UNKNOWN /\ forwarding[q] = UNKNOWN /\ adrift'[q] = adrift[q]
          BY <2>3, <3>4, <4>3, <1>4 DEF ToldInv, Typed
        <5>2. /\ st[q].is_damping_active /\ st'[q].is_damping_active
              /\ st'[q].advertised_status = st[q].advertised_status
          BY <2>3, <4>3, <1>4, <1>t DEF suppressed
        <5>3. st[q].physical_status # UNKNOWN
          BY <5>2, <1>s DEF Fresh
        <5>4. Settled(q) /\ told'[q] = told[q]
          BY <4>1, <5>1, <1>1 DEF Settled
        <5>5. (\A i \in DOMAIN events' : events'[i].port # q) => new = link'[q]
          BY <2>3, <1>7, <1>1
        <5>6. ~adrift'[q] => told'[q] = st'[q].advertised_status
          BY <5>1, <5>2, <5>3, <5>4, <1>s DEF Remembered
        <5>7. Remembered(q)'
          BY <5>2, <5>5, <5>6, <3>1 DEF Remembered
        <5>8. NtfHolds(q)'
          BY <5>1 DEF NtfHolds
        <5> QED BY <3>2, <4>2, <5>7, <5>8
      <4>4. CASE ~suppressed
        <5>1. forwarding'[q] = new
          BY <2>3, <4>4, <1>4
        <5>2. st'[q].advertised_status = new /\ ~st'[q].pending_state_sync
          BY <2>3, <4>4, <1>4, <1>t DEF suppressed
        <5>3. (\A i \in DOMAIN events' : events'[i].port # q) => new = link'[q]
          BY <2>3, <1>7, <1>1
        <5>4. ~Settled(q)'
          BY <5>1, <1>2 DEF Settled
        <5> QED BY <3>1, <3>2, <4>1, <4>2, <5>1, <5>2, <5>3, <5>4 DEF NtfHolds, Remembered
      <4> QED BY <4>3, <4>4
    <3> QED BY <3>3, <3>4
  <2> QED BY <2>1, <2>2, <2>3
<1> QED BY <1>1, <1>5, <1>8, <1>9 DEF ToldInv

(* A step that leaves the link and its events alone keeps LastTells.       *)
LEMMA SameEvents ==
  ASSUME ToldInv, UNCHANGED <<link, events>>
  PROVE  \A p \in Port : LastTells(p)'
  BY DEF ToldInv, LastTells, LastOf

(* Time passes and requests come without a status being touched.           *)
LEMMA StatusesKeptTold ==
  ASSUME ToldInv, UNCHANGED <<link, events, forwarding, syncing, batch, told, adrift>>,
         \A p \in Port :
           LET s == m_portLinkEventDampingStates[p]
               t == m_portLinkEventDampingStates'[p] IN
           /\ t.physical_status = s.physical_status
           /\ t.advertised_status = s.advertised_status
           /\ t.is_damping_active = s.is_damping_active
           /\ t.pending_state_sync = s.pending_state_sync
  PROVE  ToldInv'
<1>1. Typed'
  BY DEF ToldInv, Typed
<1>2. ASSUME NEW p \in Port
      PROVE  (Fresh(p) /\ NtfHolds(p) /\ BatchHolds(p) /\ Remembered(p))'
  BY DEF ToldInv, Fresh, NtfHolds, BatchHolds, Remembered, Settled
<1> QED BY <1>1, <1>2, SameEvents DEF ToldInv

(* The notification thread sends: OA has been told what is advertised.     *)
LEMMA SendNotificationTold ==
  ASSUME ReleasedInv, ToldInv, SendNotification
  PROVE  ToldInv'
<1>1. /\ told' = [p \in Port |-> IF forwarding[p] # UNKNOWN THEN forwarding[p] ELSE told[p]]
      /\ forwarding' = Nothing
      /\ UNCHANGED <<link, events, m_portLinkEventDampingStates, syncing, batch, adrift>>
  BY DEF SendNotification
<1>2. Typed'
  BY <1>1 DEF ToldInv, Typed, Nothing
<1>3. ASSUME NEW p \in Port
      PROVE  (Fresh(p) /\ NtfHolds(p) /\ BatchHolds(p) /\ Remembered(p))'
  <2>1. /\ told'[p] = IF forwarding[p] # UNKNOWN THEN forwarding[p] ELSE told[p]
        /\ forwarding'[p] = UNKNOWN
    BY <1>1 DEF Nothing
  <2>2. Fresh(p) /\ NtfHolds(p) /\ BatchHolds(p) /\ Remembered(p)
    BY DEF ToldInv
  <2>3. Fresh(p)' /\ NtfHolds(p)'
    BY <1>1, <2>1, <2>2 DEF Fresh, NtfHolds
  <2>4. BatchHolds(p)'
    BY <1>1, <2>1, <2>2 DEF BatchHolds, NtfHolds
  <2>5. Remembered(p)'
    BY <1>1, <2>1, <2>2 DEF Remembered, NtfHolds, Settled
  <2> QED BY <2>3, <2>4, <2>5
<1> QED BY <1>1, <1>2, <1>3, SameEvents DEF ToldInv

(* The timer thread turns the damping of a port into a pending sync.       *)
LEMMA CheckTold ==
  ASSUME ReleasedInv, ToldInv, CheckDampedPortsTimeout
  PROVE  ToldInv'
<1> DEFINE st == m_portLinkEventDampingStates
<1>1. /\ UNCHANGED <<link, events, forwarding, syncing, batch, told, adrift>>
      /\ \A p \in Port : st'[p] = CheckPort(st[p])
  BY DEF CheckDampedPortsTimeout
<1>2. Typed'
  BY <1>1 DEF ToldInv, Typed
<1>3. ASSUME NEW p \in Port
      PROVE  (Fresh(p) /\ NtfHolds(p) /\ BatchHolds(p) /\ Remembered(p))'
  <2>1. Fresh(p) /\ NtfHolds(p) /\ BatchHolds(p) /\ Remembered(p)
    BY DEF ToldInv
  <2>2. Shape(st[p])
    BY DEF ReleasedInv, Good
  <2>3. /\ st'[p].physical_status = st[p].physical_status
        /\ st'[p].advertised_status = st[p].advertised_status
        /\ st[p].pending_state_sync => st'[p].pending_state_sync
        /\ st[p].advertised_status # st[p].physical_status /\ st[p].is_damping_active =>
             st'[p].is_damping_active \/ st'[p].pending_state_sync
        /\ st[p].advertised_status = st[p].physical_status =>
             st'[p].pending_state_sync = st[p].pending_state_sync
        /\ ~st[p].is_damping_active => st'[p] = st[p]
    BY <1>1, <2>2, CheckFacts
  <2>4. Fresh(p)' /\ NtfHolds(p)' /\ BatchHolds(p)'
    BY <1>1, <2>1, <2>3 DEF Fresh, NtfHolds, BatchHolds
  <2>5. Remembered(p)'
    BY <1>1, <2>1, <2>3 DEF Remembered, Settled
  <2> QED BY <2>4, <2>5
<1> QED BY <1>1, <1>2, <1>3, SameEvents DEF ToldInv

(* The main loop collects a batch, sends or drops it, and acknowledges it. *)
LEMMA MainLoopTold ==
  ASSUME ReleasedInv, ToldInv,
         ProcessPendingDampingSync \/ SendBatch \/ SendFails \/ Acknowledge
  PROVE  ToldInv'
<1> DEFINE st == m_portLinkEventDampingStates
<1>s. \A p \in Port : /\ Shape(st[p])
                      /\ Fresh(p) /\ NtfHolds(p) /\ BatchHolds(p) /\ Remembered(p)
  BY DEF ReleasedInv, Good, ToldInv
<1>1. CASE ProcessPendingDampingSync
  <2>1. /\ syncing = "idle" /\ syncing' = "send"
        /\ batch' = [p \in Port |-> IF Pending(p) THEN st[p].physical_status ELSE UNKNOWN]
        /\ UNCHANGED <<link, events, st, forwarding, told, adrift>>
    BY <1>1 DEF ProcessPendingDampingSync
  <2>2. Typed'
    BY <2>1 DEF ToldInv, Typed
  <2>3. ASSUME NEW p \in Port
        PROVE  (Fresh(p) /\ NtfHolds(p) /\ BatchHolds(p) /\ Remembered(p))'
    <3>1. /\ batch[p] = UNKNOWN
          /\ batch'[p] = IF Pending(p) THEN st[p].physical_status ELSE UNKNOWN
      BY <2>1 DEF ToldInv, Nothing
    <3>2. Pending(p) => /\ st[p].pending_state_sync
                        /\ st[p].physical_status # UNKNOWN
      BY <1>s DEF Pending, Fresh
    <3>3. Fresh(p)' /\ NtfHolds(p)'
      BY <2>1, <3>1, <3>2, <1>s DEF Fresh, NtfHolds
    <3>4. BatchHolds(p)'
      BY <2>1, <3>1, <3>2, <1>s DEF BatchHolds, NtfHolds, Remembered, Settled
    <3>5. Remembered(p)'
      BY <2>1, <3>1, <1>s DEF Remembered, Settled
    <3> QED BY <3>3, <3>4, <3>5
  <2> QED BY <2>1, <2>2, <2>3, SameEvents DEF ToldInv
<1>2. CASE SendBatch
  <2>1. /\ syncing = "send" /\ syncing' = "ack"
        /\ told' = [p \in Port |-> IF batch[p] # UNKNOWN THEN batch[p] ELSE told[p]]
        /\ UNCHANGED <<link, events, st, forwarding, batch, adrift>>
    BY <1>2 DEF SendBatch
  <2>2. Typed'
    BY <2>1 DEF ToldInv, Typed
  <2>3. ASSUME NEW p \in Port
        PROVE  (Fresh(p) /\ NtfHolds(p) /\ BatchHolds(p) /\ Remembered(p))'
    <3>1. told'[p] = IF batch[p] # UNKNOWN THEN batch[p] ELSE told[p]
      BY <2>1
    <3> QED BY <2>1, <3>1, <1>s DEF Fresh, NtfHolds, BatchHolds, Remembered, Settled
  <2> QED BY <2>1, <2>2, <2>3, SameEvents DEF ToldInv
<1>3. CASE SendFails
  <2>1. /\ syncing = "send" /\ syncing' = "idle" /\ batch' = Nothing
        /\ UNCHANGED <<link, events, st, forwarding, told, adrift>>
    BY <1>3 DEF SendFails
  <2>2. Typed'
    BY <2>1 DEF ToldInv, Typed, Nothing
  <2>3. ASSUME NEW p \in Port
        PROVE  (Fresh(p) /\ NtfHolds(p) /\ BatchHolds(p) /\ Remembered(p))'
    <3>1. batch'[p] = UNKNOWN
      BY <2>1 DEF Nothing
    <3> QED BY <2>1, <3>1, <1>s DEF Fresh, NtfHolds, BatchHolds, Remembered, Settled
  <2> QED BY <2>1, <2>2, <2>3, SameEvents DEF ToldInv
<1>4. CASE Acknowledge
  <2>1. /\ syncing = "ack" /\ syncing' = "idle" /\ batch' = Nothing
        /\ \A p \in Port : st'[p] = IF batch[p] # UNKNOWN THEN Synced(st[p], batch[p]) ELSE st[p]
        /\ UNCHANGED <<link, events, forwarding, told, adrift>>
    BY <1>4 DEF Acknowledge
  <2>2. Typed'
    BY <2>1 DEF ToldInv, Typed, Nothing
  <2>3. ASSUME NEW p \in Port
        PROVE  (Fresh(p) /\ NtfHolds(p) /\ BatchHolds(p) /\ Remembered(p))'
    <3>1. batch'[p] = UNKNOWN
      BY <2>1 DEF Nothing
    <3>2. CASE batch[p] = UNKNOWN
      <4>1. st'[p] = st[p]
        BY <2>1, <3>2
      <4> QED BY <2>1, <3>1, <3>2, <4>1, <1>s DEF Fresh, NtfHolds, BatchHolds, Remembered, Settled
    <3>3. CASE batch[p] # UNKNOWN
      <4>1. st'[p] = Synced(st[p], batch[p])
        BY <2>1, <3>3
      <4>2. /\ st'[p].pending_state_sync = FALSE
            /\ st'[p].advertised_status = batch[p]
            /\ st'[p].physical_status = st[p].physical_status
            /\ st'[p].is_damping_active = st[p].is_damping_active
        BY <4>1, <1>s DEF Synced, Shape, Fields
      <4>3. Fresh(p)' /\ BatchHolds(p)'
        BY <3>1, <4>2, <1>s DEF Fresh, BatchHolds
      <4>4. NtfHolds(p)' /\ Remembered(p)'
        BY <2>1, <3>1, <3>3, <4>2, <1>s DEF NtfHolds, BatchHolds, Remembered, Settled
      <4> QED BY <4>3, <4>4
    <3> QED BY <3>2, <3>3
  <2> QED BY <2>1, <2>2, <2>3, SameEvents DEF ToldInv
<1> QED BY <1>1, <1>2, <1>3, <1>4

(* Every step keeps what is said of statuses on their way to OA.           *)
LEMMA NextTold == ASSUME ReleasedInv, ToldInv, [DampingNext]_dampingVars PROVE ToldInv'
<1> DEFINE st == m_portLinkEventDampingStates
<1>s. DOMAIN st = Port /\ \A p \in Port : DOMAIN st[p] = Fields
  BY DEF ReleasedInv, Good, Shape
<1>1. ASSUME NEW p \in Port, LinkChanges(p) PROVE ToldInv'
  BY <1>1, LinkChangesTold
<1>2. CASE Tick
  <2>1. UNCHANGED <<link, events, forwarding, syncing, batch, told, adrift>>
    BY <1>2 DEF Tick
  <2>2. ASSUME NEW p \in Port
        PROVE  /\ st'[p].physical_status = st[p].physical_status
               /\ st'[p].advertised_status = st[p].advertised_status
               /\ st'[p].is_damping_active = st[p].is_damping_active
               /\ st'[p].pending_state_sync = st[p].pending_state_sync
    <3>1. st'[p] = [st[p] EXCEPT !.last_decay = Older(st[p].last_decay),
                                 !.damping_start = IF st[p].is_damping_active
                                                   THEN Older(st[p].damping_start)
                                                   ELSE st[p].damping_start]
      BY <1>2, <1>s DEF Tick, Fields
    <3> QED BY <3>1, <1>s DEF Fields
  <2> QED BY <2>1, <2>2, StatusesKeptTold
<1>3. ASSUME NEW p \in Port, NEW a \in Algorithm, NEW c \in Configs,
             ProcessLinkEventDampingConfigSet(p, a, c)
      PROVE  ToldInv'
  <2>1. UNCHANGED <<link, events, forwarding, syncing, batch, told, adrift>>
    BY <1>3 DEF ProcessLinkEventDampingConfigSet
  <2>2. st' = [st EXCEPT ![p] = [st[p] EXCEPT !.algorithm = a, !.aied_config = c]]
    BY <1>3, <1>s DEF ProcessLinkEventDampingConfigSet, Fields
  <2>3. ASSUME NEW q \in Port
        PROVE  /\ st'[q].physical_status = st[q].physical_status
               /\ st'[q].advertised_status = st[q].advertised_status
               /\ st'[q].is_damping_active = st[q].is_damping_active
               /\ st'[q].pending_state_sync = st[q].pending_state_sync
    BY <2>2, <1>s DEF Fields
  <2> QED BY <2>1, <2>3, StatusesKeptTold
<1>4. CASE UNCHANGED dampingVars
  <2>1. UNCHANGED <<link, events, forwarding, syncing, batch, told, adrift>> /\ st' = st
    BY <1>4 DEF dampingVars
  <2> QED BY <2>1, StatusesKeptTold
<1>5. CASE ProcessPendingDampingSync \/ SendBatch \/ SendFails \/ Acknowledge
  BY <1>5, MainLoopTold
<1> QED BY <1>1, <1>2, <1>3, <1>4, <1>5, ProcessTold, SendNotificationTold, CheckTold DEF DampingNext

(* A status that damping keeps from OA is never forgotten: as long as no   *)
(* event went past the damping state of a port, OA was last sent what the  *)
(* state calls advertised, and where the link has another status the port  *)
(* is still damped or waits for its sync, whatever the three threads do in *)
(* between.                                                                *)
THEOREM SuppressedStaysRemembered == DampingSpec => []SuppressedIsRemembered
<1>1. DampingSpec => [](ReleasedInv /\ ToldInv)
  BY InitReleased, InitTold, NextReleased, NextTold, PTL DEF DampingSpec
<1>2. ToldInv => SuppressedIsRemembered
  BY DEF ToldInv, Remembered, SuppressedIsRemembered
<1> QED BY <1>1, <1>2, PTL

-----------------------------------------------------------------------------
(* DecayEndsInTime.  The code decays the penalty only when it looks at it, *)
(* so the invariant is about the penalty as it would be if it were decayed *)
(* now.  It is said for every configuration OA may set, because a request  *)
(* may replace the one under which the penalty was earned.                 *)

(* Dividing by twice the divisor halves, and dividing makes smaller.       *)
LEMMA Halving ==
  ASSUME NEW n \in Nat, NEW m \in Nat \ {0}
  PROVE  /\ n \div m \in Nat /\ n \div m <= n
         /\ n < m => n \div m = 0
         /\ \A k \in Nat : n \div m <= 2 * k => n \div (2 * m) <= k
         /\ n \div (2 * m) <= n \div m
  OBVIOUS

(* The powers of two up to AgeCap, and the ceilings, are natural numbers.  *)
LEMMA Powers ==
  /\ \A n \in 0 .. AgeCap : 2 ^ n \in Nat \ {0}
  /\ \A k \in Config : /\ k.max \in 0 .. AgeCap /\ k.reuse \in Nat /\ k.flap \in Nat /\ k.half = 1
                      /\ Ceiling(k) \in Nat
                      /\ Ceiling(k) = 2 ^ k.max * k.reuse
                      /\ Ceiling(k) < 2 ^ AgeCap
<1>1. \A n \in 0 .. AgeCap : 2 ^ n \in Nat \ {0}
  BY PowerLaw
<1>2. ASSUME NEW k \in Config
      PROVE  /\ k.max \in 0 .. AgeCap /\ k.reuse \in Nat /\ k.flap \in Nat /\ k.half = 1
             /\ Ceiling(k) \in Nat
             /\ Ceiling(k) = 2 ^ k.max * k.reuse
             /\ Ceiling(k) < 2 ^ AgeCap
  <2>1. k.max \in Nat /\ k.reuse \in Nat /\ k.flap \in Nat /\ k.half = 1
    BY ConfigAssumption
  <2>2. AgeCap \in Nat /\ AgeCap >= k.max /\ 2 ^ AgeCap > Ceiling(k)
    BY AgeAssumption
  <2>3. 2 ^ k.max \in Nat /\ 2 ^ AgeCap \in Nat
    BY <1>1, <2>1, <2>2
  <2>4. Ceiling(k) = 2 ^ k.max * k.reuse
    BY DEF Ceiling
  <2>5. Ceiling(k) \in Nat
    BY <2>1, <2>3, <2>4
  <2> QED BY <2>1, <2>2, <2>3, <2>4, <2>5
<1> QED BY <1>1, <1>2

(* A penalty P that has not been decayed for the time a comes down to the  *)
(* threshold of k when its suppression, begun the time b ago, ends.        *)
Ends(k, P, a, b) == k.max >= b => P \div 2 ^ a <= 2 ^ (k.max - b) * k.reuse

Earned(s) ==
  /\ Shape(s)
  /\ s.aied_config \in Configs
  /\ s.current_penalty \in Nat
  /\ \A k \in Config : s.current_penalty <= Ceiling(k)
  /\ s.last_decay \in {Never} \cup 0 .. AgeCap
  /\ s.damping_start \in 0 .. AgeCap
  /\ s.is_damping_active =>
       /\ s.last_decay # Never
       /\ \A k \in Config : Ends(k, s.current_penalty, s.last_decay, s.damping_start)

(* One more tick of both ages: half the penalty, half the time left.       *)
LEMMA EndsAfterTick ==
  ASSUME NEW k \in Config, NEW P \in Nat, P <= Ceiling(k),
         NEW a \in 0 .. AgeCap, NEW b \in 0 .. AgeCap, Ends(k, P, a, b)
  PROVE  Ends(k, P, Older(a), Older(b))
<1>1. /\ AgeCap \in Nat /\ k.max \in 0 .. AgeCap /\ k.reuse \in Nat /\ Ceiling(k) \in Nat
      /\ Ceiling(k) < 2 ^ AgeCap /\ 2 ^ AgeCap \in Nat \ {0} /\ 2 ^ a \in Nat \ {0}
  BY Powers, AgeAssumption
<1> SUFFICES ASSUME k.max >= Older(b)
             PROVE  P \div 2 ^ Older(a) <= 2 ^ (k.max - Older(b)) * k.reuse
  BY DEF Ends
<1>b. Older(b) \in 0 .. AgeCap /\ b <= Older(b) /\ k.max - Older(b) \in 0 .. AgeCap /\ k.max >= b
      /\ (Older(b) = b \/ Older(b) = b + 1)
  BY <1>1 DEF Older
<1>2. 2 ^ (k.max - Older(b)) \in Nat
  BY <1>b, Powers
<1>3. 2 ^ (k.max - Older(b)) * k.reuse \in Nat
  BY <1>1, <1>2
<1>4. P \div 2 ^ a <= 2 ^ (k.max - b) * k.reuse
  BY <1>b DEF Ends
<1>5. CASE a = AgeCap
  <2>1. Older(a) = AgeCap /\ P < 2 ^ AgeCap
    BY <1>5, <1>1 DEF Older
  <2>2. P \div 2 ^ AgeCap = 0
    BY <2>1, <1>1, Halving
  <2> QED BY <2>1, <2>2, <1>3
<1>6. CASE a # AgeCap
  <2>1. Older(a) = a + 1
    BY <1>6, <1>1 DEF Older
  <2>2. 2 ^ (a + 1) = 2 * 2 ^ a
    BY PowerLaw
  <2>3. CASE Older(b) = b + 1
    <3> DEFINE l == k.max - Older(b)
               K == 2 ^ l * k.reuse
    <3>1. l \in 0 .. AgeCap /\ k.max - b = l + 1
      BY <1>b, <2>3, <1>1
    <3>2. 2 ^ (k.max - b) = 2 * 2 ^ l
      BY <3>1, PowerLaw
    <3>3. 2 ^ (k.max - b) * k.reuse = 2 * K
      BY <3>2, <1>1, <1>2
    <3>4. P \div 2 ^ a <= 2 * K /\ K \in Nat
      BY <3>3, <1>4, <1>3
    <3>5. \A j \in Nat : P \div 2 ^ a <= 2 * j => P \div (2 * 2 ^ a) <= j
      BY <1>1, Halving
    <3>6. P \div (2 * 2 ^ a) <= K
      <4> HIDE DEF K
      <4> QED BY <3>4, <3>5
    <3> QED BY <3>6, <2>1, <2>2
  <2>4. CASE Older(b) = b
    <3>1. P \div (2 * 2 ^ a) <= P \div 2 ^ a /\ P \div 2 ^ a \in Nat
      BY <1>1, Halving
    <3>2. 2 * 2 ^ a \in Nat \ {0}
      BY <1>1
    <3>3. P \div (2 * 2 ^ a) \in Nat
      BY <3>2, Halving
    <3> QED BY <3>1, <3>3, <2>1, <2>2, <2>4, <1>4, <1>3
  <2> QED BY <2>3, <2>4, <1>b
<1> QED BY <1>5, <1>6

(* A penalty under the ceiling ends in time if the suppression begins now. *)
LEMMA EndsAtStart ==
  ASSUME NEW k \in Config, NEW P \in Nat, P <= Ceiling(k), NEW a \in 0 .. AgeCap
  PROVE  Ends(k, P, a, 0)
<1>1. /\ k.max \in Nat /\ k.max - 0 = k.max
      /\ Ceiling(k) = 2 ^ k.max * k.reuse /\ Ceiling(k) \in Nat /\ 2 ^ a \in Nat \ {0}
  BY Powers, AgeAssumption
<1>2. P \div 2 ^ a \in Nat /\ P \div 2 ^ a <= P
  BY <1>1, Halving
<1>3. P \div 2 ^ a <= 2 ^ k.max * k.reuse
  BY <1>1, <1>2
<1> QED BY <1>1, <1>3 DEF Ends

(* Looking at the penalty, which decays it, changes nothing of this.       *)
LEMMA DecayEarned ==
  ASSUME NEW s, Earned(s)
  PROVE  Earned(DecayPenalty(s))
<1>1. CASE s.current_penalty = 0 \/ s.aied_config.half = 0 \/ s.last_decay <= 0
  BY <1>1 DEF DecayPenalty
<1>2. CASE ~(s.current_penalty = 0 \/ s.aied_config.half = 0 \/ s.last_decay <= 0)
  <2> DEFINE Q == s.current_penalty \div 2 ^ s.last_decay
             d == [s EXCEPT !.current_penalty = Q, !.last_decay = 0]
  <2>1. DecayPenalty(s) = d
    BY <1>2 DEF DecayPenalty
  <2>2. s.last_decay \in 0 .. AgeCap /\ AgeCap \in Nat
    BY <1>2, AgeAssumption DEF Earned, Never
  <2>3. Q \in Nat /\ Q <= s.current_penalty
    BY <2>2, Powers, Halving DEF Earned
  <2> HIDE DEF Q
  <2>4. /\ Shape(d) /\ d.current_penalty = Q /\ d.last_decay = 0 /\ d.aied_config = s.aied_config
        /\ d.damping_start = s.damping_start /\ d.is_damping_active = s.is_damping_active
    BY DEF Earned, Shape, Fields
  <2>5. ASSUME NEW k \in Config PROVE Q <= Ceiling(k)
    <3>1. s.current_penalty <= Ceiling(k) /\ s.current_penalty \in Nat /\ Ceiling(k) \in Nat
      BY Powers DEF Earned
    <3> QED BY <3>1, <2>3
  <2>6. ASSUME s.is_damping_active, NEW k \in Config PROVE Ends(k, Q, 0, s.damping_start)
    <3>1. Ends(k, s.current_penalty, s.last_decay, s.damping_start)
      BY <2>6 DEF Earned
    <3>2. 2 ^ 0 = 1
      OBVIOUS
    <3>3. Q \div 2 ^ 0 = Q
      BY <3>2, <2>3
    <3> QED BY <3>1, <3>3 DEF Ends, Q
  <2> QED BY <2>1, <2>2, <2>3, <2>4, <2>5, <2>6 DEF Earned, Never
<1> QED BY <1>1, <1>2

(* A change of the link under a configuration of OA: a penalty is added    *)
(* only where the suppression begins, or begins anew.                      *)
LEMMA TransitionEarned ==
  ASSUME OneCeiling, NEW s, Earned(s), s.aied_config \in Config, NEW new
  PROVE  Earned(Transition(s, new))
<1> DEFINE P == AddPenalty(s, new)
           enters == ~s.is_damping_active /\ P >= s.aied_config.suppress
           b == IF enters \/ (s.is_damping_active /\ new = DOWN) THEN 0 ELSE s.damping_start
           a == IF s.last_decay = Never THEN 0 ELSE s.last_decay
           t == [s EXCEPT !.current_penalty = P, !.damping_start = b,
                          !.is_damping_active = s.is_damping_active \/ enters,
                          !.last_decay = a, !.physical_status = new]
<1>0. Transition(s, new) = t
  BY DEF Transition
<1>1. /\ Ceiling(s.aied_config) \in Nat /\ s.aied_config.flap \in Nat /\ s.current_penalty \in Nat
      /\ s.current_penalty <= Ceiling(s.aied_config)
  BY Powers DEF Earned
<1>2. P \in Nat /\ P <= Ceiling(s.aied_config)
  BY <1>1 DEF AddPenalty
<1>3. new # DOWN => P = s.current_penalty
  BY DEF AddPenalty
<1>4. \A k \in Config : P <= Ceiling(k)
  <2> SUFFICES ASSUME NEW k \in Config PROVE P <= Ceiling(k)
    OBVIOUS
  <2>1. Ceiling(k) = Ceiling(s.aied_config)
    BY DEF OneCeiling
  <2> QED BY <2>1, <1>2
<1>5. /\ AgeCap \in Nat /\ a \in 0 .. AgeCap /\ b \in 0 .. AgeCap
      /\ enters \in BOOLEAN /\ s.is_damping_active \in BOOLEAN
  BY AgeAssumption DEF Earned, Shape
<1>6. ASSUME s.is_damping_active \/ enters, NEW k \in Config PROVE Ends(k, P, a, b)
  <2>1. CASE b = 0
    BY <2>1, <1>2, <1>4, <1>5, EndsAtStart
  <2>2. CASE b # 0
    <3>1. s.is_damping_active /\ new # DOWN /\ b = s.damping_start
      BY <2>2, <1>6
    <3>2. a = s.last_decay /\ P = s.current_penalty
      BY <3>1, <1>3 DEF Earned
    <3>3. Ends(k, s.current_penalty, s.last_decay, s.damping_start)
      BY <3>1 DEF Earned
    <3> QED BY <3>1, <3>2, <3>3
  <2> QED BY <2>1, <2>2
<1> HIDE DEF P, enters, a, b
<1>7. /\ Shape(t) /\ t.current_penalty = P /\ t.last_decay = a /\ t.aied_config = s.aied_config
      /\ t.damping_start = b /\ t.is_damping_active = (s.is_damping_active \/ enters)
  BY <1>5 DEF Earned, Shape, Fields
<1>8. a # Never
  BY <1>5 DEF Never
<1>9. s.aied_config \in Configs
  BY DEF Earned
<1> HIDE DEF t
<1> QED BY <1>0, <1>2, <1>4, <1>5, <1>6, <1>7, <1>8, <1>9 DEF Earned

(* An event is applied under a valid configuration, hence one of OA.       *)
LEMMA ApplyEarned ==
  ASSUME OneCeiling, NEW s, Earned(s), ValidConfig(s.aied_config), NEW new
  PROVE  Earned(ApplyAiedAlgorithm(s, new))
<1> DEFINE d == DecayPenalty(s)
           m == Moved(s, new)
           t == Checked(s, new)
<1>1. s.aied_config \in Config
  BY DEF Earned, Configs, ValidConfig, Zero
<1>2. Earned(d) /\ d.aied_config = s.aied_config
  BY DecayEarned DEF DecayPenalty, Earned, Shape, Fields
<1>3. Earned(m)
  BY <1>1, <1>2, TransitionEarned DEF Moved
<1> HIDE DEF d, m
<1>4. Earned(t)
  <2>1. CASE m.is_damping_active /\ Expired(m)
    <3> DEFINE l == [m EXCEPT !.is_damping_active = FALSE, !.damping_start = 0,
                              !.pending_state_sync = m.pending_state_sync \/ m.advertised_status # m.physical_status]
    <3>1. t = [l EXCEPT !.advertised_status = m.physical_status]
      BY <2>1 DEF Checked, LeaveDamping, m
    <3>2. /\ Shape(t) /\ t.current_penalty = m.current_penalty /\ t.last_decay = m.last_decay
          /\ t.aied_config = m.aied_config /\ t.damping_start = 0 /\ t.is_damping_active = FALSE
      BY <3>1, <1>3 DEF Earned, Shape, Fields
    <3> HIDE DEF t
    <3> QED BY <3>2, <1>3, AgeAssumption DEF Earned
  <2>2. CASE ~(m.is_damping_active /\ Expired(m))
    BY <2>2, <1>3 DEF Checked, m
  <2> QED BY <2>1, <2>2
<1> HIDE DEF t
<1>5. CASE Suppressed(s, new)
  BY <1>4, <1>5 DEF ApplyAiedAlgorithm, t
<1>6. CASE ~Suppressed(s, new)
  <2> DEFINE u == [t EXCEPT !.advertised_status = new,
                            !.pending_state_sync = t.pending_state_sync /\ new # t.physical_status]
  <2>1. ApplyAiedAlgorithm(s, new) = u
    BY <1>6 DEF ApplyAiedAlgorithm, t
  <2>2. /\ Shape(u) /\ u.current_penalty = t.current_penalty /\ u.last_decay = t.last_decay
        /\ u.aied_config = t.aied_config /\ u.damping_start = t.damping_start
        /\ u.is_damping_active = t.is_damping_active
    BY <1>4 DEF Earned, Shape, Fields
  <2> HIDE DEF u
  <2> QED BY <2>1, <2>2, <1>4 DEF Earned
<1> QED BY <1>5, <1>6

(* The timer decays the penalty of a damped port, and may release it.      *)
LEMMA CheckEarned ==
  ASSUME NEW s, Earned(s)
  PROVE  Earned(CheckPort(s))
<1> DEFINE d == DecayPenalty(s)
<1>1. Earned(d)
  BY DecayEarned
<1>2. CASE s.is_damping_active /\ s.algorithm = "AIED" /\ Expired(d)
  <2> DEFINE t == LeaveDamping(d)
  <2>1. CheckPort(s) = t
    BY <1>2 DEF CheckPort
  <2> HIDE DEF d
  <2>2. /\ Shape(t) /\ t.current_penalty = d.current_penalty /\ t.last_decay = d.last_decay
        /\ t.aied_config = d.aied_config /\ t.damping_start = 0 /\ t.is_damping_active = FALSE
    BY <1>1 DEF Earned, Shape, Fields, LeaveDamping
  <2> HIDE DEF t
  <2> QED BY <2>1, <2>2, <1>1, AgeAssumption DEF Earned
<1>3. CASE ~(s.is_damping_active /\ s.algorithm = "AIED" /\ Expired(d))
  BY <1>1, <1>3 DEF CheckPort
<1> QED BY <1>2, <1>3

(* Time passes for a damped port and for one that is not.                  *)
LEMMA TickEarned ==
  ASSUME NEW s, Earned(s)
  PROVE  Earned([s EXCEPT !.last_decay = Older(s.last_decay),
                          !.damping_start = IF s.is_damping_active THEN Older(s.damping_start)
                                            ELSE s.damping_start])
<1> DEFINE a == Older(s.last_decay)
           b == IF s.is_damping_active THEN Older(s.damping_start) ELSE s.damping_start
           t == [s EXCEPT !.last_decay = a, !.damping_start = b]
<1>1. a \in {Never} \cup 0 .. AgeCap /\ b \in 0 .. AgeCap /\ (s.last_decay # Never => a # Never)
  BY AgeAssumption DEF Earned, Older, Never
<1>2. ASSUME s.is_damping_active, NEW k \in Config PROVE Ends(k, s.current_penalty, a, b)
  <2>1. /\ s.current_penalty \in Nat /\ s.current_penalty <= Ceiling(k)
        /\ s.last_decay \in 0 .. AgeCap /\ s.damping_start \in 0 .. AgeCap
        /\ Ends(k, s.current_penalty, s.last_decay, s.damping_start)
    BY <1>2 DEF Earned
  <2> QED BY <2>1, <1>2, EndsAfterTick
<1> HIDE DEF a, b
<1>3. /\ Shape(t) /\ t.current_penalty = s.current_penalty /\ t.last_decay = a
      /\ t.aied_config = s.aied_config /\ t.damping_start = b
      /\ t.is_damping_active = s.is_damping_active
  BY DEF Earned, Shape, Fields
<1>4. Earned(t)
  BY <1>1, <1>2, <1>3 DEF Earned
<1> QED BY <1>4 DEF a, b

EarnedInv ==
  /\ DOMAIN m_portLinkEventDampingStates = Port
  /\ \A p \in Port : Earned(m_portLinkEventDampingStates[p])

(* A new port has no penalty.                                              *)
LEMMA InitEarned == DampingInit => EarnedInv
<1>1. Earned(NewState)
  <2>1. DOMAIN NewState = Fields
    BY DEF NewState, Fields
  <2>2. /\ NewState.is_damping_active = FALSE /\ NewState.pending_state_sync = FALSE
        /\ NewState.aied_config = Zero /\ NewState.current_penalty = 0
        /\ NewState.last_decay = Never /\ NewState.damping_start = 0
    BY DEF NewState
  <2>3. \A k \in Config : 0 <= Ceiling(k)
    BY Powers
  <2>4. Shape(NewState)
    BY <2>1, <2>2 DEF Shape
  <2>5. 0 \in 0 .. AgeCap /\ 0 \in Nat /\ Zero \in Configs
    BY AgeAssumption DEF Configs
  <2> HIDE DEF NewState
  <2> QED BY <2>2, <2>3, <2>4, <2>5 DEF Earned
<1> QED BY <1>1 DEF DampingInit, EarnedInv

(* Every step of the three threads keeps it.                               *)
LEMMA NextEarned == ASSUME OneCeiling, EarnedInv, [DampingNext]_dampingVars PROVE EarnedInv'
<1> DEFINE st == m_portLinkEventDampingStates
<1>1. CASE UNCHANGED m_portLinkEventDampingStates
  BY <1>1 DEF EarnedInv
<1>2. CASE Tick
  <2>1. ASSUME NEW p \in Port PROVE Earned(st'[p])
    <3>1. Earned(st[p]) /\ DOMAIN st[p] = Fields
      BY DEF EarnedInv, Earned, Shape
    <3>2. st'[p] = [st[p] EXCEPT !.last_decay = Older(st[p].last_decay),
                                 !.damping_start = IF st[p].is_damping_active
                                                   THEN Older(st[p].damping_start)
                                                   ELSE st[p].damping_start]
      BY <1>2, <3>1 DEF Tick, Fields
    <3> QED BY <3>1, <3>2, TickEarned
  <2> QED BY <1>2, <2>1 DEF Tick, EarnedInv
<1>3. CASE ProcessPortStateChange
  <2> DEFINE p == Head(events).port
             new == Head(events).status
  <2>1. \/ st' = st
        \/ ValidConfig(st[p].aied_config) /\ st' = [st EXCEPT ![p] = ApplyAiedAlgorithm(st[p], new)]
    BY <1>3 DEF ProcessPortStateChange
  <2>2. CASE ValidConfig(st[p].aied_config) /\ st' = [st EXCEPT ![p] = ApplyAiedAlgorithm(st[p], new)]
    <3>1. p \in Port => Earned(ApplyAiedAlgorithm(st[p], new))
      BY <2>2, ApplyEarned DEF EarnedInv
    <3> HIDE DEF p, new
    <3> QED BY <2>2, <3>1 DEF EarnedInv
  <2> QED BY <2>1, <2>2, <1>1
<1>4. CASE CheckDampedPortsTimeout
  <2>1. \A p \in Port : Earned(CheckPort(st[p]))
    BY CheckEarned DEF EarnedInv
  <2> QED BY <1>4, <2>1 DEF CheckDampedPortsTimeout, EarnedInv
<1>5. ASSUME NEW p \in Port, NEW a \in Algorithm, NEW c \in Configs,
             ProcessLinkEventDampingConfigSet(p, a, c)
      PROVE  EarnedInv'
  <2> DEFINE t == [st[p] EXCEPT !.algorithm = a, !.aied_config = c]
  <2>0. Earned(st[p]) /\ DOMAIN st[p] = Fields
    BY DEF EarnedInv, Earned, Shape
  <2>1. st' = [st EXCEPT ![p] = t]
    BY <1>5, <2>0 DEF ProcessLinkEventDampingConfigSet, Fields
  <2>2. /\ Shape(t) /\ t.current_penalty = st[p].current_penalty /\ t.last_decay = st[p].last_decay
        /\ t.aied_config = c /\ t.damping_start = st[p].damping_start
        /\ t.is_damping_active = st[p].is_damping_active
    BY <2>0 DEF Earned, Shape, Fields
  <2> HIDE DEF t
  <2>3. Earned(t)
    BY <2>0, <2>2 DEF Earned
  <2> QED BY <2>1, <2>3 DEF EarnedInv
<1>6. CASE Acknowledge
  <2>1. ASSUME NEW p \in Port PROVE Earned(Synced(st[p], batch[p]))
    <3> DEFINE s == st[p]
               t == Synced(st[p], batch[p])
    <3>1. Earned(s)
      BY DEF EarnedInv
    <3>2. /\ Shape(t) /\ t.current_penalty = s.current_penalty /\ t.last_decay = s.last_decay
          /\ t.aied_config = s.aied_config /\ t.damping_start = s.damping_start
          /\ t.is_damping_active = s.is_damping_active
      BY <3>1 DEF Earned, Shape, Fields, Synced
    <3> HIDE DEF t, s
    <3>3. Earned(t)
      BY <3>1, <3>2 DEF Earned
    <3> QED BY <3>3 DEF t
  <2> QED BY <1>6, <2>1 DEF Acknowledge, EarnedInv
<1>7. CASE \/ \E p \in Port : LinkChanges(p)
           \/ SendNotification \/ ProcessPendingDampingSync \/ SendBatch \/ SendFails
           \/ UNCHANGED dampingVars
  BY <1>7, <1>1 DEF LinkChanges, SendNotification, ProcessPendingDampingSync, SendBatch,
                    SendFails, dampingVars
<1> QED BY <1>2, <1>3, <1>4, <1>5, <1>6, <1>7 DEF DampingNext

(* What the invariant says of a damped port under a valid configuration.   *)
LEMMA EarnedEnds ==
  ASSUME NEW s, Earned(s), s.is_damping_active, ValidConfig(s.aied_config),
         s.aied_config.max - s.damping_start >= 0
  PROVE  DecayPenalty(s).current_penalty <=
           2 ^ (s.aied_config.max - s.damping_start) * s.aied_config.reuse
<1> DEFINE c == s.aied_config
           a == s.last_decay
           P == s.current_penalty
<1>1. c \in Config
  BY DEF Earned, Configs, ValidConfig, Zero
<1>2. c.max \in Nat /\ c.half = 1 /\ AgeCap \in Nat
  BY <1>1, Powers, AgeAssumption
<1>3. P \in Nat /\ a \in 0 .. AgeCap /\ s.damping_start \in 0 .. AgeCap
  BY DEF Earned
<1>4. P \div 2 ^ a <= 2 ^ (c.max - s.damping_start) * c.reuse
  <2>1. Ends(c, P, a, s.damping_start) /\ c.max >= s.damping_start
    BY <1>1, <1>2, <1>3 DEF Earned
  <2> QED BY <2>1 DEF Ends
<1>5. DecayPenalty(s).current_penalty = P \div 2 ^ a
  <2>1. CASE P = 0
    <3>1. 2 ^ a \in Nat \ {0}
      BY <1>3, Powers
    <3>2. P \div 2 ^ a = 0
      BY <2>1, <3>1, Halving
    <3> QED BY <2>1, <3>2 DEF DecayPenalty
  <2>2. CASE a <= 0
    <3>1. a = 0 /\ 2 ^ 0 = 1
      BY <2>2, <1>3
    <3>2. P \div 2 ^ a = P
      BY <3>1, <1>3
    <3> QED BY <2>2, <3>2 DEF DecayPenalty
  <2>3. CASE P # 0 /\ ~(a <= 0)
    <3>1. DecayPenalty(s) = [s EXCEPT !.current_penalty = P \div 2 ^ a, !.last_decay = 0]
      BY <2>3, <1>2 DEF DecayPenalty
    <3> QED BY <3>1 DEF Earned, Shape, Fields
  <2> QED BY <2>1, <2>2, <2>3
<1> QED BY <1>4, <1>5

(* With one ceiling for all configurations, however events, decays and     *)
(* configuration requests follow each other, the penalty of a damped port  *)
(* has come down to reuse_threshold when max_suppress_time is over.        *)
THEOREM DecayStaysInTime == DampingSpec => []DecayEndsInTime
<1>1. (OneCeiling => EarnedInv) => DecayEndsInTime
  <2> SUFFICES ASSUME OneCeiling => EarnedInv, OneCeiling, NEW p \in Port,
                      m_portLinkEventDampingStates[p].is_damping_active,
                      ValidConfig(m_portLinkEventDampingStates[p].aied_config),
                      m_portLinkEventDampingStates[p].aied_config.max
                        - m_portLinkEventDampingStates[p].damping_start >= 0
               PROVE  DecayPenalty(m_portLinkEventDampingStates[p]).current_penalty <=
                        2 ^ (m_portLinkEventDampingStates[p].aied_config.max
                             - m_portLinkEventDampingStates[p].damping_start)
                        * m_portLinkEventDampingStates[p].aied_config.reuse
    BY DEF DecayEndsInTime
  <2>1. Earned(m_portLinkEventDampingStates[p])
    BY DEF EarnedInv
  <2> QED BY <2>1, EarnedEnds
<1>2. DampingInit => (OneCeiling => EarnedInv)
  BY InitEarned
<1>3. (OneCeiling => EarnedInv) /\ [DampingNext]_dampingVars => (OneCeiling => EarnedInv)'
  BY NextEarned DEF OneCeiling
<1> QED BY <1>1, <1>2, <1>3, PTL DEF DampingSpec
================================================================================
