-------------------------- MODULE LinkEventDamping --------------------------
(***************************************************************************)
(* Link event damping in syncd (algorithm AIED).  A port that goes down    *)
(* earns a penalty that decays with time; above a threshold its port state *)
(* notifications are suppressed until the penalty has decayed or a maximum *)
(* time has passed.  Three threads work on the state of a port: the        *)
(* notification thread applies the algorithm and forwards the events it    *)
(* lets pass, a timer thread releases damped ports, and the main loop      *)
(* tells orchagent (OA) the status a released port really has.             *)
(*                                                                         *)
(* A tick of time is one decay_half_life.  An age is the time since an     *)
(* instant the code stores; ages stop at AgeCap, beyond which they make no *)
(* difference.  A notification is about one port.  The counters written to *)
(* STATE_DB are left out.                                                  *)
(***************************************************************************)
EXTENDS Integers, Sequences, FiniteSets

CONSTANTS Port,
          Config,      \* the AIED configurations OA may set
          AgeCap,      \* bound: ages are counted up to it
          MaxEvents,   \* bound: changes of a link
          MaxSets      \* bound: configuration requests

UP == "up"
DOWN == "down"
UNKNOWN == "unknown"
Status == {UP, DOWN, UNKNOWN}
Never == -1                 \* a time stamp of 0

(* The configuration of a new port: all zero, hence not valid.             *)
Zero == [half |-> 0, max |-> 0, suppress |-> 0, reuse |-> 0, flap |-> 0]
Configs == Config \cup {Zero}
Algorithm == {"AIED", "DISABLED"}

Ceiling(c) == 2 ^ c.max * c.reuse

ASSUME ConfigAssumption ==
  \A c \in Config : c \in [half : {1}, max : Nat, suppress : Nat, reuse : Nat, flap : Nat]
ASSUME AgeAssumption ==
  AgeCap \in Nat /\ \A c \in Config : AgeCap >= c.max /\ 2 ^ AgeCap > Ceiling(c)
(* A law of arithmetic, stated because the provers have no definition of   *)
(* exponents.                                                              *)
ASSUME PowerLaw == \A n \in 0 .. AgeCap : 2 ^ n \in Nat \ {0} /\ 2 ^ (n + 1) = 2 * 2 ^ n
ASSUME BoundAssumption == MaxEvents \in Nat /\ MaxSets \in Nat

VARIABLES
  link,         \* the status of the link
  events,       \* port state notifications not handled yet
  m_portLinkEventDampingStates,
  forwarding,   \* notification thread: the notification it is about to send
  syncing, batch,   \* main loop: collecting, sending or acknowledging a batch
  told,         \* the last status OA was sent
  adrift,       \* history: an event went past the damping state of the port
  nEvents, nSets

dampingVars == <<link, events, m_portLinkEventDampingStates, forwarding, syncing, batch, told, adrift, nEvents, nSets>>

PortState == [algorithm : Algorithm, aied_config : Configs,
              current_penalty : UNION {0 .. Ceiling(c) : c \in Configs},
              last_decay : {Never} \cup 0 .. AgeCap,   \* age
              damping_start : 0 .. AgeCap,             \* age
              is_damping_active : BOOLEAN,
              physical_status : Status, advertised_status : Status,
              pending_state_sync : BOOLEAN]

(* A port without an entry behaves like one with a new entry.              *)
NewState == [algorithm |-> "DISABLED", aied_config |-> Zero, current_penalty |-> 0,
             last_decay |-> Never, damping_start |-> 0, is_damping_active |-> FALSE,
             physical_status |-> UNKNOWN, advertised_status |-> UNKNOWN,
             pending_state_sync |-> FALSE]

Nothing == [p \in Port |-> UNKNOWN]

DampingInit ==
  /\ link = [p \in Port |-> DOWN]
  /\ events = <<>>
  /\ m_portLinkEventDampingStates = [p \in Port |-> NewState]
  /\ forwarding = Nothing
  /\ syncing = "idle"
  /\ batch = Nothing
  /\ told = [p \in Port |-> DOWN]
  /\ adrift = [p \in Port |-> FALSE]
  /\ nEvents = 0
  /\ nSets = 0

-----------------------------------------------------------------------------
(* The algorithm, on the state s of one port.                              *)

ValidConfig(c) ==
  /\ c.half # 0 /\ c.max # 0 /\ c.half <= c.max
  /\ c.suppress # 0 /\ c.reuse # 0 /\ c.suppress > c.reuse

(* A penalty of 0 is not decayed, and last_decay stays.                    *)
DecayPenalty(s) ==
  IF s.current_penalty = 0 \/ s.aied_config.half = 0 \/ s.last_decay <= 0 THEN s
  ELSE [s EXCEPT !.current_penalty = @ \div 2 ^ s.last_decay, !.last_decay = 0]

AddPenaltyUncapped(s, new) ==
  IF s.physical_status = UP /\ new = DOWN THEN s.current_penalty + s.aied_config.flap
  ELSE s.current_penalty
AddPenalty(s, new) ==
  LET raised == s.current_penalty + s.aied_config.flap
      ceiling == Ceiling(s.aied_config)
  IN  IF s.physical_status = UP /\ new = DOWN THEN IF raised > ceiling THEN ceiling ELSE raised
      ELSE s.current_penalty

(* A change of the link; damping starts when the penalty is high enough,   *)
(* and starts anew when a damped link goes down.                           *)
Transition(s, new) ==
  LET penalty == AddPenalty(s, new)
      enters == ~s.is_damping_active /\ penalty >= s.aied_config.suppress
  IN  [s EXCEPT !.current_penalty = penalty,
                !.damping_start = IF enters \/ (s.is_damping_active /\ new = DOWN) THEN 0 ELSE @,
                !.is_damping_active = @ \/ enters,
                !.last_decay = IF @ = Never THEN 0 ELSE @,
                !.physical_status = new]

Expired(s) == \/ s.damping_start >= s.aied_config.max
              \/ s.current_penalty < s.aied_config.reuse

(* Leaving damping.                                                        *)
LeaveDampingSilently(s) == [s EXCEPT !.is_damping_active = FALSE, !.damping_start = 0]
LeaveDamping(s) ==
  [s EXCEPT !.is_damping_active = FALSE,
            !.damping_start = 0,
            !.pending_state_sync = @ \/ s.advertised_status # s.physical_status]

(* applyAiedAlgorithm: what becomes of the state, and whether the event is *)
(* suppressed.                                                             *)
Moved(s, new) ==
  LET d == DecayPenalty(s) IN IF d.physical_status # new THEN Transition(d, new) ELSE d
Checked(s, new) ==
  LET t == Moved(s, new)
  IN  IF t.is_damping_active /\ Expired(t)
      THEN [LeaveDamping(t) EXCEPT !.advertised_status = t.physical_status]
      ELSE t
Suppressed(s, new) == Checked(s, new).is_damping_active /\ s.is_damping_active
ApplyKeepingPending(s, new) ==
  IF Suppressed(s, new) THEN Checked(s, new)
  ELSE [Checked(s, new) EXCEPT !.advertised_status = new]
ApplyAiedAlgorithm(s, new) ==
  LET t == Checked(s, new)
  IN  IF Suppressed(s, new) THEN t
      ELSE [t EXCEPT !.advertised_status = new,
                     !.pending_state_sync = @ /\ new # t.physical_status]

-----------------------------------------------------------------------------
(* The ports, and time.                                                    *)

LinkChanges(p) ==
  LET new == IF link[p] = UP THEN DOWN ELSE UP IN
  /\ nEvents < MaxEvents
  /\ nEvents' = nEvents + 1
  /\ link' = [link EXCEPT ![p] = new]
  /\ events' = Append(events, [port |-> p, status |-> new])
  /\ UNCHANGED <<m_portLinkEventDampingStates, forwarding, syncing, batch, told, adrift, nSets>>

Older(age) == IF age \in 0 .. AgeCap - 1 THEN age + 1 ELSE age
Tick ==
  /\ m_portLinkEventDampingStates' =
       [p \in Port |->
          [m_portLinkEventDampingStates[p] EXCEPT
             !.last_decay = Older(@),
             !.damping_start = IF m_portLinkEventDampingStates[p].is_damping_active THEN Older(@) ELSE @]]
  /\ UNCHANGED <<link, events, forwarding, syncing, batch, told, adrift, nEvents, nSets>>

-----------------------------------------------------------------------------
(* Notification thread, under Syncd::m_mutex; applyLinkEventDamping itself *)
(* is under m_linkEventDampingMutex.                                       *)

NtfIdle == forwarding = Nothing

ProcessPortStateChange ==
  LET p == Head(events).port
      new == Head(events).status
      s == m_portLinkEventDampingStates[p]
      damped == s.algorithm = "AIED" /\ ValidConfig(s.aied_config)
      inFlight == syncing # "idle" /\ batch[p] # UNKNOWN
      suppressed == damped /\ Suppressed(s, new)
  IN
  /\ NtfIdle
  /\ events # <<>>
  /\ events' = Tail(events)
  /\ m_portLinkEventDampingStates' =
       IF damped THEN [m_portLinkEventDampingStates EXCEPT ![p] = ApplyAiedAlgorithm(s, new)]
       ELSE m_portLinkEventDampingStates
  /\ forwarding' = IF suppressed THEN forwarding ELSE [forwarding EXCEPT ![p] = new]
  /\ adrift' = [adrift EXCEPT ![p] = IF inFlight \/ ~damped THEN TRUE ELSE @ /\ suppressed]
  /\ UNCHANGED <<link, syncing, batch, told, nEvents, nSets>>

SendNotification ==
  /\ ~NtfIdle
  /\ told' = [p \in Port |-> IF forwarding[p] # UNKNOWN THEN forwarding[p] ELSE told[p]]
  /\ forwarding' = Nothing
  /\ UNCHANGED <<link, events, m_portLinkEventDampingStates, syncing, batch, adrift, nEvents, nSets>>

-----------------------------------------------------------------------------
(* Timer thread, under m_linkEventDampingMutex.                            *)

CheckPort(s) ==
  IF s.is_damping_active /\ s.algorithm = "AIED"
  THEN LET d == DecayPenalty(s) IN IF Expired(d) THEN LeaveDamping(d) ELSE d
  ELSE s
CheckDampedPortsTimeout ==
  /\ m_portLinkEventDampingStates' =
       [p \in Port |-> CheckPort(m_portLinkEventDampingStates[p])]
  /\ UNCHANGED <<link, events, forwarding, syncing, batch, told, adrift, nEvents, nSets>>

-----------------------------------------------------------------------------
(* Main loop.                                                              *)

(* A request with the algorithm, the configuration or both; it is served   *)
(* under Syncd::m_mutex.                                                   *)
ProcessLinkEventDampingConfigSet(p, algorithm, config) ==
  /\ syncing = "idle"
  /\ NtfIdle
  /\ nSets < MaxSets
  /\ nSets' = nSets + 1
  /\ m_portLinkEventDampingStates' =
       [m_portLinkEventDampingStates EXCEPT ![p].algorithm = algorithm, ![p].aied_config = config]
  /\ UNCHANGED <<link, events, forwarding, syncing, batch, told, adrift, nEvents>>

Pending(p) == LET s == m_portLinkEventDampingStates[p] IN
  s.pending_state_sync /\ s.advertised_status # s.physical_status

(* Only this thread uses m_pendingNotifications and it empties the queue   *)
(* right away: the queue holds one batch at most.                          *)
ProcessPendingDampingSync ==
  /\ syncing = "idle"
  /\ \E p \in Port : Pending(p)
  /\ batch' = [p \in Port |-> IF Pending(p) THEN m_portLinkEventDampingStates[p].physical_status
                              ELSE UNKNOWN]
  /\ syncing' = "send"
  /\ UNCHANGED <<link, events, m_portLinkEventDampingStates, forwarding, told, adrift, nEvents, nSets>>

SendBatch ==
  /\ syncing = "send"
  /\ told' = [p \in Port |-> IF batch[p] # UNKNOWN THEN batch[p] ELSE told[p]]
  /\ syncing' = "ack"
  /\ UNCHANGED <<link, events, m_portLinkEventDampingStates, forwarding, batch, adrift, nEvents, nSets>>

(* The exception is logged and the batch dropped.                          *)
SendFails ==
  /\ syncing = "send"
  /\ syncing' = "idle"
  /\ batch' = Nothing
  /\ UNCHANGED <<link, events, m_portLinkEventDampingStates, forwarding, told, adrift, nEvents, nSets>>

Synced(s, status) == [s EXCEPT !.pending_state_sync = FALSE, !.advertised_status = status]
AcknowledgeOnly ==
  /\ syncing = "ack"
  /\ m_portLinkEventDampingStates' =
       [p \in Port |-> [m_portLinkEventDampingStates[p] EXCEPT
                          !.pending_state_sync = @ /\ batch[p] = UNKNOWN]]
  /\ syncing' = "idle"
  /\ batch' = Nothing
  /\ UNCHANGED <<link, events, forwarding, told, adrift, nEvents, nSets>>
Acknowledge ==
  /\ syncing = "ack"
  /\ m_portLinkEventDampingStates' =
       [p \in Port |-> LET s == m_portLinkEventDampingStates[p] IN
                       IF batch[p] # UNKNOWN THEN Synced(s, batch[p]) ELSE s]
  /\ syncing' = "idle"
  /\ batch' = Nothing
  /\ UNCHANGED <<link, events, forwarding, told, adrift, nEvents, nSets>>

-----------------------------------------------------------------------------

DampingNext ==
  \/ \E p \in Port : LinkChanges(p)
  \/ Tick
  \/ ProcessPortStateChange \/ SendNotification
  \/ CheckDampedPortsTimeout
  \/ \E p \in Port, a \in Algorithm, c \in Configs : ProcessLinkEventDampingConfigSet(p, a, c)
  \/ ProcessPendingDampingSync \/ SendBatch \/ SendFails \/ Acknowledge

DampingSpec == DampingInit /\ [][DampingNext]_dampingVars

(* Time passes, the threads run, and a send does not fail for ever.        *)
DampingFairSpec ==
  /\ DampingSpec
  /\ WF_dampingVars(Tick)
  /\ WF_dampingVars(ProcessPortStateChange) /\ WF_dampingVars(SendNotification)
  /\ WF_dampingVars(CheckDampedPortsTimeout)
  /\ WF_dampingVars(ProcessPendingDampingSync)
  /\ SF_dampingVars(SendBatch) /\ WF_dampingVars(Acknowledge)

-----------------------------------------------------------------------------
(* Properties.                                                             *)

(* All variables keep their types.                                         *)
DampingTypeOK ==
  /\ link \in [Port -> {UP, DOWN}]
  /\ events \in Seq([port : Port, status : {UP, DOWN}])
  /\ m_portLinkEventDampingStates \in [Port -> PortState]
  /\ {forwarding, batch, told} \subseteq [Port -> Status]
  /\ syncing \in {"idle", "send", "ack"}
  /\ adrift \in [Port -> BOOLEAN]
  /\ nEvents \in 0 .. MaxEvents /\ nSets \in 0 .. MaxSets

Settled(p) == batch[p] = UNKNOWN /\ forwarding[p] = UNKNOWN

(* A port that waits for its status to be sent is neither damped nor in    *)
(* agreement with what was advertised, so an event that is suppressed      *)
(* cannot overtake it and the sync is never skipped (checkDampedPortsTimeout, *)
(* applyAiedAlgorithm, flushPendingDampingNotifications).                  *)
PendingIsReleased ==
  \A p \in Port : LET s == m_portLinkEventDampingStates[p] IN
    s.pending_state_sync =>
      ~s.is_damping_active /\ s.advertised_status # s.physical_status

(* Unless events went past the damping state (handled with damping off, or *)
(* while the main loop had a batch with the port under way), OA was last   *)
(* sent what the state calls advertised, and where that is not the status  *)
(* of the link the port is damped or has its sync pending; an event that   *)
(* is forwarded brings a port back to this (applyAiedAlgorithm,            *)
(* checkDampedPortsTimeout, flushPendingDampingNotifications).             *)
SuppressedIsRemembered ==
  \A p \in Port : LET s == m_portLinkEventDampingStates[p] IN
    ~adrift[p] /\ Settled(p) /\ s.physical_status # UNKNOWN =>
      /\ told[p] = s.advertised_status
      /\ s.advertised_status # s.physical_status => s.is_damping_active \/ s.pending_state_sync
      /\ (\A i \in DOMAIN events : events[i].port # p) => s.physical_status = link[p]

OneCeiling == \A c, d \in Config : Ceiling(c) = Ceiling(d)

(* The penalty of a damped port never asks for a longer suppression than   *)
(* what is left of max_suppress_time: without another DOWN event it has    *)
(* come down to reuse_threshold when that time is over (the ceiling in     *)
(* applyAiedAlgorithm).  A configuration with a lower ceiling, set while   *)
(* the port is damped, does not lower the penalty, so the ceilings are to  *)
(* be the same (processLinkEventDampingConfigSet).                         *)
DecayEndsInTime ==
  OneCeiling => \A p \in Port : LET s == m_portLinkEventDampingStates[p]
                      c == s.aied_config
                      left == c.max - s.damping_start IN
    s.is_damping_active /\ ValidConfig(c) /\ left >= 0 =>
      DecayPenalty(s).current_penalty <= 2 ^ left * c.reuse

(* What was suppressed is delivered: a damped port whose link differs from *)
(* what OA was told is released and OA hears the status, also when sends   *)
(* fail in between, unless OA turns damping off or events go past the      *)
(* damping state (checkDampedPortsTimeout, processPendingDampingSync).     *)
SuppressedIsDelivered ==
  \A p \in Port :
    LET s == m_portLinkEventDampingStates[p] IN
      (s.is_damping_active /\ told[p] # s.physical_status)
        ~> (told[p] = s.physical_status \/ s.algorithm = "DISABLED" \/ adrift[p])

=============================================================================
