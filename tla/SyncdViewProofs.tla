-------------------------- MODULE SyncdViewProofs --------------------------
(***************************************************************************)
(* DbMirrorsAsic, InitViewDataIsInTemp and AppliedViewIsRequested in       *)
(* synchronous mode, for any objects, values, bulk requests and any number *)
(* of restarts of OA, when an OA that waits for an answer does not die and *)
(* INSPECT_ASIC, which may be answered twice, is not used.  Then there is  *)
(* one request or one answer under way at most, and the invariant can say  *)
(* what OA knows once it has the answer.                                   *)
(***************************************************************************)
EXTENDS SyncdView, SequenceTheorems, TLAPS

-----------------------------------------------------------------------------
(* The invariant.                                                          *)

(* What OA knows when it has taken the answer that is under way.           *)
Known == IF resps = <<>> THEN oa.view ELSE Learn(oa.req, Head(resps))
KnownPhase == IF resps = <<>> THEN oa.phase ELSE Phase(oa.req, Head(resps).ok)

Stored ==
  /\ syncMode = TRUE
  /\ m_veryFirstRun \in BOOLEAN /\ m_firstInitWasPerformed \in BOOLEAN
  /\ m_asicInitViewMode \in BOOLEAN
  /\ m_createdInInitView \subseteq Vid
  /\ m_initViewRemovedVidSet \subseteq Vid
  /\ asic \in View /\ ASIC_STATE \in View /\ TEMP_ASIC_STATE \in View
Types == Stored /\ oa \in OrchAgent /\ Known \in View

(* A request is in the queue or with syncd, its answer is under way, or    *)
(* there is none because syncd threw.                                      *)
InQueue == reqs = <<oa.req>> /\ buffer = <<>> /\ resps = <<>>
InSyncd == reqs = <<>> /\ buffer = <<oa.req>> /\ resps = <<>>
Answered ==
  /\ reqs = <<>> /\ buffer = <<>>
  /\ resps # <<>> /\ resps = <<Head(resps)>> /\ Head(resps).op = Expected
NoneUnderWay == reqs = <<>> /\ buffer = <<>> /\ resps = <<>>
Flow ==
  /\ oa.pc = "idle" => NoneUnderWay
  /\ oa.pc = "wait" => InQueue \/ InSyncd \/ Answered \/ (NoneUnderWay /\ status = "wait")

(* OA sent only what it may.                                               *)
Allowed ==
  oa.pc = "wait" =>
    /\ Legal(oa.req)
    /\ oa.phase = "failed" => oa.req.op = "dump"
    /\ oa.phase = "new" => oa.req.op = "init"

(* The table and the ASIC agree.                                           *)
Mirror ==
  /\ \A v \in Vid : ASIC_STATE[v] = asic[v]
  /\ ASIC_STATE[Switch] = Absent <=> asic[Switch] = Absent

(* The objects the switch came with and still has.                         *)
Discovered ==
  /\ discovered \subseteq Default
  /\ \A v \in discovered : asic[v] # Absent

(* The mode of syncd and the phase of OA.                                  *)
Modes ==
  /\ m_asicInitViewMode => ~m_veryFirstRun
  /\ ~m_firstInitWasPerformed => m_veryFirstRun /\ KnownPhase = "new" /\ asic = Empty
  /\ KnownPhase = "building" => m_asicInitViewMode \/ m_veryFirstRun
  /\ KnownPhase = "applied" => ~m_asicInitViewMode

(* Without the switch OA knows nothing and has removed nothing.            *)
SwitchFirst ==
  KnownPhase \in {"building", "applied"} /\ Known[Switch] = Absent =>
    /\ \A v \in Vid : Known[v] = Absent
    /\ m_initViewRemovedVidSet = {}

(* In normal mode the ASIC has what OA knows, and untouched defaults.      *)
OnAsic ==
  KnownPhase \in {"building", "applied"} /\ ~m_asicInitViewMode =>
    \A v \in Vid :
      IF Known[v] # Absent THEN asic[v] = Known[v]
      ELSE asic[v] \in (IF v \in Default \ m_initViewRemovedVidSet THEN {Absent, Dflt} ELSE {Absent})

(* In init view mode the temporary view has it.                            *)
InTemp ==
  KnownPhase = "building" /\ m_asicInitViewMode => \A v \in Vid : TEMP_ASIC_STATE[v] = Known[v]

Views == Mirror /\ Discovered /\ Modes /\ SwitchFirst /\ OnAsic /\ InTemp

SyncInv == Types /\ Flow /\ Allowed /\ (status = "run" => Views)

-----------------------------------------------------------------------------
(* Facts about the constants and the operators on views.                   *)

(* The switch is not among the objects, and the three kinds of content are *)
(* apart.                                                                  *)
LEMMA Constants ==
  /\ Switch \in Key /\ Switch \notin Vid
  /\ \A v \in Vid : v \in Key /\ v # Switch
  /\ \A k \in Key : k \in Vid \/ k = Switch
  /\ Absent \in Content /\ Dflt \in Content /\ Dflt # Absent
  /\ \A x \in Value : x \in Content /\ x # Absent /\ x # Dflt
  /\ Default \subseteq Vid
  /\ Empty \in View /\ \A k \in Key : Empty[k] = Absent
<1>1. /\ Switch \in Key /\ Switch \notin Vid /\ Default \subseteq Vid
      /\ \A v \in Vid : v \in Key /\ v # Switch
      /\ \A k \in Key : k \in Vid \/ k = Switch
  BY VidAssumption DEF Key
<1>2. /\ Absent \in Content /\ Dflt \in Content /\ Dflt # Absent
      /\ \A x \in Value : x \in Content /\ x # Absent /\ x # Dflt
  BY ValueAssumption DEF Content, Dflt, Absent
<1>3. Empty \in View /\ \A k \in Key : Empty[k] = Absent
  BY <1>2 DEF Empty, View
<1> QED BY <1>1, <1>2, <1>3

(* The kinds of requests are apart.                                        *)
LEMMA Requests ==
  ASSUME NEW r \in Request
  PROVE  /\ r.key \in Key /\ r.val \in Content
         /\ r.op \in Bulk => r.key = Switch /\ r.keys \subseteq Vid
         /\ r.op \notin Bulk => r.keys = {}
         /\ r.op \in Quad \cup Get \cup Notify \cup Bulk
<1>1. CASE r \in [op : Quad \cup Get \cup Notify, key : Key, val : Content, keys : {{}}]
  <2>1. /\ r.op \in Quad \cup Get \cup Notify /\ r.key \in Key /\ r.val \in Content
        /\ r.keys = {}
    BY <1>1
  <2>2. r.op \notin Bulk
    BY <2>1, BulkAssumption, ModeAssumption DEF Quad, Get, Notify
  <2> QED BY <2>1, <2>2
<1>2. CASE r \in [op : Bulk, key : {Switch}, val : Content, keys : Several]
  <2>1. r.op \in Bulk /\ r.key = Switch /\ r.val \in Content /\ r.keys \in Several
    BY <1>2
  <2>2. r.keys \subseteq Vid
    BY <2>1 DEF Several
  <2> QED BY <2>1, <2>2, Constants
<1> QED BY <1>1, <1>2 DEF Request

(* Writing one object, several objects, and objects that are missing.      *)
LEMMA PutFacts ==
  ASSUME NEW view \in View, NEW k \in Key, NEW val \in Content
  PROVE  /\ Put(view, k, val) \in View
         /\ \A j \in Key : Put(view, k, val)[j] =
              IF j = k /\ ~(val = Dflt /\ view[j] # Absent) THEN val ELSE view[j]
  BY DEF Put, View

(* A bulk writes the objects it names and leaves the others.               *)
LEMMA PutBulkFacts ==
  ASSUME NEW view \in View, NEW keys \in SUBSET Vid, NEW val \in Content
  PROVE  /\ PutBulk(view, keys, val) \in View
         /\ \A j \in Key : PutBulk(view, keys, val)[j] =
              IF j \in keys /\ ~(val = Dflt /\ view[j] # Absent) THEN val ELSE view[j]
<1>1. ASSUME NEW j \in Key
      PROVE  /\ PutBulk(view, keys, val)[j] = IF j \in keys /\ ~(val = Dflt /\ view[j] # Absent)
                                              THEN val ELSE view[j]
             /\ PutBulk(view, keys, val)[j] \in Content
  <2>1. Put(view, j, val)[j] = IF val = Dflt /\ view[j] # Absent THEN view[j] ELSE val
    BY PutFacts
  <2>2. view[j] \in Content
    BY DEF View
  <2>3. PutBulk(view, keys, val)[j] = IF j \in keys THEN Put(view, j, val)[j] ELSE view[j]
    BY DEF PutBulk
  <2> QED BY <2>1, <2>2, <2>3
<1>2. PutBulk(view, keys, val) = [j \in Key |-> PutBulk(view, keys, val)[j]]
  BY DEF PutBulk
<1>3. PutBulk(view, keys, val) \in View
  BY <1>1, <1>2 DEF View
<1> QED BY <1>1, <1>3

(* Discovered objects are added, what is there stays.                      *)
LEMMA PutAllFacts ==
  ASSUME NEW view \in View, NEW vids
  PROVE  /\ PutAll(view, vids) \in View
         /\ \A j \in Key : PutAll(view, vids)[j] =
              IF j \in vids /\ view[j] = Absent THEN Dflt ELSE view[j]
  BY Constants DEF PutAll, View

-----------------------------------------------------------------------------
(* Requests and answers.                                                   *)

(* In synchronous mode OA waits for the answer to every request.           *)
LEMMA StateFacts ==
  ASSUME SyncInv
  PROVE  /\ oa.pc \in {"idle", "wait"} /\ oa.req \in Request /\ oa.view \in View
         /\ oa.phase \in {"new", "building", "applied", "failed"}
         /\ asic \in View /\ ASIC_STATE \in View /\ TEMP_ASIC_STATE \in View
         /\ resps = <<>> => Known = oa.view /\ KnownPhase = oa.phase
  BY DEF SyncInv, Types, Stored, OrchAgent, Known, KnownPhase

(* syncd serves the one request there is, and nothing else is under way.   *)
LEMMA Serving ==
  ASSUME SyncInv, NEW ops, Serve(ops)
  PROVE  /\ oa.pc = "wait" /\ status = "run" /\ Views
         /\ Head(buffer) = oa.req /\ oa.req.op \in ops
         /\ buffer' = <<>> /\ reqs' = <<>> /\ resps = <<>> /\ oa' = oa
         /\ Known = oa.view /\ KnownPhase = oa.phase
<1>1. oa.pc \in {"idle", "wait"} /\ (resps = <<>> => Known = oa.view /\ KnownPhase = oa.phase)
  BY StateFacts
<1>2. buffer # <<>> /\ status = "run" /\ Head(buffer).op \in ops
      /\ buffer' = Tail(buffer) /\ oa' = oa /\ reqs' = reqs
  BY DEF Serve, oaVars
<1>3. oa.pc = "wait" /\ InSyncd
  BY <1>1, <1>2 DEF SyncInv, Flow, NoneUnderWay, InQueue, Answered
<1>4. Head(buffer) = oa.req /\ Tail(buffer) = <<>>
  BY <1>3 DEF InSyncd
<1> QED BY <1>1, <1>2, <1>3, <1>4 DEF SyncInv, InSyncd

(* The request is answered.                                                *)
LEMMA Replied ==
  ASSUME SyncInv, oa.pc = "wait", oa' = oa, buffer' = <<>>, reqs' = <<>>,
         NEW a, resps' = <<a>>, a.op = Expected
  PROVE  /\ Flow' /\ Allowed'
         /\ Known' = Learn(oa.req, a) /\ KnownPhase' = Phase(oa.req, a.ok)
<1>1. resps' # <<>> /\ Head(resps') = a /\ resps' = <<Head(resps')>>
  OBVIOUS
<1>2. Flow'
  BY <1>1 DEF Flow, Answered, Expected
<1>3. Allowed'
  BY DEF SyncInv, Allowed, Legal, LegalBulk
<1>4. Known' = Learn(oa.req, a) /\ KnownPhase' = Phase(oa.req, a.ok)
  BY <1>1 DEF Known, KnownPhase, Learn, Phase, LearnBulk, LearnBulkGet
<1> QED BY <1>2, <1>3, <1>4

(* syncd threw: there is no answer, and it only waits for its shutdown.    *)
LEMMA Dropped ==
  ASSUME SyncInv, oa.pc = "wait", oa' = oa, buffer' = <<>>, reqs' = <<>>, resps' = <<>>,
         status' = "wait"
  PROVE  Flow' /\ Allowed' /\ Known' = oa.view
<1>1. Flow'
  BY DEF Flow, NoneUnderWay
<1>2. Allowed'
  BY DEF SyncInv, Allowed, Legal, LegalBulk
<1>3. Known' = oa.view
  BY DEF Known
<1> QED BY <1>1, <1>2, <1>3

(* A step that touches no view keeps what is said of them.                 *)
LEMMA SameViews ==
  ASSUME Views, Known' = Known, KnownPhase' = KnownPhase,
         UNCHANGED <<flags, m_initViewRemovedVidSet, discovered, asic, tables>>
  PROVE  Views'
<1>1. Mirror' /\ Discovered'
  BY DEF Views, Mirror, Discovered, tables
<1>2. Modes' /\ SwitchFirst' /\ OnAsic' /\ InTemp'
  BY DEF Views, Modes, SwitchFirst, OnAsic, InTemp, tables, flags
<1> QED BY <1>1, <1>2 DEF Views

-----------------------------------------------------------------------------
(* Initial state, OA, and syncd taking or refusing requests.               *)

(* Synchronous mode; a waiting OA does not die; no command is answered     *)
(* twice.                                                                  *)
OneAtATime == SyncModes = {TRUE} /\ DieWaiting = FALSE /\ "inspect" \notin Extra

(* An OA that has just started.                                            *)
LEMMA NewAgent ==
  /\ NoRequest \in Request
  /\ NewOa \in OrchAgent /\ NewOa.view = Empty /\ NewOa.pc = "idle" /\ NewOa.phase = "new"
<1>1. NoRequest \in [op : Quad \cup Get \cup Notify, key : Key, val : Content, keys : {{}}]
  BY Constants DEF NoRequest, Notify
<1>2. NoRequest \in Request
  BY <1>1 DEF Request
<1> QED BY <1>2, Constants DEF NewOa, OrchAgent

(* The invariant holds when syncd and OA start.                            *)
LEMMA InitSync == ASSUME OneAtATime, Init PROVE SyncInv
<1>1. /\ syncMode = TRUE /\ oa = NewOa /\ reqs = <<>> /\ buffer = <<>> /\ resps = <<>>
      /\ asic = Empty /\ ASIC_STATE = Empty /\ TEMP_ASIC_STATE = Empty
      /\ m_veryFirstRun = TRUE /\ m_firstInitWasPerformed = FALSE /\ m_asicInitViewMode = FALSE
      /\ m_createdInInitView = {} /\ m_initViewRemovedVidSet = {} /\ discovered = {}
  BY DEF Init, OneAtATime
<1>2. NewOa \in OrchAgent /\ NewOa.view = Empty /\ NewOa.pc = "idle" /\ NewOa.phase = "new"
  BY NewAgent
<1>3. Known = Empty /\ KnownPhase = "new"
  BY <1>1, <1>2 DEF Known, KnownPhase
<1>4. Types
  BY <1>1, <1>2, <1>3, Constants DEF Types, Stored
<1>5. Flow /\ Allowed
  BY <1>1, <1>2 DEF Flow, Allowed, NoneUnderWay
<1>6. Mirror /\ Discovered
  BY <1>1, Constants DEF Mirror, Discovered
<1>7. Modes /\ SwitchFirst /\ OnAsic /\ InTemp
  BY <1>1, <1>3 DEF Modes, SwitchFirst, OnAsic, InTemp
<1> QED BY <1>4, <1>5, <1>6, <1>7 DEF SyncInv, Views

(* OA sends a request it is allowed to send.                               *)
LEMMA OaSendsSync ==
  ASSUME OneAtATime, SyncInv, NEW r \in Request, OaSends(r)
  PROVE  SyncInv'
<1>1. oa \in OrchAgent /\ syncMode = TRUE /\ NoneUnderWay /\ oa.pc = "idle"
  BY DEF SyncInv, Types, Stored, OaSends, Flow
<1>2. /\ oa' = [oa EXCEPT !.pc = "wait", !.req = r]
      /\ reqs' = <<r>> /\ buffer' = <<>> /\ resps' = <<>>
      /\ UNCHANGED <<syncMode, flags, initView, discovered, status, asic, tables>>
  BY <1>1 DEF OaSends, Waits, NoneUnderWay
<1>3. /\ oa' \in OrchAgent /\ oa'.pc = "wait" /\ oa'.req = r
      /\ oa'.view = oa.view /\ oa'.phase = oa.phase
  BY <1>1, <1>2 DEF OrchAgent
<1>4. Known' = Known /\ KnownPhase' = KnownPhase
  BY <1>1, <1>2, <1>3 DEF Known, KnownPhase, NoneUnderWay
<1>5. Types'
  BY <1>2, <1>3, <1>4 DEF SyncInv, Types, Stored, flags, initView, tables
<1>6. Flow'
  BY <1>2, <1>3 DEF Flow, InQueue
<1>7. Allowed'
  <2>1. Legal(r) /\ (oa.phase = "failed" => r.op = "dump") /\ (oa.phase = "new" => r.op \in {"init", "inspect"})
    BY DEF OaSends
  <2>2. r.op # "inspect"
    <3>1. r.op \in Quad \cup Get \cup Notify \cup Bulk
      BY Requests
    <3> QED BY <3>1, BulkAssumption DEF OneAtATime, Quad, Get, Notify
  <2> QED BY <2>1, <2>2, <1>3 DEF Allowed, Legal, LegalBulk
<1>8. status' = "run" => Views'
  BY <1>2, <1>4, SameViews DEF SyncInv, initView
<1> QED BY <1>5, <1>6, <1>7, <1>8 DEF SyncInv

(* OA takes its answer and knows what Known said.                          *)
LEMMA OaReceivesSync ==
  ASSUME SyncInv, OaReceives
  PROVE  SyncInv'
<1> DEFINE a == Head(resps)
<1>1. oa.pc = "wait" /\ resps # <<>> /\ Answered
  BY DEF SyncInv, OaReceives, Flow, InQueue, InSyncd, NoneUnderWay
<1>2. a.op = Expected /\ resps = <<a>>
  BY <1>1 DEF Answered
<1>3. /\ oa' = [pc |-> "idle", req |-> NoRequest, phase |-> Phase(oa.req, a.ok),
                view |-> Learn(oa.req, a)]
      /\ resps' = <<>> /\ reqs' = <<>> /\ buffer' = <<>>
      /\ UNCHANGED <<syncMode, flags, initView, discovered, status, asic, tables>>
  BY <1>1, <1>2 DEF OaReceives, Answered
<1> HIDE DEF a
<1>4. Known' = Known /\ KnownPhase' = KnownPhase
  <2>1. Known = Learn(oa.req, a) /\ KnownPhase = Phase(oa.req, a.ok)
    BY <1>1 DEF Known, KnownPhase, a
  <2>2. oa'.view = Learn(oa.req, a) /\ oa'.phase = Phase(oa.req, a.ok)
    BY <1>3
  <2> QED BY <2>1, <2>2, <1>3 DEF Known, KnownPhase
<1>5. oa' \in OrchAgent /\ oa'.pc = "idle"
  <2>2. NoRequest \in Request
    BY NewAgent
  <2>3. Phase(oa.req, a.ok) \in {"new", "building", "applied", "failed"}
    BY StateFacts DEF Phase
  <2>4. Learn(oa.req, a) \in View
    BY <1>1 DEF SyncInv, Types, Stored, Known, a
  <2> QED BY <1>3, <2>2, <2>3, <2>4 DEF OrchAgent
<1>6. Types'
  BY <1>3, <1>4, <1>5 DEF SyncInv, Types, Stored, flags, initView, tables
<1>7. Flow' /\ Allowed'
  BY <1>3, <1>5 DEF Flow, NoneUnderWay, Allowed
<1>8. status' = "run" => Views'
  BY <1>3, <1>4, SameViews DEF SyncInv, initView
<1> QED BY <1>6, <1>7, <1>8 DEF SyncInv

(* The wait only ends by its timeout when syncd has thrown.                *)
LEMMA OaTimesOutSync ==
  ASSUME SyncInv, OaTimesOut
  PROVE  SyncInv'
<1>1. /\ oa.pc = "wait" /\ NoneUnderWay
      /\ oa' = [oa EXCEPT !.pc = "idle", !.req = NoRequest, !.phase = "failed"]
      /\ UNCHANGED <<syncMode, reqs, buffer, resps, flags, initView, discovered, status, asic, tables>>
  BY DEF OaTimesOut, NoneUnderWay
<1>2. status = "wait"
  BY <1>1 DEF SyncInv, Flow, NoneUnderWay, InQueue, InSyncd, Answered
<1>3. NoRequest \in Request
  BY NewAgent
<1>4. oa' \in OrchAgent /\ oa'.pc = "idle" /\ oa'.view = oa.view
  BY <1>1, <1>3 DEF SyncInv, Types, Stored, OrchAgent
<1>5. Known' = Known
  BY <1>1, <1>4 DEF Known, NoneUnderWay
<1>6. Types'
  BY <1>1, <1>4, <1>5 DEF SyncInv, Types, Stored, flags, initView, tables
<1>7. Flow' /\ Allowed'
  BY <1>1, <1>4 DEF Flow, NoneUnderWay, Allowed
<1> QED BY <1>1, <1>2, <1>6, <1>7 DEF SyncInv

(* A restarted OA knows nothing and the ASIC stays.                        *)
LEMMA OaRestartsSync ==
  ASSUME OneAtATime, SyncInv, OaRestarts
  PROVE  SyncInv'
<1>1. /\ oa.pc = "idle" /\ NoneUnderWay /\ oa' = NewOa
      /\ UNCHANGED <<syncMode, reqs, buffer, resps, flags, initView, discovered, status, asic, tables>>
  BY StateFacts DEF OaRestarts, OneAtATime, SyncInv, Flow
<1>2. NewOa \in OrchAgent /\ NewOa.pc = "idle" /\ NewOa.view = Empty /\ NewOa.phase = "new"
  BY NewAgent
<1>3. Known' = Empty /\ KnownPhase' = "new"
  BY <1>1, <1>2 DEF Known, KnownPhase, NoneUnderWay
<1>4. Types'
  BY <1>1, <1>2, <1>3, Constants DEF SyncInv, Types, Stored, flags, initView, tables
<1>5. Flow' /\ Allowed'
  BY <1>1, <1>2 DEF Flow, NoneUnderWay, Allowed
<1>6. ASSUME status' = "run" PROVE Views'
  <2>1. Views
    BY <1>6, <1>1 DEF SyncInv
  <2>2. Mirror' /\ Discovered'
    BY <2>1, <1>1 DEF Views, Mirror, Discovered, tables
  <2>3. Modes' /\ SwitchFirst' /\ OnAsic' /\ InTemp'
    BY <2>1, <1>1, <1>3 DEF Views, Modes, SwitchFirst, OnAsic, InTemp, tables, flags
  <2> QED BY <2>2, <2>3 DEF Views
<1> QED BY <1>4, <1>5, <1>6 DEF SyncInv

(* The consumer hands over the one request and writes no table.            *)
LEMMA PopSync ==
  ASSUME SyncInv, syncMode' = syncMode, PopRunning \/ PopInShutdownWaitMode
  PROVE  SyncInv'
<1>1. /\ buffer = <<>> /\ reqs # <<>> /\ buffer' = reqs /\ reqs' = <<>>
      /\ ASIC_STATE' = ASIC_STATE /\ TEMP_ASIC_STATE' = TEMP_ASIC_STATE
      /\ UNCHANGED <<resps, flags, initView, discovered, status, asic, oa>>
  BY DEF PopRunning, PopInShutdownWaitMode, Pop, SyncInv, Types, Stored
<1>2. oa.pc = "wait" /\ InQueue
  BY <1>1, StateFacts DEF SyncInv, Flow, NoneUnderWay, InSyncd, Answered
<1>3. Known' = Known /\ KnownPhase' = KnownPhase
  BY <1>1, <1>2 DEF Known, KnownPhase, InQueue
<1>4. Types'
  BY <1>1, <1>3 DEF SyncInv, Types, Stored, flags, initView
<1>5. Flow'
  BY <1>1, <1>2 DEF Flow, InQueue, InSyncd
<1>6. Allowed'
  BY <1>1 DEF SyncInv, Allowed, Legal, LegalBulk
<1>7. status' = "run" => Views'
  BY <1>1, <1>3, SameViews DEF SyncInv, initView, tables
<1> QED BY <1>4, <1>5, <1>6, <1>7 DEF SyncInv

(* Refused in shutdown-wait mode.                                          *)
LEMMA RefuseSync ==
  ASSUME SyncInv, syncMode' = syncMode, RefuseInShutdownWaitMode
  PROVE  SyncInv'
<1> DEFINE a == [op |-> "notify", ok |-> FALSE, vids |-> {}, val |-> Absent]
<1>1. /\ status = "wait" /\ buffer # <<>> /\ buffer' = Tail(buffer)
      /\ oa' = oa /\ reqs' = reqs
      /\ UNCHANGED <<flags, initView, discovered, status, asic, tables>>
      /\ resps' = IF Head(buffer).op \in Notify THEN Append(resps, a) ELSE resps
  BY DEF RefuseInShutdownWaitMode, oaVars, SendNotifyResponse, Answer
<1>2. oa.pc = "wait" /\ InSyncd
  BY <1>1, StateFacts DEF SyncInv, Flow, NoneUnderWay, InQueue, Answered
<1>3. /\ buffer' = <<>> /\ reqs' = <<>>
      /\ resps' = IF oa.req.op \in Notify THEN <<a>> ELSE <<>>
  BY <1>1, <1>2 DEF InSyncd
<1>4. a.op = "notify" /\ a.ok = FALSE
  OBVIOUS
<1> HIDE DEF a
<1>5. Flow' /\ Allowed' /\ Known' = oa.view
  <2>1. CASE oa.req.op \in Notify
    <3>1. a.op = Expected
      BY <2>1, <1>4 DEF Expected
    <3>2. Flow' /\ Allowed' /\ Known' = Learn(oa.req, a)
      BY <1>1, <1>2, <1>3, <2>1, <3>1, Replied
    <3> QED BY <3>2, <1>4 DEF Learn
  <2>2. CASE oa.req.op \notin Notify
    BY <1>1, <1>2, <1>3, <2>2, Dropped
  <2> QED BY <2>1, <2>2
<1>6. Types'
  BY <1>1, <1>5, StateFacts DEF SyncInv, Types, Stored, flags, initView, tables
<1> QED BY <1>1, <1>5, <1>6 DEF SyncInv

-----------------------------------------------------------------------------
(* What every handler of syncd has in common.                              *)

(* The request is the one OA was allowed to send.                          *)
LEMMA LegalFacts ==
  ASSUME SyncInv, oa.pc = "wait"
  PROVE  LET r == oa.req IN
         /\ r.op \notin {"init", "dump"} => oa.phase \in {"building", "applied"}
         /\ r.op = "create" => /\ oa.view[r.key] = Absent /\ r.val # Absent
                               /\ r.key # Switch => oa.view[Switch] # Absent
         /\ r.op = "remove" => r.val = Absent /\ oa.view[r.key] # Absent
         /\ r.op = "set" => r.val \in Value /\ oa.view[r.key] # Absent
         /\ r.op = "get" => oa.view[r.key] # Absent /\ r.key # Switch
         /\ r.op = "list" => r.key = Switch /\ oa.view[Switch] # Absent
         /\ r.op = "apply" => oa.phase = "building"
         /\ r.op \in Bulk => LegalBulk(r)
<1>1. /\ Legal(oa.req)
      /\ oa.phase = "failed" => oa.req.op = "dump"
      /\ oa.phase = "new" => oa.req.op = "init"
  BY DEF SyncInv, Allowed
<1>2. oa.phase \in {"new", "building", "applied", "failed"}
  BY StateFacts
<1>3. /\ Bulk \subseteq {"bulkcreate", "bulkremove", "bulkset", "bulkget"}
      /\ Extra \subseteq {"inspect", "dump"}
  BY BulkAssumption, ModeAssumption
<1>4. oa.req.op \notin {"init", "dump"} => oa.phase \in {"building", "applied"}
  BY <1>1, <1>2
<1>5. oa.req.op \in Bulk => LegalBulk(oa.req)
  BY <1>1, <1>3 DEF Legal
<1> QED BY <1>1, <1>3, <1>4, <1>5 DEF Legal

(* A handler that throws.                                                  *)
LEMMA ThrowSync ==
  ASSUME SyncInv, NEW ops, Serve(ops), Throw, Stored'
  PROVE  SyncInv'
<1>1. /\ oa.pc = "wait" /\ oa' = oa /\ buffer' = <<>> /\ reqs' = <<>> /\ resps' = <<>>
      /\ status' = "wait"
  BY Serving DEF Throw
<1>2. Flow' /\ Allowed' /\ Known' = oa.view
  BY <1>1, Dropped
<1>3. Types'
  BY <1>1, <1>2, StateFacts DEF SyncInv, Types
<1> QED BY <1>1, <1>2, <1>3 DEF SyncInv

(* A handler that answers a.                                               *)
LEMMA AnswerSync ==
  ASSUME SyncInv, NEW ops, Serve(ops), NEW a, resps' = Append(resps, a), a.op = Expected,
         Stored', Learn(oa.req, a) \in View,
         status' = "run" /\ Known' = Learn(oa.req, a) /\ KnownPhase' = Phase(oa.req, a.ok) => Views'
  PROVE  SyncInv'
<1>0. oa.pc = "wait" /\ oa' = oa /\ buffer' = <<>> /\ reqs' = <<>> /\ resps = <<>>
  BY Serving
<1>1. oa.pc = "wait" /\ oa' = oa /\ buffer' = <<>> /\ reqs' = <<>> /\ resps' = <<a>>
  BY <1>0
<1>2. Flow' /\ Allowed' /\ Known' = Learn(oa.req, a) /\ KnownPhase' = Phase(oa.req, a.ok)
  BY <1>1, Replied
<1>3. Types'
  BY <1>1, <1>2 DEF SyncInv, Types
<1> QED BY <1>2, <1>3 DEF SyncInv

(* An answer that reports a failure teaches OA nothing; nothing else has   *)
(* changed.                                                                *)
LEMMA RefusedSync ==
  ASSUME SyncInv, NEW ops, Serve(ops), NEW a, resps' = Append(resps, a), a.op = Expected,
         a.ok = FALSE, oa.req.op \notin {"init", "apply"},
         UNCHANGED <<syncMode, flags, initView, discovered, asic, tables>>
  PROVE  SyncInv'
<1>1. Stored'
  BY DEF SyncInv, Types, Stored, flags, initView, tables
<1>2. Learn(oa.req, a) = oa.view /\ Phase(oa.req, a.ok) = oa.phase
  BY DEF Learn, Phase
<1>3. Views /\ Known = oa.view /\ KnownPhase = oa.phase
  BY Serving
<1>4. ASSUME Known' = Learn(oa.req, a), KnownPhase' = Phase(oa.req, a.ok) PROVE Views'
  BY <1>2, <1>3, <1>4, SameViews DEF initView
<1> QED BY <1>1, <1>2, <1>4, AnswerSync, StateFacts

-----------------------------------------------------------------------------
(* Handlers in normal mode.                                                *)

(* A create, set or remove that the vendor refuses.                        *)
LEMMA FailQuadSync ==
  ASSUME SyncInv, NEW ops, Serve(ops), oa.req.op \in Quad, FailQuad,
         UNCHANGED <<syncMode, flags, initView, TEMP_ASIC_STATE>>
  PROVE  SyncInv'
<1> DEFINE a == [op |-> "getresponse", ok |-> FALSE, vids |-> {}, val |-> Absent]
<1>1. syncMode = TRUE
  BY DEF SyncInv, Types, Stored
<1>2. resps' = Append(resps, a) /\ UNCHANGED <<asic, discovered, ASIC_STATE>>
  BY <1>1 DEF FailQuad, SendApiResponse, Answer
<1>3. oa.req.op \notin Notify
  BY ModeAssumption DEF Quad, Notify
<1>4. a.op = Expected /\ a.ok = FALSE /\ oa.req.op \notin {"init", "apply"}
  BY <1>3 DEF Expected, Notify
<1> HIDE DEF a
<1> QED BY <1>2, <1>4, RefusedSync DEF tables

(* A create in normal mode (processQuadEvent).                             *)
LEMMA CreateSync ==
  ASSUME SyncInv, syncMode' = syncMode, NEW ok \in BOOLEAN, ProcessCreate(ok)
  PROVE  SyncInv'
<1> DEFINE r == oa.req
           a == [op |-> "getresponse", ok |-> TRUE, vids |-> {}, val |-> Absent]
<1>1. Serve({"create"}) /\ ~m_asicInitViewMode /\ UNCHANGED <<flags, initView, TEMP_ASIC_STATE>>
  BY DEF ProcessCreate
<1>2. /\ Head(buffer) = r /\ r.op = "create" /\ Views /\ oa.pc = "wait" /\ status = "run"
      /\ Known = oa.view /\ KnownPhase = oa.phase
  BY <1>1, Serving
<1>3. /\ r \in Request /\ oa.view \in View /\ asic \in View /\ ASIC_STATE \in View
      /\ syncMode = TRUE
  BY StateFacts DEF SyncInv, Types, Stored
<1>4. r.key \in Key /\ r.val \in Content
  BY <1>3, Requests
<1>5. /\ oa.phase \in {"building", "applied"} /\ oa.view[r.key] = Absent /\ r.val # Absent
      /\ r.key # Switch => oa.view[Switch] # Absent
  BY <1>2, LegalFacts
<1>6. CASE ~ok
  <2>1. FailQuad
    BY <1>6 DEF ProcessCreate
  <2> QED BY <1>1, <1>2, <2>1, FailQuadSync DEF Quad
<1>7. CASE ok
  <2>1. /\ asic' = [Spawned(asic, r) EXCEPT ![r.key] = r.val]
        /\ discovered' = IF r.key = Switch THEN Default ELSE discovered
        /\ ASIC_STATE' = Put(Spawned(ASIC_STATE, r), r.key, r.val)
        /\ resps' = Append(resps, a)
        /\ status' = "run"
    BY <1>2, <1>3, <1>7 DEF ProcessCreate, Succeed, SendApiResponse, Answer, Write, Quad
  <2>2. a.op = "getresponse" /\ a.ok = TRUE
    OBVIOUS
  <2> HIDE DEF a
  <2>3. a.op = Expected
    BY <2>2, <1>2, ModeAssumption DEF Expected, Notify
  <2>4. Learn(r, a) = [oa.view EXCEPT ![r.key] = r.val] /\ Phase(r, a.ok) = oa.phase
    BY <2>2, <1>2 DEF Learn, Phase, Quad
  <2>5. \A view \in View :
          /\ Spawned(view, r) \in View
          /\ \A k \in Key : Spawned(view, r)[k] =
               IF r.key = Switch /\ k \in Default /\ view[k] = Absent THEN Dflt ELSE view[k]
    BY <1>2, PutAllFacts DEF Spawned
  <2>6. /\ asic' \in View
        /\ \A k \in Key : asic'[k] =
             IF k = r.key THEN r.val
             ELSE IF r.key = Switch /\ k \in Default /\ asic[k] = Absent THEN Dflt ELSE asic[k]
    BY <2>1, <2>5, <1>3, <1>4 DEF View
  <2>7. /\ ASIC_STATE' \in View
        /\ \A k \in Key : ASIC_STATE'[k] =
             IF k = r.key /\ ~(r.val = Dflt /\ Spawned(ASIC_STATE, r)[k] # Absent) THEN r.val
             ELSE Spawned(ASIC_STATE, r)[k]
    <3>1. Spawned(ASIC_STATE, r) \in View
      BY <2>5, <1>3
    <3> QED BY <2>1, <3>1, <1>4, PutFacts
  <2>8. Stored'
    BY <1>1, <2>6, <2>7 DEF SyncInv, Types, Stored, flags, initView
  <2>9. Learn(r, a) \in View
    BY <2>4, <1>3, <1>4 DEF View
  <2>10. ASSUME Known' = Learn(r, a), KnownPhase' = Phase(r, a.ok) PROVE Views'
    <3>1. /\ \A v \in Vid : Known'[v] = IF v = r.key THEN r.val ELSE oa.view[v]
          /\ Known'[Switch] = IF Switch = r.key THEN r.val ELSE oa.view[Switch]
          /\ KnownPhase' = oa.phase
      BY <2>10, <2>4, <1>3, <1>4, Constants DEF View
    <3>2. \A v \in Vid : IF oa.view[v] # Absent THEN asic[v] = oa.view[v]
                         ELSE asic[v] \in (IF v \in Default \ m_initViewRemovedVidSet
                                           THEN {Absent, Dflt} ELSE {Absent})
      BY <1>1, <1>2, <1>5 DEF Views, OnAsic
    <3>3. r.key = Switch => /\ \A v \in Vid : oa.view[v] = Absent
                            /\ m_initViewRemovedVidSet = {}
      BY <1>2, <1>5 DEF Views, SwitchFirst
    <3>4. Mirror'
      <4>1. \A v \in Vid : ASIC_STATE'[v] = asic'[v]
        <5> SUFFICES ASSUME NEW v \in Vid PROVE ASIC_STATE'[v] = asic'[v]
          OBVIOUS
        <5>1. ASIC_STATE[v] = asic[v] /\ v \in Key /\ v # Switch
          BY <1>2, Constants DEF Views, Mirror
        <5>2. Spawned(ASIC_STATE, r)[v] =
                IF r.key = Switch /\ v \in Default /\ asic[v] = Absent THEN Dflt ELSE asic[v]
          BY <5>1, <2>5, <1>3
        <5>3. v = r.key => asic[v] \in {Absent, Dflt}
          BY <3>2, <1>5
        <5> QED BY <5>1, <5>2, <5>3, <2>6, <2>7
      <4>2. ASIC_STATE'[Switch] = Absent <=> asic'[Switch] = Absent
        <5>1. Spawned(ASIC_STATE, r)[Switch] = ASIC_STATE[Switch]
          BY <2>5, <1>3, Constants
        <5>2. Switch \in Key /\ Switch \notin Default
          BY Constants
        <5> QED BY <5>1, <5>2, <2>6, <2>7, <1>2, <1>5 DEF Views, Mirror
      <4> QED BY <4>1, <4>2 DEF Mirror
    <3>5. Discovered'
      BY <1>2, <1>5, <2>1, <2>6, Constants DEF Views, Discovered
    <3>6. Modes'
      BY <1>1, <1>2, <1>5, <3>1 DEF Views, Modes, flags
    <3>7. SwitchFirst'
      BY <1>1, <1>5, <3>1, <1>2 DEF SwitchFirst
    <3>8. OnAsic'
      <4> SUFFICES ASSUME NEW v \in Vid
                   PROVE  IF Known'[v] # Absent THEN asic'[v] = Known'[v]
                          ELSE asic'[v] \in (IF v \in Default \ m_initViewRemovedVidSet'
                                             THEN {Absent, Dflt} ELSE {Absent})
        BY DEF OnAsic
      <4>1. v \in Key /\ v # Switch
        BY Constants
      <4>2. asic'[v] = IF v = r.key THEN r.val
                       ELSE IF r.key = Switch /\ v \in Default /\ asic[v] = Absent THEN Dflt
                       ELSE asic[v]
        BY <4>1, <2>6
      <4>3. m_initViewRemovedVidSet' = m_initViewRemovedVidSet
        BY <1>1 DEF initView
      <4>4. CASE v = r.key
        BY <4>2, <4>4, <3>1, <1>5
      <4>5. CASE v # r.key /\ r.key # Switch
        BY <4>2, <4>3, <4>5, <3>1, <3>2
      <4>6. CASE v # r.key /\ r.key = Switch
        BY <4>2, <4>3, <4>6, <3>1, <3>2, <3>3
      <4> QED BY <4>4, <4>5, <4>6
    <3>9. InTemp'
      BY <1>1 DEF InTemp, flags
    <3> QED BY <3>4, <3>5, <3>6, <3>7, <3>8, <3>9 DEF Views
  <2> QED BY <1>1, <2>1, <2>3, <2>8, <2>9, <2>10, AnswerSync
<1> QED BY <1>6, <1>7

(* In normal mode the objects in done get the content val on the ASIC, in  *)
(* the table and in what OA knows; a new object without attributes was not *)
(* known before.                                                           *)
LEMMA NormalViews ==
  ASSUME SyncInv, Views, Known = oa.view, KnownPhase = oa.phase,
         ~m_asicInitViewMode, oa.phase \in {"building", "applied"}, oa.view[Switch] # Absent,
         NEW done \in SUBSET Key, NEW val \in Content,
         Switch \in done => val # Absent,
         val = Dflt => \A v \in done \cap Vid : oa.view[v] = Absent,
         \A k \in Key : asic'[k] = IF k \in done THEN val ELSE asic[k],
         \A k \in Key : ASIC_STATE'[k] =
           IF k \in done /\ ~(val = Dflt /\ ASIC_STATE[k] # Absent) THEN val ELSE ASIC_STATE[k],
         \A k \in Key : Known'[k] = IF k \in done THEN val ELSE oa.view[k],
         KnownPhase' = oa.phase,
         discovered' = IF val = Absent THEN discovered \ done ELSE discovered,
         UNCHANGED <<flags, initView>>
  PROVE  Views'
<1>1. \A v \in Vid : IF oa.view[v] # Absent THEN asic[v] = oa.view[v]
                     ELSE asic[v] \in (IF v \in Default \ m_initViewRemovedVidSet
                                       THEN {Absent, Dflt} ELSE {Absent})
  BY DEF Views, OnAsic
<1>2. /\ \A v \in Vid : v \in Key /\ ASIC_STATE[v] = asic[v]
      /\ Switch \in Key /\ (ASIC_STATE[Switch] = Absent <=> asic[Switch] = Absent)
      /\ discovered \subseteq Vid /\ discovered \subseteq Default
      /\ \A v \in discovered : asic[v] # Absent
  BY Constants DEF Views, Mirror, Discovered
<1>3. Mirror'
  <2>1. ASSUME NEW v \in Vid PROVE ASIC_STATE'[v] = asic'[v]
    <3>1. v \in done /\ val = Dflt => ASIC_STATE[v] \in {Absent, Dflt}
      BY <1>1, <1>2
    <3> QED BY <3>1, <1>2
  <2>2. ASIC_STATE'[Switch] = Absent <=> asic'[Switch] = Absent
    BY <1>2
  <2> QED BY <2>1, <2>2 DEF Mirror
<1>4. Discovered'
  BY <1>2 DEF Discovered
<1>5. Modes'
  BY DEF Views, Modes, flags
<1>6. SwitchFirst'
  BY <1>2 DEF SwitchFirst
<1>7. OnAsic'
  BY <1>1, <1>2 DEF OnAsic, initView
<1>8. InTemp'
  BY DEF InTemp, flags
<1> QED BY <1>3, <1>4, <1>5, <1>6, <1>7, <1>8 DEF Views

(* OA knows the switch when it knows anything.                             *)
LEMMA SwitchKnown ==
  ASSUME SyncInv, Views, Known = oa.view, KnownPhase = oa.phase,
         oa.phase \in {"building", "applied"}, NEW k \in Key, oa.view[k] # Absent
  PROVE  oa.view[Switch] # Absent
  BY Constants DEF Views, SwitchFirst

(* A set in normal mode.                                                   *)
LEMMA SetSync ==
  ASSUME SyncInv, syncMode' = syncMode, NEW ok \in BOOLEAN, ProcessSet(ok)
  PROVE  SyncInv'
<1> DEFINE r == oa.req
           a == [op |-> "getresponse", ok |-> TRUE, vids |-> {}, val |-> Absent]
<1>1. Serve({"set"}) /\ ~m_asicInitViewMode /\ UNCHANGED <<flags, initView, TEMP_ASIC_STATE>>
  BY DEF ProcessSet
<1>2. /\ Head(buffer) = r /\ r.op = "set" /\ Views /\ oa.pc = "wait" /\ status = "run"
      /\ Known = oa.view /\ KnownPhase = oa.phase
  BY <1>1, Serving
<1>3. /\ r \in Request /\ oa.view \in View /\ asic \in View /\ ASIC_STATE \in View
      /\ syncMode = TRUE
  BY StateFacts DEF SyncInv, Types, Stored
<1>4. r.key \in Key /\ r.val \in Content /\ r.val # Absent /\ r.val # Dflt
      /\ oa.phase \in {"building", "applied"} /\ oa.view[r.key] # Absent
  <2>1. r.val \in Value /\ oa.phase \in {"building", "applied"} /\ oa.view[r.key] # Absent
    BY <1>2, LegalFacts
  <2> QED BY <2>1, <1>3, Requests, Constants
<1>5. CASE Throw /\ UNCHANGED <<asic, discovered, ASIC_STATE>>
  <2>1. Stored'
    BY <1>1, <1>5 DEF SyncInv, Types, Stored, flags, initView
  <2> QED BY <2>1, <1>1, <1>5, ThrowSync
<1>6. CASE FailQuad
  BY <1>1, <1>2, <1>6, FailQuadSync DEF Quad
<1>7. CASE asic' = [asic EXCEPT ![r.key] = r.val] /\ Succeed(r) /\ UNCHANGED discovered
  <2>1. /\ asic' = [asic EXCEPT ![r.key] = r.val]
        /\ discovered' = discovered
        /\ ASIC_STATE' = Put(ASIC_STATE, r.key, r.val)
        /\ resps' = Append(resps, a)
        /\ status' = "run"
    BY <1>2, <1>3, <1>7 DEF Succeed, SendApiResponse, Answer, Write, Spawned, Quad
  <2>2. a.op = "getresponse" /\ a.ok = TRUE
    OBVIOUS
  <2> HIDE DEF a
  <2>3. a.op = Expected
    BY <2>2, <1>2, ModeAssumption DEF Expected, Notify
  <2>4. Learn(r, a) = [oa.view EXCEPT ![r.key] = r.val] /\ Phase(r, a.ok) = oa.phase
    BY <2>2, <1>2 DEF Learn, Phase, Quad
  <2>5. /\ asic' \in View /\ Learn(r, a) \in View
        /\ \A k \in Key : asic'[k] = IF k \in {r.key} THEN r.val ELSE asic[k]
        /\ \A k \in Key : Learn(r, a)[k] = IF k \in {r.key} THEN r.val ELSE oa.view[k]
    BY <2>1, <2>4, <1>3, <1>4 DEF View
  <2>6. /\ ASIC_STATE' \in View
        /\ \A k \in Key : ASIC_STATE'[k] =
             IF k \in {r.key} /\ ~(r.val = Dflt /\ ASIC_STATE[k] # Absent) THEN r.val ELSE ASIC_STATE[k]
    BY <2>1, <1>3, <1>4, PutFacts
  <2>7. Stored'
    BY <1>1, <2>5, <2>6 DEF SyncInv, Types, Stored, flags, initView
  <2>8. ASSUME Known' = Learn(r, a), KnownPhase' = Phase(r, a.ok) PROVE Views'
    <3>1. oa.view[Switch] # Absent
      BY <1>2, <1>4, SwitchKnown
    <3>2. \A k \in Key : Known'[k] = IF k \in {r.key} THEN r.val ELSE oa.view[k]
      BY <2>8, <2>5
    <3>3. {r.key} \in SUBSET Key /\ KnownPhase' = oa.phase
      BY <2>8, <2>4, <1>4
    <3> QED BY <1>1, <1>2, <1>4, <2>1, <2>5, <2>6, <3>1, <3>2, <3>3, NormalViews
  <2> QED BY <1>1, <2>1, <2>3, <2>5, <2>7, <2>8, AnswerSync
<1> QED BY <1>2, <1>5, <1>6, <1>7 DEF ProcessSet

(* A remove in normal mode.                                                *)
LEMMA RemoveSync ==
  ASSUME SyncInv, syncMode' = syncMode, NEW ok \in BOOLEAN, ProcessRemove(ok)
  PROVE  SyncInv'
<1> DEFINE r == oa.req
           a == [op |-> "getresponse", ok |-> TRUE, vids |-> {}, val |-> Absent]
<1>1. Serve({"remove"}) /\ ~m_asicInitViewMode /\ UNCHANGED <<flags, initView, TEMP_ASIC_STATE>>
  BY DEF ProcessRemove
<1>2. /\ Head(buffer) = r /\ r.op = "remove" /\ Views /\ oa.pc = "wait" /\ status = "run"
      /\ Known = oa.view /\ KnownPhase = oa.phase
  BY <1>1, Serving
<1>3. /\ r \in Request /\ oa.view \in View /\ asic \in View /\ ASIC_STATE \in View
      /\ syncMode = TRUE
  BY StateFacts DEF SyncInv, Types, Stored
<1>4. r.key \in Key /\ r.val = Absent /\ Absent \in Content /\ Absent # Dflt
      /\ oa.phase \in {"building", "applied"} /\ oa.view[r.key] # Absent
  <2>1. r.val = Absent /\ oa.phase \in {"building", "applied"} /\ oa.view[r.key] # Absent
    BY <1>2, LegalFacts
  <2> QED BY <2>1, <1>3, Requests, Constants
<1>5. CASE Throw /\ asic' \in {asic, Empty} /\ UNCHANGED <<discovered, ASIC_STATE>>
  <2>1. Stored'
    BY <1>1, <1>5, Constants DEF SyncInv, Types, Stored, flags, initView
  <2> QED BY <2>1, <1>1, <1>5, ThrowSync
<1>6. CASE FailQuad
  BY <1>1, <1>2, <1>6, FailQuadSync DEF Quad
<1>7. CASE /\ r.key # Switch
           /\ asic' = [asic EXCEPT ![r.key] = Absent]
           /\ discovered' = discovered \ {r.key}
           /\ SendApiResponse(TRUE)
           /\ ASIC_STATE' = IF syncMode THEN Write(ASIC_STATE, r) ELSE ASIC_STATE
           /\ UNCHANGED status
  <2>1. /\ asic' = [asic EXCEPT ![r.key] = Absent]
        /\ discovered' = discovered \ {r.key}
        /\ ASIC_STATE' = Put(ASIC_STATE, r.key, Absent)
        /\ resps' = Append(resps, a)
        /\ status' = "run"
    BY <1>2, <1>3, <1>4, <1>7 DEF SendApiResponse, Answer, Write, Quad
  <2>2. a.op = "getresponse" /\ a.ok = TRUE
    OBVIOUS
  <2> HIDE DEF a
  <2>3. a.op = Expected
    BY <2>2, <1>2, ModeAssumption DEF Expected, Notify
  <2>4. Learn(r, a) = [oa.view EXCEPT ![r.key] = Absent] /\ Phase(r, a.ok) = oa.phase
    BY <2>2, <1>2, <1>4 DEF Learn, Phase, Quad
  <2>5. /\ asic' \in View /\ Learn(r, a) \in View
        /\ \A k \in Key : asic'[k] = IF k \in {r.key} THEN Absent ELSE asic[k]
        /\ \A k \in Key : Learn(r, a)[k] = IF k \in {r.key} THEN Absent ELSE oa.view[k]
    BY <2>1, <2>4, <1>3, <1>4 DEF View
  <2>6. /\ ASIC_STATE' \in View
        /\ \A k \in Key : ASIC_STATE'[k] =
             IF k \in {r.key} /\ ~(Absent = Dflt /\ ASIC_STATE[k] # Absent) THEN Absent ELSE ASIC_STATE[k]
    BY <2>1, <1>3, <1>4, PutFacts
  <2>7. Stored'
    BY <1>1, <2>5, <2>6 DEF SyncInv, Types, Stored, flags, initView
  <2>8. ASSUME Known' = Learn(r, a), KnownPhase' = Phase(r, a.ok) PROVE Views'
    <3>1. oa.view[Switch] # Absent
      BY <1>2, <1>4, SwitchKnown
    <3>2. \A k \in Key : Known'[k] = IF k \in {r.key} THEN Absent ELSE oa.view[k]
      BY <2>8, <2>5
    <3>3. {r.key} \in SUBSET Key /\ KnownPhase' = oa.phase /\ Switch \notin {r.key}
      BY <2>8, <2>4, <1>4, <1>7
    <3> QED BY <1>1, <1>2, <1>4, <2>1, <2>5, <2>6, <3>1, <3>2, <3>3, NormalViews
  <2> QED BY <1>1, <2>1, <2>3, <2>5, <2>7, <2>8, AnswerSync
<1> QED BY <1>2, <1>5, <1>6, <1>7 DEF ProcessRemove

(* What is known of a bulk request.                                        *)
LEMMA BulkFacts ==
  ASSUME SyncInv, oa.pc = "wait", oa.req.op \in Bulk
  PROVE  LET r == oa.req IN
         /\ r.keys \subseteq Vid /\ r.val \in Content
         /\ oa.phase \in {"building", "applied"} /\ oa.view[Switch] # Absent
         /\ r.op \notin Quad \cup Notify /\ r.op \notin {"init", "apply", "get", "list"}
         /\ r.op \in BulkQuad => r.op \in {"bulkcreate", "bulkremove", "bulkset"}
         /\ r.op = "bulkcreate" => r.val # Absent /\ \A k \in r.keys : oa.view[k] = Absent
         /\ r.op = "bulkremove" => r.val = Absent
         /\ r.op = "bulkset" => r.val # Absent /\ r.val # Dflt
<1>1. LegalBulk(oa.req) /\ oa.phase \in {"building", "applied"}
  BY LegalFacts, BulkAssumption
<1>2. oa.req.keys \subseteq Vid /\ oa.req.val \in Content
  BY StateFacts, Requests
<1>3. /\ oa.req.op \notin Quad \cup Notify /\ oa.req.op \notin {"init", "apply", "get", "list"}
      /\ oa.req.op \in BulkQuad => oa.req.op \in {"bulkcreate", "bulkremove", "bulkset"}
  BY BulkAssumption, ModeAssumption DEF Quad, Notify, BulkQuad
<1> QED BY <1>1, <1>2, <1>3, Constants DEF LegalBulk

(* A bulk of creates, sets or removes in normal mode.                      *)
LEMMA BulkOidSync ==
  ASSUME SyncInv, syncMode' = syncMode, NEW done \in SUBSET Vid, ProcessBulkOid(done)
  PROVE  SyncInv'
<1> DEFINE r == oa.req
           a == [op |-> "getresponse", ok |-> TRUE, vids |-> done, val |-> Absent]
<1>1. Serve(BulkQuad) /\ ~m_asicInitViewMode /\ UNCHANGED <<flags, initView, TEMP_ASIC_STATE>>
  BY DEF ProcessBulkOid
<1>2. /\ Head(buffer) = r /\ r.op \in BulkQuad /\ Views /\ oa.pc = "wait" /\ status = "run"
      /\ Known = oa.view /\ KnownPhase = oa.phase
  BY <1>1, Serving
<1>3. /\ r \in Request /\ oa.view \in View /\ asic \in View /\ ASIC_STATE \in View
      /\ syncMode = TRUE
  BY StateFacts DEF SyncInv, Types, Stored
<1>4. /\ r.keys \subseteq Vid /\ r.val \in Content
      /\ oa.phase \in {"building", "applied"} /\ oa.view[Switch] # Absent
      /\ r.op \notin Quad \cup Notify /\ r.op \notin {"init", "apply"}
      /\ r.op \in {"bulkcreate", "bulkremove", "bulkset"}
      /\ r.op = "bulkcreate" => r.val # Absent /\ \A k \in r.keys : oa.view[k] = Absent
      /\ r.op = "bulkremove" => r.val = Absent
      /\ r.op = "bulkset" => r.val # Absent /\ r.val # Dflt
  BY <1>2, BulkFacts DEF BulkQuad
<1>5. /\ done \subseteq r.keys
      /\ asic' = [k \in Key |-> IF k \in done THEN r.val ELSE asic[k]]
      /\ discovered' = IF r.op = "bulkremove" THEN discovered \ done ELSE discovered
  BY <1>2 DEF ProcessBulkOid, BulkExecuted, BulkDiscovered
<1>6. asic' \in View /\ \A k \in Key : asic'[k] = IF k \in done THEN r.val ELSE asic[k]
  BY <1>3, <1>4, <1>5 DEF View
<1>7. CASE BulkThrows(r, done)
  <2>1. Throw /\ UNCHANGED ASIC_STATE
    BY <1>2, <1>7 DEF ProcessBulkOid
  <2>2. Stored'
    BY <1>1, <1>6, <2>1 DEF SyncInv, Types, Stored, flags, initView
  <2> QED BY <1>1, <2>1, <2>2, ThrowSync
<1>8. CASE ~BulkThrows(r, done)
  <2>1. /\ ASIC_STATE' = WriteDone(r, done)
        /\ resps' = Append(resps, a)
        /\ status' = "run"
    BY <1>2, <1>3, <1>8 DEF ProcessBulkOid, SendBulkApiResponse, Answer
  <2>2. WriteDone(r, done) = PutBulk(ASIC_STATE, done, r.val)
    <3>1. /\ [r EXCEPT !.keys = done].op = r.op
          /\ [r EXCEPT !.keys = done].val = r.val
          /\ [r EXCEPT !.keys = done].keys = done
      BY <1>3 DEF Request
    <3> QED BY <3>1, <1>2, <1>4 DEF WriteDone, Write
  <2>3. a.op = "getresponse" /\ a.ok = TRUE /\ a.vids = done
    OBVIOUS
  <2> HIDE DEF a
  <2>4. a.op = Expected
    BY <2>3, <1>4 DEF Expected
  <2>5. /\ Learn(r, a) = [k \in Key |-> IF k \in done THEN r.val ELSE oa.view[k]]
        /\ Phase(r, a.ok) = oa.phase
    BY <2>3, <1>2, <1>4 DEF Learn, LearnBulk, Phase
  <2>6. Learn(r, a) \in View
    BY <2>5, <1>3, <1>4 DEF View
  <2>7. /\ ASIC_STATE' \in View
        /\ \A k \in Key : ASIC_STATE'[k] =
             IF k \in done /\ ~(r.val = Dflt /\ ASIC_STATE[k] # Absent) THEN r.val ELSE ASIC_STATE[k]
    BY <2>1, <2>2, <1>3, <1>4, PutBulkFacts
  <2>8. Stored'
    BY <1>1, <1>6, <2>7 DEF SyncInv, Types, Stored, flags, initView
  <2>9. ASSUME Known' = Learn(r, a), KnownPhase' = Phase(r, a.ok) PROVE Views'
    <3>1. \A k \in Key : Known'[k] = IF k \in done THEN r.val ELSE oa.view[k]
      BY <2>9, <2>5
    <3>2. done \in SUBSET Key /\ KnownPhase' = oa.phase /\ Switch \notin done
      BY <2>9, <2>5, Constants
    <3>3. r.val = Dflt => \A v \in done \cap Vid : oa.view[v] = Absent
      BY <1>4, <1>5, Constants
    <3>4. discovered' = IF r.val = Absent THEN discovered \ done ELSE discovered
      BY <1>4, <1>5
    <3> QED BY <1>1, <1>2, <1>4, <1>6, <2>7, <3>1, <3>2, <3>3, <3>4, NormalViews
  <2> QED BY <1>1, <2>1, <2>4, <2>6, <2>8, <2>9, AnswerSync
<1> QED BY <1>7, <1>8

(* In normal mode OA learns of objects in known what the ASIC has of them, *)
(* and the table is brought up to date.                                    *)
LEMMA SnoopViews ==
  ASSUME SyncInv, Views, Known = oa.view, KnownPhase = oa.phase,
         ~m_asicInitViewMode, oa.phase \in {"building", "applied"}, oa.view[Switch] # Absent,
         NEW known \in SUBSET Vid,
         \A k \in Key : ASIC_STATE'[k] = ASIC_STATE[k] \/ (k \in known /\ ASIC_STATE'[k] = asic[k]),
         \A k \in Key : Known'[k] = IF k \in known THEN asic[k] ELSE oa.view[k],
         KnownPhase' = oa.phase,
         UNCHANGED <<flags, initView, discovered, asic>>
  PROVE  Views'
<1>1. \A v \in Vid : IF oa.view[v] # Absent THEN asic[v] = oa.view[v]
                     ELSE asic[v] \in (IF v \in Default \ m_initViewRemovedVidSet
                                       THEN {Absent, Dflt} ELSE {Absent})
  BY DEF Views, OnAsic
<1>2. /\ \A v \in Vid : v \in Key /\ ASIC_STATE[v] = asic[v]
      /\ Switch \in Key /\ Switch \notin known
  BY Constants DEF Views, Mirror
<1>3. Mirror' /\ Discovered'
  BY <1>2 DEF Views, Mirror, Discovered
<1>4. Modes'
  BY DEF Views, Modes, flags
<1>5. SwitchFirst'
  BY <1>2 DEF SwitchFirst
<1>6. OnAsic'
  BY <1>1, <1>2 DEF OnAsic, initView
<1>7. InTemp'
  BY DEF InTemp, flags
<1> QED BY <1>3, <1>4, <1>5, <1>6, <1>7 DEF Views

(* A get in normal mode makes ids known (snoopGetResponse).                *)
LEMMA GetSync ==
  ASSUME SyncInv, syncMode' = syncMode, ProcessGet
  PROVE  SyncInv'
<1> DEFINE r == oa.req
<1>1. /\ Serve(Get) /\ ~m_asicInitViewMode
      /\ UNCHANGED <<flags, initView, discovered, asic, TEMP_ASIC_STATE>>
  BY DEF ProcessGet
<1>2. /\ Head(buffer) = r /\ r.op \in Get /\ Views /\ oa.pc = "wait" /\ status = "run"
      /\ Known = oa.view /\ KnownPhase = oa.phase
  BY <1>1, Serving
<1>3. /\ r \in Request /\ oa.view \in View /\ asic \in View /\ ASIC_STATE \in View
  BY StateFacts
<1>4. /\ r.key \in Key /\ oa.phase \in {"building", "applied"} /\ oa.view[r.key] # Absent
      /\ r.op = "get" => r.key \in Vid
      /\ r.op = "list" => r.key = Switch
  <2>1. r.key \in Key
    BY <1>3, Requests
  <2> QED BY <2>1, <1>2, LegalFacts, Constants DEF Get
<1>5. oa.view[Switch] # Absent
  BY <1>2, <1>4, SwitchKnown
<1>6. \A a : a.op = "getresponse" => a.op = Expected
  BY <1>2, ModeAssumption DEF Expected, Notify, Get
<1>7. CASE Throw /\ UNCHANGED ASIC_STATE
  <2>1. Stored'
    BY <1>1, <1>7 DEF SyncInv, Types, Stored, flags, initView
  <2> QED BY <2>1, <1>1, <1>7, ThrowSync
<1>8. CASE /\ r.op = "get"
           /\ Answer("getresponse", TRUE, {r.key}, asic[r.key])
           /\ ASIC_STATE' = [ASIC_STATE EXCEPT ![r.key] = asic[r.key]]
           /\ UNCHANGED status
  <2> DEFINE a == [op |-> "getresponse", ok |-> TRUE, vids |-> {r.key}, val |-> asic[r.key]]
  <2>1. resps' = Append(resps, a) /\ a.op = "getresponse" /\ a.ok = TRUE /\ a.val = asic[r.key]
    BY <1>8 DEF Answer
  <2> HIDE DEF a
  <2>2. /\ Learn(r, a) = [oa.view EXCEPT ![r.key] = asic[r.key]] /\ Phase(r, a.ok) = oa.phase
    BY <2>1, <1>8, BulkAssumption DEF Learn, Phase, Quad, BulkQuad
  <2>3. /\ ASIC_STATE' \in View /\ Learn(r, a) \in View
        /\ \A k \in Key : Learn(r, a)[k] = IF k \in {r.key} THEN asic[k] ELSE oa.view[k]
        /\ \A k \in Key : \/ ASIC_STATE'[k] = ASIC_STATE[k]
                          \/ k \in {r.key} /\ ASIC_STATE'[k] = asic[k]
    BY <2>2, <1>3, <1>4, <1>8 DEF View
  <2>4. Stored'
    BY <1>1, <2>3 DEF SyncInv, Types, Stored, flags, initView
  <2>5. ASSUME Known' = Learn(r, a), KnownPhase' = Phase(r, a.ok) PROVE Views'
    <3>1. {r.key} \in SUBSET Vid /\ KnownPhase' = oa.phase
      BY <2>5, <2>2, <1>4, <1>8
    <3>2. \A k \in Key : Known'[k] = IF k \in {r.key} THEN asic[k] ELSE oa.view[k]
      BY <2>5, <2>3
    <3> QED BY <1>1, <1>2, <1>4, <1>5, <2>3, <3>1, <3>2, SnoopViews
  <2> QED BY <1>1, <1>6, <2>1, <2>3, <2>4, <2>5, AnswerSync
<1>9. CASE /\ r.op = "list"
           /\ Answer("getresponse", TRUE, Listed, Dflt)
           /\ ASIC_STATE' = PutAll(ASIC_STATE, Listed \ discovered)
           /\ UNCHANGED status
  <2> DEFINE a == [op |-> "getresponse", ok |-> TRUE, vids |-> Listed, val |-> Dflt]
  <2>1. resps' = Append(resps, a) /\ a.op = "getresponse" /\ a.ok = TRUE /\ a.vids = Listed
    BY <1>9 DEF Answer
  <2> HIDE DEF a
  <2>2. Learn(r, a) = PutAll(oa.view, Listed) /\ Phase(r, a.ok) = oa.phase
    BY <2>1, <1>9, BulkAssumption DEF Learn, Phase, Quad, BulkQuad
  <2>3. /\ Learn(r, a) \in View
        /\ \A k \in Key : Learn(r, a)[k] = IF k \in Listed /\ oa.view[k] = Absent THEN Dflt ELSE oa.view[k]
    BY <2>2, <1>3, PutAllFacts
  <2>4. /\ ASIC_STATE' \in View
        /\ \A k \in Key : ASIC_STATE'[k] =
             IF k \in Listed \ discovered /\ ASIC_STATE[k] = Absent THEN Dflt ELSE ASIC_STATE[k]
    BY <1>3, <1>9, PutAllFacts
  <2>5. Stored'
    BY <1>1, <2>4 DEF SyncInv, Types, Stored, flags, initView
  <2>6. ASSUME Known' = Learn(r, a), KnownPhase' = Phase(r, a.ok) PROVE Views'
    <3>1. Listed \in SUBSET Vid /\ KnownPhase' = oa.phase
      BY <2>6, <2>2 DEF Listed
    <3>2. ASSUME NEW k \in Key PROVE Known'[k] = IF k \in Listed THEN asic[k] ELSE oa.view[k]
      <4>1. k \in Listed => /\ k \in Vid /\ asic[k] # Absent
        BY DEF Listed
      <4>2. k \in Vid => IF oa.view[k] # Absent THEN asic[k] = oa.view[k]
                         ELSE asic[k] \in {Absent, Dflt}
        BY <1>1, <1>2, <1>4 DEF Views, OnAsic
      <4> QED BY <2>6, <2>3, <4>1, <4>2
    <3>3. ASSUME NEW k \in Key PROVE ASIC_STATE'[k] = ASIC_STATE[k]
      <4>1. k \in Listed => ASIC_STATE[k] # Absent
        BY <1>2 DEF Listed, Views, Mirror
      <4> QED BY <4>1, <2>4
    <3> QED BY <1>1, <1>2, <1>4, <1>5, <3>1, <3>2, <3>3, SnoopViews
  <2> QED BY <1>1, <1>6, <2>1, <2>3, <2>5, <2>6, AnswerSync
<1> QED BY <1>2, <1>7, <1>8, <1>9 DEF ProcessGet

-----------------------------------------------------------------------------
(* Handlers in init view mode.                                             *)

(* What has to be shown of them: the temporary view is again what OA       *)
(* knows, the switch included.                                             *)
LEMMA TempViews ==
  ASSUME SyncInv, Views, Known = oa.view, KnownPhase = oa.phase,
         m_asicInitViewMode, oa.phase \in {"building", "applied"},
         Mirror', Discovered', KnownPhase' = oa.phase, Known'[Switch] # Absent,
         \A v \in Vid : TEMP_ASIC_STATE'[v] = Known'[v],
         UNCHANGED flags
  PROVE  Views'
<1>1. Modes'
  BY DEF Views, Modes, flags
<1>2. SwitchFirst' /\ InTemp'
  BY DEF SwitchFirst, InTemp
<1>3. OnAsic'
  BY DEF OnAsic, flags
<1> QED BY <1>1, <1>2, <1>3 DEF Views

(* The handlers that only answer and write the temporary view.             *)
LEMMA SameAsic ==
  ASSUME Views, UNCHANGED <<asic, ASIC_STATE, discovered>>
  PROVE  Mirror' /\ Discovered'
  BY DEF Views, Mirror, Discovered

(* Requests of init view mode that only change the temporary view.         *)
LEMMA TempQuadSync ==
  ASSUME SyncInv, syncMode' = syncMode, NEW ops, Serve(ops), oa.req.op \in Quad,
         m_asicInitViewMode, oa.req.op = "remove" => oa.req.key # Switch,
         SendApiResponse(TRUE), UpdateTemp(oa.req),
         asic' \in View, ASIC_STATE' \in View, Mirror', Discovered',
         m_createdInInitView' \subseteq Vid, m_initViewRemovedVidSet' \subseteq Vid,
         UNCHANGED flags
  PROVE  SyncInv'
<1> DEFINE r == oa.req
           a == [op |-> "getresponse", ok |-> TRUE, vids |-> {}, val |-> Absent]
<1>1. Views /\ oa.pc = "wait" /\ Known = oa.view /\ KnownPhase = oa.phase
  BY Serving
<1>2. r \in Request /\ oa.view \in View /\ TEMP_ASIC_STATE \in View /\ syncMode = TRUE
  BY StateFacts DEF SyncInv, Types, Stored
<1>3. r.key \in Key /\ r.val \in Content
  BY <1>2, Requests
<1>4. /\ oa.phase \in {"building", "applied"}
      /\ r.op = "create" => /\ oa.view[r.key] = Absent /\ r.val # Absent
                            /\ r.key # Switch => oa.view[Switch] # Absent
      /\ r.op = "remove" => r.val = Absent /\ oa.view[r.key] # Absent
      /\ r.op = "set" => r.val \in Value /\ oa.view[r.key] # Absent
  BY <1>1, LegalFacts DEF Quad
<1>5. /\ resps' = Append(resps, a)
      /\ TEMP_ASIC_STATE' = Put(TEMP_ASIC_STATE, r.key, r.val)
  BY <1>2 DEF SendApiResponse, Answer, UpdateTemp, Write
<1>6. a.op = "getresponse" /\ a.ok = TRUE
  OBVIOUS
<1> HIDE DEF a
<1>7. a.op = Expected
  BY <1>6, ModeAssumption DEF Expected, Notify, Quad
<1>8. Learn(r, a) = [oa.view EXCEPT ![r.key] = r.val] /\ Phase(r, a.ok) = oa.phase
  BY <1>6 DEF Learn, Phase, Quad
<1>9. /\ Learn(r, a) \in View
      /\ \A k \in Key : Learn(r, a)[k] = IF k = r.key THEN r.val ELSE oa.view[k]
  BY <1>8, <1>2, <1>3 DEF View
<1>10. /\ TEMP_ASIC_STATE' \in View
       /\ \A k \in Key : TEMP_ASIC_STATE'[k] =
            IF k = r.key /\ ~(r.val = Dflt /\ TEMP_ASIC_STATE[k] # Absent) THEN r.val
            ELSE TEMP_ASIC_STATE[k]
  BY <1>5, <1>2, <1>3, PutFacts
<1>11. Stored'
  BY <1>10 DEF SyncInv, Types, Stored, flags
<1>12. ASSUME Known' = Learn(r, a), KnownPhase' = Phase(r, a.ok) PROVE Views'
  <2>1. Known'[Switch] # Absent
    <3>1. r.op # "create" => oa.view[Switch] # Absent
      BY <1>1, <1>3, <1>4, SwitchKnown DEF Quad
    <3> QED BY <3>1, <1>12, <1>9, <1>4, Constants DEF Quad
  <2>2. ASSUME NEW v \in Vid PROVE TEMP_ASIC_STATE'[v] = Known'[v]
    <3>1. TEMP_ASIC_STATE[v] = oa.view[v]
      BY <1>1, <1>4 DEF Views, InTemp, Modes
    <3>2. v = r.key /\ r.val = Dflt => oa.view[v] = Absent
      BY <1>4, Constants DEF Quad
    <3>3. v \in Key
      BY Constants
    <3> QED BY <3>1, <3>2, <3>3, <1>12, <1>9, <1>10
  <2> QED BY <1>1, <1>4, <1>8, <1>12, <2>1, <2>2, TempViews
<1> QED BY <1>5, <1>7, <1>9, <1>11, <1>12, AnswerSync

(* A create, set or remove in init view mode.                              *)
LEMMA InitViewQuadSync ==
  ASSUME SyncInv, syncMode' = syncMode, InitViewCreate \/ InitViewRemove \/ InitViewSet
  PROVE  SyncInv'
<1>1. CASE InitViewCreate
  <2> DEFINE r == Head(buffer)
  <2>1. /\ Serve({"create"}) /\ m_asicInitViewMode /\ r.key # Switch
        /\ UNCHANGED <<flags, m_initViewRemovedVidSet, discovered, asic, ASIC_STATE>>
    BY <1>1 DEF InitViewCreate
  <2>2. r = oa.req /\ oa.req.op = "create" /\ Views
    BY <2>1, Serving
  <2>3. r.key \in Vid
    BY <2>1, <2>2, StateFacts, Requests, Constants
  <2>4. Mirror' /\ Discovered'
    BY <2>1, <2>2, SameAsic
  <2>5. CASE r.key \in Port
    <3>1. Throw /\ UNCHANGED <<m_createdInInitView, TEMP_ASIC_STATE>>
      BY <1>1, <2>5 DEF InitViewCreate
    <3>2. Stored'
      BY <2>1, <3>1 DEF SyncInv, Types, Stored, flags
    <3> QED BY <2>1, <3>1, <3>2, ThrowSync
  <2>6. CASE r.key \notin Port
    <3>1. /\ m_createdInInitView' = m_createdInInitView \cup {r.key}
          /\ SendApiResponse(TRUE) /\ UpdateTemp(r)
      BY <1>1, <2>6 DEF InitViewCreate
    <3>2. /\ m_createdInInitView' \subseteq Vid /\ m_initViewRemovedVidSet' \subseteq Vid
          /\ asic' \in View /\ ASIC_STATE' \in View
      BY <2>1, <2>3, <3>1 DEF SyncInv, Types, Stored
    <3> QED BY <2>1, <2>2, <2>4, <3>1, <3>2, TempQuadSync DEF Quad
  <2> QED BY <2>5, <2>6
<1>2. CASE InitViewRemove
  <2> DEFINE r == Head(buffer)
  <2>1. /\ Serve({"remove"}) /\ m_asicInitViewMode
        /\ UNCHANGED <<flags, m_createdInInitView, discovered, asic, ASIC_STATE>>
    BY <1>2 DEF InitViewRemove
  <2>2. r = oa.req /\ oa.req.op = "remove" /\ Views
    BY <2>1, Serving
  <2>3. r.key \in Key
    BY <2>2, StateFacts, Requests
  <2>4. Mirror' /\ Discovered'
    BY <2>1, <2>2, SameAsic
  <2>5. CASE r.key \in Port \cup {Switch}
    <3>1. Throw /\ UNCHANGED <<m_initViewRemovedVidSet, TEMP_ASIC_STATE>>
      BY <1>2, <2>5 DEF InitViewRemove
    <3>2. Stored'
      BY <2>1, <3>1 DEF SyncInv, Types, Stored, flags
    <3> QED BY <2>1, <3>1, <3>2, ThrowSync
  <2>6. CASE r.key \notin Port \cup {Switch}
    <3>1. /\ m_initViewRemovedVidSet' = m_initViewRemovedVidSet \cup {r.key}
          /\ SendApiResponse(TRUE) /\ UpdateTemp(r)
      BY <1>2, <2>6 DEF InitViewRemove
    <3>2. /\ m_createdInInitView' \subseteq Vid /\ m_initViewRemovedVidSet' \subseteq Vid
          /\ asic' \in View /\ ASIC_STATE' \in View /\ r.key # Switch
      BY <2>1, <2>3, <2>6, <3>1, Constants DEF SyncInv, Types, Stored
    <3> QED BY <2>1, <2>2, <2>4, <3>1, <3>2, TempQuadSync DEF Quad
  <2> QED BY <2>5, <2>6
<1>3. CASE InitViewSet
  <2>1. /\ Serve({"set"}) /\ m_asicInitViewMode /\ SendApiResponse(TRUE) /\ UpdateTemp(Head(buffer))
        /\ UNCHANGED <<flags, initView, discovered, asic, ASIC_STATE>>
    BY <1>3 DEF InitViewSet
  <2>2. Head(buffer) = oa.req /\ oa.req.op = "set" /\ Views
    BY <2>1, Serving
  <2>3. Mirror' /\ Discovered'
    BY <2>1, <2>2, SameAsic
  <2>4. /\ m_createdInInitView' \subseteq Vid /\ m_initViewRemovedVidSet' \subseteq Vid
        /\ asic' \in View /\ ASIC_STATE' \in View
    BY <2>1 DEF SyncInv, Types, Stored, initView
  <2> QED BY <2>1, <2>2, <2>3, <2>4, TempQuadSync DEF Quad
<1> QED BY <1>1, <1>2, <1>3

(* A switch created in init view mode is created at once.                  *)
LEMMA InitViewCreateSwitchSync ==
  ASSUME SyncInv, syncMode' = syncMode, NEW ok \in BOOLEAN, InitViewCreateSwitch(ok)
  PROVE  SyncInv'
<1> DEFINE r == oa.req
<1>1. Serve({"create"}) /\ m_asicInitViewMode /\ UNCHANGED <<flags, initView>>
  BY DEF InitViewCreateSwitch
<1>2. Head(buffer) = r /\ r.op = "create" /\ Views /\ oa.pc = "wait"
  BY <1>1, Serving
<1>3. r.key = Switch
  BY <1>2 DEF InitViewCreateSwitch
<1>4. /\ asic \in View /\ ASIC_STATE \in View /\ TEMP_ASIC_STATE \in View
      /\ r.val \in Content /\ r.val # Absent
      /\ m_createdInInitView' \subseteq Vid /\ m_initViewRemovedVidSet' \subseteq Vid
  BY <1>1, <1>2, StateFacts, Requests, LegalFacts DEF SyncInv, Types, Stored, initView
<1>5. CASE SendApiResponse(TRUE) /\ UpdateTemp(r) /\ UNCHANGED <<asic, discovered, ASIC_STATE>>
  <2>1. Mirror' /\ Discovered'
    BY <1>2, <1>5, SameAsic
  <2> QED BY <1>1, <1>2, <1>4, <1>5, <2>1, TempQuadSync DEF Quad
<1>6. CASE /\ asic' = [PutAll(asic, Default) EXCEPT ![Switch] = r.val]
           /\ ASIC_STATE' = PutAll(ASIC_STATE, Default \cup {Switch})
           /\ discovered' = Default
           /\ SendApiResponse(TRUE) /\ UpdateTemp(r)
  <2>1. /\ PutAll(asic, Default) \in View
        /\ \A k \in Key : PutAll(asic, Default)[k] =
             IF k \in Default /\ asic[k] = Absent THEN Dflt ELSE asic[k]
    BY <1>4, PutAllFacts
  <2>2. /\ asic' \in View /\ asic'[Switch] # Absent
        /\ \A v \in Vid : asic'[v] = IF v \in Default /\ asic[v] = Absent THEN Dflt ELSE asic[v]
    BY <2>1, <1>4, <1>6, Constants DEF View
  <2>3. /\ ASIC_STATE' \in View
        /\ \A k \in Key : ASIC_STATE'[k] =
             IF k \in Default \cup {Switch} /\ ASIC_STATE[k] = Absent THEN Dflt ELSE ASIC_STATE[k]
    BY <1>4, <1>6, PutAllFacts
  <2>4. Mirror'
    BY <1>2, <2>2, <2>3, Constants DEF Views, Mirror
  <2>5. Discovered'
    BY <1>6, <2>2, Constants DEF Discovered
  <2> QED BY <1>1, <1>2, <1>4, <1>6, <2>2, <2>3, <2>4, <2>5, TempQuadSync DEF Quad
<1>7. CASE Throw /\ UNCHANGED <<asic, discovered, tables>>
  <2>1. Stored'
    BY <1>1, <1>7 DEF SyncInv, Types, Stored, flags, initView, tables
  <2> QED BY <1>1, <1>7, <2>1, ThrowSync
<1> QED BY <1>2, <1>5, <1>6, <1>7 DEF InitViewCreateSwitch

(* A bulk in init view mode.                                               *)
LEMMA InitViewBulkSync ==
  ASSUME SyncInv, syncMode' = syncMode, InitViewBulk
  PROVE  SyncInv'
<1> DEFINE r == oa.req
           a == [op |-> "getresponse", ok |-> TRUE, vids |-> r.keys, val |-> Absent]
<1>1. /\ Serve(BulkQuad) /\ m_asicInitViewMode
      /\ UNCHANGED <<flags, m_initViewRemovedVidSet, discovered, asic, ASIC_STATE>>
  BY DEF InitViewBulk
<1>2. /\ Head(buffer) = r /\ r.op \in BulkQuad /\ Views /\ oa.pc = "wait"
      /\ Known = oa.view /\ KnownPhase = oa.phase
  BY <1>1, Serving
<1>3. oa.view \in View /\ TEMP_ASIC_STATE \in View /\ syncMode = TRUE
  BY StateFacts DEF SyncInv, Types, Stored
<1>4. /\ r.keys \subseteq Vid /\ r.val \in Content
      /\ oa.phase \in {"building", "applied"} /\ oa.view[Switch] # Absent
      /\ r.op \notin Quad \cup Notify /\ r.op \notin {"init", "apply"}
      /\ r.op \in {"bulkcreate", "bulkremove", "bulkset"}
      /\ r.op = "bulkcreate" => r.val # Absent /\ \A k \in r.keys : oa.view[k] = Absent
      /\ r.op = "bulkremove" => r.val = Absent
      /\ r.op = "bulkset" => r.val # Absent /\ r.val # Dflt
  BY <1>2, BulkFacts DEF BulkQuad
<1>5. CASE Throw /\ UNCHANGED <<m_createdInInitView, TEMP_ASIC_STATE>>
  <2>1. Stored'
    BY <1>1, <1>5 DEF SyncInv, Types, Stored, flags
  <2> QED BY <1>1, <1>5, <2>1, ThrowSync
<1>6. CASE /\ SendBulkApiResponse(r.keys) /\ UpdateTemp(r)
           /\ m_createdInInitView' = IF r.op = "bulkset" THEN m_createdInInitView
                                     ELSE m_createdInInitView \cup r.keys
  <2>1. /\ resps' = Append(resps, a)
        /\ TEMP_ASIC_STATE' = PutBulk(TEMP_ASIC_STATE, r.keys, r.val)
    BY <1>2, <1>3, <1>4, <1>6 DEF SendBulkApiResponse, Answer, UpdateTemp, Write
  <2>2. a.op = "getresponse" /\ a.ok = TRUE /\ a.vids = r.keys
    OBVIOUS
  <2> HIDE DEF a
  <2>3. a.op = Expected
    BY <2>2, <1>4 DEF Expected
  <2>4. /\ Learn(r, a) = [k \in Key |-> IF k \in r.keys THEN r.val ELSE oa.view[k]]
        /\ Phase(r, a.ok) = oa.phase
    BY <2>2, <1>2, <1>4 DEF Learn, LearnBulk, Phase
  <2>5. Learn(r, a) \in View
    BY <2>4, <1>3, <1>4 DEF View
  <2>6. /\ TEMP_ASIC_STATE' \in View
        /\ \A k \in Key : TEMP_ASIC_STATE'[k] =
             IF k \in r.keys /\ ~(r.val = Dflt /\ TEMP_ASIC_STATE[k] # Absent) THEN r.val
             ELSE TEMP_ASIC_STATE[k]
    BY <2>1, <1>3, <1>4, PutBulkFacts
  <2>7. Stored'
    BY <1>1, <1>4, <1>6, <2>6 DEF SyncInv, Types, Stored, flags
  <2>8. ASSUME Known' = Learn(r, a), KnownPhase' = Phase(r, a.ok) PROVE Views'
    <3>1. Known'[Switch] # Absent /\ KnownPhase' = oa.phase
      BY <2>8, <2>4, <1>4, Constants
    <3>2. ASSUME NEW v \in Vid PROVE TEMP_ASIC_STATE'[v] = Known'[v]
      <4>1. TEMP_ASIC_STATE[v] = oa.view[v]
        BY <1>1, <1>2, <1>4 DEF Views, InTemp, Modes
      <4>2. v \in r.keys /\ r.val = Dflt => oa.view[v] = Absent
        BY <1>4, Constants
      <4>3. v \in Key
        BY Constants
      <4> QED BY <4>1, <4>2, <4>3, <2>8, <2>4, <2>6
    <3>3. Mirror' /\ Discovered'
      BY <1>1, <1>2, SameAsic
    <3> QED BY <1>1, <1>2, <1>4, <3>1, <3>2, <3>3, TempViews
  <2> QED BY <1>1, <2>1, <2>3, <2>5, <2>7, <2>8, AnswerSync
<1> QED BY <1>2, <1>5, <1>6 DEF InitViewBulk

(* A bulk get of what was created in init view mode is refused.           *)
LEMMA BulkGetRefusedSync ==
  ASSUME SyncInv, syncMode' = syncMode, InitViewBulkGetRefused
  PROVE  SyncInv'
<1> DEFINE a == [op |-> "getresponse", ok |-> FALSE, vids |-> {}, val |-> Absent]
<1>1. /\ Serve({"bulkget"}) /\ resps' = Append(resps, a)
      /\ UNCHANGED <<flags, initView, discovered, asic, tables>>
  BY DEF InitViewBulkGetRefused, Answer
<1>2. oa.req.op = "bulkget"
  BY <1>1, Serving
<1>3. a.op = "getresponse" /\ a.ok = FALSE
  OBVIOUS
<1>4. a.op = Expected
  BY <1>2, <1>3, ModeAssumption DEF Expected, Notify
<1> HIDE DEF a
<1> QED BY <1>1, <1>2, <1>3, <1>4, RefusedSync

(* A bulk get in normal mode.                                              *)
LEMMA BulkGetSync ==
  ASSUME SyncInv, syncMode' = syncMode, NEW done \in SUBSET Vid, ProcessBulkGet(done)
  PROVE  SyncInv'
<1> DEFINE r == oa.req
           a == [op |-> "getresponse", ok |-> TRUE, vids |-> done, val |-> asic]
<1>1. Serve({"bulkget"}) /\ UNCHANGED <<flags, initView, discovered, asic>>
  BY DEF ProcessBulkGet
<1>2. /\ Head(buffer) = r /\ r.op = "bulkget" /\ Views /\ oa.pc = "wait"
      /\ Known = oa.view /\ KnownPhase = oa.phase
  BY <1>1, Serving
<1>3. /\ oa.view \in View /\ TEMP_ASIC_STATE \in View /\ ASIC_STATE \in View /\ asic \in View
      /\ r \in Request
  BY StateFacts
<1>4. oa.phase \in {"building", "applied"} /\ oa.view[Switch] # Absent
  <2>1. r.op \in Bulk
    <3>1. r.op \in Quad \cup Get \cup Notify \cup Bulk
      BY <1>3, Requests
    <3> QED BY <3>1, <1>2, ModeAssumption DEF Quad, Get, Notify
  <2> QED BY <2>1, <1>2, BulkFacts
<1>5. CASE Throw /\ UNCHANGED tables
  <2>1. Stored'
    BY <1>1, <1>5 DEF SyncInv, Types, Stored, flags, initView, tables
  <2> QED BY <1>1, <1>5, <2>1, ThrowSync
<1>6. CASE /\ Answer("getresponse", TRUE, done, asic)
           /\ ASIC_STATE' = IF m_asicInitViewMode THEN ASIC_STATE ELSE SnoopAll(ASIC_STATE, done)
           /\ TEMP_ASIC_STATE' = IF m_asicInitViewMode THEN SnoopAll(TEMP_ASIC_STATE, done)
                                 ELSE TEMP_ASIC_STATE
  <2>1. /\ resps' = Append(resps, a) /\ a.op = "getresponse" /\ a.ok = TRUE
        /\ a.vids = done /\ a.val = asic
    BY <1>6 DEF Answer
  <2> HIDE DEF a
  <2>2. a.op = Expected
    BY <2>1, <1>2, ModeAssumption DEF Expected, Notify
  <2>3. /\ Learn(r, a) = [k \in Key |-> IF k \in done THEN asic[k] ELSE oa.view[k]]
        /\ Phase(r, a.ok) = oa.phase
    BY <2>1, <1>2 DEF Learn, LearnBulkGet, Phase, Quad, BulkQuad
  <2>4. Learn(r, a) \in View
    BY <2>3, <1>3 DEF View
  <2>5. \A view \in View :
          /\ SnoopAll(view, done) \in View
          /\ \A k \in Key : SnoopAll(view, done)[k] = IF k \in done THEN asic[k] ELSE view[k]
    BY <1>3 DEF SnoopAll, View
  <2>6. Stored'
    BY <1>1, <1>3, <1>6, <2>5 DEF SyncInv, Types, Stored, flags, initView
  <2>7. ASSUME Known' = Learn(r, a), KnownPhase' = Phase(r, a.ok) PROVE Views'
    <3>1. /\ \A k \in Key : Known'[k] = IF k \in done THEN asic[k] ELSE oa.view[k]
          /\ KnownPhase' = oa.phase
      BY <2>7, <2>3
    <3>2. CASE m_asicInitViewMode
      <4>1. Known'[Switch] # Absent
        BY <3>1, <1>4, Constants
      <4>2. ASSUME NEW v \in Vid PROVE TEMP_ASIC_STATE'[v] = Known'[v]
        <5>1. TEMP_ASIC_STATE[v] = oa.view[v] /\ v \in Key
          BY <1>2, <1>4, <3>2, Constants DEF Views, InTemp, Modes
        <5>2. TEMP_ASIC_STATE'[v] = IF v \in done THEN asic[v] ELSE TEMP_ASIC_STATE[v]
          BY <5>1, <1>3, <1>6, <2>5, <3>2
        <5> QED BY <5>1, <5>2, <3>1
      <4>3. Mirror' /\ Discovered'
        BY <1>1, <1>2, <1>6, <3>2, SameAsic
      <4> QED BY <1>1, <1>2, <1>4, <3>1, <3>2, <4>1, <4>2, <4>3, TempViews
    <3>3. CASE ~m_asicInitViewMode
      <4>1. \A k \in Key : \/ ASIC_STATE'[k] = ASIC_STATE[k]
                           \/ k \in done /\ ASIC_STATE'[k] = asic[k]
        BY <1>3, <1>6, <2>5, <3>3
      <4> QED BY <1>1, <1>2, <1>4, <3>1, <3>3, <4>1, SnoopViews
    <3> QED BY <3>2, <3>3
  <2> QED BY <1>1, <2>1, <2>2, <2>4, <2>6, <2>7, AnswerSync
<1> QED BY <1>2, <1>5, <1>6 DEF ProcessBulkGet

(* A get in init view mode is snooped into the temporary view.             *)
LEMMA InitViewGetSync ==
  ASSUME SyncInv, syncMode' = syncMode, InitViewGet
  PROVE  SyncInv'
<1> DEFINE r == oa.req
<1>1. /\ Serve(Get) /\ m_asicInitViewMode
      /\ UNCHANGED <<flags, initView, discovered, asic, ASIC_STATE>>
  BY DEF InitViewGet
<1>2. /\ Head(buffer) = r /\ r.op \in Get /\ Views /\ oa.pc = "wait"
      /\ Known = oa.view /\ KnownPhase = oa.phase
  BY <1>1, Serving
<1>3. r \in Request /\ oa.view \in View /\ asic \in View /\ TEMP_ASIC_STATE \in View
  BY StateFacts
<1>4. /\ r.key \in Key /\ oa.phase \in {"building", "applied"} /\ oa.view[r.key] # Absent
      /\ r.op = "get" => r.key \in Vid
  <2>1. r.key \in Key
    BY <1>3, Requests
  <2> QED BY <2>1, <1>2, LegalFacts, Constants DEF Get
<1>5. oa.view[Switch] # Absent
  BY <1>2, <1>4, SwitchKnown
<1>6. \A a : a.op = "getresponse" => a.op = Expected
  BY <1>2, ModeAssumption DEF Expected, Notify, Get
<1>7. Mirror' /\ Discovered' /\ \A v \in Vid : v \in Key /\ TEMP_ASIC_STATE[v] = oa.view[v]
  BY <1>1, <1>2, <1>4, SameAsic, Constants DEF Views, InTemp, Modes
<1>8. CASE Throw /\ UNCHANGED TEMP_ASIC_STATE
  <2>1. Stored'
    BY <1>1, <1>8 DEF SyncInv, Types, Stored, flags, initView
  <2> QED BY <2>1, <1>1, <1>8, ThrowSync
<1>9. CASE Answer("getresponse", FALSE, {}, Absent) /\ UNCHANGED TEMP_ASIC_STATE
  <2> DEFINE a == [op |-> "getresponse", ok |-> FALSE, vids |-> {}, val |-> Absent]
  <2>1. resps' = Append(resps, a) /\ a.op = "getresponse" /\ a.ok = FALSE
    BY <1>9 DEF Answer
  <2>2. r.op \notin {"init", "apply"}
    BY <1>2 DEF Get
  <2> HIDE DEF a
  <2> QED BY <1>1, <1>6, <1>9, <2>1, <2>2, RefusedSync DEF tables
<1>10. CASE /\ r.op = "get"
            /\ Answer("getresponse", TRUE, {r.key}, asic[r.key])
            /\ TEMP_ASIC_STATE' = [TEMP_ASIC_STATE EXCEPT ![r.key] = asic[r.key]]
  <2> DEFINE a == [op |-> "getresponse", ok |-> TRUE, vids |-> {r.key}, val |-> asic[r.key]]
  <2>1. resps' = Append(resps, a) /\ a.op = "getresponse" /\ a.ok = TRUE /\ a.val = asic[r.key]
    BY <1>10 DEF Answer
  <2> HIDE DEF a
  <2>2. Learn(r, a) = [oa.view EXCEPT ![r.key] = asic[r.key]] /\ Phase(r, a.ok) = oa.phase
    BY <2>1, <1>10, BulkAssumption DEF Learn, Phase, Quad, BulkQuad
  <2>3. /\ TEMP_ASIC_STATE' \in View /\ Learn(r, a) \in View
        /\ \A k \in Key : Learn(r, a)[k] = IF k = r.key THEN asic[k] ELSE oa.view[k]
        /\ \A k \in Key : TEMP_ASIC_STATE'[k] = IF k = r.key THEN asic[k] ELSE TEMP_ASIC_STATE[k]
    BY <2>2, <1>3, <1>4, <1>10 DEF View
  <2>4. Stored'
    BY <1>1, <2>3 DEF SyncInv, Types, Stored, flags, initView
  <2>5. ASSUME Known' = Learn(r, a), KnownPhase' = Phase(r, a.ok) PROVE Views'
    <3>1. Known'[Switch] # Absent /\ KnownPhase' = oa.phase
      BY <2>5, <2>2, <2>3, <1>4, <1>5, <1>10, Constants
    <3>2. \A v \in Vid : TEMP_ASIC_STATE'[v] = Known'[v]
      BY <2>5, <2>3, <1>7
    <3> QED BY <1>1, <1>2, <1>4, <1>7, <3>1, <3>2, TempViews
  <2> QED BY <1>1, <1>6, <2>1, <2>3, <2>4, <2>5, AnswerSync
<1>11. CASE /\ r.op = "list"
            /\ Answer("getresponse", TRUE, Listed, Dflt)
            /\ TEMP_ASIC_STATE' = PutAll(TEMP_ASIC_STATE, Listed)
  <2> DEFINE a == [op |-> "getresponse", ok |-> TRUE, vids |-> Listed, val |-> Dflt]
  <2>1. resps' = Append(resps, a) /\ a.op = "getresponse" /\ a.ok = TRUE /\ a.vids = Listed
    BY <1>11 DEF Answer
  <2> HIDE DEF a
  <2>2. Learn(r, a) = PutAll(oa.view, Listed) /\ Phase(r, a.ok) = oa.phase
    BY <2>1, <1>11, BulkAssumption DEF Learn, Phase, Quad, BulkQuad
  <2>3. /\ Learn(r, a) \in View
        /\ \A k \in Key : Learn(r, a)[k] = IF k \in Listed /\ oa.view[k] = Absent THEN Dflt ELSE oa.view[k]
    BY <2>2, <1>3, PutAllFacts
  <2>4. /\ TEMP_ASIC_STATE' \in View
        /\ \A k \in Key : TEMP_ASIC_STATE'[k] =
             IF k \in Listed /\ TEMP_ASIC_STATE[k] = Absent THEN Dflt ELSE TEMP_ASIC_STATE[k]
    BY <1>3, <1>11, PutAllFacts
  <2>5. Stored'
    BY <1>1, <2>4 DEF SyncInv, Types, Stored, flags, initView
  <2>6. ASSUME Known' = Learn(r, a), KnownPhase' = Phase(r, a.ok) PROVE Views'
    <3>1. Known'[Switch] # Absent /\ KnownPhase' = oa.phase
      BY <2>6, <2>2, <2>3, <1>5, Constants
    <3>2. \A v \in Vid : TEMP_ASIC_STATE'[v] = Known'[v]
      BY <2>6, <2>3, <2>4, <1>7
    <3> QED BY <1>1, <1>2, <1>4, <1>7, <3>1, <3>2, TempViews
  <2> QED BY <1>1, <1>6, <2>1, <2>3, <2>5, <2>6, AnswerSync
<1> QED BY <1>2, <1>8, <1>9, <1>10, <1>11 DEF InitViewGet

-----------------------------------------------------------------------------
(* INIT_VIEW, APPLY_VIEW and INVOKE_DUMP.                                  *)

(* INIT_VIEW starts an empty temporary view.                               *)
LEMMA InitViewCmdSync ==
  ASSUME SyncInv, syncMode' = syncMode, FirstInitView \/ InitViewCmd
  PROVE  SyncInv'
<1> DEFINE r == oa.req
           a == [op |-> "notify", ok |-> TRUE, vids |-> {}, val |-> Absent]
<1>1. /\ Serve({"init"}) /\ resps' = Append(resps, a)
      /\ TEMP_ASIC_STATE' = Empty /\ m_initViewRemovedVidSet' = {}
      /\ UNCHANGED <<discovered, asic, ASIC_STATE>>
  BY DEF FirstInitView, InitViewCmd, ClearTempView, SendNotifyResponse, Answer
<1>2. r.op = "init" /\ Views
  BY <1>1, Serving
<1>3. a.op = "notify" /\ a.ok = TRUE
  OBVIOUS
<1> HIDE DEF a
<1>4. a.op = Expected
  BY <1>2, <1>3 DEF Expected, Notify
<1>5. Learn(r, a) = Empty /\ Phase(r, a.ok) = "building"
  BY <1>2, <1>3, BulkAssumption DEF Learn, Phase, Quad, BulkQuad
<1>6. Stored'
  BY <1>1, Constants DEF FirstInitView, InitViewCmd, SyncInv, Types, Stored
<1>7. ASSUME Known' = Learn(r, a), KnownPhase' = Phase(r, a.ok) PROVE Views'
  <2>1. /\ KnownPhase' = "building" /\ Known' = Empty
        /\ \A v \in Vid : v \in Key /\ Empty[v] = Absent
    BY <1>5, <1>7, Constants
  <2>2. Mirror' /\ Discovered'
    BY <1>1, <1>2, SameAsic
  <2>3. Modes' /\ OnAsic'
    <3>1. CASE FirstInitView
      <4>1. /\ m_veryFirstRun' = TRUE /\ m_asicInitViewMode' = FALSE
            /\ m_firstInitWasPerformed' = TRUE /\ asic = Empty
        BY <3>1, <1>2 DEF FirstInitView, Views, Modes, SyncInv, Types, Stored
      <4> QED BY <4>1, <2>1, <1>1 DEF Modes, OnAsic
    <3>2. CASE InitViewCmd
      <4>1. /\ m_veryFirstRun' = FALSE /\ m_asicInitViewMode' = TRUE
            /\ m_firstInitWasPerformed' = m_firstInitWasPerformed
            /\ m_firstInitWasPerformed = TRUE
        BY <3>2, <1>2 DEF InitViewCmd, Views, Modes, SyncInv, Types, Stored
      <4> QED BY <4>1, <2>1 DEF Modes, OnAsic
    <3> QED BY <3>1, <3>2
  <2>4. SwitchFirst' /\ InTemp'
    BY <1>1, <2>1 DEF SwitchFirst, InTemp
  <2> QED BY <2>2, <2>3, <2>4 DEF Views
<1> QED BY <1>1, <1>4, <1>5, <1>6, <1>7, AnswerSync, Constants

(* What every APPLY_VIEW starts from.                                      *)
LEMMA ApplyFacts ==
  ASSUME SyncInv, Serve({"apply"})
  PROVE  /\ oa.req.op = "apply" /\ oa.phase = "building" /\ Views /\ status = "run"
         /\ Known = oa.view /\ KnownPhase = oa.phase /\ oa.view \in View
         /\ m_firstInitWasPerformed
         /\ Expected = "notify"
         /\ \A a : /\ Learn(oa.req, a) = oa.view
                   /\ a.ok = TRUE => Phase(oa.req, a.ok) = "applied"
                   /\ a.ok = FALSE => Phase(oa.req, a.ok) = "failed"
<1>1. /\ oa.req.op = "apply" /\ Views /\ oa.pc = "wait" /\ status = "run"
      /\ Known = oa.view /\ KnownPhase = oa.phase
  BY Serving
<1>2. oa.phase = "building"
  BY <1>1, LegalFacts
<1>3. Expected = "notify" /\ oa.view \in View
  BY <1>1, StateFacts DEF Expected, Notify
<1>4. m_firstInitWasPerformed
  BY <1>1, <1>2 DEF Views, Modes
<1>5. ASSUME NEW a
      PROVE  /\ Learn(oa.req, a) = oa.view
             /\ a.ok = TRUE => Phase(oa.req, a.ok) = "applied"
             /\ a.ok = FALSE => Phase(oa.req, a.ok) = "failed"
  BY <1>1, BulkAssumption DEF Learn, Phase, Quad, BulkQuad
<1> QED BY <1>1, <1>2, <1>3, <1>4, <1>5

(* The first APPLY_VIEW of a first run only ends that run.                 *)
LEMMA FirstApplySync ==
  ASSUME SyncInv, syncMode' = syncMode, NEW ok \in BOOLEAN, FirstApplyView(ok)
  PROVE  SyncInv'
<1> DEFINE a == [op |-> "notify", ok |-> ok, vids |-> {}, val |-> Absent]
<1>1. /\ Serve({"apply"}) /\ resps' = Append(resps, a) /\ m_veryFirstRun
      /\ m_veryFirstRun' = FALSE /\ m_asicInitViewMode' = FALSE
      /\ UNCHANGED <<m_firstInitWasPerformed, initView, discovered, asic, tables>>
  BY DEF FirstApplyView, SendNotifyResponse, Answer
<1>2. a.op = "notify" /\ a.ok = ok
  OBVIOUS
<1> HIDE DEF a
<1>3. /\ oa.phase = "building" /\ Views /\ Known = oa.view /\ KnownPhase = oa.phase
      /\ oa.view \in View /\ m_firstInitWasPerformed /\ a.op = Expected
      /\ Learn(oa.req, a) = oa.view /\ Phase(oa.req, a.ok) \in {"applied", "failed"}
  BY <1>1, <1>2, ApplyFacts
<1>4. Stored'
  BY <1>1 DEF SyncInv, Types, Stored, initView, tables
<1>5. ASSUME Known' = Learn(oa.req, a), KnownPhase' = Phase(oa.req, a.ok) PROVE Views'
  <2>1. Mirror' /\ Discovered'
    BY <1>1, <1>3, SameAsic DEF tables
  <2>2. Modes' /\ InTemp'
    BY <1>1, <1>3, <1>5 DEF Modes, InTemp
  <2>3. SwitchFirst'
    BY <1>1, <1>3, <1>5 DEF Views, SwitchFirst, initView
  <2>4. OnAsic'
    BY <1>1, <1>3, <1>5 DEF Views, Modes, OnAsic, initView
  <2> QED BY <2>1, <2>2, <2>3, <2>4 DEF Views
<1> QED BY <1>1, <1>3, <1>4, <1>5, AnswerSync

(* An APPLY_VIEW that does not reach the new view.                         *)
LEMMA ApplyNotSync ==
  ASSUME SyncInv, syncMode' = syncMode,
         ApplyRefused \/ ApplyFails \/ \E done \in SUBSET Key : ApplyBreaks(done)
  PROVE  SyncInv'
<1> DEFINE a == [op |-> "notify", ok |-> FALSE, vids |-> {}, val |-> Absent]
<1>1. /\ Serve({"apply"}) /\ resps' = Append(resps, a)
      /\ m_asicInitViewMode' = FALSE
      /\ UNCHANGED <<m_veryFirstRun, m_firstInitWasPerformed, initView, tables>>
  BY DEF ApplyRefused, ApplyFails, ApplyBreaks, ApplyStarts, SendNotifyResponse, Answer
<1>2. a.op = "notify" /\ a.ok = FALSE
  OBVIOUS
<1> HIDE DEF a
<1>3. /\ Views /\ oa.view \in View /\ m_firstInitWasPerformed /\ a.op = Expected
      /\ Learn(oa.req, a) = oa.view /\ Phase(oa.req, a.ok) = "failed"
  BY <1>1, <1>2, ApplyFacts
<1>4. asic \in View /\ ASIC_STATE \in View /\ TEMP_ASIC_STATE \in View
  BY StateFacts
<1>5. asic' \in View
  <2>1. CASE ApplyRefused \/ ApplyFails
    BY <2>1, <1>4 DEF ApplyRefused, ApplyFails
  <2>2. CASE \E done \in SUBSET Key : ApplyBreaks(done)
    <3>1. \A k \in Key : ComparedView[k] \in Content
      BY <1>4, Constants DEF ComparedView, View
    <3>2. \A done : Executed(done) \in View
      BY <3>1, <1>4 DEF Executed, View
    <3> QED BY <2>2, <3>2 DEF ApplyBreaks
  <2> QED BY <2>1, <2>2
<1>6. Stored'
  BY <1>1, <1>5 DEF SyncInv, Types, Stored, initView, tables
<1>7. ASSUME status' = "run", Known' = Learn(oa.req, a), KnownPhase' = Phase(oa.req, a.ok)
      PROVE  Views'
  <2>1. UNCHANGED <<discovered, asic>>
    BY <1>7 DEF ApplyRefused, ApplyFails, ApplyBreaks
  <2>2. Mirror' /\ Discovered'
    BY <1>1, <1>3, <2>1, SameAsic DEF tables
  <2>3. Modes' /\ InTemp' /\ SwitchFirst' /\ OnAsic'
    BY <1>1, <1>3, <1>7 DEF Modes, InTemp, SwitchFirst, OnAsic
  <2> QED BY <2>2, <2>3 DEF Views
<1> QED BY <1>1, <1>3, <1>6, <1>7, AnswerSync

(* The new view is on the ASIC and in the table.                           *)
LEMMA ApplyViewSync ==
  ASSUME SyncInv, syncMode' = syncMode, ApplyView
  PROVE  SyncInv'
<1> DEFINE a == [op |-> "notify", ok |-> TRUE, vids |-> {}, val |-> Absent]
<1>1. /\ Serve({"apply"}) /\ resps' = Append(resps, a) /\ ~m_veryFirstRun
      /\ m_asicInitViewMode' = FALSE
      /\ asic' = Executed(Key) /\ ASIC_STATE' = ComparedView /\ TEMP_ASIC_STATE' = Empty
      /\ discovered' = {k \in discovered : ComparedView[k] # Absent}
      /\ m_createdInInitView' = {}
      /\ UNCHANGED <<m_veryFirstRun, m_firstInitWasPerformed, m_initViewRemovedVidSet, status>>
  BY DEF ApplyView, ApplyStarts, SendNotifyResponse, Answer
<1>2. a.op = "notify" /\ a.ok = TRUE
  OBVIOUS
<1> HIDE DEF a
<1>3. /\ oa.phase = "building" /\ Views /\ Known = oa.view /\ KnownPhase = oa.phase
      /\ oa.view \in View /\ m_firstInitWasPerformed /\ a.op = Expected
      /\ Learn(oa.req, a) = oa.view /\ Phase(oa.req, a.ok) = "applied"
  BY <1>1, <1>2, ApplyFacts
<1>4. asic \in View /\ ASIC_STATE \in View /\ TEMP_ASIC_STATE \in View
  BY StateFacts
<1>5. /\ ComparedView \in View
      /\ \A k \in Key : ComparedView[k] =
           IF TEMP_ASIC_STATE[k] # Absent THEN TEMP_ASIC_STATE[k]
           ELSE IF k \in discovered \ m_initViewRemovedVidSet THEN Dflt ELSE Absent
  BY <1>4, Constants DEF ComparedView, View
<1>6. /\ asic' \in View
      /\ \A k \in Key : asic'[k] = IF ASIC_STATE[k] # ComparedView[k] THEN ComparedView[k] ELSE asic[k]
  BY <1>1, <1>4, <1>5 DEF Executed, View
<1>7. Stored'
  BY <1>1, <1>5, <1>6, Constants DEF SyncInv, Types, Stored
<1>8. ASSUME Known' = Learn(oa.req, a), KnownPhase' = Phase(oa.req, a.ok) PROVE Views'
  <2>1. \A v \in Vid : /\ v \in Key /\ asic'[v] = ComparedView[v]
                       /\ TEMP_ASIC_STATE[v] = oa.view[v]
    BY <1>1, <1>3, <1>6, Constants DEF Views, Mirror, Modes, InTemp
  <2>2. Mirror'
    <3>1. ASIC_STATE'[Switch] = Absent <=> asic'[Switch] = Absent
      BY <1>1, <1>3, <1>6, Constants DEF Views, Mirror
    <3> QED BY <3>1, <1>1, <2>1 DEF Mirror
  <2>3. Discovered'
    BY <1>1, <1>3, <2>1, Constants DEF Views, Discovered
  <2>4. Modes' /\ InTemp'
    BY <1>1, <1>3, <1>8 DEF Modes, InTemp
  <2>5. SwitchFirst'
    BY <1>1, <1>3, <1>8 DEF Views, SwitchFirst
  <2>6. OnAsic'
    <3> SUFFICES ASSUME NEW v \in Vid
                 PROVE  IF oa.view[v] # Absent THEN asic'[v] = oa.view[v]
                        ELSE asic'[v] \in (IF v \in Default \ m_initViewRemovedVidSet
                                           THEN {Absent, Dflt} ELSE {Absent})
      BY <1>1, <1>3, <1>8 DEF OnAsic
    <3>1. v \in discovered => v \in Default
      BY <1>3 DEF Views, Discovered
    <3> QED BY <3>1, <1>5, <2>1
  <2> QED BY <2>2, <2>3, <2>4, <2>5, <2>6 DEF Views
<1> QED BY <1>1, <1>3, <1>7, <1>8, AnswerSync

(* INVOKE_DUMP only answers.                                               *)
LEMMA DumpSync ==
  ASSUME SyncInv, syncMode' = syncMode, NEW ok \in BOOLEAN, InvokeDump(ok)
  PROVE  SyncInv'
<1> DEFINE a == [op |-> "notify", ok |-> ok, vids |-> {}, val |-> Absent]
<1>1. /\ Serve({"dump"}) /\ resps' = Append(resps, a)
      /\ UNCHANGED <<flags, initView, discovered, asic, tables>>
  BY DEF InvokeDump, SendNotifyResponse, Answer
<1>2. a.op = "notify"
  OBVIOUS
<1> HIDE DEF a
<1>3. /\ oa.req.op = "dump" /\ Views /\ Known = oa.view /\ KnownPhase = oa.phase
  BY <1>1, Serving
<1>4. /\ Learn(oa.req, a) = oa.view /\ Phase(oa.req, a.ok) = oa.phase
  BY <1>3, BulkAssumption DEF Learn, Phase, Quad, BulkQuad
<1>5. a.op = Expected /\ oa.view \in View
  <2>1. oa.req.op \in Quad \cup Get \cup Notify \cup Bulk
    BY StateFacts, Requests
  <2> QED BY <2>1, <1>2, <1>3, StateFacts, BulkAssumption DEF Expected, Quad, Get
<1>6. Stored'
  BY <1>1 DEF SyncInv, Types, Stored, flags, initView, tables
<1>7. ASSUME Known' = Learn(oa.req, a), KnownPhase' = Phase(oa.req, a.ok) PROVE Views'
  BY <1>1, <1>3, <1>4, <1>7, SameViews DEF initView
<1> QED BY <1>1, <1>4, <1>5, <1>6, <1>7, AnswerSync

-----------------------------------------------------------------------------
(* The theorems.                                                           *)

(* Every step keeps the invariant.                                         *)
LEMMA NextSync == ASSUME OneAtATime, SyncInv, [Next]_vars PROVE SyncInv'
<1>1. CASE \E r \in Request : OaSends(r)
  BY <1>1, OaSendsSync
<1>2. CASE OaReceives \/ OaTimesOut \/ OaRestarts
  BY <1>2, OaReceivesSync, OaTimesOutSync, OaRestartsSync
<1>3. CASE Syncd
  <2> syncMode' = syncMode
    BY <1>3 DEF Syncd
  <2>1. CASE PopRunning \/ PopInShutdownWaitMode \/ RefuseInShutdownWaitMode
    BY <2>1, PopSync, RefuseSync
  <2>2. CASE ProcessQuad
    BY <2>2, CreateSync, SetSync, RemoveSync, InitViewCreateSwitchSync DEF ProcessQuad
  <2>3. CASE ProcessQuadInInitViewMode
    BY <2>3, InitViewQuadSync DEF ProcessQuadInInitViewMode
  <2>4. CASE ProcessBulkQuad
    BY <2>4, InitViewBulkSync, BulkGetRefusedSync, BulkOidSync, BulkGetSync DEF ProcessBulkQuad
  <2>5. CASE ProcessGet \/ InitViewGet
    BY <2>5, GetSync, InitViewGetSync
  <2>6. CASE ProcessNotifySyncd
    <3>1. CASE FirstInitView \/ InitViewCmd
      BY <3>1, InitViewCmdSync
    <3>2. CASE \E ok \in BOOLEAN : FirstApplyView(ok) \/ InvokeDump(ok)
      BY <3>2, FirstApplySync, DumpSync
    <3>3. CASE ApplyRefused \/ ApplyFails \/ \E done \in SUBSET Key : ApplyBreaks(done)
      BY <3>3, ApplyNotSync
    <3>4. CASE ApplyView
      BY <3>4, ApplyViewSync
    <3>5. ~InspectAsic
      <4>1. oa.req.op \in Quad \cup Get \cup Notify \cup Bulk
        BY StateFacts, Requests
      <4>2. Serve({"inspect"}) => oa.req.op = "inspect"
        BY Serving
      <4> QED BY <4>1, <4>2, BulkAssumption DEF InspectAsic, OneAtATime, Quad, Get, Notify
    <3> QED BY <2>6, <3>1, <3>2, <3>3, <3>4, <3>5 DEF ProcessNotifySyncd
  <2> QED BY <1>3, <2>1, <2>2, <2>3, <2>4, <2>5, <2>6 DEF Syncd
<1>4. CASE UNCHANGED vars
  <2>1. UNCHANGED <<syncMode, reqs, buffer, resps, flags, initView, discovered, status, asic, tables, oa>>
    BY <1>4 DEF vars
  <2>2. Known' = Known /\ KnownPhase' = KnownPhase
    BY <2>1 DEF Known, KnownPhase, Learn, Phase, LearnBulk, LearnBulkGet
  <2>3. Types'
    BY <2>1, <2>2 DEF SyncInv, Types, Stored, flags, initView, tables
  <2>4. Flow' /\ Allowed'
    BY <2>1 DEF SyncInv, Flow, Allowed, Legal, LegalBulk, Expected, NoneUnderWay, InQueue, InSyncd, Answered
  <2>5. status' = "run" => Views'
    BY <2>1, <2>2, SameViews DEF SyncInv, initView
  <2> QED BY <2>3, <2>4, <2>5 DEF SyncInv
<1> QED BY <1>1, <1>2, <1>3, <1>4 DEF Next

(* SyncInv holds in every reachable state.                                 *)
THEOREM Invariance == ASSUME OneAtATime PROVE Spec => []SyncInv
<1>1. Init => SyncInv
  BY InitSync
<1>2. SyncInv /\ [Next]_vars => SyncInv'
  BY NextSync
<1> QED BY <1>1, <1>2, PTL DEF Spec

(* In synchronous mode the table ASIC_STATE and the ASIC agree whenever    *)
(* syncd runs and holds no request, for any objects, values and bulk       *)
(* requests, and after any number of restarts of OA, failed calls and      *)
(* failed changes of views.                                                *)
THEOREM TableMirrorsAsic == ASSUME OneAtATime PROVE Spec => []DbMirrorsAsic
<1>1. SyncInv => DbMirrorsAsic
  BY DEF SyncInv, Views, Mirror, DbMirrorsAsic
<1> QED BY <1>1, Invariance, PTL

(* In synchronous mode a view under construction is in TEMP_ASIC_STATE.    *)
THEOREM TempHasInitView == ASSUME OneAtATime PROVE Spec => []InitViewDataIsInTemp
<1>1. SyncInv => InitViewDataIsInTemp
  BY DEF SyncInv, Views, InTemp, InitViewDataIsInTemp, Quiet, Known, KnownPhase
<1> QED BY <1>1, Invariance, PTL

(* In synchronous mode a successful APPLY_VIEW leaves the ASIC with what   *)
(* OA asked for since its INIT_VIEW and with untouched default objects,    *)
(* and later requests keep it so.                                          *)
THEOREM AppliedIsRequested == ASSUME OneAtATime PROVE Spec => []AppliedViewIsRequested
<1>1. SyncInv => AppliedViewIsRequested
  BY DEF SyncInv, Views, Modes, OnAsic, AppliedViewIsRequested, Quiet, Known, KnownPhase
<1> QED BY <1>1, Invariance, PTL
=============================================================================
