----------------------------- MODULE SyncdView -----------------------------
(***************************************************************************)
(* How orchagent (OA) puts its configuration on the ASIC through syncd.    *)
(* OA sends requests over one queue and takes answers from another; syncd  *)
(* serves them in its main loop and mirrors what is on the ASIC in the     *)
(* table ASIC_STATE.  After INIT_VIEW requests only go to the table        *)
(* TEMP_ASIC_STATE, and APPLY_VIEW brings the ASIC from the current view   *)
(* to the temporary one; on the very first run they go to the ASIC at      *)
(* once.  In synchronous mode every request is answered and syncd writes   *)
(* the tables after a success; in asynchronous mode create, remove and set *)
(* are not answered and the consumer of the queue writes the tables when   *)
(* it takes a batch of requests out of redis.                              *)
(*                                                                         *)
(* A bulk request names several objects, and each has a status of its own. *)
(*                                                                         *)
(* An object has one attribute.  The comparison of views is abstracted to  *)
(* its result.  syncd runs with temporary views enabled.                   *)
(***************************************************************************)
EXTENDS Integers, Sequences, FiniteSets, SequencesExt

CONSTANTS Vid,         \* ids of the objects besides the switch
          Default,     \* those the ASIC has when a switch is created
          Port,        \* those that are ports
          Value,       \* attribute values other than the default
          SyncModes,   \* which of synchronous (TRUE) and asynchronous mode are considered
          Extra,       \* which of INSPECT_ASIC and INVOKE_DUMP are used
          Bulk,        \* which bulk requests are used
          AsyncBulk,   \* m_enableSaiBulkSupport in asynchronous mode
          DieWaiting,  \* whether OA may die while it waits for an answer
          MaxQueue,    \* bound: requests and answers in redis when OA sends
          MaxRestart   \* bound: restarts of OA

Switch == "switch"
Key == Vid \cup {Switch}
Absent == "absent"
Dflt == "default"      \* exists, with no attribute set (field NULL in redis)
Content == Value \cup {Dflt, Absent}
View == [Key -> Content]
Empty == [k \in Key |-> Absent]

ASSUME VidAssumption == Switch \notin Vid /\ Default \subseteq Vid /\ Port \subseteq Vid
ASSUME ValueAssumption == Value \cap {Dflt, Absent} = {}
ASSUME ModeAssumption == SyncModes \subseteq BOOLEAN /\ DieWaiting \in BOOLEAN /\ Extra \subseteq {"inspect", "dump"}
ASSUME BulkAssumption == Bulk \subseteq {"bulkcreate", "bulkremove", "bulkset", "bulkget"} /\ AsyncBulk \in BOOLEAN
ASSUME BoundAssumption == MaxQueue \in Nat \ {0} /\ MaxRestart \in Nat

Quad == {"create", "remove", "set"}
BulkQuad == Bulk \ {"bulkget"}
Get == {"get", "list"}
Notify == {"init", "apply"} \cup Extra
\* A bulk request has Switch as its key; bound: it names at least two objects.
Several == {ks \in SUBSET Vid : Cardinality(ks) > 1}
Request == [op : Quad \cup Get \cup Notify, key : Key, val : Content, keys : {{}}]
             \cup [op : Bulk, key : {Switch}, val : Content, keys : Several]
Response == [op : {"notify", "getresponse"}, ok : BOOLEAN, vids : SUBSET Vid, val : Content \cup View]

VARIABLES
  syncMode,              \* m_enableSyncMode, in syncd and in OA
  reqs, buffer, resps,   \* request queue, the batch syncd holds, answers
  m_veryFirstRun, m_firstInitWasPerformed, m_asicInitViewMode,
  m_createdInInitView, m_initViewRemovedVidSet,
  discovered,            \* SaiSwitch::m_discovered_rids, as VIDs
  status,                \* "run", or "wait" in shutdown-wait mode
  asic,                  \* what is on the ASIC, named by VIDTORID
  ASIC_STATE, TEMP_ASIC_STATE,
  oa,                    \* orchagent and the sairedis library in it
  restarts

flags == <<m_veryFirstRun, m_firstInitWasPerformed, m_asicInitViewMode>>
initView == <<m_createdInInitView, m_initViewRemovedVidSet>>
tables == <<ASIC_STATE, TEMP_ASIC_STATE>>
oaVars == <<oa, reqs, restarts>>
vars == <<syncMode, reqs, buffer, resps, flags, initView, discovered, status, asic, tables, oa, restarts>>

NoRequest == [op |-> "init", key |-> Switch, val |-> Absent, keys |-> {}]
NewOa == [pc |-> "idle", req |-> NoRequest, phase |-> "new", view |-> Empty]
OrchAgent == [pc : {"idle", "wait"}, req : Request,
              phase : {"new", "building", "applied", "failed"},
              view : View]          \* the objects Meta knows

Init ==
  /\ syncMode \in SyncModes
  /\ reqs = <<>> /\ buffer = <<>> /\ resps = <<>>
  /\ m_veryFirstRun = TRUE
  /\ m_firstInitWasPerformed = FALSE
  /\ m_asicInitViewMode = FALSE
  /\ m_createdInInitView = {}
  /\ m_initViewRemovedVidSet = {}
  /\ discovered = {}
  /\ status = "run"
  /\ asic = Empty /\ ASIC_STATE = Empty /\ TEMP_ASIC_STATE = Empty
  /\ oa = NewOa
  /\ restarts = 0

-----------------------------------------------------------------------------
(* What a request does to a table, and the answers.                        *)

(* hset of the attributes; an object without any gets the field NULL,      *)
(* which leaves attributes that are already there alone.                   *)
Put(view, k, val) == IF val = Dflt /\ view[k] # Absent THEN view ELSE [view EXCEPT ![k] = val]
PutBulk(view, keys, val) == [k \in Key |-> IF k \in keys THEN Put(view, k, val)[k] ELSE view[k]]
Write(view, r) ==
  IF r.op \in Quad THEN Put(view, r.key, r.val)
  ELSE IF r.op \in BulkQuad THEN PutBulk(view, r.keys, r.val) ELSE view
PutAll(view, vids) ==
  [k \in Key |-> IF k \in vids /\ view[k] = Absent THEN Dflt ELSE view[k]]

Answer(op, ok, vids, val) ==
  resps' = Append(resps, [op |-> op, ok |-> ok, vids |-> vids, val |-> val])
SendNotifyResponse(ok) == Answer("notify", ok, {}, Absent)
SendApiResponse(ok) == IF syncMode THEN Answer("getresponse", ok, {}, Absent) ELSE UNCHANGED resps
SendBulkApiResponse(done) == IF syncMode THEN Answer("getresponse", TRUE, done, Absent) ELSE UNCHANGED resps

-----------------------------------------------------------------------------
(* Orchagent with the sairedis library.  It starts with INIT_VIEW, creates *)
(* the switch before anything else, uses only objects it knows, and gives  *)
(* up when INIT_VIEW or APPLY_VIEW fails (external).                       *)

Waits(op) == op \notin Quad \cup BulkQuad \/ syncMode

LearnBulk(r, resp) == [k \in Key |-> IF k \in resp.vids THEN r.val ELSE oa.view[k]]
LearnBulkGet(resp) == [k \in Key |-> IF k \in resp.vids THEN resp.val[k] ELSE oa.view[k]]

(* What OA knows once the request is done.                                 *)
Learn(r, resp) ==
  IF ~resp.ok THEN oa.view
  ELSE IF r.op \in Quad THEN [oa.view EXCEPT ![r.key] = r.val]
  ELSE IF r.op \in BulkQuad THEN LearnBulk(r, resp)
  ELSE IF r.op = "bulkget" THEN LearnBulkGet(resp)
  ELSE IF r.op = "get" THEN [oa.view EXCEPT ![r.key] = resp.val]
  ELSE IF r.op = "list" THEN PutAll(oa.view, resp.vids)
  ELSE IF r.op = "init" THEN Empty
  ELSE oa.view
Phase(r, ok) ==
  IF r.op \notin {"init", "apply"} THEN oa.phase
  ELSE IF ~ok THEN "failed"
  ELSE IF r.op = "init" THEN "building" ELSE "applied"

(* The objects of a bulk are of one type, and the switch is not of it.     *)
LegalBulk(r) ==
  /\ oa.view[Switch] # Absent
  /\ r.keys \subseteq Port \/ r.keys \cap Port = {}
  /\ \A k \in r.keys : (oa.view[k] = Absent) = (r.op = "bulkcreate")
  /\ \/ r.op = "bulkcreate" /\ r.val # Absent
     \/ r.op \in {"bulkremove", "bulkget"} /\ r.val = Absent
     \/ r.op = "bulkset" /\ r.val \in Value

Legal(r) ==
  \/ r.op \in Bulk /\ LegalBulk(r)
  \/ /\ r.op = "create" /\ oa.view[r.key] = Absent /\ r.val # Absent
     /\ r.key # Switch => oa.view[Switch] # Absent
  \/ r.op = "remove" /\ r.val = Absent /\ oa.view[r.key] # Absent
  \/ r.op = "set" /\ r.val \in Value /\ oa.view[r.key] # Absent
  \/ r.op = "get" /\ r.val = Absent /\ oa.view[r.key] # Absent /\ r.key # Switch
  \/ r.op = "list" /\ r.val = Absent /\ r.key = Switch /\ oa.view[Switch] # Absent
  \/ r.op = "apply" /\ r.val = Absent /\ r.key = Switch /\ oa.phase = "building"
  \/ r.op \in {"init"} \cup Extra /\ r.val = Absent /\ r.key = Switch

OaSends(r) ==
  /\ oa.pc = "idle"
  /\ oa.phase = "failed" => r.op = "dump"
  /\ oa.phase = "new" => r.op \in {"init", "inspect"}
  /\ Legal(r)
  /\ r.val \in Value => syncMode           \* bound: attributes only in synchronous mode
  /\ status = "wait" => r.op \in Notify    \* bound: the rest is dropped in shutdown-wait mode
  /\ Len(reqs) + Len(resps) < MaxQueue
  /\ reqs' = Append(reqs, r)
  /\ oa' = IF Waits(r.op) THEN [oa EXCEPT !.pc = "wait", !.req = r]
           ELSE [oa EXCEPT !.view = [k \in Key |-> IF k \in r.keys \/ (r.keys = {} /\ k = r.key)
                                                    THEN r.val ELSE @[k]]]
  /\ UNCHANGED <<syncMode, buffer, resps, flags, initView, discovered, status, asic, tables, restarts>>

Expected == IF oa.req.op \in Notify THEN "notify" ELSE "getresponse"

(* RedisChannel::wait: answers of another kind are dropped, the first one  *)
(* of the right kind is taken.                                             *)
OaReceives ==
  /\ oa.pc = "wait"
  /\ resps # <<>>
  /\ resps' = Tail(resps)
  /\ LET resp == Head(resps) IN
     oa' = IF resp.op # Expected THEN oa
           ELSE [pc |-> "idle", req |-> NoRequest, phase |-> Phase(oa.req, resp.ok),
                 view |-> Learn(oa.req, resp)]
  /\ UNCHANGED <<syncMode, reqs, buffer, flags, initView, discovered, status, asic, tables, restarts>>

(* The wait ends by its timeout.  The timeout is longer than any handler:  *)
(* it ends only a wait nobody will ever answer.                            *)
OaTimesOut ==
  /\ oa.pc = "wait"
  /\ reqs = <<>> /\ buffer = <<>> /\ resps = <<>>
  /\ oa' = [oa EXCEPT !.pc = "idle", !.req = NoRequest, !.phase = "failed"]
  /\ UNCHANGED <<syncMode, reqs, buffer, resps, flags, initView, discovered, status, asic, tables, restarts>>

(* A new OA starts with nothing; the two queues are in redis and stay.     *)
OaRestarts ==
  /\ restarts < MaxRestart
  /\ oa.pc = "wait" => DieWaiting
  /\ oa' = NewOa
  /\ restarts' = restarts + 1
  /\ UNCHANGED <<syncMode, reqs, buffer, resps, flags, initView, discovered, status, asic, tables>>

-----------------------------------------------------------------------------
(* syncd takes requests.  The consumer table (external) fills its buffer   *)
(* from redis and, in asynchronous mode, writes all of the batch to the    *)
(* table chosen by the mode syncd is in at that moment.                    *)

Pop(initViewMode) ==
  /\ buffer = <<>>
  /\ reqs # <<>>
  /\ buffer' = reqs
  /\ reqs' = <<>>
  /\ ASIC_STATE' = IF syncMode \/ initViewMode THEN ASIC_STATE ELSE FoldLeft(Write, ASIC_STATE, reqs)
  /\ TEMP_ASIC_STATE' = IF ~syncMode /\ initViewMode THEN FoldLeft(Write, TEMP_ASIC_STATE, reqs)
                        ELSE TEMP_ASIC_STATE
  /\ UNCHANGED <<resps, flags, initView, discovered, status, asic, oa, restarts>>

PopRunning == status = "run" /\ Pop(m_asicInitViewMode)
PopInShutdownWaitMode == status = "wait" /\ Pop(FALSE)

Serve(ops) ==
  /\ status = "run"
  /\ buffer # <<>>
  /\ Head(buffer).op \in ops
  /\ buffer' = Tail(buffer)
  /\ UNCHANGED oaVars

(* The exception reaches Syncd::run: no answer, shutdown-wait mode.        *)
Throw == status' = "wait" /\ UNCHANGED resps

-----------------------------------------------------------------------------
(* Requests in normal mode: the vendor call first, then the answer, then,  *)
(* in synchronous mode, the table.  ok is the status the vendor returns.   *)

(* The SaiSwitch constructor discovers the default objects and saves them. *)
Spawned(view, r) == IF r.op = "create" /\ r.key = Switch THEN PutAll(view, Default) ELSE view

Succeed(r) ==
  /\ SendApiResponse(TRUE)
  /\ ASIC_STATE' = IF syncMode THEN Write(Spawned(ASIC_STATE, r), r) ELSE Spawned(ASIC_STATE, r)
  /\ UNCHANGED status
FailQuad ==
  /\ IF syncMode THEN SendApiResponse(FALSE) /\ UNCHANGED status ELSE Throw
  /\ UNCHANGED <<asic, discovered, ASIC_STATE>>

ProcessCreate(ok) ==
  LET r == Head(buffer) IN
  /\ Serve({"create"})
  /\ ~m_asicInitViewMode
  /\ IF ok THEN /\ asic' = [Spawned(asic, r) EXCEPT ![r.key] = r.val]
                /\ discovered' = IF r.key = Switch THEN Default ELSE discovered
                /\ Succeed(r)
     ELSE FailQuad
  /\ UNCHANGED <<flags, initView, TEMP_ASIC_STATE>>

(* An object without a RID makes translateVidToRid throw.                  *)
ProcessSet(ok) ==
  LET r == Head(buffer) IN
  /\ Serve({"set"})
  /\ ~m_asicInitViewMode
  /\ \/ /\ asic[r.key] = Absent
        /\ Throw
        /\ UNCHANGED <<asic, discovered, ASIC_STATE>>
     \/ /\ asic[r.key] # Absent
        /\ IF ok THEN /\ asic' = [asic EXCEPT ![r.key] = r.val]
                      /\ Succeed(r)
                      /\ UNCHANGED discovered
           ELSE FailQuad
  /\ UNCHANGED <<flags, initView, TEMP_ASIC_STATE>>

(* Removing the switch is not implemented: the vendor removes it, then the *)
(* handler throws.                                                         *)
ProcessRemove(ok) ==
  LET r == Head(buffer) IN
  /\ Serve({"remove"})
  /\ ~m_asicInitViewMode
  /\ \/ /\ asic[r.key] = Absent
        /\ Throw
        /\ UNCHANGED <<asic, discovered, ASIC_STATE>>
     \/ /\ r.key = Switch /\ asic[Switch] # Absent /\ ok
        /\ Throw
        /\ asic' = Empty
        /\ UNCHANGED <<discovered, ASIC_STATE>>
     \/ /\ asic[r.key] # Absent /\ (r.key = Switch => ~ok)
        /\ IF ok THEN /\ asic' = [asic EXCEPT ![r.key] = Absent]
                      /\ discovered' = discovered \ {r.key}
                      /\ SendApiResponse(TRUE)
                      /\ ASIC_STATE' = IF syncMode THEN Write(ASIC_STATE, r) ELSE ASIC_STATE
                      /\ UNCHANGED status
           ELSE FailQuad
  /\ UNCHANGED <<flags, initView, TEMP_ASIC_STATE>>

(* A bulk request: the vendor executes the objects in done and refuses the *)
(* others, in one call or, when syncd or the vendor has no bulk support,   *)
(* one by one.  Only the successes reach the table.  A VID without a RID   *)
(* throws, one by one after others have been executed.                     *)
WriteRefused(r, done) == Write(ASIC_STATE, r)
WriteDone(r, done) == Write(ASIC_STATE, [r EXCEPT !.keys = done])

Untranslated(r) == {k \in r.keys : r.op # "bulkcreate" /\ asic[k] = Absent}
BulkExecuted(r, done) == [k \in Key |-> IF k \in done THEN r.val ELSE asic[k]]
BulkDiscovered(r, done) == IF r.op = "bulkremove" THEN discovered \ done ELSE discovered

BulkThrows(r, done) == Untranslated(r) # {} \/ (~syncMode /\ done # r.keys /\ ~AsyncBulk)

ProcessBulkOid(done) ==
  LET r == Head(buffer) IN
  /\ Serve(BulkQuad)
  /\ ~m_asicInitViewMode
  /\ done \subseteq r.keys \ Untranslated(r)
  /\ asic' = BulkExecuted(r, done)
  /\ discovered' = BulkDiscovered(r, done)
  /\ IF BulkThrows(r, done)
     THEN Throw /\ UNCHANGED ASIC_STATE
     ELSE /\ SendBulkApiResponse(done)
          /\ ASIC_STATE' = IF syncMode THEN WriteDone(r, done) ELSE ASIC_STATE
          /\ UNCHANGED status
  /\ UNCHANGED <<flags, initView, TEMP_ASIC_STATE>>

(* GET answers what the ASIC has and stores what it learnt (snooping).  A  *)
(* "list" is a GET of an attribute that lists objects.                     *)
Listed == {v \in Vid : asic[v] # Absent}

ProcessGet ==
  LET r == Head(buffer) IN
  /\ Serve(Get)
  /\ ~m_asicInitViewMode
  /\ \/ /\ asic[r.key] = Absent
        /\ Throw
        /\ UNCHANGED ASIC_STATE
     \/ /\ asic[r.key] # Absent /\ r.op = "get"
        /\ Answer("getresponse", TRUE, {r.key}, asic[r.key])
        /\ ASIC_STATE' = [ASIC_STATE EXCEPT ![r.key] = asic[r.key]]
        /\ UNCHANGED status
     \/ /\ asic[Switch] # Absent /\ r.op = "list"
        /\ Answer("getresponse", TRUE, Listed, Dflt)
        /\ ASIC_STATE' = PutAll(ASIC_STATE, Listed \ discovered)
        /\ UNCHANGED status
  /\ UNCHANGED <<flags, initView, discovered, asic, TEMP_ASIC_STATE>>

-----------------------------------------------------------------------------
(* Requests in init view mode: only TEMP_ASIC_STATE changes.               *)

UpdateTempNot(r) ==
  UNCHANGED TEMP_ASIC_STATE
UpdateTemp(r) ==
  TEMP_ASIC_STATE' = IF syncMode THEN Write(TEMP_ASIC_STATE, r) ELSE TEMP_ASIC_STATE

(* A switch that is not there yet is really created.                       *)
InitViewCreateSwitch(ok) ==
  LET r == Head(buffer) IN
  /\ Serve({"create"})
  /\ m_asicInitViewMode
  /\ r.key = Switch
  /\ \/ /\ asic[Switch] # Absent
        /\ SendApiResponse(TRUE)
        /\ UpdateTemp(r)
        /\ UNCHANGED <<asic, discovered, ASIC_STATE, status>>
     \/ /\ asic[Switch] = Absent /\ ok
        /\ asic' = [PutAll(asic, Default) EXCEPT ![Switch] = r.val]
        /\ ASIC_STATE' = PutAll(ASIC_STATE, Default \cup {Switch})
        /\ discovered' = Default
        /\ SendApiResponse(TRUE)
        /\ UpdateTemp(r)
        /\ UNCHANGED status
     \/ /\ asic[Switch] = Absent /\ ~ok
        /\ Throw
        /\ UNCHANGED <<asic, discovered, tables>>
  /\ UNCHANGED <<flags, initView>>

InitViewCreate ==
  LET r == Head(buffer) IN
  /\ Serve({"create"})
  /\ m_asicInitViewMode
  /\ r.key # Switch
  /\ IF r.key \in Port
     THEN Throw /\ UNCHANGED <<m_createdInInitView, TEMP_ASIC_STATE>>
     ELSE /\ m_createdInInitView' = m_createdInInitView \cup {r.key}
          /\ SendApiResponse(TRUE)
          /\ UpdateTemp(r)
          /\ UNCHANGED status
  /\ UNCHANGED <<flags, m_initViewRemovedVidSet, discovered, asic, ASIC_STATE>>

InitViewRemove ==
  LET r == Head(buffer) IN
  /\ Serve({"remove"})
  /\ m_asicInitViewMode
  /\ IF r.key \in Port \cup {Switch}
     THEN Throw /\ UNCHANGED <<m_initViewRemovedVidSet, TEMP_ASIC_STATE>>
     ELSE /\ m_initViewRemovedVidSet' = m_initViewRemovedVidSet \cup {r.key}
          /\ SendApiResponse(TRUE)
          /\ UpdateTemp(r)
          /\ UNCHANGED status
  /\ UNCHANGED <<flags, m_createdInInitView, discovered, asic, ASIC_STATE>>

InitViewSet ==
  /\ Serve({"set"})
  /\ m_asicInitViewMode
  /\ SendApiResponse(TRUE)
  /\ UpdateTemp(Head(buffer))
  /\ UNCHANGED <<flags, initView, discovered, status, asic, ASIC_STATE>>

(* Bulk GET, in both modes: what the ASIC has is answered and stored.      *)
SnoopAll(view, done) == [k \in Key |-> IF k \in done THEN asic[k] ELSE view[k]]

ProcessBulkGet(done) ==
  LET r == Head(buffer) IN
  /\ Serve({"bulkget"})
  /\ m_asicInitViewMode => r.keys \cap m_createdInInitView = {}
  /\ done \subseteq r.keys \ Untranslated(r)
  /\ IF BulkThrows(r, done)
     THEN Throw /\ UNCHANGED tables
     ELSE /\ Answer("getresponse", TRUE, done, asic)
          /\ ASIC_STATE' = IF m_asicInitViewMode THEN ASIC_STATE ELSE SnoopAll(ASIC_STATE, done)
          /\ TEMP_ASIC_STATE' = IF m_asicInitViewMode THEN SnoopAll(TEMP_ASIC_STATE, done) ELSE TEMP_ASIC_STATE
          /\ UNCHANGED status
  /\ UNCHANGED <<flags, initView, discovered, asic>>

InitViewBulkGetRefused ==
  /\ Serve({"bulkget"})
  /\ m_asicInitViewMode /\ Head(buffer).keys \cap m_createdInInitView # {}
  /\ Answer("getresponse", FALSE, {}, Absent)
  /\ UNCHANGED <<flags, initView, discovered, status, asic, tables>>

(* A removed object is also inserted into m_createdInInitView, and not     *)
(* into the set of removed ones.                                           *)
InitViewBulk ==
  LET r == Head(buffer) IN
  /\ Serve(BulkQuad)
  /\ m_asicInitViewMode
  /\ IF r.op # "bulkset" /\ r.keys \subseteq Port
     THEN Throw /\ UNCHANGED <<m_createdInInitView, TEMP_ASIC_STATE>>
     ELSE /\ SendBulkApiResponse(r.keys)
          /\ UpdateTemp(r)
          /\ m_createdInInitView' = IF r.op = "bulkset" THEN m_createdInInitView
                                    ELSE m_createdInInitView \cup r.keys
          /\ UNCHANGED status
  /\ UNCHANGED <<flags, m_initViewRemovedVidSet, discovered, asic, ASIC_STATE>>

InitViewGet ==
  LET r == Head(buffer) IN
  /\ Serve(Get)
  /\ m_asicInitViewMode
  /\ \/ /\ r.key \in m_createdInInitView
        /\ Answer("getresponse", FALSE, {}, Absent)
        /\ UNCHANGED <<TEMP_ASIC_STATE, status>>
     \/ /\ r.key \notin m_createdInInitView /\ asic[r.key] = Absent
        /\ Throw
        /\ UNCHANGED TEMP_ASIC_STATE
     \/ /\ r.key \notin m_createdInInitView /\ asic[r.key] # Absent /\ r.op = "get"
        /\ Answer("getresponse", TRUE, {r.key}, asic[r.key])
        /\ TEMP_ASIC_STATE' = [TEMP_ASIC_STATE EXCEPT ![r.key] = asic[r.key]]
        /\ UNCHANGED status
     \/ /\ asic[Switch] # Absent /\ r.op = "list"
        /\ Answer("getresponse", TRUE, Listed, Dflt)
        /\ TEMP_ASIC_STATE' = PutAll(TEMP_ASIC_STATE, Listed)
        /\ UNCHANGED status
  /\ UNCHANGED <<flags, initView, discovered, asic, ASIC_STATE>>

-----------------------------------------------------------------------------
(* INIT_VIEW, APPLY_VIEW and the other commands of processNotifySyncd.     *)

ClearTempView == TEMP_ASIC_STATE' = Empty /\ m_initViewRemovedVidSet' = {}

FirstInitView ==
  /\ Serve({"init"})
  /\ m_veryFirstRun /\ ~m_firstInitWasPerformed
  /\ m_asicInitViewMode' = FALSE
  /\ m_firstInitWasPerformed' = TRUE
  /\ ClearTempView
  /\ SendNotifyResponse(TRUE)
  /\ UNCHANGED <<m_veryFirstRun, m_createdInInitView, discovered, status, asic, ASIC_STATE>>

InitViewCmd ==
  /\ Serve({"init"})
  /\ m_veryFirstRun => m_firstInitWasPerformed
  /\ m_veryFirstRun' = FALSE
  /\ m_asicInitViewMode' = TRUE
  /\ ClearTempView
  /\ m_createdInInitView' = {}
  /\ SendNotifyResponse(TRUE)
  /\ UNCHANGED <<m_firstInitWasPerformed, discovered, status, asic, ASIC_STATE>>

FirstApplyView(ok) ==
  /\ Serve({"apply"})
  /\ m_veryFirstRun
  /\ m_veryFirstRun' = FALSE
  /\ m_asicInitViewMode' = FALSE
  /\ SendNotifyResponse(ok)
  /\ UNCHANGED <<m_firstInitWasPerformed, initView, discovered, status, asic, tables>>

HasKeys(view) == view # Empty

(* Variant: also the ones OA removed.                                      *)
ComparedWithRemoved ==
  [k \in Key |->
     IF TEMP_ASIC_STATE[k] # Absent THEN TEMP_ASIC_STATE[k]
     ELSE IF k \in discovered THEN Dflt ELSE Absent]
(* compareViews: what is in the temporary view, and the objects the switch *)
(* came with unless OA removed them.                                       *)
ComparedView ==
  [k \in Key |->
     IF TEMP_ASIC_STATE[k] # Absent THEN TEMP_ASIC_STATE[k]
     ELSE IF k \in discovered \ m_initViewRemovedVidSet THEN Dflt ELSE Absent]

(* The operations on the ASIC are the differences between ASIC_STATE and   *)
(* that view; what the two agree on is not touched.                        *)
Executed(done) ==
  [k \in Key |-> IF k \in done /\ ASIC_STATE[k] # ComparedView[k] THEN ComparedView[k] ELSE asic[k]]

ApplyStarts ==
  /\ Serve({"apply"})
  /\ ~m_veryFirstRun
  /\ m_asicInitViewMode' = FALSE
  /\ UNCHANGED <<m_veryFirstRun, m_firstInitWasPerformed>>

(* The maps of current, temporary and real switches do not agree.          *)
MapsDisagree == HasKeys(ASIC_STATE) # HasKeys(TEMP_ASIC_STATE) \/ HasKeys(ASIC_STATE) # HasKeys(asic)

ApplyRefused ==
  /\ ApplyStarts
  /\ MapsDisagree
  /\ SendNotifyResponse(FALSE)
  /\ status' = "wait"
  /\ UNCHANGED <<initView, discovered, asic, tables>>

(* First stage: nothing has been executed, syncd goes on.                  *)
ApplyFails ==
  /\ ApplyStarts
  /\ ~MapsDisagree
  /\ SendNotifyResponse(FALSE)
  /\ UNCHANGED <<initView, discovered, status, asic, tables>>

(* Second stage: the operations done so far have reached the ASIC.         *)
ApplyBreaks(done) ==
  /\ ApplyStarts
  /\ ~MapsDisagree
  /\ TEMP_ASIC_STATE[Switch] # Absent
  /\ asic' = Executed(done)
  /\ discovered' = discovered \ {k \in done : ComparedView[k] = Absent}
  /\ SendNotifyResponse(FALSE)
  /\ status' = "wait"
  /\ UNCHANGED <<initView, tables>>

ApplyView ==
  /\ ApplyStarts
  /\ ~MapsDisagree
  /\ HasKeys(TEMP_ASIC_STATE) => TEMP_ASIC_STATE[Switch] # Absent
  /\ asic' = Executed(Key)
  /\ ASIC_STATE' = ComparedView
  /\ TEMP_ASIC_STATE' = Empty
  /\ discovered' = {k \in discovered : ComparedView[k] # Absent}
  /\ m_createdInInitView' = {}
  /\ SendNotifyResponse(TRUE)
  /\ UNCHANGED <<m_initViewRemovedVidSet, status>>

(* The objects whose key and attributes inspectAsic translates.  An id     *)
(* without a RID makes it throw; ids in attributes are not modelled, so    *)
(* any of these objects may be the reason.                                 *)
Inspected == {k \in Key : ASIC_STATE[k] \in Value}

(* INSPECT_ASIC reads; on the very first run it is answered twice, once in *)
(* its branch and once after it.                                           *)
InspectAsic ==
  LET answer == [op |-> "notify", ok |-> TRUE, vids |-> {}, val |-> Absent] IN
  /\ Serve({"inspect"})
  /\ \/ /\ resps' = resps \o IF m_veryFirstRun THEN <<answer, answer>> ELSE <<answer>>
        /\ UNCHANGED status
     \/ /\ Inspected # {}
        /\ Throw
  /\ UNCHANGED <<flags, initView, discovered, asic, tables>>

InvokeDump(ok) ==
  /\ Serve({"dump"})
  /\ SendNotifyResponse(ok)
  /\ UNCHANGED <<flags, initView, discovered, status, asic, tables>>

(* Shutdown-wait mode: NOTIFY is refused, the rest is dropped.             *)
IgnoreInShutdownWaitMode ==
  /\ status = "wait"
  /\ buffer # <<>>
  /\ buffer' = Tail(buffer)
  /\ UNCHANGED <<oaVars, resps, flags, initView, discovered, status, asic, tables>>
RefuseInShutdownWaitMode ==
  /\ status = "wait"
  /\ buffer # <<>>
  /\ buffer' = Tail(buffer)
  /\ IF Head(buffer).op \in Notify THEN SendNotifyResponse(FALSE) ELSE UNCHANGED resps
  /\ UNCHANGED <<oaVars, flags, initView, discovered, status, asic, tables>>

-----------------------------------------------------------------------------

ProcessQuad == \E ok \in BOOLEAN :
  ProcessCreate(ok) \/ ProcessSet(ok) \/ ProcessRemove(ok) \/ InitViewCreateSwitch(ok)
ProcessBulkQuad ==
  \/ InitViewBulk \/ InitViewBulkGetRefused
  \/ \E done \in SUBSET Vid : ProcessBulkOid(done) \/ ProcessBulkGet(done)
ProcessQuadInInitViewMode == InitViewCreate \/ InitViewRemove \/ InitViewSet
ProcessNotifySyncd ==
  \/ FirstInitView
  \/ InitViewCmd
  \/ \E ok \in BOOLEAN : FirstApplyView(ok) \/ InvokeDump(ok)
  \/ ApplyRefused
  \/ ApplyFails
  \/ \E done \in SUBSET Key : ApplyBreaks(done)
  \/ ApplyView
  \/ InspectAsic

Syncd ==
  /\ UNCHANGED syncMode
  /\ \/ PopRunning \/ PopInShutdownWaitMode
     \/ ProcessQuad \/ ProcessQuadInInitViewMode \/ ProcessBulkQuad \/ ProcessGet \/ InitViewGet
     \/ ProcessNotifySyncd \/ RefuseInShutdownWaitMode

Next ==
  \/ \E r \in Request : OaSends(r)
  \/ OaReceives
  \/ OaTimesOut
  \/ OaRestarts
  \/ Syncd

Spec == Init /\ [][Next]_vars

(* syncd's loop runs, and a waiting OA takes the answers it gets.          *)
FairSpec == Spec /\ WF_vars(Syncd) /\ WF_vars(OaReceives)

-----------------------------------------------------------------------------
(* Properties.                                                             *)

(* All variables keep their types.                                         *)
TypeOK ==
  /\ syncMode \in BOOLEAN
  /\ reqs \in Seq(Request) /\ Len(reqs) <= MaxQueue
  /\ buffer \in Seq(Request) /\ Len(buffer) <= MaxQueue
  /\ resps \in Seq(Response)
  /\ flags \in [1 .. 3 -> BOOLEAN]
  /\ m_createdInInitView \subseteq Vid
  /\ m_initViewRemovedVidSet \subseteq Vid
  /\ discovered \subseteq Vid
  /\ status \in {"run", "wait"}
  /\ {asic, ASIC_STATE, TEMP_ASIC_STATE} \subseteq View
  /\ oa \in OrchAgent
  /\ restarts \in 0 .. MaxRestart

(* While syncd runs and holds no unprocessed request, ASIC_STATE is what   *)
(* is on the ASIC: failed calls, snooped answers, the creation of the      *)
(* switch in either mode and the switch of views (processQuadEvent,        *)
(* syncUpdateRedisQuadEvent, updateRedisDatabase) never let them differ.   *)
(* Of the switch itself only the existence is recorded reliably.           *)
DbMirrorsAsic ==
  status = "run" /\ buffer = <<>> =>
    /\ \A v \in Vid : ASIC_STATE[v] = asic[v]
    /\ ASIC_STATE[Switch] = Absent <=> asic[Switch] = Absent

Quiet == oa.pc = "idle" /\ reqs = <<>> /\ buffer = <<>> /\ resps = <<>> /\ status = "run"

(* When OA's APPLY_VIEW has succeeded and nothing is in flight, the ASIC   *)
(* has what OA asked for since its INIT_VIEW and nothing an earlier OA     *)
(* left behind; objects OA never touched are default objects in their      *)
(* default state, and those it removed one by one are gone                 *)
(* (processNotifySyncd, applyView, clearTempView).                         *)
AppliedViewIsRequested ==
  Quiet /\ oa.phase = "applied" =>
    \A v \in Vid :
      IF oa.view[v] # Absent THEN asic[v] = oa.view[v]
      ELSE asic[v] \in (IF v \in Default \ m_initViewRemovedVidSet THEN {Absent, Dflt} ELSE {Absent})

(* While OA builds a view and nothing is in flight, TEMP_ASIC_STATE is     *)
(* what OA knows of it, whoever writes the table, whatever batch a request *)
(* came in, and also after bulk requests and snooped answers               *)
(* (processEvent, processQuadInInitViewModeCreate, snoopGetResponse).      *)
InitViewDataIsInTemp ==
  Quiet /\ m_asicInitViewMode /\ oa.phase = "building" =>
    \A v \in Vid : TEMP_ASIC_STATE[v] = oa.view[v]

(* Every NOTIFY is answered, also the ones that meet an exception or a     *)
(* syncd that only waits for its shutdown (processNotifySyncd,             *)
(* processEventInShutdownWaitMode).  Only an INSPECT_ASIC whose handler    *)
(* throws is not: it ends in shutdown-wait mode without an answer.         *)
NotifyIsAnswered ==
  (oa.pc = "wait" /\ oa.req.op \in Notify)
    ~> (oa.pc = "idle" \/ (oa.req.op = "inspect" /\ status = "wait"))

=============================================================================
