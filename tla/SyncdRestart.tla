----------------------------- MODULE SyncdRestart -----------------------------
(***************************************************************************)
(* What a crash or a restart of syncd leaves behind.  Redis keeps the      *)
(* objects (ASIC_STATE) and the two id maps (VIDTORID, RIDTOVID); each is  *)
(* written by commands of its own, so a crash may fall between any two.    *)
(* A cold start creates the switch anew and builds every object of         *)
(* ASIC_STATE on it (HardReiniter, SingleReiniter); a warm start finds the *)
(* ASIC as it was.  In both, SaiSwitch discovers the objects the switch    *)
(* has by itself, and on the first boot puts them into the database.       *)
(*                                                                         *)
(* syncd runs a program of steps, one per write to redis or to the ASIC.   *)
(* An object is the set of objects its attributes refer to.  Requests are  *)
(* those of normal mode and the database update of APPLY_VIEW.  LANES,     *)
(* HIDDEN and COLDVIDS, which only the comparison logic reads, are left    *)
(* out.                                                                    *)
(***************************************************************************)
EXTENDS Naturals, Sequences, FiniteSets, Functions, TLC

CONSTANTS Vid, SwitchVid,
          Default, SwitchRid,   \* RIDs of the objects a new switch has
          New,                  \* those a firmware upgrade adds
          Removable,            \* those the vendor lets remove
          UserRid,              \* RIDs the vendor gives to created objects
          Entry,                \* routes, neighbours and the like: no object id
          OtherChoices,         \* which of them may be of types the reiniter does not know
          Threshold,            \* ObjectsTreshold
          MaxCrash              \* bound: crashes

ASSUME IdAssumption ==
    /\ SwitchVid \in Vid /\ SwitchRid \in Default
    /\ Vid \cap Entry = {} /\ UserRid \cap (Default \cup New) = {} /\ Default \cap New = {}
    /\ Entry \cap (Default \cup New \cup UserRid) = {}
    /\ Removable \subseteq Default \ {SwitchRid} /\ OtherChoices \subseteq SUBSET Entry
    /\ IsFiniteSet(Default) /\ IsFiniteSet(Vid) /\ IsFiniteSet(Entry)
\* "that should be at least number of ports"
ASSUME SwitchIsLarge == Threshold \in Nat \ {0} /\ Cardinality(Default \ Removable) > Threshold
ASSUME BoundAssumption == MaxCrash \in Nat

Rid == Default \cup New \cup UserRid
NoId == "none"

VARIABLES
    ASIC_STATE, VIDTORID, RIDTOVID,   \* redis: partial functions
    asic,                             \* partial function on Rid and Entry
    upgraded,                         \* the firmware that adds New is loaded
    syncd,                            \* "down", "run"; "failed", "refused": in shutdown-wait mode,
                                      \* by its own doing, or refused an object or an id in a start
    warm,                             \* start type of the next start
    syncMode,                         \* m_enableSyncMode
    otherEntry,                       \* entries of types the reiniter does not know (inseg entries)
    work,                             \* steps syncd has still to do
    arg,                              \* what they are about
    discovered,                       \* SaiSwitch::m_discovered_rids
    crashes,
    torn, told   \* history: what crashes and failures cut in two; until then, the view of the last request

redis == <<ASIC_STATE, VIDTORID, RIDTOVID>>
env == <<upgraded, warm, syncMode, otherEntry, crashes, torn>>
vars == <<redis, asic, env, syncd, work, arg, discovered, told>>

Empty == <<>>
Has(f, x) == x \in DOMAIN f
Put(f, x, y) == [z \in DOMAIN f \cup {x} |-> IF z = x THEN y ELSE f[z]]
Del(f, x) == Restrict(f, DOMAIN f \ {x})
Image(f, S) == {f[x] : x \in S}
UnusedVid == (Vid \ {SwitchVid}) \ (DOMAIN ASIC_STATE \cup DOMAIN VIDTORID \cup Range(RIDTOVID))
OwnObjects == Default \cup (IF upgraded THEN New ELSE {})
Referred(k) == \E l \in DOMAIN ASIC_STATE : k \in ASIC_STATE[l]

\* start: a start, not a request; key, refs, remove: of a request; view, map: ASIC_STATE to write and id map to
\* set; oids, v2r: what a start has read; translated: m_translatedV2R; todo:
\* RIDs to save or to remove; cur: VID and RID that are being inserted.
NoArg == [start |-> FALSE, key |-> NoId, refs |-> {}, remove |-> FALSE, view |-> Empty, map |-> Empty,
          oids |-> Empty, v2r |-> Empty, translated |-> Empty, todo |-> {}, cur |-> <<>>]

Init ==
    /\ ASIC_STATE = Empty /\ VIDTORID = Empty /\ RIDTOVID = Empty
    /\ asic = Empty
    /\ upgraded = FALSE
    /\ syncd = "down"
    /\ warm = FALSE
    /\ syncMode \in BOOLEAN
    /\ otherEntry \in OtherChoices
    /\ work = <<>>
    /\ arg = NoArg
    /\ discovered = {}
    /\ crashes = 0
    /\ torn = {}
    /\ told = Empty

Idle == syncd = "run" /\ work = <<>>
At(step) == syncd = "run" /\ work # <<>> /\ Head(work) = step
\* After the last step of a request what the client asked for is in redis.
Step(a) ==
    /\ work' = Tail(work)
    /\ arg' = IF Len(work) = 1 THEN NoArg ELSE a
    /\ told' = IF Len(work) = 1 /\ ~arg.start /\ torn = {} THEN ASIC_STATE' ELSE told
    /\ UNCHANGED syncd
Stay(a) == arg' = a /\ UNCHANGED <<work, syncd, told>>
\* An exception, or a null m_sw: syncd does not come up, or does nothing more but
\* wait for its shutdown.
Halt(how) == syncd' = how /\ work' = <<>> /\ arg' = NoArg /\ discovered' = {}
Fail == Halt("failed")

SetMaps == <<"delv2r", "delr2v", "hset">>
ColdStart == <<"read", "switch", "discover", "save", "process", "check",
               "delv2r", "delr2v", "hset", "postremove">>
WarmStart == <<"warm", "save", "discover", "save">>

--------------------------------------------------------------------------------
(* Requests.  In synchronous mode ASIC_STATE is written after the answer;  *)
(* in asynchronous mode the consumer writes it when it takes the request.  *)

SwitchSteps == IF syncMode THEN <<"asic", "v2r", "r2v", "discover", "save", "db">>
               ELSE <<"db", "asic", "v2r", "r2v", "discover", "save">>
ObjectSteps == IF syncMode THEN <<"asic", "v2r", "r2v", "db">> ELSE <<"db", "asic", "v2r", "r2v">>
EntrySteps == IF syncMode THEN <<"asic", "db">> ELSE <<"db", "asic">>
\* Bound: after a crash in a discovery, and after a warm shutdown of a syncd that
\* had failed, only the next starts are of interest.
Followed == torn \cap {"discovery", "warm"} = {}

Request(k, refs, remove, steps) ==
    /\ Idle
    /\ Followed
    /\ arg' = [NoArg EXCEPT !.key = k, !.refs = refs, !.remove = remove]
    /\ work' = steps
    /\ UNCHANGED <<redis, asic, env, syncd, discovered, told>>

CreateSwitch ==
    /\ ~Has(VIDTORID, SwitchVid)
    /\ Request(SwitchVid, {}, FALSE, SwitchSteps)
CreateObject(v, refs) ==
    /\ Has(VIDTORID, SwitchVid)
    /\ v \in UnusedVid
    /\ refs \subseteq DOMAIN VIDTORID \ {SwitchVid}
    /\ Request(v, refs, FALSE, ObjectSteps)
CreateEntry(e, refs) ==
    /\ Has(VIDTORID, SwitchVid)
    /\ ~Has(ASIC_STATE, e)
    /\ refs # {} /\ refs \subseteq DOMAIN VIDTORID \ {SwitchVid}
    /\ Request(e, refs, FALSE, EntrySteps)
Remove(k) ==
    /\ Idle
    /\ k \in DOMAIN ASIC_STATE \ {SwitchVid}
    /\ ~Referred(k)
    /\ k \in Vid => Has(VIDTORID, k) /\ VIDTORID[k] \in Removable \cup UserRid
    /\ Request(k, {}, TRUE, IF k \in Vid THEN ObjectSteps ELSE EntrySteps)

\* processQuadEvent, the vendor's part of it.
OnAsic ==
    /\ At("asic")
    /\ UNCHANGED <<redis, env>>
    /\ IF arg.remove
       THEN LET id == IF arg.key \in Vid THEN VIDTORID[arg.key] ELSE arg.key IN
            /\ asic' = Del(asic, id)
            /\ discovered' = discovered \ {id}
            /\ Step([arg EXCEPT !.cur = <<arg.key, id>>])
       ELSE \E id \in IF arg.key \in Entry THEN {arg.key}
                      ELSE IF arg.key = SwitchVid THEN {SwitchRid} ELSE UserRid \ DOMAIN asic :
            /\ asic' = IF id = SwitchRid THEN [d \in OwnObjects |-> {}]
                       ELSE Put(asic, id, Image(VIDTORID, arg.refs))
            /\ discovered' = IF id = SwitchRid THEN OwnObjects ELSE discovered
            /\ Step([arg EXCEPT !.cur = <<arg.key, id>>])

\* The vendor refuses: an answer in synchronous mode, else an exception.
Refused ==
    /\ At("asic")
    /\ IF syncMode THEN work' = <<>> /\ arg' = NoArg /\ UNCHANGED <<syncd, discovered, torn, told>>
       ELSE Fail /\ torn' = torn \cup {"request"} /\ told' = Empty
    /\ UNCHANGED <<redis, asic, upgraded, warm, syncMode, otherEntry, crashes>>

\* RedisClient::insertVidAndRid, removeVidAndRid
OnV2r ==
    /\ At("v2r")
    /\ VIDTORID' = IF arg.remove THEN Del(VIDTORID, arg.cur[1]) ELSE Put(VIDTORID, arg.cur[1], arg.cur[2])
    /\ UNCHANGED <<ASIC_STATE, RIDTOVID, asic, env, discovered>>
    /\ Step(arg)
OnR2v ==
    /\ At("r2v")
    /\ RIDTOVID' = IF arg.remove THEN Del(RIDTOVID, arg.cur[2]) ELSE Put(RIDTOVID, arg.cur[2], arg.cur[1])
    /\ UNCHANGED <<ASIC_STATE, VIDTORID, asic, env, discovered>>
    /\ Step([arg EXCEPT !.cur = <<>>])
\* syncUpdateRedisQuadEvent, or the consumer's pop
OnDb ==
    /\ At("db")
    /\ ASIC_STATE' = IF arg.remove THEN Del(ASIC_STATE, arg.key) ELSE Put(ASIC_STATE, arg.key, arg.refs)
    /\ UNCHANGED <<VIDTORID, RIDTOVID, asic, env, discovered>>
    /\ Step(arg)

\* updateRedisDatabase of APPLY_VIEW: the view has the objects of the ASIC; one
\* that orchagent created again may have another VID, w instead of v.
ApplyView(v, w) ==
    /\ Idle
    /\ Followed
    /\ Has(VIDTORID, SwitchVid)
    /\ w # v => (Has(VIDTORID, v) /\ VIDTORID[v] \in UserRid /\ w \in UnusedVid)
    /\ LET ren(x) == IF x = v THEN w ELSE x
           back(x) == IF x = w THEN v ELSE x IN
       arg' = [NoArg EXCEPT
           !.view = [k \in {ren(l) : l \in DOMAIN ASIC_STATE} |-> {ren(x) : x \in ASIC_STATE[back(k)]}],
           !.map = [u \in {ren(x) : x \in DOMAIN VIDTORID} |-> VIDTORID[back(u)]]]
    /\ work' = <<"wipe", "write", "delv2r", "delr2v", "hset">>
    /\ UNCHANGED <<redis, asic, env, syncd, discovered, told>>
Wipe(k) ==
    /\ At("wipe")
    /\ Has(ASIC_STATE, k)
    /\ ASIC_STATE' = Del(ASIC_STATE, k)
    /\ IF ASIC_STATE' = Empty THEN Step(arg) ELSE Stay(arg)
    /\ UNCHANGED <<VIDTORID, RIDTOVID, asic, env, discovered>>
WriteView(k) ==
    /\ At("write")
    /\ k \in DOMAIN arg.view \ DOMAIN ASIC_STATE
    /\ ASIC_STATE' = Put(ASIC_STATE, k, arg.view[k])
    /\ IF DOMAIN ASIC_STATE' = DOMAIN arg.view THEN Step(arg) ELSE Stay(arg)
    /\ UNCHANGED <<VIDTORID, RIDTOVID, asic, env, discovered>>

--------------------------------------------------------------------------------
(* RedisClient::setVidAndRidMap                                            *)

DelV2r ==
    /\ At("delv2r")
    /\ VIDTORID' = Empty
    /\ UNCHANGED <<ASIC_STATE, RIDTOVID, asic, env, discovered>>
    /\ Step(arg)
DelR2v ==
    /\ At("delr2v")
    /\ RIDTOVID' = Empty
    /\ UNCHANGED <<ASIC_STATE, VIDTORID, asic, env, discovered>>
    /\ Step(arg)
\* One pair after the other, first VIDTORID, then RIDTOVID.
Hset(v) ==
    /\ At("hset")
    /\ Has(arg.map, v)
    /\ \/ /\ ~Has(VIDTORID, v)
          /\ DOMAIN RIDTOVID = Range(VIDTORID)
          /\ VIDTORID' = Put(VIDTORID, v, arg.map[v])
          /\ UNCHANGED RIDTOVID
       \/ /\ Has(VIDTORID, v)
          /\ ~Has(RIDTOVID, arg.map[v])
          /\ RIDTOVID' = Put(RIDTOVID, arg.map[v], v)
          /\ UNCHANGED VIDTORID
    /\ Stay(arg)
    /\ UNCHANGED <<ASIC_STATE, asic, env, discovered>>
HsetEnds ==
    /\ At("hset")
    /\ DOMAIN VIDTORID = DOMAIN arg.map /\ DOMAIN RIDTOVID = Range(arg.map)
    /\ UNCHANGED <<redis, asic, env, discovered>>
    /\ Step(arg)

--------------------------------------------------------------------------------
(* SaiSwitch: helperSaveDiscoveredObjectsToRedis, and the same for what a  *)
(* warm start finds new (checkWarmBootDiscoveredRids).                     *)

ManyObjectsPresent == Cardinality(DOMAIN ASIC_STATE) > Threshold

Discover ==
    /\ At("discover")
    /\ UNCHANGED <<redis, asic, env, discovered>>
    /\ Step([arg EXCEPT !.todo = IF ManyObjectsPresent THEN {} ELSE discovered])
\* translateRidToVid: an unknown RID gets a new VID, that of the switch an exception.
SaveNewV2r(rid, v) ==
    /\ At("save")
    /\ arg.cur = <<>>
    /\ rid \in arg.todo \ DOMAIN RIDTOVID
    /\ v \in UnusedVid
    /\ IF rid = SwitchRid
       THEN Fail /\ UNCHANGED <<VIDTORID, told>>
       ELSE /\ VIDTORID' = Put(VIDTORID, v, rid)
            /\ Stay([arg EXCEPT !.cur = <<v, rid>>])
            /\ UNCHANGED discovered
    /\ UNCHANGED <<ASIC_STATE, RIDTOVID, asic, env>>
\* allocateNewObjectId throws when there is no id left.
NoVidLeft ==
    /\ At("save")
    /\ arg.cur = <<>>
    /\ ~(arg.todo \subseteq DOMAIN RIDTOVID) /\ UnusedVid = {}
    /\ Halt("refused")
    /\ torn' = torn \cup {"discovery"} /\ told' = Empty
    /\ UNCHANGED <<redis, asic, upgraded, warm, syncMode, otherEntry, crashes>>
SaveNewR2v ==
    /\ At("save")
    /\ arg.cur # <<>>
    /\ ~Has(RIDTOVID, arg.cur[2])
    /\ RIDTOVID' = Put(RIDTOVID, arg.cur[2], arg.cur[1])
    /\ Stay(arg)
    /\ UNCHANGED <<ASIC_STATE, VIDTORID, asic, env, discovered>>
\* setDummyAsicStateObject
SaveDummy(rid) ==
    /\ At("save")
    /\ rid \in arg.todo \cap DOMAIN RIDTOVID
    /\ arg.cur # <<>> => arg.cur[2] = rid
    /\ LET v == RIDTOVID[rid] IN
       ASIC_STATE' = IF Has(ASIC_STATE, v) THEN ASIC_STATE ELSE Put(ASIC_STATE, v, {})
    /\ Stay([arg EXCEPT !.todo = @ \ {rid}, !.cur = <<>>])
    /\ UNCHANGED <<VIDTORID, RIDTOVID, asic, env, discovered>>
SaveEnds ==
    /\ At("save")
    /\ arg.todo = {}
    /\ UNCHANGED <<redis, asic, env, discovered>>
    /\ Step(arg)

--------------------------------------------------------------------------------
(* HardReiniter and SingleReiniter, performWarmRestart                     *)

Start ==
    /\ syncd = "down"
    /\ "warm" \in torn => warm
    /\ syncd' = "run"
    /\ work' = IF warm THEN WarmStart ELSE ColdStart
    /\ arg' = [NoArg EXCEPT !.start = TRUE]
    /\ warm' = FALSE
    /\ asic' = IF warm THEN asic ELSE Empty
    /\ UNCHANGED <<redis, upgraded, syncMode, otherEntry, crashes, torn, discovered, told>>

\* Variant: a cold start begins with an empty database.
ReadNothing ==
    /\ At("read")
    /\ ASIC_STATE' = Empty
    /\ work' = SetMaps
    /\ UNCHANGED <<VIDTORID, RIDTOVID, asic, env, arg, syncd, discovered, told>>
\* prepareAsicState throws for entries that are not of one of four types.
UnknownEntries == DOMAIN ASIC_STATE \cap otherEntry
\* No key at all: no switch, and the maps are cleared.  A key, but no id of its
\* switch: std::map::at throws.  No key of the switch: m_sw stays null.
ReadAsicState ==
    /\ At("read")
    /\ IF ASIC_STATE = Empty
       THEN work' = SetMaps /\ UNCHANGED <<arg, syncd, discovered, told>>
       ELSE IF \/ VIDTORID = Empty \/ RIDTOVID = Empty \/ ~Has(ASIC_STATE, SwitchVid)
               \/ UnknownEntries # {}
       THEN Fail /\ UNCHANGED told
       ELSE /\ Step([arg EXCEPT !.oids = ASIC_STATE, !.v2r = VIDTORID])
            /\ UNCHANGED discovered
    /\ UNCHANGED <<redis, asic, env>>
ProcessSwitch ==
    /\ At("switch")
    /\ asic' = [d \in OwnObjects |-> {}]
    /\ discovered' = OwnObjects
    /\ UNCHANGED <<redis, env>>
    /\ Step([arg EXCEPT !.translated = [v \in {SwitchVid} |-> SwitchRid]])

\* processAttributesForOids, processStructNonObjectIds
Translated(k) == Image(arg.translated, arg.oids[k])
\* processSingleVid: after the objects it refers to; an object that the switch
\* has by itself is not created.
ProcessVid(v, rid) ==
    /\ At("process")
    /\ v \in (DOMAIN arg.oids \cap DOMAIN arg.v2r) \ DOMAIN arg.translated
    /\ arg.oids[v] \subseteq DOMAIN arg.translated
    /\ IF arg.v2r[v] \in discovered THEN rid = arg.v2r[v] ELSE rid \in UserRid \ DOMAIN asic
    /\ asic' = Put(asic, rid, Translated(v))
    /\ Stay([arg EXCEPT !.translated = Put(@, v, rid)])
    /\ UNCHANGED <<redis, env, discovered>>
\* processFdbs, processNeighbors, processRoutes, processNatEntries (processInsegs
\* never has any)
ProcessEntry(e) ==
    /\ At("process")
    /\ e \in (DOMAIN arg.oids \cap Entry) \ DOMAIN asic
    /\ arg.oids[e] \subseteq DOMAIN arg.translated
    /\ asic' = Put(asic, e, Translated(e))
    /\ Stay(arg)
    /\ UNCHANGED <<redis, env, discovered>>
Unprocessable ==
    \/ \E k \in DOMAIN arg.oids : ~(arg.oids[k] \subseteq DOMAIN arg.oids)
    \/ ~((DOMAIN arg.oids \cap Vid) \ {SwitchVid} \subseteq DOMAIN arg.v2r)
ProcessFails ==
    /\ At("process")
    /\ Unprocessable
    /\ Fail
    /\ UNCHANGED <<redis, asic, env, told>>
Processed ==
    /\ DOMAIN arg.oids \cap Vid \subseteq DOMAIN arg.translated
    /\ DOMAIN arg.oids \cap Entry \subseteq DOMAIN asic
ProcessEnds ==
    /\ At("process")
    /\ Processed
    /\ UNCHANGED <<redis, asic, env, discovered>>
    /\ Step(arg)
\* The vendor refuses to create the switch, or to create or set what is built on it:
\* every such status is thrown.
StartRefused ==
    /\ At("switch") \/ At("warm") \/ (At("process") /\ ~Processed)
    /\ Halt("refused")
    /\ UNCHANGED <<redis, asic, env, told>>

\* Variant: every object the switch has must have been translated.
CheckAllRids ==
    /\ At("check")
    /\ IF DOMAIN arg.translated = DOMAIN arg.v2r /\ discovered = Range(arg.translated)
       THEN /\ Step([arg EXCEPT !.map = arg.translated])
            /\ UNCHANGED discovered
       ELSE Fail /\ UNCHANGED told
    /\ UNCHANGED <<redis, asic, env>>
\* checkAllIds, and hardReinit's comparison of the sizes of the new maps.
CheckAllIds ==
    /\ At("check")
    /\ IF DOMAIN arg.translated = DOMAIN arg.v2r /\ IsInjective(arg.translated)
       THEN /\ Step([arg EXCEPT !.map = arg.translated,
                               !.todo = discovered \ Range(arg.translated)])
            /\ UNCHANGED discovered
       ELSE Fail /\ UNCHANGED told
    /\ UNCHANGED <<redis, asic, env>>
\* Variant: the object is only taken off the list.
PostRemoveNothing(rid) ==
    /\ At("postremove")
    /\ rid \in arg.todo
    /\ discovered' = discovered \ {rid}
    /\ Stay([arg EXCEPT !.todo = @ \ {rid}])
    /\ UNCHANGED <<redis, asic, env>>
\* A removal the vendor refuses is only logged.
PostRemoveAction(rid) ==
    /\ At("postremove")
    /\ rid \in arg.todo
    /\ IF rid \in Removable
       THEN asic' = Del(asic, rid) /\ discovered' = discovered \ {rid}
       ELSE UNCHANGED <<asic, discovered>>
    /\ Stay([arg EXCEPT !.todo = @ \ {rid}])
    /\ UNCHANGED <<redis, env>>
PostRemoveEnds ==
    /\ At("postremove")
    /\ arg.todo = {}
    /\ UNCHANGED <<redis, asic, env, discovered>>
    /\ Step(arg)

\* performWarmRestart: the ASIC is as it was, an upgrade has added New.  A vendor
\* that has no switch to come up with refuses (StartRefused).
WarmRestart ==
    /\ At("warm")
    /\ IF ~Has(ASIC_STATE, SwitchVid) \/ ~Has(VIDTORID, SwitchVid)
       THEN Fail /\ UNCHANGED <<asic, told>>
       ELSE /\ Has(asic, SwitchRid)
            /\ asic' = [d \in DOMAIN asic \cup (OwnObjects \ Default) |-> IF Has(asic, d) THEN asic[d] ELSE {}]
            /\ discovered' = DOMAIN asic' \cap Rid
            /\ Step([arg EXCEPT !.todo = discovered' \ DOMAIN RIDTOVID])
    /\ UNCHANGED <<redis, env>>

--------------------------------------------------------------------------------
(* Crashes, shutdowns, upgrades                                            *)

Forget == syncd' = "down" /\ work' = <<>> /\ arg' = NoArg /\ discovered' = {} /\ UNCHANGED <<redis, syncMode, otherEntry>>

\* Which writes, that belong together, a crash now cuts in two.
Cut ==
    IF work = <<>> \/ Head(work) \in {"read", "switch", "process", "check", "postremove", "warm"}
       \/ (arg.start /\ (Head(work) = "discover" \/ (Head(work) = "save" /\ arg.todo = {})))
    THEN {}
    ELSE IF Head(work) \in {"discover", "save"} THEN {"discovery"}
    ELSE IF arg.start THEN {"reinit"}
    ELSE {"request"}
\* Bound: a crash in a discovery is the only one that cuts something in two.
Crash ==
    /\ syncd = "run"
    /\ crashes < MaxCrash
    /\ Followed
    /\ Cut = {"discovery"} => torn = {}
    /\ crashes' = crashes + 1
    /\ torn' = torn \cup Cut
    /\ told' = IF torn' = {} THEN told ELSE Empty
    /\ Forget
    /\ asic' = Empty
    /\ UNCHANGED <<upgraded, warm>>
\* A warm shutdown is also taken in shutdown-wait mode, where the database and the
\* ASIC need not agree: the warm start does not compare them.  Bound: only before
\* the first crash.
Shutdown(w) ==
    /\ syncd \in {"failed", "refused"} \/ Idle
    /\ warm' = (w /\ Followed /\ (Idle \/ crashes = 0))
    /\ torn' = IF warm' /\ ~Idle THEN torn \cup {"warm"} ELSE torn
    /\ told' = IF torn' = {} THEN told ELSE Empty
    /\ asic' = IF warm' THEN asic ELSE Empty
    /\ Forget
    /\ UNCHANGED <<upgraded, crashes>>
\* Bound: what comes after the warm start that follows is left open.
LeftOpen == syncd = "down" /\ "warm" \in torn /\ ~warm /\ UNCHANGED vars
\* Bound: no upgrade after a crash that cut something in two.
Upgrade ==
    /\ syncd = "down"
    /\ ~upgraded
    /\ torn = {}
    /\ upgraded' = TRUE
    /\ UNCHANGED <<redis, asic, warm, syncMode, otherEntry, crashes, torn, syncd, work, arg, discovered, told>>

Refs == {{}} \cup {{v} : v \in Vid}

Next ==
    \/ CreateSwitch
    \/ \E v \in Vid, refs \in Refs : CreateObject(v, refs)
    \/ \E e \in Entry, refs \in Refs : CreateEntry(e, refs)
    \/ \E k \in Vid \cup Entry : Remove(k)
    \/ OnAsic \/ Refused \/ OnV2r \/ OnR2v \/ OnDb
    \/ \E v, w \in Vid : ApplyView(v, w)
    \/ \E k \in Vid \cup Entry : Wipe(k) \/ WriteView(k)
    \/ DelV2r \/ DelR2v \/ HsetEnds
    \/ \E v \in Vid : Hset(v)
    \/ Discover \/ SaveNewR2v \/ SaveEnds \/ NoVidLeft
    \/ \E rid \in Rid : SaveDummy(rid) \/ \E v \in Vid : SaveNewV2r(rid, v)
    \/ Start \/ ReadAsicState \/ ProcessSwitch \/ ProcessFails \/ ProcessEnds
    \/ \E rid \in Rid, v \in Vid : ProcessVid(v, rid)
    \/ \E e \in Entry : ProcessEntry(e)
    \/ CheckAllIds \/ PostRemoveEnds \/ WarmRestart \/ StartRefused
    \/ \E rid \in Rid : PostRemoveAction(rid)
    \/ Crash \/ Upgrade \/ LeftOpen
    \/ \E w \in BOOLEAN : Shutdown(w)

Spec == Init /\ [][Next]_vars

--------------------------------------------------------------------------------
(* Properties                                                              *)

\* Every variable has its type.
TypeOK ==
    /\ DOMAIN ASIC_STATE \subseteq Vid \cup Entry
    /\ \A k \in DOMAIN ASIC_STATE : ASIC_STATE[k] \subseteq Vid
    /\ DOMAIN VIDTORID \subseteq Vid /\ Range(VIDTORID) \subseteq Rid
    /\ DOMAIN RIDTOVID \subseteq Rid /\ Range(RIDTOVID) \subseteq Vid
    /\ DOMAIN asic \subseteq Rid \cup Entry
    /\ discovered \subseteq Rid
    /\ syncd \in {"down", "run", "failed", "refused"}
    /\ torn \subseteq {"request", "discovery", "reinit", "warm"}

\* The ASIC has each object of ASIC_STATE, with its references, under the RID the
\* maps give it; besides there are only objects of the switch itself.
Consistent ==
    /\ DOMAIN VIDTORID = DOMAIN ASIC_STATE \cap Vid
    /\ DOMAIN RIDTOVID = Range(VIDTORID)
    /\ \A v \in DOMAIN VIDTORID : RIDTOVID[VIDTORID[v]] = v
    /\ \A k \in DOMAIN ASIC_STATE :
        LET id == IF k \in Vid THEN VIDTORID[k] ELSE k IN
        Has(asic, id) /\ asic[id] = Image(VIDTORID, ASIC_STATE[k])
    /\ DOMAIN asic \subseteq Range(VIDTORID) \cup (DOMAIN ASIC_STATE \cap Entry) \cup (OwnObjects \ Removable)

\* A start is fail-stop: wherever crashes have cut requests, database updates or
\* earlier starts in two, a syncd that comes up has an ASIC that agrees with
\* ASIC_STATE and the id maps.  Excepted are a crash in a discovery, and a warm
\* shutdown of a syncd in shutdown-wait mode: the warm start that follows takes the
\* database and the ASIC as they are, also when an asynchronous request that the
\* vendor refused is in the one and not on the other.
UpMeansConsistent == Idle /\ torn \cap {"discovery", "warm"} = {} => Consistent

CannotStart == syncd = "failed" /\ Has(ASIC_STATE, SwitchVid)

\* After crashes that cut nothing in two, also in the middle of a start, and after
\* starts that the vendor refused, syncd comes up again if the vendor lets it:
\* neither processSingleVid nor checkAllIds throws, and prepareAsicState only for an
\* entry of a type it does not know.  (A warm start without a switch is not
\* supported.)
ComesUpUnlessTorn == CannotStart => torn # {} \/ UnknownEntries # {}

\* Such a restart leaves the view as the client's requests made it: what the
\* client removed does not come back with the switch, and only what an upgrade
\* has added is new.
RestartKeepsView ==
    Idle /\ torn = {} =>
        /\ DOMAIN told \subseteq DOMAIN ASIC_STATE
        /\ \A k \in DOMAIN ASIC_STATE :
            IF Has(told, k) THEN ASIC_STATE[k] = told[k] ELSE k \in Vid /\ Has(VIDTORID, k) /\ VIDTORID[k] \in New
================================================================================
