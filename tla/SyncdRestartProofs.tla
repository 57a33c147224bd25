------------------------- MODULE SyncdRestartProofs -------------------------
(***************************************************************************)
(* For every number of objects, entries and crashes: a start of syncd is   *)
(* fail-stop, it comes up unless a crash has cut writes in two that belong *)
(* together, and it keeps the view of the client.                          *)
(*                                                                         *)
(* The argument.  The program of steps in work is different in each kind   *)
(* of request and start, and between two of them the tables of redis and   *)
(* the ASIC disagree.  The invariant has a stage for each step, which      *)
(* says what they will be when the steps that are left have been done:     *)
(* for a request, that Agree holds of the tables with the writes to come   *)
(* applied to them.  For a start it says which objects have been built     *)
(* from what was read (Rebuild), and for the replacement of the id maps    *)
(* which map they are to become (Target).                                  *)
(*                                                                         *)
(* A crash may leave any of these states to the next start.  Safe is what  *)
(* all of them have in common: if the database has a switch and id maps,   *)
(* either all the objects of the switch are in VIDTORID, or ASIC_STATE has *)
(* more than Threshold keys and VIDTORID not all of them, so that the      *)
(* start does not take the database for that of a first boot and           *)
(* checkAllIds stops it.  This is where SwitchIsLarge is used: a switch    *)
(* has more objects that cannot be removed than ObjectsTreshold.           *)
(*                                                                         *)
(* A crash in a discovery is excepted, as in UpMeansConsistent: it leaves  *)
(* a database with only some of the objects of the switch.                 *)
(***************************************************************************)
EXTENDS SyncdRestart, FiniteSetTheorems, TLAPS

-----------------------------------------------------------------------------
(* The invariant, in terms of a database A, V, R, an ASIC S and the        *)
(* objects own that the switch has by itself.                              *)

(* The switch has the objects of its discovery that cannot be removed.     *)
Full(V) == Default \ Removable \subseteq Range(V)
Whole(V) == SwitchVid \in DOMAIN V /\ Full(V)
Id(V, k) == IF k \in Vid THEN V[k] ELSE k

Linked(A, V) ==
  /\ DOMAIN V = DOMAIN A \cap Vid
  /\ \A k \in DOMAIN A : A[k] \subseteq DOMAIN V
Paired(V, R) ==
  /\ DOMAIN R = Range(V)
  /\ \A v \in DOMAIN V : R[V[v]] = v
Complete(A, V) ==
  /\ SwitchVid \in DOMAIN V => Full(V)
  /\ SwitchVid \notin DOMAIN V => DOMAIN V = {} /\ DOMAIN A = {}
(* The objects X of the switch are still to be saved or removed.           *)
Built(A, V, S, X, own) ==
  /\ \A k \in DOMAIN A : Id(V, k) \in DOMAIN S /\ S[Id(V, k)] = Image(V, A[k])
  /\ \A r \in DOMAIN S : \/ r \in Range(V)
                         \/ r \in DOMAIN A \cap Entry
                         \/ r \in (own \ Removable) \cup X /\ S[r] = {}

Stored(A, V, R) == Linked(A, V) /\ Paired(V, R) /\ Complete(A, V)
Agree(A, V, R, S, own) == Stored(A, V, R) /\ Built(A, V, S, {}, own)

(* A cold start from here either fails or finds the objects of the switch  *)
(* in the database.                                                        *)
Safe(A, V, R) ==
  DOMAIN V # {} /\ DOMAIN R # {} /\ SwitchVid \in DOMAIN A =>
    Full(V) \/ (Cardinality(DOMAIN A) > Threshold /\ DOMAIN V # DOMAIN A \cap Vid)

(* The view A is the one of the last request, and what an upgrade added.   *)
Kept(t, A, V) ==
  /\ DOMAIN t \subseteq DOMAIN A
  /\ \A k \in DOMAIN A :
       IF k \in DOMAIN t THEN A[k] = t[k] ELSE k \in Vid /\ k \in DOMAIN V /\ V[k] \in New

IsView(A) ==
  /\ DOMAIN A \subseteq Vid \cup Entry
  /\ A \in [DOMAIN A -> SUBSET Vid]
  /\ SwitchVid \in DOMAIN A => A[SwitchVid] = {}
IsV2R(V, own) ==
  /\ DOMAIN V \subseteq Vid
  /\ V \in [DOMAIN V -> own \cup UserRid]
  /\ SwitchVid \in DOMAIN V => V[SwitchVid] = SwitchRid
IsR2V(R, own) ==
  /\ DOMAIN R \subseteq own \cup UserRid
  /\ R \in [DOMAIN R -> Vid]

Types ==
  /\ IsView(ASIC_STATE) /\ IsV2R(VIDTORID, OwnObjects) /\ IsR2V(RIDTOVID, OwnObjects)
  /\ syncMode \in BOOLEAN /\ warm \in BOOLEAN /\ upgraded \in BOOLEAN
  /\ syncd \in {"down", "run", "failed", "refused"}

Now(A, V, R) == Agree(A, V, R, asic, OwnObjects)
InOrder == torn = {} => Kept(told, ASIC_STATE, VIDTORID)
Up == Now(ASIC_STATE, VIDTORID, RIDTOVID) /\ InOrder
Rest ==
  /\ Safe(ASIC_STATE, VIDTORID, RIDTOVID)
  /\ torn = {} => Stored(ASIC_STATE, VIDTORID, RIDTOVID) /\ Kept(told, ASIC_STATE, VIDTORID)

-----------------------------------------------------------------------------
(* Requests: each stage says what the database and the ASIC are when the   *)
(* steps that are left have been done.                                     *)

IsArg == DOMAIN arg = {"start", "key", "refs", "remove", "view", "map", "oids", "v2r",
                       "translated", "todo", "cur"}
ObjectMade(A, V, R, S, id) ==
  IF arg.remove THEN Agree(Del(A, arg.key), Del(V, arg.key), Del(R, id), S, OwnObjects)
  ELSE Agree(Put(A, arg.key, arg.refs), Put(V, arg.key, id), Put(R, id, arg.key), S, OwnObjects)
Written(A) == IF arg.remove THEN Del(A, arg.key) ELSE Put(A, arg.key, arg.refs)

OfRequest ==
  /\ IsArg /\ arg.start = FALSE
  /\ arg.key \in Vid \cup Entry /\ arg.refs \subseteq Vid /\ arg.remove \in BOOLEAN
OfSwitch == OfRequest /\ arg.key = SwitchVid /\ arg.refs = {} /\ arg.remove = FALSE
OfObject == OfRequest /\ arg.key \in Vid \ {SwitchVid} /\ Whole(VIDTORID)
OfEntry == OfRequest /\ arg.key \in Entry /\ Whole(VIDTORID)

SwitchPending ==
  /\ OfSwitch
  /\ DOMAIN ASIC_STATE \subseteq {SwitchVid} /\ DOMAIN VIDTORID = {} /\ DOMAIN RIDTOVID = {}
ObjectPending ==
  /\ OfObject
  /\ IF arg.remove
     THEN /\ arg.key \in DOMAIN VIDTORID
          /\ ObjectMade(ASIC_STATE, VIDTORID, RIDTOVID, Del(asic, VIDTORID[arg.key]), VIDTORID[arg.key])
     ELSE \A id \in UserRid \ DOMAIN asic :
            ObjectMade(ASIC_STATE, VIDTORID, RIDTOVID, Put(asic, id, Image(VIDTORID, arg.refs)), id)
EntryPending ==
  /\ OfEntry
  /\ Agree(Written(ASIC_STATE), VIDTORID, RIDTOVID,
           IF arg.remove THEN Del(asic, arg.key) ELSE Put(asic, arg.key, Image(VIDTORID, arg.refs)),
           OwnObjects)
DbDone == ASIC_STATE = Written(ASIC_STATE)

SwitchOnAsic ==
  /\ OfSwitch
  /\ DOMAIN ASIC_STATE \subseteq {SwitchVid}
  /\ asic = [d \in OwnObjects |-> {}] /\ discovered = OwnObjects
ObjectOnAsic ==
  /\ OfObject
  /\ arg.cur = <<arg.key, arg.cur[2]>> /\ arg.cur[2] \in OwnObjects \cup UserRid
  /\ ObjectMade(ASIC_STATE, VIDTORID, RIDTOVID, asic, arg.cur[2])
V2rDone == VIDTORID = IF arg.remove THEN Del(VIDTORID, arg.key) ELSE Put(VIDTORID, arg.key, arg.cur[2])

AsicStage ==
  \/ /\ work = <<"asic", "v2r", "r2v", "discover", "save", "db">>
     /\ syncMode /\ SwitchPending /\ Up
  \/ /\ work = <<"asic", "v2r", "r2v", "discover", "save">>
     /\ ~syncMode /\ SwitchPending
  \/ work = <<"asic", "v2r", "r2v", "db">> /\ syncMode /\ ObjectPending /\ Up
  \/ work = <<"asic", "v2r", "r2v">> /\ ~syncMode /\ ObjectPending /\ DbDone
  \/ work = <<"asic", "db">> /\ syncMode /\ EntryPending /\ Up
  \/ work = <<"asic">> /\ ~syncMode /\ EntryPending /\ DbDone
V2rStage ==
  \/ /\ work \in {<<"v2r", "r2v", "discover", "save", "db">>, <<"v2r", "r2v", "discover", "save">>}
     /\ SwitchOnAsic /\ arg.cur = <<SwitchVid, SwitchRid>>
     /\ DOMAIN VIDTORID = {} /\ DOMAIN RIDTOVID = {}
  \/ work = <<"v2r", "r2v", "db">> /\ ObjectOnAsic
  \/ work = <<"v2r", "r2v">> /\ ObjectOnAsic /\ DbDone
R2vStage ==
  \/ /\ work \in {<<"r2v", "discover", "save", "db">>, <<"r2v", "discover", "save">>}
     /\ SwitchOnAsic /\ arg.cur = <<SwitchVid, SwitchRid>>
     /\ DOMAIN VIDTORID = {SwitchVid} /\ DOMAIN RIDTOVID = {}
  \/ work = <<"r2v", "db">> /\ ObjectOnAsic /\ V2rDone
  \/ work = <<"r2v">> /\ ObjectOnAsic /\ V2rDone /\ DbDone
DbStage ==
  \/ /\ work = <<"db", "asic", "v2r", "r2v", "discover", "save">>
     /\ ~syncMode /\ SwitchPending
  \/ work = <<"db", "asic", "v2r", "r2v">> /\ ~syncMode /\ ObjectPending
  \/ work = <<"db", "asic">> /\ ~syncMode /\ EntryPending
  \/ /\ work = <<"db">>
     /\ OfSwitch \/ OfObject \/ OfEntry
     /\ Whole(VIDTORID)
     /\ Now(Written(ASIC_STATE), VIDTORID, RIDTOVID)

-----------------------------------------------------------------------------
(* The objects arg.todo of the switch are being saved.                     *)

(* The database once the objects that have an id are in it.                *)
Dummies(A, V) == [k \in DOMAIN A \cup DOMAIN V |-> IF k \in DOMAIN A THEN A[k] ELSE {}]
Inserted(R, cur) == IF cur = <<>> THEN R ELSE Put(R, cur[2], cur[1])

CurOk(R) ==
  arg.cur # <<>> =>
    /\ arg.cur = <<arg.cur[1], arg.cur[2]>>
    /\ arg.cur[1] \in Vid \ {SwitchVid} /\ arg.cur[2] \in arg.todo
Saving(A, V, R) ==
  /\ Linked(Dummies(A, V), V)
  /\ Paired(V, Inserted(R, arg.cur))
  /\ Built(Dummies(A, V), V, asic, arg.todo, OwnObjects)
  /\ SwitchVid \in DOMAIN V
  /\ Default \ Removable \subseteq arg.todo \cup Range(V)
  /\ arg.todo \subseteq OwnObjects /\ arg.todo \subseteq DOMAIN asic
  /\ \A v \in DOMAIN V \ DOMAIN A : V[v] \in arg.todo
  /\ CurOk(R)
  /\ arg.cur # <<>> /\ arg.cur[2] \in DOMAIN R => R[arg.cur[2]] = arg.cur[1]

BootSave ==
  /\ work \in {<<"save", "db">>, <<"save">>}
  /\ OfSwitch /\ Saving(ASIC_STATE, VIDTORID, RIDTOVID)
WarmSave ==
  /\ work = <<"save", "discover", "save">>
  /\ IsArg /\ arg.start = TRUE
  /\ Saving(ASIC_STATE, VIDTORID, RIDTOVID)
  /\ arg.todo \subseteq New
  /\ torn = {} => Kept(told, Dummies(ASIC_STATE, VIDTORID), VIDTORID)
WarmAgain ==
  /\ work = <<"save">>
  /\ IsArg /\ arg.start = TRUE /\ arg.todo = {} /\ arg.cur = <<>>
  /\ Up

-----------------------------------------------------------------------------
(* A cold start has read the database arg.oids, arg.v2r.                   *)

AfterRead == <<"switch", "discover", "save", "process", "check",
               "delv2r", "delr2v", "hset", "postremove">>
AfterSwitch == <<"discover", "save", "process", "check", "delv2r", "delr2v", "hset", "postremove">>
AfterDiscover == <<"save", "process", "check", "delv2r", "delr2v", "hset", "postremove">>
AfterSave == <<"process", "check", "delv2r", "delr2v", "hset", "postremove">>
AfterProcess == <<"check", "delv2r", "delr2v", "hset", "postremove">>

ReadComplete == DOMAIN arg.v2r = DOMAIN arg.oids \cap Vid
OfCold ==
  /\ IsArg /\ arg.start = TRUE
  /\ IsView(arg.oids) /\ SwitchVid \in DOMAIN arg.oids
  /\ IsV2R(arg.v2r, OwnObjects)
  /\ ReadComplete => ASIC_STATE = arg.oids /\ VIDTORID = arg.v2r /\ Full(arg.v2r)
  /\ Rest
  /\ torn = {} => ReadComplete
NewSwitch ==
  /\ asic = [d \in OwnObjects |-> {}]
  /\ arg.translated = [v \in {SwitchVid} |-> SwitchRid]
  /\ discovered = OwnObjects

(* The objects built so far, T, from the view B with the ids W.            *)
Rebuild(B, W, T, S, own) ==
  /\ SwitchVid \in DOMAIN T /\ DOMAIN T \subseteq DOMAIN B \cap Vid
  /\ IsV2R(T, own)
  /\ \A u \in DOMAIN T \ {SwitchVid} :
       u \in DOMAIN W /\ (IF W[u] \in own THEN T[u] = W[u] ELSE T[u] \in UserRid)
  /\ own \subseteq DOMAIN S /\ Range(T) \subseteq DOMAIN S
  /\ IsInjective(T) => \A u \in DOMAIN T : B[u] \subseteq DOMAIN T /\ S[T[u]] = Image(T, B[u])
  /\ \A e \in DOMAIN S \cap Entry : e \in DOMAIN B /\ B[e] \subseteq DOMAIN T /\ S[e] = Image(T, B[e])
  /\ \A r \in DOMAIN S \ Entry : r \in own \cup Range(T) /\ (r \notin Range(T) => S[r] = {})
Rebuilding ==
  /\ OfCold
  /\ discovered = OwnObjects
  /\ Rebuild(arg.oids, arg.v2r, arg.translated, asic, OwnObjects)
  /\ torn = {} => IsInjective(arg.translated)

ReadStage ==
  /\ work = ColdStart
  /\ arg = [NoArg EXCEPT !.start = TRUE] /\ asic = Empty
  /\ Rest
SwitchStage ==
  /\ work = AfterRead
  /\ OfCold
  /\ arg.cur = <<>>
  /\ ASIC_STATE = arg.oids /\ VIDTORID = arg.v2r
  /\ DOMAIN VIDTORID # {} /\ DOMAIN RIDTOVID # {}
ColdDiscover ==
  /\ work = AfterSwitch
  /\ OfCold /\ NewSwitch
  /\ arg.cur = <<>>
  /\ ASIC_STATE = arg.oids /\ VIDTORID = arg.v2r
  /\ DOMAIN VIDTORID # {} /\ DOMAIN RIDTOVID # {}
ColdSave ==
  /\ work = AfterDiscover
  /\ OfCold /\ NewSwitch
  /\ arg.todo \subseteq OwnObjects
  /\ arg.todo # {} => Full(VIDTORID) /\ ~ReadComplete
  /\ CurOk(RIDTOVID)
ProcessStage ==
  /\ work = AfterSave
  /\ Rebuilding
CheckStage ==
  /\ work = AfterProcess
  /\ Rebuilding
  /\ DOMAIN arg.oids \cap Vid \subseteq DOMAIN arg.translated
  /\ DOMAIN arg.oids \cap Entry \subseteq DOMAIN asic

-----------------------------------------------------------------------------
(* The id maps are being replaced by M.                                    *)

Target(B, M, X, S, own) ==
  /\ Linked(B, M) /\ IsInjective(M) /\ Complete(B, M) /\ IsV2R(M, own)
  /\ Built(B, M, S, X, own)
  /\ X \subseteq own /\ X \cap Range(M) = {}

WipeStage ==
  /\ work = <<"wipe", "write", "delv2r", "delr2v", "hset">>
  /\ IsArg /\ arg.start = FALSE /\ arg.todo = {}
  /\ Full(VIDTORID)
  /\ IsView(arg.view)
  /\ Target(arg.view, arg.map, {}, asic, OwnObjects)
WriteStage ==
  /\ work = <<"write", "delv2r", "delr2v", "hset">>
  /\ IsArg /\ arg.start = FALSE /\ arg.todo = {}
  /\ Full(VIDTORID)
  /\ IsView(arg.view)
  /\ Target(arg.view, arg.map, {}, asic, OwnObjects)
  /\ \A k \in DOMAIN ASIC_STATE : k \in DOMAIN arg.view /\ ASIC_STATE[k] = arg.view[k]
Mapping ==
  /\ IsArg /\ arg.start \in BOOLEAN
  /\ Target(ASIC_STATE, arg.map, arg.todo, asic, OwnObjects)
  /\ arg.start /\ torn = {} => Kept(told, ASIC_STATE, arg.map)
DelV2rStage ==
  /\ \/ work = <<"delv2r", "delr2v", "hset">> /\ arg.todo = {}
     \/ work = <<"delv2r", "delr2v", "hset", "postremove">> /\ arg.start
  /\ Mapping
  /\ Safe(ASIC_STATE, VIDTORID, RIDTOVID)
DelR2vStage ==
  /\ \/ work = <<"delr2v", "hset">> /\ arg.todo = {}
     \/ work = <<"delr2v", "hset", "postremove">> /\ arg.start
  /\ Mapping
  /\ DOMAIN VIDTORID = {}
HsetStage ==
  /\ \/ work = <<"hset">> /\ arg.todo = {}
     \/ work = <<"hset", "postremove">> /\ arg.start
  /\ Mapping
  /\ \A v \in DOMAIN VIDTORID : v \in DOMAIN arg.map /\ VIDTORID[v] = arg.map[v]
  /\ \A r \in DOMAIN RIDTOVID : RIDTOVID[r] \in DOMAIN arg.map /\ arg.map[RIDTOVID[r]] = r
PostStage ==
  /\ work = <<"postremove">>
  /\ IsArg /\ arg.start = TRUE
  /\ Stored(ASIC_STATE, VIDTORID, RIDTOVID)
  /\ Built(ASIC_STATE, VIDTORID, asic, arg.todo, OwnObjects)
  /\ arg.todo \subseteq OwnObjects /\ arg.todo \cap Range(VIDTORID) = {}
  /\ InOrder

-----------------------------------------------------------------------------
WarmStage ==
  /\ work = WarmStart
  /\ arg = [NoArg EXCEPT !.start = TRUE]
  /\ Up
DiscoverStage ==
  \/ /\ work \in {<<"discover", "save", "db">>, <<"discover", "save">>}
     /\ SwitchOnAsic /\ arg.cur = <<>>
     /\ DOMAIN VIDTORID = {SwitchVid} /\ DOMAIN RIDTOVID = {SwitchRid} /\ RIDTOVID[SwitchRid] = SwitchVid
  \/ ColdDiscover
  \/ /\ work = <<"discover", "save">>
     /\ IsArg /\ arg.start = TRUE /\ arg.cur = <<>>
     /\ Up /\ SwitchVid \in DOMAIN VIDTORID
SaveStage == BootSave \/ WarmSave \/ WarmAgain \/ ColdSave

Stage ==
  \/ work = <<>> /\ Up
  \/ AsicStage \/ V2rStage \/ R2vStage \/ DbStage
  \/ WipeStage \/ WriteStage \/ DelV2rStage \/ DelR2vStage \/ HsetStage
  \/ DiscoverStage \/ SaveStage
  \/ ReadStage \/ SwitchStage \/ ProcessStage \/ CheckStage \/ PostStage \/ WarmStage

RestartInv ==
  Followed =>
    /\ Types
    /\ syncd = "down" => IF warm THEN Up ELSE Rest
    /\ syncd \in {"failed", "refused"} => ~warm /\ Rest
    /\ syncd = "failed" /\ torn = {} =>
         SwitchVid \notin DOMAIN ASIC_STATE \/ DOMAIN ASIC_STATE \cap otherEntry # {}
    /\ syncd = "run" => ~warm /\ Stage
-----------------------------------------------------------------------------
(* Lemmas on partial functions.                                            *)

(* Put adds its value to the range of a function that has not had the      *)
(* argument.                                                               *)
LEMMA RangePut ==
  ASSUME NEW f, NEW x, x \notin DOMAIN f, NEW y
  PROVE  Range(Put(f, x, y)) = Range(f) \cup {y}
  BY DEF Put, Range

(* A new pair of an id map leaves the ids of the other objects as they     *)
(* were.                                                                   *)
LEMMA ImagePut ==
  ASSUME NEW f, NEW x, NEW y, NEW T, x \notin T, T \subseteq DOMAIN f
  PROVE  Image(Put(f, x, y), T) = Image(f, T)
  BY DEF Put, Image

(* So does the removal of a pair.                                          *)
LEMMA ImageDel ==
  ASSUME NEW f, NEW x, NEW T, x \notin T, T \subseteq DOMAIN f
  PROVE  Image(Del(f, x), T) = Image(f, T)
  BY DEF Del, Restrict, Image

(* The id of an object that has one is in the range of the map.            *)
LEMMA InRange ==
  ASSUME NEW f, NEW x \in DOMAIN f
  PROVE  f[x] \in Range(f)
  BY DEF Range

(* And every id in the range is that of some object.                       *)
LEMMA OfRange ==
  ASSUME NEW f, NEW y \in Range(f)
  PROVE  \E x \in DOMAIN f : y = f[x]
  BY DEF Range

(* The objects a switch has by itself.                                     *)
IsOwn(own) == Default \subseteq own /\ own \subseteq Default \cup New

(* OwnObjects are the default objects and perhaps those of the upgrade.    *)
LEMMA OwnIsOwn == IsOwn(OwnObjects)
  BY DEF IsOwn, OwnObjects

(* Entries, own objects and created objects are kept apart by their ids;   *)
(* the switch is an own object that cannot be removed.                     *)
LEMMA RidFacts ==
  ASSUME NEW own, IsOwn(own)
  PROVE  /\ Entry \cap (own \cup UserRid) = {} /\ own \cap UserRid = {}
         /\ SwitchRid \in own \ Removable /\ SwitchRid \notin UserRid
         /\ SwitchRid \in Default \ Removable
         /\ Vid \cap Entry = {} /\ SwitchVid \in Vid
  BY IdAssumption DEF IsOwn

(* When VIDTORID and RIDTOVID are inverse, no two objects share a RID.     *)
LEMMA PairedInjective ==
  ASSUME NEW V, NEW R, Paired(V, R), NEW u \in DOMAIN V, NEW v \in DOMAIN V, V[u] = V[v]
  PROVE  u = v
  BY DEF Paired

-----------------------------------------------------------------------------
(* What a request makes of a database that agrees with the ASIC.           *)

(* A new object v with a fresh RID.                                        *)
LEMMA CreatedObject ==
  ASSUME NEW own, IsOwn(own), NEW A, NEW V, NEW R, NEW S,
         IsV2R(V, own), Agree(A, V, R, S, own), SwitchVid \in DOMAIN V,
         NEW v \in Vid \ {SwitchVid}, v \notin DOMAIN V, v \notin DOMAIN A,
         NEW refs, refs \subseteq DOMAIN V, NEW id \in UserRid \ DOMAIN S
  PROVE  Agree(Put(A, v, refs), Put(V, v, id), Put(R, id, v), Put(S, id, Image(V, refs)), own)
  <1> DEFINE B == Put(A, v, refs)
             W == Put(V, v, id)
             Q == Put(R, id, v)
             T == Put(S, id, Image(V, refs))
  <1>p. /\ DOMAIN B = DOMAIN A \cup {v} /\ B[v] = refs /\ \A k \in DOMAIN A : B[k] = A[k]
        /\ DOMAIN W = DOMAIN V \cup {v} /\ W[v] = id /\ \A k \in DOMAIN V : W[k] = V[k]
        /\ DOMAIN T = DOMAIN S \cup {id} /\ T[id] = Image(V, refs) /\ \A r \in DOMAIN S : T[r] = S[r]
        /\ DOMAIN Q = DOMAIN R \cup {id} /\ Q[id] = v /\ \A r \in DOMAIN R : r # id => Q[r] = R[r]
    BY DEF Put
  <1>r. Range(W) = Range(V) \cup {id}
    BY RangePut
  <1>0. /\ DOMAIN V = DOMAIN A \cap Vid
        /\ \A k \in DOMAIN A : A[k] \subseteq DOMAIN V
        /\ \A k \in DOMAIN A : Id(V, k) \in DOMAIN S /\ S[Id(V, k)] = Image(V, A[k])
    BY DEF Agree, Stored, Linked, Built
  <1>1. Range(V) \subseteq DOMAIN S
    <2> SUFFICES ASSUME NEW r \in Range(V) PROVE r \in DOMAIN S
      OBVIOUS
    <2>1. PICK x \in DOMAIN V : r = V[x]
      BY OfRange
    <2> QED BY <2>1, <1>0 DEF Id
  <1>2. Linked(B, W)
    BY <1>0, <1>p DEF Linked
  <1>3. Paired(W, Q)
    <2>1. DOMAIN Q = Range(W)
      BY <1>p, <1>r DEF Agree, Stored, Paired
    <2>2. \A u \in DOMAIN V : Q[W[u]] = u
      BY <1>p, <1>1, InRange DEF Agree, Stored, Paired
    <2> QED BY <2>1, <2>2, <1>p DEF Paired
  <1>4. Complete(B, W)
    BY <1>p, <1>r DEF Complete, Full, Agree, Stored
  <1>5. ASSUME NEW k \in DOMAIN B PROVE Id(W, k) \in DOMAIN T /\ T[Id(W, k)] = Image(W, B[k])
    <2>1. CASE k = v
      <3>1. Image(W, refs) = Image(V, refs)
        BY ImagePut
      <3> QED BY <2>1, <3>1, <1>p DEF Id
    <2>2. CASE k # v
      <3>1. k \in DOMAIN A
        BY <2>2, <1>p
      <3>2. Image(W, A[k]) = Image(V, A[k])
        BY <3>1, <1>0, ImagePut
      <3>3. Id(W, k) = Id(V, k)
        BY <3>1, <1>0, <1>p DEF Id
      <3> QED BY <3>1, <3>2, <3>3, <1>0, <1>p
    <2> QED BY <2>1, <2>2
  <1>6. ASSUME NEW r \in DOMAIN T
        PROVE  \/ r \in Range(W) \/ r \in DOMAIN B \cap Entry
               \/ r \in (own \ Removable) \cup {} /\ T[r] = {}
    BY <1>6, <1>p, <1>r DEF Agree, Built
  <1> QED BY <1>2, <1>3, <1>4, <1>5, <1>6 DEF Agree, Stored, Built

(* A new entry e.                                                          *)
LEMMA CreatedEntry ==
  ASSUME NEW own, IsOwn(own), NEW A, NEW V, NEW R, NEW S,
         IsV2R(V, own), Agree(A, V, R, S, own), SwitchVid \in DOMAIN V,
         NEW e \in Entry, e \notin DOMAIN A, NEW refs, refs \subseteq DOMAIN V
  PROVE  Agree(Put(A, e, refs), V, R, Put(S, e, Image(V, refs)), own)
  <1> DEFINE B == Put(A, e, refs)
             T == Put(S, e, Image(V, refs))
  <1>p. /\ DOMAIN B = DOMAIN A \cup {e} /\ B[e] = refs /\ \A k \in DOMAIN A : B[k] = A[k]
        /\ DOMAIN T = DOMAIN S \cup {e} /\ T[e] = Image(V, refs)
        /\ \A r \in DOMAIN S : r # e => T[r] = S[r]
    BY DEF Put
  <1>v. e \notin Vid /\ \A u \in DOMAIN V : V[u] # e
    BY RidFacts DEF IsV2R
  <1>0. /\ DOMAIN V = DOMAIN A \cap Vid
        /\ \A k \in DOMAIN A : A[k] \subseteq DOMAIN V
        /\ \A k \in DOMAIN A : Id(V, k) \in DOMAIN S /\ S[Id(V, k)] = Image(V, A[k])
    BY DEF Agree, Stored, Linked, Built
  <1>2. Linked(B, V)
    BY <1>0, <1>p, <1>v DEF Linked
  <1>4. Complete(B, V)
    BY DEF Complete, Agree, Stored
  <1>5. ASSUME NEW k \in DOMAIN B PROVE Id(V, k) \in DOMAIN T /\ T[Id(V, k)] = Image(V, B[k])
    <2>1. CASE k = e
      BY <2>1, <1>p, <1>v DEF Id
    <2>2. CASE k # e
      <3>1. Id(V, k) # e
        BY <2>2, <1>p, <1>v, <1>0 DEF Id
      <3> QED BY <3>1, <2>2, <1>0, <1>p
    <2> QED BY <2>1, <2>2
  <1>6. ASSUME NEW r \in DOMAIN T
        PROVE  \/ r \in Range(V) \/ r \in DOMAIN B \cap Entry
               \/ r \in (own \ Removable) \cup {} /\ T[r] = {}
    BY <1>6, <1>p DEF Agree, Built
  <1> QED BY <1>2, <1>4, <1>5, <1>6 DEF Agree, Stored, Built

(* An object v that nothing refers to is removed.                          *)
LEMMA RemovedObject ==
  ASSUME NEW own, IsOwn(own), NEW A, NEW V, NEW R, NEW S,
         IsView(A), IsV2R(V, own), Agree(A, V, R, S, own),
         NEW v \in DOMAIN V \ {SwitchVid}, V[v] \in Removable \cup UserRid,
         \A l \in DOMAIN A : v \notin A[l]
  PROVE  Agree(Del(A, v), Del(V, v), Del(R, V[v]), Del(S, V[v]), own)
  <1> DEFINE id == V[v]
             B == Del(A, v)
             W == Del(V, v)
             Q == Del(R, id)
             T == Del(S, id)
  <1>p. /\ DOMAIN B = DOMAIN A \ {v} /\ \A k \in DOMAIN B : B[k] = A[k]
        /\ DOMAIN W = DOMAIN V \ {v} /\ \A k \in DOMAIN W : W[k] = V[k]
        /\ DOMAIN T = DOMAIN S \ {id} /\ \A r \in DOMAIN T : T[r] = S[r]
        /\ DOMAIN Q = DOMAIN R \ {id} /\ \A r \in DOMAIN Q : Q[r] = R[r]
    BY DEF Del, Restrict
  <1>i. \A u \in DOMAIN V : V[u] = id => u = v
    BY PairedInjective DEF Agree, Stored
  <1>r. Range(W) = Range(V) \ {id}
    BY <1>p, <1>i DEF Range
  <1>v. id \notin Entry /\ id \notin Default \ Removable
    BY IdAssumption, RidFacts DEF IsV2R
  <1>0. /\ DOMAIN V = DOMAIN A \cap Vid
        /\ \A k \in DOMAIN A : A[k] \subseteq DOMAIN V
        /\ \A k \in DOMAIN A : Id(V, k) \in DOMAIN S /\ S[Id(V, k)] = Image(V, A[k])
    BY DEF Agree, Stored, Linked, Built
  <1>2. Linked(B, W)
    BY <1>0, <1>p DEF Linked
  <1>3. Paired(W, Q)
    <2>1. DOMAIN Q = Range(W)
      BY <1>p, <1>r DEF Agree, Stored, Paired
    <2>2. \A u \in DOMAIN W : Q[W[u]] = u
      <3> TAKE u \in DOMAIN W
      <3>1. u \in DOMAIN V /\ W[u] = V[u] /\ W[u] \in Range(W)
        BY <1>p, InRange
      <3> QED BY <3>1, <2>1, <1>p DEF Agree, Stored, Paired
    <2> QED BY <2>1, <2>2 DEF Paired
  <1>4. Complete(B, W)
    <2>1. SwitchVid \in DOMAIN V
      BY DEF Agree, Stored, Complete
    <2> QED BY <2>1, <1>p, <1>r, <1>v DEF Complete, Full, Agree, Stored
  <1>5. ASSUME NEW k \in DOMAIN B PROVE Id(W, k) \in DOMAIN T /\ T[Id(W, k)] = Image(W, B[k])
    <2>1. k \in DOMAIN A /\ k # v /\ B[k] = A[k]
      BY <1>p
    <2>2. Image(W, A[k]) = Image(V, A[k])
      BY <2>1, <1>0, ImageDel
    <2>3. Id(W, k) = Id(V, k)
      BY <2>1, <1>0, <1>p DEF Id
    <2>4. Id(V, k) # id
      <3>1. CASE k \in Vid
        BY <3>1, <2>1, <1>0, <1>i DEF Id
      <3>2. CASE k \notin Vid
        <4>1. k \in Entry
          BY <3>2, <2>1 DEF IsView
        <4> QED BY <4>1, <3>2, <1>v DEF Id
      <3> QED BY <3>1, <3>2
    <2> QED BY <2>1, <2>2, <2>3, <2>4, <1>0, <1>p
  <1>6. ASSUME NEW r \in DOMAIN T
        PROVE  \/ r \in Range(W) \/ r \in DOMAIN B \cap Entry
               \/ r \in (own \ Removable) \cup {} /\ T[r] = {}
    <2>1. r \in DOMAIN S /\ r # id /\ T[r] = S[r]
      BY <1>p
    <2>2. DOMAIN A \cap Entry = DOMAIN B \cap Entry
      BY <1>p, <1>0, RidFacts
    <2> QED BY <2>1, <2>2, <1>r DEF Agree, Built
  <1> QED BY <1>2, <1>3, <1>4, <1>5, <1>6 DEF Agree, Stored, Built

(* An entry e is removed.                                                  *)
LEMMA RemovedEntry ==
  ASSUME NEW own, IsOwn(own), NEW A, NEW V, NEW R, NEW S,
         IsV2R(V, own), Agree(A, V, R, S, own), NEW e \in Entry \cap DOMAIN A
  PROVE  Agree(Del(A, e), V, R, Del(S, e), own)
  <1> DEFINE B == Del(A, e)
             T == Del(S, e)
  <1>p. /\ DOMAIN B = DOMAIN A \ {e} /\ \A k \in DOMAIN B : B[k] = A[k]
        /\ DOMAIN T = DOMAIN S \ {e} /\ \A r \in DOMAIN T : T[r] = S[r]
    BY DEF Del, Restrict
  <1>v. e \notin Vid /\ \A u \in DOMAIN V : V[u] # e
    BY RidFacts DEF IsV2R
  <1>0. /\ DOMAIN V = DOMAIN A \cap Vid
        /\ \A k \in DOMAIN A : A[k] \subseteq DOMAIN V
        /\ \A k \in DOMAIN A : Id(V, k) \in DOMAIN S /\ S[Id(V, k)] = Image(V, A[k])
    BY DEF Agree, Stored, Linked, Built
  <1>2. Linked(B, V)
    BY <1>0, <1>p, <1>v DEF Linked
  <1>4. Complete(B, V)
    BY <1>p DEF Complete, Agree, Stored
  <1>5. ASSUME NEW k \in DOMAIN B PROVE Id(V, k) \in DOMAIN T /\ T[Id(V, k)] = Image(V, B[k])
    <2>1. k \in DOMAIN A /\ k # e /\ B[k] = A[k]
      BY <1>p
    <2>2. Id(V, k) # e
      BY <2>1, <1>v, <1>0 DEF Id
    <2> QED BY <2>1, <2>2, <1>0, <1>p
  <1>6. ASSUME NEW r \in DOMAIN T
        PROVE  \/ r \in Range(V) \/ r \in DOMAIN B \cap Entry
               \/ r \in (own \ Removable) \cup {} /\ T[r] = {}
    BY <1>6, <1>p DEF Agree, Built
  <1> QED BY <1>2, <1>4, <1>5, <1>6 DEF Agree, Stored, Built

(* APPLY_VIEW gives the object v another VID.                              *)
RenamedView(A, v, w) ==
  [k \in {IF l = v THEN w ELSE l : l \in DOMAIN A} |->
     {IF x = v THEN w ELSE x : x \in A[IF k = w THEN v ELSE k]}]
RenamedMap(V, v, w) ==
  [u \in {IF x = v THEN w ELSE x : x \in DOMAIN V} |-> V[IF u = w THEN v ELSE u]]

(* The view and the map that APPLY_VIEW writes, in which w stands for v,   *)
(* are a target that fits the ASIC as it is (updateRedisDatabase).         *)
LEMMA Renamed ==
  ASSUME NEW own, IsOwn(own), NEW A, NEW V, NEW R, NEW S,
         IsView(A), IsV2R(V, own), Agree(A, V, R, S, own), SwitchVid \in DOMAIN V,
         NEW v \in Vid, NEW w \in Vid,
         w # v => v \in DOMAIN V /\ V[v] \in UserRid /\ w \notin DOMAIN V /\ w \notin DOMAIN A
  PROVE  /\ IsView(RenamedView(A, v, w))
         /\ Target(RenamedView(A, v, w), RenamedMap(V, v, w), {}, S, own)
  <1> DEFINE B == RenamedView(A, v, w)
             M == RenamedMap(V, v, w)
  <1> DEFINE ren(x) == IF x = v THEN w ELSE x
             back(x) == IF x = w THEN v ELSE x
  <1>B. B = [k \in {ren(l) : l \in DOMAIN A} |-> {ren(x) : x \in A[back(k)]}]
    BY DEF RenamedView
  <1>M. M = [u \in {ren(x) : x \in DOMAIN V} |-> V[back(u)]]
    BY DEF RenamedMap
  <1>n. \A x : ren(x) = (IF x = v THEN w ELSE x) /\ back(x) = (IF x = w THEN v ELSE x)
    OBVIOUS
  <1> HIDE DEF ren, back, B, M
  <1>0. /\ DOMAIN V = DOMAIN A \cap Vid
        /\ \A k \in DOMAIN A : A[k] \subseteq DOMAIN V
        /\ \A k \in DOMAIN A : Id(V, k) \in DOMAIN S /\ S[Id(V, k)] = Image(V, A[k])
        /\ DOMAIN A \subseteq Vid \cup Entry
    BY DEF Agree, Stored, Linked, Built, IsView
  <1>s. v = SwitchVid => w = v
    BY RidFacts DEF IsV2R
  <1>e. v \notin Entry /\ w \notin Entry
    BY RidFacts
  <1>b. ASSUME NEW k \in DOMAIN A PROVE back(ren(k)) = k
    BY <1>0, <1>n
  <1>d. /\ DOMAIN B = {ren(l) : l \in DOMAIN A}
        /\ \A k \in DOMAIN A : B[ren(k)] = {ren(x) : x \in A[k]}
    BY <1>b, <1>B
  <1>m. /\ DOMAIN M = {ren(l) : l \in DOMAIN V}
        /\ \A k \in DOMAIN V : M[ren(k)] = V[k]
    BY <1>b, <1>0, <1>M
  <1>r. Range(M) = Range(V)
    BY <1>m DEF Range
  <1>sw. ren(SwitchVid) = SwitchVid
    BY <1>s, <1>n
  <1>1. IsView(B)
    <2>1. ASSUME NEW k \in DOMAIN B PROVE k \in Vid \cup Entry /\ B[k] \in SUBSET Vid
      <3>1. PICK l \in DOMAIN A : k = ren(l)
        BY <1>d
      <3>2. B[k] = {ren(x) : x \in A[l]} /\ A[l] \subseteq Vid
        BY <3>1, <1>d, <1>0
      <3>3. \A x \in Vid : ren(x) \in Vid
        BY <1>n
      <3> QED BY <3>1, <3>2, <3>3, <1>0, <1>n
    <2>2. B \in [DOMAIN B -> SUBSET Vid]
      BY <2>1, <1>B
    <2>3. SwitchVid \in DOMAIN B => B[SwitchVid] = {}
      <3>1. SwitchVid \in DOMAIN A /\ A[SwitchVid] = {}
        BY <1>0 DEF IsView
      <3>2. B[ren(SwitchVid)] = {ren(x) : x \in A[SwitchVid]}
        BY <3>1, <1>d
      <3> QED BY <3>1, <3>2, <1>sw
    <2> QED BY <2>1, <2>2, <2>3 DEF IsView
  <1>2. Linked(B, M)
    <2>1. DOMAIN M = DOMAIN B \cap Vid
      <3>1. \A x : ren(x) \in Vid <=> x \in Vid
        BY <1>n
      <3> QED BY <3>1, <1>0, <1>d, <1>m
    <2>2. ASSUME NEW k \in DOMAIN B PROVE B[k] \subseteq DOMAIN M
      <3>1. PICK l \in DOMAIN A : k = ren(l)
        BY <1>d
      <3> QED BY <3>1, <1>d, <1>0, <1>m
    <2> QED BY <2>1, <2>2 DEF Linked
  <1>3. IsInjective(M)
    <2> SUFFICES ASSUME NEW a \in DOMAIN M, NEW b \in DOMAIN M, M[a] = M[b] PROVE a = b
      BY DEF IsInjective
    <2>1. PICK x \in DOMAIN V : a = ren(x)
      BY <1>m
    <2>2. PICK y \in DOMAIN V : b = ren(y)
      BY <1>m
    <2>3. V[x] = V[y]
      BY <2>1, <2>2, <1>m
    <2>4. x = y
      BY <2>3, PairedInjective DEF Agree, Stored
    <2> QED BY <2>1, <2>2, <2>4
  <1>4. SwitchVid \in DOMAIN M /\ Complete(B, M)
    <2>1. SwitchVid \in DOMAIN M
      BY <1>m, <1>sw
    <2> QED BY <2>1, <1>r DEF Complete, Full, Agree, Stored
  <1>5. IsV2R(M, own)
    <2>1. ASSUME NEW k \in DOMAIN M PROVE k \in Vid /\ M[k] \in own \cup UserRid
      <3>1. PICK l \in DOMAIN V : k = ren(l)
        BY <1>m
      <3> QED BY <3>1, <1>m, <1>0, <1>n DEF IsV2R
    <2>2. M \in [DOMAIN M -> own \cup UserRid]
      BY <2>1, <1>M
    <2>3. M[SwitchVid] = SwitchRid
      BY <1>m, <1>sw DEF IsV2R
    <2> QED BY <2>1, <2>2, <2>3 DEF IsV2R
  <1>6. Built(B, M, S, {}, own)
    <2>1. ASSUME NEW k \in DOMAIN B
          PROVE  Id(M, k) \in DOMAIN S /\ S[Id(M, k)] = Image(M, B[k])
      <3>1. PICK l \in DOMAIN A : k = ren(l)
        BY <1>d
      <3>2. Image(M, B[k]) = Image(V, A[l])
        <4>1. B[k] = {ren(x) : x \in A[l]}
          BY <3>1, <1>d
        <4>2. \A x \in A[l] : x \in DOMAIN V /\ M[ren(x)] = V[x]
          BY <1>m, <1>0
        <4>3. Image(M, B[k]) = {M[y] : y \in B[k]} /\ Image(V, A[l]) = {V[x] : x \in A[l]}
          BY DEF Image
        <4>4. \A y \in B[k] : M[y] \in {V[x] : x \in A[l]}
          BY <4>1, <4>2
        <4>5. \A x \in A[l] : V[x] \in {M[y] : y \in B[k]}
          <5> TAKE x \in A[l]
          <5>1. ren(x) \in B[k] /\ M[ren(x)] = V[x]
            BY <4>1, <4>2
          <5> QED BY <5>1
        <4>6. {M[y] : y \in B[k]} \subseteq {V[x] : x \in A[l]}
          BY <4>4
        <4>7. {V[x] : x \in A[l]} \subseteq {M[y] : y \in B[k]}
          BY <4>5
        <4> QED BY <4>3, <4>6, <4>7
      <3>3. Id(M, k) = Id(V, l)
        BY <3>1, <1>m, <1>0, <1>n DEF Id
      <3> QED BY <3>2, <3>3, <1>0
    <2>2. DOMAIN A \cap Entry = DOMAIN B \cap Entry
      BY <1>d, <1>e, <1>n
    <2>3. ASSUME NEW r \in DOMAIN S
          PROVE  \/ r \in Range(M) \/ r \in DOMAIN B \cap Entry
                 \/ r \in (own \ Removable) \cup {} /\ S[r] = {}
      BY <2>2, <1>r DEF Agree, Built
    <2> QED BY <2>1, <2>3 DEF Built
  <1>7. Target(B, M, {}, S, own)
    BY <1>2, <1>3, <1>4, <1>5, <1>6 DEF Target
  <1> QED BY <1>1, <1>7 DEF B, M

-----------------------------------------------------------------------------
(* A switch with its discovered objects in the database has more objects   *)
(* than the threshold.                                                     *)
LEMMA FullIsMany ==
  ASSUME NEW A, IsView(A), NEW V, DOMAIN V \subseteq DOMAIN A, Full(V)
  PROVE  Cardinality(DOMAIN A) > Threshold
  <1> DEFINE D == Default \ Removable
             f == [k \in DOMAIN A |-> IF k \in DOMAIN V /\ V[k] \in D THEN V[k] ELSE SwitchRid]
  <1>1. IsFiniteSet(DOMAIN A)
    BY FS_Subset, FS_Union, IdAssumption DEF IsView
  <1>2. f \in Surjection(DOMAIN A, D)
    <2>1. f \in [DOMAIN A -> D]
      BY IdAssumption
    <2>2. ASSUME NEW r \in D PROVE \E k \in DOMAIN A : f[k] = r
      <3>1. PICK v \in DOMAIN V : r = V[v]
        BY OfRange DEF Full
      <3> QED BY <3>1
    <2> QED BY <2>1, <2>2 DEF Surjection
  <1> HIDE DEF f, D
  <1>3. Cardinality(D) <= Cardinality(DOMAIN A)
    BY <1>1, <1>2, FS_Surjection
  <1>4. Cardinality(DOMAIN A) \in Nat
    BY <1>1, FS_CardinalityType
  <1>5. IsFiniteSet(D)
    BY FS_Difference, IdAssumption DEF D
  <1>6. Cardinality(D) \in Nat
    BY <1>5, FS_CardinalityType
  <1>7. Cardinality(D) > Threshold /\ Threshold \in Nat
    BY SwitchIsLarge DEF D
  <1> QED BY <1>3, <1>4, <1>6, <1>7

(* A database with no more than the switch has not.                        *)
LEMMA OneIsFew ==
  ASSUME NEW A, DOMAIN A \subseteq {SwitchVid}
  PROVE  ~(Cardinality(DOMAIN A) > Threshold)
  <1>1. Cardinality({}) = 0 /\ Cardinality({SwitchVid}) = 1
    BY FS_EmptySet, FS_Singleton
  <1>2. DOMAIN A = {} \/ DOMAIN A = {SwitchVid}
    OBVIOUS
  <1>3. Threshold \in Nat /\ Threshold # 0
    BY SwitchIsLarge
  <1> QED BY <1>1, <1>2, <1>3

(* With all the objects of the switch in VIDTORID, or an empty map, the    *)
(* next cold start is safe.                                                *)
LEMMA FullIsSafe ==
  ASSUME NEW A, NEW V, NEW R, Full(V) \/ DOMAIN V = {} \/ DOMAIN R = {}
  PROVE  Safe(A, V, R)
  BY DEF Safe

(* A database of which nothing is cut in two is safe.                      *)
LEMMA StoredIsSafe ==
  ASSUME NEW A, NEW V, NEW R, Stored(A, V, R)
  PROVE  Safe(A, V, R)
  BY DEF Safe, Stored, Complete

(* The id maps while they are being replaced by M.                         *)
LEMMA PartIsSafe ==
  ASSUME NEW A, IsView(A), NEW V, NEW R, NEW M, Linked(A, M), Complete(A, M),
         \A v \in DOMAIN V : v \in DOMAIN M /\ V[v] = M[v]
  PROVE  Safe(A, V, R)
  <1> SUFFICES ASSUME SwitchVid \in DOMAIN A
               PROVE  Full(V) \/ (Cardinality(DOMAIN A) > Threshold /\ DOMAIN V # DOMAIN A \cap Vid)
    BY DEF Safe
  <1>1. DOMAIN M = DOMAIN A \cap Vid /\ SwitchVid \in DOMAIN M /\ Full(M)
    BY IdAssumption DEF Linked, Complete
  <1>2. Cardinality(DOMAIN A) > Threshold
    BY <1>1, FullIsMany
  <1>3. CASE DOMAIN V = DOMAIN M
    <2>1. Range(M) \subseteq Range(V)
      BY <1>3 DEF Range
    <2> QED BY <2>1, <1>1 DEF Full
  <1>4. CASE DOMAIN V # DOMAIN M
    BY <1>4, <1>1, <1>2
  <1> QED BY <1>3, <1>4

(* When the maps are M, the database agrees with the ASIC.                 *)
LEMMA TargetReached ==
  ASSUME HsetStage, IsV2R(VIDTORID, OwnObjects),
         DOMAIN VIDTORID = DOMAIN arg.map, DOMAIN RIDTOVID = Range(arg.map)
  PROVE  /\ Stored(ASIC_STATE, VIDTORID, RIDTOVID)
         /\ Built(ASIC_STATE, VIDTORID, asic, arg.todo, OwnObjects)
         /\ arg.todo \subseteq OwnObjects /\ arg.todo \cap Range(VIDTORID) = {}
         /\ VIDTORID = arg.map
  <1>0. Target(ASIC_STATE, arg.map, arg.todo, asic, OwnObjects)
    BY DEF HsetStage, Mapping
  <1>1. VIDTORID = arg.map
    BY <1>0 DEF HsetStage, Target, IsV2R
  <1>2. Paired(VIDTORID, RIDTOVID)
    <2> SUFFICES ASSUME NEW v \in DOMAIN arg.map PROVE RIDTOVID[arg.map[v]] = v
      BY <1>1 DEF Paired
    <2>1. arg.map[v] \in DOMAIN RIDTOVID
      BY InRange
    <2>2. /\ RIDTOVID[arg.map[v]] \in DOMAIN arg.map
          /\ arg.map[RIDTOVID[arg.map[v]]] = arg.map[v]
      BY <2>1 DEF HsetStage
    <2> QED BY <2>2, <1>0 DEF Target, IsInjective
  <1> QED BY <1>0, <1>1, <1>2 DEF Target, Stored

-----------------------------------------------------------------------------
(* The discovered objects are saved.                                       *)

(* An object without references has none on the ASIC.                      *)
LEMMA ImageEmpty == \A V : Image(V, {}) = {}
  BY DEF Image

(* A discovered object rid gets the VID v: the database, the id maps and   *)
(* the dummy included, agrees with the ASIC as before.                     *)
LEMMA SavedObject ==
  ASSUME NEW own, IsOwn(own), NEW A, NEW V, NEW R, NEW S, NEW X,
         IsV2R(V, own), Linked(A, V), Paired(V, R), Built(A, V, S, X, own),
         NEW v \in Vid, v \notin DOMAIN V, NEW rid \in own, rid \in DOMAIN S, rid \notin Range(V),
         NEW B, DOMAIN B = DOMAIN A \cup {v}, B[v] = {}, \A k \in DOMAIN A : B[k] = A[k]
  PROVE  /\ Linked(B, Put(V, v, rid))
         /\ Paired(Put(V, v, rid), Put(R, rid, v))
         /\ Built(B, Put(V, v, rid), S, X, own)
  <1> DEFINE W == Put(V, v, rid)
             Q == Put(R, rid, v)
  <1>p. /\ DOMAIN W = DOMAIN V \cup {v} /\ W[v] = rid /\ \A k \in DOMAIN V : W[k] = V[k]
        /\ DOMAIN Q = DOMAIN R \cup {rid} /\ Q[rid] = v /\ \A r \in DOMAIN R : r # rid => Q[r] = R[r]
    BY DEF Put
  <1>r. Range(W) = Range(V) \cup {rid}
    BY RangePut
  <1>0. /\ DOMAIN V = DOMAIN A \cap Vid
        /\ \A k \in DOMAIN A : A[k] \subseteq DOMAIN V
        /\ \A k \in DOMAIN A : Id(V, k) \in DOMAIN S /\ S[Id(V, k)] = Image(V, A[k])
    BY DEF Linked, Built
  <1>1. Linked(B, W)
    BY <1>0, <1>p DEF Linked
  <1>2. Paired(W, Q)
    <2>1. DOMAIN Q = Range(W)
      BY <1>p, <1>r DEF Paired
    <2>2. ASSUME NEW u \in DOMAIN V PROVE Q[W[u]] = u
      <3>1. V[u] # rid /\ V[u] \in DOMAIN R
        BY InRange DEF Paired
      <3> QED BY <3>1, <1>p DEF Paired
    <2> QED BY <2>1, <2>2, <1>p DEF Paired
  <1>3. S[rid] = {}
    BY RidFacts DEF Built
  <1>4. ASSUME NEW k \in DOMAIN B PROVE Id(W, k) \in DOMAIN S /\ S[Id(W, k)] = Image(W, B[k])
    <2>1. CASE k = v
      BY <2>1, <1>p, <1>3, ImageEmpty DEF Id
    <2>2. CASE k # v
      <3>1. k \in DOMAIN A /\ B[k] = A[k]
        BY <2>2
      <3>2. Image(W, A[k]) = Image(V, A[k])
        BY <3>1, <1>0, ImagePut
      <3>3. Id(W, k) = Id(V, k)
        BY <3>1, <1>0, <1>p DEF Id
      <3> QED BY <3>1, <3>2, <3>3, <1>0
    <2> QED BY <2>1, <2>2
  <1>5. ASSUME NEW r \in DOMAIN S
        PROVE  \/ r \in Range(W) \/ r \in DOMAIN B \cap Entry
               \/ r \in (own \ Removable) \cup X /\ S[r] = {}
    BY <1>r DEF Built
  <1> QED BY <1>1, <1>2, <1>4, <1>5 DEF Built

(* When nothing is left to save, the database agrees with the ASIC.        *)
LEMMA AllSaved ==
  ASSUME IsView(ASIC_STATE), IsV2R(VIDTORID, OwnObjects),
         Saving(ASIC_STATE, VIDTORID, RIDTOVID), arg.todo = {}
  PROVE  /\ Agree(ASIC_STATE, VIDTORID, RIDTOVID, asic, OwnObjects)
         /\ SwitchVid \in DOMAIN VIDTORID /\ Full(VIDTORID)
         /\ arg.cur = <<>>
         /\ Dummies(ASIC_STATE, VIDTORID) = ASIC_STATE
  <1>1. arg.cur = <<>> /\ Inserted(RIDTOVID, arg.cur) = RIDTOVID
    BY DEF Saving, CurOk, Inserted
  <1>2. DOMAIN VIDTORID \subseteq DOMAIN ASIC_STATE
    BY DEF Saving
  <1>3. Dummies(ASIC_STATE, VIDTORID) = ASIC_STATE
    BY <1>2 DEF Dummies, IsView
  <1>4. SwitchVid \in DOMAIN VIDTORID /\ Full(VIDTORID)
    BY DEF Saving, Full
  <1> QED BY <1>1, <1>3, <1>4 DEF Saving, Agree, Stored, Complete

-----------------------------------------------------------------------------
(* A cold start builds the objects of the view B.                          *)

(* Nothing but the switch is built.                                        *)
LEMMA RebuildStarts ==
  ASSUME NEW own, IsOwn(own), NEW B, IsView(B), SwitchVid \in DOMAIN B, NEW W,
         NEW T, T = [v \in {SwitchVid} |-> SwitchRid], NEW S, S = [d \in own |-> {}]
  PROVE  Rebuild(B, W, T, S, own) /\ IsInjective(T)
  <1>0. /\ SwitchRid \in own /\ SwitchVid \in Vid /\ own \cap Entry = {} /\ B[SwitchVid] = {}
        /\ Range(T) = {SwitchRid}
    BY RidFacts DEF IsView, Range
  <1>1. IsV2R(T, own)
    BY <1>0 DEF IsV2R
  <1> QED BY <1>0, <1>1, ImageEmpty DEF Rebuild, IsInjective

(* One more object v, of which B refers to objects that are built.         *)
LEMMA RebuiltObject ==
  ASSUME NEW own, IsOwn(own), NEW B, NEW W, NEW T, NEW S, IsView(B), IsV2R(W, own),
         Rebuild(B, W, T, S, own),
         NEW v \in (DOMAIN B \cap DOMAIN W) \ DOMAIN T, B[v] \subseteq DOMAIN T,
         NEW rid, IF W[v] \in own THEN rid = W[v] ELSE rid \in UserRid \ DOMAIN S
  PROVE  Rebuild(B, W, Put(T, v, rid), Put(S, rid, Image(T, B[v])), own)
  <1> DEFINE T1 == Put(T, v, rid)
             S1 == Put(S, rid, Image(T, B[v]))
  <1>p. /\ DOMAIN T1 = DOMAIN T \cup {v} /\ T1[v] = rid /\ \A k \in DOMAIN T : T1[k] = T[k]
        /\ DOMAIN S1 = DOMAIN S \cup {rid} /\ S1[rid] = Image(T, B[v])
        /\ \A r \in DOMAIN S : r # rid => S1[r] = S[r]
    BY DEF Put
  <1>r. Range(T1) = Range(T) \cup {rid}
    BY RangePut
  <1>v. /\ v \in Vid /\ v # SwitchVid /\ rid \in own \cup UserRid /\ rid \notin Entry
    BY RidFacts DEF IsV2R, Rebuild
  <1>1. IsV2R(T1, own)
    <2>1. \A u \in DOMAIN T1 : u \in Vid /\ T1[u] \in own \cup UserRid
      BY <1>p, <1>v DEF IsV2R, Rebuild
    <2>2. T1 \in [DOMAIN T1 -> own \cup UserRid]
      BY <2>1 DEF Put
    <2> QED BY <2>1, <2>2, <1>p, <1>v DEF IsV2R, Rebuild
  <1>2. \A u \in DOMAIN T1 \ {SwitchVid} :
          u \in DOMAIN W /\ (IF W[u] \in own THEN T1[u] = W[u] ELSE T1[u] \in UserRid)
    BY <1>p DEF Rebuild
  <1>3. ASSUME IsInjective(T1), NEW u \in DOMAIN T1
        PROVE  B[u] \subseteq DOMAIN T1 /\ S1[T1[u]] = Image(T1, B[u])
    <2>1. CASE u = v
      <3>1. Image(T1, B[v]) = Image(T, B[v])
        BY ImagePut
      <3> QED BY <2>1, <3>1, <1>p
    <2>2. CASE u # v
      <3>1. IsInjective(T)
        BY <1>3, <1>p DEF IsInjective
      <3>2. u \in DOMAIN T /\ B[u] \subseteq DOMAIN T /\ S[T[u]] = Image(T, B[u]) /\ T[u] \in DOMAIN S
        BY <2>2, <3>1, <1>p, InRange DEF Rebuild
      <3>3. Image(T1, B[u]) = Image(T, B[u])
        BY <3>2, ImagePut
      <3>4. T1[u] = T[u] /\ T[u] # rid
        BY <2>2, <3>2, <1>3, <1>p DEF IsInjective
      <3> QED BY <3>2, <3>3, <3>4, <1>p
    <2> QED BY <2>1, <2>2
  <1>4. ASSUME NEW e \in DOMAIN S1 \cap Entry
        PROVE  e \in DOMAIN B /\ B[e] \subseteq DOMAIN T1 /\ S1[e] = Image(T1, B[e])
    <2>1. e \in DOMAIN S \cap Entry /\ S1[e] = S[e]
      BY <1>p, <1>v
    <2>2. e \in DOMAIN B /\ B[e] \subseteq DOMAIN T /\ S[e] = Image(T, B[e])
      BY <2>1 DEF Rebuild
    <2>3. Image(T1, B[e]) = Image(T, B[e])
      BY <2>2, ImagePut
    <2> QED BY <2>1, <2>2, <2>3, <1>p
  <1>5. \A r \in DOMAIN S1 \ Entry : r \in own \cup Range(T1) /\ (r \notin Range(T1) => S1[r] = {})
    BY <1>p, <1>r DEF Rebuild
  <1>6. /\ SwitchVid \in DOMAIN T1 /\ DOMAIN T1 \subseteq DOMAIN B \cap Vid
        /\ own \subseteq DOMAIN S1 /\ Range(T1) \subseteq DOMAIN S1
    BY <1>p, <1>r, <1>v DEF Rebuild
  <1> SUFFICES Rebuild(B, W, T1, S1, own)
    OBVIOUS
  <1> HIDE DEF T1, S1
  <1> QED BY <1>1, <1>2, <1>3, <1>4, <1>5, <1>6 DEF Rebuild

(* If no two VIDs had the same RID, no two get the same.                   *)
LEMMA RebuiltInjective ==
  ASSUME NEW own, IsOwn(own), NEW B, NEW W, NEW T, NEW S, IsV2R(W, own),
         Rebuild(B, W, T, S, own), IsInjective(T),
         NEW R, Paired(W, R), SwitchVid \in DOMAIN W,
         NEW v \in (DOMAIN B \cap DOMAIN W) \ DOMAIN T,
         NEW rid, IF W[v] \in own THEN rid = W[v] ELSE rid \in UserRid \ DOMAIN S
  PROVE  IsInjective(Put(T, v, rid))
  <1>p. /\ DOMAIN Put(T, v, rid) = DOMAIN T \cup {v} /\ Put(T, v, rid)[v] = rid
        /\ \A k \in DOMAIN T : Put(T, v, rid)[k] = T[k]
    BY DEF Put
  <1>1. ASSUME NEW u \in DOMAIN T PROVE T[u] # rid
    <2>1. CASE W[v] \in own
      <3>1. rid = W[v]
        BY <2>1
      <3>2. W[u] # W[v]
        BY PairedInjective DEF Rebuild
      <3>3. u \in DOMAIN W /\ (T[u] = W[u] \/ T[u] \in UserRid)
        BY DEF Rebuild, IsV2R
      <3> QED BY <2>1, <3>1, <3>2, <3>3, RidFacts
    <2>2. CASE W[v] \notin own
      BY <2>2, InRange DEF Rebuild
    <2> QED BY <2>1, <2>2
  <1> QED BY <1>1, <1>p DEF IsInjective

(* One more entry.                                                         *)
LEMMA RebuiltEntry ==
  ASSUME NEW own, IsOwn(own), NEW B, NEW W, NEW T, NEW S,
         Rebuild(B, W, T, S, own),
         NEW e \in DOMAIN B \cap Entry, B[e] \subseteq DOMAIN T
  PROVE  Rebuild(B, W, T, Put(S, e, Image(T, B[e])), own)
  <1> DEFINE S1 == Put(S, e, Image(T, B[e]))
  <1>p. /\ DOMAIN S1 = DOMAIN S \cup {e} /\ S1[e] = Image(T, B[e])
        /\ \A r \in DOMAIN S : r # e => S1[r] = S[r]
    BY DEF Put
  <1>1. ASSUME IsInjective(T), NEW u \in DOMAIN T
        PROVE  B[u] \subseteq DOMAIN T /\ S1[T[u]] = Image(T, B[u])
    <2>1. T[u] # e /\ T[u] \in DOMAIN S
      BY RidFacts, InRange DEF Rebuild, IsV2R
    <2> QED BY <1>1, <2>1, <1>p DEF Rebuild
  <1> SUFFICES Rebuild(B, W, T, S1, own)
    OBVIOUS
  <1> HIDE DEF S1
  <1> QED BY <1>1, <1>p DEF Rebuild

(* checkAllIds passes: what was built is what the database says.           *)
LEMMA RebuildEnds ==
  ASSUME NEW own, IsOwn(own), NEW B, NEW W, NEW T, NEW S, IsView(B), IsV2R(W, own),
         Rebuild(B, W, T, S, own), IsInjective(T),
         DOMAIN B \cap Vid \subseteq DOMAIN T, DOMAIN B \cap Entry \subseteq DOMAIN S,
         DOMAIN T = DOMAIN W, Full(W)
  PROVE  Target(B, T, own \ Range(T), S, own)
  <1>0. DOMAIN T = DOMAIN B \cap Vid /\ SwitchVid \in DOMAIN T
    BY DEF Rebuild
  <1>e. DOMAIN B \subseteq Vid \cup Entry /\ Vid \cap Entry = {}
    BY RidFacts DEF IsView
  <1>1. ASSUME NEW k \in DOMAIN B
        PROVE  B[k] \subseteq DOMAIN T /\ Id(T, k) \in DOMAIN S /\ S[Id(T, k)] = Image(T, B[k])
    <2>1. CASE k \in Vid
      BY <2>1, <1>0, InRange DEF Rebuild, Id
    <2>2. CASE k \notin Vid
      BY <2>2, <1>e DEF Rebuild, Id
    <2> QED BY <2>1, <2>2
  <1>2. ASSUME NEW r \in DOMAIN S
        PROVE  \/ r \in Range(T) \/ r \in DOMAIN B \cap Entry
               \/ r \in (own \ Removable) \cup (own \ Range(T)) /\ S[r] = {}
    BY DEF Rebuild
  <1>3. Full(T)
    <2> SUFFICES ASSUME NEW r \in Default \ Removable PROVE r \in Range(T)
      BY DEF Full
    <2>1. PICK u \in DOMAIN W : r = W[u]
      BY OfRange DEF Full
    <2>2. r \in own
      BY DEF IsOwn
    <2>3. T[u] = r
      BY <2>1, <2>2 DEF Rebuild, IsV2R
    <2> QED BY <2>1, <2>3, InRange
  <1> QED BY <1>0, <1>1, <1>2, <1>3 DEF Target, Linked, Complete, Built, Rebuild

-----------------------------------------------------------------------------
(* Control: the stage says which step is next.                             *)

Next1(step) == work # <<>> /\ Head(work) = step

(* Each stage says which step is next.                                     *)
LEMMA Heads ==
  /\ AsicStage => Next1("asic")
  /\ V2rStage => Next1("v2r")
  /\ R2vStage => Next1("r2v")
  /\ DbStage => Next1("db")
  /\ WipeStage => Next1("wipe")
  /\ WriteStage => Next1("write")
  /\ DelV2rStage => Next1("delv2r")
  /\ DelR2vStage => Next1("delr2v")
  /\ HsetStage => Next1("hset")
  /\ DiscoverStage => Next1("discover")
  /\ SaveStage => Next1("save")
  /\ ReadStage => Next1("read")
  /\ SwitchStage => Next1("switch")
  /\ ProcessStage => Next1("process")
  /\ CheckStage => Next1("check")
  /\ PostStage => Next1("postremove")
  /\ WarmStage => Next1("warm")
  <1>1. AsicStage => Next1("asic")
    BY DEF AsicStage, Next1
  <1>2. V2rStage => Next1("v2r")
    BY DEF V2rStage, Next1
  <1>3. R2vStage => Next1("r2v")
    BY DEF R2vStage, Next1
  <1>4. DbStage => Next1("db")
    BY DEF DbStage, Next1
  <1>5. WipeStage => Next1("wipe")
    BY DEF WipeStage, Next1
  <1>6. WriteStage => Next1("write")
    BY DEF WriteStage, Next1
  <1>7. DelV2rStage => Next1("delv2r")
    BY DEF DelV2rStage, Next1
  <1>8. DelR2vStage => Next1("delr2v")
    BY DEF DelR2vStage, Next1
  <1>9. HsetStage => Next1("hset")
    BY DEF HsetStage, Next1
  <1>10. DiscoverStage => Next1("discover")
    BY DEF DiscoverStage, ColdDiscover, AfterSwitch, Next1
  <1>11. SaveStage => Next1("save")
    BY DEF AfterDiscover, SaveStage, BootSave, WarmSave, WarmAgain, ColdSave, Next1
  <1>12. ReadStage => Next1("read")
    BY DEF ReadStage, ColdStart, Next1
  <1>13. SwitchStage => Next1("switch")
    BY DEF SwitchStage, AfterRead, Next1
  <1>14. ProcessStage => Next1("process")
    BY DEF ProcessStage, AfterSave, Next1
  <1>15. CheckStage => Next1("check")
    BY DEF CheckStage, AfterProcess, Next1
  <1>16. PostStage => Next1("postremove")
    BY DEF PostStage, Next1
  <1>17. WarmStage => Next1("warm")
    BY DEF WarmStage, WarmStart, Next1
  <1> QED BY <1>1, <1>2, <1>3, <1>4, <1>5, <1>6, <1>7, <1>8, <1>9, <1>10, <1>11, <1>12,
             <1>13, <1>14, <1>15, <1>16, <1>17

(* And so the next step says which stage syncd is in.                      *)
LEMMA StageAt ==
  ASSUME Stage
  PROVE  /\ At("asic") => AsicStage
         /\ At("v2r") => V2rStage
         /\ At("r2v") => R2vStage
         /\ At("db") => DbStage
         /\ At("wipe") => WipeStage
         /\ At("write") => WriteStage
         /\ At("delv2r") => DelV2rStage
         /\ At("delr2v") => DelR2vStage
         /\ At("hset") => HsetStage
         /\ At("discover") => DiscoverStage
         /\ At("save") => SaveStage
         /\ At("read") => ReadStage
         /\ At("switch") => SwitchStage
         /\ At("process") => ProcessStage
         /\ At("check") => CheckStage
         /\ At("postremove") => PostStage
         /\ At("warm") => WarmStage
         /\ Idle => Up
  BY Heads DEF Stage, At, Idle, Next1

(* In the states that matter here.                                         *)
LEMMA Running ==
  ASSUME RestartInv, Followed, syncd = "run"
  PROVE  Types /\ warm = FALSE /\ Stage
  BY DEF RestartInv, Followed, Types

(* A step that keeps the types and leads to a stage preserves the          *)
(* invariant.                                                              *)
LEMMA KeepsRunning ==
  ASSUME RestartInv, Followed, syncd = "run", syncd' = "run",
         upgraded' = upgraded, warm' = warm, syncMode' = syncMode,
         IsView(ASIC_STATE'), IsV2R(VIDTORID', OwnObjects), IsR2V(RIDTOVID', OwnObjects),
         Stage'
  PROVE  RestartInv'
  <1>1. OwnObjects' = OwnObjects
    BY DEF OwnObjects
  <1>2. Types'
    BY <1>1, Running DEF Types
  <1> QED BY <1>2, Running DEF RestartInv

(* So does a step in which syncd fails, if the database it leaves is safe. *)
LEMMA Fails ==
  ASSUME RestartInv, Followed, syncd = "run", syncd' \in {"failed", "refused"},
         upgraded' = upgraded, warm' = warm, syncMode' = syncMode,
         IsView(ASIC_STATE'), IsV2R(VIDTORID', OwnObjects), IsR2V(RIDTOVID', OwnObjects),
         Rest',
         \/ syncd' = "refused"
         \/ torn' = {} => SwitchVid \notin DOMAIN ASIC_STATE' \/ DOMAIN ASIC_STATE' \cap otherEntry' # {}
  PROVE  RestartInv'
  <1>1. OwnObjects' = OwnObjects
    BY DEF OwnObjects
  <1>2. Types'
    BY <1>1, Running DEF Types
  <1> QED BY <1>2, Running DEF RestartInv

-----------------------------------------------------------------------------
(* Requests.                                                               *)

(* Up is about the database, the ASIC and the history only.                *)
LEMMA UpStays ==
  ASSUME Up, ASIC_STATE' = ASIC_STATE, VIDTORID' = VIDTORID, RIDTOVID' = RIDTOVID,
         asic' = asic, upgraded' = upgraded, told' = told, torn' = torn
  PROVE  Up'
  BY DEF Up, Now, InOrder, OwnObjects

(* What a request finds.                                                   *)
LEMMA Requested ==
  ASSUME RestartInv, Idle, Followed
  PROVE  /\ IsView(ASIC_STATE) /\ IsV2R(VIDTORID, OwnObjects) /\ IsR2V(RIDTOVID, OwnObjects)
         /\ Up /\ Agree(ASIC_STATE, VIDTORID, RIDTOVID, asic, OwnObjects)
         /\ syncMode \in BOOLEAN /\ syncd = "run"
         /\ SwitchVid \in DOMAIN VIDTORID => Full(VIDTORID)
         /\ SwitchVid \notin DOMAIN VIDTORID =>
              DOMAIN ASIC_STATE = {} /\ DOMAIN VIDTORID = {} /\ DOMAIN RIDTOVID = {}
  <1>1. Types /\ Stage /\ syncd = "run"
    BY Running DEF Idle
  <1>2. Up
    BY <1>1, StageAt
  <1>3. Stored(ASIC_STATE, VIDTORID, RIDTOVID)
    BY <1>2 DEF Up, Now, Agree
  <1>4. DOMAIN VIDTORID = {} => DOMAIN RIDTOVID = {}
    BY <1>3 DEF Stored, Paired, Range
  <1> QED BY <1>1, <1>2, <1>3, <1>4 DEF Types, Up, Now, Stored, Complete

(* Accepting a request to create the switch preserves the invariant.       *)
LEMMA CreateSwitchStep ==
  ASSUME RestartInv, Followed, CreateSwitch
  PROVE  RestartInv'
  <1>1. Idle
    BY DEF CreateSwitch, Request
  <1>2. /\ UNCHANGED <<ASIC_STATE, VIDTORID, RIDTOVID, asic, upgraded, warm, syncMode, torn, syncd, told>>
        /\ arg' = [NoArg EXCEPT !.key = SwitchVid, !.refs = {}, !.remove = FALSE]
        /\ work' = SwitchSteps
        /\ SwitchVid \notin DOMAIN VIDTORID
    BY DEF CreateSwitch, Request, redis, env, Has
  <1>3. OfSwitch'
    BY <1>2, IdAssumption DEF NoArg, OfSwitch, OfRequest, IsArg
  <1>4. SwitchPending'
    BY <1>1, <1>2, <1>3, Requested DEF SwitchPending
  <1>5. Up'
    BY <1>1, <1>2, Requested, UpStays
  <1>6. Stage'
    <2>1. CASE syncMode
      <3>1. work' = <<"asic", "v2r", "r2v", "discover", "save", "db">> /\ syncMode'
        BY <2>1, <1>2 DEF SwitchSteps
      <3> QED BY <3>1, <1>4, <1>5 DEF AsicStage, Stage
    <2>2. CASE ~syncMode
      <3>1. work' = <<"db", "asic", "v2r", "r2v", "discover", "save">> /\ ~syncMode'
        BY <2>2, <1>2 DEF SwitchSteps
      <3> QED BY <3>1, <1>4 DEF DbStage, Stage
    <2> QED BY <2>1, <2>2
  <1> QED BY <1>1, <1>2, <1>6, Requested, KeepsRunning

(* Accepting a request to create an object preserves it.                   *)
LEMMA CreateObjectStep ==
  ASSUME RestartInv, Followed, NEW v \in Vid, NEW refs, CreateObject(v, refs)
  PROVE  RestartInv'
  <1>1. Idle
    BY DEF CreateObject, Request
  <1>2. /\ UNCHANGED <<ASIC_STATE, VIDTORID, RIDTOVID, asic, upgraded, warm, syncMode, torn, syncd, told>>
        /\ arg' = [NoArg EXCEPT !.key = v, !.refs = refs, !.remove = FALSE]
        /\ work' = ObjectSteps
        /\ SwitchVid \in DOMAIN VIDTORID
        /\ v \in Vid \ {SwitchVid} /\ v \notin DOMAIN ASIC_STATE /\ v \notin DOMAIN VIDTORID
        /\ refs \subseteq DOMAIN VIDTORID
    BY DEF CreateObject, Request, redis, env, Has, UnusedVid
  <1>a. arg'.key = v /\ arg'.refs = refs /\ arg'.remove = FALSE
    BY <1>2 DEF NoArg
  <1>o. OwnObjects' = OwnObjects
    BY <1>2 DEF OwnObjects
  <1>3. OfObject'
    <2>1. refs \subseteq Vid
      BY <1>1, <1>2, Requested DEF IsV2R
    <2> QED BY <2>1, <1>1, <1>2, Requested DEF Whole, NoArg, OfObject, OfRequest, IsArg
  <1>4. ObjectPending'
    <2> SUFFICES ASSUME NEW id \in UserRid \ DOMAIN asic
                 PROVE  Agree(Put(ASIC_STATE, v, refs), Put(VIDTORID, v, id), Put(RIDTOVID, id, v),
                              Put(asic, id, Image(VIDTORID, refs)), OwnObjects)
      BY <1>2, <1>3, <1>a, <1>o DEF ObjectPending, ObjectMade
    <2>1. /\ IsV2R(VIDTORID, OwnObjects) /\ IsOwn(OwnObjects)
          /\ Agree(ASIC_STATE, VIDTORID, RIDTOVID, asic, OwnObjects)
      BY <1>1, Requested, OwnIsOwn
    <2> HIDE DEF OwnObjects
    <2> QED BY <2>1, <1>2, CreatedObject
  <1>5. Up'
    BY <1>1, <1>2, Requested, UpStays
  <1>6. Stage'
    <2>1. CASE syncMode
      <3>1. work' = <<"asic", "v2r", "r2v", "db">> /\ syncMode'
        BY <2>1, <1>2 DEF ObjectSteps
      <3> QED BY <3>1, <1>4, <1>5 DEF AsicStage, Stage
    <2>2. CASE ~syncMode
      <3>1. work' = <<"db", "asic", "v2r", "r2v">> /\ ~syncMode'
        BY <2>2, <1>2 DEF ObjectSteps
      <3> QED BY <3>1, <1>4 DEF DbStage, Stage
    <2> QED BY <2>1, <2>2
  <1> QED BY <1>1, <1>2, <1>6, Requested, KeepsRunning

(* Accepting a request to create an entry preserves it.                    *)
LEMMA CreateEntryStep ==
  ASSUME RestartInv, Followed, NEW e \in Entry, NEW refs, CreateEntry(e, refs)
  PROVE  RestartInv'
  <1>1. Idle
    BY DEF CreateEntry, Request
  <1>2. /\ UNCHANGED <<ASIC_STATE, VIDTORID, RIDTOVID, asic, upgraded, warm, syncMode, torn, syncd, told>>
        /\ arg' = [NoArg EXCEPT !.key = e, !.refs = refs, !.remove = FALSE]
        /\ work' = EntrySteps
        /\ SwitchVid \in DOMAIN VIDTORID
        /\ e \notin DOMAIN ASIC_STATE
        /\ refs \subseteq DOMAIN VIDTORID
    BY DEF CreateEntry, Request, redis, env, Has
  <1>a. arg'.key = e /\ arg'.refs = refs /\ arg'.remove = FALSE
    BY <1>2 DEF NoArg
  <1>o. OwnObjects' = OwnObjects
    BY <1>2 DEF OwnObjects
  <1>3. OfEntry'
    <2>1. refs \subseteq Vid
      BY <1>1, <1>2, Requested DEF IsV2R
    <2> QED BY <2>1, <1>1, <1>2, Requested DEF Whole, NoArg, OfEntry, OfRequest, IsArg
  <1>4. EntryPending'
    <2> SUFFICES Agree(Put(ASIC_STATE, e, refs), VIDTORID, RIDTOVID,
                       Put(asic, e, Image(VIDTORID, refs)), OwnObjects)
      BY <1>2, <1>3, <1>a, <1>o DEF EntryPending, Written
    <2>1. /\ IsV2R(VIDTORID, OwnObjects) /\ IsOwn(OwnObjects)
          /\ Agree(ASIC_STATE, VIDTORID, RIDTOVID, asic, OwnObjects)
      BY <1>1, Requested, OwnIsOwn
    <2> QED BY <2>1, <1>2, CreatedEntry
  <1>5. Up'
    BY <1>1, <1>2, Requested, UpStays
  <1>6. Stage'
    <2>1. CASE syncMode
      <3>1. work' = <<"asic", "db">> /\ syncMode'
        BY <2>1, <1>2 DEF EntrySteps
      <3> QED BY <3>1, <1>4, <1>5 DEF AsicStage, Stage
    <2>2. CASE ~syncMode
      <3>1. work' = <<"db", "asic">> /\ ~syncMode'
        BY <2>2, <1>2 DEF EntrySteps
      <3> QED BY <3>1, <1>4 DEF DbStage, Stage
    <2> QED BY <2>1, <2>2
  <1> QED BY <1>1, <1>2, <1>6, Requested, KeepsRunning

(* Accepting a request to remove an object or an entry preserves it.       *)
LEMMA RemoveStep ==
  ASSUME RestartInv, Followed, NEW k \in Vid \cup Entry, Remove(k)
  PROVE  RestartInv'
  <1>1. Idle
    BY DEF Remove
  <1>2. /\ UNCHANGED <<ASIC_STATE, VIDTORID, RIDTOVID, asic, upgraded, warm, syncMode, torn, syncd, told>>
        /\ arg' = [NoArg EXCEPT !.key = k, !.refs = {}, !.remove = TRUE]
        /\ work' = IF k \in Vid THEN ObjectSteps ELSE EntrySteps
        /\ k \in DOMAIN ASIC_STATE \ {SwitchVid}
        /\ \A l \in DOMAIN ASIC_STATE : k \notin ASIC_STATE[l]
        /\ k \in Vid => k \in DOMAIN VIDTORID /\ VIDTORID[k] \in Removable \cup UserRid
    BY DEF Remove, Request, redis, env, Has, Referred
  <1>a. arg'.key = k /\ arg'.refs = {} /\ arg'.remove = TRUE
    BY <1>2 DEF NoArg
  <1>o. OwnObjects' = OwnObjects
    BY <1>2 DEF OwnObjects
  <1>f. Whole(VIDTORID')
    BY <1>1, <1>2, Requested DEF Whole
  <1>r. OfRequest'
    BY <1>2 DEF NoArg, OfRequest, IsArg
  <1>g. /\ IsView(ASIC_STATE) /\ IsV2R(VIDTORID, OwnObjects) /\ IsOwn(OwnObjects)
        /\ Agree(ASIC_STATE, VIDTORID, RIDTOVID, asic, OwnObjects)
    BY <1>1, Requested, OwnIsOwn
  <1>5. Up'
    BY <1>1, <1>2, Requested, UpStays
  <1>6. CASE k \in Vid
    <2>1. OfObject'
      BY <1>6, <1>2, <1>a, <1>r, <1>f DEF OfObject
    <2>2. Agree(Del(ASIC_STATE, k), Del(VIDTORID, k), Del(RIDTOVID, VIDTORID[k]),
                Del(asic, VIDTORID[k]), OwnObjects)
      BY <1>6, <1>2, <1>g, RemovedObject
    <2>3. ObjectPending'
      BY <1>6, <2>1, <2>2, <1>2, <1>a, <1>o DEF ObjectPending, ObjectMade
    <2>4. Stage'
      <3>1. CASE syncMode
        <4>1. work' = <<"asic", "v2r", "r2v", "db">> /\ syncMode'
          BY <3>1, <1>2, <1>6 DEF ObjectSteps
        <4> QED BY <4>1, <2>3, <1>5 DEF AsicStage, Stage
      <3>2. CASE ~syncMode
        <4>1. work' = <<"db", "asic", "v2r", "r2v">> /\ ~syncMode'
          BY <3>2, <1>2, <1>6 DEF ObjectSteps
        <4> QED BY <4>1, <2>3 DEF DbStage, Stage
      <3> QED BY <3>1, <3>2
    <2> QED BY <1>1, <1>2, <2>4, Requested, KeepsRunning
  <1>7. CASE k \notin Vid
    <2>1. OfEntry'
      BY <1>7, <1>2, <1>a, <1>r, <1>f DEF OfEntry
    <2>2. Agree(Del(ASIC_STATE, k), VIDTORID, RIDTOVID, Del(asic, k), OwnObjects)
      BY <1>7, <1>2, <1>g, RemovedEntry
    <2>3. EntryPending'
      BY <1>7, <2>1, <2>2, <1>2, <1>a, <1>o DEF EntryPending, Written
    <2>4. Stage'
      <3>1. CASE syncMode
        <4>1. work' = <<"asic", "db">> /\ syncMode'
          BY <3>1, <1>2, <1>7 DEF EntrySteps
        <4> QED BY <4>1, <2>3, <1>5 DEF AsicStage, Stage
      <3>2. CASE ~syncMode
        <4>1. work' = <<"db", "asic">> /\ ~syncMode'
          BY <3>2, <1>2, <1>7 DEF EntrySteps
        <4> QED BY <4>1, <2>3 DEF DbStage, Stage
      <3> QED BY <3>1, <3>2
    <2> QED BY <1>1, <1>2, <2>4, Requested, KeepsRunning
  <1> QED BY <1>6, <1>7

(* Setting arg.cur leaves the other fields of arg alone.                   *)
LEMMA CurIsSet ==
  ASSUME NEW c, IsArg, arg' = [arg EXCEPT !.cur = c]
  PROVE  /\ IsArg' /\ arg'.cur = c /\ arg'.start = arg.start
         /\ arg'.key = arg.key /\ arg'.refs = arg.refs /\ arg'.remove = arg.remove
         /\ arg'.view = arg.view /\ arg'.map = arg.map /\ arg'.oids = arg.oids
         /\ arg'.v2r = arg.v2r /\ arg'.translated = arg.translated /\ arg'.todo = arg.todo
  BY DEF IsArg

(* What arg says of a request holds as long as those fields do.            *)
LEMMA RequestStays ==
  ASSUME OfRequest, IsArg', arg'.start = arg.start,
         arg'.key = arg.key, arg'.refs = arg.refs, arg'.remove = arg.remove
  PROVE  /\ OfRequest'
         /\ OfSwitch => OfSwitch'
         /\ OfObject /\ Whole(VIDTORID') => OfObject'
         /\ OfEntry /\ Whole(VIDTORID') => OfEntry'
  BY DEF OfRequest, OfSwitch, OfObject, OfEntry

(* The vendor's part of processQuadEvent preserves the invariant: what the *)
(* database lacks, the steps that are left write.                          *)
LEMMA OnAsicStep ==
  ASSUME RestartInv, Followed, OnAsic
  PROVE  RestartInv'
  <1>1. /\ At("asic") /\ syncd = "run"
        /\ UNCHANGED <<ASIC_STATE, VIDTORID, RIDTOVID, upgraded, warm, syncMode, torn>>
    BY DEF OnAsic, At, redis, env
  <1>2. Types /\ Stage
    BY <1>1, Running
  <1>3. AsicStage
    BY <1>1, <1>2, StageAt
  <1>4. /\ IsView(ASIC_STATE') /\ IsV2R(VIDTORID', OwnObjects) /\ IsR2V(RIDTOVID', OwnObjects)
    BY <1>1, <1>2 DEF Types
  <1>o. OwnObjects' = OwnObjects
    BY <1>1 DEF OwnObjects
  <1>r. SwitchRid \notin Entry /\ SwitchRid \notin UserRid /\ SwitchVid \notin Entry /\ SwitchRid \in OwnObjects
        /\ Vid \cap Entry = {}
    BY OwnIsOwn, RidFacts
  <1>k. syncd' = syncd
    BY DEF OnAsic, Step
  (* A new switch. *)
  <1>5. ASSUME SwitchPending, Len(work) # 1,
               work' = Tail(work) => work' \in {<<"v2r", "r2v", "discover", "save", "db">>,
                                                <<"v2r", "r2v", "discover", "save">>}
        PROVE  RestartInv'
    <2>1. /\ asic' = [d \in OwnObjects |-> {}] /\ discovered' = OwnObjects
          /\ Step([arg EXCEPT !.cur = <<SwitchVid, SwitchRid>>])
      BY <1>5, <1>r DEF OnAsic, SwitchPending, OfSwitch
    <2>2. work' = Tail(work) /\ arg' = [arg EXCEPT !.cur = <<SwitchVid, SwitchRid>>]
      BY <1>5, <2>1 DEF Step
    <2>3. IsArg /\ OfRequest /\ OfSwitch
      BY <1>5 DEF SwitchPending, OfSwitch, OfRequest
    <2>4. OfSwitch' /\ arg'.cur = <<SwitchVid, SwitchRid>>
      BY <2>2, <2>3, CurIsSet, RequestStays
    <2>5. SwitchOnAsic'
      BY <2>1, <2>4, <1>1, <1>5, <1>o DEF SwitchOnAsic, SwitchPending
    <2>6. Stage'
      BY <2>2, <2>4, <2>5, <1>1, <1>5 DEF Stage, V2rStage, SwitchPending
    <2> QED BY <2>6, <1>k, <1>1, <1>4, KeepsRunning
  (* An object. *)
  <1>6. ASSUME ObjectPending, Len(work) # 1
        PROVE  ObjectOnAsic' /\ (DbDone => DbDone') /\ work' = Tail(work)
    <2>0. IsArg /\ OfRequest /\ OfObject /\ arg.key \in Vid /\ arg.key # SwitchVid
      BY <1>6 DEF ObjectPending, OfObject, OfRequest
    <2>1. CASE arg.remove
      <3> DEFINE id == VIDTORID[arg.key]
      <3>1. asic' = Del(asic, id) /\ Step([arg EXCEPT !.cur = <<arg.key, id>>])
        BY <2>0, <2>1 DEF OnAsic
      <3>2. work' = Tail(work) /\ arg' = [arg EXCEPT !.cur = <<arg.key, id>>]
        BY <3>1, <1>6 DEF Step
      <3>3. /\ OfObject' /\ arg'.cur = <<arg.key, id>> /\ arg'.key = arg.key /\ arg'.remove = arg.remove
            /\ arg'.refs = arg.refs
        BY <3>2, <2>0, <1>1, CurIsSet, RequestStays DEF OfObject
      <3>4. id \in OwnObjects \cup UserRid
        BY <1>6, <2>1, <1>2 DEF ObjectPending, Types, IsV2R
      <3>5. Agree(Del(ASIC_STATE, arg.key), Del(VIDTORID, arg.key), Del(RIDTOVID, id), Del(asic, id), OwnObjects)
        BY <1>6, <2>1 DEF ObjectPending, ObjectMade
      <3>6. ObjectMade(ASIC_STATE, VIDTORID, RIDTOVID, asic, arg.cur[2])'
        BY <3>1, <3>3, <3>5, <2>1, <1>1, <1>o DEF ObjectMade
      <3> QED BY <3>2, <3>3, <3>4, <3>6, <1>1, <1>o, <2>1 DEF ObjectOnAsic, DbDone, Written
    <2>2. CASE ~arg.remove
      <3>1. PICK id \in UserRid \ DOMAIN asic :
              /\ asic' = Put(asic, id, Image(VIDTORID, arg.refs))
              /\ Step([arg EXCEPT !.cur = <<arg.key, id>>])
        BY <2>0, <2>2, <1>r DEF OnAsic
      <3>2. work' = Tail(work) /\ arg' = [arg EXCEPT !.cur = <<arg.key, id>>]
        BY <3>1, <1>6 DEF Step
      <3>3. /\ OfObject' /\ arg'.cur = <<arg.key, id>> /\ arg'.key = arg.key /\ arg'.remove = arg.remove
            /\ arg'.refs = arg.refs
        BY <3>2, <2>0, <1>1, CurIsSet, RequestStays DEF OfObject
      <3>5. Agree(Put(ASIC_STATE, arg.key, arg.refs), Put(VIDTORID, arg.key, id), Put(RIDTOVID, id, arg.key),
                  Put(asic, id, Image(VIDTORID, arg.refs)), OwnObjects)
        BY <1>6, <2>2 DEF ObjectPending, ObjectMade
      <3>6. ObjectMade(ASIC_STATE, VIDTORID, RIDTOVID, asic, arg.cur[2])'
        BY <3>1, <3>3, <3>5, <2>2, <1>1, <1>o DEF ObjectMade
      <3> QED BY <3>2, <3>3, <3>6, <1>1, <1>o, <2>2 DEF ObjectOnAsic, DbDone, Written
    <2> QED BY <2>1, <2>2
  (* An entry. *)
  <1>7. ASSUME EntryPending
        PROVE  /\ Agree(Written(ASIC_STATE), VIDTORID, RIDTOVID, asic', OwnObjects)
               /\ \E c : Step([arg EXCEPT !.cur = c])
    <2>0. arg.key \in Entry /\ arg.key \notin Vid /\ arg.key # SwitchRid
      BY <1>7, <1>r DEF EntryPending, OfEntry
    <2> QED BY <1>7, <2>0 DEF OnAsic, EntryPending
  <1>8. CASE work = <<"asic", "v2r", "r2v", "discover", "save", "db">> /\ SwitchPending
    BY <1>8, <1>5
  <1>9. CASE work = <<"asic", "v2r", "r2v", "discover", "save">> /\ SwitchPending
    BY <1>9, <1>5
  <1>10. CASE work = <<"asic", "v2r", "r2v", "db">> /\ ObjectPending
    <2>1. work' = <<"v2r", "r2v", "db">> /\ ObjectOnAsic'
      BY <1>10, <1>6
    <2> QED BY <2>1, <1>k, <1>1, <1>4, KeepsRunning DEF Stage, V2rStage
  <1>11. CASE work = <<"asic", "v2r", "r2v">> /\ ObjectPending /\ DbDone
    <2>1. work' = <<"v2r", "r2v">> /\ ObjectOnAsic' /\ DbDone'
      BY <1>11, <1>6
    <2> QED BY <2>1, <1>k, <1>1, <1>4, KeepsRunning DEF Stage, V2rStage
  <1>12. CASE work = <<"asic", "db">> /\ EntryPending
    <2>1. PICK c : Step([arg EXCEPT !.cur = c])
      BY <1>12, <1>7
    <2>2. work' = <<"db">> /\ arg' = [arg EXCEPT !.cur = c]
      BY <2>1, <1>12 DEF Step
    <2>3. IsArg /\ OfRequest /\ OfEntry
      BY <1>12 DEF EntryPending, OfEntry, OfRequest
    <2>4. /\ OfEntry' /\ Whole(VIDTORID')
          /\ arg'.key = arg.key /\ arg'.remove = arg.remove /\ arg'.refs = arg.refs
      BY <2>2, <2>3, <1>1, CurIsSet, RequestStays DEF OfEntry
    <2>5. Now(Written(ASIC_STATE), VIDTORID, RIDTOVID)'
      BY <1>12, <1>7, <2>4, <1>1, <1>o DEF Now, Written
    <2>6. Stage'
      BY <2>2, <2>4, <2>5 DEF Stage, DbStage
    <2> QED BY <2>6, <1>k, <1>1, <1>4, KeepsRunning
  <1>13. CASE work = <<"asic">> /\ EntryPending /\ DbDone
    <2>1. PICK c : Step([arg EXCEPT !.cur = c])
      BY <1>13, <1>7
    <2>2. arg.start = FALSE
      BY <1>13 DEF EntryPending, OfEntry, OfRequest
    <2>3. work' = <<>> /\ (torn = {} => told' = ASIC_STATE')
      BY <2>1, <2>2, <1>13 DEF Step
    <2>4. Agree(ASIC_STATE', VIDTORID', RIDTOVID', asic', OwnObjects')
      BY <1>13, <1>7, <1>1, <1>o DEF DbDone
    <2>5. Up'
      BY <2>3, <2>4, <1>1 DEF Up, Now, InOrder, Kept
    <2> QED BY <2>3, <2>5, <1>k, <1>1, <1>4, KeepsRunning DEF Stage
  <1> QED BY <1>3, <1>8, <1>9, <1>10, <1>11, <1>12, <1>13 DEF AsicStage

(* A refusal of the vendor preserves it, as an answer and as an exception. *)
LEMMA RefusedStep ==
  ASSUME RestartInv, Followed, Refused
  PROVE  RestartInv'
  <1>1. /\ At("asic") /\ syncd = "run"
        /\ UNCHANGED <<ASIC_STATE, VIDTORID, RIDTOVID, asic, upgraded, warm, syncMode>>
    BY DEF Refused, At, redis
  <1>2. Types /\ Stage
    BY <1>1, Running
  <1>3. AsicStage
    BY <1>1, <1>2, StageAt
  <1>4. /\ IsView(ASIC_STATE') /\ IsV2R(VIDTORID', OwnObjects) /\ IsR2V(RIDTOVID', OwnObjects)
    BY <1>1, <1>2 DEF Types
  <1>5. CASE syncMode
    <2>1. Up
      BY <1>3, <1>5 DEF AsicStage
    <2>2. work' = <<>> /\ UNCHANGED <<syncd, torn, told>>
      BY <1>5 DEF Refused
    <2>3. Up'
      BY <2>1, <2>2, <1>1, UpStays
    <2> QED BY <2>2, <2>3, <1>1, <1>4, KeepsRunning DEF Stage
  <1>6. CASE ~syncMode
    <2>1. syncd' = "failed" /\ torn' # {}
      BY <1>6 DEF Refused, Fail, Halt
    <2>2. Full(VIDTORID) \/ DOMAIN VIDTORID = {}
      BY <1>3, <1>6 DEF AsicStage, SwitchPending, ObjectPending, EntryPending, OfObject, OfEntry, Whole
    <2>3. Rest'
      BY <2>1, <2>2, <1>1, FullIsSafe DEF Rest
    <2> QED BY <2>1, <2>3, <1>1, <1>4, Fails
  <1> QED BY <1>5, <1>6

(* Put keeps the types of the three tables.                                *)
LEMMA TypesOfPut ==
  ASSUME NEW own, NEW A, NEW V, NEW R
  PROVE  /\ \A k \in Vid \cup Entry, refs \in SUBSET Vid :
              IsView(A) /\ (k = SwitchVid => refs = {}) => IsView(Put(A, k, refs))
         /\ \A v \in Vid, rid \in own \cup UserRid :
              IsV2R(V, own) /\ (v = SwitchVid => rid = SwitchRid) => IsV2R(Put(V, v, rid), own)
         /\ \A v \in Vid, rid \in own \cup UserRid : IsR2V(R, own) => IsR2V(Put(R, rid, v), own)
  <1>1. ASSUME NEW k \in Vid \cup Entry, NEW refs \in SUBSET Vid, IsView(A), k = SwitchVid => refs = {}
        PROVE  IsView(Put(A, k, refs))
    BY <1>1 DEF IsView, Put
  <1>2. ASSUME NEW v \in Vid, NEW rid \in own \cup UserRid, IsV2R(V, own), v = SwitchVid => rid = SwitchRid
        PROVE  IsV2R(Put(V, v, rid), own)
    BY <1>2 DEF IsV2R, Put
  <1>3. ASSUME NEW v \in Vid, NEW rid \in own \cup UserRid, IsR2V(R, own) PROVE IsR2V(Put(R, rid, v), own)
    BY <1>3 DEF IsR2V, Put
  <1> QED BY <1>1, <1>2, <1>3

(* So does Del.                                                            *)
LEMMA TypesOfDel ==
  ASSUME NEW own, NEW A, NEW V, NEW R, NEW x
  PROVE  /\ IsView(A) => IsView(Del(A, x))
         /\ IsV2R(V, own) => IsV2R(Del(V, x), own)
         /\ IsR2V(R, own) => IsR2V(Del(R, x), own)
  BY DEF IsView, IsV2R, IsR2V, Del, Restrict

(* The write to VIDTORID preserves the invariant.                          *)
LEMMA OnV2rStep ==
  ASSUME RestartInv, Followed, OnV2r
  PROVE  RestartInv'
  <1>1. /\ At("v2r") /\ syncd = "run" /\ syncd' = "run"
        /\ UNCHANGED <<ASIC_STATE, RIDTOVID, asic, discovered, upgraded, warm, syncMode, torn>>
        /\ VIDTORID' = IF arg.remove THEN Del(VIDTORID, arg.cur[1]) ELSE Put(VIDTORID, arg.cur[1], arg.cur[2])
        /\ Step(arg)
    BY DEF OnV2r, At, Step, env
  <1>2. Types /\ Stage
    BY <1>1, Running
  <1>3. V2rStage
    BY <1>1, <1>2, StageAt
  <1>4. IsView(ASIC_STATE') /\ IsR2V(RIDTOVID', OwnObjects)
    BY <1>1, <1>2 DEF Types
  <1>o. OwnObjects' = OwnObjects
    BY <1>1 DEF OwnObjects
  <1>r. SwitchRid \in OwnObjects
    BY OwnIsOwn, RidFacts
  <1>a. arg' = arg /\ work' = Tail(work)
    BY <1>1, <1>3 DEF Step, V2rStage
  <1>5. CASE SwitchOnAsic /\ arg.cur = <<SwitchVid, SwitchRid>>
             /\ DOMAIN VIDTORID = {} /\ DOMAIN RIDTOVID = {}
             /\ work \in {<<"v2r", "r2v", "discover", "save", "db">>, <<"v2r", "r2v", "discover", "save">>}
    <2>1. VIDTORID' = Put(VIDTORID, SwitchVid, SwitchRid)
      BY <1>5, <1>1 DEF SwitchOnAsic, OfSwitch
    <2>2. IsV2R(VIDTORID', OwnObjects)
      BY <2>1, <1>2, <1>r, TypesOfPut, IdAssumption DEF Types
    <2>3. DOMAIN VIDTORID' = {SwitchVid}
      BY <2>1, <1>5 DEF Put
    <2>4. SwitchOnAsic'
      BY <1>1, <1>5, <1>a, <1>o DEF SwitchOnAsic, OfSwitch, OfRequest, IsArg
    <2>5. work' \in {<<"r2v", "discover", "save", "db">>, <<"r2v", "discover", "save">>}
      <3>1. CASE work = <<"v2r", "r2v", "discover", "save", "db">>
        BY <3>1, <1>a
      <3>2. CASE work = <<"v2r", "r2v", "discover", "save">>
        BY <3>2, <1>a
      <3> QED BY <3>1, <3>2, <1>5
    <2>6. Stage'
      BY <2>3, <2>4, <2>5, <1>5, <1>1, <1>a DEF Stage, R2vStage
    <2> QED BY <2>2, <2>6, <1>1, <1>4, KeepsRunning
  <1>6. ASSUME ObjectOnAsic
        PROVE  /\ ObjectOnAsic' /\ V2rDone' /\ (DbDone => DbDone')
               /\ IsV2R(VIDTORID', OwnObjects)
    <2> DEFINE id == arg.cur[2]
    <2>0. /\ OfObject /\ OfRequest /\ IsArg /\ arg.cur[1] = arg.key /\ arg.key \in Vid \ {SwitchVid}
          /\ id \in OwnObjects \cup UserRid
          /\ Whole(VIDTORID)
      BY <1>6 DEF ObjectOnAsic, OfObject, OfRequest
    <2>1. DbDone => DbDone'
      BY <1>1, <1>a DEF DbDone, Written
    <2>2. CASE arg.remove
      <3>1. VIDTORID' = Del(VIDTORID, arg.key) /\ Del(VIDTORID', arg.key) = VIDTORID'
        BY <2>0, <2>2, <1>1 DEF Del, Restrict
      <3>2. IsV2R(VIDTORID', OwnObjects)
        BY <3>1, <1>2, TypesOfDel DEF Types
      <3>3. Agree(Del(ASIC_STATE, arg.key), VIDTORID', Del(RIDTOVID, id), asic, OwnObjects)
        BY <3>1, <2>2, <1>6 DEF ObjectOnAsic, ObjectMade
      <3>4. SwitchVid \in DOMAIN VIDTORID'
        BY <3>1, <2>0 DEF Whole, Del, Restrict
      <3>5. Whole(VIDTORID')
        BY <3>3, <3>4 DEF Whole, Agree, Stored, Complete
      <3>6. OfObject'
        BY <3>5, <2>0, <1>a DEF OfObject, OfRequest, IsArg
      <3>7. ObjectMade(ASIC_STATE, VIDTORID, RIDTOVID, asic, arg.cur[2])'
        BY <3>1, <3>3, <2>2, <1>1, <1>a, <1>o DEF ObjectMade
      <3>8. ObjectOnAsic'
        BY <3>6, <3>7, <2>0, <1>6, <1>a, <1>o DEF ObjectOnAsic
      <3>9. V2rDone'
        BY <3>1, <2>2, <1>a DEF V2rDone
      <3> QED BY <3>2, <3>8, <3>9, <2>1
    <2>3. CASE ~arg.remove
      <3>1. VIDTORID' = Put(VIDTORID, arg.key, id) /\ Put(VIDTORID', arg.key, id) = VIDTORID'
        BY <2>0, <2>3, <1>1 DEF Put
      <3>2. IsV2R(VIDTORID', OwnObjects)
        BY <3>1, <2>0, <1>2, TypesOfPut DEF Types
      <3>3. Agree(Put(ASIC_STATE, arg.key, arg.refs), VIDTORID', Put(RIDTOVID, id, arg.key), asic, OwnObjects)
        BY <3>1, <2>3, <1>6 DEF ObjectOnAsic, ObjectMade
      <3>4. SwitchVid \in DOMAIN VIDTORID'
        BY <3>1, <2>0 DEF Whole, Put
      <3>5. Whole(VIDTORID')
        BY <3>3, <3>4 DEF Whole, Agree, Stored, Complete
      <3>6. OfObject'
        BY <3>5, <2>0, <1>a DEF OfObject, OfRequest, IsArg
      <3>7. ObjectMade(ASIC_STATE, VIDTORID, RIDTOVID, asic, arg.cur[2])'
        BY <3>1, <3>3, <2>3, <1>1, <1>a, <1>o DEF ObjectMade
      <3>8. ObjectOnAsic'
        BY <3>6, <3>7, <2>0, <1>6, <1>a, <1>o DEF ObjectOnAsic
      <3>9. V2rDone'
        BY <3>1, <2>3, <1>a DEF V2rDone
      <3> QED BY <3>2, <3>8, <3>9, <2>1
    <2> QED BY <2>2, <2>3
  <1>7. CASE work = <<"v2r", "r2v", "db">> /\ ObjectOnAsic
    <2>1. work' = <<"r2v", "db">>
      BY <1>7, <1>a
    <2> QED BY <2>1, <1>7, <1>6, <1>1, <1>4, KeepsRunning DEF Stage, R2vStage
  <1>8. CASE work = <<"v2r", "r2v">> /\ ObjectOnAsic /\ DbDone
    <2>1. work' = <<"r2v">>
      BY <1>8, <1>a
    <2> QED BY <2>1, <1>8, <1>6, <1>1, <1>4, KeepsRunning DEF Stage, R2vStage
  <1> QED BY <1>3, <1>5, <1>7, <1>8 DEF V2rStage

(* The write to RIDTOVID preserves it.                                     *)
LEMMA OnR2vStep ==
  ASSUME RestartInv, Followed, OnR2v
  PROVE  RestartInv'
  <1>1. /\ At("r2v") /\ syncd = "run" /\ syncd' = "run"
        /\ UNCHANGED <<ASIC_STATE, VIDTORID, asic, discovered, upgraded, warm, syncMode, torn>>
        /\ RIDTOVID' = IF arg.remove THEN Del(RIDTOVID, arg.cur[2]) ELSE Put(RIDTOVID, arg.cur[2], arg.cur[1])
        /\ Step([arg EXCEPT !.cur = <<>>])
    BY DEF OnR2v, At, Step, env
  <1>2. Types /\ Stage
    BY <1>1, Running
  <1>3. R2vStage
    BY <1>1, <1>2, StageAt
  <1>4. IsView(ASIC_STATE') /\ IsV2R(VIDTORID', OwnObjects)
    BY <1>1, <1>2 DEF Types
  <1>o. OwnObjects' = OwnObjects
    BY <1>1 DEF OwnObjects
  <1>r. SwitchRid \in OwnObjects
    BY OwnIsOwn, RidFacts
  <1>a. work' = Tail(work) /\ (Len(work) # 1 => arg' = [arg EXCEPT !.cur = <<>>])
    BY <1>1 DEF Step
  <1>5. CASE SwitchOnAsic /\ arg.cur = <<SwitchVid, SwitchRid>>
             /\ DOMAIN VIDTORID = {SwitchVid} /\ DOMAIN RIDTOVID = {}
             /\ work \in {<<"r2v", "discover", "save", "db">>, <<"r2v", "discover", "save">>}
    <2>1. RIDTOVID' = Put(RIDTOVID, SwitchRid, SwitchVid)
      BY <1>5, <1>1 DEF SwitchOnAsic, OfSwitch
    <2>2. IsR2V(RIDTOVID', OwnObjects)
      BY <2>1, <1>2, <1>r, TypesOfPut, IdAssumption DEF Types
    <2>3. DOMAIN RIDTOVID' = {SwitchRid} /\ RIDTOVID'[SwitchRid] = SwitchVid
      BY <2>1, <1>5 DEF Put
    <2>4. OfSwitch /\ OfRequest /\ IsArg /\ arg' = [arg EXCEPT !.cur = <<>>]
      BY <1>5, <1>a DEF SwitchOnAsic, OfSwitch, OfRequest
    <2>5. OfSwitch' /\ arg'.cur = <<>>
      BY <2>4, CurIsSet, RequestStays
    <2>6. SwitchOnAsic'
      BY <1>1, <1>5, <2>5, <1>o DEF SwitchOnAsic
    <2>7. work' \in {<<"discover", "save", "db">>, <<"discover", "save">>}
      <3>1. CASE work = <<"r2v", "discover", "save", "db">>
        BY <3>1, <1>a
      <3>2. CASE work = <<"r2v", "discover", "save">>
        BY <3>2, <1>a
      <3> QED BY <3>1, <3>2, <1>5
    <2>8. Stage'
      BY <2>3, <2>5, <2>6, <2>7, <1>5, <1>1 DEF Stage, DiscoverStage
    <2> QED BY <2>2, <2>8, <1>1, <1>4, KeepsRunning
  <1>6. ASSUME ObjectOnAsic, V2rDone
        PROVE  /\ Agree(Written(ASIC_STATE), VIDTORID, RIDTOVID', asic, OwnObjects)
               /\ IsR2V(RIDTOVID', OwnObjects)
    <2>0. arg.cur[1] = arg.key /\ arg.key \in Vid /\ arg.cur[2] \in OwnObjects \cup UserRid
      BY <1>6 DEF ObjectOnAsic, OfObject
    <2>1. CASE arg.remove
      BY <2>0, <2>1, <1>6, <1>1, <1>2, TypesOfDel DEF ObjectOnAsic, ObjectMade, V2rDone, Written, Types
    <2>2. CASE ~arg.remove
      BY <2>0, <2>2, <1>6, <1>1, <1>2, TypesOfPut DEF ObjectOnAsic, ObjectMade, V2rDone, Written, Types
    <2> QED BY <2>1, <2>2
  <1>7. CASE work = <<"r2v", "db">> /\ ObjectOnAsic /\ V2rDone
    <2>1. work' = <<"db">> /\ arg' = [arg EXCEPT !.cur = <<>>]
      BY <1>7, <1>a
    <2>2. OfObject /\ OfRequest /\ IsArg /\ Whole(VIDTORID)
      BY <1>7 DEF ObjectOnAsic, OfObject, OfRequest
    <2>3. OfObject' /\ arg'.key = arg.key /\ arg'.remove = arg.remove /\ arg'.refs = arg.refs
      BY <2>1, <2>2, <1>1, CurIsSet, RequestStays
    <2>4. Now(Written(ASIC_STATE), VIDTORID, RIDTOVID)'
      BY <2>3, <1>7, <1>6, <1>1, <1>o DEF Now, Written
    <2>5. Stage'
      BY <2>1, <2>2, <2>3, <2>4, <1>1 DEF Stage, DbStage
    <2> QED BY <2>5, <1>7, <1>6, <1>1, <1>4, KeepsRunning
  <1>8. CASE work = <<"r2v">> /\ ObjectOnAsic /\ V2rDone /\ DbDone
    <2>1. arg.start = FALSE
      BY <1>8 DEF ObjectOnAsic, OfObject, OfRequest
    <2>2. work' = <<>> /\ (torn = {} => told' = ASIC_STATE')
      BY <2>1, <1>8, <1>1 DEF Step
    <2>3. Agree(ASIC_STATE', VIDTORID', RIDTOVID', asic', OwnObjects')
      BY <1>8, <1>6, <1>1, <1>o DEF DbDone
    <2>4. Up'
      BY <2>2, <2>3, <1>1 DEF Up, Now, InOrder, Kept
    <2> QED BY <2>2, <2>4, <1>8, <1>6, <1>1, <1>4, KeepsRunning DEF Stage
  <1> QED BY <1>3, <1>5, <1>7, <1>8 DEF R2vStage

(* The write to ASIC_STATE preserves it, first or last of the request.     *)
LEMMA OnDbStep ==
  ASSUME RestartInv, Followed, OnDb
  PROVE  RestartInv'
  <1>1. /\ At("db") /\ syncd = "run" /\ syncd' = "run"
        /\ UNCHANGED <<VIDTORID, RIDTOVID, asic, discovered, upgraded, warm, syncMode, torn>>
        /\ ASIC_STATE' = Written(ASIC_STATE)
        /\ Step(arg)
    BY DEF OnDb, At, Step, env, Written
  <1>2. Types /\ Stage
    BY <1>1, Running
  <1>3. DbStage
    BY <1>1, <1>2, StageAt
  <1>o. OwnObjects' = OwnObjects
    BY <1>1 DEF OwnObjects
  <1>a. work' = Tail(work) /\ (Len(work) # 1 => arg' = arg)
    BY <1>1 DEF Step
  <1>b. OfSwitch \/ OfObject \/ OfEntry
    BY <1>3 DEF DbStage, SwitchPending, ObjectPending, EntryPending
  <1>c. OfRequest /\ (arg.key = SwitchVid => arg.refs = {})
    BY <1>b, RidFacts, OwnIsOwn DEF OfSwitch, OfObject, OfEntry
  <1>d. Written(Written(ASIC_STATE)) = Written(ASIC_STATE)
    BY DEF Written, Put, Del, Restrict
  <1>4. /\ IsView(ASIC_STATE') /\ IsV2R(VIDTORID', OwnObjects) /\ IsR2V(RIDTOVID', OwnObjects)
    <2>1. IsView(ASIC_STATE')
      BY <1>1, <1>2, <1>c, TypesOfPut, TypesOfDel DEF Types, Written, OfRequest
    <2> QED BY <2>1, <1>1, <1>2 DEF Types
  <1>5. CASE /\ work = <<"db", "asic", "v2r", "r2v", "discover", "save">>
             /\ ~syncMode /\ SwitchPending
    <2>1. work' = <<"asic", "v2r", "r2v", "discover", "save">> /\ arg' = arg
      BY <1>5, <1>a
    <2>2. DOMAIN ASIC_STATE' \subseteq {SwitchVid}
      BY <1>1, <1>5 DEF SwitchPending, OfSwitch, Written, Put
    <2>3. SwitchPending'
      BY <2>1, <2>2, <1>1, <1>5 DEF SwitchPending, OfSwitch, OfRequest, IsArg
    <2> QED BY <2>1, <2>3, <1>1, <1>4, <1>5, KeepsRunning DEF Stage, AsicStage
  <1>6. CASE work = <<"db", "asic", "v2r", "r2v">> /\ ~syncMode /\ ObjectPending
    <2>1. work' = <<"asic", "v2r", "r2v">> /\ arg' = arg
      BY <1>6, <1>a
    <2>2. OfObject'
      BY <2>1, <1>1, <1>6 DEF ObjectPending, OfObject, OfRequest, IsArg
    <2>3. ASSUME NEW V, NEW R, NEW S, NEW id, ObjectMade(ASIC_STATE, V, R, S, id)
          PROVE  ObjectMade(ASIC_STATE', V, R, S, id)
      BY <2>3, <1>1, <1>d DEF ObjectMade, Written
    <2>4. ObjectPending'
      <3>1. CASE arg.remove
        <4>1. arg.key \in DOMAIN VIDTORID
              /\ ObjectMade(ASIC_STATE', VIDTORID, RIDTOVID, Del(asic, VIDTORID[arg.key]), VIDTORID[arg.key])
          BY <3>1, <2>3, <1>6 DEF ObjectPending
        <4> QED BY <4>1, <3>1, <2>1, <2>2, <1>1, <1>o DEF ObjectPending, ObjectMade
      <3>2. CASE ~arg.remove
        <4>1. \A id \in UserRid \ DOMAIN asic :
                ObjectMade(ASIC_STATE', VIDTORID, RIDTOVID, Put(asic, id, Image(VIDTORID, arg.refs)), id)
          BY <3>2, <2>3, <1>6 DEF ObjectPending
        <4> QED BY <4>1, <3>2, <2>1, <2>2, <1>1, <1>o DEF ObjectPending, ObjectMade
      <3> QED BY <3>1, <3>2
    <2>5. DbDone'
      BY <2>1, <1>1, <1>d DEF DbDone, Written
    <2> QED BY <2>1, <2>4, <2>5, <1>1, <1>4, <1>6, KeepsRunning DEF Stage, AsicStage
  <1>7. CASE work = <<"db", "asic">> /\ ~syncMode /\ EntryPending
    <2>1. work' = <<"asic">> /\ arg' = arg
      BY <1>7, <1>a
    <2>2. OfEntry'
      BY <2>1, <1>1, <1>7 DEF EntryPending, OfEntry, OfRequest, IsArg
    <2>3. Written(ASIC_STATE') = Written(ASIC_STATE) /\ Written(ASIC_STATE)' = Written(ASIC_STATE')
      BY <2>1, <1>1, <1>d DEF Written
    <2>4. EntryPending'
      BY <2>1, <2>2, <2>3, <1>1, <1>7, <1>o DEF EntryPending
    <2>5. DbDone'
      BY <2>3, <1>1 DEF DbDone
    <2> QED BY <2>1, <2>4, <2>5, <1>1, <1>4, <1>7, KeepsRunning DEF Stage, AsicStage
  <1>8. CASE work = <<"db">> /\ Now(Written(ASIC_STATE), VIDTORID, RIDTOVID)
    <2>1. arg.start = FALSE
      BY <1>c DEF OfRequest
    <2>2. work' = <<>> /\ (torn = {} => told' = ASIC_STATE')
      BY <2>1, <1>8, <1>1 DEF Step
    <2>3. Agree(ASIC_STATE', VIDTORID', RIDTOVID', asic', OwnObjects')
      BY <1>8, <1>1, <1>o DEF Now
    <2>4. Up'
      BY <2>2, <2>3, <1>1 DEF Up, Now, InOrder, Kept
    <2> QED BY <2>2, <2>4, <1>1, <1>4, KeepsRunning DEF Stage
  <1> QED BY <1>3, <1>5, <1>6, <1>7, <1>8 DEF DbStage

(* The update of the database by APPLY_VIEW.                               *)

(* The start of a database update preserves it.                            *)
LEMMA ApplyViewStep ==
  ASSUME RestartInv, Followed, NEW v \in Vid, NEW w \in Vid, ApplyView(v, w)
  PROVE  RestartInv'
  <1>1. /\ Idle /\ syncd = "run" /\ syncd' = "run"
        /\ UNCHANGED <<ASIC_STATE, VIDTORID, RIDTOVID, asic, upgraded, warm, syncMode, torn, told>>
        /\ SwitchVid \in DOMAIN VIDTORID
        /\ w # v => /\ v \in DOMAIN VIDTORID /\ VIDTORID[v] \in UserRid
                    /\ w \notin DOMAIN VIDTORID /\ w \notin DOMAIN ASIC_STATE
        /\ work' = <<"wipe", "write", "delv2r", "delr2v", "hset">>
    BY DEF ApplyView, Idle, redis, env, Has, UnusedVid
  <1> DEFINE B == RenamedView(ASIC_STATE, v, w)
             M == RenamedMap(VIDTORID, v, w)
  <1>2. arg' = [NoArg EXCEPT !.view = B, !.map = M]
    BY DEF ApplyView, RenamedView, RenamedMap
  <1>3. /\ IsView(ASIC_STATE) /\ IsV2R(VIDTORID, OwnObjects) /\ IsR2V(RIDTOVID, OwnObjects)
        /\ Agree(ASIC_STATE, VIDTORID, RIDTOVID, asic, OwnObjects) /\ Full(VIDTORID)
        /\ IsOwn(OwnObjects)
    BY <1>1, Requested, OwnIsOwn
  <1>4. IsView(B) /\ Target(B, M, {}, asic, OwnObjects)
    BY <1>1, <1>3, Renamed
  <1> HIDE DEF B, M
  <1>5. /\ IsArg' /\ arg'.start = FALSE /\ arg'.todo = {} /\ arg'.view = B /\ arg'.map = M
    BY <1>2 DEF NoArg, IsArg
  <1>6. OwnObjects' = OwnObjects
    BY <1>1 DEF OwnObjects
  <1>7. WipeStage'
    BY <1>1, <1>3, <1>4, <1>5, <1>6 DEF WipeStage
  <1> QED BY <1>1, <1>3, <1>7, KeepsRunning DEF Stage

(* Each removal of a key of ASIC_STATE preserves it: the id maps still     *)
(* have all the objects of the switch.                                     *)
LEMMA WipeStep ==
  ASSUME RestartInv, Followed, NEW k, Wipe(k)
  PROVE  RestartInv'
  <1>1. /\ At("wipe") /\ syncd = "run" /\ syncd' = "run"
        /\ UNCHANGED <<VIDTORID, RIDTOVID, asic, upgraded, warm, syncMode, torn>>
        /\ ASIC_STATE' = Del(ASIC_STATE, k)
    BY DEF Wipe, At, Step, Stay, env
  <1>2. Types /\ Stage
    BY <1>1, Running
  <1>3. WipeStage
    BY <1>1, <1>2, StageAt
  <1>o. OwnObjects' = OwnObjects
    BY <1>1 DEF OwnObjects
  <1>4. IsView(ASIC_STATE') /\ IsV2R(VIDTORID', OwnObjects) /\ IsR2V(RIDTOVID', OwnObjects)
    BY <1>1, <1>2, TypesOfDel DEF Types
  <1>5. arg' = arg
    BY <1>3 DEF Wipe, Step, Stay, WipeStage
  <1>6. CASE work' = work
    <2>1. WipeStage'
      BY <1>1, <1>3, <1>5, <1>6, <1>o DEF WipeStage, IsArg
    <2> QED BY <2>1, <1>1, <1>4, KeepsRunning DEF Stage
  <1>7. CASE work' = Tail(work) /\ ASIC_STATE' = Empty
    <2>1. DOMAIN ASIC_STATE' = {}
      BY <1>7 DEF Empty
    <2>2. work' = <<"write", "delv2r", "delr2v", "hset">>
      BY <1>7, <1>3 DEF WipeStage
    <2>3. WriteStage'
      BY <2>1, <2>2, <1>1, <1>3, <1>5, <1>o DEF WipeStage, WriteStage, IsArg
    <2> QED BY <2>3, <1>1, <1>4, KeepsRunning DEF Stage
  <1> QED BY <1>6, <1>7 DEF Wipe, Step, Stay

(* Each write of a key of the new view preserves it.                       *)
LEMMA WriteViewStep ==
  ASSUME RestartInv, Followed, NEW k \in Vid \cup Entry, WriteView(k)
  PROVE  RestartInv'
  <1>1. /\ At("write") /\ syncd = "run" /\ syncd' = "run"
        /\ UNCHANGED <<VIDTORID, RIDTOVID, asic, upgraded, warm, syncMode, torn>>
        /\ k \in DOMAIN arg.view
        /\ ASIC_STATE' = Put(ASIC_STATE, k, arg.view[k])
    BY DEF WriteView, At, Step, Stay, env
  <1>2. Types /\ Stage
    BY <1>1, Running
  <1>3. WriteStage
    BY <1>1, <1>2, StageAt
  <1>o. OwnObjects' = OwnObjects
    BY <1>1 DEF OwnObjects
  <1>v. arg.view[k] \in SUBSET Vid /\ (k = SwitchVid => arg.view[k] = {})
    BY <1>1, <1>3 DEF WriteStage, IsView
  <1>4. IsView(ASIC_STATE') /\ IsV2R(VIDTORID', OwnObjects) /\ IsR2V(RIDTOVID', OwnObjects)
    BY <1>1, <1>2, <1>v, TypesOfPut DEF Types
  <1>5. arg' = arg
    BY <1>3 DEF WriteView, Step, Stay, WriteStage
  <1>p. \A l \in DOMAIN ASIC_STATE' : l \in DOMAIN arg.view /\ ASIC_STATE'[l] = arg.view[l]
    BY <1>1, <1>3 DEF WriteStage, Put
  <1>6. CASE work' = work
    <2>1. WriteStage'
      BY <1>1, <1>3, <1>5, <1>6, <1>p, <1>o DEF WriteStage, IsArg
    <2> QED BY <2>1, <1>1, <1>4, KeepsRunning DEF Stage
  <1>7. CASE work' = Tail(work) /\ DOMAIN ASIC_STATE' = DOMAIN arg.view
    <2>1. ASIC_STATE' = arg.view
      BY <1>7, <1>p, <1>3, <1>4 DEF WriteStage, IsView
    <2>2. work' = <<"delv2r", "delr2v", "hset">>
      BY <1>7, <1>3 DEF WriteStage
    <2>3. Mapping'
      BY <2>1, <1>1, <1>3, <1>5, <1>o DEF WriteStage, Mapping, IsArg
    <2>4. Safe(ASIC_STATE', VIDTORID', RIDTOVID')
      BY <1>1, <1>3, FullIsSafe DEF WriteStage
    <2>5. DelV2rStage'
      BY <2>2, <2>3, <2>4, <1>3, <1>5 DEF WriteStage, DelV2rStage
    <2> QED BY <2>5, <1>1, <1>4, KeepsRunning DEF Stage
  <1> QED BY <1>6, <1>7 DEF WriteView, Step, Stay

-----------------------------------------------------------------------------
(* The replacement of the id maps.                                         *)

(* An empty map has the types of both id maps.                             *)
LEMMA TypesOfEmpty ==
  ASSUME NEW own
  PROVE  IsV2R(Empty, own) /\ IsR2V(Empty, own) /\ DOMAIN Empty = {}
  BY DEF IsV2R, IsR2V, Empty

(* The target of the id maps is the same as long as ASIC_STATE, the ASIC   *)
(* and arg are.                                                            *)
LEMMA MappingStays ==
  ASSUME Mapping, arg' = arg, UNCHANGED <<ASIC_STATE, asic, upgraded, torn, told>>
  PROVE  Mapping'
  BY DEF Mapping, IsArg, OwnObjects

(* setVidAndRidMap: deleting VIDTORID preserves the invariant.             *)
LEMMA DelV2rStep ==
  ASSUME RestartInv, Followed, DelV2r
  PROVE  RestartInv'
  <1>1. /\ At("delv2r") /\ syncd = "run" /\ syncd' = "run"
        /\ UNCHANGED <<ASIC_STATE, RIDTOVID, asic, upgraded, warm, syncMode, torn>>
        /\ VIDTORID' = Empty
        /\ Step(arg)
    BY DEF DelV2r, At, Step, env
  <1>2. Types /\ Stage
    BY <1>1, Running
  <1>3. DelV2rStage
    BY <1>1, <1>2, StageAt
  <1>4. IsView(ASIC_STATE') /\ IsV2R(VIDTORID', OwnObjects) /\ IsR2V(RIDTOVID', OwnObjects)
    BY <1>1, <1>2, TypesOfEmpty DEF Types
  <1>5. Len(work) # 1
    BY <1>3 DEF DelV2rStage
  <1>6. arg' = arg /\ told' = told /\ work' = Tail(work)
    BY <1>1, <1>5 DEF Step
  <1>7. Mapping'
    BY <1>1, <1>3, <1>6, MappingStays DEF DelV2rStage
  <1>8. \/ work' = <<"delr2v", "hset">> /\ arg'.todo = {}
        \/ work' = <<"delr2v", "hset", "postremove">> /\ arg'.start
    <2>1. CASE work = <<"delv2r", "delr2v", "hset">> /\ arg.todo = {}
      BY <2>1, <1>6
    <2>2. CASE work = <<"delv2r", "delr2v", "hset", "postremove">> /\ arg.start
      BY <2>2, <1>6
    <2> QED BY <2>1, <2>2, <1>3 DEF DelV2rStage
  <1>9. DelR2vStage'
    BY <1>1, <1>7, <1>8, TypesOfEmpty DEF DelR2vStage
  <1> QED BY <1>9, <1>1, <1>4, KeepsRunning DEF Stage

(* Deleting RIDTOVID preserves it.                                         *)
LEMMA DelR2vStep ==
  ASSUME RestartInv, Followed, DelR2v
  PROVE  RestartInv'
  <1>1. /\ At("delr2v") /\ syncd = "run" /\ syncd' = "run"
        /\ UNCHANGED <<ASIC_STATE, VIDTORID, asic, upgraded, warm, syncMode, torn>>
        /\ RIDTOVID' = Empty
        /\ Step(arg)
    BY DEF DelR2v, At, Step, env
  <1>2. Types /\ Stage
    BY <1>1, Running
  <1>3. DelR2vStage
    BY <1>1, <1>2, StageAt
  <1>4. IsView(ASIC_STATE') /\ IsV2R(VIDTORID', OwnObjects) /\ IsR2V(RIDTOVID', OwnObjects)
    BY <1>1, <1>2, TypesOfEmpty DEF Types
  <1>5. Len(work) # 1
    BY <1>3 DEF DelR2vStage
  <1>6. arg' = arg /\ told' = told /\ work' = Tail(work)
    BY <1>1, <1>5 DEF Step
  <1>7. Mapping'
    BY <1>1, <1>3, <1>6, MappingStays DEF DelR2vStage
  <1>8. \/ work' = <<"hset">> /\ arg'.todo = {}
        \/ work' = <<"hset", "postremove">> /\ arg'.start
    <2>1. CASE work = <<"delr2v", "hset">> /\ arg.todo = {}
      BY <2>1, <1>6
    <2>2. CASE work = <<"delr2v", "hset", "postremove">> /\ arg.start
      BY <2>2, <1>6
    <2> QED BY <2>1, <2>2, <1>3 DEF DelR2vStage
  <1>d. DOMAIN VIDTORID' = {} /\ DOMAIN RIDTOVID' = {}
    BY <1>1, <1>3, TypesOfEmpty DEF DelR2vStage
  <1>9. HsetStage'
    BY <1>d, <1>7, <1>8 DEF HsetStage
  <1> QED BY <1>9, <1>1, <1>4, KeepsRunning DEF Stage

(* Writing one side of one pair preserves it.                              *)
LEMMA HsetStep ==
  ASSUME RestartInv, Followed, NEW v \in Vid, Hset(v)
  PROVE  RestartInv'
  <1>1. /\ At("hset") /\ syncd = "run" /\ syncd' = "run"
        /\ UNCHANGED <<ASIC_STATE, asic, upgraded, warm, syncMode, torn, told, work>>
        /\ arg' = arg /\ v \in DOMAIN arg.map
        /\ \/ VIDTORID' = Put(VIDTORID, v, arg.map[v]) /\ RIDTOVID' = RIDTOVID
           \/ RIDTOVID' = Put(RIDTOVID, arg.map[v], v) /\ VIDTORID' = VIDTORID
    BY DEF Hset, At, Stay, env, Has
  <1>2. Types /\ Stage
    BY <1>1, Running
  <1>3. HsetStage
    BY <1>1, <1>2, StageAt
  <1>m. arg.map[v] \in OwnObjects \cup UserRid /\ (v = SwitchVid => arg.map[v] = SwitchRid)
    BY <1>1, <1>3 DEF HsetStage, Mapping, Target, IsV2R
  <1>4. IsView(ASIC_STATE') /\ IsV2R(VIDTORID', OwnObjects) /\ IsR2V(RIDTOVID', OwnObjects)
    BY <1>1, <1>2, <1>m, TypesOfPut DEF Types
  <1>5. Mapping'
    BY <1>1, <1>3, MappingStays DEF HsetStage
  <1>6. /\ \A u \in DOMAIN VIDTORID' : u \in DOMAIN arg.map /\ VIDTORID'[u] = arg.map[u]
        /\ \A r \in DOMAIN RIDTOVID' : RIDTOVID'[r] \in DOMAIN arg.map /\ arg.map[RIDTOVID'[r]] = r
    BY <1>1, <1>3 DEF HsetStage, Put
  <1>7. HsetStage'
    BY <1>1, <1>3, <1>5, <1>6 DEF HsetStage
  <1> QED BY <1>7, <1>1, <1>4, KeepsRunning DEF Stage

(* When all pairs are written the maps are the target, and the invariant   *)
(* is preserved.                                                           *)
LEMMA HsetEndsStep ==
  ASSUME RestartInv, Followed, HsetEnds
  PROVE  RestartInv'
  <1>1. /\ At("hset") /\ syncd = "run" /\ syncd' = "run"
        /\ UNCHANGED <<ASIC_STATE, VIDTORID, RIDTOVID, asic, upgraded, warm, syncMode, torn>>
        /\ DOMAIN VIDTORID = DOMAIN arg.map /\ DOMAIN RIDTOVID = Range(arg.map)
        /\ Step(arg)
    BY DEF HsetEnds, At, Step, env, redis
  <1>2. Types /\ Stage
    BY <1>1, Running
  <1>3. HsetStage
    BY <1>1, <1>2, StageAt
  <1>o. OwnObjects' = OwnObjects
    BY <1>1 DEF OwnObjects
  <1>4. IsView(ASIC_STATE') /\ IsV2R(VIDTORID', OwnObjects) /\ IsR2V(RIDTOVID', OwnObjects)
    BY <1>1, <1>2 DEF Types
  <1>5. /\ Stored(ASIC_STATE, VIDTORID, RIDTOVID)
        /\ Built(ASIC_STATE, VIDTORID, asic, arg.todo, OwnObjects)
        /\ arg.todo \subseteq OwnObjects /\ arg.todo \cap Range(VIDTORID) = {}
        /\ VIDTORID = arg.map
    BY <1>1, <1>2, <1>3, TargetReached DEF Types
  <1>6. CASE work = <<"hset">> /\ arg.todo = {}
    <2>1. Agree(ASIC_STATE', VIDTORID', RIDTOVID', asic', OwnObjects')
      BY <1>1, <1>5, <1>6, <1>o DEF Agree
    <2>2. work' = <<>>
      BY <1>1, <1>6 DEF Step
    <2>3. torn = {} => Kept(told', ASIC_STATE, VIDTORID)
      <3>1. CASE arg.start
        <4>1. told' = told
          BY <3>1, <1>1 DEF Step
        <4> QED BY <4>1, <3>1, <1>3, <1>5 DEF HsetStage, Mapping
      <3>2. CASE ~arg.start
        <4>1. torn = {} => told' = ASIC_STATE
          BY <3>2, <1>6, <1>1 DEF Step
        <4> QED BY <4>1 DEF Kept
      <3> QED BY <3>1, <3>2
    <2>4. Up'
      BY <2>1, <2>3, <1>1 DEF Up, Now, InOrder
    <2> QED BY <2>2, <2>4, <1>1, <1>4, KeepsRunning DEF Stage
  <1>7. CASE work = <<"hset", "postremove">> /\ arg.start
    <2>1. work' = <<"postremove">> /\ arg' = arg /\ told' = told
      BY <1>1, <1>7 DEF Step
    <2>2. IsArg' /\ arg'.start = TRUE
      BY <2>1, <1>7, <1>3 DEF HsetStage, Mapping, IsArg
    <2>3. InOrder'
      BY <2>1, <1>1, <1>3, <1>5, <1>7 DEF InOrder, HsetStage, Mapping
    <2>4. PostStage'
      BY <2>1, <2>2, <2>3, <1>1, <1>5, <1>o DEF PostStage
    <2> QED BY <2>4, <1>1, <1>4, KeepsRunning DEF Stage
  <1> QED BY <1>3, <1>6, <1>7 DEF HsetStage

-----------------------------------------------------------------------------
(* The discovery of the objects of the switch.                             *)

(* Setting arg.todo leaves the other fields of arg alone.                  *)
LEMMA TodoIsSet ==
  ASSUME NEW t, IsArg, arg' = [arg EXCEPT !.todo = t]
  PROVE  /\ IsArg' /\ arg'.todo = t /\ arg'.cur = arg.cur /\ arg'.start = arg.start
         /\ arg'.key = arg.key /\ arg'.refs = arg.refs /\ arg'.remove = arg.remove
         /\ arg'.oids = arg.oids /\ arg'.v2r = arg.v2r /\ arg'.translated = arg.translated
  BY DEF IsArg

(* What a cold start has read stays what it is built from.                 *)
LEMMA ColdStays ==
  ASSUME OfCold, Rest', IsArg', arg'.start = arg.start, arg'.oids = arg.oids, arg'.v2r = arg.v2r,
         upgraded' = upgraded, torn' = torn,
         ReadComplete => ASIC_STATE' = ASIC_STATE /\ VIDTORID' = VIDTORID
  PROVE  OfCold' /\ (ReadComplete' <=> ReadComplete)
  BY DEF OfCold, ReadComplete, OwnObjects

(* Rest is about the database and the history only.                        *)
LEMMA RestStays ==
  ASSUME Rest, UNCHANGED <<ASIC_STATE, VIDTORID, RIDTOVID, told, torn>>
  PROVE  Rest'
  BY DEF Rest

(* Discovery preserves the invariant: on the first boot all own objects    *)
(* are to be saved; a database with the objects of the switch in it is     *)
(* taken for complete.                                                     *)
LEMMA DiscoverStep ==
  ASSUME RestartInv, Followed, Discover
  PROVE  RestartInv'
  <1> DEFINE t == IF ManyObjectsPresent THEN {} ELSE discovered
  <1>1. /\ At("discover") /\ syncd = "run" /\ syncd' = "run"
        /\ UNCHANGED <<ASIC_STATE, VIDTORID, RIDTOVID, asic, upgraded, warm, syncMode, torn, discovered>>
        /\ Step([arg EXCEPT !.todo = t])
    BY DEF Discover, At, Step, env, redis
  <1>2. Types /\ Stage
    BY <1>1, Running
  <1>3. DiscoverStage
    BY <1>1, <1>2, StageAt
  <1>o. OwnObjects' = OwnObjects
    BY <1>1 DEF OwnObjects
  <1>4. IsView(ASIC_STATE') /\ IsV2R(VIDTORID', OwnObjects) /\ IsR2V(RIDTOVID', OwnObjects)
    BY <1>1, <1>2 DEF Types
  <1>l. Len(work) # 1 /\ IsArg
    <2>1. IsArg
      BY <1>3 DEF DiscoverStage, ColdDiscover, SwitchOnAsic, OfSwitch, OfRequest, OfCold
    <2>2. work \in {<<"discover", "save", "db">>, <<"discover", "save">>, AfterSwitch}
      BY <1>3 DEF DiscoverStage, ColdDiscover
    <2> QED BY <2>1, <2>2 DEF AfterSwitch
  <1>5. work' = Tail(work) /\ arg' = [arg EXCEPT !.todo = t] /\ told' = told
    BY <1>1, <1>l DEF Step
  <1>a. /\ IsArg' /\ arg'.todo = t /\ arg'.cur = arg.cur /\ arg'.start = arg.start
        /\ arg'.key = arg.key /\ arg'.refs = arg.refs /\ arg'.remove = arg.remove
        /\ arg'.oids = arg.oids /\ arg'.v2r = arg.v2r /\ arg'.translated = arg.translated
    BY <1>5, <1>l, TodoIsSet
  <1> HIDE DEF t
  <1>r. /\ IsOwn(OwnObjects) /\ SwitchRid \in OwnObjects /\ SwitchVid \in Vid
        /\ OwnObjects \cap Entry = {} /\ Default \subseteq OwnObjects
    BY OwnIsOwn, RidFacts DEF IsOwn
  (* The first boot. *)
  <1>6. CASE /\ work \in {<<"discover", "save", "db">>, <<"discover", "save">>}
             /\ SwitchOnAsic /\ arg.cur = <<>>
             /\ DOMAIN VIDTORID = {SwitchVid} /\ DOMAIN RIDTOVID = {SwitchRid}
             /\ RIDTOVID[SwitchRid] = SwitchVid
    <2>1. t = OwnObjects
      BY <1>6, OneIsFew DEF SwitchOnAsic, ManyObjectsPresent, t
    <2>2. work' \in {<<"save", "db">>, <<"save">>}
      <3>1. CASE work = <<"discover", "save", "db">>
        BY <3>1, <1>5
      <3>2. CASE work = <<"discover", "save">>
        BY <3>2, <1>5
      <3> QED BY <3>1, <3>2, <1>6
    <2>3. OfSwitch'
      BY <1>6, <1>a DEF SwitchOnAsic, OfSwitch, OfRequest
    <2> DEFINE A == Dummies(ASIC_STATE, VIDTORID)
    <2>4. DOMAIN A = {SwitchVid} /\ A[SwitchVid] = {}
      BY <1>6, <1>2 DEF Dummies, SwitchOnAsic, Types, IsView
    <2>5. VIDTORID[SwitchVid] = SwitchRid /\ Range(VIDTORID) = {SwitchRid}
      BY <1>6, <1>2 DEF Types, IsV2R, Range
    <2>6. asic = [d \in OwnObjects |-> {}]
      BY <1>6 DEF SwitchOnAsic
    <2> HIDE DEF A
    <2>7. Linked(A, VIDTORID) /\ Paired(VIDTORID, RIDTOVID)
      BY <2>4, <2>5, <1>6, <1>r DEF Linked, Paired
    <2>8. Built(A, VIDTORID, asic, OwnObjects, OwnObjects)
      BY <2>4, <2>5, <2>6, <1>r, ImageEmpty DEF Built, Id
    <2>9. Saving(ASIC_STATE, VIDTORID, RIDTOVID)'
      <3>1. arg'.cur = <<>> /\ arg'.todo = OwnObjects
        BY <1>a, <1>6, <2>1
      <3> QED BY <3>1, <2>4, <2>5, <2>6, <2>7, <2>8, <1>1, <1>6, <1>o, <1>r
              DEF Saving, Inserted, CurOk, A
    <2>10. BootSave'
      BY <2>2, <2>3, <2>9 DEF BootSave
    <2> QED BY <2>10, <1>1, <1>4, KeepsRunning DEF Stage, SaveStage
  (* A cold start. *)
  <1>7. CASE ColdDiscover
    <2>1. work' = AfterDiscover
      BY <1>7, <1>5 DEF ColdDiscover, AfterSwitch, AfterDiscover
    <2>2. Rest'
      BY <1>1, <1>5, <1>7, RestStays DEF ColdDiscover, OfCold
    <2>3. OfCold' /\ (ReadComplete' <=> ReadComplete)
      BY <2>2, <1>1, <1>a, <1>7, ColdStays DEF ColdDiscover
    <2>4. NewSwitch'
      BY <1>7, <1>1, <1>a, <1>o DEF ColdDiscover, NewSwitch
    <2>5. t \subseteq OwnObjects
      BY <1>7 DEF t, ColdDiscover, NewSwitch
    <2>6. ReadComplete => ManyObjectsPresent
      <3> SUFFICES ASSUME ReadComplete PROVE ManyObjectsPresent
        OBVIOUS
      <3>1. Full(VIDTORID) /\ DOMAIN VIDTORID \subseteq DOMAIN ASIC_STATE
        BY <1>7 DEF ColdDiscover, OfCold, ReadComplete
      <3> QED BY <3>1, <1>2, FullIsMany DEF ManyObjectsPresent, Types
    <2>7. t # {} => Full(VIDTORID) /\ ~ReadComplete
      <3> SUFFICES ASSUME t # {} PROVE Full(VIDTORID) /\ ~ReadComplete
        OBVIOUS
      <3>1. ~ManyObjectsPresent
        BY DEF t
      <3>2. Safe(ASIC_STATE, VIDTORID, RIDTOVID) /\ SwitchVid \in DOMAIN ASIC_STATE
            /\ DOMAIN VIDTORID # {} /\ DOMAIN RIDTOVID # {}
        BY <1>7 DEF ColdDiscover, OfCold, Rest
      <3> QED BY <3>1, <3>2, <2>6 DEF Safe, ManyObjectsPresent
    <2>8. CurOk(RIDTOVID)'
      BY <1>7, <1>a DEF CurOk, ColdDiscover
    <2>9. ColdSave'
      BY <2>1, <2>3, <2>4, <2>5, <2>7, <2>8, <1>1, <1>a, <1>o DEF ColdSave
    <2> QED BY <2>9, <1>1, <1>4, KeepsRunning DEF Stage, SaveStage
  (* The second discovery of a warm start. *)
  <1>8. CASE /\ work = <<"discover", "save">> /\ arg.start = TRUE /\ arg.cur = <<>>
             /\ Up /\ SwitchVid \in DOMAIN VIDTORID
    <2>1. Full(VIDTORID) /\ DOMAIN VIDTORID \subseteq DOMAIN ASIC_STATE
      BY <1>8 DEF Up, Now, Agree, Stored, Complete, Linked
    <2>2. t = {}
      BY <2>1, <1>2, FullIsMany DEF ManyObjectsPresent, Types, t
    <2>3. Up'
      BY <1>1, <1>5, <1>8, UpStays
    <2>4. work' = <<"save">>
      BY <1>5, <1>8
    <2>5. WarmAgain'
      BY <2>2, <2>3, <2>4, <1>8, <1>a DEF WarmAgain
    <2> QED BY <2>5, <1>1, <1>4, KeepsRunning DEF Stage, SaveStage
  <1> QED BY <1>3, <1>6, <1>7, <1>8 DEF DiscoverStage

(* Giving a discovered object a VID preserves it.                          *)
LEMMA SaveNewV2rStep ==
  ASSUME RestartInv, Followed, NEW rid, NEW v \in Vid, SaveNewV2r(rid, v)
  PROVE  RestartInv'
  <1>1. /\ At("save") /\ syncd = "run"
        /\ UNCHANGED <<ASIC_STATE, RIDTOVID, asic, upgraded, warm, syncMode, torn, told>>
        /\ arg.cur = <<>> /\ rid \in arg.todo /\ rid \notin DOMAIN RIDTOVID
        /\ v # SwitchVid /\ v \notin DOMAIN ASIC_STATE /\ v \notin DOMAIN VIDTORID
        /\ rid = SwitchRid => syncd' = "failed" /\ VIDTORID' = VIDTORID
        /\ rid # SwitchRid => /\ VIDTORID' = Put(VIDTORID, v, rid)
                              /\ arg' = [arg EXCEPT !.cur = <<v, rid>>]
                              /\ UNCHANGED <<work, syncd, discovered>>
    BY DEF SaveNewV2r, At, Stay, Fail, Halt, env, UnusedVid
  <1>2. Types /\ Stage
    BY <1>1, Running
  <1>3. SaveStage
    BY <1>1, <1>2, StageAt
  <1>o. OwnObjects' = OwnObjects
    BY <1>1 DEF OwnObjects
  <1>r. /\ IsOwn(OwnObjects)
    BY OwnIsOwn
  <1>4. ~WarmAgain
    BY <1>1 DEF WarmAgain
  (* The first boot and a warm start. *)
  <1>5. ASSUME Saving(ASIC_STATE, VIDTORID, RIDTOVID), IsArg
        PROVE  /\ rid # SwitchRid
               /\ IsV2R(VIDTORID', OwnObjects)
               /\ Saving(ASIC_STATE, VIDTORID, RIDTOVID)'
               /\ DOMAIN Dummies(ASIC_STATE, VIDTORID)' = DOMAIN Dummies(ASIC_STATE, VIDTORID) \cup {v}
               /\ \A k \in DOMAIN Dummies(ASIC_STATE, VIDTORID) :
                    /\ k # v
                    /\ Dummies(ASIC_STATE, VIDTORID)'[k] = Dummies(ASIC_STATE, VIDTORID)[k]
    <2> DEFINE A == Dummies(ASIC_STATE, VIDTORID)
               B == Dummies(ASIC_STATE, VIDTORID')
    <2>1. Inserted(RIDTOVID, arg.cur) = RIDTOVID
      BY <1>1 DEF Inserted
    <2>2. /\ Linked(A, VIDTORID) /\ Paired(VIDTORID, RIDTOVID)
          /\ Built(A, VIDTORID, asic, arg.todo, OwnObjects)
          /\ SwitchVid \in DOMAIN VIDTORID
          /\ arg.todo \subseteq OwnObjects /\ arg.todo \subseteq DOMAIN asic
      BY <1>5, <2>1 DEF Saving
    <2>3. rid \notin Range(VIDTORID)
      BY <2>2, <1>1 DEF Paired
    <2>4. rid # SwitchRid
      BY <2>2, <2>3, <1>2, InRange DEF Types, IsV2R
    <2>5. VIDTORID' = Put(VIDTORID, v, rid) /\ arg' = [arg EXCEPT !.cur = <<v, rid>>]
      BY <2>4, <1>1
    <2>6. IsV2R(VIDTORID', OwnObjects)
      BY <2>2, <2>5, <1>1, <1>2, TypesOfPut DEF Types
    <2>7. /\ DOMAIN B = DOMAIN A \cup {v} /\ B[v] = {} /\ v \notin DOMAIN A
          /\ \A k \in DOMAIN A : B[k] = A[k]
      BY <2>5, <1>1 DEF Dummies, Put
    <2>8. arg'.cur = <<v, rid>> /\ arg'.todo = arg.todo
      BY <1>5, <2>5, CurIsSet
    <2> HIDE DEF A, B
    <2>9. /\ Linked(B, Put(VIDTORID, v, rid))
          /\ Paired(Put(VIDTORID, v, rid), Put(RIDTOVID, rid, v))
          /\ Built(B, Put(VIDTORID, v, rid), asic, arg.todo, OwnObjects)
      <3>1. IsV2R(VIDTORID, OwnObjects) /\ rid \in OwnObjects /\ rid \in DOMAIN asic
        BY <2>2, <1>1, <1>2 DEF Types
      <3> QED BY <3>1, <2>2, <2>3, <2>7, <1>1, <1>r, SavedObject
    <2>10. Range(VIDTORID') = Range(VIDTORID) \cup {rid}
      BY <2>5, <1>1, RangePut
    <2>11. Inserted(RIDTOVID', arg'.cur) = Put(RIDTOVID, rid, v)
      BY <2>8, <1>1 DEF Inserted
    <2>12. SwitchVid \in DOMAIN VIDTORID' /\ \A u \in DOMAIN VIDTORID' \ DOMAIN ASIC_STATE : VIDTORID'[u] \in arg.todo
      BY <1>5, <2>5, <2>2, <1>1 DEF Put, Saving
    <2>13. Dummies(ASIC_STATE, VIDTORID)' = B
      BY <1>1 DEF B
    <2>14. Default \ Removable \subseteq arg.todo \cup Range(VIDTORID')
      BY <2>10, <1>5 DEF Saving
    <2>15. Saving(ASIC_STATE, VIDTORID, RIDTOVID)'
      BY <2>2, <2>5, <2>8, <2>9, <2>11, <2>12, <2>13, <2>14, <1>1, <1>o DEF Saving, CurOk
    <2> QED BY <2>4, <2>6, <2>7, <2>13, <2>15 DEF A
  <1>6. CASE BootSave
    <2>1. Saving(ASIC_STATE, VIDTORID, RIDTOVID) /\ IsArg /\ OfRequest /\ OfSwitch
      BY <1>6 DEF BootSave, OfSwitch, OfRequest
    <2>2. rid # SwitchRid /\ IsV2R(VIDTORID', OwnObjects) /\ Saving(ASIC_STATE, VIDTORID, RIDTOVID)'
      BY <2>1, <1>5
    <2>3. OfSwitch'
      BY <2>1, <2>2, <1>1, CurIsSet, RequestStays
    <2>4. BootSave'
      BY <2>2, <2>3, <1>1, <1>6 DEF BootSave
    <2>5. IsView(ASIC_STATE') /\ IsR2V(RIDTOVID', OwnObjects)
      BY <1>1, <1>2 DEF Types
    <2> QED BY <2>2, <2>4, <2>5, <1>1, KeepsRunning DEF Stage, SaveStage
  <1>7. CASE WarmSave
    <2>1. Saving(ASIC_STATE, VIDTORID, RIDTOVID) /\ IsArg /\ arg.start = TRUE /\ arg.todo \subseteq New
      BY <1>7 DEF WarmSave
    <2>2. rid # SwitchRid /\ IsV2R(VIDTORID', OwnObjects) /\ Saving(ASIC_STATE, VIDTORID, RIDTOVID)'
      BY <2>1, <1>5
    <2>3. VIDTORID' = Put(VIDTORID, v, rid) /\ IsArg' /\ arg'.start = arg.start /\ arg'.todo = arg.todo
      BY <2>1, <2>2, <1>1, CurIsSet
    <2> DEFINE A == Dummies(ASIC_STATE, VIDTORID)
    <2>4. DOMAIN A' = DOMAIN A \cup {v} /\ \A k \in DOMAIN A : k # v /\ A'[k] = A[k]
      BY <2>1, <1>5
    <2>5. rid \in New /\ VIDTORID'[v] = rid /\ v \in DOMAIN VIDTORID'
          /\ \A k \in DOMAIN VIDTORID : k \in DOMAIN VIDTORID' /\ VIDTORID'[k] = VIDTORID[k]
      BY <2>1, <2>3, <1>1 DEF Put
    <2> HIDE DEF A
    <2>6. ASSUME torn = {} PROVE Kept(told, A', VIDTORID')
      <3>1. Kept(told, A, VIDTORID)
        BY <2>6, <1>7 DEF WarmSave, A
      <3> QED BY <3>1, <2>4, <2>5 DEF Kept
    <2>7. WarmSave'
      BY <2>1, <2>2, <2>3, <2>6, <1>1, <1>7 DEF WarmSave, A
    <2>8. IsView(ASIC_STATE') /\ IsR2V(RIDTOVID', OwnObjects)
      BY <1>1, <1>2 DEF Types
    <2> QED BY <2>2, <2>7, <2>8, <1>1, KeepsRunning DEF Stage, SaveStage
  (* A cold start with a torn database. *)
  <1>8. CASE ColdSave
    <2>1. /\ Full(VIDTORID) /\ ~ReadComplete /\ torn # {} /\ OfCold /\ NewSwitch /\ Rest /\ IsArg
          /\ rid \in OwnObjects
      BY <1>1, <1>8 DEF ColdSave, OfCold
    <2>2. CASE rid = SwitchRid
      <3>1. Rest'
        BY <2>1, <2>2, <1>1, RestStays
      <3> QED BY <3>1, <2>1, <2>2, <1>1, <1>2, Fails DEF Types
    <2>3. CASE rid # SwitchRid
      <3>1. VIDTORID' = Put(VIDTORID, v, rid) /\ arg' = [arg EXCEPT !.cur = <<v, rid>>]
        BY <2>3, <1>1
      <3>2. Range(VIDTORID') = Range(VIDTORID) \cup {rid}
        BY <3>1, <1>1, RangePut
      <3>3. Full(VIDTORID')
        BY <3>2, <2>1 DEF Full
      <3>4. IsView(ASIC_STATE') /\ IsV2R(VIDTORID', OwnObjects) /\ IsR2V(RIDTOVID', OwnObjects)
        BY <3>1, <2>1, <1>1, <1>2, TypesOfPut DEF Types
      <3>5. Rest'
        BY <3>3, <2>1, <1>1, FullIsSafe DEF Rest
      <3>6. /\ IsArg' /\ arg'.start = arg.start /\ arg'.oids = arg.oids /\ arg'.v2r = arg.v2r
            /\ arg'.translated = arg.translated /\ arg'.todo = arg.todo /\ arg'.cur = <<v, rid>>
        BY <3>1, <2>1, CurIsSet
      <3>7. OfCold' /\ ~ReadComplete'
        BY <3>5, <3>6, <2>1, <1>1, ColdStays
      <3>8. NewSwitch' /\ CurOk(RIDTOVID)'
        BY <3>6, <2>1, <2>3, <1>1, <1>o DEF NewSwitch, CurOk
      <3>9. ColdSave'
        BY <3>3, <3>6, <3>7, <3>8, <2>3, <1>1, <1>8, <1>o DEF ColdSave
      <3> QED BY <3>4, <3>9, <2>3, <1>1, KeepsRunning DEF Stage, SaveStage
    <2> QED BY <2>2, <2>3
  <1> QED BY <1>3, <1>4, <1>6, <1>7, <1>8 DEF SaveStage

(* Writing the other side of that pair preserves it.                       *)
LEMMA SaveNewR2vStep ==
  ASSUME RestartInv, Followed, SaveNewR2v
  PROVE  RestartInv'
  <1>1. /\ At("save") /\ syncd = "run" /\ syncd' = "run"
        /\ UNCHANGED <<ASIC_STATE, VIDTORID, asic, upgraded, warm, syncMode, torn, told, work, discovered>>
        /\ arg.cur # <<>> /\ arg' = arg
        /\ RIDTOVID' = Put(RIDTOVID, arg.cur[2], arg.cur[1])
    BY DEF SaveNewR2v, At, Stay, env
  <1>2. Types /\ Stage
    BY <1>1, Running
  <1>3. SaveStage
    BY <1>1, <1>2, StageAt
  <1>o. OwnObjects' = OwnObjects
    BY <1>1 DEF OwnObjects
  <1>4. ~WarmAgain
    BY <1>1 DEF WarmAgain
  <1>c. /\ arg.cur = <<arg.cur[1], arg.cur[2]>>
        /\ arg.cur[1] \in Vid /\ arg.cur[2] \in arg.todo /\ arg.todo \subseteq OwnObjects
        /\ CurOk(RIDTOVID) /\ IsArg
    BY <1>1, <1>3, <1>4 DEF SaveStage, BootSave, WarmSave, ColdSave, Saving, CurOk, OfSwitch, OfRequest, OfCold
  <1>t. IsView(ASIC_STATE') /\ IsV2R(VIDTORID', OwnObjects) /\ IsR2V(RIDTOVID', OwnObjects)
    BY <1>1, <1>2, <1>c, TypesOfPut DEF Types
  <1>i. IsArg' /\ CurOk(RIDTOVID)'
    BY <1>1, <1>c DEF IsArg, CurOk
  <1>5. ASSUME Saving(ASIC_STATE, VIDTORID, RIDTOVID) PROVE Saving(ASIC_STATE, VIDTORID, RIDTOVID)'
    <2>1. Inserted(RIDTOVID', arg.cur) = Inserted(RIDTOVID, arg.cur)
      BY <1>1 DEF Inserted, Put
    <2>2. RIDTOVID'[arg.cur[2]] = arg.cur[1]
      BY <1>1 DEF Put
    <2> QED BY <1>5, <2>1, <2>2, <1>1, <1>i, <1>o DEF Saving
  <1>6. CASE BootSave
    <2>1. BootSave'
      BY <1>6, <1>5, <1>1, <1>i DEF BootSave, OfSwitch, OfRequest
    <2> QED BY <2>1, <1>1, <1>t, KeepsRunning DEF Stage, SaveStage
  <1>7. CASE WarmSave
    <2>1. WarmSave'
      BY <1>7, <1>5, <1>1, <1>i DEF WarmSave
    <2> QED BY <2>1, <1>1, <1>t, KeepsRunning DEF Stage, SaveStage
  <1>8. CASE ColdSave
    <2>1. Full(VIDTORID) /\ ~ReadComplete /\ torn # {} /\ OfCold /\ NewSwitch
      BY <1>c, <1>8 DEF ColdSave, OfCold
    <2>2. Rest'
      BY <2>1, <1>1, FullIsSafe DEF Rest
    <2>3. OfCold' /\ ~ReadComplete'
      BY <2>1, <2>2, <1>1, <1>i, ColdStays
    <2>4. ColdSave'
      BY <2>1, <2>3, <1>1, <1>8, <1>i, <1>o DEF ColdSave, NewSwitch
    <2> QED BY <2>4, <1>1, <1>t, KeepsRunning DEF Stage, SaveStage
  <1> QED BY <1>3, <1>4, <1>6, <1>7, <1>8 DEF SaveStage

(* Writing the dummy object (setDummyAsicStateObject) preserves it.        *)
LEMMA SaveDummyStep ==
  ASSUME RestartInv, Followed, NEW rid, SaveDummy(rid)
  PROVE  RestartInv'
  <1> DEFINE v == RIDTOVID[rid]
  <1>1. /\ At("save") /\ syncd = "run" /\ syncd' = "run"
        /\ UNCHANGED <<VIDTORID, RIDTOVID, asic, upgraded, warm, syncMode, torn, told, work, discovered>>
        /\ rid \in arg.todo /\ rid \in DOMAIN RIDTOVID
        /\ arg.cur # <<>> => arg.cur[2] = rid
        /\ ASIC_STATE' = IF v \in DOMAIN ASIC_STATE THEN ASIC_STATE ELSE Put(ASIC_STATE, v, {})
        /\ arg' = [arg EXCEPT !.todo = arg.todo \ {rid}, !.cur = <<>>]
    BY DEF SaveDummy, At, Stay, env, Has
  <1>2. Types /\ Stage
    BY <1>1, Running
  <1>3. SaveStage
    BY <1>1, <1>2, StageAt
  <1>o. OwnObjects' = OwnObjects
    BY <1>1 DEF OwnObjects
  <1>4. ~WarmAgain
    BY <1>1 DEF WarmAgain
  <1>i. IsArg
    BY <1>3, <1>4 DEF SaveStage, BootSave, WarmSave, ColdSave, OfSwitch, OfRequest, OfCold
  <1>a. /\ IsArg' /\ arg'.todo = arg.todo \ {rid} /\ arg'.cur = <<>> /\ arg'.start = arg.start
        /\ arg'.key = arg.key /\ arg'.refs = arg.refs /\ arg'.remove = arg.remove
        /\ arg'.oids = arg.oids /\ arg'.v2r = arg.v2r /\ arg'.translated = arg.translated
    BY <1>1, <1>i DEF IsArg
  <1>t. IsView(ASIC_STATE') /\ IsV2R(VIDTORID', OwnObjects) /\ IsR2V(RIDTOVID', OwnObjects)
    <2>1. v \in Vid
      BY <1>1, <1>2 DEF Types, IsR2V
    <2>2. IsView(Put(ASIC_STATE, v, {}))
      BY <2>1, <1>2, TypesOfPut DEF Types
    <2> QED BY <2>2, <1>1, <1>2 DEF Types
  <1>5. ASSUME Saving(ASIC_STATE, VIDTORID, RIDTOVID)
        PROVE  /\ Saving(ASIC_STATE, VIDTORID, RIDTOVID)'
               /\ Dummies(ASIC_STATE', VIDTORID) = Dummies(ASIC_STATE, VIDTORID)
    <2> DEFINE Q == Inserted(RIDTOVID, arg.cur)
    <2>1. Paired(VIDTORID, Q)
      BY <1>5 DEF Saving
    <2>2. DOMAIN Q = DOMAIN RIDTOVID /\ \A r \in DOMAIN RIDTOVID : Q[r] = RIDTOVID[r]
      <3>1. CASE arg.cur = <<>>
        BY <3>1 DEF Inserted
      <3>2. CASE arg.cur # <<>>
        <4>1. arg.cur[2] = rid /\ RIDTOVID[rid] = arg.cur[1]
          BY <3>2, <1>1, <1>5 DEF Saving
        <4> QED BY <4>1, <3>2, <1>1 DEF Inserted, Put
      <3> QED BY <3>1, <3>2
    <2>3. Paired(VIDTORID, RIDTOVID)
      BY <2>1, <2>2, InRange DEF Paired
    <2>4. v \in DOMAIN VIDTORID /\ VIDTORID[v] = rid
      <3>1. PICK u \in DOMAIN VIDTORID : rid = VIDTORID[u]
        BY <2>3, <1>1, OfRange DEF Paired
      <3> QED BY <3>1, <2>3 DEF Paired
    <2>5. Dummies(ASIC_STATE', VIDTORID) = Dummies(ASIC_STATE, VIDTORID)
      BY <2>4, <1>1 DEF Dummies, Put
    <2>6. Built(Dummies(ASIC_STATE, VIDTORID), VIDTORID, asic, arg.todo \ {rid}, OwnObjects)
      <3>1. rid \in Range(VIDTORID)
        BY <2>4, InRange
      <3>2. Built(Dummies(ASIC_STATE, VIDTORID), VIDTORID, asic, arg.todo, OwnObjects)
        BY <1>5 DEF Saving
      <3> QED BY <3>1, <3>2 DEF Built
    <2>7. \A u \in DOMAIN VIDTORID \ DOMAIN ASIC_STATE' : VIDTORID[u] \in arg.todo \ {rid}
      <3> SUFFICES ASSUME NEW u \in DOMAIN VIDTORID \ DOMAIN ASIC_STATE' PROVE VIDTORID[u] \in arg.todo \ {rid}
        OBVIOUS
      <3>1. u # v /\ u \notin DOMAIN ASIC_STATE
        BY <1>1 DEF Put
      <3>2. VIDTORID[u] \in arg.todo
        BY <3>1, <1>5 DEF Saving
      <3>3. VIDTORID[u] # rid
        BY <3>1, <2>3, <2>4 DEF Paired
      <3> QED BY <3>2, <3>3
    <2>8. Default \ Removable \subseteq (arg.todo \ {rid}) \cup Range(VIDTORID)
      BY <2>4, <1>5, InRange DEF Saving
    <2>9. Inserted(RIDTOVID', arg'.cur) = RIDTOVID /\ CurOk(RIDTOVID)'
      BY <1>1, <1>a DEF Inserted, CurOk
    <2>10. Dummies(ASIC_STATE, VIDTORID)' = Dummies(ASIC_STATE, VIDTORID)
      BY <2>5, <1>1
    <2>11. Linked(Dummies(ASIC_STATE, VIDTORID), VIDTORID) /\ SwitchVid \in DOMAIN VIDTORID
           /\ arg.todo \subseteq OwnObjects /\ arg.todo \subseteq DOMAIN asic
      BY <1>5 DEF Saving
    <2>12. Saving(ASIC_STATE, VIDTORID, RIDTOVID)'
      BY <2>3, <2>6, <2>7, <2>8, <2>9, <2>10, <2>11, <1>1, <1>a, <1>o DEF Saving
    <2> QED BY <2>5, <2>12
  <1>6. CASE BootSave
    <2>1. OfSwitch'
      BY <1>6, <1>a DEF BootSave, OfSwitch, OfRequest
    <2>2. BootSave'
      BY <2>1, <1>6, <1>5, <1>1 DEF BootSave
    <2> QED BY <2>2, <1>1, <1>t, KeepsRunning DEF Stage, SaveStage
  <1>7. CASE WarmSave
    <2>1. Dummies(ASIC_STATE, VIDTORID)' = Dummies(ASIC_STATE, VIDTORID)
      BY <1>7, <1>5, <1>1 DEF WarmSave
    <2>2. WarmSave'
      BY <2>1, <1>7, <1>5, <1>1, <1>a DEF WarmSave
    <2> QED BY <2>2, <1>1, <1>t, KeepsRunning DEF Stage, SaveStage
  <1>8. CASE ColdSave
    <2>1. Full(VIDTORID) /\ ~ReadComplete /\ torn # {} /\ OfCold /\ NewSwitch /\ arg.todo \subseteq OwnObjects
      BY <1>1, <1>8 DEF ColdSave, OfCold
    <2>2. Rest'
      BY <2>1, <1>1, FullIsSafe DEF Rest
    <2>3. OfCold' /\ ~ReadComplete'
      BY <2>1, <2>2, <1>1, <1>a, ColdStays
    <2>4. NewSwitch' /\ CurOk(RIDTOVID)'
      BY <2>1, <1>1, <1>a, <1>o DEF NewSwitch, CurOk
    <2>5. ColdSave'
      BY <2>1, <2>3, <2>4, <1>1, <1>8, <1>a, <1>o DEF ColdSave
    <2> QED BY <2>5, <1>1, <1>t, KeepsRunning DEF Stage, SaveStage
  <1> QED BY <1>3, <1>4, <1>6, <1>7, <1>8 DEF SaveStage

(* The end of the save preserves it.                                       *)
LEMMA SaveEndsStep ==
  ASSUME RestartInv, Followed, SaveEnds
  PROVE  RestartInv'
  <1>1. /\ At("save") /\ syncd = "run" /\ syncd' = "run"
        /\ UNCHANGED <<ASIC_STATE, VIDTORID, RIDTOVID, asic, upgraded, warm, syncMode, torn, discovered>>
        /\ arg.todo = {}
        /\ Step(arg)
    BY DEF SaveEnds, At, Step, env, redis
  <1>2. Types /\ Stage
    BY <1>1, Running
  <1>3. SaveStage
    BY <1>1, <1>2, StageAt
  <1>o. OwnObjects' = OwnObjects
    BY <1>1 DEF OwnObjects
  <1>t. IsView(ASIC_STATE') /\ IsV2R(VIDTORID', OwnObjects) /\ IsR2V(RIDTOVID', OwnObjects)
    BY <1>1, <1>2 DEF Types
  <1>5. ASSUME Saving(ASIC_STATE, VIDTORID, RIDTOVID)
        PROVE  /\ Agree(ASIC_STATE, VIDTORID, RIDTOVID, asic, OwnObjects)
               /\ SwitchVid \in DOMAIN VIDTORID /\ Full(VIDTORID)
               /\ arg.cur = <<>>
               /\ Dummies(ASIC_STATE, VIDTORID) = ASIC_STATE
    BY <1>5, <1>1, <1>2, AllSaved DEF Types
  <1>6. CASE BootSave /\ work = <<"save", "db">>
    <2>1. work' = <<"db">> /\ arg' = arg
      BY <1>1, <1>6 DEF Step
    <2>2. OfSwitch' /\ OfSwitch
      BY <2>1, <1>6 DEF BootSave, OfSwitch, OfRequest, IsArg
    <2>3. SwitchVid \in DOMAIN ASIC_STATE
      BY <1>5, <1>6 DEF BootSave, Agree, Stored, Linked
    <2>4. Written(ASIC_STATE) = ASIC_STATE
      BY <2>2, <2>3, <1>2 DEF Written, Put, OfSwitch, Types, IsView
    <2>5. Now(Written(ASIC_STATE), VIDTORID, RIDTOVID)' /\ Whole(VIDTORID')
      <3>1. Written(ASIC_STATE)' = ASIC_STATE
        BY <2>1, <2>4, <1>1 DEF Written
      <3> QED BY <3>1, <1>1, <1>5, <1>6, <1>o DEF Now, Whole, BootSave
    <2>6. Stage'
      BY <2>1, <2>2, <2>5 DEF Stage, DbStage
    <2> QED BY <2>6, <1>1, <1>t, KeepsRunning
  <1>7. CASE BootSave /\ work = <<"save">>
    <2>1. arg.start = FALSE
      BY <1>7 DEF BootSave, OfSwitch, OfRequest
    <2>2. work' = <<>> /\ (torn = {} => told' = ASIC_STATE')
      BY <2>1, <1>7, <1>1 DEF Step
    <2>3. Agree(ASIC_STATE', VIDTORID', RIDTOVID', asic', OwnObjects')
      BY <1>7, <1>5, <1>1, <1>o DEF BootSave
    <2>4. Up'
      BY <2>2, <2>3, <1>1 DEF Up, Now, InOrder, Kept
    <2> QED BY <2>2, <2>4, <1>1, <1>t, KeepsRunning DEF Stage
  <1>8. CASE WarmSave
    <2>1. work' = <<"discover", "save">> /\ arg' = arg /\ told' = told
      BY <1>1, <1>8 DEF Step, WarmSave
    <2>2. Saving(ASIC_STATE, VIDTORID, RIDTOVID)
      BY <1>8 DEF WarmSave
    <2>3. torn = {} => Kept(told, ASIC_STATE, VIDTORID)
      BY <2>2, <1>8, <1>5 DEF WarmSave
    <2>4. Up'
      BY <2>1, <2>2, <2>3, <1>1, <1>5, <1>o DEF Up, Now, InOrder
    <2>5. IsArg' /\ arg'.start = TRUE /\ arg'.cur = <<>> /\ SwitchVid \in DOMAIN VIDTORID'
      BY <2>1, <2>2, <1>1, <1>5, <1>8 DEF WarmSave, IsArg
    <2>6. Stage'
      BY <2>1, <2>4, <2>5 DEF Stage, DiscoverStage
    <2> QED BY <2>6, <1>1, <1>t, KeepsRunning
  <1>9. CASE WarmAgain
    <2>1. work' = <<>> /\ told' = told
      BY <1>1, <1>9 DEF Step, WarmAgain
    <2>2. Up'
      BY <2>1, <1>1, <1>9, UpStays DEF WarmAgain
    <2> QED BY <2>1, <2>2, <1>1, <1>t, KeepsRunning DEF Stage
  <1>10. CASE ColdSave
    <2>1. work' = AfterSave /\ arg' = arg /\ told' = told
      BY <1>1, <1>10 DEF Step, ColdSave, AfterDiscover, AfterSave
    <2>2. OfCold /\ NewSwitch
      BY <1>10 DEF ColdSave
    <2>3. Rest'
      BY <2>1, <2>2, <1>1, RestStays DEF OfCold
    <2>4. OfCold'
      BY <2>1, <2>2, <2>3, <1>1, ColdStays DEF OfCold, IsArg
    <2>5. /\ Rebuild(arg.oids, arg.v2r, arg.translated, asic, OwnObjects)
          /\ IsInjective(arg.translated)
      BY <2>2, OwnIsOwn, RebuildStarts DEF OfCold, NewSwitch
    <2>6. Rebuilding'
      BY <2>1, <2>2, <2>4, <2>5, <1>1, <1>o DEF Rebuilding, NewSwitch
    <2> QED BY <2>1, <2>6, <1>1, <1>t, KeepsRunning DEF Stage, ProcessStage
  <1> QED BY <1>3, <1>6, <1>7, <1>8, <1>9, <1>10 DEF SaveStage, BootSave

-----------------------------------------------------------------------------
(* Cold and warm starts.                                                   *)

(* A start preserves the invariant: what a crash or a shutdown left is     *)
(* what it begins with.                                                    *)
LEMMA StartStep ==
  ASSUME RestartInv, Followed, Start
  PROVE  RestartInv'
  <1>1. /\ syncd = "down" /\ syncd' = "run" /\ warm' = FALSE
        /\ UNCHANGED <<ASIC_STATE, VIDTORID, RIDTOVID, upgraded, syncMode, torn, told>>
        /\ arg' = [NoArg EXCEPT !.start = TRUE]
        /\ work' = IF warm THEN WarmStart ELSE ColdStart
        /\ asic' = IF warm THEN asic ELSE Empty
    BY DEF Start, redis
  <1>2. Types
    BY DEF RestartInv, Followed
  <1>3. Types'
    BY <1>1, <1>2 DEF Types, OwnObjects
  <1>4. CASE warm
    <2>1. Up
      BY <1>1, <1>4 DEF RestartInv, Followed
    <2>2. Up'
      BY <2>1, <1>1, <1>4, UpStays
    <2>3. WarmStage'
      BY <2>2, <1>1, <1>4 DEF WarmStage
    <2> QED BY <2>3, <1>1, <1>3 DEF RestartInv, Stage
  <1>5. CASE ~warm
    <2>1. Rest
      BY <1>1, <1>5 DEF RestartInv, Followed
    <2>2. Rest'
      BY <2>1, <1>1, RestStays
    <2>3. ReadStage'
      BY <2>2, <1>1, <1>5 DEF ReadStage
    <2> QED BY <2>3, <1>1, <1>3 DEF RestartInv, Stage
  <1> QED BY <1>4, <1>5

(* A whole database with a switch in ASIC_STATE has it in the id maps.     *)
LEMMA StoredHasSwitch ==
  ASSUME NEW A, NEW V, NEW R, Stored(A, V, R), SwitchVid \in DOMAIN A
  PROVE  SwitchVid \in DOMAIN V /\ DOMAIN V # {} /\ DOMAIN R # {}
  BY IdAssumption, InRange DEF Stored, Linked, Paired

(* Reading the database (HardReiniter::readAsicState) preserves it.        *)
LEMMA ReadAsicStateStep ==
  ASSUME RestartInv, Followed, ReadAsicState
  PROVE  RestartInv'
  <1>1. /\ At("read") /\ syncd = "run"
        /\ UNCHANGED <<ASIC_STATE, VIDTORID, RIDTOVID, asic, upgraded, warm, syncMode, otherEntry, torn>>
    BY DEF ReadAsicState, At, redis, env
  <1>2. Types /\ Stage
    BY <1>1, Running
  <1>3. ReadStage
    BY <1>1, <1>2, StageAt
  <1>t. IsView(ASIC_STATE') /\ IsV2R(VIDTORID', OwnObjects) /\ IsR2V(RIDTOVID', OwnObjects)
    BY <1>1, <1>2 DEF Types
  <1>l. Len(work) # 1
    BY <1>3 DEF ReadStage, ColdStart
  <1>s. told' = told
    BY <1>l DEF ReadAsicState, Step, Fail, Halt
  <1>r. Rest /\ Rest'
    BY <1>1, <1>3, <1>s, RestStays DEF ReadStage
  <1>o. OwnObjects' = OwnObjects
    BY <1>1 DEF OwnObjects
  <1>a. IsArg /\ arg.start = TRUE /\ arg.todo = {} /\ arg.map = Empty /\ arg.cur = <<>>
    BY <1>3 DEF ReadStage, NoArg, IsArg
  <1>e. /\ DOMAIN ASIC_STATE = {} <=> ASIC_STATE = Empty
        /\ DOMAIN VIDTORID = {} <=> VIDTORID = Empty
        /\ DOMAIN RIDTOVID = {} <=> RIDTOVID = Empty
    BY <1>2 DEF Types, IsView, IsV2R, IsR2V, Empty
  <1>4. CASE ASIC_STATE = Empty
    <2>1. work' = <<"delv2r", "delr2v", "hset">> /\ arg' = arg /\ syncd' = syncd
      BY <1>4 DEF ReadAsicState, SetMaps
    <2>2. DOMAIN ASIC_STATE = {} /\ DOMAIN arg.map = {} /\ DOMAIN asic = {} /\ Range(arg.map) = {}
      BY <1>3, <1>4, <1>a, <1>e, TypesOfEmpty DEF ReadStage, Range
    <2>3. IsV2R(arg.map, OwnObjects)
      BY <1>a, TypesOfEmpty
    <2>4. Target(ASIC_STATE, arg.map, arg.todo, asic, OwnObjects)
      BY <2>2, <2>3, <1>a DEF Target, Linked, IsInjective, Complete, Built
    <2>5. torn = {} => Kept(told, ASIC_STATE, arg.map)
      BY <2>2, <1>r DEF Rest, Kept
    <2>6. Mapping
      BY <2>4, <2>5, <1>a DEF Mapping
    <2>7. Mapping'
      BY <2>1, <2>6, <1>1, <1>s, MappingStays
    <2>8. DelV2rStage'
      BY <2>1, <2>7, <1>a, <1>r DEF DelV2rStage, Rest
    <2> QED BY <2>1, <2>8, <1>1, <1>t, KeepsRunning DEF Stage
  <1>5. CASE /\ ASIC_STATE # Empty
             /\ \/ VIDTORID = Empty \/ RIDTOVID = Empty \/ ~Has(ASIC_STATE, SwitchVid)
                \/ DOMAIN ASIC_STATE \cap otherEntry # {}
    <2>1. syncd' = "failed"
      BY <1>5 DEF ReadAsicState, UnknownEntries, Fail, Halt
    <2>2. torn' = {} => SwitchVid \notin DOMAIN ASIC_STATE' \/ DOMAIN ASIC_STATE' \cap otherEntry' # {}
      <3> SUFFICES ASSUME torn = {}, SwitchVid \in DOMAIN ASIC_STATE, DOMAIN ASIC_STATE \cap otherEntry = {}
                   PROVE  FALSE
        BY <1>1
      <3>1. Stored(ASIC_STATE, VIDTORID, RIDTOVID)
        BY <1>r DEF Rest
      <3>2. DOMAIN VIDTORID # {} /\ DOMAIN RIDTOVID # {}
        BY <3>1, StoredHasSwitch
      <3> QED BY <3>2, <1>5, <1>e DEF Has
    <2> QED BY <2>1, <2>2, <1>1, <1>r, <1>t, Fails
  <1>6. CASE /\ ASIC_STATE # Empty /\ VIDTORID # Empty /\ RIDTOVID # Empty
             /\ Has(ASIC_STATE, SwitchVid) /\ DOMAIN ASIC_STATE \cap otherEntry = {}
    <2>1. Step([arg EXCEPT !.oids = ASIC_STATE, !.v2r = VIDTORID])
      BY <1>6 DEF ReadAsicState, UnknownEntries
    <2>2. /\ work' = AfterRead /\ syncd' = syncd
          /\ arg' = [arg EXCEPT !.oids = ASIC_STATE, !.v2r = VIDTORID]
      BY <2>1, <1>3 DEF Step, ReadStage, ColdStart, AfterRead
    <2>3. /\ IsArg' /\ arg'.start = TRUE /\ arg'.cur = <<>>
          /\ arg'.oids = ASIC_STATE /\ arg'.v2r = VIDTORID
      BY <2>2, <1>a DEF IsArg
    <2>4. SwitchVid \in DOMAIN ASIC_STATE /\ DOMAIN VIDTORID # {} /\ DOMAIN RIDTOVID # {}
      BY <1>6, <1>e DEF Has
    <2>5. DOMAIN VIDTORID = DOMAIN ASIC_STATE \cap Vid => Full(VIDTORID)
      BY <2>4, <1>r DEF Rest, Safe
    <2>6. torn = {} => DOMAIN VIDTORID = DOMAIN ASIC_STATE \cap Vid
      BY <1>r DEF Rest, Stored, Linked
    <2>7. OfCold'
      BY <2>3, <2>4, <2>5, <2>6, <1>1, <1>t, <1>r, <1>o DEF OfCold, ReadComplete
    <2>8. SwitchStage'
      BY <2>2, <2>3, <2>4, <2>7, <1>1 DEF SwitchStage
    <2> QED BY <2>2, <2>8, <1>1, <1>t, KeepsRunning DEF Stage
  <1> QED BY <1>4, <1>5, <1>6

(* Creating the switch anew (processSwitches) preserves it.                *)
LEMMA ProcessSwitchStep ==
  ASSUME RestartInv, Followed, ProcessSwitch
  PROVE  RestartInv'
  <1> DEFINE T == [v \in {SwitchVid} |-> SwitchRid]
  <1>1. /\ At("switch") /\ syncd = "run" /\ syncd' = "run"
        /\ UNCHANGED <<ASIC_STATE, VIDTORID, RIDTOVID, upgraded, warm, syncMode, torn>>
        /\ asic' = [d \in OwnObjects |-> {}] /\ discovered' = OwnObjects
        /\ Step([arg EXCEPT !.translated = T])
    BY DEF ProcessSwitch, At, Step, redis, env
  <1>2. Types /\ Stage
    BY <1>1, Running
  <1>3. SwitchStage
    BY <1>1, <1>2, StageAt
  <1>t. IsView(ASIC_STATE') /\ IsV2R(VIDTORID', OwnObjects) /\ IsR2V(RIDTOVID', OwnObjects)
    BY <1>1, <1>2 DEF Types
  <1>o. OwnObjects' = OwnObjects
    BY <1>1 DEF OwnObjects
  <1> HIDE DEF T
  <1>4. work' = AfterSwitch /\ arg' = [arg EXCEPT !.translated = T] /\ told' = told
    BY <1>1, <1>3 DEF Step, SwitchStage, AfterRead, AfterSwitch
  <1>5. /\ IsArg' /\ arg'.start = arg.start /\ arg'.cur = <<>> /\ arg'.translated = T
        /\ arg'.oids = arg.oids /\ arg'.v2r = arg.v2r
    BY <1>4, <1>3 DEF SwitchStage, OfCold, IsArg
  <1>6. Rest'
    BY <1>1, <1>3, <1>4, RestStays DEF SwitchStage, OfCold
  <1>7. OfCold'
    BY <1>1, <1>3, <1>5, <1>6, ColdStays DEF SwitchStage
  <1>8. ColdDiscover'
    BY <1>1, <1>3, <1>4, <1>5, <1>7, <1>o DEF ColdDiscover, SwitchStage, NewSwitch, T
  <1> QED BY <1>8, <1>1, <1>t, KeepsRunning DEF Stage, DiscoverStage

(* Building one object (processSingleVid) preserves it.                    *)
LEMMA ProcessVidStep ==
  ASSUME RestartInv, Followed, NEW v \in Vid, NEW rid, ProcessVid(v, rid)
  PROVE  RestartInv'
  <1> DEFINE T == Put(arg.translated, v, rid)
  <1>1. /\ At("process") /\ syncd = "run" /\ syncd' = "run"
        /\ UNCHANGED <<ASIC_STATE, VIDTORID, RIDTOVID, upgraded, warm, syncMode, torn, told, work, discovered>>
        /\ v \in (DOMAIN arg.oids \cap DOMAIN arg.v2r) \ DOMAIN arg.translated
        /\ arg.oids[v] \subseteq DOMAIN arg.translated
        /\ IF arg.v2r[v] \in discovered THEN rid = arg.v2r[v] ELSE rid \in UserRid \ DOMAIN asic
        /\ asic' = Put(asic, rid, Image(arg.translated, arg.oids[v]))
        /\ arg' = [arg EXCEPT !.translated = T]
    BY DEF ProcessVid, At, Stay, redis, env, Translated
  <1>2. Types /\ Stage
    BY <1>1, Running
  <1>3. ProcessStage
    BY <1>1, <1>2, StageAt
  <1>t. IsView(ASIC_STATE') /\ IsV2R(VIDTORID', OwnObjects) /\ IsR2V(RIDTOVID', OwnObjects)
    BY <1>1, <1>2 DEF Types
  <1>o. OwnObjects' = OwnObjects /\ IsOwn(OwnObjects)
    BY <1>1, OwnIsOwn DEF OwnObjects
  <1>4. /\ OfCold /\ discovered = OwnObjects
        /\ Rebuild(arg.oids, arg.v2r, arg.translated, asic, OwnObjects)
        /\ torn = {} => IsInjective(arg.translated)
        /\ IsView(arg.oids) /\ IsV2R(arg.v2r, OwnObjects) /\ IsArg
    BY <1>3 DEF ProcessStage, Rebuilding, OfCold
  <1>5. Rebuild(arg.oids, arg.v2r, T, asic', OwnObjects)
    BY <1>1, <1>4, <1>o, RebuiltObject
  <1>6. ASSUME torn = {} PROVE IsInjective(T)
    <2>1. arg.v2r = VIDTORID /\ arg.oids = ASIC_STATE /\ Stored(ASIC_STATE, VIDTORID, RIDTOVID)
      BY <1>6, <1>4 DEF OfCold, Rest
    <2>2. Paired(arg.v2r, RIDTOVID) /\ SwitchVid \in DOMAIN arg.v2r
      BY <2>1, <1>4, StoredHasSwitch DEF Stored, OfCold
    <2>3. IsInjective(arg.translated)
      BY <1>6, <1>4
    <2>4. IF arg.v2r[v] \in OwnObjects THEN rid = arg.v2r[v] ELSE rid \in UserRid \ DOMAIN asic
      BY <1>1, <1>4
    <2> QED BY <2>2, <2>3, <2>4, <1>1, <1>4, <1>o, RebuiltInjective
  <1> HIDE DEF T
  <1>7. /\ IsArg' /\ arg'.start = arg.start /\ arg'.translated = T
        /\ arg'.oids = arg.oids /\ arg'.v2r = arg.v2r
    BY <1>1, <1>4 DEF IsArg
  <1>8. Rest'
    BY <1>1, <1>4, RestStays DEF OfCold
  <1>9. OfCold'
    BY <1>1, <1>4, <1>7, <1>8, ColdStays
  <1>10. ProcessStage'
    BY <1>1, <1>3, <1>4, <1>5, <1>6, <1>7, <1>9, <1>o DEF ProcessStage, Rebuilding
  <1> QED BY <1>10, <1>1, <1>t, KeepsRunning DEF Stage

(* Building one entry preserves it.                                        *)
LEMMA ProcessEntryStep ==
  ASSUME RestartInv, Followed, NEW e \in Entry, ProcessEntry(e)
  PROVE  RestartInv'
  <1>1. /\ At("process") /\ syncd = "run" /\ syncd' = "run"
        /\ UNCHANGED <<ASIC_STATE, VIDTORID, RIDTOVID, upgraded, warm, syncMode, torn, told, work, discovered>>
        /\ e \in DOMAIN arg.oids
        /\ arg.oids[e] \subseteq DOMAIN arg.translated
        /\ asic' = Put(asic, e, Image(arg.translated, arg.oids[e]))
        /\ arg' = arg
    BY DEF ProcessEntry, At, Stay, redis, env, Translated
  <1>2. Types /\ Stage
    BY <1>1, Running
  <1>3. ProcessStage
    BY <1>1, <1>2, StageAt
  <1>t. IsView(ASIC_STATE') /\ IsV2R(VIDTORID', OwnObjects) /\ IsR2V(RIDTOVID', OwnObjects)
    BY <1>1, <1>2 DEF Types
  <1>o. OwnObjects' = OwnObjects /\ IsOwn(OwnObjects)
    BY <1>1, OwnIsOwn DEF OwnObjects
  <1>4. /\ OfCold /\ discovered = OwnObjects
        /\ Rebuild(arg.oids, arg.v2r, arg.translated, asic, OwnObjects)
        /\ torn = {} => IsInjective(arg.translated)
        /\ IsArg
    BY <1>3 DEF ProcessStage, Rebuilding, OfCold
  <1>5. Rebuild(arg.oids, arg.v2r, arg.translated, asic', OwnObjects)
    BY <1>1, <1>4, <1>o, RebuiltEntry
  <1>8. Rest'
    BY <1>1, <1>4, RestStays DEF OfCold
  <1>9. OfCold'
    BY <1>1, <1>4, <1>8, ColdStays DEF IsArg
  <1>10. ProcessStage'
    BY <1>1, <1>3, <1>4, <1>5, <1>9, <1>o DEF ProcessStage, Rebuilding
  <1> QED BY <1>10, <1>1, <1>t, KeepsRunning DEF Stage

(* An exception there preserves it: it needs a database that a crash has   *)
(* cut in two.                                                             *)
LEMMA ProcessFailsStep ==
  ASSUME RestartInv, Followed, ProcessFails
  PROVE  RestartInv'
  <1>1. /\ At("process") /\ syncd = "run" /\ syncd' = "failed"
        /\ UNCHANGED <<ASIC_STATE, VIDTORID, RIDTOVID, upgraded, warm, syncMode, torn, told>>
        /\ Unprocessable
    BY DEF ProcessFails, At, Fail, Halt, redis, env
  <1>2. Types /\ Stage
    BY <1>1, Running
  <1>3. ProcessStage
    BY <1>1, <1>2, StageAt
  <1>t. IsView(ASIC_STATE') /\ IsV2R(VIDTORID', OwnObjects) /\ IsR2V(RIDTOVID', OwnObjects)
    BY <1>1, <1>2 DEF Types
  <1>4. OfCold
    BY <1>3 DEF ProcessStage, Rebuilding
  <1>5. Rest'
    BY <1>1, <1>4, RestStays DEF OfCold
  <1>6. torn # {}
    <2> SUFFICES ASSUME torn = {} PROVE FALSE
      OBVIOUS
    <2>1. Linked(arg.oids, arg.v2r)
      BY <1>4 DEF OfCold, Rest, Stored
    <2> QED BY <2>1, <1>1 DEF Unprocessable, Linked
  <1> QED BY <1>1, <1>5, <1>6, <1>t, Fails

(* An up syncd can be shut down at any time.                               *)
LEMMA UpIsRest ==
  ASSUME Up
  PROVE  Rest
  BY StoredIsSafe DEF Up, Now, Agree, InOrder, Rest

(* So does a start that the vendor refuses: it has not written anything.   *)
LEMMA StartRefusedStep ==
  ASSUME RestartInv, Followed, StartRefused
  PROVE  RestartInv'
  <1>1. /\ At("switch") \/ At("warm") \/ At("process")
        /\ syncd = "run" /\ syncd' = "refused"
        /\ UNCHANGED <<ASIC_STATE, VIDTORID, RIDTOVID, upgraded, warm, syncMode, torn, told>>
    BY DEF StartRefused, At, Halt, redis, env
  <1>2. Types /\ Stage
    BY <1>1, Running
  <1>3. SwitchStage \/ WarmStage \/ ProcessStage
    BY <1>1, <1>2, StageAt
  <1>4. Rest
    BY <1>3, UpIsRest DEF SwitchStage, WarmStage, ProcessStage, Rebuilding, OfCold
  <1>5. Rest'
    BY <1>1, <1>4, RestStays
  <1>6. IsView(ASIC_STATE') /\ IsV2R(VIDTORID', OwnObjects) /\ IsR2V(RIDTOVID', OwnObjects)
    BY <1>1, <1>2 DEF Types
  <1> QED BY <1>1, <1>5, <1>6, Fails

(* Without an id for an object of the switch the discovery stays torn.     *)
LEMMA NoVidLeftStep ==
  ASSUME NoVidLeft
  PROVE  RestartInv'
  BY DEF NoVidLeft, RestartInv, Followed

(* The end of the building preserves it.                                   *)
LEMMA ProcessEndsStep ==
  ASSUME RestartInv, Followed, ProcessEnds
  PROVE  RestartInv'
  <1>1. /\ At("process") /\ syncd = "run" /\ syncd' = "run"
        /\ UNCHANGED <<ASIC_STATE, VIDTORID, RIDTOVID, asic, upgraded, warm, syncMode, torn, discovered>>
        /\ DOMAIN arg.oids \cap Vid \subseteq DOMAIN arg.translated
        /\ DOMAIN arg.oids \cap Entry \subseteq DOMAIN asic
        /\ Step(arg)
    BY DEF ProcessEnds, Processed, At, Step, redis, env
  <1>2. Types /\ Stage
    BY <1>1, Running
  <1>3. ProcessStage
    BY <1>1, <1>2, StageAt
  <1>t. IsView(ASIC_STATE') /\ IsV2R(VIDTORID', OwnObjects) /\ IsR2V(RIDTOVID', OwnObjects)
    BY <1>1, <1>2 DEF Types
  <1>o. OwnObjects' = OwnObjects
    BY <1>1 DEF OwnObjects
  <1>4. work' = AfterProcess /\ arg' = arg /\ told' = told
    BY <1>1, <1>3 DEF Step, ProcessStage, AfterSave, AfterProcess
  <1>5. OfCold
    BY <1>3 DEF ProcessStage, Rebuilding
  <1>6. Rest'
    BY <1>1, <1>4, <1>5, RestStays DEF OfCold
  <1>7. OfCold'
    BY <1>1, <1>4, <1>5, <1>6, ColdStays DEF OfCold, IsArg
  <1>8. CheckStage'
    BY <1>1, <1>3, <1>4, <1>7, <1>o DEF ProcessStage, CheckStage, Rebuilding
  <1> QED BY <1>8, <1>1, <1>t, KeepsRunning DEF Stage

(* What the client was told of is what the new id map has.                 *)
LEMMA KeptByRebuild ==
  ASSUME NEW own, IsOwn(own), NEW A, NEW V, NEW T, NEW S, NEW t,
         IsV2R(V, own), Rebuild(A, V, T, S, own), DOMAIN T = DOMAIN V, Kept(t, A, V)
  PROVE  Kept(t, A, T)
  <1>1. ASSUME NEW k \in DOMAIN A, k \notin DOMAIN t
        PROVE  k \in Vid /\ k \in DOMAIN T /\ T[k] \in New
    <2>1. k \in Vid /\ k \in DOMAIN V /\ V[k] \in New
      BY <1>1 DEF Kept
    <2>2. k # SwitchVid
      BY <2>1, IdAssumption DEF IsV2R
    <2>3. V[k] \in own
      BY <2>1, IdAssumption DEF IsV2R
    <2>4. T[k] = V[k]
      BY <2>1, <2>2, <2>3 DEF Rebuild
    <2> QED BY <2>1, <2>4
  <1> QED BY <1>1 DEF Kept

(* checkAllIds preserves it: it passes only if every object that was read  *)
(* has been built, each under a RID of its own, and fails only for a       *)
(* database that a crash has cut in two.                                   *)
LEMMA CheckAllIdsStep ==
  ASSUME RestartInv, Followed, CheckAllIds
  PROVE  RestartInv'
  <1> DEFINE T == arg.translated
             X == discovered \ Range(arg.translated)
  <1>1. /\ At("check") /\ syncd = "run"
        /\ UNCHANGED <<ASIC_STATE, VIDTORID, RIDTOVID, asic, upgraded, warm, syncMode, torn>>
    BY DEF CheckAllIds, At, redis, env
  <1>2. Types /\ Stage
    BY <1>1, Running
  <1>3. CheckStage
    BY <1>1, <1>2, StageAt
  <1>t. IsView(ASIC_STATE') /\ IsV2R(VIDTORID', OwnObjects) /\ IsR2V(RIDTOVID', OwnObjects)
    BY <1>1, <1>2 DEF Types
  <1>o. OwnObjects' = OwnObjects /\ IsOwn(OwnObjects)
    BY <1>1, OwnIsOwn DEF OwnObjects
  <1>4. /\ OfCold /\ discovered = OwnObjects
        /\ Rebuild(arg.oids, arg.v2r, T, asic, OwnObjects)
        /\ torn = {} => IsInjective(T)
        /\ IsView(arg.oids) /\ IsV2R(arg.v2r, OwnObjects) /\ IsArg /\ arg.start = TRUE /\ Rest
    BY <1>3 DEF CheckStage, Rebuilding, OfCold
  <1>5. DOMAIN T = DOMAIN arg.oids \cap Vid
    BY <1>3, <1>4 DEF CheckStage, Rebuild
  <1>l. Len(work) # 1
    BY <1>3 DEF CheckStage, AfterProcess
  <1>s. told' = told
    BY <1>l DEF CheckAllIds, Step, Fail, Halt
  <1>6. CASE DOMAIN T = DOMAIN arg.v2r /\ IsInjective(T)
    <2>1. Step([arg EXCEPT !.map = T, !.todo = X])
      BY <1>6 DEF CheckAllIds
    <2> HIDE DEF X
    <2>2. /\ work' = <<"delv2r", "delr2v", "hset", "postremove">> /\ syncd' = syncd
          /\ arg' = [arg EXCEPT !.map = T, !.todo = X]
      BY <2>1, <1>3 DEF Step, CheckStage, AfterProcess
    <2>3. IsArg' /\ arg'.start = TRUE /\ arg'.map = T /\ arg'.todo = X
      BY <2>2, <1>4 DEF IsArg
    <2>4. ASIC_STATE = arg.oids /\ VIDTORID = arg.v2r /\ Full(arg.v2r)
      BY <1>4, <1>5, <1>6 DEF OfCold, ReadComplete
    <2>5. /\ DOMAIN arg.oids \cap Vid \subseteq DOMAIN T
          /\ DOMAIN arg.oids \cap Entry \subseteq DOMAIN asic
      BY <1>3 DEF CheckStage
    <2>6. Target(arg.oids, T, OwnObjects \ Range(T), asic, OwnObjects)
      BY <2>4, <2>5, <1>4, <1>6, <1>o, RebuildEnds
    <2>7. Target(ASIC_STATE, T, X, asic, OwnObjects)
      BY <2>4, <2>6, <1>4 DEF X
    <2>8. torn = {} => Kept(told, ASIC_STATE, T)
      <3> SUFFICES ASSUME torn = {} PROVE Kept(told, ASIC_STATE, T)
        OBVIOUS
      <3>1. Kept(told, arg.oids, arg.v2r)
        BY <2>4, <1>4 DEF Rest
      <3>2. Kept(told, arg.oids, T)
        BY <3>1, <1>4, <1>6, <1>o, KeptByRebuild
      <3> QED BY <3>2, <2>4
    <2>9. Mapping'
      BY <2>3, <2>7, <2>8, <1>1, <1>s, <1>o DEF Mapping
    <2>10. Safe(ASIC_STATE, VIDTORID, RIDTOVID)'
      BY <1>1, <1>4 DEF Rest
    <2>11. DelV2rStage'
      BY <2>2, <2>3, <2>9, <2>10 DEF DelV2rStage
    <2> QED BY <2>2, <2>11, <1>1, <1>t, KeepsRunning DEF Stage
  <1>7. CASE ~(DOMAIN T = DOMAIN arg.v2r /\ IsInjective(T))
    <2>1. syncd' = "failed"
      BY <1>7 DEF CheckAllIds, Fail, Halt
    <2>2. torn # {}
      BY <1>4, <1>5, <1>7 DEF OfCold, ReadComplete
    <2>3. Rest'
      BY <1>1, <1>4, <1>s, RestStays
    <2> QED BY <2>1, <2>2, <2>3, <1>1, <1>t, Fails
  <1> QED BY <1>6, <1>7

(* Removing an own object that the database does not have preserves it.    *)
LEMMA PostRemoveActionStep ==
  ASSUME RestartInv, Followed, NEW rid, PostRemoveAction(rid)
  PROVE  RestartInv'
  <1> DEFINE X == arg.todo \ {rid}
  <1>1. /\ At("postremove") /\ syncd = "run" /\ syncd' = "run"
        /\ UNCHANGED <<ASIC_STATE, VIDTORID, RIDTOVID, upgraded, warm, syncMode, torn, told, work>>
        /\ rid \in arg.todo
        /\ asic' = IF rid \in Removable THEN Del(asic, rid) ELSE asic
        /\ arg' = [arg EXCEPT !.todo = X]
    BY DEF PostRemoveAction, At, Stay, redis, env
  <1>2. Types /\ Stage
    BY <1>1, Running
  <1>3. PostStage
    BY <1>1, <1>2, StageAt
  <1>t. IsView(ASIC_STATE') /\ IsV2R(VIDTORID', OwnObjects) /\ IsR2V(RIDTOVID', OwnObjects)
    BY <1>1, <1>2 DEF Types
  <1>o. OwnObjects' = OwnObjects /\ IsOwn(OwnObjects)
    BY <1>1, OwnIsOwn DEF OwnObjects
  <1>4. rid \in OwnObjects /\ rid \notin Range(VIDTORID)
    BY <1>1, <1>3 DEF PostStage
  <1>5. Linked(ASIC_STATE, VIDTORID) /\ Built(ASIC_STATE, VIDTORID, asic, arg.todo, OwnObjects)
    BY <1>3 DEF PostStage, Stored
  <1>6. ASSUME NEW k \in DOMAIN ASIC_STATE PROVE Id(VIDTORID, k) # rid
    <2>1. CASE k \in Vid
      BY <2>1, <1>4, <1>5, InRange DEF Linked, Id
    <2>2. CASE k \notin Vid
      <3>1. k \in Entry
        BY <2>2, <1>2 DEF Types, IsView
      <3> QED BY <2>2, <3>1, <1>4, <1>o, RidFacts DEF Id
    <2> QED BY <2>1, <2>2
  <1>7. /\ DOMAIN asic \ {rid} \subseteq DOMAIN asic' /\ DOMAIN asic' \subseteq DOMAIN asic
        /\ rid \in Removable => rid \notin DOMAIN asic'
        /\ \A r \in DOMAIN asic' : asic'[r] = asic[r]
    BY <1>1 DEF Del, Restrict
  <1> HIDE DEF X
  <1>8. Built(ASIC_STATE, VIDTORID, asic', X, OwnObjects)
    <2>1. ASSUME NEW k \in DOMAIN ASIC_STATE
          PROVE  Id(VIDTORID, k) \in DOMAIN asic' /\ asic'[Id(VIDTORID, k)] = Image(VIDTORID, ASIC_STATE[k])
      BY <1>5, <1>6, <1>7 DEF Built
    <2>2. ASSUME NEW r \in DOMAIN asic'
          PROVE  \/ r \in Range(VIDTORID)
                 \/ r \in DOMAIN ASIC_STATE \cap Entry
                 \/ r \in (OwnObjects \ Removable) \cup X /\ asic'[r] = {}
      <3>1. \/ r \in Range(VIDTORID)
            \/ r \in DOMAIN ASIC_STATE \cap Entry
            \/ r \in (OwnObjects \ Removable) \cup arg.todo /\ asic[r] = {}
        BY <1>5, <1>7 DEF Built
      <3> QED BY <3>1, <1>4, <1>7 DEF X
    <2> QED BY <2>1, <2>2 DEF Built
  <1>9. IsArg' /\ arg'.start = TRUE /\ arg'.todo = X
    BY <1>1, <1>3, TodoIsSet DEF PostStage
  <1>10. InOrder'
    BY <1>1, <1>3 DEF PostStage, InOrder
  <1>11. PostStage'
    <2>1. X \subseteq arg.todo
      BY DEF X
    <2> QED BY <2>1, <1>1, <1>3, <1>8, <1>9, <1>10, <1>o DEF PostStage
  <1> QED BY <1>11, <1>1, <1>t, KeepsRunning DEF Stage

(* The end of a cold start preserves it: the database agrees with the      *)
(* ASIC.                                                                   *)
LEMMA PostRemoveEndsStep ==
  ASSUME RestartInv, Followed, PostRemoveEnds
  PROVE  RestartInv'
  <1>1. /\ At("postremove") /\ syncd = "run" /\ syncd' = "run"
        /\ UNCHANGED <<ASIC_STATE, VIDTORID, RIDTOVID, asic, upgraded, warm, syncMode, torn>>
        /\ arg.todo = {}
        /\ Step(arg)
    BY DEF PostRemoveEnds, At, Step, redis, env
  <1>2. Types /\ Stage
    BY <1>1, Running
  <1>3. PostStage
    BY <1>1, <1>2, StageAt
  <1>t. IsView(ASIC_STATE') /\ IsV2R(VIDTORID', OwnObjects) /\ IsR2V(RIDTOVID', OwnObjects)
    BY <1>1, <1>2 DEF Types
  <1>4. work' = <<>> /\ told' = told
    BY <1>1, <1>3 DEF Step, PostStage
  <1>5. Up
    BY <1>1, <1>3 DEF PostStage, Up, Now, Agree
  <1>6. Up'
    BY <1>1, <1>4, <1>5, UpStays
  <1> QED BY <1>1, <1>4, <1>6, <1>t, KeepsRunning DEF Stage

(* A warm start preserves the invariant: all that is new on the ASIC is    *)
(* what the upgrade added.                                                 *)
LEMMA WarmRestartStep ==
  ASSUME RestartInv, Followed, WarmRestart
  PROVE  RestartInv'
  <1> DEFINE A == ASIC_STATE
             V == VIDTORID
             R == RIDTOVID
             S == [d \in DOMAIN asic \cup (OwnObjects \ Default) |-> IF d \in DOMAIN asic THEN asic[d] ELSE {}]
             X == (DOMAIN S \cap Rid) \ DOMAIN RIDTOVID
  <1>1. /\ At("warm") /\ syncd = "run"
        /\ UNCHANGED <<ASIC_STATE, VIDTORID, RIDTOVID, upgraded, warm, syncMode, torn>>
    BY DEF WarmRestart, At, redis, env
  <1>2. Types /\ Stage
    BY <1>1, Running
  <1>3. WarmStage
    BY <1>1, <1>2, StageAt
  <1>t. IsView(ASIC_STATE') /\ IsV2R(VIDTORID', OwnObjects) /\ IsR2V(RIDTOVID', OwnObjects)
    BY <1>1, <1>2 DEF Types
  <1>o. OwnObjects' = OwnObjects /\ IsOwn(OwnObjects)
    BY <1>1, OwnIsOwn DEF OwnObjects
  <1>4. /\ Up /\ Stored(A, V, R) /\ Built(A, V, asic, {}, OwnObjects)
        /\ arg = [NoArg EXCEPT !.start = TRUE]
    BY <1>3 DEF WarmStage, Up, Now, Agree
  <1>a. IsArg /\ arg.start = TRUE /\ arg.cur = <<>>
    BY <1>4 DEF NoArg, IsArg
  <1>l. Len(work) # 1
    BY <1>3 DEF WarmStage, WarmStart
  <1>s. told' = told
    BY <1>l DEF WarmRestart, Step, Fail, Halt
  <1>5. CASE SwitchVid \notin DOMAIN A \/ SwitchVid \notin DOMAIN V
    <2>1. syncd' = "failed"
      BY <1>5 DEF WarmRestart, Fail, Halt, Has
    <2>2. SwitchVid \notin DOMAIN ASIC_STATE'
      BY <1>1, <1>4, <1>5, StoredHasSwitch
    <2>3. Rest'
      BY <1>1, <1>4, <1>s, RestStays, UpIsRest
    <2> QED BY <2>1, <2>2, <2>3, <1>1, <1>t, Fails
  <1>6. CASE SwitchVid \in DOMAIN A /\ SwitchVid \in DOMAIN V
    <2>1. asic' = S /\ Step([arg EXCEPT !.todo = X])
      BY <1>6 DEF WarmRestart, Has
    <2>2. /\ DOMAIN S = DOMAIN asic \cup (OwnObjects \ Default)
          /\ \A d \in DOMAIN asic : S[d] = asic[d]
          /\ \A d \in DOMAIN S \ DOMAIN asic : S[d] = {}
      OBVIOUS
    <2>3. X = (DOMAIN S \cap Rid) \ DOMAIN R
      OBVIOUS
    <2> HIDE DEF X, S
    <2>4. work' = <<"save", "discover", "save">> /\ syncd' = syncd /\ arg' = [arg EXCEPT !.todo = X]
      BY <2>1, <1>3 DEF Step, WarmStage, WarmStart
    <2>5. IsArg' /\ arg'.start = TRUE /\ arg'.cur = <<>> /\ arg'.todo = X
      BY <2>4, <1>a, TodoIsSet
    <2>6. /\ Linked(A, V) /\ Paired(V, R) /\ Full(V) /\ DOMAIN R = Range(V)
      BY <1>4, <1>6 DEF Stored, Complete, Paired
    <2>7. ASSUME NEW r \in DOMAIN S
          PROVE  \/ r \in Range(V)
                 \/ r \in DOMAIN A \cap Entry
                 \/ r \in OwnObjects \ Default /\ S[r] = {}
      <3>1. CASE r \in DOMAIN asic
        <4>1. \/ r \in Range(V)
              \/ r \in DOMAIN A \cap Entry
              \/ r \in OwnObjects \ Removable /\ asic[r] = {}
          BY <3>1, <1>4 DEF Built
        <4> QED BY <3>1, <4>1, <2>2, <2>6 DEF Full
      <3>2. CASE r \notin DOMAIN asic
        BY <3>2, <2>2
      <3> QED BY <3>1, <3>2
    <2>8. Entry \cap Rid = {} /\ OwnObjects \ Default \subseteq New /\ OwnObjects \ Default \subseteq OwnObjects \ Removable
      BY IdAssumption DEF Rid, OwnObjects
    <2>9. X \subseteq OwnObjects \ Default /\ X \subseteq DOMAIN S
      BY <2>3, <2>6, <2>7, <2>8
    <2>10. Dummies(A, V) = A
      <3>1. DOMAIN A \cup DOMAIN V = DOMAIN A /\ A = [k \in DOMAIN A |-> A[k]]
        BY <2>6, <1>2 DEF Linked, Types, IsView
      <3> QED BY <3>1 DEF Dummies
    <2>11. Built(A, V, S, X, OwnObjects)
      <3>1. ASSUME NEW k \in DOMAIN A
            PROVE  Id(V, k) \in DOMAIN S /\ S[Id(V, k)] = Image(V, A[k])
        BY <1>4, <2>2 DEF Built
      <3>2. ASSUME NEW r \in DOMAIN S
            PROVE  \/ r \in Range(V)
                   \/ r \in DOMAIN A \cap Entry
                   \/ r \in (OwnObjects \ Removable) \cup X /\ S[r] = {}
        BY <2>7, <2>8
      <3> QED BY <3>1, <3>2 DEF Built
    <2>12. Saving(A, V, R)'
      <3>1. A' = A /\ V' = V /\ R' = R /\ arg'.todo = X /\ arg'.cur = <<>> /\ asic' = S /\ OwnObjects' = OwnObjects
        BY <2>1, <2>5, <1>1, <1>o
      <3>2. CurOk(R)'
        BY <3>1 DEF CurOk
      <3>3. Inserted(R, <<>>) = R
        BY DEF Inserted
      <3>4. DOMAIN V \ DOMAIN A = {} /\ Default \ Removable \subseteq X \cup Range(V)
        BY <2>6 DEF Linked, Full
      <3>5. X \subseteq OwnObjects
        BY <2>9
      <3> QED BY <3>1, <3>2, <3>3, <3>4, <3>5, <2>6, <2>9, <2>10, <2>11, <1>6 DEF Saving
    <2>13. torn = {} => Kept(told, Dummies(A, V), V)
      BY <2>10, <1>4 DEF Up, InOrder
    <2>14. X \subseteq New
      BY <2>8, <2>9
    <2>15. WarmSave'
      BY <2>4, <2>5, <2>12, <2>13, <2>14, <1>1, <1>s DEF WarmSave
    <2> QED BY <2>4, <2>15, <1>1, <1>t, KeepsRunning DEF Stage, SaveStage
  <1> QED BY <1>5, <1>6

-----------------------------------------------------------------------------
(* Crashes, shutdowns and upgrades.                                        *)

(* What the next step says of what a crash cuts in two.                    *)
LEMMA CutFacts ==
  /\ \A s \in {"asic", "v2r", "r2v", "db", "wipe", "write", "delv2r", "delr2v", "hset"} :
       Next1(s) => Cut # {}
  /\ Next1("discover") /\ arg.start = FALSE => "discovery" \in Cut
  /\ Next1("save") /\ (arg.start = FALSE \/ arg.todo # {}) => "discovery" \in Cut
  BY DEF Next1, Cut

(* Wherever a crash falls outside a discovery, the database is safe; if it *)
(* cuts nothing in two, the database is as the client was told.            *)
LEMMA CrashPoint ==
  ASSUME Types, Stage, "discovery" \notin Cut
  PROVE  /\ Safe(ASIC_STATE, VIDTORID, RIDTOVID)
         /\ torn = {} /\ Cut = {} =>
              Stored(ASIC_STATE, VIDTORID, RIDTOVID) /\ Kept(told, ASIC_STATE, VIDTORID)
  <1> DEFINE Safe1 == Safe(ASIC_STATE, VIDTORID, RIDTOVID)
             Pending == Safe1 /\ Cut # {}
  <1>u. Up => Rest
    BY UpIsRest
  <1>f. Full(VIDTORID) \/ DOMAIN VIDTORID = {} \/ DOMAIN RIDTOVID = {} => Safe1
    BY FullIsSafe
  <1> HIDE DEF Safe1
  <1>1. AsicStage => Pending
    BY <1>f, Heads, CutFacts
    DEF AsicStage, SwitchPending, ObjectPending, EntryPending, OfObject, OfEntry, Whole
  <1>2. V2rStage => Pending
    BY <1>f, Heads, CutFacts DEF V2rStage, ObjectOnAsic, OfObject, Whole
  <1>3. R2vStage => Pending
    BY <1>f, Heads, CutFacts DEF R2vStage, ObjectOnAsic, OfObject, Whole
  <1>4. DbStage => Pending
    BY <1>f, Heads, CutFacts
    DEF DbStage, SwitchPending, ObjectPending, EntryPending, OfObject, OfEntry, Whole
  <1>5. WipeStage \/ WriteStage => Pending
    BY <1>f, Heads, CutFacts DEF WipeStage, WriteStage
  <1>6. DelV2rStage => Pending
    BY Heads, CutFacts DEF DelV2rStage, Safe1
  <1>7. DelR2vStage => Pending
    BY <1>f, Heads, CutFacts DEF DelR2vStage
  <1>8. HsetStage => Pending
    <2> SUFFICES ASSUME HsetStage PROVE Pending
      OBVIOUS
    <2>1. /\ Linked(ASIC_STATE, arg.map) /\ Complete(ASIC_STATE, arg.map)
          /\ \A v \in DOMAIN VIDTORID : v \in DOMAIN arg.map /\ VIDTORID[v] = arg.map[v]
          /\ IsView(ASIC_STATE)
      BY DEF HsetStage, Mapping, Target, Types
    <2>2. Safe1
      BY <2>1, PartIsSafe DEF Safe1
    <2> QED BY <2>2, Heads, CutFacts
  <1>9. DiscoverStage => Rest
    <2> SUFFICES ASSUME DiscoverStage PROVE Rest
      OBVIOUS
    <2>1. arg.start # FALSE
      BY Heads, CutFacts
    <2> QED BY <2>1, <1>u DEF DiscoverStage, SwitchOnAsic, OfSwitch, OfRequest, ColdDiscover, OfCold
  <1>10. SaveStage => Rest
    <2> SUFFICES ASSUME SaveStage PROVE Rest
      OBVIOUS
    <2>1. arg.start # FALSE /\ arg.todo = {}
      BY Heads, CutFacts
    <2>2. CASE BootSave
      BY <2>1, <2>2 DEF BootSave, OfSwitch, OfRequest
    <2>3. CASE WarmSave
      <3>1. /\ Agree(ASIC_STATE, VIDTORID, RIDTOVID, asic, OwnObjects)
            /\ Dummies(ASIC_STATE, VIDTORID) = ASIC_STATE
        BY <2>1, <2>3, AllSaved DEF WarmSave, Types
      <3>2. Up
        BY <3>1, <2>3 DEF WarmSave, Up, Now, InOrder
      <3> QED BY <3>2, <1>u
    <2>4. CASE WarmAgain
      BY <2>4, <1>u DEF WarmAgain
    <2>5. CASE ColdSave
      BY <2>5 DEF ColdSave, OfCold
    <2> QED BY <2>2, <2>3, <2>4, <2>5 DEF SaveStage
  <1>11. ReadStage \/ SwitchStage \/ ProcessStage \/ CheckStage => Rest
    BY DEF ReadStage, SwitchStage, ProcessStage, CheckStage, Rebuilding, OfCold
  <1>12. PostStage => Rest
    BY StoredIsSafe DEF PostStage, InOrder, Rest
  <1>13. WarmStage \/ (work = <<>> /\ Up) => Rest
    BY <1>u DEF WarmStage
  <1>14. Pending \/ Rest
    BY <1>1, <1>2, <1>3, <1>4, <1>5, <1>6, <1>7, <1>8, <1>9, <1>10, <1>11, <1>12, <1>13 DEF Stage
  <1> QED BY <1>14 DEF Rest, Safe1

(* A crash preserves the invariant.                                        *)
LEMMA CrashStep ==
  ASSUME RestartInv, Followed, Crash
  PROVE  RestartInv'
  <1> SUFFICES ASSUME Followed'
               PROVE  RestartInv'
    BY DEF RestartInv
  <1>0. "discovery" \notin torn'
    BY DEF Followed
  <1>1. /\ syncd = "run" /\ syncd' = "down" /\ torn' = torn \cup Cut
        /\ told' = IF torn' = {} THEN told ELSE Empty
        /\ UNCHANGED <<ASIC_STATE, VIDTORID, RIDTOVID, upgraded, warm, syncMode>>
    BY DEF Crash, Forget, redis
  <1>2. Types /\ warm = FALSE /\ Stage
    BY <1>1, Running
  <1>3. /\ Safe(ASIC_STATE, VIDTORID, RIDTOVID)
        /\ torn = {} /\ Cut = {} =>
             Stored(ASIC_STATE, VIDTORID, RIDTOVID) /\ Kept(told, ASIC_STATE, VIDTORID)
    BY <1>0, <1>1, <1>2, CrashPoint
  <1>4. Rest'
    BY <1>1, <1>3 DEF Rest
  <1>5. Types'
    BY <1>1, <1>2 DEF Types, OwnObjects
  <1> QED BY <1>1, <1>2, <1>4, <1>5 DEF RestartInv

(* So does a shutdown.                                                     *)
LEMMA ShutdownStep ==
  ASSUME RestartInv, Followed, NEW w \in BOOLEAN, Shutdown(w)
  PROVE  RestartInv'
  <1> SUFFICES ASSUME Followed'
               PROVE  RestartInv'
    BY DEF RestartInv
  <1>1. /\ syncd' = "down" /\ warm' \in BOOLEAN
        /\ syncd \in {"failed", "refused"} \/ Idle
        /\ asic' = IF warm' THEN asic ELSE Empty
        /\ torn' = IF warm' /\ ~Idle THEN torn \cup {"warm"} ELSE torn
        /\ told' = IF torn' = {} THEN told ELSE Empty
        /\ UNCHANGED <<ASIC_STATE, VIDTORID, RIDTOVID, upgraded, syncMode>>
    BY DEF Shutdown, Forget, redis
  <1>2. Types
    BY DEF RestartInv
  <1>3. Types'
    BY <1>1, <1>2 DEF Types, OwnObjects
  <1>4. /\ warm' => Idle
        /\ torn' = torn
    BY <1>1 DEF Followed
  <1>5. Rest
    <2>1. CASE Idle
      BY <2>1, Requested, UpIsRest
    <2>2. CASE ~Idle
      BY <1>1, <2>2 DEF RestartInv
    <2> QED BY <2>1, <2>2
  <1>6. Rest'
    BY <1>1, <1>4, <1>5 DEF Rest
  <1>7. warm' => Up'
    <2> SUFFICES ASSUME warm' PROVE Up'
      OBVIOUS
    <2>1. Up
      BY <1>4, Requested
    <2> QED BY <2>1, <1>1, <1>4 DEF Up, Now, InOrder, OwnObjects
  <1> QED BY <1>1, <1>3, <1>6, <1>7 DEF RestartInv

(* So does an upgrade between two runs.                                    *)
LEMMA UpgradeStep ==
  ASSUME RestartInv, Followed, Upgrade
  PROVE  RestartInv'
  <1>1. /\ syncd = "down" /\ syncd' = "down" /\ upgraded' = TRUE
        /\ UNCHANGED <<ASIC_STATE, VIDTORID, RIDTOVID, asic, warm, syncMode, torn, told>>
    BY DEF Upgrade, redis
  <1>2. OwnObjects \subseteq OwnObjects'
    BY <1>1 DEF OwnObjects
  <1>3. Types
    BY DEF RestartInv, Followed
  <1>4. IsV2R(VIDTORID, OwnObjects') /\ IsR2V(RIDTOVID, OwnObjects')
    BY <1>2, <1>3 DEF Types, IsV2R, IsR2V
  <1>5. Types'
    BY <1>1, <1>3, <1>4 DEF Types
  <1>6. CASE warm
    <2>1. Up
      BY <1>1, <1>6 DEF RestartInv, Followed
    <2>2. Built(ASIC_STATE, VIDTORID, asic, {}, OwnObjects')
      BY <2>1, <1>2 DEF Up, Now, Agree, Built
    <2>3. Up'
      BY <2>1, <2>2, <1>1 DEF Up, Now, Agree, InOrder
    <2> QED BY <2>3, <1>1, <1>5, <1>6 DEF RestartInv
  <1>7. CASE ~warm
    <2>1. Rest'
      BY <1>1, <1>7, RestStays DEF RestartInv, Followed
    <2> QED BY <2>1, <1>1, <1>5, <1>7 DEF RestartInv
  <1> QED BY <1>6, <1>7

-----------------------------------------------------------------------------
(* The theorems.                                                           *)

(* The invariant holds at first.                                           *)
LEMMA RestartInit ==
  ASSUME Init
  PROVE  RestartInv
  <1>1. /\ ASIC_STATE = Empty /\ VIDTORID = Empty /\ RIDTOVID = Empty /\ told = Empty
        /\ syncd = "down" /\ warm = FALSE /\ upgraded = FALSE /\ syncMode \in BOOLEAN
    BY DEF Init
  <1>2. IsView(Empty) /\ DOMAIN Empty = {} /\ Range(Empty) = {}
    BY DEF IsView, Empty, Range
  <1>3. Types
    BY <1>1, <1>2, TypesOfEmpty DEF Types
  <1>4. Stored(Empty, Empty, Empty)
    BY <1>2 DEF Stored, Linked, Paired, Complete
  <1>5. Kept(Empty, Empty, Empty)
    BY <1>2 DEF Kept
  <1>6. Rest
    BY <1>1, <1>4, <1>5, StoredIsSafe DEF Rest
  <1> QED BY <1>1, <1>3, <1>6 DEF RestartInv

(* What a crash has cut in two stays so: once a discovery is torn it is    *)
(* torn for good.                                                          *)
LEMMA TornGrows ==
  ASSUME [Next]_vars
  PROVE  torn \subseteq torn'
  <1>1. CASE CreateSwitch \/ (\E v \in Vid, refs \in Refs : CreateObject(v, refs))
             \/ (\E e \in Entry, refs \in Refs : CreateEntry(e, refs))
             \/ (\E k \in Vid \cup Entry : Remove(k))
    BY <1>1 DEF CreateSwitch, CreateObject, CreateEntry, Remove, Request, env
  <1>2. CASE OnAsic \/ OnV2r \/ OnR2v \/ OnDb
    BY <1>2 DEF OnAsic, OnV2r, OnR2v, OnDb, env
  <1>3. CASE Refused
    BY <1>3 DEF Refused
  <1>4. CASE (\E v, w \in Vid : ApplyView(v, w)) \/ (\E k \in Vid \cup Entry : Wipe(k) \/ WriteView(k))
    BY <1>4 DEF ApplyView, Wipe, WriteView, env
  <1>5. CASE DelV2r \/ DelR2v \/ HsetEnds \/ \E v \in Vid : Hset(v)
    BY <1>5 DEF DelV2r, DelR2v, HsetEnds, Hset, env
  <1>6. CASE Discover \/ SaveNewR2v \/ SaveEnds
             \/ \E rid \in Rid : SaveDummy(rid) \/ \E v \in Vid : SaveNewV2r(rid, v)
    BY <1>6 DEF Discover, SaveNewR2v, SaveEnds, SaveDummy, SaveNewV2r, env
  <1>6a. CASE NoVidLeft
    BY <1>6a DEF NoVidLeft
  <1>7. CASE Start \/ ReadAsicState \/ ProcessSwitch \/ ProcessFails \/ ProcessEnds
    BY <1>7 DEF Start, ReadAsicState, ProcessSwitch, ProcessFails, ProcessEnds, env
  <1>8. CASE (\E rid \in Rid, v \in Vid : ProcessVid(v, rid)) \/ (\E e \in Entry : ProcessEntry(e))
    BY <1>8 DEF ProcessVid, ProcessEntry, env
  <1>9. CASE CheckAllIds \/ PostRemoveEnds \/ WarmRestart \/ StartRefused \/ \E rid \in Rid : PostRemoveAction(rid)
    BY <1>9 DEF CheckAllIds, PostRemoveEnds, WarmRestart, StartRefused, PostRemoveAction, env
  <1>10. CASE Crash \/ Upgrade \/ \E w \in BOOLEAN : Shutdown(w)
    BY <1>10 DEF Crash, Upgrade, Shutdown
  <1>11. CASE UNCHANGED vars \/ LeftOpen
    BY <1>11 DEF vars, env, LeftOpen
  <1> QED BY <1>1, <1>2, <1>3, <1>4, <1>5, <1>6, <1>6a, <1>7, <1>8, <1>9, <1>10, <1>11 DEF Next

(* A stage is about the variables it mentions only.                        *)
LEMMA StageStutters ==
  ASSUME UNCHANGED <<ASIC_STATE, VIDTORID, RIDTOVID, asic, upgraded, syncMode, torn, work, arg, discovered, told>>
  PROVE  Stage' <=> Stage
  <1>1. /\ OwnObjects' = OwnObjects
        /\ Up' <=> Up
        /\ Rest' <=> Rest
        /\ IsArg' <=> IsArg
    BY DEF OwnObjects, Up, Now, InOrder, Rest, IsArg
  <1>2. /\ OfRequest' <=> OfRequest
        /\ OfSwitch' <=> OfSwitch
        /\ OfObject' <=> OfObject
        /\ OfEntry' <=> OfEntry
    BY <1>1 DEF OfRequest, OfSwitch, OfObject, OfEntry
  <1>3. AsicStage' <=> AsicStage
    BY <1>1, <1>2 DEF AsicStage, SwitchPending, ObjectPending, EntryPending, DbDone, ObjectMade, Written
  <1>4. V2rStage' <=> V2rStage
    BY <1>1, <1>2 DEF V2rStage, SwitchOnAsic, ObjectOnAsic, DbDone, ObjectMade, Written
  <1>5. R2vStage' <=> R2vStage
    BY <1>1, <1>2 DEF R2vStage, SwitchOnAsic, ObjectOnAsic, DbDone, V2rDone, ObjectMade, Written
  <1>6. DbStage' <=> DbStage
    BY <1>1, <1>2 DEF DbStage, SwitchPending, ObjectPending, EntryPending, ObjectMade, Written, Now
  <1>7. (WipeStage' <=> WipeStage) /\ (WriteStage' <=> WriteStage)
    BY <1>1 DEF WipeStage, WriteStage
  <1>8. /\ DelV2rStage' <=> DelV2rStage
        /\ DelR2vStage' <=> DelR2vStage
        /\ HsetStage' <=> HsetStage
    BY <1>1 DEF DelV2rStage, DelR2vStage, HsetStage, Mapping
  <1>9. OfCold' <=> OfCold
    BY <1>1 DEF OfCold, ReadComplete
  <1>10. DiscoverStage' <=> DiscoverStage
    BY <1>1, <1>2, <1>9 DEF DiscoverStage, SwitchOnAsic, ColdDiscover, NewSwitch
  <1>11. SaveStage' <=> SaveStage
    BY <1>1, <1>2, <1>9 DEF SaveStage, BootSave, WarmSave, WarmAgain, ColdSave, Saving, CurOk, NewSwitch, ReadComplete
  <1>12. /\ ReadStage' <=> ReadStage
         /\ SwitchStage' <=> SwitchStage
         /\ ProcessStage' <=> ProcessStage
         /\ CheckStage' <=> CheckStage
    BY <1>1, <1>9 DEF ReadStage, SwitchStage, ProcessStage, CheckStage, Rebuilding
  <1>13. (PostStage' <=> PostStage) /\ (WarmStage' <=> WarmStage)
    BY <1>1 DEF PostStage, WarmStage, InOrder
  <1> QED BY <1>1, <1>3, <1>4, <1>5, <1>6, <1>7, <1>8, <1>10, <1>11, <1>12, <1>13 DEF Stage

(* Every step preserves the invariant.                                     *)
LEMMA RestartStep ==
  ASSUME RestartInv, [Next]_vars
  PROVE  RestartInv'
  <1>1. CASE ~Followed
    BY <1>1, TornGrows DEF Followed, RestartInv
  <1>2. CASE Followed
    <2>1. CASE UNCHANGED vars \/ LeftOpen
      <3>1. UNCHANGED <<ASIC_STATE, VIDTORID, RIDTOVID, asic, upgraded, warm, syncMode, otherEntry, torn, syncd,
                        work, arg, discovered, told>>
        BY <2>1 DEF vars, redis, env, LeftOpen
      <3>2. Types' <=> Types
        BY <3>1 DEF Types, OwnObjects
      <3>3. (Up' <=> Up) /\ (Rest' <=> Rest)
        BY <3>1 DEF Up, Now, InOrder, OwnObjects, Rest
      <3>4. Stage' <=> Stage
        BY <3>1, StageStutters
      <3> QED BY <3>1, <3>2, <3>3, <3>4 DEF RestartInv, Followed
    <2>2. CASE CreateSwitch \/ (\E v \in Vid, refs \in Refs : CreateObject(v, refs))
               \/ (\E e \in Entry, refs \in Refs : CreateEntry(e, refs))
               \/ (\E k \in Vid \cup Entry : Remove(k))
      BY <1>2, <2>2, CreateSwitchStep, CreateObjectStep, CreateEntryStep, RemoveStep
    <2>3. CASE OnAsic \/ Refused \/ OnV2r \/ OnR2v \/ OnDb
      BY <1>2, <2>3, OnAsicStep, RefusedStep, OnV2rStep, OnR2vStep, OnDbStep
    <2>4. CASE (\E v, w \in Vid : ApplyView(v, w)) \/ (\E k \in Vid \cup Entry : Wipe(k) \/ WriteView(k))
      BY <1>2, <2>4, ApplyViewStep, WipeStep, WriteViewStep
    <2>5. CASE DelV2r \/ DelR2v \/ HsetEnds \/ \E v \in Vid : Hset(v)
      BY <1>2, <2>5, DelV2rStep, DelR2vStep, HsetStep, HsetEndsStep
    <2>6. CASE Discover \/ SaveNewR2v \/ SaveEnds \/ NoVidLeft
               \/ \E rid \in Rid : SaveDummy(rid) \/ \E v \in Vid : SaveNewV2r(rid, v)
      BY <1>2, <2>6, DiscoverStep, SaveNewR2vStep, SaveEndsStep, SaveDummyStep, SaveNewV2rStep, NoVidLeftStep
    <2>7. CASE Start \/ ReadAsicState \/ ProcessSwitch \/ ProcessFails \/ ProcessEnds
      BY <1>2, <2>7, StartStep, ReadAsicStateStep, ProcessSwitchStep, ProcessFailsStep, ProcessEndsStep
    <2>8. CASE (\E rid \in Rid, v \in Vid : ProcessVid(v, rid)) \/ (\E e \in Entry : ProcessEntry(e))
      BY <1>2, <2>8, ProcessVidStep, ProcessEntryStep
    <2>9. CASE CheckAllIds \/ PostRemoveEnds \/ WarmRestart \/ StartRefused
               \/ \E rid \in Rid : PostRemoveAction(rid)
      BY <1>2, <2>9, CheckAllIdsStep, PostRemoveEndsStep, WarmRestartStep, StartRefusedStep, PostRemoveActionStep
    <2>10. CASE Crash \/ Upgrade \/ \E w \in BOOLEAN : Shutdown(w)
      BY <1>2, <2>10, CrashStep, UpgradeStep, ShutdownStep
    <2> QED BY <2>1, <2>2, <2>3, <2>4, <2>5, <2>6, <2>7, <2>8, <2>9, <2>10 DEF Next
  <1> QED BY <1>1, <1>2

(* At every step syncd is in a stage that says what the database and the   *)
(* ASIC will be once its program has ended, and whenever it is not running *)
(* the database is one that a start can be given.                          *)
THEOREM RestartInvariant == Spec => []RestartInv
  <1>1. Init => RestartInv
    BY RestartInit
  <1>2. RestartInv /\ [Next]_vars => RestartInv'
    BY RestartStep
  <1> QED BY <1>1, <1>2, PTL DEF Spec

(* A syncd that comes up has an ASIC that agrees with ASIC_STATE and the   *)
(* id maps, wherever requests, database updates or earlier starts have     *)
(* been cut in two (HardReiniter::hardReinit, SingleReiniter::hardReinit,  *)
(* Syncd::performWarmRestart), but for a crash in a discovery and a warm   *)
(* shutdown of a syncd in shutdown-wait mode.                              *)
THEOREM UpIsConsistent == Spec => []UpMeansConsistent
  <1>1. RestartInv => UpMeansConsistent
    <2> SUFFICES ASSUME RestartInv, Idle, Followed PROVE Consistent
      BY DEF UpMeansConsistent, Followed
    <2>1. /\ Agree(ASIC_STATE, VIDTORID, RIDTOVID, asic, OwnObjects)
          /\ IsView(ASIC_STATE) /\ IsV2R(VIDTORID, OwnObjects)
      BY Requested
    <2>2. /\ DOMAIN VIDTORID = DOMAIN ASIC_STATE \cap Vid
          /\ DOMAIN RIDTOVID = Range(VIDTORID)
          /\ \A v \in DOMAIN VIDTORID : RIDTOVID[VIDTORID[v]] = v
      BY <2>1 DEF Agree, Stored, Linked, Paired
    <2>3. \A k \in DOMAIN ASIC_STATE :
            LET id == IF k \in Vid THEN VIDTORID[k] ELSE k IN
            Has(asic, id) /\ asic[id] = Image(VIDTORID, ASIC_STATE[k])
      BY <2>1 DEF Agree, Built, Id, Has
    <2>4. DOMAIN asic \subseteq Range(VIDTORID) \cup (DOMAIN ASIC_STATE \cap Entry) \cup (OwnObjects \ Removable)
      BY <2>1 DEF Agree, Built
    <2> QED BY <2>2, <2>3, <2>4 DEF Consistent
  <1> QED BY <1>1, RestartInvariant, PTL

(* A start that the vendor does not refuse fails only after a crash or a   *)
(* failure that cut something in two, or for an entry of a type that       *)
(* prepareAsicState does not know: processSingleVid, checkAllIds and the   *)
(* comparison of the sizes of the maps do not throw.                       *)
THEOREM ComesUp == Spec => []ComesUpUnlessTorn
  <1>1. RestartInv => ComesUpUnlessTorn
    BY DEF RestartInv, ComesUpUnlessTorn, CannotStart, Has, Followed, UnknownEntries
  <1> QED BY <1>1, RestartInvariant, PTL

(* A restart after which nothing is cut in two leaves the view as the      *)
(* client's requests made it; only what an upgrade has added is new.       *)
THEOREM ViewIsKept == Spec => []RestartKeepsView
  <1>1. RestartInv => RestartKeepsView
    <2> SUFFICES ASSUME RestartInv, Idle, torn = {}
                 PROVE  /\ DOMAIN told \subseteq DOMAIN ASIC_STATE
                        /\ \A k \in DOMAIN ASIC_STATE :
                             IF Has(told, k) THEN ASIC_STATE[k] = told[k]
                             ELSE k \in Vid /\ Has(VIDTORID, k) /\ VIDTORID[k] \in New
      BY DEF RestartKeepsView
    <2>1. Up
      BY Requested DEF Followed
    <2> QED BY <2>1 DEF Up, InOrder, Kept, Has
  <1> QED BY <1>1, RestartInvariant, PTL

=============================================================================
