------------------------------ MODULE FlexCounter ------------------------------
(***************************************************************************)
(* A group of flex counters: its thread, which reads the counters of the   *)
(* objects of the group once per interval, and the tables that say which   *)
(* counters of which objects those are.  The main thread of syncd adds and *)
(* removes objects and configures the group while the thread runs.  Both   *)
(* work under m_mtx, so that a call of the main thread and a poll are one  *)
(* step each; what the thread does between them are steps of their own.    *)
(*                                                                         *)
(* The group has one counter context.  A VID is polled alone               *)
(* (m_objectIdsMap) or in a bulk with others (m_bulkContexts); prefixes    *)
(* split the counters of a bulk.  Values of counters, chunk sizes and the  *)
(* per-port discovery of counters are left out.                            *)
(***************************************************************************)
EXTENDS Integers, FiniteSets, SequencesExt

CONSTANTS Vid, Stat, Prefix,
          Removable,     \* bound: the objects that requests remove
          PrefixOf,      \* the prefix of a counter
          Lists,         \* counters that are asked for together
          BulkChoices,   \* what the vendor may support in bulk
          Doubtful       \* counters that it may refuse for an object

NoRid == "null"    \* SAI_NULL_OBJECT_ID; the RID of v is written v
Configs == SUBSET Prefix

ASSUME VidAssumption == IsFiniteSet(Vid)
ASSUME StatAssumption ==
    IsFiniteSet(Stat) /\ DOMAIN PrefixOf = Stat /\ Lists \subseteq (SUBSET Stat) \ {{}}
ASSUME BulkAssumption == BulkChoices \subseteq SUBSET Stat
ASSUME DoubtfulAssumption == Doubtful \subseteq Stat

VARIABLES
    m_flexCounters,              \* the instance: "none", "up", or "ending" in its destructor
    m_enable,                    \* with a poll interval
    m_isDiscarded,
    m_counterContext,            \* the context has been created
    m_prefixes,                  \* m_counterChunkSizeMapFromPrefix
    m_objectIdsMap,              \* partial function from Vid to sets of counters
    m_bulkContexts,              \* partial function from sets of counters to contexts
    m_supportedBulkCounters,
    m_readyToPoll,
    pc,                          \* of the thread
    connected,                   \* the thread has its COUNTERS_DB handles
    gone,                        \* objects that are no longer in VIDTORID
    wanted,                      \* history: what was added and not removed since, with the counters
                                 \* that the vendor supported and could read then
    careless                     \* history: a call the tables are not made for has come (Careful)

group == <<m_enable, m_isDiscarded, m_counterContext, m_prefixes, m_objectIdsMap, m_bulkContexts>>
thread == <<m_readyToPoll, pc, connected>>
vars == <<m_flexCounters, group, thread, m_supportedBulkCounters, gone, wanted, careless>>

\* FlexCounter::FlexCounter
NewGroup ==
    /\ m_enable' = FALSE /\ m_isDiscarded' = FALSE /\ m_counterContext' = FALSE
    /\ m_prefixes' = {} /\ m_objectIdsMap' = <<>> /\ m_bulkContexts' = <<>>
    /\ m_readyToPoll' = FALSE /\ pc' = "top" /\ connected' = FALSE

Init ==
    /\ m_flexCounters = "none"
    /\ m_enable = FALSE /\ m_isDiscarded = FALSE /\ m_counterContext = FALSE
    /\ m_prefixes = {} /\ m_objectIdsMap = <<>> /\ m_bulkContexts = <<>>
    /\ m_supportedBulkCounters \in BulkChoices
    /\ m_readyToPoll = FALSE /\ pc = "top" /\ connected = FALSE
    /\ gone = {}
    /\ wanted = <<>>
    /\ careless = FALSE

--------------------------------------------------------------------------------
(* The tables of the context.                                              *)

\* createCounterBulkChunkSizePerPrefixPartition: the counters without a prefix
\* are a part too, also when there are none.
Default(ids, pf) == {s \in ids : PrefixOf[s] \notin pf}
Parts(ids, pf) == ({{s \in ids : PrefixOf[s] = x} : x \in pf} \ {{}}) \cup {Default(ids, pf)}

\* getBulkStatsContext and addBulkStatsContext
NoContext(name) == [name |-> name, vids |-> <<>>, keys |-> <<>>]
Name(part, ids, pf) == IF part = Default(ids, pf) THEN "default" ELSE "prefix"
Key(v) == IF v \in gone THEN NoRid ELSE v
AddAllTo(ctx, S) ==
    LET new == SetToSeq(S \ ToSet(ctx.vids)) IN
    [ctx EXCEPT !.vids = @ \o new, !.keys = @ \o [i \in DOMAIN new |-> Key(new[i])]]
\* S is a function from parts to the objects that go there.
AddBulk(contexts, S, ids) ==
    LET parts == {p \in DOMAIN S : S[p] # {}} IN
    [p \in DOMAIN contexts \cup parts |->
        LET ctx == IF p \in DOMAIN contexts THEN contexts[p] ELSE NoContext(Name(p, ids, m_prefixes)) IN
        IF p \in parts THEN AddAllTo(ctx, S[p]) ELSE ctx]

\* Variant: the last key goes instead of the one of the object.
TakeFromBack(ctx, v) ==
    LET i == SelectInSeq(ctx.vids, LAMBDA x : x = v) IN
    [ctx EXCEPT !.vids = RemoveAt(@, i), !.keys = Front(@)]
TakeFrom(ctx, v) ==
    LET i == SelectInSeq(ctx.vids, LAMBDA x : x = v) IN
    [ctx EXCEPT !.vids = RemoveAt(@, i), !.keys = RemoveAt(@, i)]

Holding(v) == {p \in DOMAIN m_bulkContexts : v \in ToSet(m_bulkContexts[p].vids)}
\* Variant: the object leaves the first context that has it, prefixes or not.
LeftByFirst(v) ==
    IF Holding(v) = {} THEN {{}} ELSE {{p} : p \in Holding(v)}
\* removeBulkStatsContext: with prefixes the object leaves all contexts that
\* have it, without only the first one; which one that is depends on the numbers
\* of the counters.
LeftBy(v) ==
    IF m_prefixes # {} \/ Holding(v) = {} THEN {Holding(v)} ELSE {{p} : p \in Holding(v)}
BulkWithout(v, left) ==
    [p \in {q \in DOMAIN m_bulkContexts : q \notin left \/ Len(m_bulkContexts[q].vids) > 1} |->
        IF p \in left THEN TakeFrom(m_bulkContexts[p], v) ELSE m_bulkContexts[p]]
Without(f, S) == [x \in DOMAIN f \ S |-> f[x]]
With(f, S, val) == [x \in DOMAIN f \cup S |-> IF x \in S THEN val ELSE f[x]]

\* hasObject, and allIdsEmpty of the group
Empty == m_objectIdsMap = <<>> /\ m_bulkContexts = <<>>

--------------------------------------------------------------------------------
(* Calls of the main thread, through FlexCounterManager.                   *)

\* getInstance
GetInstance ==
    /\ m_flexCounters # "ending"
    /\ UNCHANGED <<pc, connected, m_supportedBulkCounters>>
\* Variant: only a thread that sleeps hears of it.
NotifyPollUnset == UNCHANGED m_readyToPoll
NotifyPoll == m_readyToPoll' = TRUE

\* An instance that has nothing left and was told to go is removed at once; its
\* destructor tells the thread to stop (endFlexCounterThread).
EndIfDiscarded(discarded) ==
    m_flexCounters' =
        IF discarded /\ m_objectIdsMap' = <<>> /\ m_bulkContexts' = <<>> THEN "ending" ELSE "up"

\* addCounterPlugin with a status and an interval
SetStatus(enable) ==
    /\ GetInstance
    /\ m_flexCounters' = "up"
    /\ m_enable' = enable
    /\ m_isDiscarded' = FALSE
    /\ NotifyPoll
    /\ UNCHANGED <<m_counterContext, m_prefixes, m_objectIdsMap, m_bulkContexts, gone, wanted>>

\* setBulkChunkSizePerPrefix of a context with bulks.
Vids(p) == ToSet(m_bulkContexts[p].vids)
Split(p, pf) == [x \in Parts(p, pf) \ {p} |->
                    [m_bulkContexts[p] EXCEPT !.name = Name(x, p, pf)]]
Mergeable ==
    /\ \A p, q \in DOMAIN m_bulkContexts : Vids(p) = Vids(q)
    /\ \E p \in DOMAIN m_bulkContexts : m_bulkContexts[p].name = "default"
\* Variant: the merged bulk keeps the counters of the default one.
MergeIntoDefault ==
    LET p == CHOOSE q \in DOMAIN m_bulkContexts : m_bulkContexts[q].name = "default" IN
    [x \in {p} |-> m_bulkContexts[p]]
Merge ==
    LET p == CHOOSE q \in DOMAIN m_bulkContexts : m_bulkContexts[q].name = "default" IN
    [x \in {UNION DOMAIN m_bulkContexts} |-> m_bulkContexts[p]]
SplitOrMerge(pf) ==
    IF Cardinality(DOMAIN m_bulkContexts) = 1 /\ pf # {}
    THEN Split(CHOOSE p \in DOMAIN m_bulkContexts : TRUE, pf)
    ELSE IF Cardinality(DOMAIN m_bulkContexts) > 1 /\ pf = {} /\ Mergeable THEN Merge
    ELSE m_bulkContexts

\* addCounterPlugin with prefixes, which a context that does not exist yet only
\* takes when a plugin creates it.  Prefixes that cannot be read count as none
\* and leave the bulks alone.  Without a context named default the merge has
\* nothing to merge into and the process ends; that is no step here.
SetPrefixes(pf, valid, plugin) ==
    /\ GetInstance
    /\ m_flexCounters' = "up"
    /\ m_isDiscarded' = FALSE
    /\ m_counterContext' = (m_counterContext \/ plugin)
    /\ m_prefixes' = IF m_counterContext' THEN pf ELSE m_prefixes
    /\ m_bulkContexts' = IF valid THEN SplitOrMerge(pf) ELSE m_bulkContexts
    /\ NotifyPoll
    /\ UNCHANGED <<m_enable, m_objectIdsMap, gone, wanted>>

RemoveCounterPlugins ==
    /\ GetInstance
    /\ m_isDiscarded' = TRUE
    /\ UNCHANGED <<m_enable, m_counterContext, m_prefixes, m_objectIdsMap, m_bulkContexts, gone, wanted>>
    /\ EndIfDiscarded(TRUE)
    /\ IF m_flexCounters' = "ending" THEN NotifyPoll ELSE UNCHANGED m_readyToPoll

\* isCounterSupported: the counters that are asked for and that the vendor supports,
\* at the moment and for the object it is asked about (updateSupportedCounters).
Supported(asked) == {ids \in SUBSET asked : ids # {} /\ asked \ Doubtful \subseteq ids}

\* addObject and bulkAddObject return early when the vendor supports none of the
\* counters, addObject also when it cannot read them: an object that is there
\* stays with the counters it has.
AddNothing ==
    /\ GetInstance
    /\ m_counterContext' = TRUE
    /\ UNCHANGED <<m_enable, m_isDiscarded, m_prefixes, m_objectIdsMap, m_bulkContexts, gone, wanted>>
    /\ EndIfDiscarded(m_isDiscarded)
    /\ NotifyPoll

\* addObject of counters that are supported and can be read: the object is removed
\* first.  An unknown VID is removed instead (RemoveCounter).
AddCounter(v, ids, bulk) ==
    /\ GetInstance
    /\ v \notin gone
    /\ m_counterContext' = TRUE
    /\ \E left \in LeftBy(v) :
        IF bulk
        THEN /\ m_bulkContexts' = AddBulk(BulkWithout(v, left), [p \in Parts(ids, m_prefixes) |-> {v}], ids)
             /\ m_objectIdsMap' = Without(m_objectIdsMap, {v})
        ELSE /\ m_bulkContexts' = BulkWithout(v, left)
             /\ m_objectIdsMap' = With(m_objectIdsMap, {v}, ids)
    /\ wanted' = With(wanted, {v}, ids)
    /\ EndIfDiscarded(m_isDiscarded)
    /\ NotifyPoll
    /\ UNCHANGED <<m_enable, m_isDiscarded, m_prefixes, gone>>

\* bulkAddObject of counters that are supported: objects that are there stay.  A
\* part that is not supported in bulk is polled object by object; where the vendor
\* then refuses the bulk of a part for an object, all its counters are.  An object
\* that cannot be read either is not added for that part.  An unknown VID is added
\* with a null RID.
\* ok[p]: the objects for which a bulk of the part p works
\* read[p]: the others, for which single reads of the part p do
Single(ids) == {p \in Parts(ids, m_prefixes) : ~(p \subseteq m_supportedBulkCounters)}
\* The counters of ids that the vendor answers for when it is asked about v.
Accepted(v, ids, ok, read) ==
    (UNION {p \in DOMAIN read : v \in read[p] \/ (p \in DOMAIN ok /\ v \in ok[p])})
        \cup {s \in ids : \E p \in DOMAIN ok : v \in read[p]}
\* The part that v is polled alone for is the last one; the default one comes last.
LastOf(rs, default) == IF default \in rs THEN {default} ELSE rs
BulkAddCounter(ids, ok, read) ==
    LET parts == DOMAIN ok
        single == Single(ids)
        alone == UNION {read[p] : p \in single}
        refused == UNION {read[p] : p \in parts}
        added == alone \cup refused \cup UNION {ok[p] : p \in parts}
    IN
    /\ GetInstance
    /\ m_counterContext' = TRUE
    /\ m_bulkContexts' = AddBulk(m_bulkContexts, ok, ids)
    /\ \E last \in [alone -> single] :
        /\ \A v \in alone : last[v] \in LastOf({p \in single : v \in read[p]}, Default(ids, m_prefixes))
        /\ m_objectIdsMap' =
            [v \in DOMAIN m_objectIdsMap \cup alone \cup refused |->
                IF v \in refused THEN ids ELSE IF v \in alone THEN last[v] ELSE m_objectIdsMap[v]]
    /\ wanted' = [v \in DOMAIN wanted \cup added |->
                    IF v \in added THEN Accepted(v, ids, ok, read) ELSE wanted[v]]
    /\ EndIfDiscarded(m_isDiscarded)
    /\ NotifyPoll
    /\ UNCHANGED <<m_enable, m_isDiscarded, m_prefixes, gone>>
\* What the vendor may answer when the counters ids of the objects S are added.
OkChoices(S, ids) ==
    {ok \in [Parts(ids, m_prefixes) \ Single(ids) -> SUBSET S] :
        \A p \in DOMAIN ok : p \cap Doubtful = {} => ok[p] = S}
ReadChoices(S, ids, ok) ==
    {read \in [Parts(ids, m_prefixes) -> SUBSET S] : \A p \in DOMAIN read :
        LET others == IF p \in DOMAIN ok THEN S \ ok[p] ELSE S IN
        /\ read[p] \subseteq others
        /\ p \cap Doubtful = {} => read[p] = others}

\* The thread is only told when the instance ends.
RemoveCounter(v) ==
    /\ GetInstance
    /\ \E left \in LeftBy(v) : m_bulkContexts' = BulkWithout(v, left)
    /\ m_objectIdsMap' = Without(m_objectIdsMap, {v})
    /\ wanted' = Without(wanted, {v})
    /\ EndIfDiscarded(m_isDiscarded)
    /\ IF m_flexCounters' = "ending" THEN NotifyPoll ELSE UNCHANGED m_readyToPoll
    /\ UNCHANGED <<m_enable, m_isDiscarded, m_counterContext, m_prefixes, gone>>

\* Variant: the thread is not told.
RemoveAllQuietly ==
    /\ m_flexCounters = "up"
    /\ m_flexCounters' = "ending"
    /\ wanted' = <<>>
    /\ UNCHANGED <<group, thread, m_supportedBulkCounters, gone>>
RemoveAllCounters ==
    /\ m_flexCounters = "up"
    /\ m_flexCounters' = "ending"
    /\ wanted' = <<>>
    /\ NotifyPoll
    /\ UNCHANGED <<group, pc, connected, m_supportedBulkCounters, gone>>

\* The join in endFlexCounterThread returns.
Joined ==
    /\ m_flexCounters = "ending"
    /\ pc = "ended"
    /\ m_flexCounters' = "none"
    /\ NewGroup
    /\ wanted' = <<>>
    /\ careless' = FALSE
    /\ UNCHANGED <<m_supportedBulkCounters, gone>>

\* A request removes the object.
ObjectRemoved(v) ==
    /\ m_flexCounters # "ending"
    /\ v \in Removable \ gone
    /\ gone' = gone \cup {v}
    /\ UNCHANGED <<m_flexCounters, group, thread, m_supportedBulkCounters, wanted>>

--------------------------------------------------------------------------------
(* flexCounterThreadRunFunction                                            *)

ThreadUnchanged == UNCHANGED <<m_flexCounters, group, m_supportedBulkCounters, gone, wanted, careless>>

LoopTop ==
    /\ m_flexCounters # "none"
    /\ pc = "top"
    /\ pc' = IF m_flexCounters = "ending" THEN "ended" ELSE IF connected THEN "lock" ELSE "connect"
    /\ UNCHANGED <<connected, m_readyToPoll>>
    /\ ThreadUnchanged

Connect(ok) ==
    /\ pc = "connect"
    /\ connected' = ok
    /\ pc' = IF ok THEN "lock" ELSE "sleep"
    /\ UNCHANGED m_readyToPoll
    /\ ThreadUnchanged

\* A poll that fails gives the handles up.
Pollable == m_enable /\ ~Empty
Poll(ok) ==
    /\ pc = "lock"
    /\ Pollable
    /\ connected' = ok
    /\ pc' = "sleep"
    /\ UNCHANGED m_readyToPoll
    /\ ThreadUnchanged
NothingToPoll ==
    /\ pc = "lock"
    /\ ~Pollable
    /\ pc' = "wait"
    /\ UNCHANGED <<connected, m_readyToPoll>>
    /\ ThreadUnchanged

\* The sleep is a timed wait.
WakeUp ==
    /\ pc = "sleep"
    /\ pc' = "top"
    /\ UNCHANGED <<connected, m_readyToPoll>>
    /\ ThreadUnchanged
WaitPoll ==
    /\ pc = "wait"
    /\ m_readyToPoll
    /\ m_readyToPoll' = FALSE
    /\ pc' = "top"
    /\ UNCHANGED connected
    /\ ThreadUnchanged

--------------------------------------------------------------------------------
\* The calls the tables are made for: prefixes can be read and split the counters
\* of the one bulk there is; they are taken away when all bulks have the same
\* objects; objects are not added in bulk again while they are there, and one
\* part of their counters at most is polled object by object (the last such part
\* replaces the others).
CarefulPrefixes(pf, valid) ==
    /\ valid
    /\ IF pf = {} THEN Cardinality(DOMAIN m_bulkContexts) > 1 => Mergeable
       ELSE \A p \in DOMAIN m_bulkContexts : DOMAIN m_bulkContexts = {p} => p \notin Parts(p, pf)
CarefulAdd(S, ids) == S \cap DOMAIN wanted = {} /\ \A p, q \in Single(ids) : p = q
NoNullMerge(pf) ==
    pf = {} /\ Cardinality(DOMAIN m_bulkContexts) > 1 =>
        \E p \in DOMAIN m_bulkContexts : m_bulkContexts[p].name = "default"

\* Bound: after a careless call objects are removed and nothing more is added.
MainNext ==
    \/ /\ ~careless
       /\ \/ /\ UNCHANGED careless
             /\ \/ \E enable \in BOOLEAN : SetStatus(enable)
                \/ AddNothing
                \/ \E v \in Vid, asked \in Lists, bulk \in BOOLEAN :
                    \E ids \in Supported(asked) : AddCounter(v, ids, bulk)
                \/ \E v \in Vid : ObjectRemoved(v)
          \/ \E pf \in Configs, valid, plugin \in BOOLEAN :
                /\ (~valid => pf = {}) /\ NoNullMerge(pf)
                /\ SetPrefixes(pf, valid, plugin)
                /\ careless' = ~CarefulPrefixes(pf, valid)
          \/ \E S \in SUBSET Vid \ {{}}, asked \in Lists : \E ids \in Supported(asked) :
                /\ \E ok \in OkChoices(S, ids) : \E read \in ReadChoices(S, ids, ok) :
                    BulkAddCounter(ids, ok, read)
                /\ careless' = ~CarefulAdd(S, ids)
    \/ /\ UNCHANGED careless
       /\ \/ RemoveCounterPlugins \/ RemoveAllCounters
          \/ \E v \in Vid : RemoveCounter(v)
    \/ Joined
ThreadNext ==
    \/ LoopTop \/ NothingToPoll \/ WakeUp \/ WaitPoll
    \/ \E ok \in BOOLEAN : Connect(ok) \/ Poll(ok)

Next == MainNext \/ ThreadNext

\* The thread runs, the waits time out, and join returns when the thread has ended.
Spec == Init /\ [][Next]_vars /\ WF_vars(ThreadNext) /\ WF_vars(Joined)

--------------------------------------------------------------------------------
(* Properties                                                              *)

Polled == DOMAIN m_objectIdsMap \cup UNION {Vids(p) : p \in DOMAIN m_bulkContexts}
PolledStats(v) ==
    UNION (Holding(v) \cup IF v \in DOMAIN m_objectIdsMap THEN {m_objectIdsMap[v]} ELSE {})

\* Every variable has its type; an instance that does not exist has nothing.
TypeOK ==
    /\ m_flexCounters \in {"none", "up", "ending"}
    /\ m_enable \in BOOLEAN /\ m_isDiscarded \in BOOLEAN /\ m_counterContext \in BOOLEAN
    /\ m_readyToPoll \in BOOLEAN /\ connected \in BOOLEAN /\ careless \in BOOLEAN
    /\ m_prefixes \in Configs
    /\ \A v \in DOMAIN m_objectIdsMap : v \in Vid /\ m_objectIdsMap[v] \subseteq Stat
    /\ \A p \in DOMAIN m_bulkContexts :
        p \subseteq Stat /\ m_bulkContexts[p] \in [name : {"default", "prefix"}, vids : Seq(Vid), keys : Seq(Vid \cup {NoRid})]
    /\ pc \in {"top", "connect", "lock", "sleep", "wait", "ended"}
    /\ gone \subseteq Vid
    /\ DOMAIN wanted \subseteq Vid
    /\ m_flexCounters = "none" => Empty /\ wanted = <<>>

\* The counters that a bulk reads with the key of an object are stored under
\* the VID of that object: the lists of a bulk stay in step, whatever was added
\* and removed (bulkCollectData writes object i under object_vids[i]).
BulkInStep ==
    \A p \in DOMAIN m_bulkContexts : LET c == m_bulkContexts[p] IN
        /\ Len(c.vids) = Len(c.keys) /\ Len(c.vids) > 0
        /\ Cardinality(ToSet(c.vids)) = Len(c.vids)
        /\ \A i \in DOMAIN c.vids : c.keys[i] \in {c.vids[i], NoRid}

\* What was removed is not polled any more (removeObject): an object leaves the
\* single polls and every bulk it is in.  A careless call may leave it in two.
RemovedIsNotPolled == m_flexCounters = "up" /\ ~careless => Polled \subseteq DOMAIN wanted

\* Every counter that was asked for and that the vendor supports and answered for
\* is polled, also while prefixes split and merge the bulks
\* (setBulkChunkSizePerPrefix).
AddedIsPolled ==
    m_flexCounters = "up" /\ ~careless =>
        \A v \in DOMAIN wanted \ gone : wanted[v] \subseteq PolledStats(v)

\* The thread does not wait for a notice while there is something to poll: no
\* call that gives it work comes between its look and its wait without leaving
\* a notice behind (waitPoll, notifyPoll).
WaitsOnlyIfIdle ==
    m_flexCounters = "up" /\ pc = "wait" /\ ~m_readyToPoll => ~Pollable

\* The destructor, which the main thread runs under the manager's mutex,
\* returns (endFlexCounterThread).
EndReturns == (m_flexCounters = "ending") ~> (m_flexCounters = "none")
================================================================================
