--------------------------- MODULE ViewTransition ---------------------------
(***************************************************************************)
(* The comparison logic behind APPLY_VIEW (syncd/ComparisonLogic.cpp,      *)
(* AsicView.cpp and BestCandidateFinder.cpp): the current view is turned   *)
(* into the temporary one in memory, object by object; every change is     *)
(* also appended to a list of ASIC operations, the removes in that list    *)
(* are moved up, and only then is the list executed.                       *)
(*                                                                         *)
(* The two views name objects by virtual ids.  Objects with the same id in *)
(* both are MATCHED before the transition starts; the rest of the          *)
(* temporary view has new ids and is matched to what is similar, or        *)
(* created.  The metadata of SAI is reduced to three kinds of oid objects  *)
(* and one of entries that between them have every sort of link the code   *)
(* tells apart:                                                            *)
(*   Ports    always matched, with a settable oid attribute `ref';         *)
(*   Groups   a conditional create-only attribute `val';                   *)
(*   Members  a mandatory create-only oid `up' and a settable `ref';       *)
(*   entries  <<"entry", m>>, whose key holds the oid of a member, with a  *)
(*            settable `ref' and the create-only `val'.                    *)
(* `ref' is a group or SAI_NULL_OBJECT_ID, which is its default.  A real   *)
(* id is written as the virtual id the object has in the current view.     *)
(***************************************************************************)
EXTENDS Integers, SequencesExt

CONSTANTS
    Ports, Groups, Members,  \* virtual ids of the three kinds
    Vals,                    \* values of the create-only attribute
    NullId,                  \* SAI_NULL_OBJECT_ID
    Absent,                  \* the attribute is not set on the object
    CurrentViews,            \* the views the ASIC may hold
    TempViews                \* the views that may be requested

Oids == Ports \cup Groups \cup Members
Entry(m) == <<"entry", m>>
Keys == Oids \cup {Entry(m) : m \in Members}
Objects == [up : Groups \cup {Absent},
            ref : Groups \cup {NullId},
            val : Vals \cup {Absent}]

\* how many references to v the attributes of o hold, and o with its key k
AttrLinks(o) == [v \in Oids |-> (IF o.up = v THEN 1 ELSE 0) + (IF o.ref = v THEN 1 ELSE 0)]
Links(k, o) == [v \in Oids |-> AttrLinks(o)[v] + (IF k = Entry(v) THEN 1 ELSE 0)]

RefsOf(k, o) == {v \in Oids : Links(k, o)[v] > 0}

\* every id is that of an object of the view, only members belong to a group and
\* groups have no links
IsView(objs) ==
    /\ DOMAIN objs \subseteq Keys /\ IsFiniteSet(DOMAIN objs)
    /\ objs \in [DOMAIN objs -> Objects]
    /\ \A k \in DOMAIN objs : RefsOf(k, objs[k]) \subseteq DOMAIN objs
    /\ \A k \in DOMAIN objs \ Members : objs[k].up = Absent
    /\ \A k \in Groups \cap DOMAIN objs : objs[k].ref = NullId

ASSUME ViewsAssumption ==
    \A objs \in CurrentViews \cup TempViews : IsView(objs)
ASSUME KindsAssumption ==
    /\ Ports \cap Groups = {} /\ Ports \cap Members = {} /\ Groups \cap Members = {}
    /\ \A v \in Oids : Entry(v) \notin Oids
    /\ NullId \notin Keys /\ Absent \notin Keys /\ Absent \notin Vals

VARIABLES
    current,      \* AsicView m_current
    temp,         \* AsicView m_temp: its objects and their status
    vidToRid,     \* temp.m_vidToRid
    breakConfig,  \* BreakConfig: object kinds to break before make
    oneSided,     \* matched objects of which one view alone has an attribute that cannot be changed
    asic,         \* the objects on the ASIC
    atStart,      \* history: the objects on the ASIC at the start
    peak,         \* history: the most groups on the ASIC since
    breaking,     \* <<k, c>> while c is removed to make k, otherwise << >>
    optimized,    \* the list asicGetWithOptimizedRemoveOperations makes, and its index
    taken,        \* how many operations have been put on it, then executed
    phase
vars == <<current, temp, vidToRid, breakConfig, oneSided, asic, atStart, peak, breaking, optimized, taken, phase>>

----------------------------------------------------------------------------
(* AsicView: the current view and its operations *)

\* a map with the entries of another, or with one more, which replaces the old one
Override(f, g) == [x \in DOMAIN f \cup DOMAIN g |-> IF x \in DOMAIN g THEN g[x] ELSE f[x]]
With(f, k, e) == Override(f, [x \in {k} |-> e])
Without(f, k) == Restrict(f, DOMAIN f \ {k})

Count(objs, v) ==
    Cardinality({k \in DOMAIN objs : objs[k].up = v}) + Cardinality({k \in DOMAIN objs : objs[k].ref = v})
    + (IF Entry(v) \in DOMAIN objs THEN 1 ELSE 0)

\* fromDump, and matchOids: an oid both views have is MATCHED
FromDump(objs, others) ==
    [objs |-> objs,
     status |-> [k \in DOMAIN objs |->
                   IF k \in Oids \cap DOMAIN others THEN "MATCHED" ELSE "NOT_PROCESSED"],
     m_vidReference |-> [v \in Oids \cap DOMAIN objs |-> Count(objs, v)],
     m_vidToAsicOperationId |-> <<>>,
     m_asicOperations |-> <<>>,
     m_asicRemoveOperationsNonObjectId |-> <<>>,
     m_asicOperationId |-> 0]

\* bindNewLinks and updateNonObjectIdVidReferenceCountByValue(obj, 1)
BindNewLinks(view, links) ==
    LET count == view.m_vidReference
    IN  [view EXCEPT !.m_vidReference = [v \in DOMAIN count |-> count[v] + links[v]]]

\* releaseExisgingLinks and updateNonObjectIdVidReferenceCountByValue(obj, -1):
\* the operation that takes the last reference to an id away is remembered
ReleaseExistingLinks(view, links) ==
    LET counts == [v \in DOMAIN view.m_vidReference |-> view.m_vidReference[v] - links[v]]
        freed == {v \in DOMAIN counts : links[v] > 0 /\ counts[v] = 0}
    IN  [view EXCEPT !.m_vidReference = counts,
                     !.m_vidToAsicOperationId = Override(@, [v \in freed |-> view.m_asicOperationId])]

InsertNewVidReference(view, v) ==
    [view EXCEPT !.m_vidReference = With(@, v, 0)]

NextId(view) == [view EXCEPT !.m_asicOperationId = @ + 1]

Op(view, op, k, o) == [opId |-> view.m_asicOperationId, op |-> op, key |-> k, obj |-> o]

\* the links of an attribute alone
OnlyRef(r) == [up |-> Absent, ref |-> r, val |-> Absent]

\* variant: the links of the old value are not released
SetKeepsOldLinks(view, k, r) ==
    LET bound == BindNewLinks(NextId(view), AttrLinks(OnlyRef(r)))
    IN  [bound EXCEPT !.objs[k].ref = r,
                      !.m_asicOperations = Append(@, Op(bound, "set", k, OnlyRef(r)))]

AsicSetAttribute(view, k, r) ==
    LET numbered == NextId(view)
        released == ReleaseExistingLinks(numbered, AttrLinks(OnlyRef(view.objs[k].ref)))
        bound    == BindNewLinks(released, AttrLinks(OnlyRef(r)))
    IN  [bound EXCEPT !.objs[k].ref = r,
                      !.m_asicOperations = Append(@, Op(bound, "set", k, OnlyRef(r)))]

AsicCreateObject(view, k, o) ==
    LET numbered == NextId(view)
        known    == IF k \in Oids THEN InsertNewVidReference(numbered, k) ELSE numbered
        bound    == BindNewLinks(known, Links(k, o))
    IN  [bound EXCEPT !.objs = With(@, k, o),
                      !.status = With(@, k, "FINAL"),
                      !.m_asicOperations = Append(@, Op(bound, "create", k, o))]

\* removes of entries go to a list of their own; the id of a removed object
\* stays in the reference map, at -1
AsicRemoveObject(view, k) ==
    LET o        == view.objs[k]
        counts   == view.m_vidReference
        dropped  == [NextId(view) EXCEPT !.objs = Without(view.objs, k),
                                         !.status = Without(view.status, k),
                                         !.m_vidReference = IF k \in Oids THEN [counts EXCEPT ![k] = @ - 1] ELSE counts]
        released == ReleaseExistingLinks(dropped, Links(k, o))
        op       == Op(released, "remove", k, o)
    IN  IF k \in Oids
        THEN [released EXCEPT !.m_asicOperations = Append(@, op)]
        ELSE [released EXCEPT !.m_asicRemoveOperationsNonObjectId = Append(@, op)]

----------------------------------------------------------------------------
(* the order of the operations *)

IsRemove(op) == op.op = "remove"

PositionOf(ops, id) == CHOOSE i \in DOMAIN ops : ops[i].opId = id

\* one element more, at position i
InsertBefore(list, i, e) ==
    [j \in 1 .. Len(list) + 1 |-> IF j < i THEN list[j] ELSE IF j = i THEN e ELSE list[j - 1]]

\* variant: a remove goes right behind the operation that freed its object, also
\* when that was a remove, which has been moved up
PlaceBehindRemove(view, acc, op) ==
    LET last == view.m_vidToAsicOperationId
        pos  == PositionOf(acc.v, last[op.key])
        at   == IF op.key \notin DOMAIN last \/ pos < acc.index THEN acc.index ELSE pos
    IN  IF ~IsRemove(op)
        THEN [acc EXCEPT !.v = Append(@, op)]
        ELSE [v |-> InsertBefore(acc.v, at + 1, op), index |-> at + 1]

\* one operation of the loop of asicGetWithOptimizedRemoveOperations; acc holds
\* the new list and `index', where a remove with nothing to wait for goes
PlaceOperation(view, acc, op) ==
    LET last == view.m_vidToAsicOperationId
        pos  == PositionOf(acc.v, last[op.key])
        at   == IF op.key \notin DOMAIN last \/ pos < acc.index THEN acc.index ELSE pos
    IN  IF \/ ~IsRemove(op)
           \/ op.key \in DOMAIN last /\ IsRemove(acc.v[pos])
        THEN [acc EXCEPT !.v = Append(@, op)]
        ELSE [v |-> InsertBefore(acc.v, at + 1, op), index |-> at + 1]

\* the operation that freed the object of a remove is not on the list
Lost(view, acc, op) ==
    LET last == view.m_vidToAsicOperationId
    IN  /\ IsRemove(op) /\ op.key \in DOMAIN last
        /\ \A i \in DOMAIN acc.v : acc.v[i].opId # last[op.key]

\* what the vendor accepts: no object is used before it is created or after it
\* is removed, or removed while it is used
VendorAccepts(objs, op) ==
    CASE op.op = "create" -> op.key \notin DOMAIN objs /\ RefsOf(op.key, op.obj) \subseteq DOMAIN objs
      [] op.op = "set"    -> op.key \in DOMAIN objs /\ RefsOf(op.key, op.obj) \subseteq DOMAIN objs
      [] op.op = "remove" -> op.key \in DOMAIN objs /\ \A k \in DOMAIN objs : op.key \notin RefsOf(k, objs[k])

VendorResult(objs, op) ==
    CASE op.op = "create" -> With(objs, op.key, op.obj)
      [] op.op = "set"    -> [objs EXCEPT ![op.key].ref = op.obj.ref]
      [] op.op = "remove" -> Without(objs, op.key)

GroupsOn(objs) == Cardinality(Groups \cap DOMAIN objs)

----------------------------------------------------------------------------
(* from the temporary view to the current one *)

\* translateTemporaryVidToCurrentVid: by the real id, and a created object
\* keeps its temporary id
Translate(v) == IF v \in DOMAIN vidToRid THEN vidToRid[v] ELSE v
TranslateKey(k) == IF k \in Oids THEN Translate(k) ELSE Entry(Translate(k[2]))
TranslateObject(o) == [o EXCEPT !.up = Translate(o.up), !.ref = Translate(o.ref)]

SameKind(k) == CHOOSE kind \in {Ports, Groups, Members} : k \in kind

NotProcessed(k) == {c \in DOMAIN current.objs \cap SameKind(k) : current.status[c] = "NOT_PROCESSED"}

\* findCurrentBestMatch.  Of several candidates the code prefers one by label,
\* by the objects it is used by and by equal attributes: here it is any
BestMatches(k) ==
    LET t == temp.objs[k]
    IN  CASE temp.status[k] = "MATCHED" -> {k}
          [] k \notin Oids -> {TranslateKey(k)} \cap {c \in DOMAIN current.objs :
                                 k[2] \in DOMAIN vidToRid /\ current.status[c] = "NOT_PROCESSED"}
          [] OTHER -> {c \in NotProcessed(k) :
                         LET o == current.objs[c]
                         IN  /\ o.up = Translate(t.up)
                             /\ o.val = t.val \/ Absent \in {o.val, t.val}}

\* performObjectSetTransition, first pass: a create-only attribute only one of
\* the two has cannot be changed.  On a matched object it is left alone, or goes to
\* the temporary object, but not so a settable attribute that is conditional or
\* mandatory, nor one that cannot be brought back to its default
SetTransitionPasses(k, c) ==
    IF temp.status[k] = "MATCHED" THEN k \notin oneSided ELSE temp.objs[k].val = current.objs[c].val

\* variant: an attribute the temporary object does not have is left as it is
SetTransitionWithoutDefaults(view, k, c) ==
    LET r == Translate(temp.objs[k].ref)
    IN  IF r \in {NullId, view.objs[c].ref} THEN view ELSE AsicSetAttribute(view, c, r)

\* performObjectSetTransition, second pass: the current object is updated ...
SetTransition(view, k, c) ==
    LET r == Translate(temp.objs[k].ref)
    IN  IF r = view.objs[c].ref THEN view ELSE AsicSetAttribute(view, c, r)

\* variant: the settable attribute goes to the temporary object as it was set on
\* the current one
TransferredAsSet(k, c) ==
    LET o == current.objs[c]
    IN  [up |-> o.up, ref |-> Translate(temp.objs[k].ref), val |-> o.val]

\* ... and a matched object gets the create-only attributes it did not ask for
Transferred(k, c) ==
    LET t == temp.objs[k]
        o == current.objs[c]
    IN  [up |-> IF t.up = Absent THEN o.up ELSE t.up,
         ref |-> t.ref,
         val |-> IF t.val = Absent THEN o.val ELSE t.val]

CreateNewObject(view, k) == AsicCreateObject(view, TranslateKey(k), TranslateObject(temp.objs[k]))

\* the not processed members that go with group g
Dependents(view, g) ==
    {m \in Members \cap DOMAIN view.objs : view.objs[m].up = g /\ view.status[m] = "NOT_PROCESSED"}

\* a pick from a set: none when it is empty
OneOrNone(S) == IF S = {} THEN {{}} ELSE {{c} : c \in S}

\* variant: without a best match nothing is removed first
BreakOnlyBestMatch(k, best) == IF k \notin Oids \/ k \in breakConfig THEN {best} ELSE {{}}

\* what goes before k is created in place of its best match: an entry with the
\* same key; by breakBeforeMake an object of a kind in the break config, with no
\* best match the most similar one, here any
RemovedFirst(k, best) ==
    IF k \notin Oids THEN {best}
    ELSE IF k \notin breakConfig THEN {{}}
    ELSE IF best # {} THEN {best}
    ELSE OneOrNone(NotProcessed(k))

----------------------------------------------------------------------------
(* Init: compareViews up to applyViewTransition *)

\* a matched object is the same object: what the temporary view knows of its
\* create-only attributes is what the current view has.  A new object has its
\* mandatory attribute
Compatible(cur, tmp) ==
    /\ Ports \subseteq DOMAIN cur /\ Ports \subseteq DOMAIN tmp
    /\ \A k \in Members \cap DOMAIN cur : cur[k].up # Absent
    /\ \A k \in Oids \cap DOMAIN tmp :
          IF k \in DOMAIN cur
          THEN tmp[k].up \in {Absent, cur[k].up} /\ tmp[k].val \in {Absent, cur[k].val}
          ELSE k \in Members => tmp[k].up # Absent

Init ==
    \E cur \in CurrentViews, tmp \in TempViews :
        /\ Compatible(cur, tmp)
        /\ current = FromDump(cur, tmp)
        /\ temp = [objs |-> tmp, status |-> FromDump(tmp, cur).status]
        /\ vidToRid = [v \in Oids \cap DOMAIN cur \cap DOMAIN tmp |-> v]
        /\ breakConfig \in {{}, Groups}
        /\ oneSided \in SUBSET (Oids \cap DOMAIN cur \cap DOMAIN tmp)
        /\ asic = cur
        /\ atStart = cur /\ peak = GroupsOn(cur)
        /\ breaking = << >>
        /\ optimized = [v |-> << >>, index |-> 0] /\ taken = 0
        /\ phase = "process"

\* processObjectForViewTransition calls itself for the ids an object refers to
\* before it looks at the object: any order that has those first
IsNext(k) ==
    /\ phase = "process"
    /\ k \in DOMAIN temp.objs
    /\ temp.status[k] # "FINAL"
    /\ \A v \in RefsOf(k, temp.objs[k]) : temp.status[v] = "FINAL"

\* variant: the real id of a matched object is not remembered
ForgetRid(view, k, c, obj) ==
    /\ current' = [view EXCEPT !.status[c] = "FINAL"]
    /\ temp' = [temp EXCEPT !.objs[k] = obj, !.status[k] = "FINAL"]
    /\ UNCHANGED vidToRid

\* updateObjectStatus
UpdateObjectStatus(view, k, c, obj) ==
    /\ current' = [view EXCEPT !.status[c] = "FINAL"]
    /\ temp' = [temp EXCEPT !.objs[k] = obj, !.status[k] = "FINAL"]
    /\ vidToRid' = IF k \in Oids THEN With(vidToRid, k, c) ELSE vidToRid

\* the best match can be updated
UpdateBestMatch(k, c) ==
    /\ IsNext(k)
    /\ c \in BestMatches(k)
    /\ SetTransitionPasses(k, c)
    /\ LET known == IF k \in Oids /\ temp.status[k] # "MATCHED"
                    THEN InsertNewVidReference(current, k) ELSE current
           obj == IF temp.status[k] = "MATCHED" THEN Transferred(k, c) ELSE temp.objs[k]
       IN  UpdateObjectStatus(SetTransition(known, k, c), k, c, obj)
    /\ UNCHANGED <<breakConfig, oneSided, asic, atStart, peak, breaking, optimized, taken, phase>>

\* a matched object that cannot be updated
MatchedFails(k) ==
    /\ IsNext(k)
    /\ temp.status[k] = "MATCHED"
    /\ ~SetTransitionPasses(k, k)
    /\ phase' = "thrown"
    /\ UNCHANGED <<current, temp, vidToRid, breakConfig, oneSided, asic, atStart, peak, breaking, optimized, taken>>

\* no best match, or one that cannot be updated: k is created, at once or after
\* what has to go first
CreateInstead(k) ==
    /\ IsNext(k)
    /\ temp.status[k] # "MATCHED"
    /\ \E best \in OneOrNone(BestMatches(k)) :
       /\ \A c \in best : ~SetTransitionPasses(k, c)
       /\ \E gone \in RemovedFirst(k, best) :
            \/ /\ gone = {}
               /\ current' = CreateNewObject(current, k)
               /\ temp' = [temp EXCEPT !.status[k] = "FINAL"]
               /\ UNCHANGED <<breaking, phase>>
            \/ \E c \in gone :
               /\ breaking' = <<k, c>>
               /\ phase' = "break"
               /\ UNCHANGED <<current, temp>>
    /\ UNCHANGED <<vidToRid, breakConfig, oneSided, asic, atStart, peak, optimized, taken>>

\* removeCurrentObjectDependencyTree, a member that goes with its group: it gives
\* up on an object in a key
RemoveDependent(m) ==
    /\ phase = "break"
    /\ m \in Dependents(current, breaking[2])
    /\ IF current.m_vidReference[m] # 0
       THEN phase' = "thrown" /\ UNCHANGED current
       ELSE current' = AsicRemoveObject(current, m) /\ UNCHANGED phase
    /\ UNCHANGED <<temp, vidToRid, breakConfig, oneSided, asic, atStart, peak, breaking, optimized, taken>>

\* the object itself: removeCurrentObjectDependencyTree gives up on a link it would
\* have to break and on one an object in its final state holds
MakeAfterBreak ==
    LET k == breaking[1]
        c == breaking[2]
    IN  /\ phase = "break"
        /\ Dependents(current, c) = {}
        /\ IF c \in Oids /\ current.m_vidReference[c] # 0
           THEN phase' = "thrown" /\ UNCHANGED <<current, temp, breaking>>
           ELSE /\ current' = CreateNewObject(AsicRemoveObject(current, c), k)
                /\ temp' = [temp EXCEPT !.status[k] = "FINAL"]
                /\ breaking' = << >>
                /\ phase' = "process"
        /\ UNCHANGED <<vidToRid, breakConfig, oneSided, asic, atStart, peak, optimized, taken>>

AllProcessed ==
    /\ phase = "process"
    /\ \A k \in DOMAIN temp.objs : temp.status[k] = "FINAL"
    /\ phase' = "remove"
    /\ UNCHANGED <<current, temp, vidToRid, breakConfig, oneSided, asic, atStart, peak, breaking, optimized, taken>>

\* not processed objects that nothing refers to; entries are leaves
Removable == {k \in DOMAIN current.objs :
                /\ current.status[k] = "NOT_PROCESSED"
                /\ k \in Oids => current.m_vidReference[k] = 0}

\* one object of the removing loop of applyViewTransition
RemoveUnused(k) ==
    /\ phase = "remove"
    /\ k \in Removable
    /\ current' = AsicRemoveObject(current, k)
    /\ UNCHANGED <<temp, vidToRid, breakConfig, oneSided, asic, atStart, peak, breaking, optimized, taken, phase>>

\* transferNotProcessed: what has to stay is copied to the temporary view
TransferNotProcessed ==
    LET kept == {k \in DOMAIN current.objs : current.status[k] = "NOT_PROCESSED"}
    IN  /\ phase = "remove"
        /\ Removable = {}
        /\ current' = [current EXCEPT !.status = Override(@, [k \in kept |-> "FINAL"])]
        /\ temp' = [temp EXCEPT !.objs = Override(@, [k \in kept |-> current.objs[k]]),
                                !.status = Override(@, [k \in kept |-> "FINAL"])]
        /\ vidToRid' = Override(vidToRid, [k \in kept |-> k])
        /\ phase' = "check"
        /\ UNCHANGED <<breakConfig, oneSided, asic, atStart, peak, breaking, optimized, taken>>

\* the ids current.m_vidToRid has: created objects get theirs from the ASIC
CurrentRids == {k \in Oids \cap DOMAIN current.objs : k \in DOMAIN asic}

\* checkObjectsStatus of both views, checkMap and the number of objects
CheckViews ==
    /\ phase = "check"
    /\ phase' = IF /\ Range(temp.status) \cup Range(current.status) \subseteq {"FINAL"}
                   /\ Cardinality(CurrentRids) = Cardinality(DOMAIN vidToRid)
                   /\ Cardinality(CurrentRids) = Cardinality(Range(vidToRid))
                   /\ Cardinality(DOMAIN current.objs) = Cardinality(DOMAIN temp.objs)
                THEN "order" ELSE "mismatch"
    /\ optimized' = LET front == current.m_asicRemoveOperationsNonObjectId
                    IN  [v |-> front, index |-> Len(front)]
    /\ UNCHANGED <<current, temp, vidToRid, breakConfig, oneSided, asic, atStart, peak, breaking, taken>>

\* the loop of asicGetWithOptimizedRemoveOperations
OrderOperation ==
    /\ phase = "order"
    /\ taken < Len(current.m_asicOperations)
    /\ LET op == current.m_asicOperations[taken + 1]
       IN  IF Lost(current, optimized, op)
           THEN phase' = "lost" /\ UNCHANGED <<optimized, taken>>
           ELSE /\ optimized' = PlaceOperation(current, optimized, op)
                /\ taken' = taken + 1
                /\ UNCHANGED phase
    /\ UNCHANGED <<current, temp, vidToRid, breakConfig, oneSided, asic, atStart, peak, breaking>>

AllOrdered ==
    /\ phase = "order"
    /\ taken = Len(current.m_asicOperations)
    /\ taken' = 0
    /\ phase' = "execute"
    /\ UNCHANGED <<current, temp, vidToRid, breakConfig, oneSided, asic, atStart, peak, breaking, optimized>>

\* the loop of executeOperationsOnAsic, asic_process_event for one operation: a
\* refused operation leaves the ASIC in between
ExecuteOperation ==
    /\ phase = "execute"
    /\ taken < Len(optimized.v)
    /\ LET op == optimized.v[taken + 1]
       IN  IF VendorAccepts(asic, op)
           THEN /\ asic' = VendorResult(asic, op)
                /\ peak' = Max({peak, GroupsOn(asic')})
                /\ taken' = taken + 1
                /\ UNCHANGED phase
           ELSE phase' = "failed" /\ UNCHANGED <<asic, peak, taken>>
    /\ UNCHANGED <<current, temp, vidToRid, breakConfig, oneSided, atStart, breaking, optimized>>

AllExecuted ==
    /\ phase = "execute"
    /\ taken = Len(optimized.v)
    /\ phase' = "done"
    /\ UNCHANGED <<current, temp, vidToRid, breakConfig, oneSided, asic, atStart, peak, breaking, optimized, taken>>

Over == phase \in {"done", "thrown", "mismatch", "lost", "failed"} /\ UNCHANGED vars

Next ==
    \/ \E k \in Keys : \E c \in Keys : UpdateBestMatch(k, c)
    \/ \E k \in Keys : MatchedFails(k) \/ CreateInstead(k)
    \/ \E m \in Members : RemoveDependent(m)
    \/ MakeAfterBreak
    \/ AllProcessed
    \/ \E k \in Keys : RemoveUnused(k)
    \/ TransferNotProcessed
    \/ CheckViews
    \/ OrderOperation \/ AllOrdered
    \/ ExecuteOperation \/ AllExecuted
    \/ Over

Spec == Init /\ [][Next]_vars

----------------------------------------------------------------------------
(* Properties *)

\* Every variable has its type, and a reference count below zero is that of an
\* object that was removed.
TypeOK ==
    /\ \A k \in DOMAIN current.objs : k \in Keys /\ current.objs[k] \in Objects
    /\ DOMAIN current.status = DOMAIN current.objs
    /\ Range(current.status) \subseteq {"MATCHED", "NOT_PROCESSED", "FINAL"}
    /\ \A v \in DOMAIN current.m_vidReference :
          current.m_vidReference[v] >= IF v \in DOMAIN current.objs THEN 0 ELSE -1
    /\ \A k \in DOMAIN temp.objs : k \in Keys /\ temp.objs[k] \in Objects
    /\ DOMAIN temp.status = DOMAIN temp.objs
    /\ DOMAIN vidToRid \subseteq Oids /\ Range(vidToRid) \subseteq Oids /\ oneSided \subseteq Oids
    /\ \A k \in DOMAIN asic : k \in Keys /\ asic[k] \in Objects
    /\ breaking \in Keys \X Keys \/ breaking = << >>
    /\ phase \in {"process", "break", "remove", "check", "order", "execute", "done", "thrown", "mismatch",
                  "lost", "failed"}

\* The reference count AsicView keeps for an object of the current view is the
\* number of attributes and keys of the current view that hold its id, after any
\* mix of sets, creates, removes and broken links: an object is removed when its
\* count is zero, and nothing else protects it.
CountsAreReferences ==
    \A v \in Oids \cap DOMAIN current.objs :
        /\ v \in DOMAIN current.m_vidReference
        /\ current.m_vidReference[v] = Count(current.objs, v)

\* The comparison always gets through its own checks, whatever the two views are
\* and whichever candidates were chosen: that every object is FINAL, that the id
\* maps have the same size and that both views have the same number of objects.
\* Only two things stop it before, a link that cannot be broken, which takes a
\* break config, and a matched object of which one view alone has an attribute that
\* performObjectSetTransition can neither set, transfer nor bring to its default.
ComparisonPasses ==
    /\ phase \notin {"mismatch", "lost"}
    /\ phase = "thrown" => breakConfig # {} \/ oneSided # {}

\* Moving the removes up in the list of operations never makes the ASIC refuse
\* one: nothing is removed while something refers to it, nothing is created or
\* set with an id that is not there yet or no longer.
OperationsSucceed == phase # "failed"

\* When all operations are executed, the ASIC holds the temporary view: the same
\* objects under the ids they were matched to, with the attributes requested.
ViewIsReached ==
    phase = "done" =>
        /\ DOMAIN asic = {TranslateKey(k) : k \in DOMAIN temp.objs}
        /\ \A k \in DOMAIN temp.objs : asic[TranslateKey(k)] = TranslateObject(temp.objs[k])

\* The purpose breakBeforeMake states: for a kind in the break config, the number
\* of objects on the ASIC never exceeds what it was or what is requested,
\* whichever is more, at any point of the execution.
BreakComesFirst ==
    phase = "done" /\ breakConfig = Groups =>
        peak <= Max({GroupsOn(temp.objs), GroupsOn(atStart)})

\* Every id in the view that becomes the new ASIC_STATE is the id of one of its
\* objects, but for create-only attributes transferred to a matched object: those
\* keep the current id even when the object they name was matched to a new one.
NewViewIsClosed ==
    phase = "done" =>
        \A k \in DOMAIN temp.objs :
            \A v \in RefsOf(k, temp.objs[k]) \ DOMAIN temp.objs :
                /\ vidToRid[k] = k
                /\ v = temp.objs[k].up
                /\ v \in Range(vidToRid)
=============================================================================
