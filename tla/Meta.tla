---------------------------------- MODULE Meta ----------------------------------
(***************************************************************************)
(* The object database of the metadata checks: which objects exist         *)
(* (SaiObjectCollection), how often each object id is referred to          *)
(* (OidRefCounter), which keys are taken (AttrKeyMap) and which objects    *)
(* belong to a port (PortRelatedSet).  Calls of the client and             *)
(* notifications change it, one at a time under the API mutex; the mutex   *)
(* is held during the call to the switch, so that an operation is one      *)
(* step.  A call that is refused, by the checks or by the switch, changes  *)
(* nothing and has no step.                                                *)
(*                                                                         *)
(* An object has the object ids its attributes hold; entries (FDB, routes  *)
(* and the like) also have those of their key.  Other attribute values are *)
(* left out.                                                               *)
(***************************************************************************)
EXTENDS Integers, FiniteSets, Functions

CONSTANTS Oid, Switch, Port, Entry,
          SwitchOf,      \* switchIdQuery
          Default,       \* objects a new switch has
          Home,          \* the port an object comes and goes with, or NoPort
          NoPort,
          Member,        \* object ids in the key of an entry
          AttrKey,       \* values of key attributes
          MaxLists       \* bound: objects with a list that is not empty

Attr == {"list", "port", "member"}   \* a settable list, the port of a queue, the key

ASSUME IdAssumption ==
    /\ Switch \subseteq Oid /\ Port \subseteq Oid /\ Default \subseteq Oid \ Switch
    /\ Oid \cap Entry = {} /\ NoPort \notin Oid
    /\ IsFiniteSet(Oid) /\ IsFiniteSet(Entry)
ASSUME SwitchAssumption ==
    /\ SwitchOf \in [Oid \cup Entry -> Switch]
    /\ \A s \in Switch : SwitchOf[s] = s
ASSUME HomeAssumption == Home \in [Oid -> Port \cup {NoPort}]
ASSUME BoundAssumption == MaxLists \in Nat
ASSUME MemberAssumption == Member \in [Entry -> SUBSET Oid]

Key == Oid \cup Entry
NoAttrs == [a \in Attr |-> {}]
Refs(attrs) == UNION {attrs[a] : a \in Attr}

VARIABLES
    m_oids,                  \* partial function from Oid to the count
    m_saiObjectCollection,   \* partial function from Key to [Attr -> SUBSET Oid]
    m_attrKeys,              \* partial function from Key
    m_portRelatedSet,
    onSwitch,                \* objects on the switches, with their port: a partial function
    spent,                   \* object ids that have been given out
    threw                    \* an exception has left the library

db == <<m_oids, m_saiObjectCollection, m_attrKeys, m_portRelatedSet>>
vars == <<db, onSwitch, spent, threw>>

Known == DOMAIN m_oids
Exists(k) == k \in DOMAIN m_saiObjectCollection

\* meta_init_db
Init ==
    /\ m_oids = <<>> /\ m_saiObjectCollection = <<>> /\ m_attrKeys = <<>>
    /\ m_portRelatedSet = [p \in Port |-> {}]
    /\ onSwitch = <<>>
    /\ spent = {}
    /\ threw = FALSE

--------------------------------------------------------------------------------
(* OidRefCounter, and the parts of the validation that operations share.   *)

\* The places in k that hold o.
Uses(k, attrs, o) == {<<k, a>> : a \in {b \in Attr : o \in attrs[b]}}
Increment(cnt, k, attrs) == [o \in DOMAIN cnt |-> cnt[o] + Cardinality(Uses(k, attrs, o))]
Decrement(cnt, k, attrs) == [o \in DOMAIN cnt |-> cnt[o] - Cardinality(Uses(k, attrs, o))]

\* meta_generic_validation_objlist
SwitchExists(k) == SwitchOf[k] \in Known
ValidRefs(k, refs, known) ==
    refs \subseteq known /\ \A o \in refs : SwitchOf[o] = SwitchOf[k] /\ SwitchExists(o)

\* An object id that the switch returned or reported becomes known.
Snooped(L) == [o \in Known \cup L |-> IF o \in Known THEN m_oids[o] ELSE 0]
SnoopedObjects(L) ==
    [k \in DOMAIN m_saiObjectCollection \cup L |->
        IF Exists(k) THEN m_saiObjectCollection[k] ELSE NoAttrs]

\* The places in the objects of a collection that hold o.
UsesOf(coll, o) == UNION {Uses(k, coll[k], o) : k \in DOMAIN coll}

\* meta_generic_validation_post_create, one after the other, of objects that do
\* not refer to each other: new and keys are functions from their keys.
PostCreate(L, new, keys) ==
    LET ids == (DOMAIN new) \cap Oid IN
    /\ m_oids' = [o \in DOMAIN Snooped(L) \cup ids |->
                    IF o \in ids THEN 0 ELSE Snooped(L)[o] + Cardinality(UsesOf(new, o))]
    /\ m_saiObjectCollection' =
         [x \in DOMAIN SnoopedObjects(L) \cup DOMAIN new |->
            IF x \in DOMAIN new THEN new[x] ELSE SnoopedObjects(L)[x]]
    /\ m_attrKeys' = [x \in DOMAIN m_attrKeys \cup DOMAIN keys |->
                        IF x \in DOMAIN keys THEN keys[x] ELSE m_attrKeys[x]]

\* Variant: the value the attribute had keeps its references.
PostSetLeaking(L, k, a, refs) ==
    /\ m_oids' = Increment(Snooped(L), k, [NoAttrs EXCEPT ![a] = refs])
    /\ m_saiObjectCollection' = [SnoopedObjects(L) EXCEPT ![k][a] = refs]
    /\ UNCHANGED m_attrKeys
\* meta_generic_validation_post_set
PostSet(L, k, a, refs) ==
    LET old == [NoAttrs EXCEPT ![a] = m_saiObjectCollection[k][a]] IN
    /\ m_oids' = Increment(Decrement(Snooped(L), k, old), k, [NoAttrs EXCEPT ![a] = refs])
    /\ m_saiObjectCollection' = [SnoopedObjects(L) EXCEPT ![k][a] = refs]
    /\ UNCHANGED m_attrKeys

\* meta_generic_validation_post_remove of objects to which nothing refers, one
\* after the other.
PostRemove(L, S) ==
    LET gone == Restrict(m_saiObjectCollection, S) IN
    /\ m_oids' = [o \in DOMAIN Snooped(L) \ S |-> Snooped(L)[o] - Cardinality(UsesOf(gone, o))]
    /\ m_saiObjectCollection' = Restrict(SnoopedObjects(L), DOMAIN SnoopedObjects(L) \ S)
    /\ m_attrKeys' = Restrict(m_attrKeys, DOMAIN m_attrKeys \ S)

--------------------------------------------------------------------------------
(* Calls of the client.                                                    *)

\* What the switch has besides once k is there.
ComesWith(k) ==
    IF k \in Switch THEN {o \in Default : SwitchOf[o] = k} ELSE {o \in Oid : Home[o] = k /\ o \notin Default}
Placed(ids, k, port) ==
    [o \in DOMAIN onSwitch \cup ids |->
        IF o \in DOMAIN onSwitch THEN onSwitch[o] ELSE IF o = k THEN port ELSE Home[o]]

\* The switch exists already when the client has restarted.
CreateSwitch(s) ==
    /\ s \notin Known
    /\ s \in spent => s \in DOMAIN onSwitch
    /\ PostCreate({}, [x \in {s} |-> NoAttrs], <<>>)
    /\ LET new == IF s \in DOMAIN onSwitch THEN {} ELSE {s} \cup ComesWith(s) IN
       onSwitch' = Placed(new, s, NoPort) /\ spent' = spent \cup new
    /\ UNCHANGED m_portRelatedSet

\* A queue names its port in a mandatory attribute.  key is {} or one key.
CreateObject(o, refs, port, key) ==
    /\ o \notin Switch \cup Default \cup spent /\ Home[o] = NoPort
    /\ SwitchExists(o)
    /\ port \subseteq Port
    /\ ValidRefs(o, refs \cup port, Known)
    /\ \A x \in DOMAIN m_attrKeys : m_attrKeys[x] # key \/ SwitchOf[x] # SwitchOf[o]
    /\ PostCreate({}, [x \in {o} |-> [NoAttrs EXCEPT !["list"] = refs, !["port"] = port]],
                  [x \in (IF key = {} THEN {} ELSE {o}) |-> key])
    /\ LET new == {o} \cup ComesWith(o) IN
       /\ new \cap spent = {}
       /\ \E h \in port \cup (IF port = {} THEN {NoPort} ELSE {}) : onSwitch' = Placed(new, o, h)
       /\ spent' = spent \cup new
    /\ UNCHANGED m_portRelatedSet

EntryAttrs(e, refs) == [NoAttrs EXCEPT !["list"] = refs, !["member"] = Member[e]]
ValidEntry(e, refs, known) ==
    /\ ~Exists(e)
    /\ SwitchExists(e)
    /\ ValidRefs(e, Member[e] \cup refs, known)
\* One entry, or a bulk of entries that the switch has made; refs is a function
\* from the entries.  All are checked before the first one is recorded.
CreateEntries(refs) ==
    /\ \A e \in DOMAIN refs : ValidEntry(e, refs[e], Known)
    /\ PostCreate({}, [e \in DOMAIN refs |-> EntryAttrs(e, refs[e])], <<>>)
    /\ UNCHANGED <<m_portRelatedSet, onSwitch, spent>>

SetAttr(k, refs) ==
    /\ Exists(k)
    /\ SwitchExists(k)
    /\ ValidRefs(k, refs, Known)
    /\ PostSet({}, k, "list", refs)
    /\ UNCHANGED <<m_portRelatedSet, onSwitch, spent>>

\* Variant: one reference is taken for the object's own.
RemovableInUse(k) == Exists(k) /\ (k \in Oid => m_oids[k] <= 1)
\* meta_generic_validation_remove; entries are not referred to.
Removable(k) == Exists(k) /\ (k \in Oid => m_oids[k] = 0)

\* One object, or those of a bulk that the switch has removed.  All are checked
\* before the first one is gone.
RemoveObjects(S) ==
    /\ \A k \in S : k \notin Switch \cup Port /\ Removable(k)
    /\ PostRemove({}, S)
    /\ onSwitch' = Restrict(onSwitch, DOMAIN onSwitch \ S)
    /\ UNCHANGED <<m_portRelatedSet, spent>>

\* meta_is_object_in_default_state
InDefaultState(o) == Refs(m_saiObjectCollection[o]) = {}

\* The switch removes the objects of a port with it; those that the client has
\* asked the port for leave the database too (post_port_remove).
RemovePort(p) ==
    LET related == m_portRelatedSet[p] IN
    /\ Removable(p)
    /\ related # {} =>
        /\ InDefaultState(p)
        /\ \A o \in related : o \in Known /\ m_oids[o] = 0 /\ InDefaultState(o)
    /\ PostRemove({}, {p} \cup related)
    /\ m_portRelatedSet' = [m_portRelatedSet EXCEPT ![p] = {}]
    /\ onSwitch' = Restrict(onSwitch, {o \in DOMAIN onSwitch : o # p /\ onSwitch[o] # p})
    /\ UNCHANGED spent

\* getObjectReferenceCount does not find a related object: its exception
\* leaves the library.
RemovePortThrows(p) ==
    /\ Removable(p)
    /\ InDefaultState(p)
    /\ ~(m_portRelatedSet[p] \subseteq Known)
    /\ threw' = TRUE
    /\ UNCHANGED <<db, onSwitch, spent>>

\* clean_after_switch_remove: also when the switch is in use.
RemoveSwitch(s) ==
    LET rest(f) == Restrict(f, {k \in DOMAIN f : SwitchOf[k] # s}) IN
    /\ s \in Known
    /\ m_oids' = rest(m_oids)
    /\ m_saiObjectCollection' = rest(m_saiObjectCollection)
    /\ m_attrKeys' = rest(m_attrKeys)
    /\ m_portRelatedSet' = [p \in Port |-> IF SwitchOf[p] = s THEN {} ELSE m_portRelatedSet[p]]
    /\ onSwitch' = rest(onSwitch)
    /\ UNCHANGED spent

\* meta_generic_validation_post_get
Get(k, list) ==
    /\ Exists(k)
    /\ list \subseteq DOMAIN onSwitch
    /\ \A o \in list : SwitchOf[o] = SwitchOf[k]
    /\ m_oids' = Snooped(list)
    /\ m_saiObjectCollection' = SnoopedObjects(list)
    /\ UNCHANGED <<m_attrKeys, onSwitch, spent>>
GetOid(k, o) == Get(k, {o}) /\ UNCHANGED m_portRelatedSet
\* meta_post_port_get
GetPortObjects(p) ==
    LET list == {o \in DOMAIN onSwitch : onSwitch[o] = p} IN
    /\ Get(p, list)
    /\ m_portRelatedSet' = [m_portRelatedSet EXCEPT ![p] = @ \cup list]

\* Variant: the objects of the ports are not forgotten.
RestartKeepRelated ==
    /\ m_oids' = <<>> /\ m_saiObjectCollection' = <<>> /\ m_attrKeys' = <<>>
    /\ threw' = FALSE
    /\ UNCHANGED <<m_portRelatedSet, onSwitch, spent>>
\* INIT_VIEW clears the local state; a client that an exception has ended is
\* started again.
Restart ==
    /\ m_oids' = <<>> /\ m_saiObjectCollection' = <<>> /\ m_attrKeys' = <<>>
    /\ m_portRelatedSet' = [p \in Port |-> {}]
    /\ threw' = FALSE
    /\ UNCHANGED <<onSwitch, spent>>

--------------------------------------------------------------------------------
(* FDB notifications.  They come late: the ids in them need not exist any  *)
(* more.  Unknown ones become known whatever the event is.                 *)

Reported(e, refs) == (Member[e] \ Switch) \cup refs
NewlyReported(e, refs) == Reported(e, refs) \ Known

Event(e, refs) ==
    /\ Reported(e, refs) \subseteq spent
    /\ UNCHANGED <<m_portRelatedSet, onSwitch, spent>>
Ignored(L) ==
    /\ m_oids' = Snooped(L)
    /\ m_saiObjectCollection' = SnoopedObjects(L)
    /\ UNCHANGED m_attrKeys

FdbLearned(e, refs) ==
    LET L == NewlyReported(e, refs) IN
    /\ Event(e, refs)
    /\ IF ValidEntry(e, refs, Known \cup L) THEN PostCreate(L, [x \in {e} |-> EntryAttrs(e, refs)], <<>>)
       ELSE Ignored(L)
\* AGED, and FLUSHED of one entry
FdbAged(e, refs) ==
    LET L == NewlyReported(e, refs) IN
    /\ Event(e, refs)
    /\ IF Exists(e) THEN PostRemove(L, {e}) ELSE Ignored(L)
FdbMove(e, refs) ==
    LET L == NewlyReported(e, refs) IN
    /\ Event(e, refs)
    /\ IF Exists(e) /\ ValidRefs(e, refs, Known \cup L) THEN PostSet(L, e, "list", refs)
       ELSE Ignored(L)
\* meta_sai_on_fdb_flush_event_consolidated: entries of every switch, with the
\* bridge port or VLAN of the event if it names one; which of them have the
\* flushed type is not modelled.
FlushConsolidated(L, ids, S) ==
    /\ \A e \in S : Exists(e) /\ ids \subseteq Refs(m_saiObjectCollection[e])
    /\ PostRemove(L, S)
    /\ UNCHANGED <<m_portRelatedSet, onSwitch, spent>>
FdbFlush(ids, S) ==
    /\ ids \subseteq spent
    /\ FlushConsolidated(ids \ Known, ids, S)
\* The client's own flush drops the entries as the notification does.
FlushFdbEntries(s, ids, S) ==
    /\ s \in Known
    /\ ValidRefs(s, ids, Known)
    /\ FlushConsolidated({}, ids, S)

--------------------------------------------------------------------------------
\* Bounds: a list has at most one object id, MaxLists objects have one, and a
\* bulk call names one or two objects, each once.
Bulk == {{x, y} : x, y \in Key}
ListsBut(S) ==
    {{}} \cup IF Cardinality({x \in DOMAIN m_saiObjectCollection \ S :
                               m_saiObjectCollection[x]["list"] # {}}) < MaxLists
             THEN {{o} : o \in Oid \ Switch} ELSE {}
Lists(k) == ListsBut({k})

ClientNext ==
    \/ \E s \in Switch : CreateSwitch(s) \/ RemoveSwitch(s)
    \/ \E o \in Oid : \E refs \in Lists(o), port \in SUBSET Port, key \in {{}} \cup {{k} : k \in AttrKey} :
        CreateObject(o, refs, port, key)
    \/ \E S \in SUBSET Entry : \E refs \in [S -> ListsBut(S)] : CreateEntries(refs)
    \/ \E k \in Key : \E refs \in Lists(k) : SetAttr(k, refs)
    \/ \E S \in Bulk : RemoveObjects(S)
    \/ \E p \in Port : RemovePort(p) \/ GetPortObjects(p)
    \/ \E k \in Key, o \in Oid : GetOid(k, o)
    \/ \E s \in Switch, S \in SUBSET Entry : \E ids \in Lists(s) : FlushFdbEntries(s, ids, S)
EventNext ==
    \E e \in Entry : \E refs \in Lists(e) :
        \/ FdbLearned(e, refs) \/ FdbAged(e, refs) \/ FdbMove(e, refs)
        \/ \E S \in SUBSET Entry : FdbFlush(refs, S)

\* An exception ends the client.
Next ==
    \/ ~threw /\ (ClientNext \/ EventNext) /\ UNCHANGED threw
    \/ ~threw /\ \E p \in Port : RemovePortThrows(p)
    \/ Restart

Spec == Init /\ [][Next]_vars

--------------------------------------------------------------------------------
(* Properties                                                              *)

\* The places in a collection of objects that hold o.
References(coll, o) == {r \in (DOMAIN coll) \X Attr : o \in coll[r[1]][r[2]]}

\* Every variable has its type; a count is never negative.
TypeOK ==
    /\ Known \subseteq Oid /\ m_oids \in [Known -> Nat]
    /\ DOMAIN m_saiObjectCollection \subseteq Key
    /\ m_saiObjectCollection \in [DOMAIN m_saiObjectCollection -> [Attr -> SUBSET Oid]]
    /\ DOMAIN m_attrKeys \subseteq Key
    /\ m_portRelatedSet \in [Port -> SUBSET Oid]
    /\ DOMAIN onSwitch \subseteq spent /\ spent \subseteq Oid
    /\ threw \in BOOLEAN

\* The count of an object id is the number of places in the attributes and keys
\* of the objects that hold it, whatever calls and notifications came in which
\* order; so no count becomes negative and no decrement meets an unknown id
\* (OidRefCounter).
CountsAreReferences ==
    /\ Known = DOMAIN m_saiObjectCollection \cap Oid
    /\ \A o \in Known : m_oids[o] = Cardinality(References(m_saiObjectCollection, o))

Graph == INSTANCE ObjectGraph WITH objects <- m_saiObjectCollection

\* The database is a closed graph per switch: an object leaves it only when
\* nothing refers to it, also with its port, or with its whole switch
\* (meta_generic_validation_remove, post_port_remove, clean_after_switch_remove).
ImplementsObjectGraph == Graph!Spec

\* What a port is said to have and the database does not know is no longer on
\* the switch either: as long as the objects of a port are there, the check of
\* its removal finds them all (meta_port_remove_validation).
RelatedAreKnown ==
    \A p \in Port : m_portRelatedSet[p] \cap DOMAIN onSwitch \subseteq Known
================================================================================
