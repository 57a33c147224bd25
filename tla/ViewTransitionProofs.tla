------------------------ MODULE ViewTransitionProofs ------------------------
(***************************************************************************)
(* The transition to a new view, for any views, kinds of objects and       *)
(* values: the reference counts are right, the comparison passes its own   *)
(* checks, the ASIC refuses none of the operations and holds the new view  *)
(* after the last, no kind outgrows both views when links are broken       *)
(* first, and the new view is closed.  They follow from an invariant that  *)
(* ties both views, the id map, the operations and the ASIC together:      *)
(* processed objects of the temporary view and final objects of the        *)
(* current view belong together one to one, also while links are broken,   *)
(* and the current view is what the operations issued so far make of the   *)
(* ASIC at the start, whatever order they are executed in, as long as each *)
(* comes after what it needs.  The proof goes from the counts over the     *)
(* operations of AsicView, what they issue, the steps of the transition    *)
(* and the order of the list to its execution; last comes a second         *)
(* invariant, of the number of groups.                                     *)
(***************************************************************************)
EXTENDS ViewTransition, FiniteSetTheorems, TLAPS

\* the statuses of an object
Statuses == {"MATCHED", "NOT_PROCESSED", "FINAL"}

\* the members of AsicView
HasFields(view) ==
    view = [objs |-> view.objs, status |-> view.status,
            m_vidReference |-> view.m_vidReference,
            m_vidToAsicOperationId |-> view.m_vidToAsicOperationId,
            m_asicOperations |-> view.m_asicOperations,
            m_asicRemoveOperationsNonObjectId |-> view.m_asicRemoveOperationsNonObjectId,
            m_asicOperationId |-> view.m_asicOperationId]

\* The maps of an AsicView agree on what objects there are, and counts are of ids.
IsAsicView(view) ==
    /\ HasFields(view)
    /\ DOMAIN view.objs \subseteq Keys /\ IsFiniteSet(DOMAIN view.objs)
    /\ view.objs \in [DOMAIN view.objs -> Objects]
    /\ view.status \in [DOMAIN view.objs -> Statuses]
    /\ DOMAIN view.m_vidReference \subseteq Oids
    /\ view.m_vidReference \in [DOMAIN view.m_vidReference -> Int]

\* The counts are the numbers of references.
Counted(view) ==
    \A v \in Oids \cap DOMAIN view.objs :
        v \in DOMAIN view.m_vidReference /\ view.m_vidReference[v] = Count(view.objs, v)

\* No object refers to one that is not there.
Closed(objs) == \A k \in DOMAIN objs : RefsOf(k, objs[k]) \subseteq DOMAIN objs

\* Groups have no links: they end every chain of references.
NoGroupLinks(objs) == \A k \in Groups \cap DOMAIN objs : objs[k].up = Absent /\ objs[k].ref = NullId

\* What every operation of AsicView keeps.
ViewInv(view) ==
    IsAsicView(view) /\ Counted(view) /\ Closed(view.objs) /\ NoGroupLinks(view.objs)

\* the objects of the temporary view that are in their final state
Processed == {k \in DOMAIN temp.objs : temp.status[k] = "FINAL"}

\* The temporary view is a view, and what is not processed refers to its own
\* objects only.
TempInv ==
    /\ temp = [objs |-> temp.objs, status |-> temp.status]
    /\ DOMAIN temp.objs \subseteq Keys /\ IsFiniteSet(DOMAIN temp.objs)
    /\ temp.objs \in [DOMAIN temp.objs -> Objects]
    /\ temp.status \in [DOMAIN temp.objs -> Statuses]
    /\ NoGroupLinks(temp.objs)
    /\ \A k \in (DOMAIN temp.objs) \ Processed : RefsOf(k, temp.objs[k]) \subseteq DOMAIN temp.objs

\* What is processed refers to what is processed, but for a create-only attribute
\* that a matched object was given.
NewRefs ==
    \A k \in Processed : \A v \in RefsOf(k, temp.objs[k]) :
        \/ v \in Processed
        \/ /\ k \in DOMAIN vidToRid /\ vidToRid[k] = k
           /\ v = temp.objs[k].up /\ v = current.objs[k].up

\* The ids of the temporary view that have a real id are the matched ones and
\* some of the processed ones, and an id and its real id are of one kind.
RidInv ==
    /\ DOMAIN vidToRid \subseteq Oids \cap DOMAIN temp.objs
    /\ vidToRid \in [DOMAIN vidToRid -> Oids]
    /\ \A v \in DOMAIN vidToRid :
          /\ temp.status[v] # "NOT_PROCESSED"
          /\ v \in Ports <=> vidToRid[v] \in Ports
          /\ v \in Groups <=> vidToRid[v] \in Groups
          /\ v \in Members <=> vidToRid[v] \in Members
    /\ \A k \in DOMAIN temp.objs : temp.status[k] = "MATCHED" =>
          /\ k \in DOMAIN vidToRid /\ vidToRid[k] = k
          /\ k \in DOMAIN current.objs /\ current.status[k] = "MATCHED"
    /\ \A c \in DOMAIN current.objs : current.status[c] = "MATCHED" =>
          c \in DOMAIN temp.objs /\ temp.status[c] = "MATCHED"

\* Processed objects and final objects of the current view belong together one
\* to one.  This is what makes the checks at the end pass.
MatchInv ==
    /\ \A k \in Processed :
          TranslateKey(k) \in DOMAIN current.objs /\ current.status[TranslateKey(k)] = "FINAL"
    /\ \A c \in DOMAIN current.objs : current.status[c] = "FINAL" => \E k \in Processed : TranslateKey(k) = c
    /\ \A v, w \in Oids \cap Processed : Translate(v) = Translate(w) => v = w

\* The ids with a real id and what is not final were on the ASIC at the start, and
\* the ids of new objects were not.
StartInv ==
    /\ Closed(atStart)
    /\ \A v \in DOMAIN vidToRid : vidToRid[v] \in DOMAIN atStart
    /\ \A v \in Oids \cap DOMAIN temp.objs : v \in DOMAIN atStart => v \in DOMAIN vidToRid /\ vidToRid[v] = v
    /\ \A c \in DOMAIN current.objs : current.status[c] # "FINAL" => c \in DOMAIN atStart
    /\ Ports \subseteq DOMAIN temp.objs

\* While c is removed to make k neither is processed, and only the break config
\* or an entry with the same key lead here.
BreakInv ==
    LET k == breaking[1]
        c == breaking[2]
    IN  /\ breaking = <<k, c>>
        /\ k \in DOMAIN temp.objs /\ temp.status[k] = "NOT_PROCESSED"
        /\ RefsOf(k, temp.objs[k]) \subseteq Processed
        /\ c \in DOMAIN current.objs /\ current.status[c] = "NOT_PROCESSED"
        /\ IF k \in Oids THEN k \in breakConfig ELSE c = TranslateKey(k)

\* What the comparison keeps of both views and the ids.
Matching == TempInv /\ NewRefs /\ RidInv /\ MatchInv /\ StartInv

\* The object a processed one was matched to has what was requested.  Of a matched
\* one the create-only attributes fit from the start, and entries have no `up'.
ValuesInv ==
    /\ \A k \in Processed : current.objs[TranslateKey(k)] = TranslateObject(temp.objs[k])
    /\ \A k \in DOMAIN temp.objs : temp.status[k] = "MATCHED" =>
          temp.objs[k].up \in {Absent, atStart[k].up} /\ temp.objs[k].val \in {Absent, atStart[k].val}
    /\ \A k \in DOMAIN temp.objs \ Oids : temp.objs[k].up = Absent
    /\ DOMAIN atStart \subseteq Keys /\ atStart \in [DOMAIN atStart -> Objects]
    /\ \A k \in DOMAIN atStart \ Oids : atStart[k].up = Absent

----------------------------------------------------------------------------
(* The operations, as a set O: start is what they are applied to *)

Operation == [opId : Nat, op : {"create", "set", "remove"}, key : Keys, obj : Objects]
Elements(s) == {s[i] : i \in 1 .. Len(s)}
Issued(view) == Elements(view.m_asicOperations) \cup Elements(view.m_asicRemoveOperationsNonObjectId)

Created(O, k) == \E a \in O : a.op = "create" /\ a.key = k
Changed(O, k) == \E a \in O : a.op = "set" /\ a.key = k
Removed(O, k) == \E a \in O : a.op = "remove" /\ a.key = k

\* They are numbered from 1 to n.
Numbered(O, n) ==
    /\ n \in Nat
    /\ \A a \in O : a \in Operation /\ a.opId \in 1 .. n
    /\ \A a, b \in O : a.opId = b.opId => a = b

\* There is one for each key, but that an entry may be removed and created.
OnePerKey(O) ==
    \A a, b \in O : a.key = b.key =>
        \/ a = b
        \/ a.key \notin Oids /\ a.op = "create" /\ b.op = "remove"
        \/ a.key \notin Oids /\ a.op = "remove" /\ b.op = "create"

\* What they make of start, in whatever order.
Applied(start, O, objs) ==
    /\ \A k \in Keys : k \in DOMAIN objs <=> Created(O, k) \/ (k \in DOMAIN start /\ ~Removed(O, k))
    /\ \A a \in O : a.op = "create" => objs[a.key] = a.obj
    /\ \A a \in O : a.op = "set" => objs[a.key] = [start[a.key] EXCEPT !.ref = a.obj.ref]
    /\ \A k \in DOMAIN objs : Created(O, k) \/ Changed(O, k) \/ objs[k] = start[k]

\* What each of them needs to have happened before.
Needs(start, O) ==
    \A a \in O :
        /\ a.op # "remove" =>
             \A w \in RefsOf(a.key, a.obj) :
                /\ ~Removed(O, w)
                /\ w \in DOMAIN start \/ \E b \in O : b.op = "create" /\ b.key = w /\ b.opId < a.opId
        /\ a.op # "create" => a.key \in DOMAIN start
        /\ a.op = "create" /\ a.key \in DOMAIN start =>
             \E b \in O : b.op = "remove" /\ b.key = a.key /\ b.opId < a.opId

\* b ends the reference to k that x had at the start.
Breaks(start, b, x, k) ==
    /\ b.key = x
    /\ \/ b.op = "remove"
       \/ b.op = "set" /\ start[x].up # k /\ x # Entry(k)

\* last[k] is an operation, and once nothing refers to k, no reference to k has
\* been ended after it.
LastInv(start, O, objs, last) ==
    /\ \A k \in DOMAIN last : k \in Oids /\ \E b \in O : b.opId = last[k]
    /\ \A a \in O : a.op = "remove" /\ a.key \in DOMAIN last => last[a.key] < a.opId
    /\ \A k \in Oids : (\A y \in DOMAIN objs : k \notin RefsOf(y, objs[y])) =>
          \A x \in DOMAIN start, b \in O :
             k \in RefsOf(x, start[x]) /\ Breaks(start, b, x, k) => k \in DOMAIN last /\ b.opId <= last[k]

\* The two lists are in the order of the numbers; one has the removes of entries.
ListsInv(view) ==
    LET L == view.m_asicOperations
        E == view.m_asicRemoveOperationsNonObjectId
    IN  /\ L \in Seq(Operation) /\ E \in Seq(Operation)
        /\ \A i \in 1 .. Len(L) : L[i].op = "remove" => L[i].key \in Oids
        /\ \A i \in 1 .. Len(E) : E[i].op = "remove" /\ E[i].key \notin Oids
        /\ \A i, j \in 1 .. Len(L) : i < j => L[i].opId < L[j].opId
        /\ \A i, j \in 1 .. Len(E) : i < j => E[i].opId < E[j].opId

\* What the operations issued so far are to the view that results from them.
OpsInv(start, O, objs, last, n) ==
    /\ Numbered(O, n) /\ OnePerKey(O)
    /\ Applied(start, O, objs) /\ Needs(start, O) /\ LastInv(start, O, objs, last)
IssueInv(view) ==
    /\ ListsInv(view)
    /\ OpsInv(atStart, Issued(view), view.objs, view.m_vidToAsicOperationId, view.m_asicOperationId)

\* What was created or set is final and refers to final objects.
FinalInv(view) ==
    \A a \in Issued(view) : a.op # "remove" =>
        /\ a.key \in DOMAIN view.objs /\ view.status[a.key] = "FINAL"
        /\ \A w \in RefsOf(a.key, a.obj) : w \in DOMAIN view.objs /\ view.status[w] = "FINAL"

\* In the list v, creates and sets come after every operation with a smaller
\* number, and the remove of an object after what ends each reference to it.
Sorted(v) ==
    /\ \A i, j \in 1 .. Len(v) : v[i].opId = v[j].opId => i = j
    /\ \A i, j \in 1 .. Len(v) : v[j].op # "remove" /\ v[i].opId <= v[j].opId => i <= j
    /\ \A j \in 1 .. Len(v), x \in DOMAIN atStart :
          v[j].op = "remove" /\ v[j].key \in RefsOf(x, atStart[x]) =>
             \E i \in 1 .. j - 1 : Breaks(atStart, v[i], x, v[j].key)

\* The list in the making, and the part of the operations that is on it: the removes of
\* entries and the first n others.
IsOrdered(acc) ==
    /\ acc = [v |-> acc.v, index |-> acc.index]
    /\ acc.v \in Seq(Operation) /\ acc.index \in 0 .. Len(acc.v)
    /\ Sorted(acc.v)
Placed(view, n) ==
    Elements(view.m_asicRemoveOperationsNonObjectId) \cup {view.m_asicOperations[i] : i \in 1 .. n}

\* Of the operations v, n have been executed.
ExecInv(v, n) ==
    /\ n \in 0 .. Len(v)
    /\ asic \in [DOMAIN asic -> Objects] /\ DOMAIN asic \subseteq Keys
    /\ Applied(atStart, {v[i] : i \in 1 .. n}, asic)

\* What is known in each phase.
PhaseInv ==
    /\ phase \in {"process", "break", "remove", "check", "order", "execute", "done", "thrown"}
    /\ phase \notin {"process", "break", "thrown"} => Processed = DOMAIN temp.objs
    /\ phase \notin {"process", "break", "thrown", "remove"} =>
          \A c \in DOMAIN current.objs : current.status[c] = "FINAL"
    /\ phase = "break" => BreakInv
    /\ phase = "thrown" => breakConfig # {} \/ oneSided # {}
    /\ phase \notin {"execute", "done"} => asic = atStart
    /\ phase \in {"process", "break", "remove", "check"} => taken = 0
    /\ phase \in {"order", "execute", "done"} => IsOrdered(optimized)
    /\ phase = "order" =>
          /\ taken \in 0 .. Len(current.m_asicOperations)
          /\ Elements(optimized.v) = Placed(current, taken)
    /\ phase \in {"execute", "done"} =>
          Elements(optimized.v) = Issued(current) /\ ExecInv(optimized.v, taken)
    /\ phase = "done" => taken = Len(optimized.v)

\* The inductive invariant.
TransitionInv ==
    /\ ViewInv(current) /\ Matching /\ ValuesInv
    /\ IssueInv(current) /\ FinalInv(current)
    /\ PhaseInv


----------------------------------------------------------------------------
(* References of an object and their number *)

\* An object refers to what its attributes and its key hold.
LEMMA RefsAre ==
    ASSUME NEW k, NEW o, NEW v
    PROVE  v \in RefsOf(k, o) <=> v \in Oids /\ (o.up = v \/ o.ref = v \/ k = Entry(v))
  BY DEF RefsOf, Links, AttrLinks

\* How many links an object has to an id.
LEMMA LinksAre ==
    ASSUME NEW k, NEW o, NEW v \in Oids
    PROVE  /\ AttrLinks(o)[v] = (IF o.up = v THEN 1 ELSE 0) + (IF o.ref = v THEN 1 ELSE 0)
           /\ Links(k, o)[v] = (IF o.up = v THEN 1 ELSE 0) + (IF o.ref = v THEN 1 ELSE 0)
                               + (IF k = Entry(v) THEN 1 ELSE 0)
           /\ AttrLinks(o)[v] \in Int /\ Links(k, o)[v] \in Int
  BY DEF Links, AttrLinks

\* The parts a count is made of are natural numbers.
LEMMA PartsAreNat ==
    ASSUME NEW objs, IsFiniteSet(DOMAIN objs), NEW v
    PROVE  /\ IsFiniteSet({x \in DOMAIN objs : objs[x].up = v})
           /\ IsFiniteSet({x \in DOMAIN objs : objs[x].ref = v})
           /\ Cardinality({x \in DOMAIN objs : objs[x].up = v}) \in Nat
           /\ Cardinality({x \in DOMAIN objs : objs[x].ref = v}) \in Nat
           /\ Count(objs, v) \in Nat
  <1>1. IsFiniteSet({x \in DOMAIN objs : objs[x].up = v})
    BY FS_Subset
  <1>2. IsFiniteSet({x \in DOMAIN objs : objs[x].ref = v})
    BY FS_Subset
  <1> QED
    BY <1>1, <1>2, FS_CardinalityType DEF Count

\* A set that gains or loses an element.
LEMMA OneMore ==
    ASSUME NEW S, NEW T, NEW x, IsFiniteSet(S), NEW P \in BOOLEAN, x \notin S,
           T = IF P THEN S \cup {x} ELSE S
    PROVE  Cardinality(T) = Cardinality(S) + (IF P THEN 1 ELSE 0)
  <1>1. Cardinality(S) \in Nat
    BY FS_CardinalityType
  <1>2. CASE P
    BY <1>1, <1>2, FS_AddElement
  <1>3. CASE ~P
    BY <1>1, <1>3
  <1> QED
    BY <1>2, <1>3

\* A view with one object more: the links of the object are added.
LEMMA CountMore ==
    ASSUME NEW objs, IsFiniteSet(DOMAIN objs), NEW k, k \notin DOMAIN objs, NEW o,
           NEW new, DOMAIN new = DOMAIN objs \cup {k}, new[k] = o,
           \A x \in DOMAIN objs : new[x] = objs[x],
           NEW v \in Oids
    PROVE  Count(new, v) = Count(objs, v) + Links(k, o)[v]
  <1> DEFINE U == {x \in DOMAIN objs : objs[x].up = v}
             R == {x \in DOMAIN objs : objs[x].ref = v}
             U1 == {x \in DOMAIN new : new[x].up = v}
             R1 == {x \in DOMAIN new : new[x].ref = v}
  <1>1. IsFiniteSet(U) /\ IsFiniteSet(R) /\ Cardinality(U) \in Nat /\ Cardinality(R) \in Nat
    BY PartsAreNat
  <1>2. U1 = IF o.up = v THEN U \cup {k} ELSE U
    OBVIOUS
  <1>3. R1 = IF o.ref = v THEN R \cup {k} ELSE R
    OBVIOUS
  <1>4. k \notin U /\ k \notin R
    OBVIOUS
  <1>5. (o.up = v) \in BOOLEAN /\ (o.ref = v) \in BOOLEAN
    OBVIOUS
  <1> HIDE DEF U, R, U1, R1
  <1>6. Cardinality(U1) = Cardinality(U) + (IF o.up = v THEN 1 ELSE 0)
    BY <1>1, <1>2, <1>4, <1>5, OneMore
  <1>7. Cardinality(R1) = Cardinality(R) + (IF o.ref = v THEN 1 ELSE 0)
    BY <1>1, <1>3, <1>4, <1>5, OneMore
  <1>8. (IF Entry(v) \in DOMAIN new THEN 1 ELSE 0)
          = (IF Entry(v) \in DOMAIN objs THEN 1 ELSE 0) + (IF k = Entry(v) THEN 1 ELSE 0)
    OBVIOUS
  <1>9. Count(new, v) = Cardinality(U1) + Cardinality(R1) + (IF Entry(v) \in DOMAIN new THEN 1 ELSE 0)
    BY DEF Count, U1, R1
  <1>10. Count(objs, v) = Cardinality(U) + Cardinality(R) + (IF Entry(v) \in DOMAIN objs THEN 1 ELSE 0)
    BY DEF Count, U, R
  <1> QED
    BY <1>1, <1>6, <1>7, <1>8, <1>9, <1>10, LinksAre

\* Two views that differ in the settable attribute of an object.
LEMMA CountSet ==
    ASSUME NEW objs, IsFiniteSet(DOMAIN objs), NEW k \in DOMAIN objs, NEW r,
           NEW new, DOMAIN new = DOMAIN objs, new[k].up = objs[k].up, new[k].ref = r,
           \A x \in DOMAIN objs \ {k} : new[x] = objs[x],
           NEW v \in Oids
    PROVE  Count(new, v) = Count(objs, v) - (IF objs[k].ref = v THEN 1 ELSE 0) + (IF r = v THEN 1 ELSE 0)
  <1> DEFINE U == {x \in DOMAIN objs : objs[x].up = v}
             R == {x \in DOMAIN objs : objs[x].ref = v}
             S == {x \in DOMAIN objs \ {k} : objs[x].ref = v}
             U1 == {x \in DOMAIN new : new[x].up = v}
             R1 == {x \in DOMAIN new : new[x].ref = v}
  <1>1. Cardinality(U) \in Nat /\ IsFiniteSet(S) /\ Cardinality(S) \in Nat
    <2>1. IsFiniteSet(S)
      BY FS_Subset
    <2>2. Cardinality(U) \in Nat
      BY PartsAreNat
    <2>3. Cardinality(S) \in Nat
      BY <2>1, FS_CardinalityType
    <2> QED
      BY <2>1, <2>2, <2>3
  <1>2. U1 = U
    OBVIOUS
  <1>3. R1 = IF r = v THEN S \cup {k} ELSE S
    OBVIOUS
  <1>4. R = IF objs[k].ref = v THEN S \cup {k} ELSE S
    OBVIOUS
  <1>5. k \notin S /\ (r = v) \in BOOLEAN /\ (objs[k].ref = v) \in BOOLEAN
    OBVIOUS
  <1>6. Count(new, v) = Cardinality(U1) + Cardinality(R1) + (IF Entry(v) \in DOMAIN objs THEN 1 ELSE 0)
    BY DEF Count
  <1>7. Count(objs, v) = Cardinality(U) + Cardinality(R) + (IF Entry(v) \in DOMAIN objs THEN 1 ELSE 0)
    BY DEF Count
  <1> HIDE DEF U, R, S, U1, R1
  <1>8. Cardinality(R1) = Cardinality(S) + (IF r = v THEN 1 ELSE 0)
    BY <1>1, <1>3, <1>5, OneMore
  <1>9. Cardinality(R) = Cardinality(S) + (IF objs[k].ref = v THEN 1 ELSE 0)
    BY <1>1, <1>4, <1>5, OneMore
  <1> QED
    BY <1>1, <1>2, <1>6, <1>7, <1>8, <1>9

\* Nothing refers to an id whose count is zero, and the count of an id to which
\* nothing refers is zero.
LEMMA ZeroIsUnused ==
    ASSUME NEW objs, IsFiniteSet(DOMAIN objs), DOMAIN objs \subseteq Keys, NEW v \in Oids
    PROVE  Count(objs, v) = 0 <=> \A k \in DOMAIN objs : v \notin RefsOf(k, objs[k])
  <1> DEFINE U == {x \in DOMAIN objs : objs[x].up = v}
             R == {x \in DOMAIN objs : objs[x].ref = v}
  <1>1. IsFiniteSet(U) /\ IsFiniteSet(R) /\ Cardinality(U) \in Nat /\ Cardinality(R) \in Nat
    BY PartsAreNat
  <1>2. (\A k \in DOMAIN objs : v \notin RefsOf(k, objs[k])) <=> U = {} /\ R = {} /\ Entry(v) \notin DOMAIN objs
    BY RefsAre
  <1>3. Count(objs, v) = Cardinality(U) + Cardinality(R) + (IF Entry(v) \in DOMAIN objs THEN 1 ELSE 0)
    BY DEF Count
  <1> HIDE DEF U, R
  <1>4. (Cardinality(U) = 0 <=> U = {}) /\ (Cardinality(R) = 0 <=> R = {})
    BY <1>1, FS_EmptySet
  <1> QED
    BY <1>1, <1>2, <1>3, <1>4

----------------------------------------------------------------------------
(* The operations of AsicView *)

\* The objects of a view are objects.
LEMMA ObjectFacts ==
    ASSUME NEW o \in Objects
    PROVE  /\ o = [up |-> o.up, ref |-> o.ref, val |-> o.val]
           /\ o.up \in Groups \cup {Absent} /\ o.ref \in Groups \cup {NullId} /\ o.val \in Vals \cup {Absent}
  BY DEF Objects

\* A map with one more entry.
LEMMA WithIs ==
    ASSUME NEW f, NEW k, NEW e
    PROVE  With(f, k, e) = [x \in DOMAIN f \cup {k} |-> IF x = k THEN e ELSE f[x]]
  BY DEF With, Override

\* Numbering an operation changes nothing else.
LEMMA NextIdFields ==
    ASSUME NEW view, HasFields(view)
    PROVE  /\ HasFields(NextId(view))
           /\ NextId(view).objs = view.objs /\ NextId(view).status = view.status
           /\ NextId(view).m_vidReference = view.m_vidReference
  BY DEF NextId, HasFields

\* Binding links changes counts.
LEMMA BindFields ==
    ASSUME NEW view, HasFields(view), NEW links
    PROVE  LET w == BindNewLinks(view, links)
           IN  /\ HasFields(w) /\ w.objs = view.objs /\ w.status = view.status
               /\ w.m_vidReference = [v \in DOMAIN view.m_vidReference |-> view.m_vidReference[v] + links[v]]
  BY DEF BindNewLinks, HasFields

\* Releasing links changes counts too, and what operation freed an id.
LEMMA ReleaseFields ==
    ASSUME NEW view, HasFields(view), NEW links
    PROVE  LET w == ReleaseExistingLinks(view, links)
           IN  /\ HasFields(w) /\ w.objs = view.objs /\ w.status = view.status
               /\ w.m_vidReference = [v \in DOMAIN view.m_vidReference |-> view.m_vidReference[v] - links[v]]
  <1> DEFINE counts == [v \in DOMAIN view.m_vidReference |-> view.m_vidReference[v] - links[v]]
             freed == {v \in DOMAIN counts : links[v] > 0 /\ counts[v] = 0}
             ids == Override(view.m_vidToAsicOperationId, [v \in freed |-> view.m_asicOperationId])
  <1>1. ReleaseExistingLinks(view, links)
          = [view EXCEPT !.m_vidReference = counts, !.m_vidToAsicOperationId = ids]
    BY DEF ReleaseExistingLinks, HasFields
  <1> HIDE DEF counts, ids
  <1> QED
    BY <1>1 DEF HasFields, counts

\* A new id has count zero.
LEMMA InsertFields ==
    ASSUME NEW view, HasFields(view), NEW k
    PROVE  LET w == InsertNewVidReference(view, k)
           IN  /\ HasFields(w) /\ w.objs = view.objs /\ w.status = view.status
               /\ w.m_vidReference = [v \in DOMAIN view.m_vidReference \cup {k} |->
                                        IF v = k THEN 0 ELSE view.m_vidReference[v]]
  <1>1. With(view.m_vidReference, k, 0) = [v \in DOMAIN view.m_vidReference \cup {k} |->
                                        IF v = k THEN 0 ELSE view.m_vidReference[v]]
    BY WithIs
  <1> QED
    BY <1>1 DEF InsertNewVidReference, HasFields

\* What a set does to the three maps.
LEMMA SetFields ==
    ASSUME NEW view, HasFields(view), NEW k \in DOMAIN view.objs, NEW r
    PROVE  LET w == AsicSetAttribute(view, k, r)
           IN  /\ HasFields(w) /\ w.objs = [view.objs EXCEPT ![k].ref = r] /\ w.status = view.status
               /\ w.m_vidReference = [v \in DOMAIN view.m_vidReference |->
                    view.m_vidReference[v] - AttrLinks(OnlyRef(view.objs[k].ref))[v] + AttrLinks(OnlyRef(r))[v]]
  <1> DEFINE numbered == NextId(view)
             released == ReleaseExistingLinks(numbered, AttrLinks(OnlyRef(view.objs[k].ref)))
             bound    == BindNewLinks(released, AttrLinks(OnlyRef(r)))
             w == AsicSetAttribute(view, k, r)
             old == AttrLinks(OnlyRef(view.objs[k].ref))
             new == AttrLinks(OnlyRef(r))
  <1>0. w = [bound EXCEPT !.objs[k].ref = r,
                          !.m_asicOperations = Append(@, Op(bound, "set", k, OnlyRef(r)))]
    BY DEF AsicSetAttribute
  <1>1. /\ HasFields(numbered) /\ numbered.objs = view.objs /\ numbered.status = view.status
        /\ numbered.m_vidReference = view.m_vidReference
    BY NextIdFields
  <1> HIDE DEF numbered, old, new
  <1>2. /\ HasFields(released) /\ released.objs = view.objs /\ released.status = view.status
        /\ released.m_vidReference = [v \in DOMAIN view.m_vidReference |-> view.m_vidReference[v] - old[v]]
    BY <1>1, ReleaseFields DEF old
  <1> HIDE DEF released
  <1>3. /\ HasFields(bound) /\ bound.objs = view.objs /\ bound.status = view.status
        /\ bound.m_vidReference = [v \in DOMAIN released.m_vidReference |-> released.m_vidReference[v] + new[v]]
    BY <1>2, BindFields DEF new
  <1>4. bound.m_vidReference = [v \in DOMAIN view.m_vidReference |-> view.m_vidReference[v] - old[v] + new[v]]
    BY <1>2, <1>3
  <1> HIDE DEF bound, w
  <1>5. HasFields(w) /\ w.objs = [bound.objs EXCEPT ![k].ref = r] /\ w.status = bound.status
        /\ w.m_vidReference = bound.m_vidReference
    BY <1>0, <1>3 DEF HasFields
  <1> QED
    BY <1>3, <1>4, <1>5 DEF w, old, new

\* What a create does to them.
LEMMA CreateFields ==
    ASSUME NEW view, HasFields(view), NEW k, NEW o
    PROVE  LET w == AsicCreateObject(view, k, o)
               ref == IF k \in Oids THEN InsertNewVidReference(view, k).m_vidReference ELSE view.m_vidReference
           IN  /\ HasFields(w)
               /\ w.objs = [x \in DOMAIN view.objs \cup {k} |-> IF x = k THEN o ELSE view.objs[x]]
               /\ w.status = [x \in DOMAIN view.status \cup {k} |-> IF x = k THEN "FINAL" ELSE view.status[x]]
               /\ w.m_vidReference = [v \in DOMAIN ref |-> ref[v] + Links(k, o)[v]]
  <1> DEFINE numbered == NextId(view)
             known    == IF k \in Oids THEN InsertNewVidReference(numbered, k) ELSE numbered
             bound    == BindNewLinks(known, Links(k, o))
             w == AsicCreateObject(view, k, o)
             links == Links(k, o)
             ref == IF k \in Oids THEN InsertNewVidReference(view, k).m_vidReference ELSE view.m_vidReference
  <1>0. w = [bound EXCEPT !.objs = With(@, k, o),
                      !.status = With(@, k, "FINAL"),
                      !.m_asicOperations = Append(@, Op(bound, "create", k, o))]
    BY DEF AsicCreateObject
  <1>1. /\ HasFields(numbered) /\ numbered.objs = view.objs /\ numbered.status = view.status
        /\ numbered.m_vidReference = view.m_vidReference
    BY NextIdFields
  <1> HIDE DEF numbered
  <1>2. /\ HasFields(known) /\ known.objs = view.objs /\ known.status = view.status
        /\ known.m_vidReference = ref
    <2>1. CASE k \in Oids
      <3> DEFINE w1 == InsertNewVidReference(numbered, k)
                 w2 == InsertNewVidReference(view, k)
      <3>1. /\ HasFields(w1) /\ w1.objs = numbered.objs /\ w1.status = numbered.status
            /\ w1.m_vidReference = [v \in DOMAIN numbered.m_vidReference \cup {k} |->
                                        IF v = k THEN 0 ELSE numbered.m_vidReference[v]]
        BY <1>1, InsertFields
      <3>2. w2.m_vidReference = [v \in DOMAIN view.m_vidReference \cup {k} |->
                                        IF v = k THEN 0 ELSE view.m_vidReference[v]]
        BY InsertFields
      <3>3. known = w1 /\ ref = w2.m_vidReference
        BY <2>1
      <3> HIDE DEF w1, w2, known, ref
      <3> QED
        BY <1>1, <3>1, <3>2, <3>3
    <2>2. CASE k \notin Oids
      BY <1>1, <2>2
    <2> QED
      BY <2>1, <2>2
  <1> HIDE DEF known, ref, links
  <1>3. /\ HasFields(bound) /\ bound.objs = view.objs /\ bound.status = view.status
        /\ bound.m_vidReference = [v \in DOMAIN ref |-> ref[v] + links[v]]
    BY <1>2, BindFields DEF links
  <1> HIDE DEF bound, w
  <1>4. HasFields(w) /\ w.objs = With(bound.objs, k, o) /\ w.status = With(bound.status, k, "FINAL")
        /\ w.m_vidReference = bound.m_vidReference
    BY <1>0, <1>3 DEF HasFields
  <1>5. /\ With(bound.objs, k, o) = [x \in DOMAIN bound.objs \cup {k} |-> IF x = k THEN o ELSE bound.objs[x]]
        /\ With(bound.status, k, "FINAL")
             = [x \in DOMAIN bound.status \cup {k} |-> IF x = k THEN "FINAL" ELSE bound.status[x]]
    BY WithIs
  <1> QED
    BY <1>3, <1>4, <1>5 DEF w, ref, links

\* What a remove does to them.
LEMMA RemoveFields ==
    ASSUME NEW view, HasFields(view), NEW k \in DOMAIN view.objs
    PROVE  LET w == AsicRemoveObject(view, k)
               ref == IF k \in Oids THEN [view.m_vidReference EXCEPT ![k] = @ - 1] ELSE view.m_vidReference
           IN  /\ HasFields(w)
               /\ w.objs = [x \in DOMAIN view.objs \ {k} |-> view.objs[x]]
               /\ w.status = [x \in DOMAIN view.status \ {k} |-> view.status[x]]
               /\ w.m_vidReference = [v \in DOMAIN ref |-> ref[v] - Links(k, view.objs[k])[v]]
  <1> DEFINE o        == view.objs[k]
             numbered == NextId(view)
             ref == IF k \in Oids THEN [view.m_vidReference EXCEPT ![k] = @ - 1] ELSE view.m_vidReference
             os == Without(view.objs, k)
             ss == Without(view.status, k)
             dropped  == [numbered EXCEPT !.objs = os, !.status = ss, !.m_vidReference = ref]
             released == ReleaseExistingLinks(dropped, Links(k, o))
             op       == Op(released, "remove", k, o)
             w == AsicRemoveObject(view, k)
             links == Links(k, o)
  <1>0. w = IF k \in Oids
            THEN [released EXCEPT !.m_asicOperations = Append(@, op)]
            ELSE [released EXCEPT !.m_asicRemoveOperationsNonObjectId = Append(@, op)]
    BY DEF AsicRemoveObject
  <1>1. /\ HasFields(numbered) /\ numbered.objs = view.objs /\ numbered.status = view.status
        /\ numbered.m_vidReference = view.m_vidReference
    BY NextIdFields
  <1> HIDE DEF numbered
  <1> HIDE DEF os, ss, ref
  <1>2. HasFields(dropped) /\ dropped.objs = os /\ dropped.status = ss /\ dropped.m_vidReference = ref
    <2>1. dropped = [numbered EXCEPT !.objs = os, !.status = ss, !.m_vidReference = ref]
      OBVIOUS
    <2> HIDE DEF dropped
    <2> QED
      BY <1>1, <2>1 DEF HasFields
  <1> HIDE DEF dropped, links
  <1>3. /\ HasFields(released) /\ released.objs = dropped.objs /\ released.status = dropped.status
        /\ released.m_vidReference = [v \in DOMAIN ref |-> ref[v] - links[v]]
    BY <1>2, ReleaseFields DEF links
  <1> HIDE DEF released, w, op
  <1>4. HasFields(w) /\ w.objs = released.objs /\ w.status = released.status
        /\ w.m_vidReference = released.m_vidReference
    BY <1>0, <1>3 DEF HasFields
  <1>5. /\ os = [x \in DOMAIN view.objs \ {k} |-> view.objs[x]]
        /\ ss = [x \in DOMAIN view.status \ {k} |-> view.status[x]]
    BY DEF Without, Restrict, os, ss
  <1> QED
    BY <1>2, <1>3, <1>4, <1>5 DEF w, ref, links

\* Setting the settable attribute of an object to a group of the view keeps the
\* view in order.
LEMMA SetKeeps ==
    ASSUME NEW view, ViewInv(view), NEW k \in DOMAIN view.objs, k \notin Groups,
           NEW r \in Groups \cup {NullId}, r = NullId \/ r \in DOMAIN view.objs
    PROVE  LET w == AsicSetAttribute(view, k, r)
           IN  /\ ViewInv(w) /\ w.status = view.status /\ DOMAIN w.objs = DOMAIN view.objs
               /\ w.objs[k] = [up |-> view.objs[k].up, ref |-> r, val |-> view.objs[k].val]
               /\ \A x \in DOMAIN view.objs \ {k} : w.objs[x] = view.objs[x]
  <1> DEFINE w == AsicSetAttribute(view, k, r)
             o == view.objs[k]
             new == [up |-> o.up, ref |-> r, val |-> o.val]
             cnt == view.m_vidReference
  <1>1. IsAsicView(view) /\ HasFields(view) /\ o \in Objects /\ IsFiniteSet(DOMAIN view.objs)
    BY DEF ViewInv, IsAsicView
  <1>2. /\ HasFields(w) /\ w.objs = [view.objs EXCEPT ![k].ref = r] /\ w.status = view.status
        /\ w.m_vidReference = [v \in DOMAIN cnt |-> cnt[v] - AttrLinks(OnlyRef(o.ref))[v] + AttrLinks(OnlyRef(r))[v]]
    BY <1>1, SetFields
  <1>3. o = [up |-> o.up, ref |-> o.ref, val |-> o.val] /\ new \in Objects
    BY <1>1, ObjectFacts DEF Objects
  <1> HIDE DEF w
  <1>4. /\ DOMAIN w.objs = DOMAIN view.objs /\ w.objs[k] = new
        /\ \A x \in DOMAIN view.objs \ {k} : w.objs[x] = view.objs[x]
        /\ w.objs = [x \in DOMAIN view.objs |-> w.objs[x]]
    BY <1>1, <1>2, <1>3 DEF IsAsicView
  <1>5. ASSUME NEW v \in Oids
        PROVE  /\ AttrLinks(OnlyRef(o.ref))[v] = IF o.ref = v THEN 1 ELSE 0
               /\ AttrLinks(OnlyRef(r))[v] = IF r = v THEN 1 ELSE 0
    <2>1. Absent # v
      BY KindsAssumption DEF Keys
    <2>2. \A x : OnlyRef(x).up = Absent /\ OnlyRef(x).ref = x
      BY DEF OnlyRef
    <2> QED
      BY <2>1, <2>2, LinksAre
  <1>6. IsAsicView(w)
    <2>1. w.objs \in [DOMAIN w.objs -> Objects]
      BY <1>1, <1>3, <1>4 DEF IsAsicView
    <2>2. /\ DOMAIN w.m_vidReference = DOMAIN cnt
          /\ w.m_vidReference \in [DOMAIN w.m_vidReference -> Int]
      <3>1. DOMAIN cnt \subseteq Oids /\ cnt \in [DOMAIN cnt -> Int]
        BY <1>1 DEF IsAsicView
      <3>2. \A v \in DOMAIN cnt : cnt[v] - AttrLinks(OnlyRef(o.ref))[v] + AttrLinks(OnlyRef(r))[v] \in Int
        BY <1>5, <3>1
      <3> QED
        BY <1>2, <3>2
    <2> QED
      BY <1>1, <1>2, <1>4, <2>1, <2>2 DEF IsAsicView
  <1>7. Counted(w)
    <2> SUFFICES ASSUME NEW v \in Oids \cap DOMAIN view.objs
                 PROVE  v \in DOMAIN w.m_vidReference /\ w.m_vidReference[v] = Count(w.objs, v)
      BY <1>4 DEF Counted
    <2>1. v \in DOMAIN cnt /\ cnt[v] = Count(view.objs, v)
      BY DEF ViewInv, Counted
    <2>2. Count(w.objs, v) = Count(view.objs, v) - (IF o.ref = v THEN 1 ELSE 0) + (IF r = v THEN 1 ELSE 0)
      <3> DEFINE a == view.objs
                 b == w.objs
      <3>1. /\ IsFiniteSet(DOMAIN a) /\ k \in DOMAIN a /\ DOMAIN b = DOMAIN a
            /\ b[k].up = a[k].up /\ b[k].ref = r /\ \A x \in DOMAIN a \ {k} : b[x] = a[x]
        BY <1>1, <1>4
      <3> HIDE DEF a, b
      <3>2. Count(b, v) = Count(a, v) - (IF a[k].ref = v THEN 1 ELSE 0) + (IF r = v THEN 1 ELSE 0)
        BY <3>1, CountSet
      <3> QED
        BY <3>2 DEF a, b
    <2> QED
      BY <1>2, <1>5, <2>1, <2>2
  <1>8. Closed(w.objs)
    <2> SUFFICES ASSUME NEW x \in DOMAIN view.objs, NEW v \in RefsOf(x, w.objs[x])
                 PROVE  v \in DOMAIN view.objs
      BY <1>4 DEF Closed
    <2>1. v \in Oids /\ (w.objs[x].up = v \/ w.objs[x].ref = v \/ x = Entry(v))
      BY RefsAre
    <2>2. CASE x = k /\ w.objs[x].ref = v
      BY <1>4, <2>1, <2>2, KindsAssumption DEF Keys
    <2>3. CASE ~(x = k /\ w.objs[x].ref = v)
      <3>1. view.objs[x].up = v \/ view.objs[x].ref = v \/ x = Entry(v)
        BY <1>4, <2>1, <2>3
      <3>2. v \in RefsOf(x, view.objs[x])
        BY <2>1, <3>1, RefsAre
      <3> QED
        BY <3>2 DEF ViewInv, Closed
    <2> QED
      BY <2>2, <2>3
  <1>9. NoGroupLinks(w.objs)
    BY <1>4 DEF ViewInv, NoGroupLinks
  <1> QED
    BY <1>2, <1>4, <1>6, <1>7, <1>8, <1>9 DEF ViewInv, w

\* A new id that is not in the view.
LEMMA InsertKeeps ==
    ASSUME NEW view, ViewInv(view), NEW k \in Oids, k \notin DOMAIN view.objs
    PROVE  LET w == InsertNewVidReference(view, k)
           IN  ViewInv(w) /\ w.status = view.status /\ w.objs = view.objs
  <1> DEFINE w == InsertNewVidReference(view, k)
             cnt == view.m_vidReference
  <1>0. HasFields(view)
    BY DEF ViewInv, IsAsicView
  <1>1. HasFields(view) /\ cnt \in [DOMAIN cnt -> Int] /\ DOMAIN cnt \subseteq Oids
    BY DEF ViewInv, IsAsicView
  <1>2. /\ HasFields(w) /\ w.objs = view.objs /\ w.status = view.status
        /\ w.m_vidReference = [v \in DOMAIN cnt \cup {k} |-> IF v = k THEN 0 ELSE cnt[v]]
    BY <1>0, InsertFields
  <1> HIDE DEF w
  <1>3. DOMAIN w.m_vidReference \subseteq Oids /\ w.m_vidReference \in [DOMAIN w.m_vidReference -> Int]
    BY <1>1, <1>2
  <1>4. IsAsicView(w)
    BY <1>2, <1>3 DEF ViewInv, IsAsicView
  <1>5. Counted(w)
    BY <1>2 DEF ViewInv, Counted
  <1> QED
    BY <1>2, <1>4, <1>5 DEF ViewInv, w

\* Creating an object whose links are in the view.
LEMMA CreateKeeps ==
    ASSUME NEW view, ViewInv(view), NEW k \in Keys, k \notin DOMAIN view.objs, NEW o \in Objects,
           RefsOf(k, o) \subseteq DOMAIN view.objs, k \in Groups => o.up = Absent /\ o.ref = NullId
    PROVE  LET w == AsicCreateObject(view, k, o)
           IN  /\ ViewInv(w) /\ DOMAIN w.objs = DOMAIN view.objs \cup {k}
               /\ w.objs[k] = o /\ w.status[k] = "FINAL"
               /\ \A x \in DOMAIN view.objs : w.objs[x] = view.objs[x] /\ w.status[x] = view.status[x]
  <1> DEFINE w == AsicCreateObject(view, k, o)
             cnt == view.m_vidReference
             ref == IF k \in Oids THEN InsertNewVidReference(view, k).m_vidReference ELSE cnt
  <1>0. HasFields(view)
    BY DEF ViewInv, IsAsicView
  <1>1. /\ IsAsicView(view) /\ HasFields(view) /\ cnt \in [DOMAIN cnt -> Int] /\ DOMAIN cnt \subseteq Oids
        /\ IsFiniteSet(DOMAIN view.objs) /\ view.status \in [DOMAIN view.objs -> Statuses]
    BY DEF ViewInv, IsAsicView
  <1>2. /\ HasFields(w)
        /\ w.objs = [x \in DOMAIN view.objs \cup {k} |-> IF x = k THEN o ELSE view.objs[x]]
        /\ w.status = [x \in DOMAIN view.status \cup {k} |-> IF x = k THEN "FINAL" ELSE view.status[x]]
        /\ w.m_vidReference = [v \in DOMAIN ref |-> ref[v] + Links(k, o)[v]]
    BY <1>0, CreateFields
  <1>3. /\ DOMAIN ref \subseteq Oids /\ ref \in [DOMAIN ref -> Int]
        /\ \A v \in DOMAIN cnt \ {k} : v \in DOMAIN ref /\ ref[v] = cnt[v]
        /\ k \in Oids => k \in DOMAIN ref /\ ref[k] = 0
    <2>1. CASE k \in Oids
      <3> DEFINE i == InsertNewVidReference(view, k).m_vidReference
      <3>1. i = [v \in DOMAIN cnt \cup {k} |-> IF v = k THEN 0 ELSE cnt[v]]
        BY <1>0, InsertFields
      <3>2. ref = i
        BY <2>1
      <3> HIDE DEF i, ref
      <3> QED
        BY <1>1, <2>1, <3>1, <3>2
    <2>2. CASE k \notin Oids
      BY <1>1, <2>2
    <2> QED
      BY <2>1, <2>2
  <1> HIDE DEF w, ref
  <1>4. /\ DOMAIN w.objs = DOMAIN view.objs \cup {k} /\ w.objs[k] = o /\ w.status[k] = "FINAL"
        /\ \A x \in DOMAIN view.objs : w.objs[x] = view.objs[x] /\ w.status[x] = view.status[x]
    BY <1>1, <1>2
  <1>5. IsAsicView(w)
    <2>1. w.objs \in [DOMAIN w.objs -> Objects] /\ w.status \in [DOMAIN w.objs -> Statuses]
      BY <1>1, <1>2 DEF IsAsicView, Statuses
    <2>2. DOMAIN w.m_vidReference \subseteq Oids /\ w.m_vidReference \in [DOMAIN w.m_vidReference -> Int]
      <3>1. \A v \in DOMAIN ref : ref[v] + Links(k, o)[v] \in Int
        BY <1>3, LinksAre
      <3> QED
        BY <1>2, <1>3, <3>1
    <2>3. IsFiniteSet(DOMAIN w.objs) /\ DOMAIN w.objs \subseteq Keys
      BY <1>1, <1>4, FS_AddElement DEF IsAsicView
    <2> QED
      BY <1>2, <2>1, <2>2, <2>3 DEF IsAsicView
  <1>6. ASSUME NEW v \in Oids
        PROVE  Count(w.objs, v) = Count(view.objs, v) + Links(k, o)[v]
    <2> DEFINE a == view.objs
               b == w.objs
    <2>1. /\ IsFiniteSet(DOMAIN a) /\ k \notin DOMAIN a /\ DOMAIN b = DOMAIN a \cup {k} /\ b[k] = o
          /\ \A x \in DOMAIN a : b[x] = a[x]
      BY <1>1, <1>4
    <2> HIDE DEF a, b
    <2>2. Count(b, v) = Count(a, v) + Links(k, o)[v]
      BY <2>1, CountMore
    <2> QED
      BY <2>2 DEF a, b
  <1>7. Counted(w)
    <2> SUFFICES ASSUME NEW v \in Oids, v \in DOMAIN view.objs \cup {k}
                 PROVE  v \in DOMAIN w.m_vidReference /\ w.m_vidReference[v] = Count(w.objs, v)
      BY <1>4 DEF Counted
    <2>1. v \in DOMAIN ref /\ ref[v] = Count(view.objs, v)
      <3>1. CASE v \in DOMAIN view.objs
        BY <1>3, <3>1 DEF ViewInv, Counted
      <3>2. CASE v = k
        <4>1. \A x \in DOMAIN view.objs : v \notin RefsOf(x, view.objs[x])
          BY <3>2 DEF ViewInv, Closed
        <4>2. Count(view.objs, v) = 0
          BY <1>1, <4>1, ZeroIsUnused DEF IsAsicView
        <4> QED
          BY <1>3, <3>2, <4>2
      <3> QED
        BY <3>1, <3>2
    <2> QED
      BY <1>2, <1>6, <2>1
  <1>8. Closed(w.objs)
    BY <1>4 DEF ViewInv, Closed
  <1>9. NoGroupLinks(w.objs)
    BY <1>4 DEF ViewInv, NoGroupLinks
  <1> QED
    BY <1>4, <1>5, <1>7, <1>8, <1>9 DEF ViewInv, w

\* Removing an entry, or an object whose count is zero.
LEMMA RemoveKeeps ==
    ASSUME NEW view, ViewInv(view), NEW k \in DOMAIN view.objs,
           k \in Oids => view.m_vidReference[k] = 0
    PROVE  LET w == AsicRemoveObject(view, k)
           IN  /\ ViewInv(w) /\ DOMAIN w.objs = DOMAIN view.objs \ {k}
               /\ \A x \in DOMAIN view.objs \ {k} : w.objs[x] = view.objs[x] /\ w.status[x] = view.status[x]
  <1> DEFINE w == AsicRemoveObject(view, k)
             o == view.objs[k]
             cnt == view.m_vidReference
             ref == IF k \in Oids THEN [cnt EXCEPT ![k] = @ - 1] ELSE cnt
  <1>0. HasFields(view)
    BY DEF ViewInv, IsAsicView
  <1>1. /\ IsAsicView(view) /\ HasFields(view) /\ cnt \in [DOMAIN cnt -> Int] /\ DOMAIN cnt \subseteq Oids
        /\ IsFiniteSet(DOMAIN view.objs) /\ view.status \in [DOMAIN view.objs -> Statuses]
        /\ DOMAIN view.objs \subseteq Keys
    BY DEF ViewInv, IsAsicView
  <1>2. /\ HasFields(w)
        /\ w.objs = [x \in DOMAIN view.objs \ {k} |-> view.objs[x]]
        /\ w.status = [x \in DOMAIN view.status \ {k} |-> view.status[x]]
        /\ w.m_vidReference = [v \in DOMAIN ref |-> ref[v] - Links(k, o)[v]]
    BY <1>0, RemoveFields
  <1>3. /\ DOMAIN ref = DOMAIN cnt /\ ref \in [DOMAIN ref -> Int]
        /\ \A v \in DOMAIN cnt \ {k} : ref[v] = cnt[v]
    <2>1. CASE k \in Oids
      <3>1. k \in DOMAIN cnt
        BY <2>1 DEF ViewInv, Counted
      <3>2. ref = [cnt EXCEPT ![k] = cnt[k] - 1]
        BY <2>1
      <3> HIDE DEF ref
      <3> QED
        BY <1>1, <3>1, <3>2
    <2>2. CASE k \notin Oids
      BY <1>1, <2>2
    <2> QED
      BY <2>1, <2>2
  <1> HIDE DEF w, ref
  <1>4. /\ DOMAIN w.objs = DOMAIN view.objs \ {k}
        /\ \A x \in DOMAIN view.objs \ {k} : w.objs[x] = view.objs[x] /\ w.status[x] = view.status[x]
    BY <1>1, <1>2
  <1>5. IsAsicView(w)
    <2>1. w.objs \in [DOMAIN w.objs -> Objects] /\ w.status \in [DOMAIN w.objs -> Statuses]
      BY <1>1, <1>2 DEF IsAsicView
    <2>2. DOMAIN w.m_vidReference \subseteq Oids /\ w.m_vidReference \in [DOMAIN w.m_vidReference -> Int]
      <3>1. \A v \in DOMAIN ref : ref[v] - Links(k, o)[v] \in Int
        BY <1>1, <1>3, LinksAre
      <3> QED
        BY <1>1, <1>2, <1>3, <3>1
    <2>3. IsFiniteSet(DOMAIN w.objs) /\ DOMAIN w.objs \subseteq Keys
      BY <1>1, <1>4, FS_Subset DEF IsAsicView
    <2> QED
      BY <1>2, <2>1, <2>2, <2>3 DEF IsAsicView
  <1>6. ASSUME NEW v \in Oids
        PROVE  Count(view.objs, v) = Count(w.objs, v) + Links(k, o)[v]
    <2> DEFINE a == w.objs
               b == view.objs
               p == o
    <2>1. /\ IsFiniteSet(DOMAIN a) /\ k \notin DOMAIN a /\ DOMAIN b = DOMAIN a \cup {k} /\ b[k] = p
          /\ \A x \in DOMAIN a : b[x] = a[x]
      BY <1>4, <1>5 DEF IsAsicView
    <2> HIDE DEF a, b, p
    <2>2. Count(b, v) = Count(a, v) + Links(k, p)[v]
      BY <2>1, CountMore
    <2> QED
      BY <2>2 DEF a, b, p
  <1>7. Counted(w)
    <2> SUFFICES ASSUME NEW v \in Oids, v \in DOMAIN view.objs \ {k}
                 PROVE  v \in DOMAIN w.m_vidReference /\ w.m_vidReference[v] = Count(w.objs, v)
      BY <1>4 DEF Counted
    <2>1. v \in DOMAIN ref /\ ref[v] = Count(view.objs, v)
      BY <1>3 DEF ViewInv, Counted
    <2>2. Count(w.objs, v) \in Nat /\ Links(k, o)[v] \in Int
      BY <1>5, PartsAreNat, LinksAre DEF IsAsicView
    <2>3. Count(view.objs, v) = Count(w.objs, v) + Links(k, o)[v]
      BY <1>6
    <2>4. w.m_vidReference[v] = ref[v] - Links(k, o)[v] /\ v \in DOMAIN w.m_vidReference
      BY <1>2, <2>1
    <2> QED
      BY <2>1, <2>2, <2>3, <2>4
  <1>8. Closed(w.objs)
    <2> SUFFICES ASSUME NEW x \in DOMAIN view.objs \ {k}, NEW v \in RefsOf(x, view.objs[x]), v = k
                 PROVE  FALSE
      BY <1>4 DEF Closed, ViewInv
    <2>1. v \in Oids
      BY RefsAre
    <2>2. Count(view.objs, v) = 0
      BY <2>1 DEF ViewInv, Counted
    <2> QED
      BY <1>1, <2>1, <2>2, ZeroIsUnused
  <1>9. NoGroupLinks(w.objs)
    BY <1>4 DEF ViewInv, NoGroupLinks
  <1> QED
    BY <1>4, <1>5, <1>7, <1>8, <1>9 DEF ViewInv, w

\* Setting statuses.
LEMMA StatusKeeps ==
    ASSUME NEW view, ViewInv(view), NEW status \in [DOMAIN view.objs -> Statuses]
    PROVE  LET w == [view EXCEPT !.status = status]
           IN  ViewInv(w) /\ w.objs = view.objs /\ w.status = status
  <1> DEFINE w == [view EXCEPT !.status = status]
  <1>0. w = [view EXCEPT !.status = status]
    OBVIOUS
  <1> HIDE DEF w
  <1>1. /\ HasFields(w) /\ w.objs = view.objs /\ w.status = status /\ w.m_vidReference = view.m_vidReference
    BY <1>0 DEF ViewInv, IsAsicView, HasFields
  <1>2. IsAsicView(w) /\ Counted(w)
    BY <1>1 DEF ViewInv, IsAsicView, Counted
  <1> QED
    BY <1>1, <1>2 DEF ViewInv, w

----------------------------------------------------------------------------
(* One more operation *)

\* What a set of operations with one more creates, changes and removes.
LEMMA OneMoreOp ==
    ASSUME NEW O, NEW a, NEW k
    PROVE  /\ Created(O \cup {a}, k) <=> Created(O, k) \/ (a.op = "create" /\ a.key = k)
           /\ Changed(O \cup {a}, k) <=> Changed(O, k) \/ (a.op = "set" /\ a.key = k)
           /\ Removed(O \cup {a}, k) <=> Removed(O, k) \/ (a.op = "remove" /\ a.key = k)
  BY DEF Created, Changed, Removed

\* An id that is in the view has not been removed.
LEMMA NotRemoved ==
    ASSUME NEW start, NEW O, NEW objs, OnePerKey(O), Applied(start, O, objs),
           NEW w \in Oids, w \in DOMAIN objs
    PROVE  ~Removed(O, w) /\ (w \in DOMAIN start \/ Created(O, w))
  <1>1. w \in Keys
    BY DEF Keys
  <1>2. Created(O, w) \/ (w \in DOMAIN start /\ ~Removed(O, w))
    BY <1>1 DEF Applied
  <1>3. ~(Created(O, w) /\ Removed(O, w))
    BY DEF Created, Removed, OnePerKey
  <1> QED
    BY <1>2, <1>3

\* An object without operation is what it was at the start.
LEMMA Untouched ==
    ASSUME NEW start, NEW O, NEW objs, Applied(start, O, objs), NEW k \in DOMAIN objs, k \in Keys,
           \A a \in O : a.key # k
    PROVE  k \in DOMAIN start /\ objs[k] = start[k]
  BY DEF Applied, Created, Changed, Removed

\* The next operation gets the next number.
LEMMA NumberedMore ==
    ASSUME NEW O, NEW n, Numbered(O, n), NEW a \in Operation, a.opId = n + 1
    PROVE  /\ Numbered(O \cup {a}, n + 1)
           /\ \A b \in O : b.opId < a.opId /\ b.opId <= n /\ b # a
  BY DEF Numbered, Operation

\* They are operations, and what is set or removed is there at the start.
Possible(start, O) == \A a \in O : a \in Operation /\ (a.op # "create" => a.key \in DOMAIN start)

\* What is created or set is in the result.
LEMMA StillThere ==
    ASSUME NEW start, NEW O, NEW objs, Possible(start, O), OnePerKey(O), Applied(start, O, objs),
           NEW b \in O, b.op # "remove"
    PROVE  b.key \in DOMAIN objs
  <1>1. b.key \in Keys /\ b.op \in {"create", "set", "remove"}
    BY DEF Possible, Operation
  <1>2. CASE b.op = "create"
    BY <1>1, <1>2 DEF Applied, Created
  <1>3. CASE b.op = "set"
    <2>1. ~Removed(O, b.key)
      BY <1>3 DEF Removed, OnePerKey
    <2> QED
      BY <1>1, <1>3, <2>1 DEF Applied, Possible
  <1> QED
    BY <1>1, <1>2, <1>3

\* The result after one more set, ...
LEMMA SetApplied ==
    ASSUME NEW start, NEW O, NEW objs, Possible(start, O), OnePerKey(O), Applied(start, O, objs),
           NEW k \in DOMAIN objs, k \in Keys, \A b \in O : b.key # k,
           NEW r, NEW objs2, DOMAIN objs2 = DOMAIN objs, objs2[k] = [objs[k] EXCEPT !.ref = r],
           \A x \in DOMAIN objs \ {k} : objs2[x] = objs[x],
           NEW a, a.op = "set", a.key = k, a.obj.ref = r
    PROVE  Applied(start, O \cup {a}, objs2)
  <1> DEFINE O2 == O \cup {a}
  <1>1. k \in DOMAIN start /\ objs[k] = start[k]
    BY Untouched
  <1>2. \A x : /\ Created(O2, x) <=> Created(O, x)
               /\ Removed(O2, x) <=> Removed(O, x)
               /\ Changed(O2, x) <=> Changed(O, x) \/ x = k
    <2> TAKE x
    <2>1. /\ Created(O2, x) <=> Created(O, x) \/ (a.op = "create" /\ a.key = x)
          /\ Changed(O2, x) <=> Changed(O, x) \/ (a.op = "set" /\ a.key = x)
          /\ Removed(O2, x) <=> Removed(O, x) \/ (a.op = "remove" /\ a.key = x)
      BY OneMoreOp
    <2> QED
      BY <2>1
  <1>3. \A b \in O : b.op # "remove" => b.key \in DOMAIN objs \ {k}
    BY StillThere
  <1>4. \A x \in Keys : x \in DOMAIN objs2 <=> Created(O2, x) \/ (x \in DOMAIN start /\ ~Removed(O2, x))
    BY <1>2 DEF Applied
  <1>5. \A b \in O2 : b.op = "create" => objs2[b.key] = b.obj
    BY <1>3 DEF Applied
  <1>6. \A b \in O2 : b.op = "set" => objs2[b.key] = [start[b.key] EXCEPT !.ref = b.obj.ref]
    BY <1>1, <1>3 DEF Applied
  <1>7. \A x \in DOMAIN objs2 : Created(O2, x) \/ Changed(O2, x) \/ objs2[x] = start[x]
    BY <1>2 DEF Applied
  <1> QED
    BY <1>4, <1>5, <1>6, <1>7 DEF Applied

\* ... one more create, ...
LEMMA CreateApplied ==
    ASSUME NEW start, NEW O, NEW objs, Possible(start, O), OnePerKey(O), Applied(start, O, objs),
           NEW k, k \notin DOMAIN objs,
           NEW o, NEW objs2, DOMAIN objs2 = DOMAIN objs \cup {k}, objs2[k] = o,
           \A x \in DOMAIN objs : objs2[x] = objs[x],
           NEW a, a.op = "create", a.key = k, a.obj = o
    PROVE  Applied(start, O \cup {a}, objs2)
  <1> DEFINE O2 == O \cup {a}
  <1>2. \A x : /\ Created(O2, x) <=> Created(O, x) \/ x = k
               /\ Removed(O2, x) <=> Removed(O, x)
               /\ Changed(O2, x) <=> Changed(O, x)
    <2> TAKE x
    <2>1. /\ Created(O2, x) <=> Created(O, x) \/ (a.op = "create" /\ a.key = x)
          /\ Changed(O2, x) <=> Changed(O, x) \/ (a.op = "set" /\ a.key = x)
          /\ Removed(O2, x) <=> Removed(O, x) \/ (a.op = "remove" /\ a.key = x)
      BY OneMoreOp
    <2> QED
      BY <2>1
  <1>3. \A b \in O : b.op # "remove" => b.key \in DOMAIN objs
    BY StillThere
  <1>4. \A x \in Keys : x \in DOMAIN objs2 <=> Created(O2, x) \/ (x \in DOMAIN start /\ ~Removed(O2, x))
    BY <1>2 DEF Applied
  <1>5. \A b \in O2 : b.op = "create" => objs2[b.key] = b.obj
    BY <1>3 DEF Applied
  <1>6. \A b \in O2 : b.op = "set" => objs2[b.key] = [start[b.key] EXCEPT !.ref = b.obj.ref]
    BY <1>3 DEF Applied
  <1>7. \A x \in DOMAIN objs2 : Created(O2, x) \/ Changed(O2, x) \/ objs2[x] = start[x]
    BY <1>2 DEF Applied
  <1> QED
    BY <1>4, <1>5, <1>6, <1>7 DEF Applied

\* ... and one more remove.
LEMMA RemoveApplied ==
    ASSUME NEW start, NEW O, NEW objs, Possible(start, O), OnePerKey(O), Applied(start, O, objs),
           NEW k \in DOMAIN objs, k \in Keys, \A b \in O : b.key # k,
           NEW objs2, DOMAIN objs2 = DOMAIN objs \ {k}, \A x \in DOMAIN objs2 : objs2[x] = objs[x],
           NEW a, a.op = "remove", a.key = k
    PROVE  Applied(start, O \cup {a}, objs2)
  <1> DEFINE O2 == O \cup {a}
  <1>2. \A x : /\ Created(O2, x) <=> Created(O, x)
               /\ Removed(O2, x) <=> Removed(O, x) \/ x = k
               /\ Changed(O2, x) <=> Changed(O, x)
    <2> TAKE x
    <2>1. /\ Created(O2, x) <=> Created(O, x) \/ (a.op = "create" /\ a.key = x)
          /\ Changed(O2, x) <=> Changed(O, x) \/ (a.op = "set" /\ a.key = x)
          /\ Removed(O2, x) <=> Removed(O, x) \/ (a.op = "remove" /\ a.key = x)
      BY OneMoreOp
    <2> QED
      BY <2>1
  <1>3. \A b \in O : b.op # "remove" => b.key \in DOMAIN objs2
    BY StillThere
  <1>4. \A x \in Keys : x \in DOMAIN objs2 <=> Created(O2, x) \/ (x \in DOMAIN start /\ ~Removed(O2, x))
    <2>1. ~Created(O, k)
      BY DEF Created
    <2> QED
      BY <1>2, <2>1 DEF Applied
  <1>5. \A b \in O2 : b.op = "create" => objs2[b.key] = b.obj
    BY <1>3 DEF Applied
  <1>6. \A b \in O2 : b.op = "set" => objs2[b.key] = [start[b.key] EXCEPT !.ref = b.obj.ref]
    BY <1>3 DEF Applied
  <1>7. \A x \in DOMAIN objs2 : Created(O2, x) \/ Changed(O2, x) \/ objs2[x] = start[x]
    BY <1>2 DEF Applied
  <1> QED
    BY <1>4, <1>5, <1>6, <1>7 DEF Applied

\* Freed ids are noted with the number of the new operation.
Noted(last, freed, n, last2) ==
    /\ DOMAIN last2 = DOMAIN last \cup freed
    /\ \A v \in DOMAIN last2 : last2[v] = IF v \in freed THEN n + 1 ELSE last[v]

\* A set keeps what is known of the operations.
LEMMA SetOps ==
    ASSUME NEW start, NEW O, NEW objs, NEW last, NEW n, OpsInv(start, O, objs, last, n),
           DOMAIN objs \subseteq Keys, objs \in [DOMAIN objs -> Objects],
           NEW k \in DOMAIN objs, \A b \in O : b.key # k,
           NEW r \in Groups \cup {NullId}, RefsOf(k, OnlyRef(r)) \subseteq DOMAIN objs,
           NEW objs2, DOMAIN objs2 = DOMAIN objs, objs2[k] = [objs[k] EXCEPT !.ref = r],
           \A x \in DOMAIN objs \ {k} : objs2[x] = objs[x],
           NEW a \in Operation, a.opId = n + 1, a.op = "set", a.key = k, a.obj = OnlyRef(r),
           NEW freed \in SUBSET (Oids \cap DOMAIN objs), NEW last2, Noted(last, freed, n, last2),
           \A v \in RefsOf(k, objs[k]) :
               (\A y \in DOMAIN objs2 : v \notin RefsOf(y, objs2[y])) => v \in freed
    PROVE  OpsInv(start, O \cup {a}, objs2, last2, n + 1)
  <1> DEFINE O2 == O \cup {a}
  <1>1. Numbered(O, n) /\ OnePerKey(O) /\ Applied(start, O, objs) /\ Needs(start, O) /\ LastInv(start, O, objs, last)
    BY DEF OpsInv
  <1>2. Numbered(O2, n + 1) /\ \A b \in O : b.opId < a.opId /\ b.opId <= n /\ b # a
    BY <1>1, NumberedMore
  <1>3. OnePerKey(O2)
    BY <1>1 DEF OnePerKey
  <1>4. k \in Keys /\ k \in DOMAIN start /\ objs[k] = start[k]
    BY <1>1, Untouched
  <1>5. \A x : /\ Created(O2, x) <=> Created(O, x)
               /\ Removed(O2, x) <=> Removed(O, x)
               /\ Changed(O2, x) <=> Changed(O, x) \/ x = k
    <2> TAKE x
    <2>1. /\ Created(O2, x) <=> Created(O, x) \/ (a.op = "create" /\ a.key = x)
          /\ Changed(O2, x) <=> Changed(O, x) \/ (a.op = "set" /\ a.key = x)
          /\ Removed(O2, x) <=> Removed(O, x) \/ (a.op = "remove" /\ a.key = x)
      BY OneMoreOp
    <2> QED
      BY <2>1
  <1>6. Applied(start, O2, objs2)
    <2>1. Possible(start, O)
      BY <1>1 DEF Possible, Needs, Numbered
    <2> QED
      BY <1>1, <2>1, SetApplied DEF OnlyRef
  <1>7. Needs(start, O2)
    <2> SUFFICES ASSUME NEW b \in O2
                 PROVE  /\ b.op # "remove" =>
                             \A w \in RefsOf(b.key, b.obj) :
                                /\ ~Removed(O2, w)
                                /\ w \in DOMAIN start \/ \E d \in O2 : d.op = "create" /\ d.key = w /\ d.opId < b.opId
                        /\ b.op # "create" => b.key \in DOMAIN start
                        /\ b.op = "create" /\ b.key \in DOMAIN start =>
                             \E d \in O2 : d.op = "remove" /\ d.key = b.key /\ d.opId < b.opId
      BY DEF Needs
    <2>1. CASE b \in O
      BY <1>1, <1>5, <2>1 DEF Needs
    <2>2. CASE b = a
      <3>1. ASSUME NEW w \in RefsOf(k, OnlyRef(r))
            PROVE  ~Removed(O, w) /\ (w \in DOMAIN start \/ \E d \in O : d.op = "create" /\ d.key = w /\ d.opId < a.opId)
        <4>1. w \in Oids /\ w \in DOMAIN objs
          BY DEF RefsOf
        <4> QED
          BY <1>1, <1>2, <4>1, NotRemoved DEF Created
      <3> QED
        BY <1>4, <1>5, <2>2, <3>1
    <2> QED
      BY <2>1, <2>2
  <1>8. LastInv(start, O2, objs2, last2)
    <2>1. ASSUME NEW v \in DOMAIN last2 PROVE v \in Oids /\ \E b \in O2 : b.opId = last2[v]
      BY <1>1 DEF LastInv, Noted
    <2>2. ASSUME NEW b \in O2, b.op = "remove", b.key \in DOMAIN last2 PROVE last2[b.key] < b.opId
      <3>1. b \in O
        BY <2>2
      <3>2. b.key \notin freed
        BY <1>1, <2>2, <3>1, NotRemoved DEF Removed
      <3> QED
        BY <1>1, <2>2, <3>1, <3>2 DEF LastInv, Noted
    <2>3. ASSUME NEW v \in Oids, \A y \in DOMAIN objs2 : v \notin RefsOf(y, objs2[y]),
                 NEW x \in DOMAIN start, NEW b \in O2, v \in RefsOf(x, start[x]), Breaks(start, b, x, v)
          PROVE  v \in DOMAIN last2 /\ b.opId <= last2[v]
      <3>1. b.opId \in Nat /\ b.opId <= n + 1 /\ n \in Nat
        <4>1. n \in Nat
          BY <1>1 DEF Numbered
        <4>2. b \in Operation /\ b.opId \in 1 .. n + 1
          BY <1>2 DEF Numbered
        <4> QED
          BY <4>1, <4>2
      <3>2. CASE v \in RefsOf(k, objs[k])
        <4>1. v \in freed
          BY <2>3, <3>2
        <4> QED
          BY <3>1, <4>1 DEF Noted
      <3>3. CASE v \notin RefsOf(k, objs[k])
        <4>1. b \in O
          BY <1>4, <2>3, <3>3 DEF Breaks
        <4>2. \A y \in DOMAIN objs : v \notin RefsOf(y, objs[y])
          BY <2>3, <3>3
        <4>3. v \in DOMAIN last /\ b.opId <= last[v]
          BY <1>1, <2>3, <4>1, <4>2 DEF LastInv
        <4>4. v \in DOMAIN last2 /\ last2[v] \in {last[v], n + 1}
          BY <4>3 DEF Noted
        <4> QED
          BY <3>1, <4>3, <4>4
      <3> QED
        BY <3>2, <3>3
    <2> HIDE DEF O2
    <2> QED
      BY <2>1, <2>2, <2>3 DEF LastInv
  <1> QED
    BY <1>2, <1>3, <1>6, <1>7, <1>8 DEF OpsInv

\* So does a create.
LEMMA CreateOps ==
    ASSUME NEW start, NEW O, NEW objs, NEW last, NEW n, OpsInv(start, O, objs, last, n),
           NEW k \in Keys, k \notin DOMAIN objs,
           \A b \in O : b.key = k => b.op = "remove" /\ k \notin Oids,
           k \in Oids => k \notin DOMAIN start,
           NEW o \in Objects, RefsOf(k, o) \subseteq DOMAIN objs,
           NEW objs2, DOMAIN objs2 = DOMAIN objs \cup {k}, objs2[k] = o,
           \A x \in DOMAIN objs : objs2[x] = objs[x],
           NEW a \in Operation, a.opId = n + 1, a.op = "create", a.key = k, a.obj = o
    PROVE  OpsInv(start, O \cup {a}, objs2, last, n + 1)
  <1> DEFINE O2 == O \cup {a}
  <1>1. Numbered(O, n) /\ OnePerKey(O) /\ Applied(start, O, objs) /\ Needs(start, O) /\ LastInv(start, O, objs, last)
    BY DEF OpsInv
  <1>2. Numbered(O2, n + 1) /\ \A b \in O : b.opId < a.opId /\ b.opId <= n /\ b # a
    BY <1>1, NumberedMore
  <1>3. OnePerKey(O2)
    BY <1>1 DEF OnePerKey
  <1>5. \A x : /\ Created(O2, x) <=> Created(O, x) \/ x = k
               /\ Removed(O2, x) <=> Removed(O, x)
               /\ Changed(O2, x) <=> Changed(O, x)
    <2> TAKE x
    <2>1. /\ Created(O2, x) <=> Created(O, x) \/ (a.op = "create" /\ a.key = x)
          /\ Changed(O2, x) <=> Changed(O, x) \/ (a.op = "set" /\ a.key = x)
          /\ Removed(O2, x) <=> Removed(O, x) \/ (a.op = "remove" /\ a.key = x)
      BY OneMoreOp
    <2> QED
      BY <2>1
  <1>6. Applied(start, O2, objs2)
    <2>1. Possible(start, O)
      BY <1>1 DEF Possible, Needs, Numbered
    <2> QED
      BY <1>1, <2>1, CreateApplied
  <1>7. Needs(start, O2)
    <2> SUFFICES ASSUME NEW b \in O2
                 PROVE  /\ b.op # "remove" =>
                             \A w \in RefsOf(b.key, b.obj) :
                                /\ ~Removed(O2, w)
                                /\ w \in DOMAIN start \/ \E d \in O2 : d.op = "create" /\ d.key = w /\ d.opId < b.opId
                        /\ b.op # "create" => b.key \in DOMAIN start
                        /\ b.op = "create" /\ b.key \in DOMAIN start =>
                             \E d \in O2 : d.op = "remove" /\ d.key = b.key /\ d.opId < b.opId
      BY DEF Needs
    <2>1. CASE b \in O
      BY <1>1, <1>5, <2>1 DEF Needs
    <2>2. CASE b = a
      <3>1. ASSUME NEW w \in RefsOf(k, o)
            PROVE  ~Removed(O, w) /\ (w \in DOMAIN start \/ \E d \in O : d.op = "create" /\ d.key = w /\ d.opId < a.opId)
        <4>1. w \in Oids /\ w \in DOMAIN objs
          BY DEF RefsOf
        <4> QED
          BY <1>1, <1>2, <4>1, NotRemoved DEF Created
      <3>2. ASSUME k \in DOMAIN start PROVE \E d \in O : d.op = "remove" /\ d.key = k /\ d.opId < a.opId
        <4>1. Removed(O, k)
          BY <1>1, <3>2 DEF Applied
        <4> QED
          BY <1>2, <4>1 DEF Removed
      <3> QED
        BY <1>5, <2>2, <3>1, <3>2
    <2> QED
      BY <2>1, <2>2
  <1>8. LastInv(start, O2, objs2, last)
    <2>1. ASSUME NEW v \in DOMAIN last PROVE v \in Oids /\ \E b \in O2 : b.opId = last[v]
      BY <1>1 DEF LastInv
    <2>2. ASSUME NEW b \in O2, b.op = "remove", b.key \in DOMAIN last PROVE last[b.key] < b.opId
      BY <1>1, <2>2 DEF LastInv
    <2>3. ASSUME NEW v \in Oids, \A y \in DOMAIN objs2 : v \notin RefsOf(y, objs2[y]),
                 NEW x \in DOMAIN start, NEW b \in O2, v \in RefsOf(x, start[x]), Breaks(start, b, x, v)
          PROVE  v \in DOMAIN last /\ b.opId <= last[v]
      <3>1. b \in O
        BY <2>3 DEF Breaks
      <3>2. \A y \in DOMAIN objs : v \notin RefsOf(y, objs[y])
        BY <2>3
      <3> QED
        BY <1>1, <2>3, <3>1, <3>2 DEF LastInv
    <2> HIDE DEF O2
    <2> QED
      BY <2>1, <2>2, <2>3 DEF LastInv
  <1> QED
    BY <1>2, <1>3, <1>6, <1>7, <1>8 DEF OpsInv

\* So does the remove of what nothing refers to.
LEMMA RemoveOps ==
    ASSUME NEW start, NEW O, NEW objs, NEW last, NEW n, OpsInv(start, O, objs, last, n),
           DOMAIN objs \subseteq Keys, NEW k \in DOMAIN objs, \A b \in O : b.key # k,
           \A b \in O : b.op # "remove" => k \notin RefsOf(b.key, b.obj),
           NEW objs2, DOMAIN objs2 = DOMAIN objs \ {k}, \A x \in DOMAIN objs2 : objs2[x] = objs[x],
           NEW a \in Operation, a.opId = n + 1, a.op = "remove", a.key = k,
           NEW freed \in SUBSET (Oids \cap DOMAIN objs2), NEW last2, Noted(last, freed, n, last2),
           \A v \in RefsOf(k, objs[k]) :
               (\A y \in DOMAIN objs2 : v \notin RefsOf(y, objs2[y])) => v \in freed
    PROVE  OpsInv(start, O \cup {a}, objs2, last2, n + 1)
  <1> DEFINE O2 == O \cup {a}
  <1>1. Numbered(O, n) /\ OnePerKey(O) /\ Applied(start, O, objs) /\ Needs(start, O) /\ LastInv(start, O, objs, last)
    BY DEF OpsInv
  <1>2. Numbered(O2, n + 1) /\ \A b \in O : b.opId < a.opId /\ b.opId <= n /\ b # a
    BY <1>1, NumberedMore
  <1>3. OnePerKey(O2)
    BY <1>1 DEF OnePerKey
  <1>4. k \in Keys /\ k \in DOMAIN start /\ objs[k] = start[k]
    BY <1>1, Untouched
  <1>5. \A x : /\ Created(O2, x) <=> Created(O, x)
               /\ Removed(O2, x) <=> Removed(O, x) \/ x = k
               /\ Changed(O2, x) <=> Changed(O, x)
    <2> TAKE x
    <2>1. /\ Created(O2, x) <=> Created(O, x) \/ (a.op = "create" /\ a.key = x)
          /\ Changed(O2, x) <=> Changed(O, x) \/ (a.op = "set" /\ a.key = x)
          /\ Removed(O2, x) <=> Removed(O, x) \/ (a.op = "remove" /\ a.key = x)
      BY OneMoreOp
    <2> QED
      BY <2>1
  <1>6. Applied(start, O2, objs2)
    <2>1. Possible(start, O)
      BY <1>1 DEF Possible, Needs, Numbered
    <2> QED
      BY <1>1, <2>1, RemoveApplied
  <1>7. Needs(start, O2)
    <2> SUFFICES ASSUME NEW b \in O2
                 PROVE  /\ b.op # "remove" =>
                             \A w \in RefsOf(b.key, b.obj) :
                                /\ ~Removed(O2, w)
                                /\ w \in DOMAIN start \/ \E d \in O2 : d.op = "create" /\ d.key = w /\ d.opId < b.opId
                        /\ b.op # "create" => b.key \in DOMAIN start
                        /\ b.op = "create" /\ b.key \in DOMAIN start =>
                             \E d \in O2 : d.op = "remove" /\ d.key = b.key /\ d.opId < b.opId
      BY DEF Needs
    <2>1. CASE b \in O
      <3>1. \A w \in RefsOf(b.key, b.obj) : b.op # "remove" => w # k
        BY <2>1
      <3> QED
        BY <1>1, <1>5, <2>1, <3>1 DEF Needs
    <2>2. CASE b = a
      BY <1>4, <2>2
    <2> QED
      BY <2>1, <2>2
  <1>8. LastInv(start, O2, objs2, last2)
    <2>1. ASSUME NEW v \in DOMAIN last2 PROVE v \in Oids /\ \E b \in O2 : b.opId = last2[v]
      BY <1>1 DEF LastInv, Noted
    <2>2. ASSUME NEW b \in O2, b.op = "remove", b.key \in DOMAIN last2 PROVE last2[b.key] < b.opId
      <3>1. CASE b \in O
        <4>1. b.key \notin freed
          BY <1>1, <2>2, <3>1, NotRemoved DEF Removed
        <4> QED
          BY <1>1, <2>2, <3>1, <4>1 DEF LastInv, Noted
      <3>2. CASE b = a
        <4>1. k \notin freed /\ k \in DOMAIN last /\ last2[k] = last[k]
          BY <2>2, <3>2 DEF Noted
        <4>2. PICK d \in O : d.opId = last[k]
          BY <1>1, <4>1 DEF LastInv
        <4> QED
          BY <1>2, <3>2, <4>1, <4>2
      <3> QED
        BY <3>1, <3>2
    <2>3. ASSUME NEW v \in Oids, \A y \in DOMAIN objs2 : v \notin RefsOf(y, objs2[y]),
                 NEW x \in DOMAIN start, NEW b \in O2, v \in RefsOf(x, start[x]), Breaks(start, b, x, v)
          PROVE  v \in DOMAIN last2 /\ b.opId <= last2[v]
      <3>1. b.opId \in Nat /\ b.opId <= n + 1 /\ n \in Nat
        <4>1. n \in Nat
          BY <1>1 DEF Numbered
        <4>2. b \in Operation /\ b.opId \in 1 .. n + 1
          BY <1>2 DEF Numbered
        <4> QED
          BY <4>1, <4>2
      <3>2. CASE v \in RefsOf(k, objs[k])
        <4>1. v \in freed
          BY <2>3, <3>2
        <4> QED
          BY <3>1, <4>1 DEF Noted
      <3>3. CASE v \notin RefsOf(k, objs[k])
        <4>1. b \in O
          BY <1>4, <2>3, <3>3 DEF Breaks
        <4>2. \A y \in DOMAIN objs : v \notin RefsOf(y, objs[y])
          BY <2>3, <3>3
        <4>3. v \in DOMAIN last /\ b.opId <= last[v]
          BY <1>1, <2>3, <4>1, <4>2 DEF LastInv
        <4>4. v \in DOMAIN last2 /\ last2[v] \in {last[v], n + 1}
          BY <4>3 DEF Noted
        <4> QED
          BY <3>1, <4>3, <4>4
      <3> QED
        BY <3>2, <3>3
    <2> HIDE DEF O2
    <2> QED
      BY <2>1, <2>2, <2>3 DEF LastInv
  <1> QED
    BY <1>2, <1>3, <1>6, <1>7, <1>8 DEF OpsInv

----------------------------------------------------------------------------
(* What the operations of AsicView issue *)

\* a new operation of view
NewOp(view, op, k, o) == [opId |-> view.m_asicOperationId + 1, op |-> op, key |-> k, obj |-> o]

\* The ids to which the links are the last ones are noted with the operation.
LastOf(view, cnt, links) ==
    Override(view.m_vidToAsicOperationId,
             [v \in {u \in DOMAIN cnt : links[u] > 0 /\ cnt[u] - links[u] = 0} |-> view.m_asicOperationId + 1])

\* What releasing does to the members that are about operations.
LEMMA ReleaseIssues ==
    ASSUME NEW view, HasFields(view), NEW links
    PROVE  LET w == ReleaseExistingLinks(view, links)
               cnt == view.m_vidReference
           IN  /\ w.m_asicOperations = view.m_asicOperations
               /\ w.m_asicRemoveOperationsNonObjectId = view.m_asicRemoveOperationsNonObjectId
               /\ w.m_asicOperationId = view.m_asicOperationId
               /\ w.m_vidToAsicOperationId =
                    Override(view.m_vidToAsicOperationId,
                             [v \in {u \in DOMAIN cnt : links[u] > 0 /\ cnt[u] - links[u] = 0} |-> view.m_asicOperationId])
  <1> DEFINE cnt == view.m_vidReference
             counts == [v \in DOMAIN view.m_vidReference |-> view.m_vidReference[v] - links[v]]
             freed == {v \in DOMAIN counts : links[v] > 0 /\ counts[v] = 0}
             freed2 == {u \in DOMAIN cnt : links[u] > 0 /\ cnt[u] - links[u] = 0}
             ids == Override(view.m_vidToAsicOperationId, [v \in freed |-> view.m_asicOperationId])
  <1>1. ReleaseExistingLinks(view, links)
          = [view EXCEPT !.m_vidReference = counts, !.m_vidToAsicOperationId = ids]
    BY DEF ReleaseExistingLinks, HasFields
  <1>2. freed = freed2
    OBVIOUS
  <1>3. ids = Override(view.m_vidToAsicOperationId, [v \in freed2 |-> view.m_asicOperationId])
    BY <1>2
  <1> HIDE DEF counts, ids, freed2
  <1>4. /\ ReleaseExistingLinks(view, links).m_asicOperations = view.m_asicOperations
        /\ ReleaseExistingLinks(view, links).m_asicRemoveOperationsNonObjectId = view.m_asicRemoveOperationsNonObjectId
        /\ ReleaseExistingLinks(view, links).m_asicOperationId = view.m_asicOperationId
        /\ ReleaseExistingLinks(view, links).m_vidToAsicOperationId = ids
    BY <1>1 DEF HasFields
  <1> QED
    BY <1>3, <1>4 DEF freed2

\* The lists and the numbers after a set.
LEMMA SetIssues ==
    ASSUME NEW view, HasFields(view), NEW k \in DOMAIN view.objs, NEW r
    PROVE  LET w == AsicSetAttribute(view, k, r)
           IN  /\ w.m_asicOperations = Append(view.m_asicOperations, NewOp(view, "set", k, OnlyRef(r)))
               /\ w.m_asicRemoveOperationsNonObjectId = view.m_asicRemoveOperationsNonObjectId
               /\ w.m_asicOperationId = view.m_asicOperationId + 1
               /\ w.m_vidToAsicOperationId = LastOf(view, view.m_vidReference, AttrLinks(OnlyRef(view.objs[k].ref)))
  <1> DEFINE numbered == NextId(view)
             old == AttrLinks(OnlyRef(view.objs[k].ref))
             new == AttrLinks(OnlyRef(r))
             released == ReleaseExistingLinks(numbered, old)
             bound    == BindNewLinks(released, new)
             w == AsicSetAttribute(view, k, r)
             cnt == view.m_vidReference
             o == OnlyRef(r)
  <1>0. w = [bound EXCEPT !.objs[k].ref = r,
                          !.m_asicOperations = Append(@, Op(bound, "set", k, o))]
    BY DEF AsicSetAttribute
  <1>1. /\ HasFields(numbered) /\ numbered.m_vidReference = cnt
        /\ numbered.m_asicOperations = view.m_asicOperations
        /\ numbered.m_asicRemoveOperationsNonObjectId = view.m_asicRemoveOperationsNonObjectId
        /\ numbered.m_vidToAsicOperationId = view.m_vidToAsicOperationId
        /\ numbered.m_asicOperationId = view.m_asicOperationId + 1
    BY DEF NextId, HasFields
  <1> HIDE DEF numbered, old, new, cnt, o
  <1>2. HasFields(released)
    BY <1>1, ReleaseFields
  <1>3. /\ released.m_asicOperations = numbered.m_asicOperations
        /\ released.m_asicRemoveOperationsNonObjectId = numbered.m_asicRemoveOperationsNonObjectId
        /\ released.m_asicOperationId = numbered.m_asicOperationId
        /\ released.m_vidToAsicOperationId = LastOf(view, cnt, old)
    BY <1>1, ReleaseIssues DEF LastOf
  <1> HIDE DEF released
  <1>4. /\ HasFields(bound)
        /\ bound.m_asicOperations = released.m_asicOperations
        /\ bound.m_asicRemoveOperationsNonObjectId = released.m_asicRemoveOperationsNonObjectId
        /\ bound.m_asicOperationId = released.m_asicOperationId
        /\ bound.m_vidToAsicOperationId = released.m_vidToAsicOperationId
    BY <1>2 DEF BindNewLinks, HasFields
  <1>5. Op(bound, "set", k, o) = NewOp(view, "set", k, o)
    BY <1>1, <1>3, <1>4 DEF Op, NewOp
  <1> HIDE DEF bound, w
  <1>6. /\ w.m_asicOperations = Append(bound.m_asicOperations, Op(bound, "set", k, o))
        /\ w.m_asicRemoveOperationsNonObjectId = bound.m_asicRemoveOperationsNonObjectId
        /\ w.m_asicOperationId = bound.m_asicOperationId
        /\ w.m_vidToAsicOperationId = bound.m_vidToAsicOperationId
    BY <1>0, <1>4 DEF HasFields
  <1> QED
    BY <1>1, <1>3, <1>4, <1>5, <1>6 DEF w, old, cnt, o

\* The lists and the numbers after a create.
LEMMA CreateIssues ==
    ASSUME NEW view, HasFields(view), NEW k, NEW o
    PROVE  LET w == AsicCreateObject(view, k, o)
           IN  /\ w.m_asicOperations = Append(view.m_asicOperations, NewOp(view, "create", k, o))
               /\ w.m_asicRemoveOperationsNonObjectId = view.m_asicRemoveOperationsNonObjectId
               /\ w.m_asicOperationId = view.m_asicOperationId + 1
               /\ w.m_vidToAsicOperationId = view.m_vidToAsicOperationId
  <1> DEFINE numbered == NextId(view)
             known    == IF k \in Oids THEN InsertNewVidReference(numbered, k) ELSE numbered
             bound    == BindNewLinks(known, Links(k, o))
             w == AsicCreateObject(view, k, o)
  <1>0. w = [bound EXCEPT !.objs = With(@, k, o),
                      !.status = With(@, k, "FINAL"),
                      !.m_asicOperations = Append(@, Op(bound, "create", k, o))]
    BY DEF AsicCreateObject
  <1>1. /\ HasFields(numbered)
        /\ numbered.m_asicOperations = view.m_asicOperations
        /\ numbered.m_asicRemoveOperationsNonObjectId = view.m_asicRemoveOperationsNonObjectId
        /\ numbered.m_vidToAsicOperationId = view.m_vidToAsicOperationId
        /\ numbered.m_asicOperationId = view.m_asicOperationId + 1
    BY DEF NextId, HasFields
  <1> HIDE DEF numbered
  <1>2. /\ HasFields(known)
        /\ known.m_asicOperations = numbered.m_asicOperations
        /\ known.m_asicRemoveOperationsNonObjectId = numbered.m_asicRemoveOperationsNonObjectId
        /\ known.m_vidToAsicOperationId = numbered.m_vidToAsicOperationId
        /\ known.m_asicOperationId = numbered.m_asicOperationId
    BY <1>1 DEF InsertNewVidReference, HasFields
  <1> HIDE DEF known
  <1>4. /\ HasFields(bound)
        /\ bound.m_asicOperations = known.m_asicOperations
        /\ bound.m_asicRemoveOperationsNonObjectId = known.m_asicRemoveOperationsNonObjectId
        /\ bound.m_asicOperationId = known.m_asicOperationId
        /\ bound.m_vidToAsicOperationId = known.m_vidToAsicOperationId
    BY <1>2 DEF BindNewLinks, HasFields
  <1>5. Op(bound, "create", k, o) = NewOp(view, "create", k, o)
    BY <1>1, <1>2, <1>4 DEF Op, NewOp
  <1> HIDE DEF bound, w
  <1>6. /\ w.m_asicOperations = Append(bound.m_asicOperations, Op(bound, "create", k, o))
        /\ w.m_asicRemoveOperationsNonObjectId = bound.m_asicRemoveOperationsNonObjectId
        /\ w.m_asicOperationId = bound.m_asicOperationId
        /\ w.m_vidToAsicOperationId = bound.m_vidToAsicOperationId
    BY <1>0, <1>4 DEF HasFields
  <1> QED
    BY <1>1, <1>2, <1>4, <1>5, <1>6 DEF w

\* The lists and the numbers after a remove, which for an entry goes to its own list.
LEMMA RemoveIssues ==
    ASSUME NEW view, HasFields(view), NEW k \in DOMAIN view.objs
    PROVE  LET w == AsicRemoveObject(view, k)
               o == view.objs[k]
               ref == IF k \in Oids THEN [view.m_vidReference EXCEPT ![k] = @ - 1] ELSE view.m_vidReference
           IN  /\ IF k \in Oids
                  THEN /\ w.m_asicOperations = Append(view.m_asicOperations, NewOp(view, "remove", k, o))
                       /\ w.m_asicRemoveOperationsNonObjectId = view.m_asicRemoveOperationsNonObjectId
                  ELSE /\ w.m_asicOperations = view.m_asicOperations
                       /\ w.m_asicRemoveOperationsNonObjectId
                            = Append(view.m_asicRemoveOperationsNonObjectId, NewOp(view, "remove", k, o))
               /\ w.m_asicOperationId = view.m_asicOperationId + 1
               /\ w.m_vidToAsicOperationId = LastOf(view, ref, Links(k, o))
  <1> DEFINE o        == view.objs[k]
             numbered == NextId(view)
             ref == IF k \in Oids THEN [view.m_vidReference EXCEPT ![k] = @ - 1] ELSE view.m_vidReference
             os == Without(view.objs, k)
             ss == Without(view.status, k)
             links == Links(k, o)
             dropped  == [numbered EXCEPT !.objs = os, !.status = ss, !.m_vidReference = ref]
             released == ReleaseExistingLinks(dropped, links)
             op       == Op(released, "remove", k, o)
             w == AsicRemoveObject(view, k)
  <1>0. w = IF k \in Oids
            THEN [released EXCEPT !.m_asicOperations = Append(@, op)]
            ELSE [released EXCEPT !.m_asicRemoveOperationsNonObjectId = Append(@, op)]
    BY DEF AsicRemoveObject
  <1>1. /\ HasFields(numbered)
        /\ numbered.m_asicOperations = view.m_asicOperations
        /\ numbered.m_asicRemoveOperationsNonObjectId = view.m_asicRemoveOperationsNonObjectId
        /\ numbered.m_vidToAsicOperationId = view.m_vidToAsicOperationId
        /\ numbered.m_asicOperationId = view.m_asicOperationId + 1
    BY DEF NextId, HasFields
  <1> HIDE DEF numbered
  <1> HIDE DEF os, ss, ref
  <1>2. /\ HasFields(dropped) /\ dropped.m_vidReference = ref
        /\ dropped.m_asicOperations = numbered.m_asicOperations
        /\ dropped.m_asicRemoveOperationsNonObjectId = numbered.m_asicRemoveOperationsNonObjectId
        /\ dropped.m_vidToAsicOperationId = numbered.m_vidToAsicOperationId
        /\ dropped.m_asicOperationId = numbered.m_asicOperationId
    <2>1. dropped = [numbered EXCEPT !.objs = os, !.status = ss, !.m_vidReference = ref]
      OBVIOUS
    <2> HIDE DEF dropped
    <2> QED
      BY <1>1, <2>1 DEF HasFields
  <1> HIDE DEF dropped, links
  <1>3. /\ HasFields(released)
        /\ released.m_asicOperations = dropped.m_asicOperations
        /\ released.m_asicRemoveOperationsNonObjectId = dropped.m_asicRemoveOperationsNonObjectId
        /\ released.m_asicOperationId = dropped.m_asicOperationId
        /\ released.m_vidToAsicOperationId = LastOf(view, ref, links)
    <2>1. HasFields(released)
      BY <1>2, ReleaseFields
    <2> QED
      BY <1>1, <1>2, <2>1, ReleaseIssues DEF LastOf
  <1>4. op = NewOp(view, "remove", k, o)
    BY <1>1, <1>2, <1>3 DEF Op, NewOp
  <1> HIDE DEF released, w, op
  <1>5. /\ w.m_asicOperationId = released.m_asicOperationId
        /\ w.m_vidToAsicOperationId = released.m_vidToAsicOperationId
        /\ w.m_asicOperations = IF k \in Oids THEN Append(released.m_asicOperations, op)
                                              ELSE released.m_asicOperations
        /\ w.m_asicRemoveOperationsNonObjectId
             = IF k \in Oids THEN released.m_asicRemoveOperationsNonObjectId
                             ELSE Append(released.m_asicRemoveOperationsNonObjectId, op)
    BY <1>0, <1>3 DEF HasFields
  <1> QED
    BY <1>1, <1>2, <1>3, <1>4, <1>5 DEF w, ref, links

\* The two lists and the set they are after one more operation.
LEMMA OneMoreListed ==
    ASSUME NEW view, NEW w, ListsInv(view), NEW n, Numbered(Issued(view), n),
           NEW a \in Operation, a.opId = n + 1,
           \/ /\ w.m_asicOperations = Append(view.m_asicOperations, a)
              /\ w.m_asicRemoveOperationsNonObjectId = view.m_asicRemoveOperationsNonObjectId
              /\ a.op = "remove" => a.key \in Oids
           \/ /\ w.m_asicOperations = view.m_asicOperations
              /\ w.m_asicRemoveOperationsNonObjectId = Append(view.m_asicRemoveOperationsNonObjectId, a)
              /\ a.op = "remove" /\ a.key \notin Oids
    PROVE  ListsInv(w) /\ Issued(w) = Issued(view) \cup {a}
  <1> DEFINE L == view.m_asicOperations
             E == view.m_asicRemoveOperationsNonObjectId
             L2 == w.m_asicOperations
             E2 == w.m_asicRemoveOperationsNonObjectId
  <1>1. L \in Seq(Operation) /\ E \in Seq(Operation) /\ n \in Nat
    BY DEF ListsInv, Numbered
  <1>2. /\ \A i \in 1 .. Len(L) : L[i].opId \in 1 .. n
        /\ \A i \in 1 .. Len(E) : E[i].opId \in 1 .. n
    BY DEF Numbered, Issued, Elements
  <1>3. ASSUME NEW s \in Seq(Operation), NEW s2, s2 = Append(s, a)
        PROVE  /\ s2 \in Seq(Operation) /\ Len(s2) = Len(s) + 1 /\ s2[Len(s) + 1] = a
               /\ \A i \in 1 .. Len(s) : s2[i] = s[i]
               /\ Elements(s2) = Elements(s) \cup {a}
    <2>1. /\ s2 \in Seq(Operation) /\ Len(s2) = Len(s) + 1 /\ s2[Len(s) + 1] = a
          /\ \A i \in 1 .. Len(s) : s2[i] = s[i]
      BY <1>3
    <2>2. Len(s) \in Nat
      OBVIOUS
    <2> QED
      BY <2>1, <2>2 DEF Elements
  <1>4. CASE L2 = Append(L, a) /\ E2 = E /\ (a.op = "remove" => a.key \in Oids)
    <2>1. /\ L2 \in Seq(Operation) /\ Len(L2) = Len(L) + 1 /\ L2[Len(L) + 1] = a
          /\ \A i \in 1 .. Len(L) : L2[i] = L[i]
          /\ Elements(L2) = Elements(L) \cup {a}
      BY <1>1, <1>3, <1>4
    <2>2. \A i \in 1 .. Len(L2) : L2[i].op = "remove" => L2[i].key \in Oids
      BY <1>1, <1>4, <2>1 DEF ListsInv
    <2>3. \A i, j \in 1 .. Len(L2) : i < j => L2[i].opId < L2[j].opId
      <3> SUFFICES ASSUME NEW i \in 1 .. Len(L2), NEW j \in 1 .. Len(L2), i < j
                   PROVE  L2[i].opId < L2[j].opId
        OBVIOUS
      <3>1. Len(L) \in Nat /\ i \in 1 .. Len(L)
        BY <1>1, <2>1
      <3>2. CASE j = Len(L) + 1
        <4>1. L2[i].opId = L[i].opId /\ L2[j].opId = n + 1
          BY <2>1, <3>1, <3>2
        <4>2. L[i].opId \in 1 .. n
          BY <1>2, <3>1
        <4> HIDE DEF L, L2
        <4> QED
          BY <1>1, <4>1, <4>2
      <3>3. CASE j # Len(L) + 1
        <4>1. j \in 1 .. Len(L)
          BY <2>1, <3>1, <3>3
        <4>2. L[i].opId < L[j].opId
          BY <3>1, <4>1 DEF ListsInv
        <4> QED
          BY <2>1, <3>1, <4>1, <4>2
      <3> QED
        BY <3>2, <3>3
    <2>4. ListsInv(w)
      BY <1>1, <1>4, <2>1, <2>2, <2>3 DEF ListsInv
    <2> QED
      BY <1>4, <2>1, <2>4 DEF Issued
  <1>5. CASE L2 = L /\ E2 = Append(E, a) /\ a.op = "remove" /\ a.key \notin Oids
    <2>1. /\ E2 \in Seq(Operation) /\ Len(E2) = Len(E) + 1 /\ E2[Len(E) + 1] = a
          /\ \A i \in 1 .. Len(E) : E2[i] = E[i]
          /\ Elements(E2) = Elements(E) \cup {a}
      BY <1>1, <1>3, <1>5
    <2>2. \A i \in 1 .. Len(E2) : E2[i].op = "remove" /\ E2[i].key \notin Oids
      BY <1>1, <1>5, <2>1 DEF ListsInv
    <2>3. \A i, j \in 1 .. Len(E2) : i < j => E2[i].opId < E2[j].opId
      <3> SUFFICES ASSUME NEW i \in 1 .. Len(E2), NEW j \in 1 .. Len(E2), i < j
                   PROVE  E2[i].opId < E2[j].opId
        OBVIOUS
      <3>1. Len(E) \in Nat /\ i \in 1 .. Len(E)
        BY <1>1, <2>1
      <3>2. CASE j = Len(E) + 1
        <4>1. E2[i].opId = E[i].opId /\ E2[j].opId = n + 1
          BY <2>1, <3>1, <3>2
        <4>2. E[i].opId \in 1 .. n
          BY <1>2, <3>1
        <4> HIDE DEF E, E2
        <4> QED
          BY <1>1, <4>1, <4>2
      <3>3. CASE j # Len(E) + 1
        <4>1. j \in 1 .. Len(E)
          BY <2>1, <3>1, <3>3
        <4>2. E[i].opId < E[j].opId
          BY <3>1, <4>1 DEF ListsInv
        <4> QED
          BY <2>1, <3>1, <4>1, <4>2
      <3> QED
        BY <3>2, <3>3
    <2>4. ListsInv(w)
      BY <1>1, <1>5, <2>1, <2>2, <2>3 DEF ListsInv
    <2> QED
      BY <1>5, <2>1, <2>4 DEF Issued
  <1> QED
    BY <1>4, <1>5

\* The ids that are noted.
LEMMA LastIsNoted ==
    ASSUME NEW view, NEW cnt, NEW links, NEW freed,
           freed = {u \in DOMAIN cnt : links[u] > 0 /\ cnt[u] - links[u] = 0}
    PROVE  Noted(view.m_vidToAsicOperationId, freed, view.m_asicOperationId, LastOf(view, cnt, links))
  BY DEF Noted, LastOf, Override

\* A new operation is one.
LEMMA NewOpIs ==
    ASSUME NEW view, IssueInv(view), NEW op \in {"create", "set", "remove"}, NEW k \in Keys, NEW o \in Objects
    PROVE  LET a == NewOp(view, op, k, o)
           IN  /\ a \in Operation /\ a.opId = view.m_asicOperationId + 1
               /\ a.op = op /\ a.key = k /\ a.obj = o
               /\ Numbered(Issued(view), view.m_asicOperationId)
               /\ ListsInv(view)
  <1>1. Numbered(Issued(view), view.m_asicOperationId) /\ ListsInv(view)
    BY DEF IssueInv, OpsInv
  <1>2. view.m_asicOperationId \in Nat
    BY <1>1 DEF Numbered
  <1> QED
    BY <1>1, <1>2 DEF NewOp, Operation

\* A set of an object without an operation is issued.
LEMMA SetIsIssued ==
    ASSUME NEW view, ViewInv(view), IssueInv(view), NEW k \in DOMAIN view.objs, k \notin Groups,
           NEW r \in Groups \cup {NullId}, r = NullId \/ r \in DOMAIN view.objs,
           \A b \in Issued(view) : b.key # k
    PROVE  LET w == AsicSetAttribute(view, k, r)
           IN  IssueInv(w) /\ Issued(w) = Issued(view) \cup {NewOp(view, "set", k, OnlyRef(r))}
  <1> DEFINE w == AsicSetAttribute(view, k, r)
             a == NewOp(view, "set", k, OnlyRef(r))
             cnt == view.m_vidReference
             old == AttrLinks(OnlyRef(view.objs[k].ref))
             new == AttrLinks(OnlyRef(r))
             freed == {u \in DOMAIN cnt : old[u] > 0 /\ cnt[u] - old[u] = 0}
  <1>1. /\ HasFields(view) /\ DOMAIN view.objs \subseteq Keys /\ view.objs \in [DOMAIN view.objs -> Objects]
        /\ DOMAIN cnt \subseteq Oids /\ cnt \in [DOMAIN cnt -> Int] /\ Closed(view.objs)
        /\ IsFiniteSet(DOMAIN view.objs)
    BY DEF ViewInv, IsAsicView
  <1>2. /\ ViewInv(w) /\ DOMAIN w.objs = DOMAIN view.objs
        /\ w.objs[k] = [up |-> view.objs[k].up, ref |-> r, val |-> view.objs[k].val]
        /\ \A x \in DOMAIN view.objs \ {k} : w.objs[x] = view.objs[x]
    BY SetKeeps
  <1>3. w.m_vidReference = [v \in DOMAIN cnt |-> cnt[v] - old[v] + new[v]]
    <2>1. /\ HasFields(w) /\ w.objs = [view.objs EXCEPT ![k].ref = r] /\ w.status = view.status
          /\ w.m_vidReference = [v \in DOMAIN cnt |-> cnt[v] - old[v] + new[v]]
      BY <1>1, SetFields
    <2> QED
      BY <2>1
  <1>4. /\ w.m_asicOperations = Append(view.m_asicOperations, a)
        /\ w.m_asicRemoveOperationsNonObjectId = view.m_asicRemoveOperationsNonObjectId
        /\ w.m_asicOperationId = view.m_asicOperationId + 1
        /\ w.m_vidToAsicOperationId = LastOf(view, cnt, old)
    BY <1>1, SetIssues
  <1>5. k \in Keys /\ view.objs[k] \in Objects /\ OnlyRef(r) \in Objects
    BY <1>1 DEF OnlyRef, Objects
  <1>6. /\ a \in Operation /\ a.opId = view.m_asicOperationId + 1
        /\ a.op = "set" /\ a.key = k /\ a.obj = OnlyRef(r)
        /\ Numbered(Issued(view), view.m_asicOperationId) /\ ListsInv(view)
    BY <1>5, NewOpIs
  <1>7. Noted(view.m_vidToAsicOperationId, freed, view.m_asicOperationId, LastOf(view, cnt, old))
    BY LastIsNoted
  <1>8. /\ \A v \in Oids : old[v] = (IF view.objs[k].ref = v THEN 1 ELSE 0)
        /\ \A v \in Oids : new[v] = (IF r = v THEN 1 ELSE 0)
    <2>1. ASSUME NEW s, NEW v \in Oids PROVE AttrLinks(OnlyRef(s))[v] = (IF s = v THEN 1 ELSE 0)
      <3>1. v # Absent
        BY KindsAssumption DEF Keys
      <3>2. AttrLinks(OnlyRef(s))[v] = (IF Absent = v THEN 1 ELSE 0) + (IF s = v THEN 1 ELSE 0)
        BY DEF AttrLinks, OnlyRef
      <3> QED
        BY <3>1, <3>2
    <2> QED
      BY <2>1
  <1> HIDE DEF w, a, old, new
  <1>9. freed \in SUBSET (Oids \cap DOMAIN view.objs)
    <2> SUFFICES ASSUME NEW u \in freed PROVE u \in Oids /\ u \in DOMAIN view.objs
      OBVIOUS
    <2>1. u \in Oids /\ view.objs[k].ref = u
      BY <1>1, <1>8
    <2>2. u \in RefsOf(k, view.objs[k])
      BY <2>1, RefsAre
    <2> QED
      BY <1>1, <2>1, <2>2 DEF Closed
  <1>10. ASSUME NEW v \in RefsOf(k, view.objs[k]), \A y \in DOMAIN w.objs : v \notin RefsOf(y, w.objs[y])
         PROVE  v \in freed
    <2>1. v \in Oids /\ v \in DOMAIN view.objs /\ v \in DOMAIN w.objs
      BY <1>1, <1>2 DEF RefsOf, Closed
    <2>2. Count(w.objs, v) = 0
      <3> DEFINE objs == w.objs
      <3>1. IsFiniteSet(DOMAIN objs) /\ DOMAIN objs \subseteq Keys
        BY <1>1, <1>2
      <3> HIDE DEF objs
      <3>2. Count(objs, v) = 0 <=> \A x \in DOMAIN objs : v \notin RefsOf(x, objs[x])
        BY <2>1, <3>1, ZeroIsUnused
      <3> QED
        BY <1>10, <3>2 DEF objs
    <2>3. w.m_vidReference[v] = 0 /\ v \in DOMAIN w.m_vidReference
      BY <1>2, <2>1, <2>2 DEF ViewInv, Counted
    <2>4. v \notin RefsOf(k, w.objs[k])
      BY <1>2, <1>10
    <2>5. r # v /\ view.objs[k].ref = v
      BY <1>2, <2>1, <2>4, RefsAre
    <2>6. v \in DOMAIN cnt /\ cnt[v] \in Int
      BY <1>1, <2>1 DEF ViewInv, Counted
    <2>7. old[v] = 1 /\ new[v] = 0
      BY <1>8, <2>1, <2>5
    <2> QED
      BY <1>3, <2>3, <2>6, <2>7
  <1>11. RefsOf(k, OnlyRef(r)) \subseteq DOMAIN view.objs
    <2> SUFFICES ASSUME NEW v \in RefsOf(k, OnlyRef(r)) PROVE v \in DOMAIN view.objs
      OBVIOUS
    <2>1. v \in Oids /\ (v = r \/ k = Entry(v))
      BY RefsAre, KindsAssumption DEF OnlyRef, Keys
    <2>2. CASE k = Entry(v)
      BY <1>1, <2>1, <2>2, RefsAre DEF Closed
    <2>3. CASE v = r
      BY <2>1, <2>3, KindsAssumption DEF Keys
    <2> QED
      BY <2>1, <2>2, <2>3
  <1>12. w.objs[k] = [view.objs[k] EXCEPT !.ref = r]
    BY <1>2, <1>5, ObjectFacts
  <1>13. ListsInv(w) /\ Issued(w) = Issued(view) \cup {a}
    BY <1>4, <1>6, OneMoreListed
  <1>14. OpsInv(atStart, Issued(view), view.objs, view.m_vidToAsicOperationId, view.m_asicOperationId)
    BY DEF IssueInv
  <1> DEFINE O == Issued(view)
             objs == view.objs
             objs2 == w.objs
             last == view.m_vidToAsicOperationId
             last2 == w.m_vidToAsicOperationId
             n == view.m_asicOperationId
  <1>15. OpsInv(atStart, O \cup {a}, objs2, last2, n + 1)
    <2>1. Noted(last, freed, n, last2)
      BY <1>4, <1>7
    <2>2. \A b \in O : b.key # k
      OBVIOUS
    <2>3. OpsInv(atStart, O, objs, last, n)
      BY <1>14
    <2>4. DOMAIN objs \subseteq Keys /\ objs \in [DOMAIN objs -> Objects] /\ k \in DOMAIN objs
      BY <1>1
    <2>5. RefsOf(k, OnlyRef(r)) \subseteq DOMAIN objs /\ DOMAIN objs2 = DOMAIN objs
          /\ objs2[k] = [objs[k] EXCEPT !.ref = r] /\ \A x \in DOMAIN objs \ {k} : objs2[x] = objs[x]
      BY <1>2, <1>11, <1>12
    <2>6. /\ a \in Operation /\ a.opId = n + 1
          /\ a.op = "set" /\ a.key = k /\ a.obj = OnlyRef(r)
      BY <1>6
    <2>7. freed \in SUBSET (Oids \cap DOMAIN objs)
      BY <1>9
    <2>8. \A v \in RefsOf(k, objs[k]) : (\A y \in DOMAIN objs2 : v \notin RefsOf(y, objs2[y])) => v \in freed
      BY <1>10
    <2> HIDE DEF O, objs, objs2, last, last2, n, freed
    <2> QED
      BY <2>1, <2>2, <2>3, <2>4, <2>5, <2>6, <2>7, <2>8, SetOps
  <1>16. IssueInv(w)
    BY <1>4, <1>13, <1>15 DEF IssueInv
  <1> QED
    BY <1>13, <1>16 DEF w, a

\* A create of a new object, or of an entry that was removed, is issued.
LEMMA CreateIsIssued ==
    ASSUME NEW view, ViewInv(view), IssueInv(view), NEW k \in Keys, k \notin DOMAIN view.objs,
           NEW o \in Objects, RefsOf(k, o) \subseteq DOMAIN view.objs,
           k \in Groups => o.up = Absent /\ o.ref = NullId,
           k \in Oids => k \notin DOMAIN atStart,
           \A b \in Issued(view) : b.key = k => b.op = "remove" /\ k \notin Oids
    PROVE  LET w == AsicCreateObject(view, k, o)
           IN  IssueInv(w) /\ Issued(w) = Issued(view) \cup {NewOp(view, "create", k, o)}
  <1> DEFINE w == AsicCreateObject(view, k, o)
             a == NewOp(view, "create", k, o)
  <1>1. HasFields(view)
    BY DEF ViewInv, IsAsicView
  <1>2. /\ DOMAIN w.objs = DOMAIN view.objs \cup {k} /\ w.objs[k] = o
        /\ \A x \in DOMAIN view.objs : w.objs[x] = view.objs[x]
    BY CreateKeeps
  <1>3. /\ w.m_asicOperations = Append(view.m_asicOperations, a)
        /\ w.m_asicRemoveOperationsNonObjectId = view.m_asicRemoveOperationsNonObjectId
        /\ w.m_asicOperationId = view.m_asicOperationId + 1
        /\ w.m_vidToAsicOperationId = view.m_vidToAsicOperationId
    BY <1>1, CreateIssues
  <1>4. /\ a \in Operation /\ a.opId = view.m_asicOperationId + 1
        /\ a.op = "create" /\ a.key = k /\ a.obj = o
        /\ Numbered(Issued(view), view.m_asicOperationId) /\ ListsInv(view)
    BY NewOpIs
  <1>5. OpsInv(atStart, Issued(view), view.objs, view.m_vidToAsicOperationId, view.m_asicOperationId)
    BY DEF IssueInv
  <1> HIDE DEF w, a
  <1>6. ListsInv(w) /\ Issued(w) = Issued(view) \cup {a}
    BY <1>3, <1>4, OneMoreListed
  <1> DEFINE O == Issued(view)
             objs == view.objs
             objs2 == w.objs
             last == view.m_vidToAsicOperationId
             n == view.m_asicOperationId
  <1>7. OpsInv(atStart, O \cup {a}, objs2, last, n + 1)
    <2>1. OpsInv(atStart, O, objs, last, n) /\ \A b \in O : b.key = k => b.op = "remove" /\ k \notin Oids
      BY <1>5
    <2>2. k \notin DOMAIN objs /\ RefsOf(k, o) \subseteq DOMAIN objs
          /\ DOMAIN objs2 = DOMAIN objs \cup {k} /\ objs2[k] = o /\ \A x \in DOMAIN objs : objs2[x] = objs[x]
      BY <1>2
    <2>3. a \in Operation /\ a.opId = n + 1 /\ a.op = "create" /\ a.key = k /\ a.obj = o
      BY <1>4
    <2> HIDE DEF O, objs, objs2, last, n
    <2> QED
      BY <2>1, <2>2, <2>3, CreateOps
  <1>8. IssueInv(w)
    BY <1>3, <1>6, <1>7 DEF IssueInv
  <1> QED
    BY <1>6, <1>8 DEF w, a

\* A remove of an object without an operation that nothing refers to is issued.
LEMMA RemoveIsIssued ==
    ASSUME NEW view, ViewInv(view), IssueInv(view), NEW k \in DOMAIN view.objs,
           k \in Oids => view.m_vidReference[k] = 0,
           \A b \in Issued(view) : b.key # k /\ (b.op # "remove" => k \notin RefsOf(b.key, b.obj))
    PROVE  LET w == AsicRemoveObject(view, k)
           IN  IssueInv(w) /\ Issued(w) = Issued(view) \cup {NewOp(view, "remove", k, view.objs[k])}
  <1> DEFINE w == AsicRemoveObject(view, k)
             a == NewOp(view, "remove", k, view.objs[k])
             cnt == view.m_vidReference
             ref == IF k \in Oids THEN [cnt EXCEPT ![k] = @ - 1] ELSE cnt
             links == Links(k, view.objs[k])
             freed == {u \in DOMAIN ref : links[u] > 0 /\ ref[u] - links[u] = 0}
  <1>1. /\ HasFields(view) /\ DOMAIN view.objs \subseteq Keys /\ view.objs \in [DOMAIN view.objs -> Objects]
        /\ DOMAIN cnt \subseteq Oids /\ Closed(view.objs) /\ Counted(view)
        /\ IsFiniteSet(DOMAIN view.objs)
    BY DEF ViewInv, IsAsicView
  <1>2. /\ ViewInv(w) /\ DOMAIN w.objs = DOMAIN view.objs \ {k}
        /\ \A x \in DOMAIN view.objs \ {k} : w.objs[x] = view.objs[x]
    BY RemoveKeeps
  <1>3. w.m_vidReference = [v \in DOMAIN ref |-> ref[v] - links[v]]
    <2>1. /\ HasFields(w)
          /\ w.objs = [x \in DOMAIN view.objs \ {k} |-> view.objs[x]]
          /\ w.status = [x \in DOMAIN view.status \ {k} |-> view.status[x]]
          /\ w.m_vidReference = [v \in DOMAIN ref |-> ref[v] - links[v]]
      BY <1>1, RemoveFields
    <2> QED
      BY <2>1
  <1>4. /\ IF k \in Oids
           THEN /\ w.m_asicOperations = Append(view.m_asicOperations, a)
                /\ w.m_asicRemoveOperationsNonObjectId = view.m_asicRemoveOperationsNonObjectId
           ELSE /\ w.m_asicOperations = view.m_asicOperations
                /\ w.m_asicRemoveOperationsNonObjectId = Append(view.m_asicRemoveOperationsNonObjectId, a)
        /\ w.m_asicOperationId = view.m_asicOperationId + 1
        /\ w.m_vidToAsicOperationId = LastOf(view, ref, links)
    BY <1>1, RemoveIssues
  <1>5. k \in Keys /\ view.objs[k] \in Objects
    BY <1>1
  <1>6. /\ a \in Operation /\ a.opId = view.m_asicOperationId + 1
        /\ a.op = "remove" /\ a.key = k
        /\ Numbered(Issued(view), view.m_asicOperationId) /\ ListsInv(view)
    BY <1>5, NewOpIs
  <1>7. Noted(view.m_vidToAsicOperationId, freed, view.m_asicOperationId, LastOf(view, ref, links))
    BY LastIsNoted
  <1>8. /\ DOMAIN ref = DOMAIN cnt /\ \A v \in DOMAIN cnt : v # k => ref[v] = cnt[v]
        /\ \A v \in Oids : links[v] > 0 <=> v \in RefsOf(k, view.objs[k])
    BY DEF RefsOf
  <1>9. k \notin RefsOf(k, view.objs[k])
    <2> SUFFICES ASSUME k \in RefsOf(k, view.objs[k]) PROVE FALSE
      OBVIOUS
    <2>1. k \in Oids
      BY DEF RefsOf
    <2>2. Count(view.objs, k) = 0
      BY <1>1, <2>1 DEF Counted
    <2> DEFINE objs == view.objs
    <2>3. IsFiniteSet(DOMAIN objs) /\ DOMAIN objs \subseteq Keys
      BY <1>1
    <2>4. k \in DOMAIN objs /\ k \in RefsOf(k, objs[k]) /\ Count(objs, k) = 0
      BY <2>2
    <2> HIDE DEF objs
    <2>5. Count(objs, k) = 0 <=> \A x \in DOMAIN objs : k \notin RefsOf(x, objs[x])
      BY <2>1, <2>3, ZeroIsUnused
    <2> QED
      BY <2>4, <2>5
  <1> HIDE DEF w, a, ref, links
  <1>10. freed \in SUBSET (Oids \cap DOMAIN w.objs)
    <2> SUFFICES ASSUME NEW u \in freed PROVE u \in Oids /\ u \in DOMAIN w.objs
      OBVIOUS
    <2>1. u \in Oids /\ u \in RefsOf(k, view.objs[k])
      BY <1>1, <1>8
    <2> QED
      BY <1>1, <1>2, <1>9, <2>1 DEF Closed
  <1>11. ASSUME NEW v \in RefsOf(k, view.objs[k]), \A y \in DOMAIN w.objs : v \notin RefsOf(y, w.objs[y])
         PROVE  v \in freed
    <2>1. v \in Oids /\ v \in DOMAIN view.objs /\ v \in DOMAIN w.objs /\ v # k
      BY <1>1, <1>2, <1>9 DEF RefsOf, Closed
    <2>2. Count(w.objs, v) = 0
      <3> DEFINE objs == w.objs
      <3>1. IsFiniteSet(DOMAIN objs) /\ DOMAIN objs \subseteq Keys
        BY <1>2 DEF ViewInv, IsAsicView
      <3> HIDE DEF objs
      <3>2. Count(objs, v) = 0 <=> \A x \in DOMAIN objs : v \notin RefsOf(x, objs[x])
        BY <2>1, <3>1, ZeroIsUnused
      <3> QED
        BY <1>11, <3>2 DEF objs
    <2>3. w.m_vidReference[v] = 0 /\ v \in DOMAIN w.m_vidReference
      BY <1>2, <2>1, <2>2 DEF ViewInv, Counted
    <2> QED
      BY <1>3, <1>8, <2>1, <2>3
  <1>12. ListsInv(w) /\ Issued(w) = Issued(view) \cup {a}
    BY <1>4, <1>6, OneMoreListed
  <1>13. OpsInv(atStart, Issued(view), view.objs, view.m_vidToAsicOperationId, view.m_asicOperationId)
    BY DEF IssueInv
  <1> DEFINE O == Issued(view)
             objs == view.objs
             objs2 == w.objs
             last == view.m_vidToAsicOperationId
             last2 == w.m_vidToAsicOperationId
             n == view.m_asicOperationId
  <1>14. OpsInv(atStart, O \cup {a}, objs2, last2, n + 1)
    <2>1. Noted(last, freed, n, last2)
      BY <1>4, <1>7
    <2>2. (\A b \in O : b.key # k) /\ \A b \in O : b.op # "remove" => k \notin RefsOf(b.key, b.obj)
      OBVIOUS
    <2>3. OpsInv(atStart, O, objs, last, n)
      BY <1>13
    <2>4. DOMAIN objs \subseteq Keys /\ k \in DOMAIN objs
      BY <1>1
    <2>5. DOMAIN objs2 = DOMAIN objs \ {k} /\ \A x \in DOMAIN objs2 : objs2[x] = objs[x]
      BY <1>2
    <2>6. a \in Operation /\ a.opId = n + 1 /\ a.op = "remove" /\ a.key = k
      BY <1>6
    <2>7. freed \in SUBSET (Oids \cap DOMAIN objs2)
      BY <1>10
    <2>8. \A v \in RefsOf(k, objs[k]) : (\A y \in DOMAIN objs2 : v \notin RefsOf(y, objs2[y])) => v \in freed
      BY <1>11
    <2> HIDE DEF O, objs, objs2, last, last2, n, freed
    <2> QED
      BY <2>1, <2>2, <2>3, <2>4, <2>5, <2>6, <2>7, <2>8, RemoveOps, ZenonT(60)
  <1>15. IssueInv(w)
    BY <1>4, <1>12, <1>14 DEF IssueInv
  <1> QED
    BY <1>12, <1>15 DEF w, a

\* Objects that are not final have no operation, and none refers to them.
LEMMA NoOperation ==
    ASSUME NEW view, ViewInv(view), IssueInv(view), FinalInv(view), NEW k \in DOMAIN view.objs, view.status[k] # "FINAL",
           NEW b \in Issued(view)
    PROVE  b.key # k /\ (b.op # "remove" => k \notin RefsOf(b.key, b.obj))
  <1>1. b.op # "remove" => b.key # k /\ k \notin RefsOf(b.key, b.obj)
    BY DEF FinalInv
  <1>2. ASSUME b.op = "remove", b.key = k PROVE FALSE
    <2>1. Removed(Issued(view), k) /\ k \in Keys
      BY <1>2 DEF Removed, ViewInv, IsAsicView
    <2>2. Applied(atStart, Issued(view), view.objs)
      BY DEF IssueInv, OpsInv
    <2>3. Created(Issued(view), k)
      BY <2>1, <2>2 DEF Applied
    <2> QED
      BY <2>3 DEF Created, FinalInv
  <1> QED
    BY <1>1, <1>2

----------------------------------------------------------------------------
(* Ids of the two views *)

\* A key is an id or the key of an entry with the id of a member.
LEMMA KeyIs ==
    ASSUME NEW k \in Keys
    PROVE  \/ k \in Oids
           \/ k \notin Oids /\ k = Entry(k[2]) /\ k[2] \in Members /\ k[2] \in Oids
  BY KindsAssumption DEF Keys, Entry, Oids

\* Entries of different members differ.
LEMMA EntryIs ==
    ASSUME NEW m \in Members
    PROVE  Entry(m) \notin Oids /\ Entry(m)[2] = m /\ Entry(m) \in Keys /\ m \in Oids
  BY KindsAssumption DEF Entry, Keys, Oids

\* An id is translated to one of its kind.
LEMMA TranslateIs ==
    ASSUME RidInv
    PROVE  /\ \A v \in Groups : Translate(v) \in Groups
           /\ \A v \in Members : Translate(v) \in Members
           /\ \A v \in Ports : Translate(v) \in Ports
           /\ Translate(Absent) = Absent /\ Translate(NullId) = NullId
  BY KindsAssumption DEF RidInv, Translate, Keys

\* A key is translated to a key of its kind.
LEMMA TranslateKeyIs ==
    ASSUME RidInv, NEW k \in Keys
    PROVE  /\ TranslateKey(k) \in Keys
           /\ k \in Oids <=> TranslateKey(k) \in Oids
           /\ k \in Groups <=> TranslateKey(k) \in Groups
           /\ k \in Oids => TranslateKey(k) = Translate(k)
           /\ k \notin Oids => TranslateKey(k) = Entry(Translate(k[2])) /\ Translate(k[2]) \in Members
  <1>1. CASE k \in Oids
    <2>1. TranslateKey(k) = Translate(k)
      BY <1>1 DEF TranslateKey
    <2>2. k \in Ports \/ k \in Groups \/ k \in Members
      BY <1>1 DEF Oids
    <2> QED
      BY <1>1, <2>1, <2>2, TranslateIs, KindsAssumption DEF Oids, Keys
  <1>2. CASE k \notin Oids
    <2>1. k = Entry(k[2]) /\ k[2] \in Members
      BY <1>2, KeyIs
    <2>2. TranslateKey(k) = Entry(Translate(k[2])) /\ Translate(k[2]) \in Members
      BY <1>2, <2>1, TranslateIs DEF TranslateKey
    <2>3. Entry(Translate(k[2])) \notin Oids /\ Entry(Translate(k[2])) \in Keys
      BY <2>2, EntryIs
    <2> QED
      BY <1>2, <2>2, <2>3 DEF Oids
  <1> QED
    BY <1>1, <1>2

\* A translated object is an object.
LEMMA TranslateObjectIs ==
    ASSUME RidInv, NEW o \in Objects
    PROVE  /\ TranslateObject(o) = [up |-> Translate(o.up), ref |-> Translate(o.ref), val |-> o.val]
           /\ TranslateObject(o) \in Objects
  <1>1. /\ o = [up |-> o.up, ref |-> o.ref, val |-> o.val]
        /\ o.up \in Groups \cup {Absent} /\ o.ref \in Groups \cup {NullId} /\ o.val \in Vals \cup {Absent}
    BY ObjectFacts
  <1>2. TranslateObject(o) = [up |-> Translate(o.up), ref |-> Translate(o.ref), val |-> o.val]
    <2> DEFINE t == TranslateObject(o)
               u == Translate(o.up)
               r == Translate(o.ref)
    <2>1. t = [o EXCEPT !.up = u, !.ref = r]
      BY DEF TranslateObject
    <2> HIDE DEF t, u, r
    <2>2. DOMAIN o = {"up", "ref", "val"}
      BY <1>1
    <2>3. t = [x \in {"up", "ref", "val"} |-> IF x = "ref" THEN r ELSE IF x = "up" THEN u ELSE o[x]]
      BY <2>1, <2>2
    <2>4. t = [up |-> u, ref |-> r, val |-> o.val]
      BY <2>3
    <2> QED
      BY <2>4 DEF t, u, r
  <1>3. Translate(o.up) \in Groups \cup {Absent} /\ Translate(o.ref) \in Groups \cup {NullId}
    BY <1>1, TranslateIs
  <1> QED
    BY <1>1, <1>2, <1>3 DEF Objects

\* What a translated object refers to is translated.
LEMMA TranslatedRefs ==
    ASSUME RidInv, NEW k \in Keys, NEW o \in Objects, NEW v \in RefsOf(TranslateKey(k), TranslateObject(o))
    PROVE  \E w \in RefsOf(k, o) : v = Translate(w)
  <1>1. v \in Oids /\ (Translate(o.up) = v \/ Translate(o.ref) = v \/ TranslateKey(k) = Entry(v))
    BY RefsAre, TranslateObjectIs
  <1>2. o.up \in Groups \cup {Absent} /\ o.ref \in Groups \cup {NullId} /\ Absent \notin Oids /\ NullId \notin Oids
    BY ObjectFacts, KindsAssumption DEF Keys
  <1>3. CASE Translate(o.up) = v
    BY <1>1, <1>2, <1>3, RefsAre, TranslateIs DEF Oids
  <1>4. CASE Translate(o.ref) = v
    BY <1>1, <1>2, <1>4, RefsAre, TranslateIs DEF Oids
  <1>5. CASE TranslateKey(k) = Entry(v)
    <2>1. k \notin Oids
      <3>1. CASE k \in Oids
        <4>1. TranslateKey(k) \in Oids /\ TranslateKey(k) \in Keys
          BY <3>1, TranslateKeyIs
        <4>2. Entry(v) \notin Oids
          BY <1>1, KindsAssumption
        <4> QED
          BY <1>5, <4>1, <4>2
      <3> QED
        BY <3>1
    <2>2. k = Entry(k[2]) /\ k[2] \in Oids /\ TranslateKey(k) = Entry(Translate(k[2]))
      BY <2>1, KeyIs, TranslateKeyIs
    <2>3. v = Translate(k[2])
      BY <1>5, <2>2 DEF Entry
    <2> QED
      BY <2>2, <2>3, RefsAre
  <1> QED
    BY <1>1, <1>3, <1>4, <1>5

\* An object of the temporary view that is neither matched nor processed is
\* new: its id is in no map of the current view.
LEMMA NewIds ==
    ASSUME TempInv, RidInv, MatchInv, StartInv, NEW k \in Oids \cap DOMAIN temp.objs,
           temp.status[k] = "NOT_PROCESSED"
    PROVE  /\ k \notin DOMAIN vidToRid /\ Translate(k) = k /\ TranslateKey(k) = k
           /\ k \notin DOMAIN atStart /\ k \notin DOMAIN current.objs
  <1>1. k \notin DOMAIN vidToRid /\ Translate(k) = k /\ TranslateKey(k) = k
    BY DEF RidInv, Translate, TranslateKey
  <1>2. k \notin DOMAIN atStart
    BY <1>1 DEF StartInv
  <1>3. ASSUME k \in DOMAIN current.objs PROVE FALSE
    <2>1. current.status[k] = "FINAL"
      BY <1>2, <1>3 DEF StartInv
    <2>2. PICK l \in Processed : TranslateKey(l) = k
      BY <1>3, <2>1 DEF MatchInv
    <2>3. l \in Oids /\ Translate(l) = k
      BY <2>2, TranslateKeyIs DEF TempInv, Processed
    <2>4. CASE l \in DOMAIN vidToRid
      BY <1>2, <2>3, <2>4 DEF StartInv, Translate
    <2>5. CASE l \notin DOMAIN vidToRid
      BY <2>2, <2>3, <2>5 DEF Translate, Processed
    <2> QED
      BY <2>4, <2>5
  <1> QED
    BY <1>1, <1>2, <1>3

\* The object the current view has under the translated key of an entry that is
\* not processed is not processed either.
LEMMA NewEntries ==
    ASSUME ViewInv(current), TempInv, NewRefs, RidInv, MatchInv, StartInv,
           NEW k \in DOMAIN temp.objs, k \notin Oids,
           temp.status[k] = "NOT_PROCESSED", RefsOf(k, temp.objs[k]) \subseteq Processed,
           TranslateKey(k) \in DOMAIN current.objs
    PROVE  k[2] \in DOMAIN vidToRid /\ current.status[TranslateKey(k)] = "NOT_PROCESSED"
  <1> DEFINE m == k[2]
             c == TranslateKey(k)
  <1>1. k = Entry(m) /\ m \in Members /\ m \in Oids /\ c = Entry(Translate(m)) /\ Translate(m) \in Members
        /\ c \notin Oids /\ c \in Keys
    BY KeyIs, TranslateKeyIs, EntryIs DEF TempInv
  <1>2. m \in Processed
    BY <1>1, RefsAre
  <1>3. ASSUME current.status[c] = "FINAL" PROVE FALSE
    <2>1. PICK l \in Processed : TranslateKey(l) = c
      BY <1>3 DEF MatchInv
    <2>2. l \in Keys /\ l \notin Oids
      BY <1>1, <2>1, TranslateKeyIs DEF TempInv, Processed
    <2>3. l = Entry(l[2]) /\ l[2] \in Oids /\ Entry(Translate(l[2])) = Entry(Translate(m))
      BY <1>1, <2>1, <2>2, KeyIs, TranslateKeyIs
    <2>4. l[2] \in Processed
      <3>1. l[2] \in RefsOf(l, temp.objs[l])
        BY <2>3, RefsAre
      <3> QED
        BY <2>1, <2>2, <3>1 DEF NewRefs, RidInv
    <2>5. Translate(l[2]) = Translate(m)
      BY <2>3 DEF Entry
    <2>6. l[2] = m
      BY <1>1, <1>2, <2>3, <2>4, <2>5 DEF MatchInv
    <2> QED
      BY <1>1, <2>1, <2>3, <2>6 DEF Processed
  <1>4. current.status[c] # "MATCHED"
    BY <1>1 DEF RidInv
  <1>5. current.status[c] = "NOT_PROCESSED" /\ c \in DOMAIN atStart
    BY <1>3, <1>4 DEF ViewInv, IsAsicView, Statuses, StartInv
  <1>6. Translate(m) \in DOMAIN atStart
    <2>1. Translate(m) \in Oids /\ Translate(m) \in RefsOf(c, atStart[c])
      BY <1>1, RefsAre DEF Oids
    <2> QED
      BY <1>5, <2>1 DEF StartInv, Closed
  <1>7. m \in DOMAIN vidToRid
    BY <1>1, <1>2, <1>6 DEF StartInv, Translate, Processed
  <1> QED
    BY <1>5, <1>7

\* What the operations say depends on the objects and the lists.
LEMMA SameIssue ==
    ASSUME NEW view, IssueInv(view), NEW w, w.objs = view.objs, w.m_asicOperations = view.m_asicOperations,
           w.m_asicRemoveOperationsNonObjectId = view.m_asicRemoveOperationsNonObjectId,
           w.m_asicOperationId = view.m_asicOperationId, w.m_vidToAsicOperationId = view.m_vidToAsicOperationId
    PROVE  IssueInv(w) /\ Issued(w) = Issued(view)
  <1>1. Issued(w) = Issued(view)
    BY DEF Issued
  <1>2. ListsInv(w)
    BY DEF IssueInv, ListsInv
  <1> QED
    BY <1>1, <1>2 DEF IssueInv

\* What is final stays final.
LEMMA FinalMore ==
    ASSUME NEW view, FinalInv(view), NEW w, NEW a, Issued(w) = Issued(view) \cup {a},
           \A x \in DOMAIN view.objs : view.status[x] = "FINAL" => x \in DOMAIN w.objs /\ w.status[x] = "FINAL",
           a.op # "remove" =>
             /\ a.key \in DOMAIN w.objs /\ w.status[a.key] = "FINAL"
             /\ \A v \in RefsOf(a.key, a.obj) : v \in DOMAIN view.objs /\ view.status[v] = "FINAL"
    PROVE  FinalInv(w)
  BY DEF FinalInv

\* The id a processed one is translated to is final.
LEMMA RefIsFinal ==
    ASSUME Matching, NEW u \in Oids \cap Processed
    PROVE  Translate(u) \in DOMAIN current.objs /\ current.status[Translate(u)] = "FINAL"
  <1>1. TranslateKey(u) = Translate(u)
    BY DEF TranslateKey
  <1> QED
    BY <1>1 DEF Matching, MatchInv

\* One operation is issued, after all others.
IssuesOne(view, w, op, k) ==
    \E a : /\ a.op = op /\ a.key = k
           /\ \A b \in Issued(view) : b.opId < a.opId
           /\ Issued(w) = Issued(view) \cup {a}

\* A new operation has the greatest number.
LEMMA NewOpIsLast ==
    ASSUME NEW view, IssueInv(view), NEW w, NEW op, NEW k, NEW o,
           Issued(w) = Issued(view) \cup {NewOp(view, op, k, o)}
    PROVE  IssuesOne(view, w, op, k)
  <1> DEFINE a == NewOp(view, op, k, o)
  <1>1. a.op = op /\ a.key = k /\ a.opId = view.m_asicOperationId + 1
    BY DEF NewOp
  <1>2. \A b \in Issued(view) : b.opId < view.m_asicOperationId + 1
    BY DEF IssueInv, OpsInv, Numbered
  <1> HIDE DEF a
  <1>3. Issued(w) = Issued(view) \cup {a}
    BY DEF a
  <1> QED
    BY <1>1, <1>2, <1>3 DEF IssuesOne

\* An object that is not processed and not used is removed.
LEMMA RemoveStep ==
    ASSUME NEW view, ViewInv(view), IssueInv(view), FinalInv(view), NEW k \in DOMAIN view.objs,
           view.status[k] # "FINAL", k \in Oids => view.m_vidReference[k] = 0
    PROVE  LET w == AsicRemoveObject(view, k)
           IN  /\ ViewInv(w) /\ IssueInv(w) /\ FinalInv(w) /\ DOMAIN w.objs = DOMAIN view.objs \ {k}
               /\ IssuesOne(view, w, "remove", k)
               /\ \A x \in DOMAIN view.objs \ {k} : w.objs[x] = view.objs[x] /\ w.status[x] = view.status[x]
  <1> DEFINE w == AsicRemoveObject(view, k)
             a == NewOp(view, "remove", k, view.objs[k])
  <1>1. /\ ViewInv(w) /\ DOMAIN w.objs = DOMAIN view.objs \ {k}
        /\ \A x \in DOMAIN view.objs \ {k} : w.objs[x] = view.objs[x] /\ w.status[x] = view.status[x]
    BY RemoveKeeps
  <1>2. \A b \in Issued(view) : b.key # k /\ (b.op # "remove" => k \notin RefsOf(b.key, b.obj))
    BY NoOperation
  <1>3. IssueInv(w) /\ Issued(w) = Issued(view) \cup {a}
    BY <1>2, RemoveIsIssued
  <1>4. a.op = "remove"
    BY DEF NewOp
  <1> HIDE DEF w, a
  <1>5. FinalInv(w)
    BY <1>1, <1>3, <1>4, FinalMore
  <1>6. IssuesOne(view, w, "remove", k)
    BY <1>3, NewOpIsLast DEF a
  <1> QED
    BY <1>1, <1>3, <1>5, <1>6 DEF w

\* The ids a new object is created with are final.
LEMMA NewObjectIs ==
    ASSUME Matching, NEW k \in DOMAIN temp.objs, temp.status[k] = "NOT_PROCESSED",
           RefsOf(k, temp.objs[k]) \subseteq Processed
    PROVE  LET c == TranslateKey(k)
               o == TranslateObject(temp.objs[k])
           IN  /\ c \in Keys /\ o \in Objects /\ (c \in Groups => o.up = Absent /\ o.ref = NullId)
               /\ c \in Oids => c \notin DOMAIN atStart
               /\ \A v \in RefsOf(c, o) : v \in DOMAIN current.objs /\ current.status[v] = "FINAL"
  <1> DEFINE c == TranslateKey(k)
             t == temp.objs[k]
             o == TranslateObject(t)
  <1>0. TempInv /\ NewRefs /\ RidInv /\ MatchInv /\ StartInv
    BY DEF Matching
  <1>1. k \in Keys /\ t \in Objects /\ c \in Keys /\ o \in Objects /\ (c \in Groups <=> k \in Groups)
        /\ (c \in Oids <=> k \in Oids)
    BY <1>0, TranslateKeyIs, TranslateObjectIs DEF TempInv
  <1>2. ASSUME NEW v \in RefsOf(c, o) PROVE v \in DOMAIN current.objs /\ current.status[v] = "FINAL"
    <2>1. PICK w \in RefsOf(k, t) : v = Translate(w)
      BY <1>0, <1>1, TranslatedRefs
    <2>2. w \in Processed /\ w \in Oids
      BY <2>1, RefsAre
    <2> QED
      BY <2>1, <2>2, RefIsFinal
  <1>3. c \in Groups => o.up = Absent /\ o.ref = NullId
    <2> SUFFICES ASSUME c \in Groups PROVE o.up = Absent /\ o.ref = NullId
      OBVIOUS
    <2>1. t.up = Absent /\ t.ref = NullId
      BY <1>0, <1>1 DEF TempInv, NoGroupLinks
    <2> QED
      BY <1>0, <1>1, <2>1, TranslateObjectIs, TranslateIs
  <1>4. c \in Oids => c \notin DOMAIN atStart
    <2> SUFFICES ASSUME k \in Oids PROVE c \notin DOMAIN atStart
      BY <1>1
    <2>1. c = k /\ k \notin DOMAIN atStart
      BY <1>0, NewIds
    <2> QED
      BY <2>1
  <1> QED
    BY <1>1, <1>2, <1>3, <1>4

\* A new object is created: the operation for it.
LEMMA CreateIssueStep ==
    ASSUME Matching, NEW view, ViewInv(view), IssueInv(view), FinalInv(view),
           DOMAIN view.objs \subseteq DOMAIN current.objs,
           \A x \in DOMAIN view.objs : view.objs[x] = current.objs[x] /\ view.status[x] = current.status[x],
           \A x \in DOMAIN current.objs \ DOMAIN view.objs : current.status[x] = "NOT_PROCESSED",
           NEW k \in DOMAIN temp.objs,
           temp.status[k] = "NOT_PROCESSED", RefsOf(k, temp.objs[k]) \subseteq Processed,
           TranslateKey(k) \notin DOMAIN view.objs
    PROVE  LET w == CreateNewObject(view, k)
           IN  /\ IssueInv(w) /\ FinalInv(w) /\ IssuesOne(view, w, "create", TranslateKey(k))
               /\ DOMAIN w.objs = DOMAIN view.objs \cup {TranslateKey(k)}
               /\ w.objs[TranslateKey(k)] = TranslateObject(temp.objs[k])
               /\ \A x \in DOMAIN view.objs : w.objs[x] = current.objs[x]
  <1> DEFINE c == TranslateKey(k)
             o == TranslateObject(temp.objs[k])
             w == AsicCreateObject(view, c, o)
             a == NewOp(view, "create", c, o)
  <1>1. /\ c \in Keys /\ o \in Objects /\ (c \in Groups => o.up = Absent /\ o.ref = NullId)
        /\ c \in Oids => c \notin DOMAIN atStart
        /\ \A v \in RefsOf(c, o) : v \in DOMAIN current.objs /\ current.status[v] = "FINAL"
    BY NewObjectIs
  <1>0. CreateNewObject(view, k) = w /\ c \notin DOMAIN view.objs /\ c = TranslateKey(k)
        /\ o = TranslateObject(temp.objs[k])
    BY DEF CreateNewObject
  <1> HIDE DEF c, o
  <1>2. \A v \in RefsOf(c, o) : v \in DOMAIN view.objs /\ view.status[v] = "FINAL"
    BY <1>1
  <1>3. ASSUME NEW b \in Issued(view), b.key = c PROVE b.op = "remove" /\ c \notin Oids
    <2>1. b.op = "remove"
      BY <1>0, <1>3 DEF FinalInv
    <2>2. Needs(atStart, Issued(view))
      BY DEF IssueInv, OpsInv
    <2>3. c \in DOMAIN atStart
      BY <1>3, <2>1, <2>2 DEF Needs
    <2> QED
      BY <1>1, <2>1, <2>3
  <1>4. IssueInv(w) /\ Issued(w) = Issued(view) \cup {a}
    BY <1>0, <1>1, <1>2, <1>3, CreateIsIssued
  <1>5. /\ DOMAIN w.objs = DOMAIN view.objs \cup {c} /\ w.objs[c] = o /\ w.status[c] = "FINAL"
        /\ \A x \in DOMAIN view.objs : w.objs[x] = view.objs[x] /\ w.status[x] = view.status[x]
    BY <1>0, <1>1, <1>2, CreateKeeps
  <1>6. a.op = "create" /\ a.key = c /\ a.obj = o
    BY DEF NewOp
  <1> HIDE DEF w, a
  <1>7. FinalInv(w)
    BY <1>2, <1>4, <1>5, <1>6, FinalMore
  <1>8. IssuesOne(view, w, "create", c)
    BY <1>4, NewOpIsLast DEF a
  <1> QED
    BY <1>0, <1>4, <1>5, <1>7, <1>8

----------------------------------------------------------------------------
(* The steps *)

\* A processed object that kept its id is a final object of the current view.
LEMMA KeptIsFinal ==
    ASSUME RidInv, MatchInv, NEW k \in Processed, k \in DOMAIN vidToRid, vidToRid[k] = k
    PROVE  k \in DOMAIN current.objs /\ current.status[k] = "FINAL"
  <1>1. TranslateKey(k) = k
    BY DEF TranslateKey, Translate, RidInv
  <1> QED
    BY <1>1 DEF MatchInv

\* Objects that are not processed can go from the current view.
LEMMA LessKeeps ==
    ASSUME Matching, UNCHANGED <<temp, vidToRid, atStart>>,
           DOMAIN current'.objs \subseteq DOMAIN current.objs,
           \A x \in DOMAIN current'.objs :
               current'.objs[x] = current.objs[x] /\ current'.status[x] = current.status[x],
           \A x \in DOMAIN current.objs \ DOMAIN current'.objs : current.status[x] = "NOT_PROCESSED"
    PROVE  Matching'
  <1>0. TempInv /\ NewRefs /\ RidInv /\ MatchInv /\ StartInv
    BY DEF Matching
  <1>1. /\ Processed' = Processed
        /\ \A k : TranslateKey(k)' = TranslateKey(k)
        /\ \A v : Translate(v)' = Translate(v)
    BY DEF Processed, TranslateKey, Translate
  <1>2. TempInv'
    BY <1>0, <1>1 DEF TempInv
  <1>3. NewRefs'
    <2> SUFFICES ASSUME NEW k \in Processed, NEW v \in RefsOf(k, temp.objs[k]), v \notin Processed
                 PROVE  /\ k \in DOMAIN vidToRid /\ vidToRid[k] = k
                        /\ v = temp.objs[k].up /\ v = current'.objs[k].up
      BY <1>1 DEF NewRefs
    <2>1. /\ k \in DOMAIN vidToRid /\ vidToRid[k] = k
          /\ v = temp.objs[k].up /\ v = current.objs[k].up
      BY <1>0 DEF NewRefs
    <2>2. k \in DOMAIN current.objs /\ current.status[k] = "FINAL"
      BY <1>0, <2>1, KeptIsFinal
    <2> QED
      BY <2>1, <2>2
  <1>4. RidInv'
    BY <1>0 DEF RidInv
  <1>5. MatchInv'
    <2>1. \A k \in Processed :
            TranslateKey(k) \in DOMAIN current'.objs /\ current'.status[TranslateKey(k)] = "FINAL"
      BY <1>0 DEF MatchInv
    <2>2. \A c \in DOMAIN current'.objs : current'.status[c] = "FINAL" => \E k \in Processed : TranslateKey(k) = c
      BY <1>0 DEF MatchInv
    <2> QED
      BY <1>0, <1>1, <2>1, <2>2 DEF MatchInv
  <1>6. StartInv'
    BY <1>0 DEF StartInv
  <1> QED
    BY <1>2, <1>3, <1>4, <1>5, <1>6 DEF Matching

\* A new object is created, after objects that were not processed have gone.
LEMMA CreateStep ==
    ASSUME Matching, NEW view, ViewInv(view),
           DOMAIN view.objs \subseteq DOMAIN current.objs,
           \A x \in DOMAIN view.objs : view.objs[x] = current.objs[x] /\ view.status[x] = current.status[x],
           \A x \in DOMAIN current.objs \ DOMAIN view.objs : current.status[x] = "NOT_PROCESSED",
           NEW k \in DOMAIN temp.objs,
           temp.status[k] = "NOT_PROCESSED", RefsOf(k, temp.objs[k]) \subseteq Processed,
           TranslateKey(k) \notin DOMAIN view.objs,
           current' = CreateNewObject(view, k),
           temp' = [temp EXCEPT !.status[k] = "FINAL"],
           UNCHANGED <<vidToRid, atStart>>
    PROVE  ViewInv(current') /\ Matching' /\ Processed' = Processed \cup {k}
  <1> DEFINE c == TranslateKey(k)
             t == temp.objs[k]
             o == TranslateObject(t)
  <1>0. TempInv /\ NewRefs /\ RidInv /\ MatchInv /\ StartInv
    BY DEF Matching
  <1>1. k \in Keys /\ t \in Objects /\ c \in Keys /\ o \in Objects /\ (c \in Groups <=> k \in Groups)
    BY <1>0, TranslateKeyIs, TranslateObjectIs DEF TempInv
  <1>2. RefsOf(c, o) \subseteq DOMAIN view.objs
    <2> SUFFICES ASSUME NEW v \in RefsOf(c, o) PROVE v \in DOMAIN view.objs
      OBVIOUS
    <2>1. PICK w \in RefsOf(k, t) : v = Translate(w)
      BY <1>0, <1>1, TranslatedRefs
    <2>2. w \in Processed /\ w \in Oids
      BY <2>1, RefsAre
    <2>3. TranslateKey(w) = v
      BY <2>1, <2>2 DEF TranslateKey
    <2> QED
      BY <1>0, <2>2, <2>3 DEF MatchInv
  <1>3. c \in Groups => o.up = Absent /\ o.ref = NullId
    <2> SUFFICES ASSUME c \in Groups PROVE o.up = Absent /\ o.ref = NullId
      OBVIOUS
    <2>1. t.up = Absent /\ t.ref = NullId
      BY <1>0, <1>1 DEF TempInv, NoGroupLinks
    <2> QED
      BY <1>0, <1>1, <2>1, TranslateObjectIs, TranslateIs
  <1>4. /\ ViewInv(current') /\ DOMAIN current'.objs = DOMAIN view.objs \cup {c}
        /\ current'.objs[c] = o /\ current'.status[c] = "FINAL"
        /\ \A x \in DOMAIN view.objs :
             current'.objs[x] = current.objs[x] /\ current'.status[x] = current.status[x]
    <2>1. current' = AsicCreateObject(view, c, o)
      BY DEF CreateNewObject
    <2> HIDE DEF c, o
    <2> QED
      BY <1>1, <1>2, <1>3, <2>1, CreateKeeps DEF c
  <1> HIDE DEF c, o, t
  <1>5. /\ temp' = [objs |-> temp'.objs, status |-> temp'.status] /\ temp'.objs = temp.objs
        /\ DOMAIN temp'.status = DOMAIN temp.objs /\ temp'.status[k] = "FINAL"
        /\ temp'.status \in [DOMAIN temp.objs -> Statuses]
        /\ \A x \in DOMAIN temp.objs \ {k} : temp'.status[x] = temp.status[x]
    BY <1>0 DEF TempInv, Statuses
  <1>6. /\ Processed' = Processed \cup {k} /\ k \notin Processed
        /\ \A x : TranslateKey(x)' = TranslateKey(x)
        /\ \A v : Translate(v)' = Translate(v)
    BY <1>5 DEF Processed, TranslateKey, Translate
  <1>7. TempInv'
    <2>1. \A x \in (DOMAIN temp.objs) \ (Processed \cup {k}) : RefsOf(x, temp.objs[x]) \subseteq DOMAIN temp.objs
      BY <1>0 DEF TempInv
    <2>2. /\ DOMAIN temp.objs \subseteq Keys /\ IsFiniteSet(DOMAIN temp.objs)
          /\ temp.objs \in [DOMAIN temp.objs -> Objects] /\ NoGroupLinks(temp.objs)
      BY <1>0 DEF TempInv
    <2>3. NoGroupLinks(temp'.objs)
      BY <1>5, <2>2
    <2> QED
      BY <1>5, <1>6, <2>1, <2>2, <2>3 DEF TempInv
  <1>8. NewRefs'
    <2> SUFFICES ASSUME NEW x \in Processed \cup {k}, NEW v \in RefsOf(x, temp.objs[x]), v \notin Processed \cup {k}
                 PROVE  /\ x \in DOMAIN vidToRid /\ vidToRid[x] = x
                        /\ v = temp.objs[x].up /\ v = current'.objs[x].up
      BY <1>5, <1>6 DEF NewRefs
    <2>1. x \in Processed
      BY <1>6
    <2>2. /\ x \in DOMAIN vidToRid /\ vidToRid[x] = x
          /\ v = temp.objs[x].up /\ v = current.objs[x].up
      BY <1>0, <2>1 DEF NewRefs
    <2>3. x \in DOMAIN view.objs
      BY <1>0, <2>1, <2>2, KeptIsFinal
    <2> QED
      BY <1>4, <2>2, <2>3
  <1>9. RidInv'
    <2>1. k \notin DOMAIN vidToRid
      BY <1>0 DEF RidInv
    <2>2. \A v \in DOMAIN vidToRid : temp'.status[v] = temp.status[v]
      BY <1>0, <1>5, <2>1 DEF RidInv
    <2>3. \A x \in DOMAIN temp.objs : temp'.status[x] = "MATCHED" =>
             /\ x \in DOMAIN vidToRid /\ vidToRid[x] = x
             /\ x \in DOMAIN current'.objs /\ current'.status[x] = "MATCHED"
      BY <1>0, <1>4, <1>5 DEF RidInv
    <2>4. \A x \in DOMAIN current'.objs : current'.status[x] = "MATCHED" =>
             x \in DOMAIN temp.objs /\ temp'.status[x] = "MATCHED"
      <3> SUFFICES ASSUME NEW x \in DOMAIN current'.objs, current'.status[x] = "MATCHED"
                   PROVE  x \in DOMAIN temp.objs /\ temp'.status[x] = "MATCHED"
        OBVIOUS
      <3>1. x # c /\ x \in DOMAIN view.objs
        BY <1>4
      <3>2. x \in DOMAIN temp.objs /\ temp.status[x] = "MATCHED"
        BY <1>0, <1>4, <3>1 DEF RidInv
      <3> QED
        BY <1>5, <3>2
    <2> QED
      BY <1>0, <1>5, <2>2, <2>3, <2>4 DEF RidInv
  <1>10. MatchInv'
    <2>1. \A x \in Processed \cup {k} :
            TranslateKey(x) \in DOMAIN current'.objs /\ current'.status[TranslateKey(x)] = "FINAL"
      BY <1>0, <1>4 DEF MatchInv, c
    <2>2. \A d \in DOMAIN current'.objs : current'.status[d] = "FINAL" =>
             \E x \in Processed \cup {k} : TranslateKey(x) = d
      <3> SUFFICES ASSUME NEW d \in DOMAIN current'.objs, current'.status[d] = "FINAL"
                   PROVE  \E x \in Processed \cup {k} : TranslateKey(x) = d
        OBVIOUS
      <3>1. CASE d = c
        BY <3>1 DEF c
      <3>2. CASE d # c
        BY <1>0, <1>4, <3>2 DEF MatchInv
      <3> QED
        BY <3>1, <3>2
    <2>3. \A v, w \in Oids \cap (Processed \cup {k}) : Translate(v) = Translate(w) => v = w
      <3>1. ASSUME NEW v \in Oids \cap Processed, k \in Oids PROVE Translate(v) # Translate(k)
        <4>1. Translate(v) \in DOMAIN view.objs
          BY <1>0 DEF MatchInv, TranslateKey
        <4>2. Translate(k) = c
          BY <3>1 DEF TranslateKey, c
        <4> QED
          BY <4>1, <4>2 DEF c
      <3> QED
        BY <1>0, <3>1 DEF MatchInv
    <2> QED
      BY <1>6, <2>1, <2>2, <2>3 DEF MatchInv
  <1>11. StartInv'
    <2>1. \A d \in DOMAIN current'.objs : current'.status[d] # "FINAL" => d \in DOMAIN atStart
      BY <1>0, <1>4 DEF StartInv
    <2> QED
      BY <1>0, <1>5, <2>1 DEF StartInv
  <1> QED
    BY <1>4, <1>6, <1>7, <1>8, <1>9, <1>10, <1>11 DEF Matching

\* The best match of an object is an object of the current view of the same kind
\* that is not processed, or the object it was matched to.
LEMMA BestMatchIs ==
    ASSUME Matching, ViewInv(current), NEW k \in DOMAIN temp.objs, temp.status[k] # "FINAL",
           RefsOf(k, temp.objs[k]) \subseteq Processed, NEW c \in BestMatches(k)
    PROVE  /\ c \in DOMAIN current.objs /\ current.status[c] # "FINAL"
           /\ temp.status[k] = "MATCHED" => c = k /\ current.status[c] = "MATCHED" /\ k \in Oids
           /\ temp.status[k] # "MATCHED" => current.status[c] = "NOT_PROCESSED"
           /\ k \notin Oids => c = TranslateKey(k) /\ c \notin Oids /\ k[2] \in DOMAIN vidToRid
           /\ k \in Oids => c \in Oids /\ (c \in Ports <=> k \in Ports) /\ (c \in Groups <=> k \in Groups)
                                       /\ (c \in Members <=> k \in Members)
  <1>0. TempInv /\ NewRefs /\ RidInv /\ MatchInv /\ StartInv
    BY DEF Matching
  <1>1. CASE temp.status[k] = "MATCHED"
    <2>0. k \in Oids
      BY <1>0, <1>1 DEF RidInv
    <2>1. c = k
      BY <1>1, <2>0 DEF BestMatches
    <2> QED
      BY <1>0, <1>1, <2>1 DEF RidInv
  <1>2. CASE temp.status[k] # "MATCHED" /\ k \notin Oids
    <2>1. /\ c = TranslateKey(k) /\ c \in DOMAIN current.objs
          /\ k[2] \in DOMAIN vidToRid /\ current.status[c] = "NOT_PROCESSED"
      BY <1>2 DEF BestMatches
    <2>2. c \notin Oids
      BY <1>0, <1>2, <2>1, TranslateKeyIs DEF TempInv
    <2> QED
      BY <1>2, <2>1, <2>2
  <1>3. CASE temp.status[k] # "MATCHED" /\ k \in Oids
    <2>1. c \in NotProcessed(k)
      BY <1>3 DEF BestMatches
    <2>2. c \in DOMAIN current.objs /\ c \in SameKind(k) /\ current.status[c] = "NOT_PROCESSED"
      BY <2>1 DEF NotProcessed
    <2>3. \E kind \in {Ports, Groups, Members} : k \in kind
      BY <1>3 DEF Oids
    <2>4. SameKind(k) \in {Ports, Groups, Members} /\ k \in SameKind(k)
      BY <2>3 DEF SameKind
    <2> QED
      BY <1>3, <2>2, <2>4, KindsAssumption DEF Oids
  <1> QED
    BY <1>1, <1>2, <1>3

\* The translated reference of an object that is next is in the current view.
LEMMA NextRefIs ==
    ASSUME Matching, NEW k \in DOMAIN temp.objs, RefsOf(k, temp.objs[k]) \subseteq Processed
    PROVE  LET r == Translate(temp.objs[k].ref)
           IN  r \in Groups \cup {NullId} /\ (r = NullId \/ r \in DOMAIN current.objs)
  <1> DEFINE s == temp.objs[k].ref
  <1>0. TempInv /\ RidInv /\ MatchInv
    BY DEF Matching
  <1>1. s \in Groups \cup {NullId}
    BY <1>0, ObjectFacts DEF TempInv
  <1>2. CASE s = NullId
    BY <1>0, <1>2, TranslateIs
  <1>3. CASE s \in Groups
    <2>1. s \in Oids /\ s \in Processed
      BY <1>3, RefsAre DEF Oids
    <2>2. Translate(s) = TranslateKey(s)
      BY <2>1 DEF TranslateKey
    <2> QED
      BY <1>0, <1>3, <2>1, <2>2, TranslateIs DEF MatchInv
  <1> QED
    BY <1>1, <1>2, <1>3

\* The object a new one is matched to is set and final.
LEMMA UpdateView ==
    ASSUME Matching, ViewInv(current), IssueInv(current), FinalInv(current), NEW k \in DOMAIN temp.objs, temp.status[k] # "FINAL",
           RefsOf(k, temp.objs[k]) \subseteq Processed, NEW c \in BestMatches(k), NEW view,
           view = LET known == IF k \in Oids /\ temp.status[k] # "MATCHED"
                               THEN InsertNewVidReference(current, k) ELSE current
                  IN  SetTransition(known, k, c),
           current' = [view EXCEPT !.status[c] = "FINAL"]
    PROVE  /\ ViewInv(current') /\ DOMAIN current'.objs = DOMAIN current.objs /\ current'.status[c] = "FINAL"
           /\ IssueInv(current') /\ FinalInv(current')
           /\ Issued(current') = Issued(current) \/ IssuesOne(current, current', "set", c)
           /\ current'.objs[c] = [up |-> current.objs[c].up, ref |-> Translate(temp.objs[k].ref),
                                 val |-> current.objs[c].val]
           /\ \A x \in DOMAIN current.objs \ {c} :
                 current'.objs[x] = current.objs[x] /\ current'.status[x] = current.status[x]
  <1> DEFINE known == IF k \in Oids /\ temp.status[k] # "MATCHED"
                      THEN InsertNewVidReference(current, k) ELSE current
             r == Translate(temp.objs[k].ref)
  <1>0. TempInv /\ NewRefs /\ RidInv /\ MatchInv /\ StartInv
    BY DEF Matching
  <1>1. /\ c \in DOMAIN current.objs /\ current.status[c] # "FINAL" /\ (k \notin Oids => c \notin Oids /\ c = TranslateKey(k))
        /\ (k \in Oids => (c \in Groups <=> k \in Groups))
    BY BestMatchIs
  <1>2. /\ ViewInv(known) /\ known.objs = current.objs /\ known.status = current.status
        /\ IssueInv(known) /\ Issued(known) = Issued(current)
    <2>1. CASE k \in Oids /\ temp.status[k] # "MATCHED"
      <3>1. k \notin DOMAIN current.objs /\ k \in Oids
        BY <1>0, <2>1, NewIds DEF TempInv, Statuses
      <3>2. LET w == InsertNewVidReference(current, k)
            IN  ViewInv(w) /\ w.status = current.status /\ w.objs = current.objs
        BY <3>1, InsertKeeps
      <3>3. LET w == InsertNewVidReference(current, k)
            IN  IssueInv(w) /\ Issued(w) = Issued(current)
        <4> DEFINE w == InsertNewVidReference(current, k)
        <4>1. /\ w.objs = current.objs /\ w.m_asicOperations = current.m_asicOperations
              /\ w.m_asicRemoveOperationsNonObjectId = current.m_asicRemoveOperationsNonObjectId
              /\ w.m_asicOperationId = current.m_asicOperationId
              /\ w.m_vidToAsicOperationId = current.m_vidToAsicOperationId
          BY DEF InsertNewVidReference, ViewInv, IsAsicView, HasFields
        <4> HIDE DEF w
        <4>2. IssueInv(w) /\ Issued(w) = Issued(current)
          BY <4>1, SameIssue
        <4> QED
          BY <4>2 DEF w
      <3> QED
        BY <2>1, <3>2, <3>3
    <2>2. CASE ~(k \in Oids /\ temp.status[k] # "MATCHED")
      BY <2>2
    <2> QED
      BY <2>1, <2>2
  <1>3. r \in Groups \cup {NullId} /\ (r = NullId \/ r \in DOMAIN current.objs)
    BY NextRefIs
  <1>4. view = IF r = known.objs[c].ref THEN known ELSE AsicSetAttribute(known, c, r)
    BY DEF SetTransition
  <1> DEFINE a == NewOp(known, "set", c, OnlyRef(r))
  <1>4a. ASSUME NEW v \in RefsOf(c, OnlyRef(r)) PROVE v \in DOMAIN current.objs /\ current.status[v] = "FINAL"
    <2>1. v \in Oids /\ (v = r \/ c = Entry(v))
      BY RefsAre, KindsAssumption DEF OnlyRef, Keys
    <2>2. CASE v = r
      <3>1. temp.objs[k].ref \in Groups \cup {NullId} /\ NullId \notin Oids
        BY <1>0, ObjectFacts, KindsAssumption DEF TempInv, Keys
      <3>2. temp.objs[k].ref # NullId
        BY <1>0, <2>1, <2>2, <3>1, TranslateIs
      <3>3. temp.objs[k].ref \in Oids \cap Processed
        BY <3>1, <3>2, RefsAre DEF Oids
      <3> QED
        BY <2>2, <3>3, RefIsFinal
    <2>3. CASE c = Entry(v)
      <3>1. c \notin Oids
        BY <2>1, <2>3, KindsAssumption
      <3>2. k \notin Oids /\ k \in Keys
        BY <1>0, <1>1, <3>1, BestMatchIs DEF TempInv
      <3>3. k = Entry(k[2]) /\ k[2] \in Oids /\ c = Entry(Translate(k[2]))
        BY <1>0, <1>1, <3>2, KeyIs, TranslateKeyIs
      <3>4. v = Translate(k[2])
        BY <2>3, <3>3 DEF Entry
      <3>5. k[2] \in Processed
        BY <3>3, RefsAre
      <3> QED
        BY <3>3, <3>4, <3>5, RefIsFinal
    <2> QED
      BY <2>1, <2>2, <2>3
  <1> HIDE DEF known, r
  <1>5. /\ ViewInv(view) /\ DOMAIN view.objs = DOMAIN current.objs /\ view.status = current.status
        /\ view.objs[c] = [up |-> current.objs[c].up, ref |-> r, val |-> current.objs[c].val]
        /\ \A x \in DOMAIN current.objs \ {c} : view.objs[x] = current.objs[x]
        /\ IssueInv(view) /\ (Issued(view) = Issued(current) \/ Issued(view) = Issued(current) \cup {a})
    <2>1. CASE r = known.objs[c].ref
      <3>1. current.objs[c] \in Objects
        BY <1>1 DEF ViewInv, IsAsicView
      <3> QED
        BY <1>2, <1>4, <2>1, <3>1, ObjectFacts
    <2>2. CASE r # known.objs[c].ref
      <3>1. c \notin Groups
        <4> SUFFICES ASSUME c \in Groups PROVE FALSE
          OBVIOUS
        <4>1. k \in Groups
          BY <1>1 DEF Oids
        <4>2. temp.objs[k].ref = NullId
          BY <1>0, <4>1 DEF TempInv, NoGroupLinks
        <4>3. r = NullId
          BY <1>0, <4>2, TranslateIs DEF r
        <4>4. known.objs[c].ref = NullId
          BY <1>1, <1>2 DEF ViewInv, NoGroupLinks
        <4> QED
          BY <2>2, <4>3, <4>4
      <3>2. LET w == AsicSetAttribute(known, c, r)
            IN  /\ ViewInv(w) /\ w.status = known.status /\ DOMAIN w.objs = DOMAIN known.objs
                /\ w.objs[c] = [up |-> known.objs[c].up, ref |-> r, val |-> known.objs[c].val]
                /\ \A x \in DOMAIN known.objs \ {c} : w.objs[x] = known.objs[x]
        BY <1>1, <1>2, <1>3, <3>1, SetKeeps
      <3>3. \A b \in Issued(known) : b.key # c
        BY <1>1, <1>2, NoOperation
      <3>4. LET w == AsicSetAttribute(known, c, r)
            IN  IssueInv(w) /\ Issued(w) = Issued(known) \cup {a}
        BY <1>1, <1>2, <1>3, <3>1, <3>3, SetIsIssued
      <3> QED
        BY <1>1, <1>2, <1>4, <2>2, <3>2, <3>4
    <2> QED
      BY <2>1, <2>2
  <1>6. view.status \in [DOMAIN view.objs -> Statuses] /\ HasFields(view)
    BY <1>5 DEF ViewInv, IsAsicView
  <1> DEFINE status == [view.status EXCEPT ![c] = "FINAL"]
  <1>7. status \in [DOMAIN view.objs -> Statuses] /\ status[c] = "FINAL"
        /\ \A x \in DOMAIN view.objs \ {c} : status[x] = view.status[x]
    BY <1>1, <1>5, <1>6 DEF Statuses
  <1>8. current' = [view EXCEPT !.status = status]
    BY <1>6 DEF HasFields
  <1> HIDE DEF status
  <1>9. ViewInv(current') /\ current'.objs = view.objs /\ current'.status = status
    <2>1. ViewInv(view)
      BY <1>5
    <2>2. status \in [DOMAIN view.objs -> Statuses]
      BY <1>7
    <2>3. LET w == [view EXCEPT !.status = status]
          IN  ViewInv(w) /\ w.objs = view.objs /\ w.status = status
      BY <2>1, <2>2, StatusKeeps
    <2> QED
      BY <1>8, <2>3
  <1>10. IssueInv(current') /\ Issued(current') = Issued(view)
    <2>1. /\ current'.m_asicOperations = view.m_asicOperations
          /\ current'.m_asicRemoveOperationsNonObjectId = view.m_asicRemoveOperationsNonObjectId
          /\ current'.m_asicOperationId = view.m_asicOperationId
          /\ current'.m_vidToAsicOperationId = view.m_vidToAsicOperationId
      BY <1>6, <1>8 DEF HasFields
    <2>2. ASSUME NEW w, w = current' PROVE IssueInv(w) /\ Issued(w) = Issued(view)
      <3>1. /\ w.objs = view.objs /\ w.m_asicOperations = view.m_asicOperations
            /\ w.m_asicRemoveOperationsNonObjectId = view.m_asicRemoveOperationsNonObjectId
            /\ w.m_asicOperationId = view.m_asicOperationId
            /\ w.m_vidToAsicOperationId = view.m_vidToAsicOperationId
        BY <1>9, <2>1, <2>2
      <3> QED
        BY <1>5, <3>1, SameIssue, Zenon
    <2> QED
      BY <2>2
  <1>11. FinalInv(current')
    <2>1. a.op = "set" /\ a.key = c /\ a.obj = OnlyRef(r)
      BY DEF NewOp
    <2> HIDE DEF a
    <2>2. ASSUME NEW b \in Issued(current'), b.op # "remove"
          PROVE  /\ b.key \in DOMAIN current'.objs /\ current'.status[b.key] = "FINAL"
                 /\ \A w \in RefsOf(b.key, b.obj) : w \in DOMAIN current'.objs /\ current'.status[w] = "FINAL"
      <3>1. \A x \in DOMAIN current.objs : current.status[x] = "FINAL" =>
              x \in DOMAIN current'.objs /\ current'.status[x] = "FINAL"
        BY <1>5, <1>7, <1>9
      <3>2. CASE b \in Issued(current)
        BY <2>2, <3>1, <3>2 DEF FinalInv
      <3>3. CASE b = a
        BY <1>1, <1>4a, <1>5, <1>7, <1>9, <2>1, <3>1, <3>3
      <3> QED
        BY <1>5, <1>10, <3>2, <3>3
    <2> QED
      BY <2>2 DEF FinalInv
  <1>12. Issued(current') = Issued(current) \/ IssuesOne(current, current', "set", c)
    <2> SUFFICES ASSUME Issued(current') = Issued(known) \cup {a} PROVE IssuesOne(known, current', "set", c)
      BY <1>2, <1>5, <1>10 DEF IssuesOne
    <2>1. IssueInv(known)
      BY <1>2
    <2> QED
      BY <2>1, NewOpIsLast
  <1> QED
    BY <1>1, <1>5, <1>7, <1>9, <1>10, <1>11, <1>12 DEF r

\* k is matched to c, and is obj from now on.
IsUpdate(k, c, obj) ==
    LET t == temp.objs[k]
        o == current.objs[c]
    IN  /\ obj \in Objects /\ obj.ref = t.ref
        /\ temp.status[k] # "MATCHED" => obj = t
        /\ temp.status[k] = "MATCHED" =>
             /\ obj.up = IF t.up = Absent THEN o.up ELSE t.up
             /\ obj.val = IF t.val = Absent THEN o.val ELSE t.val
        /\ temp' = [objs |-> temp'.objs, status |-> temp'.status]
        /\ DOMAIN temp'.objs = DOMAIN temp.objs /\ DOMAIN temp'.status = DOMAIN temp.objs
        /\ temp'.objs[k] = obj /\ temp'.status[k] = "FINAL"
        /\ temp'.objs \in [DOMAIN temp.objs -> Objects] /\ temp'.status \in [DOMAIN temp.objs -> Statuses]
        /\ \A x \in DOMAIN temp.objs \ {k} : temp'.objs[x] = temp.objs[x] /\ temp'.status[x] = temp.status[x]
        /\ Processed' = Processed \cup {k} /\ k \notin Processed
        /\ DOMAIN vidToRid' = DOMAIN vidToRid \cup (IF k \in Oids THEN {k} ELSE {})
        /\ k \in Oids => vidToRid'[k] = c
        /\ \A v \in DOMAIN vidToRid \ {k} : vidToRid'[v] = vidToRid[v]
        /\ vidToRid' \in [DOMAIN vidToRid' -> Oids]
        /\ \A v : v # k => Translate(v)' = Translate(v)
        /\ k \in Oids => Translate(k)' = c
        /\ TranslateKey(k)' = c /\ \A x \in Processed : TranslateKey(x)' = TranslateKey(x)

\* What a match does to the temporary view and its ids.
LEMMA UpdatedIs ==
    ASSUME Matching, ViewInv(current), NEW k \in DOMAIN temp.objs, temp.status[k] # "FINAL",
           RefsOf(k, temp.objs[k]) \subseteq Processed, NEW c \in BestMatches(k), NEW obj,
           obj = IF temp.status[k] = "MATCHED" THEN Transferred(k, c) ELSE temp.objs[k],
           temp' = [temp EXCEPT !.objs[k] = obj, !.status[k] = "FINAL"],
           vidToRid' = IF k \in Oids THEN With(vidToRid, k, c) ELSE vidToRid
    PROVE  IsUpdate(k, c, obj)
  <1> DEFINE t == temp.objs[k]
             o == current.objs[c]
  <1>0. TempInv /\ NewRefs /\ RidInv /\ MatchInv /\ StartInv
    BY DEF Matching
  <1>1. /\ c \in DOMAIN current.objs /\ current.status[c] # "FINAL"
        /\ temp.status[k] = "MATCHED" => c = k /\ current.status[c] = "MATCHED" /\ k \in Oids
        /\ temp.status[k] # "MATCHED" => current.status[c] = "NOT_PROCESSED"
        /\ k \notin Oids => c = TranslateKey(k) /\ c \notin Oids /\ k[2] \in DOMAIN vidToRid
        /\ k \in Oids => c \in Oids /\ (c \in Ports <=> k \in Ports) /\ (c \in Groups <=> k \in Groups)
                                    /\ (c \in Members <=> k \in Members)
    BY BestMatchIs
  <1>2. t \in Objects /\ o \in Objects /\ k \in Keys
    BY <1>0, <1>1 DEF TempInv, ViewInv, IsAsicView
  <1>3. /\ obj \in Objects /\ obj.ref = t.ref
        /\ temp.status[k] # "MATCHED" => obj = t
        /\ temp.status[k] = "MATCHED" =>
              /\ obj.up = IF t.up = Absent THEN o.up ELSE t.up
              /\ obj.val = IF t.val = Absent THEN o.val ELSE t.val
    <2>1. CASE temp.status[k] = "MATCHED"
      <3>1. obj = [up |-> IF t.up = Absent THEN o.up ELSE t.up, ref |-> t.ref,
                   val |-> IF t.val = Absent THEN o.val ELSE t.val]
        BY <2>1 DEF Transferred
      <3>2. /\ t.up \in Groups \cup {Absent} /\ t.ref \in Groups \cup {NullId} /\ t.val \in Vals \cup {Absent}
            /\ o.up \in Groups \cup {Absent} /\ o.val \in Vals \cup {Absent}
        BY <1>2, ObjectFacts
      <3> HIDE DEF t, o
      <3> QED
        BY <2>1, <3>1, <3>2 DEF Objects
    <2>2. CASE temp.status[k] # "MATCHED"
      BY <1>2, <2>2
    <2> QED
      BY <2>1, <2>2
  <1>4. /\ temp' = [objs |-> temp'.objs, status |-> temp'.status]
        /\ DOMAIN temp'.objs = DOMAIN temp.objs /\ DOMAIN temp'.status = DOMAIN temp.objs
        /\ temp'.objs[k] = obj /\ temp'.status[k] = "FINAL"
        /\ temp'.objs \in [DOMAIN temp.objs -> Objects] /\ temp'.status \in [DOMAIN temp.objs -> Statuses]
        /\ \A x \in DOMAIN temp.objs \ {k} : temp'.objs[x] = temp.objs[x] /\ temp'.status[x] = temp.status[x]
    <2> DEFINE os == [temp.objs EXCEPT ![k] = obj]
               ss == [temp.status EXCEPT ![k] = "FINAL"]
    <2>1. temp = [objs |-> temp.objs, status |-> temp.status]
      BY <1>0 DEF TempInv
    <2>2. temp' = [objs |-> os, status |-> ss]
      BY <2>1
    <2>3. temp'.objs = os /\ temp'.status = ss
      BY <2>2
    <2>4. /\ os \in [DOMAIN temp.objs -> Objects] /\ os[k] = obj
          /\ \A x \in DOMAIN temp.objs \ {k} : os[x] = temp.objs[x]
      BY <1>0, <1>3 DEF TempInv
    <2>5. /\ ss \in [DOMAIN temp.objs -> Statuses] /\ ss[k] = "FINAL"
          /\ \A x \in DOMAIN temp.objs \ {k} : ss[x] = temp.status[x]
      BY <1>0 DEF TempInv, Statuses
    <2> HIDE DEF os, ss
    <2> QED
      BY <2>2, <2>3, <2>4, <2>5
  <1>5. Processed' = Processed \cup {k} /\ k \notin Processed
    BY <1>4 DEF Processed
  <1>6. /\ DOMAIN vidToRid' = DOMAIN vidToRid \cup (IF k \in Oids THEN {k} ELSE {})
        /\ k \in Oids => vidToRid'[k] = c
        /\ \A v \in DOMAIN vidToRid \ {k} : vidToRid'[v] = vidToRid[v]
        /\ vidToRid' \in [DOMAIN vidToRid' -> Oids]
    <2>1. CASE k \in Oids
      <3>1. vidToRid' = [x \in DOMAIN vidToRid \cup {k} |-> IF x = k THEN c ELSE vidToRid[x]]
        BY <2>1, WithIs
      <3> QED
        BY <1>0, <1>1, <2>1, <3>1 DEF RidInv
    <2>2. CASE k \notin Oids
      BY <1>0, <2>2 DEF RidInv
    <2> QED
      BY <2>1, <2>2
  <1> HIDE DEF t, o
  <1>7. /\ \A v : v # k => Translate(v)' = Translate(v)
        /\ k \in Oids => Translate(k)' = c
    BY <1>6 DEF Translate
  <1>8. TranslateKey(k)' = c /\ \A x \in Processed : TranslateKey(x)' = TranslateKey(x)
    <2>1. TranslateKey(k)' = c
      <3>1. CASE k \in Oids
        BY <1>7, <3>1 DEF TranslateKey
      <3>2. CASE k \notin Oids
        <4>1. Translate(k[2])' = Translate(k[2])
          BY <3>2 DEF Translate
        <4>2. TranslateKey(k)' = Entry(Translate(k[2])') /\ TranslateKey(k) = Entry(Translate(k[2]))
          BY <3>2 DEF TranslateKey
        <4> QED
          BY <1>1, <3>2, <4>1, <4>2
      <3> QED
        BY <3>1, <3>2
    <2>2. ASSUME NEW x \in Processed PROVE TranslateKey(x)' = TranslateKey(x)
      <3>1. CASE x \in Oids
        BY <1>5, <1>7, <3>1 DEF TranslateKey
      <3>2. CASE x \notin Oids
        <4>1. x \in Keys
          BY <1>0 DEF TempInv, Processed
        <4>2. x[2] \in RefsOf(x, temp.objs[x])
          BY <3>2, <4>1, KeyIs, RefsAre
        <4>3. x[2] \in Processed
          BY <1>0, <3>2, <4>2 DEF NewRefs, RidInv
        <4>4. Translate(x[2])' = Translate(x[2])
          BY <1>5, <1>7, <4>3
        <4>5. TranslateKey(x)' = Entry(Translate(x[2])') /\ TranslateKey(x) = Entry(Translate(x[2]))
          BY <3>2 DEF TranslateKey
        <4> QED
          BY <4>4, <4>5
      <3> QED
        BY <3>1, <3>2
    <2> QED
      BY <2>1, <2>2
  <1> QED
    BY <1>3, <1>4, <1>5, <1>6, <1>7, <1>8 DEF t, o, IsUpdate

\* A match: the temporary object gets the create-only attributes it does not have
\* and the id of the current one.
LEMMA UpdateStep ==
    ASSUME Matching, ViewInv(current), NEW k \in DOMAIN temp.objs, temp.status[k] # "FINAL",
           RefsOf(k, temp.objs[k]) \subseteq Processed, NEW c \in BestMatches(k), NEW obj,
           obj = IF temp.status[k] = "MATCHED" THEN Transferred(k, c) ELSE temp.objs[k],
           DOMAIN current'.objs = DOMAIN current.objs, current'.status[c] = "FINAL",
           \A x \in DOMAIN current.objs : current'.objs[x].up = current.objs[x].up,
           \A x \in DOMAIN current.objs \ {c} : current'.status[x] = current.status[x],
           temp' = [temp EXCEPT !.objs[k] = obj, !.status[k] = "FINAL"],
           vidToRid' = IF k \in Oids THEN With(vidToRid, k, c) ELSE vidToRid,
           UNCHANGED atStart
    PROVE  Matching'
  <1> DEFINE t == temp.objs[k]
             o == current.objs[c]
  <1>0. TempInv /\ NewRefs /\ RidInv /\ MatchInv /\ StartInv
    BY DEF Matching
  <1>1. /\ c \in DOMAIN current.objs /\ current.status[c] # "FINAL"
        /\ temp.status[k] = "MATCHED" => c = k /\ current.status[c] = "MATCHED" /\ k \in Oids
        /\ temp.status[k] # "MATCHED" => current.status[c] = "NOT_PROCESSED"
        /\ k \notin Oids => c = TranslateKey(k) /\ c \notin Oids /\ k[2] \in DOMAIN vidToRid
        /\ k \in Oids => c \in Oids /\ (c \in Ports <=> k \in Ports) /\ (c \in Groups <=> k \in Groups)
                                    /\ (c \in Members <=> k \in Members)
    BY BestMatchIs
  <1>2. t \in Objects /\ o \in Objects /\ k \in Keys
    BY <1>0, <1>1 DEF TempInv, ViewInv, IsAsicView
  <1>2a. IsUpdate(k, c, obj)
    BY UpdatedIs
  <1>3. /\ obj \in Objects /\ obj.ref = t.ref
        /\ temp.status[k] # "MATCHED" => obj = t
        /\ temp.status[k] = "MATCHED" =>
              /\ obj.up = IF t.up = Absent THEN o.up ELSE t.up
              /\ obj.val = IF t.val = Absent THEN o.val ELSE t.val
    BY <1>2a DEF IsUpdate
  <1>4. /\ temp' = [objs |-> temp'.objs, status |-> temp'.status]
        /\ DOMAIN temp'.objs = DOMAIN temp.objs /\ DOMAIN temp'.status = DOMAIN temp.objs
        /\ temp'.objs[k] = obj /\ temp'.status[k] = "FINAL"
        /\ temp'.objs \in [DOMAIN temp.objs -> Objects] /\ temp'.status \in [DOMAIN temp.objs -> Statuses]
        /\ \A x \in DOMAIN temp.objs \ {k} : temp'.objs[x] = temp.objs[x] /\ temp'.status[x] = temp.status[x]
    BY <1>2a DEF IsUpdate
  <1>5. Processed' = Processed \cup {k} /\ k \notin Processed
    BY <1>2a DEF IsUpdate
  <1>6. /\ DOMAIN vidToRid' = DOMAIN vidToRid \cup (IF k \in Oids THEN {k} ELSE {})
        /\ k \in Oids => vidToRid'[k] = c
        /\ \A v \in DOMAIN vidToRid \ {k} : vidToRid'[v] = vidToRid[v]
        /\ vidToRid' \in [DOMAIN vidToRid' -> Oids]
    BY <1>2a DEF IsUpdate
  <1>7. /\ \A v : v # k => Translate(v)' = Translate(v)
        /\ k \in Oids => Translate(k)' = c
    BY <1>2a DEF IsUpdate
  <1>8. TranslateKey(k)' = c /\ \A x \in Processed : TranslateKey(x)' = TranslateKey(x)
    BY <1>2a DEF IsUpdate
  <1> HIDE DEF t, o
  <1>9. TempInv'
    <2>1. \A x \in (DOMAIN temp'.objs) \ Processed' : RefsOf(x, temp'.objs[x]) \subseteq DOMAIN temp'.objs
      BY <1>0, <1>4, <1>5 DEF TempInv
    <2>2. NoGroupLinks(temp'.objs)
      <3> SUFFICES ASSUME NEW x \in Groups \cap DOMAIN temp.objs
                   PROVE  temp'.objs[x].up = Absent /\ temp'.objs[x].ref = NullId
        BY <1>4 DEF NoGroupLinks
      <3>1. temp.objs[x].up = Absent /\ temp.objs[x].ref = NullId
        BY <1>0 DEF TempInv, NoGroupLinks
      <3>2. CASE x # k
        BY <1>4, <3>1, <3>2
      <3>3. CASE x = k /\ temp.status[k] # "MATCHED"
        BY <1>3, <1>4, <3>1, <3>3 DEF t
      <3>4. CASE x = k /\ temp.status[k] = "MATCHED"
        <4>1. o.up = Absent
          BY <1>1, <3>4 DEF ViewInv, NoGroupLinks, o
        <4> QED
          BY <1>3, <1>4, <3>1, <3>4, <4>1 DEF t
      <3> QED
        BY <3>2, <3>3, <3>4
    <2>3. DOMAIN temp.objs \subseteq Keys /\ IsFiniteSet(DOMAIN temp.objs)
      BY <1>0 DEF TempInv
    <2> QED
      BY <1>4, <2>1, <2>2, <2>3 DEF TempInv
  <1>10. NewRefs'
    <2> SUFFICES ASSUME NEW x \in Processed \cup {k}, NEW v \in RefsOf(x, temp'.objs[x]), v \notin Processed \cup {k}
                 PROVE  /\ x \in DOMAIN vidToRid' /\ vidToRid'[x] = x
                        /\ v = temp'.objs[x].up /\ v = current'.objs[x].up
      BY <1>5 DEF NewRefs
    <2>1. CASE x # k
      <3>1. x \in Processed /\ temp'.objs[x] = temp.objs[x]
        BY <1>4, <2>1 DEF Processed
      <3>2. /\ x \in DOMAIN vidToRid /\ vidToRid[x] = x
            /\ v = temp.objs[x].up /\ v = current.objs[x].up
        BY <1>0, <3>1 DEF NewRefs
      <3>3. x \in DOMAIN current.objs
        BY <1>0, <3>1, <3>2, KeptIsFinal
      <3> QED
        BY <1>6, <2>1, <3>1, <3>2, <3>3
    <2>2. CASE x = k
      <3>1. v \in Oids /\ (obj.up = v \/ obj.ref = v \/ k = Entry(v))
        BY <1>4, <2>2, RefsAre
      <3>2. ~(t.up = v \/ t.ref = v \/ k = Entry(v))
        BY <2>2, <3>1, RefsAre DEF t
      <3>3. temp.status[k] = "MATCHED" /\ v = o.up /\ obj.up = v
        BY <1>3, <3>1, <3>2
      <3> QED
        BY <1>1, <1>4, <1>6, <2>2, <3>3 DEF o
    <2> QED
      BY <2>1, <2>2
  <1>11. RidInv'
    <2>1. DOMAIN vidToRid' \subseteq Oids \cap DOMAIN temp'.objs
      BY <1>0, <1>4, <1>6 DEF RidInv
    <2>2. ASSUME NEW v \in DOMAIN vidToRid'
          PROVE  /\ temp'.status[v] # "NOT_PROCESSED"
                 /\ v \in Ports <=> vidToRid'[v] \in Ports
                 /\ v \in Groups <=> vidToRid'[v] \in Groups
                 /\ v \in Members <=> vidToRid'[v] \in Members
      <3>1. CASE v = k
        BY <1>1, <1>4, <1>6, <2>1, <3>1
      <3>2. CASE v # k
        BY <1>0, <1>4, <1>6, <3>2 DEF RidInv
      <3> QED
        BY <3>1, <3>2
    <2>3. ASSUME NEW x \in DOMAIN temp'.objs, temp'.status[x] = "MATCHED"
          PROVE  /\ x \in DOMAIN vidToRid' /\ vidToRid'[x] = x
                 /\ x \in DOMAIN current'.objs /\ current'.status[x] = "MATCHED"
      <3>1. x # k /\ temp.status[x] = "MATCHED" /\ x \in DOMAIN temp.objs
        BY <1>4, <2>3
      <3>2. /\ x \in DOMAIN vidToRid /\ vidToRid[x] = x
            /\ x \in DOMAIN current.objs /\ current.status[x] = "MATCHED"
        BY <1>0, <3>1 DEF RidInv
      <3>3. x # c
        BY <1>1, <3>1, <3>2
      <3> QED
        BY <1>6, <3>1, <3>2, <3>3
    <2>4. ASSUME NEW x \in DOMAIN current'.objs, current'.status[x] = "MATCHED"
          PROVE  x \in DOMAIN temp'.objs /\ temp'.status[x] = "MATCHED"
      <3>1. x # c /\ current.status[x] = "MATCHED" /\ x \in DOMAIN current.objs
        BY <2>4
      <3>2. x \in DOMAIN temp.objs /\ temp.status[x] = "MATCHED"
        BY <1>0, <3>1 DEF RidInv
      <3>3. x # k
        BY <1>1, <3>1, <3>2
      <3> QED
        BY <1>4, <3>2, <3>3
    <2> QED
      BY <1>6, <2>1, <2>2, <2>3, <2>4 DEF RidInv
  <1>12. MatchInv'
    <2>1. \A x \in Processed' :
            TranslateKey(x)' \in DOMAIN current'.objs /\ current'.status[TranslateKey(x)'] = "FINAL"
      <3> SUFFICES ASSUME NEW x \in Processed'
                   PROVE  TranslateKey(x)' \in DOMAIN current'.objs /\ current'.status[TranslateKey(x)'] = "FINAL"
        OBVIOUS
      <3>1. CASE x = k
        BY <1>1, <1>8, <3>1
      <3>2. CASE x # k
        <4>1. x \in Processed /\ TranslateKey(x)' = TranslateKey(x)
          BY <1>5, <1>8, <3>2
        <4>2. TranslateKey(x) \in DOMAIN current.objs /\ current.status[TranslateKey(x)] = "FINAL"
          BY <1>0, <4>1 DEF MatchInv
        <4>3. TranslateKey(x) # c
          BY <1>1, <4>2
        <4> QED
          BY <4>1, <4>2, <4>3
      <3> QED
        BY <3>1, <3>2
    <2>2. ASSUME NEW d \in DOMAIN current'.objs, current'.status[d] = "FINAL"
          PROVE  \E x \in Processed' : TranslateKey(x)' = d
      <3>1. CASE d = c
        BY <1>5, <1>8, <3>1
      <3>2. CASE d # c
        <4>1. PICK x \in Processed : TranslateKey(x) = d
          BY <1>0, <2>2, <3>2 DEF MatchInv
        <4> QED
          BY <1>5, <1>8, <4>1
      <3> QED
        BY <3>1, <3>2
    <2>3. ASSUME NEW v \in Oids \cap Processed', NEW w \in Oids \cap Processed', Translate(v)' = Translate(w)'
          PROVE  v = w
      <3>1. ASSUME NEW u \in Oids \cap Processed, k \in Oids PROVE Translate(u) # c /\ u # k
        <4>1. TranslateKey(u) = Translate(u)
          BY DEF TranslateKey
        <4> QED
          BY <1>0, <1>1, <1>5, <4>1 DEF MatchInv
      <3>2. CASE v = k
        BY <1>5, <1>7, <2>3, <3>1, <3>2
      <3>3. CASE w = k
        BY <1>5, <1>7, <2>3, <3>1, <3>3
      <3>4. CASE v # k /\ w # k
        BY <1>0, <1>5, <1>7, <2>3, <3>4 DEF MatchInv
      <3> QED
        BY <3>2, <3>3, <3>4
    <2> QED
      BY <2>1, <2>2, <2>3 DEF MatchInv
  <1>13. StartInv'
    <2>1. c \in DOMAIN atStart
      BY <1>0, <1>1 DEF StartInv
    <2>2. \A v \in DOMAIN vidToRid' : vidToRid'[v] \in DOMAIN atStart
      BY <1>0, <1>6, <2>1 DEF StartInv
    <2>3. ASSUME NEW v \in Oids \cap DOMAIN temp.objs, v \in DOMAIN atStart
          PROVE  v \in DOMAIN vidToRid' /\ vidToRid'[v] = v
      <3>1. v \in DOMAIN vidToRid /\ vidToRid[v] = v
        BY <1>0, <2>3 DEF StartInv
      <3>2. CASE v # k
        BY <1>6, <3>1, <3>2
      <3>3. CASE v = k
        <4>1. temp.status[k] = "MATCHED"
          BY <1>0, <3>1, <3>3 DEF RidInv, TempInv, Statuses
        <4> QED
          BY <1>1, <1>6, <3>1, <3>3, <4>1
      <3> QED
        BY <3>2, <3>3
    <2>4. \A d \in DOMAIN current'.objs : current'.status[d] # "FINAL" => d \in DOMAIN atStart
      BY <1>0, <1>1 DEF StartInv
    <2> QED
      BY <1>0, <1>4, <2>2, <2>3, <2>4 DEF StartInv
  <1> QED
    BY <1>9, <1>10, <1>11, <1>12, <1>13 DEF Matching

----------------------------------------------------------------------------
(* The values of matched objects *)

\* What is processed keeps its values, and what is processed now has them.
LEMMA ValuesFrom ==
    ASSUME ValuesInv, atStart' = atStart,
           \A k \in Processed :
              /\ temp'.objs[k] = temp.objs[k] /\ TranslateKey(k)' = TranslateKey(k)
              /\ \A v \in {temp.objs[k].up, temp.objs[k].ref} : Translate(v)' = Translate(v)
              /\ current'.objs[TranslateKey(k)] = current.objs[TranslateKey(k)],
           \A k \in Processed' \ Processed : current'.objs[TranslateKey(k)'] = TranslateObject(temp.objs[k])',
           \A k \in DOMAIN temp'.objs : temp'.status[k] = "MATCHED" =>
              k \in DOMAIN temp.objs /\ temp.status[k] = "MATCHED" /\ temp'.objs[k] = temp.objs[k],
           \A k \in DOMAIN temp'.objs \ Oids : k \in DOMAIN temp.objs /\ temp'.objs[k].up = temp.objs[k].up
    PROVE  ValuesInv'
  <1>1. ASSUME NEW k \in Processed' PROVE current'.objs[TranslateKey(k)'] = TranslateObject(temp.objs[k])'
    <2>1. CASE k \in Processed
      <3>1. current'.objs[TranslateKey(k)'] = TranslateObject(temp.objs[k])
        BY <2>1 DEF ValuesInv
      <3>2. TranslateObject(temp.objs[k])' = TranslateObject(temp.objs[k])
        BY <2>1 DEF TranslateObject, Translate
      <3> QED
        BY <3>1, <3>2
    <2> QED
      BY <2>1
  <1>2. ASSUME NEW k \in DOMAIN temp'.objs, temp'.status[k] = "MATCHED"
        PROVE  temp'.objs[k].up \in {Absent, atStart'[k].up} /\ temp'.objs[k].val \in {Absent, atStart'[k].val}
    BY <1>2 DEF ValuesInv
  <1> QED
    BY <1>1, <1>2 DEF ValuesInv

\* After a remove.
LEMMA ValuesLess ==
    ASSUME ValuesInv, MatchInv, UNCHANGED <<temp, vidToRid, atStart>>,
           \A x \in DOMAIN current'.objs : current'.objs[x] = current.objs[x],
           \A x \in DOMAIN current.objs : current.status[x] = "FINAL" => x \in DOMAIN current'.objs
    PROVE  ValuesInv'
  <1>1. /\ Processed' = Processed /\ \A k : TranslateKey(k)' = TranslateKey(k)
        /\ \A v : Translate(v)' = Translate(v)
    BY DEF Processed, TranslateKey, Translate
  <1>2. \A k \in Processed : current'.objs[TranslateKey(k)] = current.objs[TranslateKey(k)]
    BY DEF MatchInv
  <1> QED
    BY <1>1, <1>2, ValuesFrom

\* After a create.
LEMMA ValuesCreate ==
    ASSUME ValuesInv, TempInv, MatchInv, NEW k \in DOMAIN temp.objs, temp.status[k] = "NOT_PROCESSED",
           temp' = [temp EXCEPT !.status[k] = "FINAL"], UNCHANGED <<vidToRid, atStart>>,
           NEW view, DOMAIN view.objs \subseteq DOMAIN current.objs,
           \A x \in DOMAIN current.objs \ DOMAIN view.objs : current.status[x] = "NOT_PROCESSED",
           current'.objs[TranslateKey(k)] = TranslateObject(temp.objs[k]),
           \A x \in DOMAIN view.objs : current'.objs[x] = current.objs[x]
    PROVE  ValuesInv'
  <1>1. /\ \A x : TranslateKey(x)' = TranslateKey(x)
        /\ \A v : Translate(v)' = Translate(v)
    BY DEF TranslateKey, Translate
  <1>2. /\ temp'.objs = temp.objs /\ temp'.status[k] = "FINAL"
        /\ DOMAIN temp.status = DOMAIN temp.objs
        /\ \A x \in DOMAIN temp.objs \ {k} : temp'.status[x] = temp.status[x]
    BY DEF TempInv, Statuses
  <1>3. Processed' = Processed \cup {k}
    BY <1>2 DEF Processed
  <1>4. TranslateObject(temp.objs[k])' = TranslateObject(temp.objs[k])
    BY <1>2 DEF TranslateObject, Translate
  <1>5. \A x \in Processed : current'.objs[TranslateKey(x)] = current.objs[TranslateKey(x)]
    BY DEF MatchInv
  <1>6. ASSUME NEW x \in Processed' \ Processed PROVE current'.objs[TranslateKey(x)'] = TranslateObject(temp.objs[x])'
    BY <1>1, <1>3, <1>4
  <1>7. \A x \in DOMAIN temp'.objs : temp'.status[x] = "MATCHED" =>
              x \in DOMAIN temp.objs /\ temp.status[x] = "MATCHED" /\ temp'.objs[x] = temp.objs[x]
    BY <1>2
  <1>8. \A x \in DOMAIN temp'.objs \ Oids : x \in DOMAIN temp.objs /\ temp'.objs[x].up = temp.objs[x].up
    BY <1>2
  <1>9. \A x \in Processed :
              /\ temp'.objs[x] = temp.objs[x] /\ TranslateKey(x)' = TranslateKey(x)
              /\ \A v \in {temp.objs[x].up, temp.objs[x].ref} : Translate(v)' = Translate(v)
              /\ current'.objs[TranslateKey(x)] = current.objs[TranslateKey(x)]
    BY <1>1, <1>2, <1>5
  <1> QED
    BY <1>6, <1>7, <1>8, <1>9, ValuesFrom

\* No attribute of a processed object holds the id of a new one that is not.
LEMMA NotYetUsed ==
    ASSUME Matching, ViewInv(current), NEW k \in Oids \cap DOMAIN temp.objs, temp.status[k] = "NOT_PROCESSED",
           NEW x \in Processed
    PROVE  temp.objs[x].up # k /\ temp.objs[x].ref # k
  <1> SUFFICES ASSUME temp.objs[x].up = k \/ temp.objs[x].ref = k PROVE FALSE
    OBVIOUS
  <1>0. TempInv /\ NewRefs /\ RidInv /\ MatchInv /\ StartInv
    BY DEF Matching
  <1>1. k \in RefsOf(x, temp.objs[x]) /\ k \notin Processed
    BY RefsAre DEF Processed
  <1>2. x \in DOMAIN vidToRid /\ vidToRid[x] = x /\ k = current.objs[x].up
    BY <1>0, <1>1 DEF NewRefs
  <1>3. x \in DOMAIN current.objs
    BY <1>0, <1>2, KeptIsFinal
  <1>4. k \in DOMAIN current.objs
    BY <1>2, <1>3, RefsAre DEF ViewInv, Closed
  <1> QED
    BY <1>0, <1>4, NewIds

\* An object on the ASIC from the start that has not been changed yet: its group has
\* the same id in both views.
LEMMA StartUp ==
    ASSUME Matching, NEW k \in DOMAIN atStart, atStart[k].up \in Groups
    PROVE  Translate(atStart[k].up) = atStart[k].up
  <1> DEFINE u == atStart[k].up
  <1>1. u \in Oids /\ u \in DOMAIN atStart
    <2>1. u \in RefsOf(k, atStart[k])
      BY RefsAre DEF Oids
    <2> QED
      BY <2>1 DEF Matching, StartInv, Closed, RefsOf
  <1>2. u \in DOMAIN vidToRid => vidToRid[u] = u
    BY <1>1 DEF Matching, StartInv, RidInv
  <1> QED
    BY <1>2 DEF Translate

\* After a match.
LEMMA ValuesUpdate ==
    ASSUME Matching, ViewInv(current), IssueInv(current), FinalInv(current), ValuesInv,
           NEW k \in DOMAIN temp.objs, temp.status[k] # "FINAL",
           RefsOf(k, temp.objs[k]) \subseteq Processed, NEW c \in BestMatches(k), SetTransitionPasses(k, c), NEW obj,
           IsUpdate(k, c, obj), UNCHANGED atStart,
           current'.objs[c] = [up |-> current.objs[c].up, ref |-> Translate(temp.objs[k].ref),
                               val |-> current.objs[c].val],
           \A x \in DOMAIN current.objs \ {c} : current'.objs[x] = current.objs[x]
    PROVE  ValuesInv'
  <1> DEFINE t == temp.objs[k]
             o == current.objs[c]
  <1>0. TempInv /\ NewRefs /\ RidInv /\ MatchInv /\ StartInv
    BY DEF Matching
  <1>1. /\ c \in DOMAIN current.objs /\ current.status[c] # "FINAL"
        /\ temp.status[k] = "MATCHED" => c = k /\ current.status[c] = "MATCHED" /\ k \in Oids
        /\ temp.status[k] # "MATCHED" => current.status[c] = "NOT_PROCESSED"
        /\ k \notin Oids => c = TranslateKey(k) /\ c \notin Oids
    BY BestMatchIs
  <1>2. t \in Objects /\ o \in Objects /\ k \in Keys /\ c \in Keys
    BY <1>0, <1>1 DEF TempInv, ViewInv, IsAsicView
  <1>3. c \in DOMAIN atStart /\ o = atStart[c]
    <2>1. \A b \in Issued(current) : b.key # c
      BY <1>1, NoOperation
    <2>2. Applied(atStart, Issued(current), current.objs)
      BY DEF IssueInv, OpsInv
    <2> QED
      BY <1>1, <1>2, <2>1, <2>2, Untouched
  <1>4. \A v : (v # k \/ temp.status[k] = "MATCHED") => Translate(v)' = Translate(v)
    <2>1. CASE temp.status[k] = "MATCHED"
      <3>1. Translate(k)' = k /\ Translate(k) = k
        BY <1>0, <1>1, <2>1 DEF IsUpdate, RidInv, Translate
      <3> QED
        BY <3>1 DEF IsUpdate
    <2> QED
      BY <2>1 DEF IsUpdate
  <1>5. ASSUME NEW x \in Processed
        PROVE  /\ temp'.objs[x] = temp.objs[x] /\ TranslateKey(x)' = TranslateKey(x)
               /\ \A v \in {temp.objs[x].up, temp.objs[x].ref} : Translate(v)' = Translate(v)
               /\ current'.objs[TranslateKey(x)] = current.objs[TranslateKey(x)]
    <2>1. temp'.objs[x] = temp.objs[x] /\ TranslateKey(x)' = TranslateKey(x)
      BY DEF IsUpdate, Processed
    <2>2. current'.objs[TranslateKey(x)] = current.objs[TranslateKey(x)]
      BY <1>0, <1>1 DEF MatchInv
    <2>3. CASE temp.status[k] = "MATCHED"
      BY <1>4, <2>1, <2>2, <2>3
    <2>4. CASE temp.status[k] # "MATCHED"
      <3>1. temp.objs[x].up # k /\ temp.objs[x].ref # k
        <4>1. CASE k \in Oids
          <5>1. temp.status[k] = "NOT_PROCESSED"
            BY <1>0, <2>4 DEF TempInv, Statuses
          <5> QED
            BY <4>1, <5>1, NotYetUsed
        <4>2. CASE k \notin Oids
          <5>1. temp.objs[x].up \in Groups \cup {Absent} /\ temp.objs[x].ref \in Groups \cup {NullId}
            BY <1>0, ObjectFacts DEF TempInv, Processed
          <5> QED
            BY <1>2, <4>2, <5>1, KindsAssumption DEF Oids
        <4> QED
          BY <4>1, <4>2
      <3> QED
        BY <1>4, <2>1, <2>2, <3>1
    <2> QED
      BY <2>3, <2>4
  <1>7. /\ t.up \in Groups \cup {Absent} /\ t.ref \in Groups \cup {NullId} /\ o.up \in Groups \cup {Absent}
        /\ k # Absent /\ k # NullId
    BY <1>2, ObjectFacts, KindsAssumption
  <1>8. (t.up # k \/ temp.status[k] = "MATCHED") /\ (t.ref # k \/ temp.status[k] = "MATCHED")
    <2>1. k \notin Processed
      BY DEF Processed
    <2>2. ASSUME NEW v \in Groups, v = k PROVE v \notin RefsOf(k, t)
      BY <2>1, <2>2
    <2>3. t.up \in Groups => t.up \in RefsOf(k, t)
      BY RefsAre DEF Oids
    <2>4. t.ref \in Groups => t.ref \in RefsOf(k, t)
      BY RefsAre DEF Oids
    <2> QED
      BY <1>7, <2>2, <2>3, <2>4
  <1>9. obj.ref = t.ref /\ Translate(obj.ref)' = Translate(obj.ref)
    BY <1>4, <1>8 DEF IsUpdate
  <1>10. Translate(obj.up)' = o.up /\ obj.val = o.val
    <2>1. CASE temp.status[k] = "MATCHED"
      <3>1. c = k /\ t.up \in {Absent, o.up} /\ t.val \in {Absent, o.val}
        BY <1>1, <1>3, <2>1 DEF ValuesInv
      <3>2. obj.up = o.up /\ obj.val = o.val
        BY <2>1, <3>1 DEF IsUpdate
      <3>3. Translate(o.up)' = Translate(o.up)
        BY <1>4, <2>1
      <3>4. Translate(o.up) = o.up
        BY <1>0, <1>3, <1>7, StartUp, TranslateIs
      <3> QED
        BY <3>2, <3>3, <3>4
    <2>2. CASE temp.status[k] # "MATCHED"
      <3>1. obj = t /\ t.val = o.val
        BY <2>2 DEF IsUpdate, SetTransitionPasses
      <3>2. Translate(obj.up)' = Translate(obj.up)
        BY <1>4, <1>8, <3>1
      <3>3. Translate(t.up) = o.up
        <4>1. CASE k \in Oids
          BY <2>2, <4>1 DEF BestMatches
        <4>2. CASE k \notin Oids
          <5>1. t.up = Absent /\ o.up = Absent
            BY <1>1, <1>3, <4>2 DEF ValuesInv
          <5> QED
            BY <1>0, <5>1, TranslateIs
        <4> QED
          BY <4>1, <4>2
      <3> QED
        BY <3>1, <3>2, <3>3
    <2> QED
      BY <2>1, <2>2
  <1> HIDE DEF t, o
  <1>11. current'.objs[c] = TranslateObject(temp.objs[k])'
    <2>1. temp'.objs[k] = obj /\ obj \in Objects
      BY DEF IsUpdate
    <2>2. TranslateObject(temp.objs[k])' = [obj EXCEPT !.up = Translate(obj.up)', !.ref = Translate(obj.ref)']
      BY <2>1 DEF TranslateObject, Translate
    <2>3. Translate(obj.ref)' = Translate(t.ref)
      BY <1>9
    <2>4. TranslateObject(temp.objs[k])' = [up |-> o.up, ref |-> Translate(t.ref), val |-> o.val]
      <3> DEFINE u == Translate(obj.up)'
                 r == Translate(obj.ref)'
      <3>1. obj = [up |-> obj.up, ref |-> obj.ref, val |-> obj.val]
        BY <2>1, ObjectFacts
      <3>2. TranslateObject(temp.objs[k])' = [obj EXCEPT !.up = u, !.ref = r]
        BY <2>2
      <3> HIDE DEF u, r
      <3>3. TranslateObject(temp.objs[k])' = [up |-> u, ref |-> r, val |-> obj.val]
        BY <3>1, <3>2
      <3> QED
        BY <1>10, <2>3, <3>3 DEF u, r
    <2> QED
      BY <2>4 DEF t, o
  <1>12. ASSUME NEW x \in Processed' \ Processed PROVE current'.objs[TranslateKey(x)'] = TranslateObject(temp.objs[x])'
    <2>1. x = k /\ TranslateKey(k)' = c
      BY DEF IsUpdate
    <2> QED
      BY <1>11, <2>1
  <1>13. \A x \in DOMAIN temp'.objs : temp'.status[x] = "MATCHED" =>
              x \in DOMAIN temp.objs /\ temp.status[x] = "MATCHED" /\ temp'.objs[x] = temp.objs[x]
    BY DEF IsUpdate
  <1>14. \A x \in DOMAIN temp'.objs \ Oids : x \in DOMAIN temp.objs /\ temp'.objs[x].up = temp.objs[x].up
    <2>1. k \notin Oids => temp'.objs[k] = temp.objs[k]
      BY <1>1 DEF IsUpdate
    <2> QED
      BY <2>1 DEF IsUpdate
  <1> QED
    BY <1>5, <1>12, <1>13, <1>14, ValuesFrom

\* What is kept though nothing of the temporary view was matched to it is a group
\* that some final object still belongs to.
LEMMA KeptAreGroups ==
    ASSUME Matching, ViewInv(current), Processed = DOMAIN temp.objs, Removable = {},
           NEW c \in DOMAIN current.objs, current.status[c] = "NOT_PROCESSED"
    PROVE  c \in Groups /\ c \notin DOMAIN temp.objs /\ c \in DOMAIN atStart
  <1>0. TempInv /\ NewRefs /\ RidInv /\ MatchInv /\ StartInv
    BY DEF Matching
  <1>1. c \in Oids /\ current.m_vidReference[c] # 0
    BY DEF Removable
  <1>2. c \in DOMAIN atStart
    BY <1>0 DEF StartInv
  <1>3. c \notin DOMAIN temp.objs
    <2> SUFFICES ASSUME c \in DOMAIN temp.objs PROVE FALSE
      OBVIOUS
    <2>1. c \in DOMAIN vidToRid /\ vidToRid[c] = c
      BY <1>0, <1>1, <1>2 DEF StartInv
    <2>2. current.status[c] = "FINAL"
      BY <1>0, <2>1, KeptIsFinal
    <2> QED
      BY <2>2
  <1>4. c \notin Ports
    BY <1>0, <1>3 DEF StartInv
  <1>5. ASSUME c \in Members PROVE FALSE
    <2>1. Count(current.objs, c) # 0
      BY <1>1 DEF ViewInv, Counted
    <2>2. IsFiniteSet(DOMAIN current.objs) /\ DOMAIN current.objs \subseteq Keys
      BY DEF ViewInv, IsAsicView
    <2>3. PICK x \in DOMAIN current.objs : c \in RefsOf(x, current.objs[x])
      <3> DEFINE objs == current.objs
      <3>1. Count(objs, c) = 0 <=> \A k \in DOMAIN objs : c \notin RefsOf(k, objs[k])
        BY <1>1, <2>2, ZeroIsUnused
      <3> QED
        BY <2>1, <3>1
    <2>4. x = Entry(c)
      <3>1. current.objs[x] \in Objects
        BY DEF ViewInv, IsAsicView
      <3>2. current.objs[x].up \in Groups \cup {Absent} /\ current.objs[x].ref \in Groups \cup {NullId}
        BY <3>1, ObjectFacts
      <3>3. c \notin Groups /\ c # Absent /\ c # NullId
        BY <1>1, <1>5, KindsAssumption DEF Keys
      <3> QED
        BY <2>3, <3>2, <3>3, RefsAre
    <2>5. x \notin Oids
      BY <1>1, <2>4, KindsAssumption
    <2>6. current.status[x] = "FINAL"
      <3>1. current.status[x] # "NOT_PROCESSED"
        BY <2>5 DEF Removable
      <3>2. current.status[x] # "MATCHED"
        BY <1>0, <2>5 DEF RidInv
      <3> QED
        BY <3>1, <3>2 DEF ViewInv, IsAsicView, Statuses
    <2>7. PICK l \in Processed : TranslateKey(l) = x
      BY <1>0, <2>6 DEF MatchInv
    <2>8. l \in Keys /\ l \notin Oids
      BY <1>0, <2>5, <2>7, TranslateKeyIs DEF TempInv, Processed
    <2>9. l = Entry(l[2]) /\ l[2] \in Oids /\ x = Entry(Translate(l[2]))
      BY <1>0, <2>7, <2>8, KeyIs, TranslateKeyIs
    <2>10. l[2] \in Processed
      <3>1. l[2] \in RefsOf(l, temp.objs[l])
        BY <2>9, RefsAre
      <3> QED
        BY <1>0, <2>8, <3>1 DEF NewRefs, RidInv
    <2>11. Translate(l[2]) = c
      BY <2>4, <2>9 DEF Entry
    <2>12. TranslateKey(l[2]) = c
      BY <2>9, <2>11 DEF TranslateKey
    <2> QED
      BY <1>0, <2>10, <2>12 DEF MatchInv
  <1> QED
    BY <1>1, <1>2, <1>3, <1>4, <1>5 DEF Oids

\* The objects that stay are transferred to the temporary view.
LEMMA TransferStep ==
    ASSUME Matching, ViewInv(current), Processed = DOMAIN temp.objs, TransferNotProcessed,
           ValuesInv, IssueInv(current), FinalInv(current)
    PROVE  /\ ViewInv(current') /\ Matching' /\ Processed' = DOMAIN temp'.objs
           /\ ValuesInv' /\ IssueInv(current') /\ FinalInv(current')
           /\ \A c \in DOMAIN current'.objs : current'.status[c] = "FINAL"
  <1> DEFINE kept == {k \in DOMAIN current.objs : current.status[k] = "NOT_PROCESSED"}
             status == Override(current.status, [k \in kept |-> "FINAL"])
  <1>0. TempInv /\ NewRefs /\ RidInv /\ MatchInv /\ StartInv
    BY DEF Matching
  <1>1. kept \subseteq Groups /\ kept \cap DOMAIN temp.objs = {} /\ kept \subseteq DOMAIN atStart
        /\ kept \subseteq DOMAIN current.objs
    BY KeptAreGroups DEF TransferNotProcessed
  <1>2. /\ current' = [current EXCEPT !.status = status]
        /\ temp' = [temp EXCEPT !.objs = Override(temp.objs, [k \in kept |-> current.objs[k]]),
                                !.status = Override(temp.status, [k \in kept |-> "FINAL"])]
        /\ vidToRid' = Override(vidToRid, [k \in kept |-> k])
        /\ atStart' = atStart
    BY <1>0 DEF TransferNotProcessed, ViewInv, IsAsicView, HasFields, TempInv
  <1>3. \A c \in DOMAIN current.objs : current.status[c] # "MATCHED"
    BY <1>0 DEF RidInv, Processed
  <1>4. /\ status \in [DOMAIN current.objs -> Statuses]
        /\ \A c \in DOMAIN current.objs : status[c] = "FINAL"
    <2>1. current.status \in [DOMAIN current.objs -> Statuses]
      BY DEF ViewInv, IsAsicView
    <2> QED
      BY <1>1, <1>3, <2>1 DEF Override, Statuses
  <1>5. ViewInv(current') /\ current'.objs = current.objs /\ current'.status = status
    <2> HIDE DEF status
    <2>1. status \in [DOMAIN current.objs -> Statuses]
      BY <1>4
    <2>2. LET w == [current EXCEPT !.status = status]
          IN  ViewInv(w) /\ w.objs = current.objs /\ w.status = status
      BY <2>1, StatusKeeps
    <2> QED
      BY <1>2, <2>2
  <1>6. /\ temp' = [objs |-> temp'.objs, status |-> temp'.status]
        /\ temp'.objs = Override(temp.objs, [k \in kept |-> current.objs[k]])
        /\ temp'.status = Override(temp.status, [k \in kept |-> "FINAL"])
    <2> DEFINE os == Override(temp.objs, [k \in kept |-> current.objs[k]])
               ss == Override(temp.status, [k \in kept |-> "FINAL"])
    <2>1. temp = [objs |-> temp.objs, status |-> temp.status]
      BY <1>0 DEF TempInv
    <2>2. temp' = [temp EXCEPT !.objs = os, !.status = ss]
      BY <1>2
    <2> HIDE DEF os, ss
    <2>3. temp' = [objs |-> os, status |-> ss]
      BY <2>1, <2>2
    <2>4. temp'.objs = os /\ temp'.status = ss
      BY <2>3
    <2> QED
      BY <2>3, <2>4 DEF os, ss
  <1> HIDE DEF status
  <1>7. /\ DOMAIN temp'.objs = DOMAIN temp.objs \cup kept
        /\ temp'.objs \in [DOMAIN temp'.objs -> Objects]
        /\ \A k \in DOMAIN temp.objs : temp'.objs[k] = temp.objs[k]
        /\ \A k \in kept : temp'.objs[k] = current.objs[k]
    <2>1. temp.objs \in [DOMAIN temp.objs -> Objects] /\ \A k \in kept : current.objs[k] \in Objects
      BY <1>0 DEF TempInv, ViewInv, IsAsicView
    <2> HIDE DEF kept
    <2> QED
      BY <1>1, <1>6, <2>1 DEF Override
  <1>8. /\ temp'.status \in [DOMAIN temp'.objs -> Statuses]
        /\ \A k \in DOMAIN temp'.objs : temp'.status[k] = "FINAL"
    <2>1. DOMAIN temp.status = DOMAIN temp.objs /\ \A k \in DOMAIN temp.objs : temp.status[k] = "FINAL"
      BY <1>0 DEF TempInv, Processed
    <2> HIDE DEF kept
    <2> QED
      BY <1>6, <1>7, <2>1 DEF Override, Statuses
  <1>9. Processed' = DOMAIN temp'.objs
    BY <1>8 DEF Processed
  <1>10. /\ DOMAIN vidToRid' = DOMAIN vidToRid \cup kept
         /\ \A v \in kept : vidToRid'[v] = v
         /\ \A v \in DOMAIN vidToRid : v \notin kept /\ vidToRid'[v] = vidToRid[v]
         /\ vidToRid' \in [DOMAIN vidToRid' -> Oids]
    <2>1. DOMAIN vidToRid \subseteq DOMAIN temp.objs /\ vidToRid \in [DOMAIN vidToRid -> Oids]
      BY <1>0 DEF RidInv
    <2>2. kept \subseteq Oids
      BY <1>1 DEF Oids
    <2> HIDE DEF kept
    <2> QED
      BY <1>1, <1>2, <2>1, <2>2 DEF Override
  <1>11. /\ \A v : v \notin kept => Translate(v)' = Translate(v)
         /\ \A v \in kept : Translate(v)' = v
    BY <1>10 DEF Translate
  <1>12. /\ \A x \in kept : TranslateKey(x)' = x
         /\ \A x \in Processed : TranslateKey(x)' = TranslateKey(x)
    <2>1. ASSUME NEW x \in kept PROVE TranslateKey(x)' = x
      <3>1. x \in Oids
        BY <1>1 DEF Oids
      <3> QED
        BY <1>11, <3>1 DEF TranslateKey
    <2>2. ASSUME NEW x \in Processed PROVE TranslateKey(x)' = TranslateKey(x)
      <3>1. CASE x \in Oids
        BY <1>1, <1>11, <3>1 DEF TranslateKey
      <3>2. CASE x \notin Oids
        <4>1. x \in Keys
          BY <1>0 DEF TempInv, Processed
        <4>2. x[2] \in RefsOf(x, temp.objs[x])
          BY <3>2, <4>1, KeyIs, RefsAre
        <4>3. x[2] \in Processed
          BY <1>0, <3>2, <4>2 DEF NewRefs, RidInv
        <4>4. Translate(x[2])' = Translate(x[2])
          BY <1>1, <1>11, <4>3
        <4>5. TranslateKey(x)' = Entry(Translate(x[2])') /\ TranslateKey(x) = Entry(Translate(x[2]))
          BY <3>2 DEF TranslateKey
        <4> QED
          BY <4>4, <4>5
      <3> QED
        BY <3>1, <3>2
    <2> QED
      BY <2>1, <2>2
  <1>13. TempInv'
    <2>1. NoGroupLinks(temp'.objs)
      <3>1. NoGroupLinks(temp.objs) /\ NoGroupLinks(current.objs)
        BY <1>0 DEF TempInv, ViewInv
      <3> QED
        BY <1>1, <1>7, <3>1 DEF NoGroupLinks
    <2>2. DOMAIN temp'.objs \subseteq Keys /\ IsFiniteSet(DOMAIN temp'.objs)
      <3>1. IsFiniteSet(DOMAIN current.objs) /\ DOMAIN current.objs \subseteq Keys
        BY DEF ViewInv, IsAsicView
      <3>2. IsFiniteSet(DOMAIN temp.objs) /\ DOMAIN temp.objs \subseteq Keys
        BY <1>0 DEF TempInv
      <3>3. IsFiniteSet(kept)
        BY <1>1, <3>1, FS_Subset
      <3>4. IsFiniteSet(DOMAIN temp.objs \cup kept)
        BY <3>2, <3>3, FS_Union
      <3> QED
        BY <1>1, <1>7, <3>1, <3>2, <3>4
    <2> QED
      BY <1>6, <1>7, <1>8, <1>9, <2>1, <2>2 DEF TempInv
  <1>14. NewRefs'
    <2> SUFFICES ASSUME NEW x \in DOMAIN temp.objs \cup kept, NEW v \in RefsOf(x, temp'.objs[x]),
                        v \notin DOMAIN temp.objs
                 PROVE  /\ x \in DOMAIN vidToRid' /\ vidToRid'[x] = x
                        /\ v = temp'.objs[x].up /\ v = current.objs[x].up
      BY <1>5, <1>7, <1>9 DEF NewRefs
    <2>1. CASE x \in kept
      <3>1. x \in Groups /\ x \in Oids /\ current.objs[x].up = Absent /\ current.objs[x].ref = NullId
        BY <1>1, <2>1 DEF ViewInv, NoGroupLinks, Oids
      <3>2. v \in Oids /\ (Absent = v \/ NullId = v \/ x = Entry(v))
        BY <1>7, <2>1, <3>1, RefsAre
      <3> QED
        BY <3>1, <3>2, KindsAssumption DEF Keys
    <2>2. CASE x \notin kept
      <3>1. x \in DOMAIN temp.objs /\ temp'.objs[x] = temp.objs[x]
        BY <1>7, <2>2
      <3>2. /\ x \in DOMAIN vidToRid /\ vidToRid[x] = x
            /\ v = temp.objs[x].up /\ v = current.objs[x].up
        BY <1>0, <3>1 DEF NewRefs
      <3> QED
        BY <1>10, <3>1, <3>2
    <2> QED
      BY <2>1, <2>2
  <1>15. RidInv'
    <2>1. DOMAIN vidToRid' \subseteq Oids \cap DOMAIN temp'.objs
      BY <1>0, <1>1, <1>7, <1>10 DEF RidInv, Oids
    <2>2. ASSUME NEW v \in DOMAIN vidToRid'
          PROVE  /\ temp'.status[v] # "NOT_PROCESSED"
                 /\ v \in Ports <=> vidToRid'[v] \in Ports
                 /\ v \in Groups <=> vidToRid'[v] \in Groups
                 /\ v \in Members <=> vidToRid'[v] \in Members
      <3>1. temp'.status[v] = "FINAL"
        BY <1>8, <2>1
      <3>2. CASE v \in kept
        BY <1>10, <3>1, <3>2
      <3>3. CASE v \notin kept
        BY <1>0, <1>10, <3>1, <3>3 DEF RidInv
      <3> QED
        BY <3>2, <3>3
    <2>3. \A c \in DOMAIN current'.objs : current'.status[c] # "MATCHED"
      BY <1>4, <1>5
    <2>4. \A x \in DOMAIN temp'.objs : temp'.status[x] # "MATCHED"
      BY <1>8
    <2> QED
      BY <1>10, <2>1, <2>2, <2>3, <2>4 DEF RidInv
  <1>16. MatchInv'
    <2>1. ASSUME NEW x \in DOMAIN temp.objs \cup kept
          PROVE  TranslateKey(x)' \in DOMAIN current.objs /\ status[TranslateKey(x)'] = "FINAL"
      <3>1. TranslateKey(x)' \in DOMAIN current.objs
        BY <1>0, <1>12 DEF MatchInv
      <3> QED
        BY <1>4, <3>1
    <2>2. ASSUME NEW d \in DOMAIN current.objs
          PROVE  \E x \in DOMAIN temp.objs \cup kept : TranslateKey(x)' = d
      <3>1. CASE d \in kept
        BY <1>12, <3>1
      <3>2. CASE d \notin kept
        <4>1. current.status[d] = "FINAL"
          BY <1>3, <3>2 DEF ViewInv, IsAsicView, Statuses
        <4>2. PICK x \in Processed : TranslateKey(x) = d
          BY <1>0, <4>1 DEF MatchInv
        <4> QED
          BY <1>12, <4>2
      <3> QED
        BY <3>1, <3>2
    <2>3. ASSUME NEW v \in Oids \cap (DOMAIN temp.objs \cup kept), NEW w \in Oids \cap (DOMAIN temp.objs \cup kept),
                 Translate(v)' = Translate(w)'
          PROVE  v = w
      <3>1. ASSUME NEW u \in Oids \cap DOMAIN temp.objs PROVE Translate(u) \notin kept
        <4>1. TranslateKey(u) = Translate(u) /\ u \in Processed
          BY DEF TranslateKey
        <4> QED
          BY <1>0, <4>1 DEF MatchInv
      <3>2. CASE v \in kept /\ w \in kept
        BY <1>11, <2>3, <3>2
      <3>3. CASE v \in kept /\ w \notin kept
        BY <1>11, <2>3, <3>1, <3>3
      <3>4. CASE v \notin kept /\ w \in kept
        BY <1>11, <2>3, <3>1, <3>4
      <3>5. CASE v \notin kept /\ w \notin kept
        BY <1>0, <1>11, <2>3, <3>5 DEF MatchInv
      <3> QED
        BY <3>2, <3>3, <3>4, <3>5
    <2> HIDE DEF kept
    <2> QED
      BY <1>5, <1>7, <1>9, <2>1, <2>2, <2>3 DEF MatchInv
  <1>17. StartInv'
    <2>1. \A v \in DOMAIN vidToRid' : vidToRid'[v] \in DOMAIN atStart
      BY <1>0, <1>1, <1>10 DEF StartInv
    <2>2. \A v \in Oids \cap DOMAIN temp'.objs : v \in DOMAIN atStart => v \in DOMAIN vidToRid' /\ vidToRid'[v] = v
      BY <1>0, <1>7, <1>10 DEF StartInv
    <2>3. \A c \in DOMAIN current'.objs : current'.status[c] = "FINAL"
      BY <1>4, <1>5
    <2>4. Closed(atStart) /\ Ports \subseteq DOMAIN temp'.objs
      BY <1>0, <1>7 DEF StartInv
    <2> QED
      BY <1>2, <2>1, <2>2, <2>3, <2>4 DEF StartInv
  <1>18. ValuesInv'
    <2>1. \A v : Translate(v)' = Translate(v)
      <3>1. \A v \in kept : Translate(v) = v
        BY <1>10 DEF Translate
      <3> QED
        BY <1>11, <3>1
    <2>2. ASSUME NEW k \in Processed
          PROVE  /\ temp'.objs[k] = temp.objs[k] /\ TranslateKey(k)' = TranslateKey(k)
                 /\ \A v \in {temp.objs[k].up, temp.objs[k].ref} : Translate(v)' = Translate(v)
                 /\ current'.objs[TranslateKey(k)] = current.objs[TranslateKey(k)]
      BY <1>5, <1>7, <1>12, <2>1
    <2>3. ASSUME NEW k \in Processed' \ Processed PROVE current'.objs[TranslateKey(k)'] = TranslateObject(temp.objs[k])'
      <3>1. k \in kept
        BY <1>7, <1>9
      <3>2. /\ current'.objs[TranslateKey(k)'] = current.objs[k] /\ temp'.objs[k] = current.objs[k]
            /\ current.objs[k] \in Objects /\ current.objs[k].up = Absent /\ current.objs[k].ref = NullId
        BY <1>1, <1>5, <1>7, <1>12, <3>1 DEF ViewInv, IsAsicView, NoGroupLinks
      <3>3. DOMAIN vidToRid' \subseteq Oids
        BY <1>15 DEF RidInv
      <3>4. Absent \notin DOMAIN vidToRid' /\ NullId \notin DOMAIN vidToRid'
        BY <3>3, KindsAssumption DEF Keys
      <3>5. TranslateObject(temp.objs[k])' = [temp'.objs[k] EXCEPT !.up = Absent, !.ref = NullId]
        BY <3>2, <3>4 DEF TranslateObject, Translate
      <3>6. current.objs[k] = [up |-> Absent, ref |-> NullId, val |-> current.objs[k].val]
        BY <3>2, ObjectFacts
      <3> DEFINE o == current.objs[k]
      <3>7. o = [up |-> Absent, ref |-> NullId, val |-> o.val] /\ TranslateObject(temp.objs[k])' = [o EXCEPT !.up = Absent, !.ref = NullId]
        BY <3>2, <3>5, <3>6
      <3> HIDE DEF o
      <3>8. [o EXCEPT !.up = Absent, !.ref = NullId] = o
        BY <3>7
      <3> QED
        BY <3>2, <3>7, <3>8 DEF o
    <2>4. \A k \in DOMAIN temp'.objs \ Oids : k \in DOMAIN temp.objs /\ temp'.objs[k].up = temp.objs[k].up
      BY <1>1, <1>7 DEF Oids
    <2>5. \A k \in DOMAIN temp'.objs : temp'.status[k] # "MATCHED"
      BY <1>8
    <2> QED
      BY <1>2, <2>2, <2>3, <2>4, <2>5, ValuesFrom
  <1>19. IssueInv(current') /\ FinalInv(current')
    <2>1. HasFields(current)
      BY DEF ViewInv, IsAsicView
    <2>2. /\ current'.m_asicOperations = current.m_asicOperations
          /\ current'.m_asicRemoveOperationsNonObjectId = current.m_asicRemoveOperationsNonObjectId
          /\ current'.m_asicOperationId = current.m_asicOperationId
          /\ current'.m_vidToAsicOperationId = current.m_vidToAsicOperationId
      BY <1>2, <2>1 DEF HasFields
    <2>3. IssueInv(current') /\ Issued(current') = Issued(current)
      BY <1>5, <2>2, SameIssue
    <2> QED
      BY <1>4, <1>5, <2>3 DEF FinalInv
  <1> QED
    BY <1>4, <1>5, <1>9, <1>13, <1>14, <1>15, <1>16, <1>17, <1>18, <1>19 DEF Matching

\* A map that is onto and one to one does not change the number.
LEMMA SameSize ==
    ASSUME NEW S, NEW T, NEW f \in [S -> T], IsFiniteSet(S),
           \A x, y \in S : f[x] = f[y] => x = y, \A z \in T : \E x \in S : f[x] = z
    PROVE  Cardinality(S) = Cardinality(T)
  <1>1. f \in Surjection(S, T)
    BY DEF Surjection
  <1>2. f \in Injection(S, T)
    BY DEF Injection, IsInjective
  <1> QED
    BY <1>1, <1>2, FS_Surjection

\* The checks at the end of compareViews pass.
LEMMA ChecksPass ==
    ASSUME Matching, ViewInv(current), Processed = DOMAIN temp.objs,
           \A c \in DOMAIN current.objs : current.status[c] = "FINAL", asic = atStart
    PROVE  /\ Range(temp.status) \cup Range(current.status) \subseteq {"FINAL"}
           /\ Cardinality(CurrentRids) = Cardinality(DOMAIN vidToRid)
           /\ Cardinality(CurrentRids) = Cardinality(Range(vidToRid))
           /\ Cardinality(DOMAIN current.objs) = Cardinality(DOMAIN temp.objs)
  <1>0. TempInv /\ NewRefs /\ RidInv /\ MatchInv /\ StartInv
    BY DEF Matching
  <1>1. Range(temp.status) \cup Range(current.status) \subseteq {"FINAL"}
    BY <1>0 DEF Range, Processed, TempInv, ViewInv, IsAsicView
  <1>2. DOMAIN vidToRid \subseteq Oids \cap DOMAIN temp.objs /\ IsFiniteSet(DOMAIN vidToRid)
    <2>1. DOMAIN vidToRid \subseteq DOMAIN temp.objs /\ IsFiniteSet(DOMAIN temp.objs)
      BY <1>0 DEF RidInv, TempInv
    <2>2. IsFiniteSet(DOMAIN vidToRid)
      BY <2>1, FS_Subset
    <2> QED
      BY <1>0, <2>2 DEF RidInv
  <1>3. ASSUME NEW v \in DOMAIN vidToRid
        PROVE  v \in Oids \cap Processed /\ Translate(v) = vidToRid[v] /\ TranslateKey(v) = vidToRid[v]
    BY <1>2 DEF Translate, TranslateKey
  <1>4. CurrentRids = Range(vidToRid)
    <2>1. ASSUME NEW c \in CurrentRids PROVE c \in Range(vidToRid)
      <3>1. c \in Oids /\ c \in DOMAIN current.objs /\ c \in DOMAIN atStart
        BY DEF CurrentRids
      <3>2. PICK l \in Processed : TranslateKey(l) = c
        BY <1>0, <3>1 DEF MatchInv
      <3>3. l \in Oids /\ Translate(l) = c /\ l \in DOMAIN temp.objs
        BY <1>0, <3>1, <3>2, TranslateKeyIs DEF TempInv, Processed
      <3>4. l \in DOMAIN vidToRid
        BY <1>0, <3>1, <3>3 DEF Translate, StartInv
      <3> QED
        BY <1>3, <3>3, <3>4 DEF Range
    <2>2. ASSUME NEW v \in DOMAIN vidToRid PROVE vidToRid[v] \in CurrentRids
      BY <1>0, <1>3 DEF CurrentRids, MatchInv, StartInv, RidInv
    <2> QED
      BY <2>1, <2>2 DEF Range
  <1>5. Cardinality(DOMAIN vidToRid) = Cardinality(Range(vidToRid))
    <2>1. vidToRid \in [DOMAIN vidToRid -> Range(vidToRid)]
      BY <1>0 DEF RidInv, Range
    <2>2. \A x, y \in DOMAIN vidToRid : vidToRid[x] = vidToRid[y] => x = y
      BY <1>0, <1>3 DEF MatchInv
    <2>3. \A z \in Range(vidToRid) : \E x \in DOMAIN vidToRid : vidToRid[x] = z
      BY DEF Range
    <2> QED
      BY <1>2, <2>1, <2>2, <2>3, SameSize
  <1>6. Cardinality(DOMAIN temp.objs) = Cardinality(DOMAIN current.objs)
    <2> DEFINE f == [k \in DOMAIN temp.objs |-> TranslateKey(k)]
    <2>1. f \in [DOMAIN temp.objs -> DOMAIN current.objs]
      BY <1>0 DEF MatchInv
    <2>2. ASSUME NEW x \in DOMAIN temp.objs, NEW y \in DOMAIN temp.objs, TranslateKey(x) = TranslateKey(y)
          PROVE  x = y
      <3>1. x \in Keys /\ y \in Keys /\ (x \in Oids <=> y \in Oids)
        BY <1>0, <2>2, TranslateKeyIs DEF TempInv
      <3>2. CASE x \in Oids
        BY <1>0, <2>2, <3>1, <3>2, TranslateKeyIs DEF MatchInv
      <3>3. CASE x \notin Oids
        <4>1. /\ x = Entry(x[2]) /\ x[2] \in Oids /\ y = Entry(y[2]) /\ y[2] \in Oids
              /\ Entry(Translate(x[2])) = Entry(Translate(y[2]))
          BY <1>0, <2>2, <3>1, <3>3, KeyIs, TranslateKeyIs
        <4>2. x[2] \in RefsOf(x, temp.objs[x]) /\ y[2] \in RefsOf(y, temp.objs[y])
          BY <4>1, RefsAre
        <4>3. x[2] \in Processed /\ y[2] \in Processed
          BY <1>0, <3>1, <3>3, <4>2 DEF NewRefs, RidInv
        <4>4. Translate(x[2]) = Translate(y[2])
          BY <4>1 DEF Entry
        <4>5. x[2] = y[2]
          BY <1>0, <4>1, <4>3, <4>4 DEF MatchInv
        <4> QED
          BY <4>1, <4>5
      <3> QED
        BY <3>2, <3>3
    <2>3. \A z \in DOMAIN current.objs : \E x \in DOMAIN temp.objs : f[x] = z
      BY <1>0 DEF MatchInv
    <2>4. \A x, y \in DOMAIN temp.objs : f[x] = f[y] => x = y
      BY <2>2
    <2>5. IsFiniteSet(DOMAIN temp.objs)
      BY <1>0 DEF TempInv
    <2> HIDE DEF f
    <2> QED
      BY <2>1, <2>3, <2>4, <2>5, SameSize
  <1> QED
    BY <1>1, <1>4, <1>5, <1>6

----------------------------------------------------------------------------
(* The order of the operations *)

\* The numbers and keys of an operation.
LEMMA OperationIs ==
    ASSUME NEW a \in Operation
    PROVE  /\ a.opId \in Nat /\ a.op \in {"create", "set", "remove"} /\ a.key \in Keys /\ a.obj \in Objects
  BY DEF Operation

\* w is v with op behind position at: it is one longer, and the others keep their order.
IsInsert(v, at, op, w) ==
    /\ w \in Seq(Operation) /\ Len(w) = Len(v) + 1 /\ w[at + 1] = op
    /\ \A i \in 1 .. Len(v) : v[i] = IF i <= at THEN w[i] ELSE w[i + 1]
    /\ \A j \in 1 .. Len(w) : w[j] = IF j <= at THEN v[j] ELSE IF j = at + 1 THEN op ELSE v[j - 1]
    /\ Elements(w) = Elements(v) \cup {op}

\* That is what InsertBefore makes.
LEMMA InsertIs ==
    ASSUME NEW v \in Seq(Operation), NEW op \in Operation, NEW at \in 0 .. Len(v)
    PROVE  IsInsert(v, at, op, InsertBefore(v, at + 1, op))
  <1> SUFFICES ASSUME NEW w, w = InsertBefore(v, at + 1, op) PROVE IsInsert(v, at, op, w)
    OBVIOUS
  <1>1. /\ Len(v) \in Nat /\ \A i \in 1 .. Len(v) : v[i] \in Operation
    OBVIOUS
  <1>2. w = [j \in 1 .. Len(v) + 1 |-> IF j < at + 1 THEN v[j] ELSE IF j = at + 1 THEN op ELSE v[j - 1]]
    BY DEF InsertBefore
  <1>3. \A j \in 1 .. Len(v) + 1 : w[j] = IF j <= at THEN v[j] ELSE IF j = at + 1 THEN op ELSE v[j - 1]
    BY <1>1, <1>2
  <1>4. ASSUME NEW j \in 1 .. Len(v) + 1 PROVE w[j] \in Operation
    BY <1>1, <1>3
  <1>5. w \in Seq(Operation) /\ Len(w) = Len(v) + 1
    <2>1. w \in [1 .. Len(v) + 1 -> Operation]
      BY <1>2, <1>4
    <2>2. Len(v) + 1 \in Nat
      BY <1>1
    <2> QED
      BY <2>1, <2>2
  <1>6. \A i \in 1 .. Len(v) : v[i] = IF i <= at THEN w[i] ELSE w[i + 1]
    <2> SUFFICES ASSUME NEW i \in 1 .. Len(v) PROVE v[i] = IF i <= at THEN w[i] ELSE w[i + 1]
      OBVIOUS
    <2>1. CASE i <= at
      BY <1>1, <1>3, <2>1
    <2>2. CASE ~(i <= at)
      <3>1. i + 1 \in 1 .. Len(v) + 1 /\ ~(i + 1 <= at) /\ i + 1 # at + 1 /\ (i + 1) - 1 = i
        BY <1>1, <2>2
      <3> QED
        BY <1>3, <2>2, <3>1
    <2> QED
      BY <2>1, <2>2
  <1>7. w[at + 1] = op
    BY <1>1, <1>3
  <1>8. Elements(w) = Elements(v) \cup {op}
    <2>1. ASSUME NEW j \in 1 .. Len(w) PROVE w[j] \in Elements(v) \cup {op}
      <3>1. CASE j <= at
        BY <1>1, <1>3, <1>5, <3>1 DEF Elements
      <3>2. CASE j > at + 1
        <4>1. j - 1 \in 1 .. Len(v) /\ w[j] = v[j - 1]
          BY <1>1, <1>3, <1>5, <3>2
        <4> QED
          BY <4>1 DEF Elements
      <3>3. CASE j = at + 1
        BY <1>7, <3>3
      <3> QED
        BY <3>1, <3>2, <3>3
    <2>2. ASSUME NEW i \in 1 .. Len(v) PROVE v[i] \in Elements(w)
      <3>1. i \in 1 .. Len(w) /\ i + 1 \in 1 .. Len(w)
        BY <1>1, <1>5
      <3> QED
        BY <1>6, <3>1 DEF Elements
    <2>3. op \in Elements(w)
      <3>1. at + 1 \in 1 .. Len(w)
        BY <1>1, <1>5
      <3> QED
        BY <1>7, <3>1 DEF Elements
    <2> QED
      BY <2>1, <2>2, <2>3 DEF Elements
  <1> QED
    BY <1>3, <1>5, <1>6, <1>7, <1>8 DEF IsInsert

\* At the end of the list, too.
LEMMA AppendIs ==
    ASSUME NEW v \in Seq(Operation), NEW op \in Operation
    PROVE  Append(v, op) = InsertBefore(v, Len(v) + 1, op)
  <1> SUFFICES ASSUME NEW w, w = InsertBefore(v, Len(v) + 1, op) PROVE Append(v, op) = w
    OBVIOUS
  <1>0. Len(v) \in 0 .. Len(v)
    OBVIOUS
  <1>1. w \in Seq(Operation) /\ Len(w) = Len(v) + 1 /\ w[Len(v) + 1] = op /\ \A i \in 1 .. Len(v) : v[i] = w[i]
    <2>1. IsInsert(v, Len(v), op, w)
      BY <1>0, InsertIs
    <2>2. \A i \in 1 .. Len(v) : i <= Len(v)
      OBVIOUS
    <2> QED
      BY <2>1, <2>2 DEF IsInsert
  <1>2. Append(v, op) \in Seq(Operation) /\ Len(Append(v, op)) = Len(v) + 1
    OBVIOUS
  <1>3. \A i \in 1 .. Len(v) + 1 : Append(v, op)[i] = w[i]
    BY <1>1
  <1> QED
    BY <1>1, <1>2, <1>3

\* A new operation that comes after every break it has to wait for keeps the list
\* sorted, also when it is a remove that was moved up.
LEMMA InsertSorted ==
    ASSUME NEW v \in Seq(Operation), Sorted(v), NEW op \in Operation, NEW at \in 0 .. Len(v),
           \A i \in 1 .. Len(v) : v[i].opId # op.opId /\ (v[i].op # "remove" => v[i].opId < op.opId),
           op.op # "remove" => at = Len(v),
           op.op = "remove" =>
             \A x \in DOMAIN atStart : op.key \in RefsOf(x, atStart[x]) =>
                \E i \in 1 .. at : Breaks(atStart, v[i], x, op.key)
    PROVE  Sorted(InsertBefore(v, at + 1, op))
  <1> SUFFICES ASSUME NEW w, w = InsertBefore(v, at + 1, op) PROVE Sorted(w)
    OBVIOUS
  <1> DEFINE old(j) == IF j <= at THEN j ELSE j - 1
  <1>1. /\ w \in Seq(Operation) /\ Len(w) = Len(v) + 1 /\ w[at + 1] = op
        /\ \A i \in 1 .. Len(v) : v[i] = IF i <= at THEN w[i] ELSE w[i + 1]
        /\ \A j \in 1 .. Len(w) : w[j] = IF j <= at THEN v[j] ELSE IF j = at + 1 THEN op ELSE v[j - 1]
    <2>1. IsInsert(v, at, op, w)
      BY InsertIs
    <2> QED
      BY <2>1 DEF IsInsert
  <1>2. Len(v) \in Nat /\ op.opId \in Nat /\ \A i \in 1 .. Len(v) : v[i].opId \in Nat
    BY OperationIs
  <1>3. ASSUME NEW j \in 1 .. Len(w), j # at + 1
        PROVE  old(j) \in 1 .. Len(v) /\ w[j] = v[old(j)]
    BY <1>1, <1>2, <1>3
  <1>4. ASSUME NEW i \in 1 .. Len(w), NEW j \in 1 .. Len(w), w[i].opId = w[j].opId PROVE i = j
    <2>1. CASE i # at + 1 /\ j # at + 1
      <3>1. old(i) = old(j)
        <4>1. /\ old(i) \in 1 .. Len(v) /\ w[i] = v[old(i)]
              /\ old(j) \in 1 .. Len(v) /\ w[j] = v[old(j)]
          BY <1>3, <2>1
        <4> HIDE DEF old
        <4> QED
          BY <1>4, <4>1 DEF Sorted
      <3> QED
        BY <1>1, <1>2, <2>1, <3>1
    <2>2. CASE i # at + 1 /\ j = at + 1
      BY <1>1, <1>3, <1>4, <2>2
    <2>3. CASE i = at + 1 /\ j # at + 1
      BY <1>1, <1>3, <1>4, <2>3
    <2> QED
      BY <2>1, <2>2, <2>3
  <1>5. ASSUME NEW i \in 1 .. Len(w), NEW j \in 1 .. Len(w), w[j].op # "remove", w[i].opId <= w[j].opId
        PROVE  i <= j
    <2>1. CASE i # at + 1 /\ j # at + 1
      <3>1. old(i) <= old(j)
        <4>1. /\ old(i) \in 1 .. Len(v) /\ w[i] = v[old(i)]
              /\ old(j) \in 1 .. Len(v) /\ w[j] = v[old(j)]
          BY <1>3, <2>1
        <4> HIDE DEF old
        <4> QED
          BY <1>5, <4>1 DEF Sorted
      <3> QED
        BY <1>1, <1>2, <2>1, <3>1
    <2>2. CASE j = at + 1
      BY <1>1, <1>2, <1>5, <2>2
    <2>3. CASE i = at + 1 /\ j # at + 1
      <3>1. old(j) \in 1 .. Len(v) /\ w[j] = v[old(j)] /\ w[i] = op
        BY <1>1, <1>3, <2>3
      <3>2. v[old(j)].opId < op.opId /\ v[old(j)].opId \in Nat
        BY <1>2, <1>5, <3>1
      <3> HIDE DEF old
      <3> QED
        BY <1>2, <1>5, <3>1, <3>2
    <2> QED
      BY <2>1, <2>2, <2>3
  <1>6. ASSUME NEW j \in 1 .. Len(w), NEW x \in DOMAIN atStart, w[j].op = "remove", w[j].key \in RefsOf(x, atStart[x])
        PROVE  \E i \in 1 .. j - 1 : Breaks(atStart, w[i], x, w[j].key)
    <2>1. CASE j = at + 1
      <3>1. PICK i \in 1 .. at : Breaks(atStart, v[i], x, op.key)
        BY <1>1, <1>6, <2>1
      <3>2. w[i] = v[i] /\ i \in 1 .. j - 1
        BY <1>1, <1>2, <2>1
      <3> QED
        BY <1>1, <2>1, <3>1, <3>2
    <2>2. CASE j # at + 1
      <3>1. old(j) \in 1 .. Len(v) /\ w[j] = v[old(j)]
        BY <1>3, <2>2
      <3>2. PICK i \in 1 .. old(j) - 1 : Breaks(atStart, v[i], x, w[j].key)
        BY <1>6, <3>1 DEF Sorted
      <3>3. i \in 1 .. Len(v)
        BY <1>2, <3>1
      <3>4. PICK l \in 1 .. j - 1 : w[l] = v[i]
        <4>1. CASE i <= at
          <5>1. i \in 1 .. j - 1 /\ w[i] = v[i]
            BY <1>1, <1>2, <2>2, <3>3, <4>1
          <5> QED
            BY <5>1
        <4>2. CASE ~(i <= at)
          <5>1. i + 1 \in 1 .. j - 1 /\ w[i + 1] = v[i]
            BY <1>1, <1>2, <2>2, <3>3, <4>2
          <5> QED
            BY <5>1
        <4> QED
          BY <4>1, <4>2
      <3> QED
        BY <3>2, <3>4
    <2> QED
      BY <2>1, <2>2
  <1> QED
    BY <1>4, <1>5, <1>6 DEF Sorted

\* The list starts with the removes of entries, which nothing refers to.
LEMMA FirstSorted ==
    ASSUME NEW view, IssueInv(view)
    PROVE  /\ Sorted(view.m_asicRemoveOperationsNonObjectId)
           /\ view.m_asicRemoveOperationsNonObjectId \in Seq(Operation)
  <1> DEFINE E == view.m_asicRemoveOperationsNonObjectId
  <1>1. /\ E \in Seq(Operation)
        /\ \A i \in 1 .. Len(E) : E[i].op = "remove" /\ E[i].key \notin Oids
        /\ \A i, j \in 1 .. Len(E) : i < j => E[i].opId < E[j].opId
    BY DEF IssueInv, ListsInv
  <1> HIDE DEF E
  <1>2. \A i \in 1 .. Len(E) : E[i].opId \in Nat
    BY <1>1, OperationIs
  <1>3. \A i, j \in 1 .. Len(E) : E[i].opId = E[j].opId => i = j
    BY <1>1, <1>2
  <1>4. \A x \in DOMAIN atStart : RefsOf(x, atStart[x]) \subseteq Oids
    BY DEF RefsOf
  <1> QED
    BY <1>1, <1>3, <1>4 DEF Sorted, E

\* What was issued before the next operation is placed, it itself is not, and of what
\* is placed only removes of entries may have been issued later.
LEMMA PlacedIs ==
    ASSUME NEW view, IssueInv(view), NEW n \in Nat, n < Len(view.m_asicOperations),
           NEW op, op = view.m_asicOperations[n + 1]
    PROVE  /\ op \in Issued(view) /\ op \in Operation /\ (op.op = "remove" => op.key \in Oids)
           /\ \A b \in Issued(view) : b.opId < op.opId => b \in Placed(view, n)
           /\ \A b \in Placed(view, n) : b \in Issued(view) /\ b.opId # op.opId /\ (b.op # "remove" => b.opId < op.opId)
           /\ Placed(view, n + 1) = Placed(view, n) \cup {op}
  <1> DEFINE L == view.m_asicOperations
             E == view.m_asicRemoveOperationsNonObjectId
             O == Issued(view)
  <1>1. /\ L \in Seq(Operation) /\ E \in Seq(Operation)
        /\ \A i \in 1 .. Len(L) : L[i].op = "remove" => L[i].key \in Oids
        /\ \A i \in 1 .. Len(E) : E[i].op = "remove" /\ E[i].key \notin Oids
        /\ \A i, j \in 1 .. Len(L) : i < j => L[i].opId < L[j].opId
    BY DEF IssueInv, ListsInv
  <1>2. \A a, b \in O : a.opId = b.opId => a = b
    BY DEF IssueInv, OpsInv, Numbered
  <1>3. O = {L[i] : i \in 1 .. Len(L)} \cup {E[i] : i \in 1 .. Len(E)}
        /\ Placed(view, n) = {E[i] : i \in 1 .. Len(E)} \cup {L[i] : i \in 1 .. n}
        /\ Placed(view, n + 1) = {E[i] : i \in 1 .. Len(E)} \cup {L[i] : i \in 1 .. n + 1}
        /\ op = L[n + 1]
    BY DEF Issued, Elements, Placed
  <1> HIDE DEF L, E, O
  <1>4. Len(L) \in Nat /\ n + 1 \in 1 .. Len(L) /\ \A i \in 1 .. n : i \in 1 .. Len(L) /\ i < n + 1
    BY <1>1 DEF L
  <1>5. \A i \in 1 .. Len(L) : L[i] \in Operation /\ L[i].opId \in Nat
    BY <1>1, OperationIs
  <1>6. op \in O /\ op \in Operation /\ (op.op = "remove" => op.key \in Oids)
    BY <1>1, <1>3, <1>4, <1>5
  <1>7. ASSUME NEW b \in O, b.opId < op.opId PROVE b \in Placed(view, n)
    <2>1. ASSUME NEW i \in 1 .. Len(L), b = L[i] PROVE i \in 1 .. n
      <3>1. ~(n + 1 < i) /\ i # n + 1
        BY <1>1, <1>3, <1>4, <1>5, <1>7, <2>1
      <3> QED
        BY <1>4, <3>1
    <2> QED
      BY <1>3, <2>1
  <1>8. ASSUME NEW b \in Placed(view, n)
        PROVE  b \in O /\ b.opId # op.opId /\ (b.op # "remove" => b.opId < op.opId)
    <2>1. CASE \E i \in 1 .. Len(E) : b = E[i]
      <3>1. b \in O /\ b.op = "remove" /\ b.key \notin Oids
        BY <1>1, <1>3, <2>1
      <3> QED
        BY <1>2, <1>6, <3>1
    <2>2. ASSUME NEW i \in 1 .. n, b = L[i]
          PROVE  b \in O /\ b.opId # op.opId /\ (b.op # "remove" => b.opId < op.opId)
      <3>1. b \in O /\ b.opId < op.opId
        BY <1>1, <1>3, <1>4, <2>2
      <3>2. b.opId \in Nat /\ op.opId \in Nat
        BY <1>3, <1>4, <1>5, <2>2
      <3> QED
        BY <3>1, <3>2
    <2> QED
      BY <1>3, <2>1, <2>2
  <1>9. Placed(view, n + 1) = Placed(view, n) \cup {op}
    <2>1. 1 .. n + 1 = (1 .. n) \cup {n + 1}
      OBVIOUS
    <2> QED
      BY <1>3, <2>1
  <1> QED
    BY <1>6, <1>7, <1>8, <1>9 DEF O

\* Whoever referred to an object that is removed does so no longer: some operation
\* issued before ended it, not after the one that was remembered.
LEMMA RemoveWaits ==
    ASSUME NEW view, ViewInv(view), IssueInv(view), NEW op \in Issued(view), op.op = "remove", op.key \in Oids,
           DOMAIN atStart \subseteq Keys, atStart \in [DOMAIN atStart -> Objects]
    PROVE  LET last == view.m_vidToAsicOperationId
           IN  /\ op.key \in DOMAIN last => last[op.key] < op.opId /\ \E b \in Issued(view) : b.opId = last[op.key]
               /\ \A x \in DOMAIN atStart : op.key \in RefsOf(x, atStart[x]) =>
                    /\ op.key \in DOMAIN last
                    /\ \E b \in Issued(view) : Breaks(atStart, b, x, op.key) /\ b.opId <= last[op.key]
  <1> DEFINE O == Issued(view)
             K == op.key
             last == view.m_vidToAsicOperationId
             objs == view.objs
  <1>1. /\ Numbered(O, view.m_asicOperationId) /\ OnePerKey(O) /\ Applied(atStart, O, objs) /\ Needs(atStart, O)
        /\ LastInv(atStart, O, objs, last)
    BY DEF IssueInv, OpsInv
  <1>2. Closed(objs)
    BY DEF ViewInv
  <1> HIDE DEF O, last, objs
  <1>3. K \in Keys /\ op \in O
    BY DEF Keys, O
  <1>4. K \notin DOMAIN objs
    <2>1. ~Created(O, K)
      BY <1>1, <1>3 DEF OnePerKey, Created
    <2>2. Removed(O, K)
      BY <1>3 DEF Removed
    <2> QED
      BY <1>1, <1>3, <2>1, <2>2 DEF Applied
  <1>5. \A y \in DOMAIN objs : K \notin RefsOf(y, objs[y])
    BY <1>2, <1>4 DEF Closed
  <1>6. K \in DOMAIN last => last[K] < op.opId /\ \E b \in O : b.opId = last[K]
    BY <1>1, <1>3 DEF LastInv
  <1>7. ASSUME NEW x \in DOMAIN atStart, K \in RefsOf(x, atStart[x])
        PROVE  K \in DOMAIN last /\ \E b \in O : Breaks(atStart, b, x, K) /\ b.opId <= last[K]
    <2>1. PICK b \in O : Breaks(atStart, b, x, K)
      <3>1. CASE Removed(O, x)
        BY <3>1 DEF Removed, Breaks
      <3>2. CASE ~Removed(O, x)
        <4>1. x \in Keys /\ x \in DOMAIN objs
          BY <1>1, <3>2 DEF Applied
        <4>2. ~Created(O, x)
          BY <1>1, <3>2 DEF Needs, Created, Removed
        <4>3. objs[x] # atStart[x]
          BY <1>5, <1>7, <4>1
        <4>4. PICK a \in O : a.op = "set" /\ a.key = x
          BY <1>1, <4>1, <4>2, <4>3 DEF Applied, Changed
        <4>5. objs[x] = [atStart[x] EXCEPT !.ref = a.obj.ref]
          BY <1>1, <4>4 DEF Applied
        <4>6. atStart[x] = [up |-> atStart[x].up, ref |-> atStart[x].ref, val |-> atStart[x].val]
          BY ObjectFacts
        <4>7. objs[x].up = atStart[x].up
          BY <4>5, <4>6
        <4>8. atStart[x].up # K /\ x # Entry(K)
          BY <1>5, <4>1, <4>7, RefsAre
        <4> QED
          BY <4>4, <4>8 DEF Breaks
      <3> QED
        BY <3>1, <3>2
    <2> QED
      BY <1>1, <1>5, <1>7, <2>1 DEF LastInv
  <1> QED
    BY <1>6, <1>7 DEF O, last

\* The list the next operation is placed on stays sorted, and the operation that freed
\* an object is on it when the object's remove is placed.
LEMMA OrderStep ==
    ASSUME NEW view, ViewInv(view), IssueInv(view), NEW acc, IsOrdered(acc),
           NEW n \in Nat, n < Len(view.m_asicOperations), Elements(acc.v) = Placed(view, n),
           NEW op, op = view.m_asicOperations[n + 1],
           DOMAIN atStart \subseteq Keys, atStart \in [DOMAIN atStart -> Objects]
    PROVE  /\ ~Lost(view, acc, op)
           /\ LET w == PlaceOperation(view, acc, op)
              IN  IsOrdered(w) /\ Elements(w.v) = Placed(view, n + 1)
  <1> DEFINE last == view.m_vidToAsicOperationId
             v == acc.v
             K == op.key
             pos == PositionOf(v, last[K])
             at == IF K \notin DOMAIN last \/ pos < acc.index THEN acc.index ELSE pos
             O == Issued(view)
  <1>1. /\ op \in O /\ op \in Operation /\ (op.op = "remove" => K \in Oids)
        /\ \A b \in O : b.opId < op.opId => b \in Elements(v)
        /\ \A b \in Elements(v) : b \in O /\ b.opId # op.opId /\ (b.op # "remove" => b.opId < op.opId)
        /\ Placed(view, n + 1) = Elements(v) \cup {op}
    BY PlacedIs
  <1>2. /\ acc = [v |-> v, index |-> acc.index] /\ v \in Seq(Operation) /\ acc.index \in 0 .. Len(v) /\ Sorted(v)
    BY DEF IsOrdered
  <1>3. Len(v) \in Nat /\ acc.index \in Nat /\ DOMAIN v = 1 .. Len(v)
        /\ Elements(v) = {v[i] : i \in 1 .. Len(v)}
    BY <1>2 DEF Elements
  <1>4. op.op = "remove" =>
          /\ K \in DOMAIN last => last[K] < op.opId /\ \E b \in O : b.opId = last[K]
          /\ \A x \in DOMAIN atStart : K \in RefsOf(x, atStart[x]) =>
               /\ K \in DOMAIN last
               /\ \E b \in O : Breaks(atStart, b, x, K) /\ b.opId <= last[K]
    BY <1>1, RemoveWaits
  <1>5. \A b \in O : b.opId \in Nat
    BY DEF IssueInv, OpsInv, Numbered, Operation
  <1> HIDE DEF last, O, v, at, pos
  <1>6. ASSUME op.op = "remove", K \in DOMAIN last
        PROVE  pos \in 1 .. Len(v) /\ v[pos].opId = last[K] /\ last[K] \in Nat
    <2>1. PICK b \in O : b.opId = last[K] /\ b.opId < op.opId
      BY <1>4, <1>6
    <2>2. PICK i \in DOMAIN v : v[i].opId = last[K]
      BY <1>1, <1>3, <2>1
    <2> QED
      BY <1>3, <1>5, <2>1, <2>2 DEF pos, PositionOf
  <1>7. ~Lost(view, acc, op)
    <2> SUFFICES ASSUME Lost(view, acc, op) PROVE FALSE
      OBVIOUS
    <2>1. op.op = "remove" /\ K \in DOMAIN last /\ \A i \in DOMAIN v : v[i].opId # last[K]
      BY DEF Lost, IsRemove, last, v
    <2> QED
      BY <1>3, <1>6, <2>1
  <1>8. ASSUME op.op = "remove", NEW x \in DOMAIN atStart, K \in RefsOf(x, atStart[x])
        PROVE  \E i \in 1 .. Len(v) : Breaks(atStart, v[i], x, K) /\ v[i].opId <= last[K]
    <2>1. K \in DOMAIN last /\ last[K] < op.opId
      BY <1>4, <1>8
    <2>2. PICK b \in O : Breaks(atStart, b, x, K) /\ b.opId <= last[K]
      BY <1>4, <1>8
    <2>3. b.opId < op.opId
      BY <1>1, <1>5, <1>6, <1>8, <2>1, <2>2
    <2> QED
      BY <1>1, <1>3, <2>2, <2>3
  <1>9. \A i \in 1 .. Len(v) : v[i].opId # op.opId /\ (v[i].op # "remove" => v[i].opId < op.opId)
    BY <1>1, <1>3
  <1> DEFINE w == PlaceOperation(view, acc, op)
  <1>10. CASE op.op # "remove" \/ (K \in DOMAIN last /\ v[pos].op = "remove")
    <2>1. w = [acc EXCEPT !.v = Append(v, op)]
      BY <1>10 DEF PlaceOperation, IsRemove, last, v, pos
    <2>2. w = [v |-> Append(v, op), index |-> acc.index]
      BY <1>2, <2>1
    <2>3. Append(v, op) = InsertBefore(v, Len(v) + 1, op)
      BY <1>1, <1>2, AppendIs
    <2>4. Len(v) \in 0 .. Len(v)
      BY <1>3
    <2>5. Sorted(Append(v, op))
      <3>1. \A x \in DOMAIN atStart : op.op = "remove" /\ K \in RefsOf(x, atStart[x]) =>
              \E i \in 1 .. Len(v) : Breaks(atStart, v[i], x, K)
        BY <1>8
      <3>2. Sorted(InsertBefore(v, Len(v) + 1, op))
        BY <1>1, <1>2, <1>9, <2>4, <3>1, InsertSorted
      <3> QED
        BY <2>3, <3>2
    <2>6. IsInsert(v, Len(v), op, Append(v, op))
      <3>1. IsInsert(v, Len(v), op, InsertBefore(v, Len(v) + 1, op))
        BY <1>1, <1>2, <2>4, InsertIs
      <3> QED
        BY <2>3, <3>1
    <2>7. /\ Append(v, op) \in Seq(Operation) /\ Len(Append(v, op)) = Len(v) + 1
          /\ Elements(Append(v, op)) = Elements(v) \cup {op}
      BY <2>6 DEF IsInsert
    <2>8. acc.index \in 0 .. Len(v) + 1
      BY <1>2, <1>3
    <2>9. w.v = Append(v, op) /\ w.index = acc.index
      BY <2>2
    <2> QED
      BY <1>1, <1>7, <2>2, <2>5, <2>7, <2>8, <2>9 DEF IsOrdered
  <1>11. CASE op.op = "remove" /\ ~(K \in DOMAIN last /\ v[pos].op = "remove")
    <2>1. w = [v |-> InsertBefore(v, at + 1, op), index |-> at + 1]
      BY <1>11 DEF PlaceOperation, IsRemove, last, v, pos, at
    <2>2. at \in 0 .. Len(v) /\ at + 1 \in 0 .. Len(v) + 1 /\ (K \in DOMAIN last => pos <= at)
      BY <1>2, <1>3, <1>6, <1>11 DEF at
    <2>3. ASSUME NEW x \in DOMAIN atStart, K \in RefsOf(x, atStart[x])
          PROVE  \E i \in 1 .. at : Breaks(atStart, v[i], x, K)
      <3>1. PICK i \in 1 .. Len(v) : Breaks(atStart, v[i], x, K) /\ v[i].opId <= last[K]
        BY <1>8, <1>11, <2>3
      <3>2. K \in DOMAIN last
        BY <1>4, <1>11, <2>3
      <3>3. i <= pos
        BY <1>2, <1>6, <1>11, <3>1, <3>2 DEF Sorted
      <3>4. i \in 1 .. at
        BY <1>3, <1>6, <1>11, <2>2, <3>2, <3>3
      <3> QED
        BY <3>1, <3>4
    <2>4. Sorted(InsertBefore(v, at + 1, op))
      BY <1>1, <1>2, <1>9, <1>11, <2>2, <2>3, InsertSorted
    <2>5. IsInsert(v, at, op, InsertBefore(v, at + 1, op))
      BY <1>1, <1>2, <2>2, InsertIs
    <2>6. w.v = InsertBefore(v, at + 1, op) /\ w.index = at + 1
      BY <2>1
    <2> HIDE DEF w
    <2>7. w.v \in Seq(Operation) /\ Len(w.v) = Len(v) + 1 /\ Elements(w.v) = Elements(v) \cup {op}
      BY <2>5, <2>6 DEF IsInsert
    <2>8. IsOrdered(w)
      BY <2>1, <2>2, <2>4, <2>6, <2>7 DEF IsOrdered
    <2> QED
      BY <1>1, <1>7, <2>7, <2>8 DEF w
  <1> QED
    BY <1>10, <1>11

----------------------------------------------------------------------------
(* The execution *)

\* The operations that have been executed, with one more.
LEMMA OneMoreExecuted ==
    ASSUME NEW v, NEW n \in Nat
    PROVE  {v[i] : i \in 1 .. n + 1} = {v[i] : i \in 1 .. n} \cup {v[n + 1]}
  <1>1. 1 .. n + 1 = (1 .. n) \cup {n + 1}
    OBVIOUS
  <1> QED
    BY <1>1

\* What is known of the operations done, S, and the next one, a, when they are executed
\* in the order of a sorted list of all operations, O.
IsNextOp(start, O, S, a) ==
    /\ S \subseteq O /\ a \in O /\ a \notin S
    /\ a.op # "remove" => \A b \in O : b.opId < a.opId => b \in S
    /\ \A b \in S : b.op # "remove" => b.opId < a.opId
    /\ a.op = "remove" =>
         \A x \in DOMAIN start : a.key \in RefsOf(x, start[x]) => \E b \in S : Breaks(start, b, x, a.key)

\* A sorted list is executed in such an order.
LEMMA SortedOrder ==
    ASSUME NEW v \in Seq(Operation), Sorted(v), NEW n \in Nat, n < Len(v)
    PROVE  IsNextOp(atStart, Elements(v), {v[i] : i \in 1 .. n}, v[n + 1])
  <1> DEFINE S == {v[i] : i \in 1 .. n}
             a == v[n + 1]
             O == Elements(v)
  <1>1. Len(v) \in Nat /\ n + 1 \in 1 .. Len(v) /\ \A i \in 1 .. n : i \in 1 .. Len(v) /\ ~(n + 1 <= i) /\ i # n + 1
    OBVIOUS
  <1>2. O = {v[i] : i \in 1 .. Len(v)}
    BY DEF Elements
  <1>3. \A i \in 1 .. Len(v) : v[i].opId \in Nat
    BY OperationIs
  <1>4. S \subseteq O /\ a \in O /\ a \notin S
    BY <1>1, <1>2 DEF Sorted
  <1>5. ASSUME a.op # "remove", NEW b \in O, b.opId < a.opId PROVE b \in S
    <2>1. PICK i \in 1 .. Len(v) : b = v[i]
      BY <1>2
    <2>2. v[i].opId <= v[n + 1].opId /\ i # n + 1
      BY <1>1, <1>3, <1>5, <2>1
    <2>3. i <= n + 1
      BY <1>1, <1>5, <2>2 DEF Sorted
    <2>4. i \in 1 .. n
      BY <1>1, <2>2, <2>3
    <2> QED
      BY <2>1, <2>4
  <1>6. ASSUME NEW b \in S, b.op # "remove" PROVE b.opId < a.opId
    <2>1. PICK i \in 1 .. n : b = v[i]
      OBVIOUS
    <2>2. ~(v[n + 1].opId <= v[i].opId)
      BY <1>1, <1>6, <2>1 DEF Sorted
    <2> QED
      BY <1>1, <1>3, <2>1, <2>2
  <1>7. ASSUME a.op = "remove", NEW x \in DOMAIN atStart, a.key \in RefsOf(x, atStart[x])
        PROVE  \E b \in S : Breaks(atStart, b, x, a.key)
    <2>1. PICK i \in 1 .. (n + 1) - 1 : Breaks(atStart, v[i], x, a.key)
      BY <1>1, <1>7 DEF Sorted
    <2>2. i \in 1 .. n
      BY <2>1
    <2> QED
      BY <2>1, <2>2
  <1> HIDE DEF S, a, O
  <1>8. IsNextOp(atStart, O, S, a)
    BY <1>4, <1>5, <1>6, <1>7 DEF IsNextOp
  <1> QED
    BY <1>8 DEF S, a, O

\* The next operation's ids are on the ASIC.
LEMMA RefsAreThere ==
    ASSUME NEW start, NEW O, NEW S, NEW a, Needs(start, O), IsNextOp(start, O, S, a),
           NEW objs, Applied(start, S, objs), a.op # "remove"
    PROVE  RefsOf(a.key, a.obj) \subseteq DOMAIN objs
  <1> SUFFICES ASSUME NEW w \in RefsOf(a.key, a.obj) PROVE w \in DOMAIN objs
    OBVIOUS
  <1>1. a \in O /\ S \subseteq O
    BY DEF IsNextOp
  <1>2. /\ ~Removed(O, w)
        /\ w \in DOMAIN start \/ \E b \in O : b.op = "create" /\ b.key = w /\ b.opId < a.opId
    BY <1>1 DEF Needs
  <1>3. ~Removed(S, w)
    BY <1>1, <1>2 DEF Removed
  <1>4. w \in DOMAIN start \/ Created(S, w)
    BY <1>2 DEF IsNextOp, Created
  <1>5. w \in Keys
    BY DEF RefsOf, Keys
  <1> QED
    BY <1>3, <1>4, <1>5 DEF Applied

\* No operation done has the key of the next one, but the remove of an entry that is
\* created again.
LEMMA OwnKey ==
    ASSUME NEW start, NEW O, NEW S, NEW a, O \subseteq Operation, OnePerKey(O), Needs(start, O),
           IsNextOp(start, O, S, a), NEW b \in S, b.key = a.key
    PROVE  a.op = "create" /\ b.op = "remove"
  <1>1. a \in O /\ b \in O /\ a # b /\ a \notin S
    BY DEF IsNextOp
  <1>2. \/ a.op = "create" /\ b.op = "remove"
        \/ a.key \notin Oids /\ a.op = "remove" /\ b.op = "create"
    BY <1>1 DEF OnePerKey
  <1>3. ASSUME a.op = "remove", b.op = "create" PROVE FALSE
    <2>1. b.key \in DOMAIN start
      BY <1>1, <1>3 DEF Needs
    <2>2. PICK c \in O : c.op = "remove" /\ c.key = b.key /\ c.opId < b.opId
      BY <1>1, <1>3, <2>1 DEF Needs
    <2>3. c = a
      BY <1>1, <1>3, <2>2 DEF OnePerKey
    <2>4. b.opId < a.opId
      BY <1>3 DEF IsNextOp
    <2> QED
      BY <1>1, <2>2, <2>3, <2>4, OperationIs
  <1> QED
    BY <1>2, <1>3

\* Nothing refers to an object that is removed next.
LEMMA Unreferenced ==
    ASSUME NEW start, NEW O, NEW S, NEW a, O \subseteq Operation, OnePerKey(O), Needs(start, O),
           IsNextOp(start, O, S, a), a.op = "remove",
           DOMAIN start \subseteq Keys, start \in [DOMAIN start -> Objects],
           NEW objs, DOMAIN objs \subseteq Keys, Applied(start, S, objs), NEW x \in DOMAIN objs
    PROVE  a.key \notin RefsOf(x, objs[x])
  <1> DEFINE k == a.key
  <1> SUFFICES ASSUME k \in RefsOf(x, objs[x]) PROVE FALSE
    OBVIOUS
  <1>1. a \in O /\ S \subseteq O /\ x \in Keys /\ k \in Oids
    BY DEF IsNextOp, RefsOf
  <1>2. Removed(O, k)
    BY <1>1 DEF Removed
  <1>3. \A c \in O : c.op # "remove" => k \notin RefsOf(c.key, c.obj)
    BY <1>2 DEF Needs
  <1>4. CASE Created(S, x)
    <2>1. PICK c \in S : c.op = "create" /\ c.key = x
      BY <1>4 DEF Created
    <2>2. objs[x] = c.obj
      BY <2>1 DEF Applied
    <2> QED
      BY <1>1, <1>3, <2>1, <2>2
  <1>5. ASSUME ~Created(S, x), x \in DOMAIN start, k \in RefsOf(x, start[x])
        PROVE  \E c \in S : c.op = "set" /\ c.key = x /\ start[x].up # k /\ x # Entry(k)
    <2>1. PICK b \in S : Breaks(start, b, x, k)
      BY <1>5 DEF IsNextOp
    <2>2. ~Removed(S, x)
      BY <1>1, <1>5 DEF Applied
    <2> QED
      BY <2>1, <2>2 DEF Breaks, Removed
  <1>6. CASE ~Created(S, x) /\ Changed(S, x)
    <2>1. PICK c \in S : c.op = "set" /\ c.key = x
      BY <1>6 DEF Changed
    <2>2. objs[x] = [start[x] EXCEPT !.ref = c.obj.ref] /\ x \in DOMAIN start
      BY <1>1, <2>1 DEF Applied, Needs
    <2>3. start[x] = [up |-> start[x].up, ref |-> start[x].ref, val |-> start[x].val]
      BY <2>2, ObjectFacts
    <2>4. objs[x].up = start[x].up /\ objs[x].ref = c.obj.ref
      BY <2>2, <2>3
    <2>5. c.obj.ref # k
      BY <1>1, <1>3, <2>1, RefsAre
    <2>6. start[x].up = k \/ x = Entry(k)
      BY <2>4, <2>5, RefsAre
    <2>7. k \in RefsOf(x, start[x])
      BY <1>1, <2>6, RefsAre
    <2> QED
      BY <1>5, <1>6, <2>2, <2>6, <2>7
  <1>7. CASE ~Created(S, x) /\ ~Changed(S, x)
    <2>1. objs[x] = start[x] /\ x \in DOMAIN start
      BY <1>1, <1>7 DEF Applied
    <2> QED
      BY <1>5, <1>7, <2>1 DEF Changed
  <1> QED
    BY <1>4, <1>6, <1>7

\* The ASIC accepts the next operation, and holds what the operations done make of the
\* start.
LEMMA ExecuteStep ==
    ASSUME NEW start, NEW O, NEW S, NEW a, O \subseteq Operation, OnePerKey(O), Needs(start, O),
           IsNextOp(start, O, S, a),
           DOMAIN start \subseteq Keys, start \in [DOMAIN start -> Objects],
           NEW objs, DOMAIN objs \subseteq Keys, objs \in [DOMAIN objs -> Objects], Applied(start, S, objs)
    PROVE  /\ VendorAccepts(objs, a)
           /\ LET r == VendorResult(objs, a)
              IN  DOMAIN r \subseteq Keys /\ r \in [DOMAIN r -> Objects] /\ Applied(start, S \cup {a}, r)
  <1> DEFINE k == a.key
             r == VendorResult(objs, a)
  <1>1. /\ a \in O /\ S \subseteq O /\ a \notin S /\ k \in Keys /\ a.obj \in Objects
        /\ a.op \in {"create", "set", "remove"}
    BY OperationIs DEF IsNextOp
  <1>2. Possible(start, S) /\ OnePerKey(S)
    BY <1>1 DEF Possible, Needs, OnePerKey
  <1>3. \A b \in S : b.key = k => a.op = "create" /\ b.op = "remove"
    BY OwnKey
  <1>4. CASE a.op = "create"
    <2>1. k \notin DOMAIN objs
      <3>1. ~Created(S, k)
        BY <1>3 DEF Created
      <3>2. k \in DOMAIN start => Removed(S, k)
        <4> SUFFICES ASSUME k \in DOMAIN start PROVE Removed(S, k)
          OBVIOUS
        <4>1. PICK b \in O : b.op = "remove" /\ b.key = k /\ b.opId < a.opId
          BY <1>1, <1>4 DEF Needs
        <4> QED
          BY <1>4, <4>1 DEF IsNextOp, Removed
      <3> QED
        BY <1>1, <3>1, <3>2 DEF Applied
    <2>2. RefsOf(k, a.obj) \subseteq DOMAIN objs
      BY <1>4, RefsAreThere
    <2>3. VendorAccepts(objs, a) /\ r = With(objs, k, a.obj)
      BY <1>4, <2>1, <2>2 DEF VendorAccepts, VendorResult
    <2> HIDE DEF r
    <2>4. r = [x \in DOMAIN objs \cup {k} |-> IF x = k THEN a.obj ELSE objs[x]]
      BY <2>3, WithIs
    <2>5. /\ DOMAIN r = DOMAIN objs \cup {k} /\ r[k] = a.obj /\ \A x \in DOMAIN objs : r[x] = objs[x]
          /\ r \in [DOMAIN r -> Objects]
      BY <1>1, <2>1, <2>4
    <2>6. Applied(start, S \cup {a}, r)
      BY <1>2, <1>4, <2>1, <2>5, CreateApplied
    <2> QED
      BY <1>1, <2>3, <2>5, <2>6 DEF r
  <1>5. ASSUME a.op # "create" PROVE k \in DOMAIN objs /\ \A b \in S : b.key # k
    <2>1. k \in DOMAIN start
      BY <1>1, <1>5 DEF Needs
    <2>2. ~Removed(S, k)
      BY <1>3, <1>5 DEF Removed
    <2> QED
      BY <1>1, <1>3, <1>5, <2>1, <2>2 DEF Applied
  <1>6. CASE a.op = "set"
    <2>1. RefsOf(k, a.obj) \subseteq DOMAIN objs
      BY <1>6, RefsAreThere
    <2>2. VendorAccepts(objs, a) /\ r = [objs EXCEPT ![k].ref = a.obj.ref]
      BY <1>5, <1>6, <2>1 DEF VendorAccepts, VendorResult
    <2> HIDE DEF r
    <2>3. /\ DOMAIN r = DOMAIN objs /\ r[k] = [objs[k] EXCEPT !.ref = a.obj.ref]
          /\ \A x \in DOMAIN objs \ {k} : r[x] = objs[x]
      BY <1>5, <1>6, <2>2
    <2>4. r \in [DOMAIN r -> Objects]
      <3>1. objs[k] \in Objects
        BY <1>5, <1>6
      <3>2. r[k] \in Objects
        BY <1>1, <2>3, <3>1 DEF Objects
      <3>3. \A x \in DOMAIN r : r[x] \in Objects
        BY <2>3, <3>2
      <3> QED
        BY <2>2, <3>3
    <2>5. Applied(start, S \cup {a}, r)
      <3> DEFINE q == a.obj.ref
      <3>1. a.obj.ref = q /\ r[k] = [objs[k] EXCEPT !.ref = q] /\ k \in DOMAIN objs /\ \A b \in S : b.key # k
        BY <1>5, <1>6, <2>3
      <3> HIDE DEF q
      <3> QED
        BY <1>1, <1>2, <1>6, <2>3, <3>1, SetApplied
    <2> QED
      BY <2>2, <2>3, <2>4, <2>5 DEF r
  <1>7. CASE a.op = "remove"
    <2>1. \A x \in DOMAIN objs : k \notin RefsOf(x, objs[x])
      BY <1>7, Unreferenced
    <2>2. VendorAccepts(objs, a) /\ r = [x \in DOMAIN objs \ {k} |-> objs[x]]
      BY <1>5, <1>7, <2>1 DEF VendorAccepts, VendorResult, Without, Restrict
    <2> HIDE DEF r
    <2>3. /\ DOMAIN r = DOMAIN objs \ {k} /\ \A x \in DOMAIN r : r[x] = objs[x]
          /\ r \in [DOMAIN r -> Objects]
      BY <2>2
    <2>4. Applied(start, S \cup {a}, r)
      BY <1>1, <1>2, <1>5, <1>7, <2>3, RemoveApplied
    <2> QED
      BY <2>2, <2>3, <2>4 DEF r
  <1> QED
    BY <1>1, <1>4, <1>6, <1>7

\* The same operations applied to the same start give the same.
LEMMA SameResult ==
    ASSUME NEW start, NEW O, NEW f, NEW g, DOMAIN f \subseteq Keys, DOMAIN g \subseteq Keys,
           f \in [DOMAIN f -> Objects], g \in [DOMAIN g -> Objects], Applied(start, O, f), Applied(start, O, g)
    PROVE  f = g
  <1>1. DOMAIN f = DOMAIN g
    BY DEF Applied
  <1>2. ASSUME NEW x \in DOMAIN f PROVE f[x] = g[x]
    <2>1. CASE Created(O, x)
      <3>1. PICK c \in O : c.op = "create" /\ c.key = x
        BY <2>1 DEF Created
      <3> QED
        BY <3>1 DEF Applied
    <2>2. CASE Changed(O, x)
      <3>1. PICK c \in O : c.op = "set" /\ c.key = x
        BY <2>2 DEF Changed
      <3> QED
        BY <3>1 DEF Applied
    <2>3. CASE ~Created(O, x) /\ ~Changed(O, x)
      BY <1>1, <2>3 DEF Applied
    <2> QED
      BY <2>1, <2>2, <2>3
  <1> QED
    BY <1>1, <1>2

----------------------------------------------------------------------------
(* The invariant *)

\* It holds at the start, when nothing is processed.
LEMMA InitHolds == Init => TransitionInv
  <1> SUFFICES ASSUME Init PROVE TransitionInv
    OBVIOUS
  <1>1. PICK cur \in CurrentViews, tmp \in TempViews :
            /\ Compatible(cur, tmp)
            /\ current = FromDump(cur, tmp)
            /\ temp = [objs |-> tmp, status |-> FromDump(tmp, cur).status]
            /\ vidToRid = [v \in Oids \cap DOMAIN cur \cap DOMAIN tmp |-> v]
            /\ asic = cur /\ atStart = cur /\ taken = 0 /\ phase = "process"
    BY DEF Init
  <1>2. IsView(cur) /\ IsView(tmp)
    BY ViewsAssumption
  <1>2a. NoGroupLinks(cur) /\ NoGroupLinks(tmp)
    BY <1>2, KindsAssumption DEF IsView, NoGroupLinks
  <1>3. /\ HasFields(current) /\ current.objs = cur
        /\ current.status = [k \in DOMAIN cur |->
                               IF k \in Oids \cap DOMAIN tmp THEN "MATCHED" ELSE "NOT_PROCESSED"]
        /\ current.m_vidReference = [v \in Oids \cap DOMAIN cur |-> Count(cur, v)]
    BY <1>1 DEF FromDump, HasFields
  <1>4. /\ temp = [objs |-> temp.objs, status |-> temp.status] /\ temp.objs = tmp
        /\ temp.status = [k \in DOMAIN tmp |->
                            IF k \in Oids \cap DOMAIN cur THEN "MATCHED" ELSE "NOT_PROCESSED"]
    BY <1>1 DEF FromDump
  <1>5. ViewInv(current)
    <2>1. \A v : Count(cur, v) \in Int
      <3>1. IsFiniteSet(DOMAIN cur)
        BY <1>2 DEF IsView
      <3>2. ASSUME NEW v PROVE Count(cur, v) \in Nat
        BY <3>1, PartsAreNat
      <3> QED
        BY <3>2
    <2>2. IsAsicView(current)
      BY <1>2, <1>3, <2>1 DEF IsAsicView, IsView, Statuses
    <2>3. Counted(current)
      BY <1>3 DEF Counted
    <2> QED
      BY <1>2, <1>2a, <1>3, <2>2, <2>3 DEF ViewInv, IsView, Closed
  <1>6. Processed = {}
    BY <1>4 DEF Processed
  <1>7. TempInv
    <2>1. temp.status \in [DOMAIN tmp -> Statuses]
      BY <1>4 DEF Statuses
    <2> QED
      BY <1>2, <1>2a, <1>4, <2>1 DEF TempInv, IsView
  <1>8. NewRefs
    BY <1>6 DEF NewRefs
  <1>9. RidInv
    BY <1>1, <1>3, <1>4 DEF RidInv
  <1>10. MatchInv
    BY <1>3, <1>6 DEF MatchInv
  <1>11. StartInv
    BY <1>1, <1>2, <1>3, <1>4 DEF StartInv, IsView, Closed, Compatible
  <1>12. PhaseInv
    BY <1>1 DEF PhaseInv
  <1>13. ValuesInv
    <2>1. DOMAIN cur \subseteq Keys /\ cur \in [DOMAIN cur -> Objects]
          /\ \A k \in DOMAIN cur \ Oids : cur[k].up = Absent
      BY <1>2 DEF IsView, Oids
    <2>2. \A k \in DOMAIN tmp \ Oids : tmp[k].up = Absent
      BY <1>2 DEF IsView, Oids
    <2>3. ASSUME NEW k \in DOMAIN tmp, temp.status[k] = "MATCHED"
          PROVE  tmp[k].up \in {Absent, cur[k].up} /\ tmp[k].val \in {Absent, cur[k].val}
      BY <1>1, <1>4, <2>3 DEF Compatible
    <2> QED
      BY <1>1, <1>4, <1>6, <2>1, <2>2, <2>3 DEF ValuesInv
  <1>14. /\ current.m_asicOperations = << >> /\ current.m_asicRemoveOperationsNonObjectId = << >>
         /\ current.m_vidToAsicOperationId = << >> /\ current.m_asicOperationId = 0
    BY <1>1 DEF FromDump
  <1>15. Issued(current) = {}
    BY <1>14 DEF Issued, Elements
  <1>16. IssueInv(current)
    <2>1. ListsInv(current)
      BY <1>14 DEF ListsInv
    <2>2. OpsInv(cur, {}, cur, << >>, 0)
      <3>1. Numbered({}, 0) /\ OnePerKey({}) /\ Needs(cur, {})
        BY DEF Numbered, OnePerKey, Needs
      <3>2. Applied(cur, {}, cur)
        BY DEF Applied, Created, Removed, Changed
      <3>3. LastInv(cur, {}, cur, << >>)
        BY DEF LastInv
      <3> QED
        BY <3>1, <3>2, <3>3 DEF OpsInv
    <2> QED
      BY <1>1, <1>3, <1>14, <1>15, <2>1, <2>2 DEF IssueInv
  <1>17. FinalInv(current)
    BY <1>15 DEF FinalInv
  <1> QED
    BY <1>5, <1>7, <1>8, <1>9, <1>10, <1>11, <1>12, <1>13, <1>16, <1>17 DEF TransitionInv, Matching

\* The invariant from its parts.
LEMMA InvFrom ==
    ASSUME ViewInv(current'), Matching', ValuesInv', IssueInv(current'), FinalInv(current'), atStart' = atStart,
           PhaseInv'
    PROVE  TransitionInv'
  <1>1. IssueInv(current)'
    BY DEF IssueInv
  <1> QED
    BY <1>1 DEF TransitionInv

\* What the phases before the removing loop know.
LEMMA EarlyPhase ==
    ASSUME phase' \in {"process", "break", "thrown"}, asic' = atStart', taken' = 0,
           phase' = "break" => BreakInv', phase' = "thrown" => breakConfig' # {} \/ oneSided' # {}
    PROVE  PhaseInv'
  BY DEF PhaseInv

\* Of the parts of the invariant only PhaseInv depends on more than the views and the
\* ASIC at the start.
LEMMA SameViews ==
    ASSUME TransitionInv, UNCHANGED <<current, temp, vidToRid, atStart>>
    PROVE  /\ PhaseInv' => TransitionInv'
           /\ Processed' = Processed /\ \A k : TranslateKey(k)' = TranslateKey(k)
  <1>1. Processed' = Processed /\ (\A k : TranslateKey(k)' = TranslateKey(k)) /\ (\A v : Translate(v)' = Translate(v))
    BY DEF Processed, TranslateKey, Translate
  <1>2. Matching'
    <2>1. TempInv /\ NewRefs /\ RidInv /\ MatchInv /\ StartInv
      BY DEF TransitionInv, Matching
    <2>2. TempInv'
      BY <1>1, <2>1 DEF TempInv
    <2>3. NewRefs'
      BY <1>1, <2>1 DEF NewRefs
    <2>4. RidInv' /\ StartInv'
      BY <2>1 DEF RidInv, StartInv
    <2>5. MatchInv'
      BY <1>1, <2>1 DEF MatchInv
    <2> QED
      BY <2>2, <2>3, <2>4, <2>5 DEF Matching
  <1>3. ValuesInv /\ MatchInv
    BY DEF TransitionInv, Matching
  <1>4. ValuesInv'
    BY <1>3, ValuesLess
  <1>5. ViewInv(current') /\ IssueInv(current') /\ FinalInv(current')
    BY DEF TransitionInv
  <1> QED
    BY <1>1, <1>2, <1>4, <1>5, InvFrom

\* An object is matched.
LEMMA UpdateBestMatchKeeps ==
    ASSUME TransitionInv, NEW k \in Keys, NEW c \in Keys, UpdateBestMatch(k, c)
    PROVE  TransitionInv'
  <1> DEFINE known == IF k \in Oids /\ temp.status[k] # "MATCHED"
                      THEN InsertNewVidReference(current, k) ELSE current
             obj == IF temp.status[k] = "MATCHED" THEN Transferred(k, c) ELSE temp.objs[k]
             view == SetTransition(known, k, c)
  <1>1. /\ phase = "process" /\ k \in DOMAIN temp.objs /\ temp.status[k] # "FINAL"
        /\ RefsOf(k, temp.objs[k]) \subseteq Processed /\ c \in BestMatches(k)
        /\ SetTransitionPasses(k, c)
        /\ phase' = "process" /\ UNCHANGED <<asic, atStart, taken>>
    <2>1. /\ IsNext(k) /\ c \in BestMatches(k) /\ SetTransitionPasses(k, c)
          /\ UNCHANGED <<phase, asic, atStart, taken>>
      BY DEF UpdateBestMatch
    <2>2. \A v \in RefsOf(k, temp.objs[k]) : temp.status[v] = "FINAL"
      BY <2>1 DEF IsNext
    <2>3. RefsOf(k, temp.objs[k]) \subseteq DOMAIN temp.objs
      BY <2>1 DEF IsNext, TransitionInv, Matching, TempInv, Processed
    <2> QED
      BY <2>1, <2>2, <2>3 DEF IsNext, Processed
  <1>2. /\ ViewInv(current) /\ Matching /\ ValuesInv /\ IssueInv(current) /\ FinalInv(current)
        /\ asic = atStart /\ taken = 0
    BY <1>1 DEF TransitionInv, PhaseInv
  <1>3. /\ current' = [view EXCEPT !.status[c] = "FINAL"]
        /\ temp' = [temp EXCEPT !.objs[k] = obj, !.status[k] = "FINAL"]
        /\ vidToRid' = IF k \in Oids THEN With(vidToRid, k, c) ELSE vidToRid
    BY DEF UpdateBestMatch, UpdateObjectStatus
  <1>4. view = LET K == IF k \in Oids /\ temp.status[k] # "MATCHED"
                        THEN InsertNewVidReference(current, k) ELSE current
               IN  SetTransition(K, k, c)
    OBVIOUS
  <1> HIDE DEF view
  <1>5. /\ ViewInv(current') /\ DOMAIN current'.objs = DOMAIN current.objs /\ current'.status[c] = "FINAL"
        /\ IssueInv(current') /\ FinalInv(current')
        /\ current'.objs[c] = [up |-> current.objs[c].up, ref |-> Translate(temp.objs[k].ref),
                               val |-> current.objs[c].val]
        /\ \A x \in DOMAIN current.objs \ {c} :
              current'.objs[x] = current.objs[x] /\ current'.status[x] = current.status[x]
    BY <1>1, <1>2, <1>3, <1>4, UpdateView
  <1>6. obj = IF temp.status[k] = "MATCHED" THEN Transferred(k, c) ELSE temp.objs[k]
    OBVIOUS
  <1> HIDE DEF obj
  <1>7. Matching'
    <2>1. \A x \in DOMAIN current.objs : current'.objs[x].up = current.objs[x].up
      BY <1>5
    <2> QED
      BY <1>1, <1>2, <1>3, <1>5, <1>6, <2>1, UpdateStep
  <1>8. ValuesInv'
    <2>1. IsUpdate(k, c, obj)
      BY <1>1, <1>2, <1>3, <1>6, UpdatedIs
    <2> QED
      BY <1>1, <1>2, <1>5, <2>1, ValuesUpdate
  <1>9. PhaseInv'
    BY <1>1, <1>2, EarlyPhase
  <1> QED
    BY <1>1, <1>5, <1>7, <1>8, <1>9, InvFrom

\* The comparison gives up on a matched object.
LEMMA MatchedFailsKeeps ==
    ASSUME TransitionInv, NEW k \in Keys, MatchedFails(k)
    PROVE  TransitionInv'
  <1>1. /\ phase = "process" /\ phase' = "thrown" /\ k \in oneSided
        /\ UNCHANGED <<current, temp, vidToRid, breakConfig, oneSided, asic, atStart, taken>>
    BY DEF MatchedFails, IsNext, SetTransitionPasses
  <1>2. asic = atStart /\ taken = 0
    BY <1>1 DEF TransitionInv, PhaseInv
  <1>3. PhaseInv'
    BY <1>1, <1>2, EarlyPhase
  <1> QED
    BY <1>1, <1>3, SameViews

\* What has to go before an object is created.
LEMMA GoneIs ==
    ASSUME Matching, ViewInv(current), NEW k \in DOMAIN temp.objs, temp.status[k] # "FINAL",
           RefsOf(k, temp.objs[k]) \subseteq Processed,
           NEW best \in OneOrNone(BestMatches(k)), temp.status[k] # "MATCHED",
           NEW gone \in RemovedFirst(k, best)
    PROVE  /\ temp.status[k] = "NOT_PROCESSED"
           /\ gone = {} => TranslateKey(k) \notin DOMAIN current.objs
           /\ \A c \in gone : /\ c \in DOMAIN current.objs /\ current.status[c] = "NOT_PROCESSED"
                              /\ IF k \in Oids THEN k \in breakConfig ELSE c = TranslateKey(k)
  <1>0. TempInv /\ NewRefs /\ RidInv /\ MatchInv /\ StartInv
    BY DEF Matching
  <1>1. /\ best \subseteq BestMatches(k)
        /\ best = {} => BestMatches(k) = {}
    BY DEF OneOrNone
  <1>2. temp.status[k] = "NOT_PROCESSED"
    BY <1>0 DEF TempInv, Statuses
  <1>3. CASE k \in Oids
    <2>1. TranslateKey(k) \notin DOMAIN current.objs
      BY <1>0, <1>2, <1>3, NewIds
    <2>2. ASSUME NEW c \in gone
          PROVE  c \in DOMAIN current.objs /\ current.status[c] = "NOT_PROCESSED" /\ k \in breakConfig
      <3>1. k \in breakConfig
        BY <1>3, <2>2 DEF RemovedFirst
      <3>2. CASE best # {}
        <4>1. c \in BestMatches(k)
          BY <1>1, <1>3, <2>2, <3>1, <3>2 DEF RemovedFirst
        <4> QED
          BY <1>2, <3>1, <4>1, BestMatchIs
      <3>3. CASE best = {}
        <4>1. gone \in OneOrNone(NotProcessed(k))
          BY <1>3, <3>1, <3>3 DEF RemovedFirst
        <4>2. c \in NotProcessed(k)
          BY <4>1 DEF OneOrNone
        <4> QED
          BY <3>1, <4>2 DEF NotProcessed
      <3> QED
        BY <3>2, <3>3
    <2> QED
      BY <1>2, <1>3, <2>1, <2>2
  <1>4. CASE k \notin Oids
    <2>1. gone = best
      BY <1>4 DEF RemovedFirst
    <2>2. ASSUME NEW c \in gone
          PROVE  c \in DOMAIN current.objs /\ current.status[c] = "NOT_PROCESSED" /\ c = TranslateKey(k)
      BY <1>1, <1>2, <1>4, <2>1, BestMatchIs
    <2>3. ASSUME gone = {}, TranslateKey(k) \in DOMAIN current.objs PROVE FALSE
      <3>1. k[2] \in DOMAIN vidToRid /\ current.status[TranslateKey(k)] = "NOT_PROCESSED"
        BY <1>0, <1>2, <1>4, <2>3, NewEntries
      <3>2. TranslateKey(k) \in BestMatches(k)
        BY <1>2, <1>4, <2>3, <3>1 DEF BestMatches
      <3> QED
        BY <1>1, <2>1, <2>3, <3>2
    <2> QED
      BY <1>2, <1>4, <2>2, <2>3
  <1> QED
    BY <1>3, <1>4

\* An object is created, or something has to go first.
LEMMA CreateInsteadKeeps ==
    ASSUME TransitionInv, NEW k \in Keys, CreateInstead(k)
    PROVE  TransitionInv'
  <1>1. /\ phase = "process" /\ k \in DOMAIN temp.objs /\ temp.status[k] # "FINAL"
        /\ RefsOf(k, temp.objs[k]) \subseteq Processed
        /\ UNCHANGED <<vidToRid, breakConfig, asic, atStart, taken>>
    <2>1. IsNext(k) /\ UNCHANGED <<vidToRid, breakConfig, asic, atStart, taken>>
      BY DEF CreateInstead
    <2>2. \A v \in RefsOf(k, temp.objs[k]) : temp.status[v] = "FINAL"
      BY <2>1 DEF IsNext
    <2>3. RefsOf(k, temp.objs[k]) \subseteq DOMAIN temp.objs
      BY <2>1 DEF IsNext, TransitionInv, Matching, TempInv, Processed
    <2> QED
      BY <2>1, <2>2, <2>3 DEF IsNext, Processed
  <1>2. /\ ViewInv(current) /\ Matching /\ ValuesInv /\ IssueInv(current) /\ FinalInv(current)
        /\ asic = atStart /\ taken = 0
    BY <1>1 DEF TransitionInv, PhaseInv
  <1> DEFINE Outcome(gone) ==
               \/ /\ gone = {}
                  /\ current' = CreateNewObject(current, k)
                  /\ temp' = [temp EXCEPT !.status[k] = "FINAL"]
                  /\ UNCHANGED <<breaking, phase>>
               \/ \E c \in gone :
                  /\ breaking' = <<k, c>>
                  /\ phase' = "break"
                  /\ UNCHANGED <<current, temp>>
  <1>2b. PICK best \in OneOrNone(BestMatches(k)) :
           /\ temp.status[k] # "MATCHED"
           /\ \E gone \in RemovedFirst(k, best) : Outcome(gone)
    BY DEF CreateInstead
  <1>3. PICK gone \in RemovedFirst(k, best) : Outcome(gone)
    BY <1>2b
  <1>4. /\ temp.status[k] = "NOT_PROCESSED"
        /\ gone = {} => TranslateKey(k) \notin DOMAIN current.objs
        /\ \A c \in gone : /\ c \in DOMAIN current.objs /\ current.status[c] = "NOT_PROCESSED"
                           /\ IF k \in Oids THEN k \in breakConfig ELSE c = TranslateKey(k)
    BY <1>1, <1>2, <1>2b, <1>3, GoneIs
  <1>5. CASE /\ gone = {}
             /\ current' = CreateNewObject(current, k)
             /\ temp' = [temp EXCEPT !.status[k] = "FINAL"]
             /\ UNCHANGED <<breaking, phase>>
    <2>1. ViewInv(current') /\ Matching'
      BY <1>1, <1>2, <1>4, <1>5, CreateStep
    <2>2. /\ IssueInv(current') /\ FinalInv(current')
          /\ current'.objs[TranslateKey(k)] = TranslateObject(temp.objs[k])
          /\ \A x \in DOMAIN current.objs : current'.objs[x] = current.objs[x]
      BY <1>1, <1>2, <1>4, <1>5, CreateIssueStep
    <2>3. ValuesInv'
      BY <1>1, <1>2, <1>4, <1>5, <2>2, ValuesCreate DEF Matching
    <2>4. PhaseInv'
      BY <1>1, <1>2, <1>5, EarlyPhase
    <2> QED
      BY <1>1, <2>1, <2>2, <2>3, <2>4, InvFrom
  <1>6. ASSUME NEW c \in gone, breaking' = <<k, c>>, phase' = "break", UNCHANGED <<current, temp>>
        PROVE  TransitionInv'
    <2>1. (PhaseInv' => TransitionInv') /\ Processed' = Processed /\ TranslateKey(k)' = TranslateKey(k)
      BY <1>1, <1>6, SameViews
    <2>2. BreakInv'
      BY <1>1, <1>4, <1>6, <2>1 DEF BreakInv
    <2>3. PhaseInv'
      BY <1>1, <1>2, <1>6, <2>2, EarlyPhase
    <2> QED
      BY <2>1, <2>3
  <1> QED
    BY <1>3, <1>5, <1>6

\* The object to be removed, and what depends on it.
LEMMA DependentIs ==
    ASSUME ViewInv(current), BreakInv, NEW m \in Dependents(current, breaking[2])
    PROVE  /\ m \in DOMAIN current.objs /\ current.status[m] = "NOT_PROCESSED"
           /\ m \in Oids /\ breaking[2] # m /\ breaking[2] \in Groups
  <1>1. m \in Members /\ m \in DOMAIN current.objs /\ current.objs[m].up = breaking[2]
        /\ current.status[m] = "NOT_PROCESSED"
    BY DEF Dependents
  <1>2. current.objs[m] \in Objects
    BY <1>1 DEF ViewInv, IsAsicView
  <1>3. breaking[2] \in Groups
    BY <1>1, <1>2, KindsAssumption DEF Objects, BreakInv, ViewInv, IsAsicView
  <1> QED
    BY <1>1, <1>3, KindsAssumption DEF Oids

\* When the object to be removed is not an entry, there is a break config.
LEMMA BreakHasConfig ==
    ASSUME RidInv, TempInv, BreakInv, breaking[2] \in Oids
    PROVE  breakConfig # {}
  <1>1. breaking[1] \in Keys
    BY DEF BreakInv, TempInv
  <1>2. breaking[1] \in Oids
    BY <1>1, TranslateKeyIs DEF BreakInv
  <1> QED
    BY <1>2 DEF BreakInv

\* A member goes with its group, or the comparison gives up.
LEMMA RemoveDependentKeeps ==
    ASSUME TransitionInv, NEW m \in Members, RemoveDependent(m)
    PROVE  TransitionInv'
  <1>1. /\ phase = "break" /\ m \in Dependents(current, breaking[2])
        /\ UNCHANGED <<temp, vidToRid, breakConfig, asic, atStart, breaking, taken>>
    BY DEF RemoveDependent
  <1>2. /\ ViewInv(current) /\ Matching /\ ValuesInv /\ IssueInv(current) /\ FinalInv(current)
        /\ BreakInv /\ asic = atStart /\ taken = 0
    BY <1>1 DEF TransitionInv, PhaseInv
  <1>3. /\ m \in DOMAIN current.objs /\ current.status[m] = "NOT_PROCESSED"
        /\ m \in Oids /\ breaking[2] # m /\ breaking[2] \in Groups
    BY <1>1, <1>2, DependentIs
  <1>4. CASE current.m_vidReference[m] # 0
    <2>1. phase' = "thrown" /\ UNCHANGED current
      BY <1>4 DEF RemoveDependent
    <2>2. breakConfig # {}
      BY <1>2, <1>3, BreakHasConfig DEF Matching, Oids
    <2>3. PhaseInv'
      BY <1>1, <1>2, <2>1, <2>2, EarlyPhase
    <2> QED
      BY <1>1, <2>1, <2>3, SameViews
  <1>5. CASE current.m_vidReference[m] = 0
    <2>1. current' = AsicRemoveObject(current, m) /\ phase' = "break"
      BY <1>1, <1>5 DEF RemoveDependent
    <2>2. /\ ViewInv(current') /\ IssueInv(current') /\ FinalInv(current')
          /\ DOMAIN current'.objs = DOMAIN current.objs \ {m}
          /\ \A x \in DOMAIN current.objs \ {m} :
                current'.objs[x] = current.objs[x] /\ current'.status[x] = current.status[x]
      BY <1>2, <1>3, <1>5, <2>1, RemoveStep
    <2>3. Matching' /\ ValuesInv'
      BY <1>1, <1>2, <1>3, <2>2, LessKeeps, ValuesLess DEF Matching
    <2>4. BreakInv'
      <3>1. Processed' = Processed /\ TranslateKey(breaking[1])' = TranslateKey(breaking[1])
        BY <1>1 DEF Processed, TranslateKey, Translate
      <3> QED
        BY <1>1, <1>2, <1>3, <2>2, <3>1 DEF BreakInv
    <2>5. PhaseInv'
      BY <1>1, <1>2, <2>1, <2>4, EarlyPhase
    <2> QED
      BY <1>1, <2>2, <2>3, <2>5, InvFrom
  <1> QED
    BY <1>4, <1>5

\* The object in the way goes and the new one is made, or the comparison gives up.
LEMMA MakeAfterBreakKeeps ==
    ASSUME TransitionInv, MakeAfterBreak
    PROVE  TransitionInv'
  <1> DEFINE k == breaking[1]
             c == breaking[2]
             view == AsicRemoveObject(current, c)
  <1>1. phase = "break" /\ UNCHANGED <<vidToRid, breakConfig, asic, atStart, taken>>
    BY DEF MakeAfterBreak
  <1>2. /\ ViewInv(current) /\ Matching /\ ValuesInv /\ IssueInv(current) /\ FinalInv(current)
        /\ BreakInv /\ asic = atStart /\ taken = 0
    BY <1>1 DEF TransitionInv, PhaseInv
  <1>3. CASE c \in Oids /\ current.m_vidReference[c] # 0
    <2>1. phase' = "thrown" /\ UNCHANGED <<current, temp>>
      BY <1>3 DEF MakeAfterBreak
    <2>2. breakConfig # {}
      BY <1>2, <1>3, BreakHasConfig DEF Matching
    <2>3. PhaseInv'
      BY <1>1, <1>2, <2>1, <2>2, EarlyPhase
    <2> QED
      BY <1>1, <2>1, <2>3, SameViews
  <1>4. CASE ~(c \in Oids /\ current.m_vidReference[c] # 0)
    <2>1. /\ current' = CreateNewObject(view, k)
          /\ temp' = [temp EXCEPT !.status[k] = "FINAL"]
          /\ phase' = "process"
      BY <1>4 DEF MakeAfterBreak
    <2>2. /\ c \in DOMAIN current.objs /\ current.status[c] = "NOT_PROCESSED"
          /\ k \in DOMAIN temp.objs /\ temp.status[k] = "NOT_PROCESSED"
          /\ RefsOf(k, temp.objs[k]) \subseteq Processed
          /\ k \in Oids \/ c = TranslateKey(k)
      BY <1>2 DEF BreakInv
    <2> HIDE DEF k, c
    <2>3. /\ ViewInv(view) /\ IssueInv(view) /\ FinalInv(view)
          /\ DOMAIN view.objs = DOMAIN current.objs \ {c}
          /\ \A x \in DOMAIN current.objs \ {c} :
                view.objs[x] = current.objs[x] /\ view.status[x] = current.status[x]
      BY <1>2, <1>4, <2>2, RemoveStep
    <2>4. TranslateKey(k) \notin DOMAIN view.objs
      <3>1. CASE k \in Oids
        BY <1>2, <2>2, <2>3, <3>1, NewIds DEF Matching
      <3>2. CASE k \notin Oids
        BY <2>2, <2>3, <3>2
      <3> QED
        BY <3>1, <3>2
    <2> HIDE DEF view
    <2>5. ViewInv(current') /\ Matching'
      BY <1>1, <1>2, <2>1, <2>2, <2>3, <2>4, CreateStep
    <2>6. /\ IssueInv(current') /\ FinalInv(current')
          /\ current'.objs[TranslateKey(k)] = TranslateObject(temp.objs[k])
          /\ \A x \in DOMAIN view.objs : current'.objs[x] = current.objs[x]
      BY <1>2, <2>1, <2>2, <2>3, <2>4, CreateIssueStep
    <2>7. ValuesInv'
      <3>1. \A x \in DOMAIN current.objs \ DOMAIN view.objs : current.status[x] = "NOT_PROCESSED"
        BY <2>2, <2>3
      <3>2. DOMAIN view.objs \subseteq DOMAIN current.objs
        BY <2>3
      <3> QED
        BY <1>1, <1>2, <2>1, <2>2, <2>6, <3>1, <3>2, ValuesCreate DEF Matching
    <2>8. PhaseInv'
      BY <1>1, <1>2, <2>1, EarlyPhase
    <2> QED
      BY <1>1, <2>5, <2>6, <2>7, <2>8, InvFrom
  <1> QED
    BY <1>3, <1>4

\* What the later phases know, but for the operations.
LEMMA LaterPhase ==
    ASSUME TransitionInv, UNCHANGED <<current, temp, vidToRid, atStart, breaking, breakConfig>>,
           phase \in {"check", "order", "execute"}, phase' \in {"order", "execute", "done"},
           IsOrdered(optimized'),
           phase' = "order" =>
              /\ asic' = atStart' /\ taken' \in 0 .. Len(current.m_asicOperations)
              /\ Elements(optimized'.v) = Placed(current, taken'),
           phase' \in {"execute", "done"} =>
              Elements(optimized'.v) = Issued(current) /\ ExecInv(optimized.v, taken)',
           phase' = "done" => taken' = Len(optimized'.v)
    PROVE  TransitionInv'
  <1>1. Processed = DOMAIN temp.objs /\ \A c \in DOMAIN current.objs : current.status[c] = "FINAL"
    BY DEF TransitionInv, PhaseInv
  <1>2. (PhaseInv' => TransitionInv') /\ Processed' = Processed
    BY SameViews
  <1>3. IsOrdered(optimized)'
    BY DEF IsOrdered, Sorted
  <1>4. PhaseInv'
    BY <1>1, <1>2, <1>3 DEF PhaseInv
  <1> QED
    BY <1>2, <1>4

\* The end of the first loop.
LEMMA AllProcessedKeeps ==
    ASSUME TransitionInv, AllProcessed
    PROVE  TransitionInv'
  <1>1. phase = "process" /\ phase' = "remove" /\ UNCHANGED <<current, temp, vidToRid, asic, atStart, taken>>
    BY DEF AllProcessed
  <1>2. Processed = DOMAIN temp.objs /\ asic = atStart /\ taken = 0
    BY <1>1 DEF AllProcessed, Processed, TransitionInv, PhaseInv
  <1>3. (PhaseInv' => TransitionInv') /\ Processed' = Processed
    BY <1>1, SameViews
  <1>4. PhaseInv'
    BY <1>1, <1>2, <1>3 DEF PhaseInv
  <1> QED
    BY <1>3, <1>4

\* One object of the removing loop.
LEMMA RemoveUnusedKeeps ==
    ASSUME TransitionInv, NEW k \in Keys, RemoveUnused(k)
    PROVE  TransitionInv'
  <1>1. /\ phase = "remove" /\ phase' = "remove" /\ UNCHANGED <<temp, vidToRid, asic, atStart, taken>>
        /\ k \in DOMAIN current.objs /\ current.status[k] = "NOT_PROCESSED"
        /\ k \in Oids => current.m_vidReference[k] = 0
        /\ current' = AsicRemoveObject(current, k)
    BY DEF RemoveUnused, Removable
  <1>2. /\ ViewInv(current) /\ Matching /\ ValuesInv /\ IssueInv(current) /\ FinalInv(current)
        /\ Processed = DOMAIN temp.objs /\ asic = atStart /\ taken = 0
    BY <1>1 DEF TransitionInv, PhaseInv
  <1>3. /\ ViewInv(current') /\ IssueInv(current') /\ FinalInv(current')
        /\ DOMAIN current'.objs = DOMAIN current.objs \ {k}
        /\ \A x \in DOMAIN current.objs \ {k} :
              current'.objs[x] = current.objs[x] /\ current'.status[x] = current.status[x]
    BY <1>1, <1>2, RemoveStep
  <1>4. Matching' /\ ValuesInv'
    BY <1>1, <1>2, <1>3, LessKeeps, ValuesLess DEF Matching
  <1>5. Processed' = DOMAIN temp'.objs
    BY <1>1, <1>2 DEF Processed
  <1>6. PhaseInv'
    BY <1>1, <1>2, <1>5 DEF PhaseInv
  <1> QED
    BY <1>1, <1>3, <1>4, <1>6, InvFrom

\* What has to stay is taken over.
LEMMA TransferNotProcessedKeeps ==
    ASSUME TransitionInv, TransferNotProcessed
    PROVE  TransitionInv'
  <1>1. phase = "remove" /\ phase' = "check" /\ UNCHANGED <<asic, atStart, taken>>
    BY DEF TransferNotProcessed
  <1>2. /\ ViewInv(current) /\ Matching /\ ValuesInv /\ IssueInv(current) /\ FinalInv(current)
        /\ Processed = DOMAIN temp.objs /\ asic = atStart /\ taken = 0
    BY <1>1 DEF TransitionInv, PhaseInv
  <1>3. /\ ViewInv(current') /\ Matching' /\ Processed' = DOMAIN temp'.objs
        /\ ValuesInv' /\ IssueInv(current') /\ FinalInv(current')
        /\ \A c \in DOMAIN current'.objs : current'.status[c] = "FINAL"
    BY <1>2, TransferStep
  <1>4. PhaseInv'
    BY <1>1, <1>2, <1>3 DEF PhaseInv
  <1> QED
    BY <1>1, <1>3, <1>4, InvFrom

\* The checks do not fail, and the list starts with the removes of entries.
LEMMA CheckViewsKeeps ==
    ASSUME TransitionInv, CheckViews
    PROVE  TransitionInv'
  <1> DEFINE E == current.m_asicRemoveOperationsNonObjectId
  <1>1. /\ phase = "check" /\ optimized' = [v |-> E, index |-> Len(E)]
        /\ UNCHANGED <<current, temp, vidToRid, asic, atStart, breaking, breakConfig, taken>>
    BY DEF CheckViews
  <1>2. /\ ViewInv(current) /\ Matching /\ IssueInv(current) /\ Processed = DOMAIN temp.objs
        /\ \A c \in DOMAIN current.objs : current.status[c] = "FINAL"
        /\ asic = atStart /\ taken = 0
    BY <1>1 DEF TransitionInv, PhaseInv
  <1>3. phase' = "order"
    BY <1>2, ChecksPass DEF CheckViews
  <1>4. Sorted(E) /\ E \in Seq(Operation)
    BY <1>2, FirstSorted
  <1> HIDE DEF E
  <1>5. IsOrdered(optimized')
    <2>1. optimized'.v = E /\ optimized'.index = Len(E)
      BY <1>1
    <2> QED
      BY <1>1, <1>4, <2>1 DEF IsOrdered
  <1>6. Elements(optimized'.v) = Placed(current, taken')
    <2>1. taken' = 0 /\ optimized'.v = E
      BY <1>1, <1>2
    <2>2. {current.m_asicOperations[i] : i \in 1 .. 0} = {}
      OBVIOUS
    <2> QED
      BY <2>1, <2>2 DEF Placed, E
  <1>7. taken' \in 0 .. Len(current.m_asicOperations)
    <2>1. Len(current.m_asicOperations) \in Nat
      BY <1>2 DEF IssueInv, ListsInv
    <2> QED
      BY <1>1, <1>2, <2>1
  <1> QED
    BY <1>1, <1>2, <1>3, <1>5, <1>6, <1>7, LaterPhase

\* What the steps of the two last loops start from.
LEMMA StartIs ==
    ASSUME TransitionInv
    PROVE  /\ ViewInv(current) /\ IssueInv(current)
           /\ DOMAIN atStart \subseteq Keys /\ atStart \in [DOMAIN atStart -> Objects]
           /\ phase = "order" => asic = atStart
  BY DEF TransitionInv, ValuesInv, PhaseInv

\* One operation is put on the list.
LEMMA OrderOperationKeeps ==
    ASSUME TransitionInv, OrderOperation
    PROVE  TransitionInv'
  <1> DEFINE op == current.m_asicOperations[taken + 1]
  <1>1. /\ phase = "order" /\ taken < Len(current.m_asicOperations)
        /\ UNCHANGED <<current, temp, vidToRid, asic, atStart, breaking, breakConfig>>
        /\ ~Lost(current, optimized, op) =>
             optimized' = PlaceOperation(current, optimized, op) /\ taken' = taken + 1 /\ phase' = "order"
    BY DEF OrderOperation
  <1>2. /\ IsOrdered(optimized) /\ taken \in 0 .. Len(current.m_asicOperations)
        /\ Elements(optimized.v) = Placed(current, taken)
    BY <1>1 DEF TransitionInv, PhaseInv
  <1>3. Len(current.m_asicOperations) \in Nat /\ taken \in Nat
    BY <1>2, StartIs DEF IssueInv, ListsInv
  <1>4. op = current.m_asicOperations[taken + 1]
    OBVIOUS
  <1> HIDE DEF op
  <1>5. /\ ~Lost(current, optimized, op)
        /\ LET w == PlaceOperation(current, optimized, op)
           IN  IsOrdered(w) /\ Elements(w.v) = Placed(current, taken + 1)
    BY <1>1, <1>2, <1>3, <1>4, StartIs, OrderStep
  <1>6. /\ taken' = taken + 1 /\ phase' = "order" /\ IsOrdered(optimized')
        /\ Elements(optimized'.v) = Placed(current, taken')
    BY <1>1, <1>5
  <1>7. taken' \in 0 .. Len(current.m_asicOperations)
    BY <1>1, <1>3, <1>6
  <1>8. asic' = atStart'
    BY <1>1, StartIs
  <1> QED
    BY <1>1, <1>6, <1>7, <1>8, LaterPhase

\* All are on it, and nothing is executed yet.
LEMMA AllOrderedKeeps ==
    ASSUME TransitionInv, AllOrdered
    PROVE  TransitionInv'
  <1>1. /\ phase = "order" /\ taken = Len(current.m_asicOperations) /\ taken' = 0 /\ phase' = "execute"
        /\ UNCHANGED <<current, temp, vidToRid, asic, atStart, breaking, breakConfig, optimized>>
    BY DEF AllOrdered
  <1>2. /\ IsOrdered(optimized) /\ Elements(optimized.v) = Placed(current, taken)
    BY <1>1 DEF TransitionInv, PhaseInv
  <1>3. Elements(optimized'.v) = Issued(current)
    BY <1>1, <1>2 DEF Placed, Issued, Elements
  <1>4. ExecInv(optimized.v, taken)'
    <2>1. Len(optimized.v) \in Nat
      BY <1>2 DEF IsOrdered
    <2>2. {optimized.v[i] : i \in 1 .. 0} = {}
      OBVIOUS
    <2>3. Applied(atStart, {}, atStart)
      BY DEF Applied, Created, Removed, Changed
    <2>4. asic = atStart /\ DOMAIN asic \subseteq Keys /\ asic \in [DOMAIN asic -> Objects]
      BY <1>1, StartIs
    <2>5. Applied(atStart, {optimized.v[i] : i \in 1 .. 0}, asic)
      BY <2>2, <2>3, <2>4
    <2>6. 0 \in 0 .. Len(optimized.v)
      BY <2>1
    <2>7. ExecInv(optimized.v, 0)
      BY <2>4, <2>5, <2>6 DEF ExecInv
    <2> QED
      BY <1>1, <2>7 DEF ExecInv
  <1> QED
    BY <1>1, <1>2, <1>3, <1>4, LaterPhase

\* One operation is executed.
LEMMA ExecuteOperationKeeps ==
    ASSUME TransitionInv, ExecuteOperation
    PROVE  TransitionInv'
  <1> DEFINE v == optimized.v
             a == v[taken + 1]
             S == {v[i] : i \in 1 .. taken}
  <1>1. /\ phase = "execute" /\ taken < Len(v)
        /\ UNCHANGED <<current, temp, vidToRid, atStart, breaking, breakConfig, optimized>>
        /\ VendorAccepts(asic, a) => asic' = VendorResult(asic, a) /\ taken' = taken + 1 /\ phase' = "execute"
    BY DEF ExecuteOperation
  <1>2. IsOrdered(optimized) /\ Elements(v) = Issued(current) /\ ExecInv(v, taken)
    BY <1>1 DEF TransitionInv, PhaseInv
  <1>3. v \in Seq(Operation) /\ Sorted(v) /\ Len(v) \in Nat /\ taken \in Nat
    BY <1>2 DEF IsOrdered, ExecInv
  <1>4. /\ DOMAIN asic \subseteq Keys /\ asic \in [DOMAIN asic -> Objects] /\ Applied(atStart, S, asic)
    BY <1>2 DEF ExecInv
  <1>5. Issued(current) \subseteq Operation /\ OnePerKey(Issued(current)) /\ Needs(atStart, Issued(current))
    BY StartIs DEF IssueInv, OpsInv, Numbered
  <1>6. IsNextOp(atStart, Issued(current), S, a)
    BY <1>1, <1>2, <1>3, SortedOrder
  <1>7. {v[i] : i \in 1 .. taken + 1} = S \cup {a}
    BY <1>3, OneMoreExecuted
  <1> HIDE DEF S, a
  <1>8. /\ VendorAccepts(asic, a)
        /\ LET r == VendorResult(asic, a)
           IN  DOMAIN r \subseteq Keys /\ r \in [DOMAIN r -> Objects] /\ Applied(atStart, S \cup {a}, r)
    BY <1>4, <1>5, <1>6, StartIs, ExecuteStep
  <1>9. /\ asic' = VendorResult(asic, a) /\ taken' = taken + 1 /\ phase' = "execute"
        /\ DOMAIN asic' \subseteq Keys /\ asic' \in [DOMAIN asic' -> Objects]
        /\ Applied(atStart, {v[i] : i \in 1 .. taken + 1}, asic')
    BY <1>1, <1>7, <1>8
  <1>10. ExecInv(optimized.v, taken)'
    <2>1. taken + 1 \in 0 .. Len(v)
      BY <1>1, <1>3
    <2> QED
      BY <1>1, <1>9, <2>1 DEF ExecInv
  <1> QED
    BY <1>1, <1>2, <1>9, <1>10, LaterPhase

\* All are executed.
LEMMA AllExecutedKeeps ==
    ASSUME TransitionInv, AllExecuted
    PROVE  TransitionInv'
  <1>1. /\ phase = "execute" /\ taken = Len(optimized.v) /\ phase' = "done"
        /\ UNCHANGED <<current, temp, vidToRid, asic, atStart, breaking, breakConfig, optimized, taken>>
    BY DEF AllExecuted
  <1>2. IsOrdered(optimized) /\ Elements(optimized.v) = Issued(current) /\ ExecInv(optimized.v, taken)
    BY <1>1 DEF TransitionInv, PhaseInv
  <1>3. ExecInv(optimized.v, taken)'
    BY <1>1, <1>2 DEF ExecInv
  <1> QED
    BY <1>1, <1>2, <1>3, LaterPhase

\* A step that changes nothing.
LEMMA NothingChanges ==
    ASSUME TransitionInv, UNCHANGED vars
    PROVE  TransitionInv'
  <1>1. UNCHANGED <<current, temp, vidToRid, asic, atStart, breaking, breakConfig, oneSided, optimized, taken,
                  phase>>
    BY DEF vars
  <1>2. (PhaseInv' => TransitionInv') /\ Processed' = Processed /\ \A k : TranslateKey(k)' = TranslateKey(k)
    BY <1>1, SameViews
  <1>3. BreakInv => BreakInv'
    BY <1>1, <1>2 DEF BreakInv
  <1>4. IsOrdered(optimized) => IsOrdered(optimized)'
    BY <1>1 DEF IsOrdered, Sorted
  <1>5. ExecInv(optimized.v, taken) => ExecInv(optimized.v, taken)'
    BY <1>1 DEF ExecInv
  <1>6. PhaseInv
    BY DEF TransitionInv
  <1>7. PhaseInv'
    BY <1>1, <1>2, <1>3, <1>4, <1>5, <1>6 DEF PhaseInv
  <1> QED
    BY <1>2, <1>7

\* Every step keeps the invariant.
LEMMA StepKeeps == TransitionInv /\ [Next]_vars => TransitionInv'
  <1> SUFFICES ASSUME TransitionInv, [Next]_vars PROVE TransitionInv'
    OBVIOUS
  <1>1. CASE \E k \in Keys : \E c \in Keys : UpdateBestMatch(k, c)
    BY <1>1, UpdateBestMatchKeeps
  <1>2. CASE \E k \in Keys : MatchedFails(k) \/ CreateInstead(k)
    BY <1>2, MatchedFailsKeeps, CreateInsteadKeeps
  <1>3. CASE \E m \in Members : RemoveDependent(m)
    BY <1>3, RemoveDependentKeeps
  <1>4. CASE MakeAfterBreak
    BY <1>4, MakeAfterBreakKeeps
  <1>5. CASE AllProcessed
    BY <1>5, AllProcessedKeeps
  <1>6. CASE \E k \in Keys : RemoveUnused(k)
    BY <1>6, RemoveUnusedKeeps
  <1>7. CASE TransferNotProcessed
    BY <1>7, TransferNotProcessedKeeps
  <1>8. CASE CheckViews
    BY <1>8, CheckViewsKeeps
  <1>9. CASE OrderOperation \/ AllOrdered
    BY <1>9, OrderOperationKeeps, AllOrderedKeeps
  <1>10. CASE ExecuteOperation \/ AllExecuted
    BY <1>10, ExecuteOperationKeeps, AllExecutedKeeps
  <1>11. CASE Over \/ UNCHANGED vars
    BY <1>11, NothingChanges DEF Over
  <1> QED
    BY <1>1, <1>2, <1>3, <1>4, <1>5, <1>6, <1>7, <1>8, <1>9, <1>10, <1>11 DEF Next

----------------------------------------------------------------------------
(* The number of groups on the ASIC, when groups are broken first *)

GroupsOf(objs) == Groups \cap DOMAIN objs

\* The groups there are when the operations up to number n have been executed.
GroupsAt(start, O, n) ==
    {g \in Groups : \/ \E a \in O : a.opId <= n /\ a.op = "create" /\ a.key = g
                    \/ /\ g \in DOMAIN start
                       /\ ~ \E a \in O : a.opId <= n /\ a.op = "remove" /\ a.key = g}

\* A set of groups is not larger than T, those requested, or R, those at the start.
Fits(S, T, R) ==
    /\ IsFiniteSet(S) /\ IsFiniteSet(T) /\ IsFiniteSet(R)
    /\ Cardinality(S) <= Cardinality(T) \/ Cardinality(S) <= Cardinality(R)

\* When a group is created there is room for it, provided that what was issued before
\* has been executed.
CreatesFit(start, O, T) ==
    \A a \in O : a.op = "create" /\ a.key \in Groups => Fits(GroupsAt(start, O, a.opId), T, GroupsOf(start))

\* Neither the current view nor the ASIC outgrows both views, and a group makes room
\* for a group.
LimitInv ==
    breakConfig = Groups =>
        LET T == GroupsOf(temp.objs)
            R == GroupsOf(atStart)
        IN  /\ Fits(GroupsOf(current.objs), T, R) /\ CreatesFit(atStart, Issued(current), T)
            /\ Fits(GroupsOf(asic), T, R)
            /\ peak \in Nat /\ (peak <= Cardinality(T) \/ peak <= Cardinality(R))
            /\ phase = "break" /\ breaking[1] \in Groups => breaking[2] \in Groups

\* A smaller set fits too.
LEMMA LessFits ==
    ASSUME NEW S, NEW T, NEW R, Fits(S, T, R), NEW X, X \subseteq S
    PROVE  Fits(X, T, R)
  <1>1. IsFiniteSet(X) /\ Cardinality(X) <= Cardinality(S)
    BY FS_Subset DEF Fits
  <1>2. Cardinality(X) \in Nat /\ Cardinality(S) \in Nat /\ Cardinality(T) \in Nat /\ Cardinality(R) \in Nat
    BY <1>1, FS_CardinalityType DEF Fits
  <1> QED
    BY <1>1, <1>2 DEF Fits

\* So does one with an element exchanged.
LEMMA SwapFits ==
    ASSUME NEW S, NEW T, NEW R, Fits(S, T, R), NEW c \in S, NEW k
    PROVE  Fits((S \ {c}) \cup {k}, T, R)
  <1>1. IsFiniteSet(S \ {c}) /\ Cardinality(S \ {c}) = Cardinality(S) - 1
    BY FS_RemoveElement DEF Fits
  <1>2. IsFiniteSet((S \ {c}) \cup {k})
        /\ Cardinality((S \ {c}) \cup {k}) = IF k \in S \ {c} THEN Cardinality(S \ {c}) ELSE Cardinality(S \ {c}) + 1
    BY <1>1, FS_AddElement
  <1>3. Cardinality(S) \in Nat /\ Cardinality(T) \in Nat /\ Cardinality(R) \in Nat
    BY FS_CardinalityType DEF Fits
  <1> QED
    BY <1>1, <1>2, <1>3 DEF Fits

\* So does the same set when there is more room.
LEMMA RoomFits ==
    ASSUME NEW S, NEW T, NEW R, Fits(S, T, R), NEW U, IsFiniteSet(U), T \subseteq U
    PROVE  Fits(S, U, R)
  <1>1. Cardinality(T) <= Cardinality(U)
    BY FS_Subset
  <1>2. Cardinality(S) \in Nat /\ Cardinality(T) \in Nat /\ Cardinality(U) \in Nat /\ Cardinality(R) \in Nat
    BY FS_CardinalityType DEF Fits
  <1> QED
    BY <1>1, <1>2 DEF Fits

\* The larger of two numbers.
LEMMA MaxIs ==
    ASSUME NEW m \in Nat, NEW n \in Nat
    PROVE  /\ Max({m, n}) = IF m >= n THEN m ELSE n
           /\ Max({m, n}) \in Nat
  <1> DEFINE P(x) == x \in {m, n} /\ \A y \in {m, n} : x >= y
  <1>1. \E x : P(x)
    BY DEF P
  <1>2. Max({m, n}) = CHOOSE x : P(x)
    BY DEF Max
  <1>3. P(Max({m, n}))
    BY <1>1, <1>2
  <1> QED
    BY <1>3

\* Once all operations of O are done there are the groups they result in.
LEMMA GroupsAtEnd ==
    ASSUME NEW start, NEW O, NEW objs, Applied(start, O, objs), NEW n, \A a \in O : a.opId <= n
    PROVE  GroupsAt(start, O, n) = GroupsOf(objs)
  <1>1. \A g \in Groups : g \in Keys
    BY DEF Keys, Oids
  <1> QED
    BY <1>1 DEF GroupsAt, GroupsOf, Applied, Created, Removed

\* A later operation does not change which groups there were.
LEMMA GroupsAtStay ==
    ASSUME NEW start, NEW O, NEW a, NEW n, n \in Nat, a.opId \in Nat, n < a.opId
    PROVE  GroupsAt(start, O \cup {a}, n) = GroupsAt(start, O, n)
  <1>1. ~(a.opId <= n)
    OBVIOUS
  <1>2. \A op \in {"create", "remove"}, g \in Groups :
           (\E b \in O \cup {a} : b.opId <= n /\ b.op = op /\ b.key = g)
             <=> (\E b \in O : b.opId <= n /\ b.op = op /\ b.key = g)
    BY <1>1
  <1> QED
    BY <1>2 DEF GroupsAt

\* One more operation: if it creates a group, the groups with it fit.
LEMMA OneMoreFits ==
    ASSUME NEW view, NEW w, NEW op, NEW k, NEW T, IssueInv(view), IssueInv(w), IssuesOne(view, w, op, k),
           CreatesFit(atStart, Issued(view), T),
           op = "create" /\ k \in Groups => Fits(GroupsOf(w.objs), T, GroupsOf(atStart))
    PROVE  CreatesFit(atStart, Issued(w), T)
  <1> DEFINE O == Issued(view)
             O2 == Issued(w)
  <1>1. PICK a : /\ a.op = op /\ a.key = k
                 /\ \A b \in O : b.opId < a.opId
                 /\ O2 = O \cup {a}
    BY Zenon DEF IssuesOne
  <1>2. Applied(atStart, O2, w.objs) /\ \A b \in O2 : b.opId \in Nat
    BY OperationIs DEF IssueInv, OpsInv, Numbered
  <1> HIDE DEF O, O2
  <1>3. ASSUME NEW b \in O2, b.op = "create", b.key \in Groups
        PROVE  Fits(GroupsAt(atStart, O2, b.opId), T, GroupsOf(atStart))
    <2>1. CASE b \in O
      <3>1. Fits(GroupsAt(atStart, O, b.opId), T, GroupsOf(atStart))
        BY <1>3, <2>1 DEF CreatesFit, O
      <3>2. b.opId \in Nat /\ a.opId \in Nat /\ b.opId < a.opId
        BY <1>1, <1>2, <2>1
      <3>3. GroupsAt(atStart, O2, b.opId) = GroupsAt(atStart, O, b.opId)
        BY <1>1, <3>2, GroupsAtStay
      <3> QED
        BY <3>1, <3>3
    <2>2. CASE b = a
      <3>1. \A d \in O2 : d.opId <= a.opId
        BY <1>1, <1>2
      <3>2. GroupsAt(atStart, O2, a.opId) = GroupsOf(w.objs)
        BY <1>2, <3>1, GroupsAtEnd
      <3> QED
        BY <1>1, <1>3, <2>2, <3>2
    <2> QED
      BY <1>1, <1>3, <2>1, <2>2
  <1> QED
    BY <1>3 DEF CreatesFit, O2

\* Without a group to remove first there is room for one more: every group of the
\* current view is one that is requested.
LEMMA RoomForOne ==
    ASSUME Matching, ViewInv(current), NEW k \in Groups, k \in DOMAIN temp.objs,
           temp.status[k] = "NOT_PROCESSED", NEW R, IsFiniteSet(R),
           \A c \in GroupsOf(current.objs) : current.status[c] # "NOT_PROCESSED"
    PROVE  Fits(GroupsOf(current.objs) \cup {k}, GroupsOf(temp.objs), R)
  <1> DEFINE T == GroupsOf(temp.objs)
             U == {Translate(l) : l \in T}
             f == [l \in T |-> Translate(l)]
  <1>0. TempInv /\ RidInv /\ MatchInv
    BY DEF Matching
  <1>1. IsFiniteSet(T)
    BY <1>0, FS_Subset DEF TempInv, GroupsOf
  <1>2. f \in Surjection(T, U)
    BY DEF Surjection
  <1>3. IsFiniteSet(U) /\ Cardinality(U) <= Cardinality(T)
    BY <1>1, <1>2, FS_Surjection
  <1>4. k \in U
    <2>1. Translate(k) = k
      BY <1>0 DEF RidInv, Translate
    <2> QED
      BY <2>1 DEF GroupsOf
  <1>5. ASSUME NEW c \in GroupsOf(current.objs) PROVE c \in U
    <2>1. c \in Groups /\ c \in DOMAIN current.objs /\ current.status[c] \in {"MATCHED", "FINAL"}
      BY <1>5 DEF GroupsOf, ViewInv, IsAsicView, Statuses
    <2>2. CASE current.status[c] = "MATCHED"
      <3>1. c \in DOMAIN temp.objs /\ c \in DOMAIN vidToRid /\ vidToRid[c] = c
        BY <1>0, <2>1, <2>2 DEF RidInv
      <3>2. Translate(c) = c /\ c \in T
        BY <2>1, <3>1 DEF Translate, GroupsOf
      <3> QED
        BY <3>2
    <2>3. CASE current.status[c] = "FINAL"
      <3>1. PICK l \in Processed : TranslateKey(l) = c
        BY <1>0, <2>1, <2>3 DEF MatchInv
      <3>2. l \in Keys /\ l \in DOMAIN temp.objs
        BY <1>0 DEF TempInv, Processed
      <3>3. l \in Groups /\ Translate(l) = c
        BY <1>0, <2>1, <3>1, <3>2, TranslateKeyIs DEF Oids
      <3> QED
        BY <3>2, <3>3 DEF GroupsOf
    <2> QED
      BY <2>1, <2>2, <2>3
  <1>6. Fits(U, T, R)
    BY <1>1, <1>3 DEF Fits
  <1>7. GroupsOf(current.objs) \cup {k} \subseteq U
    BY <1>4, <1>5
  <1> HIDE DEF U, T
  <1>8. Fits(GroupsOf(current.objs) \cup {k}, T, R)
    BY <1>6, <1>7, LessFits
  <1> QED
    BY <1>8 DEF T

\* The parts of the invariant.
LEMMA LimitIs ==
    ASSUME LimitInv, breakConfig = Groups
    PROVE  /\ Fits(GroupsOf(current.objs), GroupsOf(temp.objs), GroupsOf(atStart))
           /\ CreatesFit(atStart, Issued(current), GroupsOf(temp.objs))
           /\ Fits(GroupsOf(asic), GroupsOf(temp.objs), GroupsOf(atStart))
           /\ peak \in Nat
           /\ peak <= Cardinality(GroupsOf(temp.objs)) \/ peak <= Cardinality(GroupsOf(atStart))
           /\ phase = "break" /\ breaking[1] \in Groups => breaking[2] \in Groups
  BY DEF LimitInv

\* A step before the execution keeps it, if the current view and the new operations do.
LEMMA LimitFrom ==
    ASSUME LimitInv, breakConfig = Groups, UNCHANGED <<breakConfig, asic, atStart, peak>>,
           GroupsOf(temp.objs) \subseteq GroupsOf(temp'.objs), IsFiniteSet(GroupsOf(temp'.objs)),
           Fits(GroupsOf(current'.objs), GroupsOf(temp.objs), GroupsOf(atStart)),
           CreatesFit(atStart, Issued(current'), GroupsOf(temp.objs)),
           phase' = "break" /\ breaking'[1] \in Groups => breaking'[2] \in Groups
    PROVE  LimitInv'
  <1> DEFINE T == GroupsOf(temp.objs)
             U == GroupsOf(temp'.objs)
             R == GroupsOf(atStart)
  <1>1. /\ Fits(GroupsOf(asic), T, R) /\ peak \in Nat
        /\ peak <= Cardinality(T) \/ peak <= Cardinality(R)
    BY LimitIs
  <1>2. T \subseteq U /\ IsFiniteSet(U) /\ Fits(GroupsOf(current'.objs), T, R)
        /\ CreatesFit(atStart, Issued(current'), T)
    OBVIOUS
  <1>3. IsFiniteSet(T) /\ IsFiniteSet(R)
    BY <1>1 DEF Fits
  <1>4. GroupsOf(temp.objs)' = U /\ GroupsOf(atStart)' = R /\ GroupsOf(asic)' = GroupsOf(asic)
        /\ GroupsOf(current.objs)' = GroupsOf(current'.objs)
    BY DEF GroupsOf
  <1> HIDE DEF T, U, R
  <1>5. Fits(GroupsOf(current'.objs), U, R) /\ Fits(GroupsOf(asic), U, R)
    BY <1>1, <1>2, RoomFits
  <1>6. peak <= Cardinality(U) \/ peak <= Cardinality(R)
    <2>1. Cardinality(T) <= Cardinality(U) /\ Cardinality(T) \in Nat /\ Cardinality(U) \in Nat
      BY <1>2, <1>3, FS_Subset, FS_CardinalityType
    <2> QED
      BY <1>1, <2>1
  <1>7. CreatesFit(atStart, Issued(current'), U)
    BY <1>2, RoomFits DEF CreatesFit
  <1>8. CreatesFit(atStart, Issued(current), GroupsOf(temp.objs))'
    BY <1>4, <1>7 DEF CreatesFit, GroupsAt, GroupsOf, Issued
  <1> QED
    BY <1>1, <1>4, <1>5, <1>6, <1>8 DEF LimitInv, Fits

\* The current view and the requested one are finite.
LEMMA GroupsFinite ==
    ASSUME TransitionInv
    PROVE  IsFiniteSet(GroupsOf(temp.objs)) /\ IsFiniteSet(GroupsOf(current.objs))
  <1>1. IsFiniteSet(DOMAIN temp.objs) /\ IsFiniteSet(DOMAIN current.objs)
    BY DEF TransitionInv, Matching, TempInv, ViewInv, IsAsicView
  <1> QED
    BY <1>1, FS_Subset DEF GroupsOf

\* An object that is to be processed next.
LEMMA NextIs ==
    ASSUME TransitionInv, NEW k, IsNext(k)
    PROVE  /\ phase = "process" /\ k \in DOMAIN temp.objs /\ temp.status[k] # "FINAL"
           /\ RefsOf(k, temp.objs[k]) \subseteq Processed
  <1>1. \A v \in RefsOf(k, temp.objs[k]) : temp.status[v] = "FINAL"
    BY DEF IsNext
  <1>2. RefsOf(k, temp.objs[k]) \subseteq DOMAIN temp.objs
    BY DEF IsNext, TransitionInv, Matching, TempInv, Processed
  <1> QED
    BY <1>1, <1>2 DEF IsNext, Processed

\* A match creates and removes nothing.
LEMMA UpdateFits ==
    ASSUME TransitionInv, LimitInv, breakConfig = Groups, NEW k \in Keys, NEW c \in Keys, UpdateBestMatch(k, c)
    PROVE  LimitInv'
  <1> DEFINE known == IF k \in Oids /\ temp.status[k] # "MATCHED"
                      THEN InsertNewVidReference(current, k) ELSE current
             obj == IF temp.status[k] = "MATCHED" THEN Transferred(k, c) ELSE temp.objs[k]
             view == SetTransition(known, k, c)
  <1>1. /\ IsNext(k) /\ c \in BestMatches(k) /\ UNCHANGED <<breakConfig, asic, atStart, peak, breaking, phase>>
        /\ current' = [view EXCEPT !.status[c] = "FINAL"]
        /\ temp' = [temp EXCEPT !.objs[k] = obj, !.status[k] = "FINAL"]
    BY DEF UpdateBestMatch, UpdateObjectStatus
  <1>2. /\ phase = "process" /\ k \in DOMAIN temp.objs /\ temp.status[k] # "FINAL"
        /\ RefsOf(k, temp.objs[k]) \subseteq Processed
    BY <1>1, NextIs
  <1>3. ViewInv(current) /\ Matching /\ IssueInv(current) /\ FinalInv(current)
    BY DEF TransitionInv
  <1>4. view = LET K == IF k \in Oids /\ temp.status[k] # "MATCHED"
                        THEN InsertNewVidReference(current, k) ELSE current
               IN  SetTransition(K, k, c)
    OBVIOUS
  <1> HIDE DEF view, obj
  <1>5. /\ DOMAIN current'.objs = DOMAIN current.objs /\ IssueInv(current')
        /\ Issued(current') = Issued(current) \/ IssuesOne(current, current', "set", c)
    BY <1>1, <1>2, <1>3, <1>4, UpdateView
  <1>6. GroupsOf(temp'.objs) = GroupsOf(temp.objs) /\ GroupsOf(current'.objs) = GroupsOf(current.objs)
    <2>1. DOMAIN temp'.objs = DOMAIN temp.objs
      BY <1>1, <1>3 DEF Matching, TempInv
    <2> QED
      BY <1>5, <2>1 DEF GroupsOf
  <1>7. CreatesFit(atStart, Issued(current'), GroupsOf(temp.objs))
    <2>1. CASE Issued(current') = Issued(current)
      BY <2>1, LimitIs
    <2>2. CASE IssuesOne(current, current', "set", c)
      BY <1>3, <1>5, <2>2, LimitIs, OneMoreFits
    <2> QED
      BY <1>5, <2>1, <2>2
  <1> QED
    BY <1>1, <1>2, <1>6, <1>7, LimitIs, LimitFrom, GroupsFinite

\* An object that is not used goes.
LEMMA RemoveFits ==
    ASSUME TransitionInv, LimitInv, breakConfig = Groups, NEW k \in DOMAIN current.objs, current.status[k] # "FINAL",
           k \in Oids => current.m_vidReference[k] = 0,
           current' = AsicRemoveObject(current, k),
           UNCHANGED <<temp, breakConfig, asic, atStart, peak, breaking, phase>>
    PROVE  LimitInv'
  <1>1. ViewInv(current) /\ Matching /\ IssueInv(current) /\ FinalInv(current)
    BY DEF TransitionInv
  <1>2. /\ DOMAIN current'.objs = DOMAIN current.objs \ {k} /\ IssueInv(current')
        /\ IssuesOne(current, current', "remove", k)
    BY <1>1, RemoveStep
  <1>3. GroupsOf(temp'.objs) = GroupsOf(temp.objs) /\ GroupsOf(current'.objs) \subseteq GroupsOf(current.objs)
    BY <1>2 DEF GroupsOf
  <1>4. CreatesFit(atStart, Issued(current'), GroupsOf(temp.objs))
    BY <1>1, <1>2, LimitIs, OneMoreFits
  <1>5. Fits(GroupsOf(current'.objs), GroupsOf(temp.objs), GroupsOf(atStart))
    BY <1>3, LimitIs, LessFits
  <1> QED
    BY <1>3, <1>4, <1>5, LimitIs, LimitFrom, GroupsFinite

\* A key that is created is a group only for a group.
LEMMA NewGroupIs ==
    ASSUME TransitionInv, NEW k \in DOMAIN temp.objs, temp.status[k] = "NOT_PROCESSED"
    PROVE  /\ k \in Groups <=> TranslateKey(k) \in Groups
           /\ k \in Groups => TranslateKey(k) = k /\ k \notin DOMAIN current.objs
  <1>1. RidInv /\ TempInv /\ StartInv /\ MatchInv /\ Matching
    BY DEF TransitionInv, Matching
  <1>2. k \in Keys
    BY <1>1 DEF TempInv
  <1>3. k \notin DOMAIN vidToRid
    BY <1>1 DEF RidInv
  <1>4. k \in Groups => TranslateKey(k) = k
    BY <1>3 DEF TranslateKey, Translate, Oids
  <1>5. k \in Groups => TranslateKey(k) \notin DOMAIN current.objs
    BY <1>1, NewIds DEF Oids
  <1> QED
    BY <1>1, <1>2, <1>4, <1>5, TranslateKeyIs

\* What goes before a group is created is a group, and nothing only if none is left.
LEMMA GoneGroups ==
    ASSUME TransitionInv, breakConfig = Groups, NEW k \in Groups, IsNext(k),
           NEW best \in OneOrNone(BestMatches(k)), NEW gone \in RemovedFirst(k, best)
    PROVE  /\ gone \subseteq Groups
           /\ gone = {} => \A c \in GroupsOf(current.objs) : current.status[c] # "NOT_PROCESSED"
  <1>1. SameKind(k) = Groups
    BY KindsAssumption DEF SameKind
  <1>2. k \in Oids
    BY DEF Oids
  <1>3. Matching /\ ViewInv(current)
    BY DEF TransitionInv
  <1>4. CASE best # {}
    <2>1. gone = best
      BY <1>2, <1>4 DEF RemovedFirst
    <2>2. best \subseteq BestMatches(k)
      BY DEF OneOrNone
    <2>3. \A c \in BestMatches(k) : c \in Groups
      BY <1>2, <1>3, NextIs, BestMatchIs
    <2> QED
      BY <1>4, <2>1, <2>2, <2>3
  <1>5. CASE best = {}
    <2>1. gone \in OneOrNone(NotProcessed(k))
      BY <1>2, <1>5 DEF RemovedFirst
    <2>2. NotProcessed(k) = {c \in DOMAIN current.objs \cap Groups : current.status[c] = "NOT_PROCESSED"}
      BY <1>1 DEF NotProcessed
    <2>3. gone \subseteq NotProcessed(k) /\ (gone = {} => NotProcessed(k) = {})
      BY <2>1 DEF OneOrNone
    <2> QED
      BY <2>2, <2>3 DEF GroupsOf
  <1> QED
    BY <1>4, <1>5

\* An object is created: a group only when every group is one that is requested.
LEMMA CreateFits ==
    ASSUME TransitionInv, LimitInv, breakConfig = Groups, NEW k \in Keys, CreateInstead(k)
    PROVE  LimitInv'
  <1>1. IsNext(k) /\ UNCHANGED <<vidToRid, breakConfig, asic, atStart, peak>>
    BY DEF CreateInstead
  <1>2. /\ phase = "process" /\ k \in DOMAIN temp.objs /\ temp.status[k] # "FINAL"
        /\ RefsOf(k, temp.objs[k]) \subseteq Processed
    BY <1>1, NextIs
  <1>3. ViewInv(current) /\ Matching /\ IssueInv(current) /\ FinalInv(current)
    BY DEF TransitionInv
  <1> DEFINE Outcome(gone) ==
               \/ /\ gone = {}
                  /\ current' = CreateNewObject(current, k)
                  /\ temp' = [temp EXCEPT !.status[k] = "FINAL"]
                  /\ UNCHANGED <<breaking, phase>>
               \/ \E c \in gone :
                  /\ breaking' = <<k, c>>
                  /\ phase' = "break"
                  /\ UNCHANGED <<current, temp>>
  <1>4. PICK best \in OneOrNone(BestMatches(k)) :
           /\ temp.status[k] # "MATCHED"
           /\ \E gone \in RemovedFirst(k, best) : Outcome(gone)
    BY DEF CreateInstead
  <1>5. PICK gone \in RemovedFirst(k, best) : Outcome(gone)
    BY <1>4
  <1>6. /\ temp.status[k] = "NOT_PROCESSED"
        /\ gone = {} => TranslateKey(k) \notin DOMAIN current.objs
    BY <1>2, <1>3, <1>4, <1>5, GoneIs
  <1>7. CASE /\ gone = {}
             /\ current' = CreateNewObject(current, k)
             /\ temp' = [temp EXCEPT !.status[k] = "FINAL"]
             /\ UNCHANGED <<breaking, phase>>
    <2>1. /\ IssueInv(current') /\ IssuesOne(current, current', "create", TranslateKey(k))
          /\ DOMAIN current'.objs = DOMAIN current.objs \cup {TranslateKey(k)}
      BY <1>2, <1>3, <1>6, <1>7, CreateIssueStep
    <2>2. GroupsOf(temp'.objs) = GroupsOf(temp.objs)
      <3>1. temp'.objs = temp.objs
        BY <1>3, <1>7 DEF Matching, TempInv
      <3> QED
        BY <3>1
    <2>3. Fits(GroupsOf(current'.objs), GroupsOf(temp.objs), GroupsOf(atStart))
      <3>1. CASE k \in Groups
        <4>1. GroupsOf(current'.objs) = GroupsOf(current.objs) \cup {k}
          BY <1>2, <1>6, <2>1, <3>1, NewGroupIs DEF GroupsOf
        <4>2. \A c \in GroupsOf(current.objs) : current.status[c] # "NOT_PROCESSED"
          BY <1>1, <1>5, <1>7, <3>1, GoneGroups
        <4>3. IsFiniteSet(GroupsOf(atStart))
          BY LimitIs DEF Fits
        <4> QED
          BY <1>2, <1>3, <1>6, <3>1, <4>1, <4>2, <4>3, RoomForOne
      <3>2. CASE k \notin Groups
        <4>1. GroupsOf(current'.objs) = GroupsOf(current.objs)
          BY <1>2, <1>6, <2>1, <3>2, NewGroupIs DEF GroupsOf
        <4> QED
          BY <4>1, LimitIs
      <3> QED
        BY <3>1, <3>2
    <2>4. CreatesFit(atStart, Issued(current'), GroupsOf(temp.objs))
      BY <1>3, <2>1, <2>3, LimitIs, OneMoreFits
    <2> QED
      BY <1>1, <1>2, <1>7, <2>2, <2>3, <2>4, LimitFrom, GroupsFinite
  <1>8. ASSUME NEW c \in gone, breaking' = <<k, c>>, phase' = "break", UNCHANGED <<current, temp>>
        PROVE  LimitInv'
    <2>1. breaking'[1] \in Groups => breaking'[2] \in Groups
      BY <1>1, <1>5, <1>8, GoneGroups
    <2> QED
      BY <1>1, <1>8, <2>1, LimitIs, LimitFrom, GroupsFinite
  <1> QED
    BY <1>5, <1>7, <1>8

\* A member that goes is not a group.
LEMMA DependentFits ==
    ASSUME TransitionInv, LimitInv, breakConfig = Groups, NEW m \in Members, RemoveDependent(m)
    PROVE  LimitInv'
  <1>1. /\ phase = "break" /\ m \in Dependents(current, breaking[2])
        /\ UNCHANGED <<temp, breakConfig, asic, atStart, peak, breaking>>
    BY DEF RemoveDependent
  <1>2. m \in DOMAIN current.objs /\ current.status[m] = "NOT_PROCESSED"
    BY <1>1, DependentIs DEF TransitionInv, PhaseInv
  <1>3. CASE current.m_vidReference[m] # 0
    <2>1. phase' = "thrown" /\ UNCHANGED current
      BY <1>3 DEF RemoveDependent
    <2> QED
      BY <1>1, <2>1, LimitIs, LimitFrom, GroupsFinite
  <1>4. CASE current.m_vidReference[m] = 0
    <2>1. current' = AsicRemoveObject(current, m) /\ UNCHANGED phase
      BY <1>4 DEF RemoveDependent
    <2> QED
      BY <1>1, <1>2, <1>4, <2>1, RemoveFits
  <1> QED
    BY <1>3, <1>4

\* A group goes and one is made.
LEMMA MakeFits ==
    ASSUME TransitionInv, LimitInv, breakConfig = Groups, MakeAfterBreak
    PROVE  LimitInv'
  <1> DEFINE k == breaking[1]
             c == breaking[2]
             view == AsicRemoveObject(current, c)
  <1>1. phase = "break" /\ UNCHANGED <<vidToRid, breakConfig, asic, atStart, peak>>
    BY DEF MakeAfterBreak
  <1>2. ViewInv(current) /\ Matching /\ IssueInv(current) /\ FinalInv(current) /\ BreakInv
    BY <1>1 DEF TransitionInv, PhaseInv
  <1>3. CASE c \in Oids /\ current.m_vidReference[c] # 0
    <2>1. phase' = "thrown" /\ UNCHANGED <<current, temp, breaking>>
      BY <1>3 DEF MakeAfterBreak
    <2> QED
      BY <1>1, <2>1, LimitIs, LimitFrom, GroupsFinite
  <1>4. CASE ~(c \in Oids /\ current.m_vidReference[c] # 0)
    <2>1. /\ current' = CreateNewObject(view, k)
          /\ temp' = [temp EXCEPT !.status[k] = "FINAL"]
          /\ phase' = "process"
      BY <1>4 DEF MakeAfterBreak
    <2>2. /\ c \in DOMAIN current.objs /\ current.status[c] = "NOT_PROCESSED"
          /\ k \in DOMAIN temp.objs /\ temp.status[k] = "NOT_PROCESSED"
          /\ RefsOf(k, temp.objs[k]) \subseteq Processed
          /\ k \in Oids \/ c = TranslateKey(k)
      BY <1>2 DEF BreakInv
    <2>3. k \in Groups => c \in Groups
      BY <1>1, LimitIs
    <2> HIDE DEF k, c
    <2>4. /\ ViewInv(view) /\ IssueInv(view) /\ FinalInv(view)
          /\ DOMAIN view.objs = DOMAIN current.objs \ {c} /\ IssuesOne(current, view, "remove", c)
          /\ \A x \in DOMAIN current.objs \ {c} :
                view.objs[x] = current.objs[x] /\ view.status[x] = current.status[x]
      BY <1>2, <1>4, <2>2, RemoveStep
    <2>5. TranslateKey(k) \notin DOMAIN view.objs
      <3>1. CASE k \in Oids
        BY <1>2, <2>2, <2>4, <3>1, NewIds DEF Matching
      <3>2. CASE k \notin Oids
        BY <2>2, <2>4, <3>2
      <3> QED
        BY <3>1, <3>2
    <2> HIDE DEF view
    <2>6. /\ IssueInv(current') /\ IssuesOne(view, current', "create", TranslateKey(k))
          /\ DOMAIN current'.objs = DOMAIN view.objs \cup {TranslateKey(k)}
      BY <1>2, <2>1, <2>2, <2>4, <2>5, CreateIssueStep
    <2>7. Fits(GroupsOf(current'.objs), GroupsOf(temp.objs), GroupsOf(atStart))
      <3>1. CASE k \in Groups
        <4>1. c \in GroupsOf(current.objs) /\ GroupsOf(current'.objs) = (GroupsOf(current.objs) \ {c}) \cup {k}
          BY <2>2, <2>3, <2>4, <2>6, <3>1, NewGroupIs DEF GroupsOf
        <4>2. Fits(GroupsOf(current.objs), GroupsOf(temp.objs), GroupsOf(atStart))
          BY LimitIs
        <4>3. Fits((GroupsOf(current.objs) \ {c}) \cup {k}, GroupsOf(temp.objs), GroupsOf(atStart))
          BY <4>1, <4>2, SwapFits
        <4> QED
          BY <4>1, <4>3
      <3>2. CASE k \notin Groups
        <4>1. GroupsOf(current'.objs) \subseteq GroupsOf(current.objs)
          BY <2>2, <2>4, <2>6, <3>2, NewGroupIs DEF GroupsOf
        <4> QED
          BY <4>1, LimitIs, LessFits
      <3> QED
        BY <3>1, <3>2
    <2>8. CreatesFit(atStart, Issued(view), GroupsOf(temp.objs))
      BY <1>2, <2>4, LimitIs, OneMoreFits
    <2>9. CreatesFit(atStart, Issued(current'), GroupsOf(temp.objs))
      BY <2>4, <2>6, <2>7, <2>8, OneMoreFits
    <2>10. GroupsOf(temp'.objs) = GroupsOf(temp.objs)
      <3>1. temp'.objs = temp.objs
        BY <1>2, <2>1 DEF Matching, TempInv
      <3> QED
        BY <3>1
    <2> QED
      BY <1>1, <2>1, <2>7, <2>9, <2>10, LimitFrom, GroupsFinite
  <1> QED
    BY <1>3, <1>4

\* What is taken over is requested from then on.
LEMMA TransferFits ==
    ASSUME TransitionInv, LimitInv, breakConfig = Groups, TransferNotProcessed
    PROVE  LimitInv'
  <1> DEFINE kept == {k \in DOMAIN current.objs : current.status[k] = "NOT_PROCESSED"}
             status == Override(current.status, [k \in kept |-> "FINAL"])
             objs == Override(temp.objs, [k \in kept |-> current.objs[k]])
  <1>1. /\ current' = [current EXCEPT !.status = status]
        /\ temp' = [temp EXCEPT !.objs = objs, !.status = Override(temp.status, [k \in kept |-> "FINAL"])]
        /\ phase' = "check" /\ UNCHANGED <<breakConfig, asic, atStart, peak, breaking>>
    BY DEF TransferNotProcessed, TransitionInv, Matching, TempInv, ViewInv, IsAsicView, HasFields
  <1>2. DOMAIN objs = DOMAIN temp.objs \cup kept
    BY DEF Override
  <1> HIDE DEF status, objs
  <1>3. current'.objs = current.objs /\ Issued(current') = Issued(current)
    BY <1>1 DEF Issued, TransitionInv, ViewInv, IsAsicView, HasFields
  <1>4. temp'.objs = objs
    BY <1>1 DEF TransitionInv, Matching, TempInv
  <1>5. GroupsOf(temp'.objs) = GroupsOf(temp.objs) \cup (Groups \cap kept)
    BY <1>2, <1>4 DEF GroupsOf
  <1>6. Groups \cap kept \subseteq GroupsOf(current.objs)
    BY DEF GroupsOf
  <1>7. IsFiniteSet(GroupsOf(temp.objs) \cup (Groups \cap kept))
    BY <1>6, GroupsFinite, FS_Subset, FS_Union
  <1> QED
    BY <1>1, <1>3, <1>5, <1>7, LimitIs, LimitFrom

\* An operation on the ASIC: with the create of a group everything issued before it has
\* been executed, and perhaps more removes.
LEMMA ExecuteFits ==
    ASSUME TransitionInv, LimitInv, breakConfig = Groups, ExecuteOperation
    PROVE  LimitInv'
  <1> DEFINE v == optimized.v
             a == v[taken + 1]
             S == {v[i] : i \in 1 .. taken}
             O == Issued(current)
             T == GroupsOf(temp.objs)
             R == GroupsOf(atStart)
  <1>1. /\ phase = "execute" /\ taken < Len(v)
        /\ UNCHANGED <<current, temp, vidToRid, atStart, breaking, breakConfig, optimized>>
        /\ IF VendorAccepts(asic, a)
           THEN asic' = VendorResult(asic, a) /\ peak' = Max({peak, GroupsOn(asic')}) /\ phase' = "execute"
           ELSE phase' = "failed" /\ UNCHANGED <<asic, peak>>
    BY DEF ExecuteOperation
  <1>2. IsOrdered(optimized) /\ Elements(v) = O /\ ExecInv(v, taken)
    BY <1>1 DEF TransitionInv, PhaseInv
  <1>3. v \in Seq(Operation) /\ Sorted(v) /\ Len(v) \in Nat /\ taken \in Nat
    BY <1>2 DEF IsOrdered, ExecInv
  <1>4. DOMAIN asic \subseteq Keys /\ Applied(atStart, S, asic)
    BY <1>2 DEF ExecInv
  <1>5. IsNextOp(atStart, O, S, a)
    BY <1>1, <1>2, <1>3, SortedOrder
  <1>6. /\ \A b \in O : b.opId \in Nat
        /\ \A b \in O : b.opId = a.opId => b = a
    <2>1. Numbered(O, current.m_asicOperationId) /\ a \in O
      BY <1>5 DEF TransitionInv, IssueInv, OpsInv, IsNextOp
    <2> QED
      BY <2>1, OperationIs DEF Numbered
  <1>7. /\ Fits(GroupsOf(asic), T, R) /\ CreatesFit(atStart, O, T) /\ peak \in Nat
        /\ peak <= Cardinality(T) \/ peak <= Cardinality(R)
    BY LimitIs
  <1> HIDE DEF S, a, O, T, R
  <1>8. CASE ~VendorAccepts(asic, a)
    <2>1. UNCHANGED <<current, temp, asic, atStart, peak, breaking, breakConfig>> /\ phase' = "failed"
      BY <1>1, <1>8
    <2> QED
      BY <2>1, LimitIs, LimitFrom, GroupsFinite
  <1>9. CASE VendorAccepts(asic, a)
    <2>1. asic' = VendorResult(asic, a) /\ peak' = Max({peak, GroupsOn(asic')}) /\ phase' = "execute"
      BY <1>1, <1>9
    <2>2. a.op \in {"create", "set", "remove"}
      BY <1>1, <1>3, OperationIs DEF a
    <2>3. Fits(GroupsOf(asic'), T, R)
      <3>1. CASE a.op = "create" /\ a.key \in Groups
        <4>1. DOMAIN asic' = DOMAIN asic \cup {a.key}
          BY <2>1, <3>1, WithIs DEF VendorResult
        <4>2. ASSUME NEW g \in GroupsOf(asic') PROVE g \in GroupsAt(atStart, O, a.opId)
          <5>1. g \in Groups /\ g \in Keys /\ (g = a.key \/ g \in DOMAIN asic)
            BY <4>1, <4>2 DEF GroupsOf, Keys, Oids
          <5>2. CASE g = a.key
            BY <1>5, <1>6, <3>1, <5>1, <5>2 DEF GroupsAt, IsNextOp
          <5>3. CASE Created(S, g)
            <6>1. PICK b \in S : b.op = "create" /\ b.key = g
              BY <5>3 DEF Created
            <6>2. b \in O /\ b.opId < a.opId /\ b.opId <= a.opId
              BY <1>5, <1>6, <6>1 DEF IsNextOp
            <6> QED
              BY <5>1, <6>1, <6>2 DEF GroupsAt
          <5>4. CASE g \in DOMAIN atStart /\ ~Removed(S, g)
            <6>1. ASSUME NEW b \in O, b.opId <= a.opId, b.op = "remove", b.key = g PROVE FALSE
              <7>1. b # a /\ b.opId < a.opId
                BY <1>5, <1>6, <3>1, <6>1 DEF IsNextOp
              <7>2. b \in S
                BY <1>5, <3>1, <7>1 DEF IsNextOp
              <7> QED
                BY <5>4, <6>1, <7>2 DEF Removed
            <6> QED
              BY <5>1, <5>4, <6>1 DEF GroupsAt
          <5>5. g = a.key \/ Created(S, g) \/ (g \in DOMAIN atStart /\ ~Removed(S, g))
            BY <1>4, <5>1 DEF Applied
          <5> QED
            BY <5>2, <5>3, <5>4, <5>5
        <4>3. Fits(GroupsAt(atStart, O, a.opId), T, R)
          BY <1>5, <1>7, <3>1 DEF CreatesFit, IsNextOp, R
        <4> QED
          BY <4>2, <4>3, LessFits
      <3>2. CASE ~(a.op = "create" /\ a.key \in Groups)
        <4>1. CASE a.op = "create"
          <5>1. DOMAIN asic' = DOMAIN asic \cup {a.key}
            BY <2>1, <4>1, WithIs DEF VendorResult
          <5>2. GroupsOf(asic') \subseteq GroupsOf(asic)
            BY <3>2, <4>1, <5>1 DEF GroupsOf
          <5> QED
            BY <1>7, <5>2, LessFits
        <4>2. CASE a.op = "set"
          <5>1. asic' = [asic EXCEPT ![a.key].ref = a.obj.ref]
            BY <2>1, <4>2 DEF VendorResult
          <5>2. GroupsOf(asic') \subseteq GroupsOf(asic)
            BY <5>1 DEF GroupsOf
          <5> QED
            BY <1>7, <5>2, LessFits
        <4>3. CASE a.op = "remove"
          <5>1. asic' = Without(asic, a.key)
            BY <2>1, <4>3 DEF VendorResult
          <5>2. GroupsOf(asic') \subseteq GroupsOf(asic)
            BY <5>1 DEF GroupsOf, Without, Restrict
          <5> QED
            BY <1>7, <5>2, LessFits
        <4> QED
          BY <2>2, <4>1, <4>2, <4>3
      <3> QED
        BY <3>1, <3>2
    <2>4. peak' \in Nat /\ (peak' <= Cardinality(T) \/ peak' <= Cardinality(R))
      <3>1. GroupsOn(asic') = Cardinality(GroupsOf(asic'))
        BY DEF GroupsOn, GroupsOf
      <3>2. GroupsOn(asic') \in Nat /\ (GroupsOn(asic') <= Cardinality(T) \/ GroupsOn(asic') <= Cardinality(R))
        BY <2>3, <3>1, FS_CardinalityType DEF Fits
      <3>3. peak' = IF peak >= GroupsOn(asic') THEN peak ELSE GroupsOn(asic')
        BY <1>7, <2>1, <3>2, MaxIs
      <3> QED
        BY <1>7, <3>2, <3>3
    <2>5. /\ GroupsOf(temp.objs)' = T /\ GroupsOf(atStart)' = R /\ GroupsOf(asic)' = GroupsOf(asic')
          /\ GroupsOf(current.objs)' = GroupsOf(current.objs)
      BY <1>1 DEF GroupsOf, T, R
    <2>6. CreatesFit(atStart, Issued(current), GroupsOf(temp.objs))'
      BY <1>1, <1>7 DEF CreatesFit, GroupsAt, GroupsOf, Issued, O, T
    <2>7. Fits(GroupsOf(current.objs), T, R)
      BY LimitIs DEF T, R
    <2> QED
      BY <2>1, <2>3, <2>4, <2>5, <2>6, <2>7 DEF LimitInv, Fits
  <1> QED
    BY <1>8, <1>9

\* At the start nothing has been issued.
LEMMA InitFits == Init => LimitInv
  <1> SUFFICES ASSUME Init PROVE LimitInv
    OBVIOUS
  <1>1. PICK cur \in CurrentViews, tmp \in TempViews :
          /\ current = FromDump(cur, tmp)
          /\ temp = [objs |-> tmp, status |-> FromDump(tmp, cur).status]
          /\ asic = cur /\ atStart = cur /\ peak = GroupsOn(cur) /\ phase = "process"
    BY DEF Init
  <1>2. IsFiniteSet(DOMAIN cur) /\ IsFiniteSet(DOMAIN tmp)
    BY ViewsAssumption DEF IsView
  <1>3. IsFiniteSet(GroupsOf(cur)) /\ IsFiniteSet(GroupsOf(tmp))
    BY <1>2, FS_Subset DEF GroupsOf
  <1>4. Cardinality(GroupsOf(cur)) \in Nat /\ peak = Cardinality(GroupsOf(cur))
    BY <1>1, <1>3, FS_CardinalityType DEF GroupsOf, GroupsOn
  <1>5. current.objs = cur /\ temp.objs = tmp /\ Issued(current) = {}
    BY <1>1 DEF FromDump, Issued, Elements
  <1>6. Fits(GroupsOf(cur), GroupsOf(tmp), GroupsOf(cur))
    BY <1>3, <1>4 DEF Fits
  <1>7. CreatesFit(atStart, Issued(current), GroupsOf(temp.objs))
    BY <1>5 DEF CreatesFit
  <1> QED
    BY <1>1, <1>4, <1>5, <1>6, <1>7 DEF LimitInv

\* Every step keeps the limit.
LEMMA StepFits == TransitionInv /\ LimitInv /\ [Next]_vars => LimitInv'
  <1> SUFFICES ASSUME TransitionInv, LimitInv, [Next]_vars PROVE LimitInv'
    OBVIOUS
  <1>0. breakConfig' = breakConfig
    BY DEF Next, UpdateBestMatch, MatchedFails, CreateInstead, RemoveDependent, MakeAfterBreak, AllProcessed, RemoveUnused,
           TransferNotProcessed, CheckViews, OrderOperation, AllOrdered, ExecuteOperation, AllExecuted, Over, vars
  <1>1. SUFFICES ASSUME breakConfig = Groups PROVE LimitInv'
    BY <1>0 DEF LimitInv
  <1>2. ASSUME UNCHANGED <<current, temp, breakConfig, asic, atStart, peak, breaking>>, phase' # "break" \/ phase' = phase
        PROVE  LimitInv'
    BY <1>1, <1>2, LimitIs, LimitFrom, GroupsFinite
  <1>3. CASE \E k \in Keys : \E c \in Keys : UpdateBestMatch(k, c)
    BY <1>1, <1>3, UpdateFits
  <1>4. CASE \E k \in Keys : MatchedFails(k) \/ CreateInstead(k)
    <2>1. ASSUME NEW k \in Keys, MatchedFails(k) PROVE LimitInv'
      BY <1>2, <2>1 DEF MatchedFails
    <2> QED
      BY <1>1, <1>4, <2>1, CreateFits
  <1>5. CASE \E m \in Members : RemoveDependent(m)
    BY <1>1, <1>5, DependentFits
  <1>6. CASE MakeAfterBreak
    BY <1>1, <1>6, MakeFits
  <1>7. CASE AllProcessed \/ CheckViews \/ OrderOperation \/ AllOrdered \/ AllExecuted
    BY <1>2, <1>7 DEF AllProcessed, CheckViews, OrderOperation, AllOrdered, AllExecuted
  <1>8. CASE \E k \in Keys : RemoveUnused(k)
    BY <1>1, <1>8, RemoveFits DEF RemoveUnused, Removable
  <1>9. CASE TransferNotProcessed
    BY <1>1, <1>9, TransferFits
  <1>10. CASE ExecuteOperation
    BY <1>1, <1>10, ExecuteFits
  <1>11. CASE Over \/ UNCHANGED vars
    BY <1>2, <1>11 DEF Over, vars
  <1> QED
    BY <1>3, <1>4, <1>5, <1>6, <1>7, <1>8, <1>9, <1>10, <1>11 DEF Next

----------------------------------------------------------------------------
(* The theorems *)

\* The invariant holds for any two views, in any order of processing, with any choice
\* of candidates and with or without a break config.
THEOREM TransitionInvariant == Spec => []TransitionInv
  <1>1. Init => TransitionInv
    BY InitHolds
  <1>2. TransitionInv /\ [Next]_vars => TransitionInv'
    BY StepKeeps
  <1> QED
    BY <1>1, <1>2, PTL DEF Spec

\* The counts AsicView keeps by hand are the numbers of references in the current view,
\* after any sets, creates and removes (releaseExisgingLinks, bindNewLinks).
THEOREM CountsStayRight == Spec => []CountsAreReferences
  <1>1. TransitionInv => CountsAreReferences
    BY DEF TransitionInv, ViewInv, Counted, CountsAreReferences
  <1> QED
    BY <1>1, TransitionInvariant, PTL

\* The checks of compareViews never fail, and nothing throws without a break config or a
\* matched object of which one view alone has an attribute that cannot be changed
\* (checkObjectsStatus, checkMap, removeCurrentObjectDependencyTree,
\* performObjectSetTransition).
THEOREM ComparisonGetsThrough == Spec => []ComparisonPasses
  <1>1. TransitionInv => ComparisonPasses
    BY DEF TransitionInv, PhaseInv, ComparisonPasses
  <1> QED
    BY <1>1, TransitionInvariant, PTL

\* The ASIC refuses no operation: whatever the removes are moved in front of, nothing is
\* used before it is created or after it is removed, or removed while it is used
\* (asicGetWithOptimizedRemoveOperations, executeOperationsOnAsic).
THEOREM NoOperationFails == Spec => []OperationsSucceed
  <1>1. TransitionInv => OperationsSucceed
    BY DEF TransitionInv, PhaseInv, OperationsSucceed
  <1> QED
    BY <1>1, TransitionInvariant, PTL

\* After the last operation the ASIC holds the temporary view: the current view and the
\* ASIC are what the same operations make of the same start, and the current view has
\* what was requested (executeOperationsOnAsic, performObjectSetTransition).
THEOREM AsicHoldsTheView == Spec => []ViewIsReached
  <1>1. TransitionInv => ViewIsReached
    <2> SUFFICES ASSUME TransitionInv, phase = "done"
                 PROVE  /\ DOMAIN asic = {TranslateKey(k) : k \in DOMAIN temp.objs}
                        /\ \A k \in DOMAIN temp.objs : asic[TranslateKey(k)] = TranslateObject(temp.objs[k])
      BY DEF ViewIsReached
    <2>1. /\ ViewInv(current) /\ MatchInv /\ ValuesInv /\ IssueInv(current) /\ Processed = DOMAIN temp.objs
          /\ \A c \in DOMAIN current.objs : current.status[c] = "FINAL"
          /\ Elements(optimized.v) = Issued(current) /\ ExecInv(optimized.v, taken) /\ taken = Len(optimized.v)
      BY DEF TransitionInv, Matching, PhaseInv
    <2>2. /\ Applied(atStart, Issued(current), asic)
          /\ DOMAIN asic \subseteq Keys /\ asic \in [DOMAIN asic -> Objects]
      BY <2>1 DEF ExecInv, Elements
    <2>3. /\ Applied(atStart, Issued(current), current.objs)
          /\ DOMAIN current.objs \subseteq Keys /\ current.objs \in [DOMAIN current.objs -> Objects]
      BY <2>1 DEF IssueInv, OpsInv, ViewInv, IsAsicView
    <2>4. asic = current.objs
      BY <2>2, <2>3, SameResult
    <2> QED
      BY <2>1, <2>4 DEF MatchInv, ValuesInv
  <1> QED
    BY <1>1, TransitionInvariant, PTL

\* The new view names its own objects, but for create-only attributes transferred to
\* a matched object (performObjectSetTransition, transferNotProcessed).
THEOREM NewViewStaysClosed == Spec => []NewViewIsClosed
  <1>1. TransitionInv => NewViewIsClosed
    <2> SUFFICES ASSUME TransitionInv, phase = "done", NEW k \in DOMAIN temp.objs,
                        NEW v \in RefsOf(k, temp.objs[k]) \ DOMAIN temp.objs
                 PROVE  vidToRid[k] = k /\ v = temp.objs[k].up /\ v \in Range(vidToRid)
      BY DEF NewViewIsClosed
    <2>1. /\ ViewInv(current) /\ TempInv /\ NewRefs /\ RidInv /\ MatchInv /\ Processed = DOMAIN temp.objs
          /\ \A c \in DOMAIN current.objs : current.status[c] = "FINAL"
      BY DEF TransitionInv, Matching, PhaseInv
    <2>2. /\ k \in DOMAIN vidToRid /\ vidToRid[k] = k
          /\ v = temp.objs[k].up /\ v = current.objs[k].up
      BY <2>1 DEF NewRefs
    <2>3. k \in DOMAIN current.objs
      BY <2>1, <2>2, KeptIsFinal
    <2>4. v \in Oids /\ v \in RefsOf(k, current.objs[k])
      BY <2>2, RefsAre
    <2>5. v \in DOMAIN current.objs
      BY <2>1, <2>3, <2>4 DEF ViewInv, Closed
    <2>6. PICK l \in Processed : TranslateKey(l) = v
      BY <2>1, <2>5 DEF MatchInv
    <2>7. l \in Oids /\ Translate(l) = v /\ l \in DOMAIN temp.objs
      BY <2>1, <2>4, <2>6, TranslateKeyIs DEF TempInv
    <2>8. l \in DOMAIN vidToRid /\ vidToRid[l] = v
      BY <2>7 DEF Translate
    <2> QED
      BY <2>2, <2>8 DEF Range
  <1> QED
    BY <1>1, TransitionInvariant, PTL

\* Groups broken before they are made never outnumber both those at the start and those
\* requested, although the removes are moved and executed later than the views are
\* compared (breakBeforeMake, executeOperationsOnAsic).
THEOREM BreakStaysFirst == Spec => []BreakComesFirst
  <1>1. Init => TransitionInv /\ LimitInv
    BY InitHolds, InitFits
  <1>2. (TransitionInv /\ LimitInv) /\ [Next]_vars => (TransitionInv /\ LimitInv)'
    BY StepKeeps, StepFits
  <1>3. TransitionInv /\ LimitInv => BreakComesFirst
    <2> SUFFICES ASSUME TransitionInv, LimitInv, breakConfig = Groups
                 PROVE  peak <= Max({GroupsOn(temp.objs), GroupsOn(atStart)})
      BY DEF BreakComesFirst
    <2>1. /\ IsFiniteSet(GroupsOf(temp.objs)) /\ IsFiniteSet(GroupsOf(atStart)) /\ peak \in Nat
          /\ peak <= GroupsOn(temp.objs) \/ peak <= GroupsOn(atStart)
      BY LimitIs DEF Fits, GroupsOf, GroupsOn
    <2>2. GroupsOn(temp.objs) \in Nat /\ GroupsOn(atStart) \in Nat
      BY <2>1, FS_CardinalityType DEF GroupsOf, GroupsOn
    <2> QED
      BY <2>1, <2>2, MaxIs
  <1> QED
    BY <1>1, <1>2, <1>3, PTL DEF Spec
=============================================================================
