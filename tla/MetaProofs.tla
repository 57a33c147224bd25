------------------------------- MODULE MetaProofs -------------------------------
(***************************************************************************)
(* The reference counts of the metadata checks count references, the       *)
(* database is a closed graph, and what a port is said to have is known as *)
(* long as it is there: for every set of objects, switches, ports and      *)
(* entries and every number of lists.                                      *)
(***************************************************************************)
EXTENDS Meta, FiniteSetTheorems, TLAPS

--------------------------------------------------------------------------------
(* Sets of references                                                      *)

\* The references in a finite collection are finitely many.
LEMMA ReferencesFinite ==
    ASSUME NEW coll, DOMAIN coll \subseteq Key, NEW o
    PROVE  IsFiniteSet(References(coll, o))
  <1>1. IsFiniteSet(Attr)
    <2>1. Attr = ({} \cup {"list"}) \cup {"port"} \cup {"member"}
      BY DEF Attr
    <2> QED
      BY <2>1, FS_EmptySet, FS_AddElement
  <1>2. IsFiniteSet(DOMAIN coll)
    <2>1. IsFiniteSet(Key)
      BY IdAssumption, FS_Union DEF Key
    <2> QED
      BY <2>1, FS_Subset
  <1>3. IsFiniteSet((DOMAIN coll) \X Attr)
    BY <1>1, <1>2, FS_Product
  <1> QED
    BY <1>3, FS_Subset DEF References

\* The places that PostCreate and PostRemove count are the references.
LEMMA UsesAreReferences ==
    ASSUME NEW coll, NEW o
    PROVE  UsesOf(coll, o) = References(coll, o)
  <1>1. ASSUME NEW r \in UsesOf(coll, o) PROVE r \in References(coll, o)
    <2>1. PICK k \in DOMAIN coll : r \in Uses(k, coll[k], o)
      BY <1>1 DEF UsesOf
    <2>2. PICK a \in Attr : o \in coll[k][a] /\ r = <<k, a>>
      BY <2>1 DEF Uses
    <2> QED
      BY <2>2 DEF References
  <1>2. ASSUME NEW r \in References(coll, o) PROVE r \in UsesOf(coll, o)
    <2>1. PICK k \in DOMAIN coll, a \in Attr : r = <<k, a>> /\ o \in coll[k][a]
      BY <1>2 DEF References
    <2>2. r \in Uses(k, coll[k], o)
      BY <2>1 DEF Uses
    <2> QED
      BY <2>2 DEF UsesOf
  <1> QED
    BY <1>1, <1>2

\* Counting a disjoint union and a part that is taken out.
LEMMA CountUnion ==
    ASSUME NEW A, NEW B, IsFiniteSet(A), IsFiniteSet(B), A \cap B = {}
    PROVE  Cardinality(A \cup B) = Cardinality(A) + Cardinality(B)
  <1>1. Cardinality(A \cap B) = 0
    BY FS_EmptySet
  <1>2. Cardinality(A) \in Nat /\ Cardinality(B) \in Nat
    BY FS_CardinalityType
  <1>3. Cardinality(A \cup B) = Cardinality(A) + Cardinality(B) - Cardinality(A \cap B)
    BY FS_Union
  <1> QED
    BY <1>1, <1>2, <1>3

\* Taking a part out leaves the difference.
LEMMA CountRest ==
    ASSUME NEW A, NEW B, IsFiniteSet(A), B \subseteq A
    PROVE  Cardinality(A \ B) = Cardinality(A) - Cardinality(B)
  <1>1. A \cap B = B
    OBVIOUS
  <1> QED
    BY <1>1, FS_Difference

--------------------------------------------------------------------------------
(***************************************************************************)
(* The invariant of the object database.  The counts alone are not         *)
(* inductive: that nothing refers to an id which is not known, so that a   *)
(* new id starts from 0, is the closure of the graph, and an object leaves *)
(* a closed graph only because its count is right.                         *)
(***************************************************************************)
ClosedRefs ==
    \A k \in DOMAIN m_saiObjectCollection : \A a \in Attr : \A o \in m_saiObjectCollection[k][a] :
        o \in Known /\ SwitchOf[o] = SwitchOf[k]

DbType ==
    /\ Known \subseteq Oid
    /\ m_oids \in [Known -> Nat]
    /\ DOMAIN m_saiObjectCollection \subseteq Key
    /\ m_saiObjectCollection \in [DOMAIN m_saiObjectCollection -> [Attr -> SUBSET Oid]]
    /\ DOMAIN m_attrKeys \subseteq Key

DbInv == DbType /\ CountsAreReferences /\ ClosedRefs

\* Nothing refers to an id that is not known.
LEMMA UnknownIsUnused ==
    ASSUME DbInv, NEW o, o \notin Known
    PROVE  References(m_saiObjectCollection, o) = {}
  BY DEF DbInv, ClosedRefs, References

\* Counts that are right make a function to the naturals.
LEMMA CountsAreNat ==
    ASSUME NEW coll, DOMAIN coll \subseteq Key, NEW o
    PROVE  Cardinality(References(coll, o)) \in Nat
  BY ReferencesFinite, FS_CardinalityType

\* Ids that become known have no attributes, and no object refers to them yet.
LEMMA SnoopFacts ==
    ASSUME DbInv, NEW L, L \subseteq Oid
    PROVE  /\ DOMAIN Snooped(L) = Known \cup L
           /\ DOMAIN SnoopedObjects(L) = DOMAIN m_saiObjectCollection \cup L
           /\ \A k \in DOMAIN m_saiObjectCollection : SnoopedObjects(L)[k] = m_saiObjectCollection[k]
           /\ \A k \in L \ DOMAIN m_saiObjectCollection : SnoopedObjects(L)[k] = NoAttrs
           /\ \A o \in Known \cup L :
                Snooped(L)[o] = Cardinality(References(m_saiObjectCollection, o))
  <1>1. DOMAIN Snooped(L) = Known \cup L
    BY DEF Snooped
  <1>2. DOMAIN SnoopedObjects(L) = DOMAIN m_saiObjectCollection \cup L
    BY DEF SnoopedObjects
  <1>3. /\ \A k \in DOMAIN m_saiObjectCollection : SnoopedObjects(L)[k] = m_saiObjectCollection[k]
        /\ \A k \in L \ DOMAIN m_saiObjectCollection : SnoopedObjects(L)[k] = NoAttrs
    BY DEF SnoopedObjects, Exists
  <1>4. ASSUME NEW o \in Known \cup L
        PROVE  Snooped(L)[o] = Cardinality(References(m_saiObjectCollection, o))
    <2>1. CASE o \in Known
      BY <2>1 DEF Snooped, DbInv, CountsAreReferences
    <2>2. CASE o \notin Known
      BY <2>2, UnknownIsUnused, FS_EmptySet DEF Snooped
    <2> QED
      BY <2>1, <2>2
  <1> QED
    BY <1>1, <1>2, <1>3, <1>4

\* NoAttrs has no references.
LEMMA NoAttrsFacts ==
    /\ NoAttrs \in [Attr -> SUBSET Oid]
    /\ \A a \in Attr : NoAttrs[a] = {}
    /\ Refs(NoAttrs) = {}
  BY DEF NoAttrs, Refs

\* post_get, and a notification that is ignored: ids become known.
LEMMA SnoopKeeps ==
    ASSUME DbInv, NEW L, L \subseteq Oid,
           m_oids' = Snooped(L), m_saiObjectCollection' = SnoopedObjects(L), UNCHANGED m_attrKeys
    PROVE  DbInv' /\ Known' = Known \cup L /\ Graph!Update
  <1>1. /\ Known' = Known \cup L
        /\ DOMAIN m_saiObjectCollection' = DOMAIN m_saiObjectCollection \cup L
        /\ \A k \in DOMAIN m_saiObjectCollection :
                m_saiObjectCollection'[k] = m_saiObjectCollection[k]
        /\ \A k \in L \ DOMAIN m_saiObjectCollection : m_saiObjectCollection'[k] = NoAttrs
        /\ \A o \in Known' : m_oids'[o] = Cardinality(References(m_saiObjectCollection, o))
    BY SnoopFacts DEF Known
  <1>2. \A o : References(m_saiObjectCollection', o) = References(m_saiObjectCollection, o)
    BY <1>1, NoAttrsFacts DEF References
  <1>3. \A k \in DOMAIN m_saiObjectCollection' : m_saiObjectCollection'[k] \in [Attr -> SUBSET Oid]
    BY <1>1, NoAttrsFacts DEF DbInv, DbType
  <1>4. DOMAIN m_saiObjectCollection' \subseteq Key
    BY <1>1 DEF DbInv, DbType, Key
  <1>5. DbType'
    <2>1. m_oids' \in [Known' -> Nat]
      BY <1>1, CountsAreNat DEF DbInv, DbType, Snooped, Known
    <2>2. m_saiObjectCollection' \in [DOMAIN m_saiObjectCollection' -> [Attr -> SUBSET Oid]]
      BY <1>3 DEF SnoopedObjects
    <2> QED
      BY <1>1, <1>4, <2>1, <2>2 DEF DbInv, DbType
  <1>6. CountsAreReferences'
    BY <1>1, <1>2, IdAssumption DEF DbInv, CountsAreReferences
  <1>7. ClosedRefs'
    BY <1>1, NoAttrsFacts DEF DbInv, ClosedRefs
  <1>8. Graph!Update
    BY <1>1, <1>3, <1>4, NoAttrsFacts DEF Graph!Update, Graph!Refs, Graph!Key, Refs, Key
  <1> QED
    BY <1>1, <1>5, <1>6, <1>7, <1>8 DEF DbInv

--------------------------------------------------------------------------------
(* post_create, post_set and post_remove                                   *)

\* Objects that are new, whose references lead to known objects of their own
\* switch, get into the database with counts that are right.
LEMMA PostCreateKeeps ==
    ASSUME DbInv, NEW L, L \subseteq Oid, NEW new, NEW keys,
           DOMAIN new \subseteq Key,
           DOMAIN new \cap (DOMAIN m_saiObjectCollection \cup L) = {},
           \A x \in DOMAIN new : new[x] \in [Attr -> SUBSET Oid],
           \A x \in DOMAIN new : \A a \in Attr : \A o \in new[x][a] :
                o \in Known \cup L /\ SwitchOf[o] = SwitchOf[x],
           DOMAIN keys \subseteq Key,
           PostCreate(L, new, keys)
    PROVE  DbInv' /\ Known' = Known \cup L \cup ((DOMAIN new) \cap Oid) /\ Graph!Update
  <1> DEFINE coll == m_saiObjectCollection
             ids == (DOMAIN new) \cap Oid
  <1>1. /\ Known' = Known \cup L \cup ids
        /\ DOMAIN coll' = (DOMAIN coll \cup L) \cup DOMAIN new
        /\ \A k \in DOMAIN coll : coll'[k] = coll[k]
        /\ \A k \in DOMAIN new : coll'[k] = new[k]
        /\ \A k \in L \ DOMAIN coll : coll'[k] = NoAttrs
    BY SnoopFacts DEF PostCreate, Known
  <1>2. ids \cap (Known \cup L) = {}
    BY DEF DbInv, CountsAreReferences
  <1>3. \A o \in Known \cup L :
            m_oids'[o] = Cardinality(References(coll, o)) + Cardinality(References(new, o))
    BY <1>2, SnoopFacts, UsesAreReferences DEF PostCreate
  <1>4. \A o \in ids : m_oids'[o] = 0
    BY SnoopFacts DEF PostCreate
  <1>5. \A o : References(coll', o) = References(coll, o) \cup References(new, o)
    BY <1>1, NoAttrsFacts DEF References
  <1>6. \A o : References(coll, o) \cap References(new, o) = {}
    BY DEF References
  <1>7. ASSUME NEW o \in Known' PROVE m_oids'[o] = Cardinality(References(coll', o))
    <2>1. CASE o \in Known \cup L
      <3>1. IsFiniteSet(References(coll, o)) /\ IsFiniteSet(References(new, o))
        BY ReferencesFinite DEF DbInv, DbType
      <3> QED
        BY <1>3, <1>5, <1>6, <2>1, <3>1, CountUnion
    <2>2. CASE o \in ids
      <3>1. References(coll, o) = {}
        BY <1>2, <2>2, UnknownIsUnused
      <3>2. References(new, o) = {}
        BY <1>2, <2>2 DEF References
      <3> QED
        BY <1>4, <1>5, <2>2, <3>1, <3>2, FS_EmptySet
    <2> QED
      BY <1>1, <2>1, <2>2
  <1>8. \A k \in DOMAIN coll' : coll'[k] \in [Attr -> SUBSET Oid]
    BY <1>1, NoAttrsFacts DEF DbInv, DbType
  <1>9. DOMAIN coll' \subseteq Key
    BY <1>1 DEF DbInv, DbType, Key
  <1>10. DbType'
    <2>1. m_oids' \in [Known' -> Nat]
      <3>1. \A o \in Known' : m_oids'[o] \in Nat
        BY <1>7, <1>9, CountsAreNat
      <3> QED
        BY <3>1 DEF PostCreate, Known
    <2>2. coll' \in [DOMAIN coll' -> [Attr -> SUBSET Oid]]
      BY <1>8 DEF PostCreate
    <2>3. Known' \subseteq Oid
      BY <1>1 DEF DbInv, DbType
    <2>4. DOMAIN m_attrKeys' \subseteq Key
      BY DEF PostCreate, DbInv, DbType
    <2> QED
      BY <1>9, <2>1, <2>2, <2>3, <2>4 DEF DbType
  <1>11. CountsAreReferences'
    <2>1. Known' = DOMAIN coll' \cap Oid
      BY <1>1 DEF DbInv, CountsAreReferences
    <2> QED
      BY <1>7, <2>1 DEF CountsAreReferences
  <1>12. ClosedRefs'
    BY <1>1, NoAttrsFacts DEF DbInv, ClosedRefs
  <1>13. Graph!Update
    <2> SUFFICES ASSUME NEW k \in DOMAIN coll', k \notin DOMAIN coll
                 PROVE  /\ Refs(coll'[k]) \subseteq DOMAIN coll'
                        /\ \A o \in Refs(coll'[k]) : SwitchOf[o] = SwitchOf[k]
      BY <1>1, <1>8, <1>9 DEF Graph!Update, Graph!Refs, Graph!Key, Refs, Key
    <2>1. Known' \subseteq DOMAIN coll'
      BY <1>11 DEF CountsAreReferences
    <2> QED
      BY <1>12, <2>1 DEF ClosedRefs, Refs
  <1> QED
    BY <1>1, <1>10, <1>11, <1>12, <1>13 DEF DbInv

\* An attribute of an object gets another list of known objects of its switch.
LEMMA PostSetKeeps ==
    ASSUME DbInv, NEW L, L \subseteq Oid, NEW k \in DOMAIN m_saiObjectCollection,
           NEW a \in Attr, NEW refs, refs \subseteq Known \cup L,
           \A o \in refs : SwitchOf[o] = SwitchOf[k],
           PostSet(L, k, a, refs)
    PROVE  DbInv' /\ Known' = Known \cup L /\ Graph!Update
  <1> DEFINE coll == m_saiObjectCollection
             old == [NoAttrs EXCEPT ![a] = coll[k][a]]
             now == [NoAttrs EXCEPT ![a] = refs]
             place == <<k, a>>
  <1>1. /\ Known' = Known \cup L
        /\ DOMAIN coll' = DOMAIN coll \cup L
        /\ \A x \in DOMAIN coll : x # k => coll'[x] = coll[x]
        /\ \A x \in L \ DOMAIN coll : coll'[x] = NoAttrs
        /\ coll'[k] = [coll[k] EXCEPT ![a] = refs]
    <2>1. k \in DOMAIN SnoopedObjects(L)
      BY SnoopFacts
    <2>2. coll' = [SnoopedObjects(L) EXCEPT ![k] = [SnoopedObjects(L)[k] EXCEPT ![a] = refs]]
      BY DEF PostSet
    <2>3. Known' = DOMAIN Snooped(L)
      BY DEF PostSet, Increment, Decrement, Known
    <2> QED
      BY <2>1, <2>2, <2>3, SnoopFacts
  <1>2. /\ \A b \in Attr : b # a => coll'[k][b] = coll[k][b]
        /\ coll'[k][a] = refs
        /\ coll'[k] \in [Attr -> SUBSET Oid]
    BY <1>1 DEF DbInv, DbType
  <1>3. \A o : Uses(k, old, o) = IF o \in coll[k][a] THEN {place} ELSE {}
    BY NoAttrsFacts DEF Uses
  <1>4. \A o : Uses(k, now, o) = IF o \in refs THEN {place} ELSE {}
    BY NoAttrsFacts DEF Uses
  <1>5. \A o \in Known' : m_oids'[o] = (Cardinality(References(coll, o)) - Cardinality(Uses(k, old, o)))
                                        + Cardinality(Uses(k, now, o))
    BY <1>1, SnoopFacts DEF PostSet, Increment, Decrement
  <1>6. \A o : place \in References(coll, o) <=> o \in coll[k][a]
    BY DEF References
  <1>v. \A x \in DOMAIN coll', b \in Attr :
            coll'[x][b] = IF x = k /\ b = a THEN refs ELSE IF x \in DOMAIN coll THEN coll[x][b] ELSE {}
    <2> SUFFICES ASSUME NEW x \in DOMAIN coll', NEW b \in Attr
                 PROVE  coll'[x][b] = IF x = k /\ b = a THEN refs
                                      ELSE IF x \in DOMAIN coll THEN coll[x][b] ELSE {}
      OBVIOUS
    <2>1. CASE x = k
      BY <1>2, <2>1
    <2>2. CASE x # k /\ x \in DOMAIN coll
      BY <1>1, <2>2
    <2>3. CASE x # k /\ x \notin DOMAIN coll
      BY <1>1, <2>3, NoAttrsFacts
    <2> QED
      BY <2>1, <2>2, <2>3
  <1>7. ASSUME NEW o
        PROVE  References(coll', o) = (References(coll, o) \ {place}) \cup (IF o \in refs THEN {place} ELSE {})
    <2>1. \A x, b : <<x, b>> \in References(coll', o) <=>
                    x \in DOMAIN coll' /\ b \in Attr /\ o \in coll'[x][b]
      BY DEF References
    <2>2. \A x, b : <<x, b>> \in References(coll, o) <=>
                    x \in DOMAIN coll /\ b \in Attr /\ o \in coll[x][b]
      BY DEF References
    <2>3. \A r \in References(coll', o) \cup References(coll, o) \cup {place} : \E x, b : r = <<x, b>>
      BY DEF References
    <2>4. \A x, b : <<x, b>> \in References(coll', o) <=>
                    <<x, b>> \in (References(coll, o) \ {place}) \cup (IF o \in refs THEN {place} ELSE {})
      <3> SUFFICES ASSUME NEW x, NEW b
                   PROVE  <<x, b>> \in References(coll', o) <=>
                          \/ <<x, b>> \in References(coll, o) /\ <<x, b>> # place
                          \/ o \in refs /\ <<x, b>> = place
        OBVIOUS
      <3>1. <<x, b>> = place <=> x = k /\ b = a
        OBVIOUS
      <3>2. k \in DOMAIN coll'
        BY <1>1
      <3> HIDE DEF place
      <3>3. CASE x = k /\ b = a
        BY <1>v, <2>1, <3>1, <3>2, <3>3
      <3>4. CASE ~(x = k /\ b = a)
        BY <1>1, <1>v, <2>1, <2>2, <3>1, <3>4
      <3> QED
        BY <3>3, <3>4
    <2> QED
      BY <2>3, <2>4
  <1>8. ASSUME NEW o \in Known' PROVE m_oids'[o] = Cardinality(References(coll', o))
    <2> DEFINE R == References(coll, o)
    <2>1. IsFiniteSet(R) /\ Cardinality(R) \in Nat
      BY ReferencesFinite, CountsAreNat DEF DbInv, DbType
    <2>2. Cardinality(R \ {place}) = IF place \in R THEN Cardinality(R) - 1 ELSE Cardinality(R)
      BY <2>1, FS_RemoveElement
    <2>3. IsFiniteSet(R \ {place}) /\ place \notin R \ {place}
      BY <2>1, FS_RemoveElement
    <2>4. Cardinality((R \ {place}) \cup {place}) = Cardinality(R \ {place}) + 1
      BY <2>3, FS_AddElement
    <2>5. Cardinality(Uses(k, old, o)) = IF place \in R THEN 1 ELSE 0
      BY <1>3, <1>6, FS_Singleton, FS_EmptySet
    <2>6. Cardinality(Uses(k, now, o)) = IF o \in refs THEN 1 ELSE 0
      BY <1>4, FS_Singleton, FS_EmptySet
    <2>7. Cardinality(References(coll', o)) =
              IF o \in refs THEN Cardinality(R \ {place}) + 1 ELSE Cardinality(R \ {place})
      BY <1>7, <2>4
    <2> HIDE DEF R
    <2>8. m_oids'[o] = (Cardinality(R) - Cardinality(Uses(k, old, o))) + Cardinality(Uses(k, now, o))
      BY <1>5 DEF R
    <2> QED
      BY <2>1, <2>2, <2>5, <2>6, <2>7, <2>8
  <1>9. \A x \in DOMAIN coll' : coll'[x] \in [Attr -> SUBSET Oid]
    BY <1>1, <1>2, NoAttrsFacts DEF DbInv, DbType
  <1>10. DOMAIN coll' \subseteq Key
    BY <1>1 DEF DbInv, DbType, Key
  <1>11. DbType'
    <2>1. m_oids' \in [Known' -> Nat]
      <3>1. \A o \in Known' : m_oids'[o] \in Nat
        BY <1>8, <1>10, CountsAreNat
      <3> QED
        BY <3>1 DEF PostSet, Increment, Known
    <2>2. coll' \in [DOMAIN coll' -> [Attr -> SUBSET Oid]]
      BY <1>9 DEF PostSet, SnoopedObjects
    <2>3. Known' \subseteq Oid /\ DOMAIN m_attrKeys' \subseteq Key
      BY <1>1 DEF DbInv, DbType, PostSet
    <2> QED
      BY <1>10, <2>1, <2>2, <2>3 DEF DbType
  <1>12. CountsAreReferences'
    <2>1. Known' = DOMAIN coll' \cap Oid
      BY <1>1 DEF DbInv, CountsAreReferences
    <2> QED
      BY <1>8, <2>1 DEF CountsAreReferences
  <1>13. ClosedRefs'
    <2> SUFFICES ASSUME NEW x \in DOMAIN coll', NEW b \in Attr, NEW o \in coll'[x][b]
                 PROVE  o \in Known' /\ SwitchOf[o] = SwitchOf[x]
      BY DEF ClosedRefs
    <2> QED
      BY <1>1, <1>v DEF DbInv, ClosedRefs
  <1>14. Graph!Update
    <2> SUFFICES ASSUME NEW x \in DOMAIN coll'
                 PROVE  /\ Refs(coll'[x]) \subseteq DOMAIN coll'
                        /\ \A o \in Refs(coll'[x]) : SwitchOf[o] = SwitchOf[x]
      BY <1>1, <1>9, <1>10 DEF Graph!Update, Graph!Refs, Graph!Key, Refs, Key
    <2>1. Known' \subseteq DOMAIN coll'
      BY <1>12 DEF CountsAreReferences
    <2> QED
      BY <1>13, <2>1 DEF ClosedRefs, Refs
  <1> QED
    BY <1>1, <1>11, <1>12, <1>13, <1>14 DEF DbInv

\* Objects to which nothing refers leave, with the references they have.
LEMMA PostRemoveKeeps ==
    ASSUME DbInv, NEW L, L \subseteq Oid, NEW S, S \subseteq DOMAIN m_saiObjectCollection,
           L \cap S = {},
           \A o \in S \cap Oid : m_oids[o] = 0,
           PostRemove(L, S)
    PROVE  DbInv' /\ Known' = (Known \cup L) \ S /\ Graph!Remove
  <1> DEFINE coll == m_saiObjectCollection
             gone == Restrict(coll, S)
             rest == (DOMAIN coll \cup L) \ S
  <1>1. /\ DOMAIN coll' = rest
        /\ Known' = (Known \cup L) \ S
        /\ \A x \in DOMAIN coll \ S : coll'[x] = coll[x]
        /\ \A x \in L \ DOMAIN coll : coll'[x] = NoAttrs
        /\ coll' = [x \in rest |-> coll'[x]]
    BY SnoopFacts DEF PostRemove, Restrict, Known
  <1>2. DOMAIN gone = S /\ \A x \in S : gone[x] = coll[x]
    BY DEF Restrict
  <1>3. \A o \in Known' : m_oids'[o] = Cardinality(References(coll, o)) - Cardinality(References(gone, o))
    BY <1>1, SnoopFacts, UsesAreReferences DEF PostRemove
  <1> HIDE DEF gone
  <1>4. ASSUME NEW o
        PROVE  /\ References(gone, o) \subseteq References(coll, o)
               /\ References(coll', o) = References(coll, o) \ References(gone, o)
    <2>1. References(gone, o) = {r \in S \X Attr : o \in coll[r[1]][r[2]]}
      BY <1>2 DEF References
    <2>2. References(gone, o) \subseteq References(coll, o)
      BY <2>1 DEF References
    <2>3. ASSUME NEW r \in References(coll', o) PROVE r \in References(coll, o) \ References(gone, o)
      <3>1. PICK x \in DOMAIN coll', b \in Attr : r = <<x, b>> /\ o \in coll'[x][b]
        BY <2>3 DEF References
      <3>2. x \in DOMAIN coll \ S
        BY <1>1, <3>1, NoAttrsFacts
      <3> QED
        BY <1>1, <2>1, <3>1, <3>2 DEF References
    <2>4. ASSUME NEW r \in References(coll, o) \ References(gone, o) PROVE r \in References(coll', o)
      <3>1. PICK x \in DOMAIN coll, b \in Attr : r = <<x, b>> /\ o \in coll[x][b]
        BY <2>4 DEF References
      <3>2. x \notin S
        BY <2>1, <2>4, <3>1
      <3> QED
        BY <1>1, <3>1, <3>2 DEF References
    <2> QED
      BY <2>2, <2>3, <2>4
  <1>5. \A o \in S \cap Oid : References(coll, o) = {}
    <2> SUFFICES ASSUME NEW o \in S \cap Oid PROVE References(coll, o) = {}
      OBVIOUS
    <2>1. Cardinality(References(coll, o)) = 0
      BY DEF DbInv, CountsAreReferences
    <2>2. IsFiniteSet(References(coll, o))
      BY ReferencesFinite DEF DbInv, DbType
    <2> QED
      BY <2>1, <2>2, FS_EmptySet
  <1>6. \A x \in DOMAIN coll, b \in Attr : \A o \in coll[x][b] : o \in Known /\ o \notin S
    <2> SUFFICES ASSUME NEW x \in DOMAIN coll, NEW b \in Attr, NEW o \in coll[x][b]
                 PROVE  o \in Known /\ o \notin S
      OBVIOUS
    <2>1. o \in Known /\ o \in Oid
      BY DEF DbInv, ClosedRefs, DbType
    <2>2. <<x, b>> \in References(coll, o)
      BY DEF References
    <2> QED
      BY <1>5, <2>1, <2>2
  <1>7. ASSUME NEW o \in Known' PROVE m_oids'[o] = Cardinality(References(coll', o))
    <2>1. IsFiniteSet(References(coll, o))
      BY ReferencesFinite DEF DbInv, DbType
    <2> QED
      BY <1>3, <1>4, <2>1, CountRest
  <1>8. \A x \in DOMAIN coll' : coll'[x] \in [Attr -> SUBSET Oid]
    BY <1>1, NoAttrsFacts DEF DbInv, DbType
  <1>9. DOMAIN coll' \subseteq Key
    BY <1>1 DEF DbInv, DbType, Key
  <1>10. DbType'
    <2>1. m_oids' \in [Known' -> Nat]
      <3>1. \A o \in Known' : m_oids'[o] \in Nat
        BY <1>7, <1>9, CountsAreNat
      <3> QED
        BY <3>1 DEF PostRemove, Known
    <2>2. coll' \in [DOMAIN coll' -> [Attr -> SUBSET Oid]]
      BY <1>1, <1>8
    <2>3. Known' \subseteq Oid /\ DOMAIN m_attrKeys' \subseteq Key
      BY <1>1 DEF DbInv, DbType, PostRemove, Restrict
    <2> QED
      BY <1>9, <2>1, <2>2, <2>3 DEF DbType
  <1>11. CountsAreReferences'
    <2>1. Known' = DOMAIN coll' \cap Oid
      BY <1>1 DEF DbInv, CountsAreReferences
    <2> QED
      BY <1>7, <2>1 DEF CountsAreReferences
  <1>12. ClosedRefs'
    <2> SUFFICES ASSUME NEW x \in DOMAIN coll', NEW b \in Attr, NEW o \in coll'[x][b]
                 PROVE  o \in Known' /\ SwitchOf[o] = SwitchOf[x]
      BY DEF ClosedRefs
    <2>1. x \in DOMAIN coll \ S /\ coll'[x] = coll[x]
      BY <1>1, NoAttrsFacts
    <2> QED
      BY <1>1, <1>6, <2>1 DEF DbInv, ClosedRefs
  <1>13. Graph!Remove
    <2>1. \A x \in DOMAIN coll : Refs(coll[x]) \subseteq DOMAIN coll'
      <3>1. Known' \subseteq DOMAIN coll'
        BY <1>11 DEF CountsAreReferences
      <3> QED
        BY <1>1, <1>6, <3>1 DEF Refs
    <2>2. \A x \in DOMAIN coll' : IF x \in DOMAIN coll THEN coll'[x] = coll[x]
                                  ELSE x \in Oid /\ coll'[x] = NoAttrs
      BY <1>1
    <2> QED
      BY <2>1, <2>2 DEF Graph!Remove, Graph!KeepOthers, Graph!Refs, Graph!NoAttrs, Refs, NoAttrs
  <1> QED
    BY <1>1, <1>10, <1>11, <1>12, <1>13 DEF DbInv

\* A switch leaves with everything on it; the references between the objects of
\* the other switches stay.
LEMMA RemoveSwitchKeeps ==
    ASSUME DbInv, NEW s \in Switch, RemoveSwitch(s)
    PROVE  DbInv' /\ Known' = {o \in Known : SwitchOf[o] # s} /\ Graph!RemoveSwitch(s)
  <1> DEFINE coll == m_saiObjectCollection
  <1>1. /\ DOMAIN coll' = {k \in DOMAIN coll : SwitchOf[k] # s}
        /\ Known' = {o \in Known : SwitchOf[o] # s}
        /\ \A x \in DOMAIN coll' : coll'[x] = coll[x]
        /\ \A o \in Known' : m_oids'[o] = m_oids[o]
        /\ coll' = [x \in DOMAIN coll' |-> coll'[x]]
        /\ m_oids' = [x \in Known' |-> m_oids'[x]]
        /\ DOMAIN m_attrKeys' \subseteq DOMAIN m_attrKeys
    BY DEF RemoveSwitch, Restrict, Known
  <1>2. \A o \in Known' : References(coll', o) = References(coll, o)
    <2> SUFFICES ASSUME NEW o \in Known' PROVE References(coll', o) = References(coll, o)
      OBVIOUS
    <2>1. ASSUME NEW r \in References(coll', o) PROVE r \in References(coll, o)
      BY <1>1, <2>1 DEF References
    <2>2. ASSUME NEW r \in References(coll, o) PROVE r \in References(coll', o)
      <3>1. PICK x \in DOMAIN coll, b \in Attr : r = <<x, b>> /\ o \in coll[x][b]
        BY <2>2 DEF References
      <3>2. SwitchOf[x] # s
        BY <1>1, <3>1 DEF DbInv, ClosedRefs
      <3> QED
        BY <1>1, <3>1, <3>2 DEF References
    <2> QED
      BY <2>1, <2>2
  <1>3. DbType'
    <2>1. \A o \in Known' : m_oids'[o] \in Nat
      BY <1>1 DEF DbInv, DbType
    <2>2. \A x \in DOMAIN coll' : coll'[x] \in [Attr -> SUBSET Oid]
      BY <1>1 DEF DbInv, DbType
    <2>3. Known' \subseteq Oid /\ DOMAIN coll' \subseteq Key /\ DOMAIN m_attrKeys' \subseteq Key
      BY <1>1 DEF DbInv, DbType
    <2> QED
      BY <1>1, <2>1, <2>2, <2>3 DEF DbType
  <1>4. CountsAreReferences'
    BY <1>1, <1>2 DEF DbInv, CountsAreReferences
  <1>5. ClosedRefs'
    <2> SUFFICES ASSUME NEW x \in DOMAIN coll', NEW b \in Attr, NEW o \in coll'[x][b]
                 PROVE  o \in Known' /\ SwitchOf[o] = SwitchOf[x]
      BY DEF ClosedRefs
    <2> QED
      BY <1>1 DEF DbInv, ClosedRefs
  <1>6. Graph!RemoveSwitch(s)
    BY <1>1 DEF Graph!RemoveSwitch, Graph!KeepOthers
  <1> QED
    BY <1>1, <1>3, <1>4, <1>5, <1>6 DEF DbInv

--------------------------------------------------------------------------------
(***************************************************************************)
(* The invariant of ports and their objects.  An id that is given out      *)
(* stays given out, so that the objects of a new port, or of a new switch, *)
(* are none that some port is already said to have; and an object that is  *)
(* there is on the list of its own port only.  This is why the removal of  *)
(* one port takes nothing that another port has.                           *)
(***************************************************************************)
SpentIds ==
    /\ Known \subseteq spent
    /\ DOMAIN onSwitch \subseteq spent
    /\ spent \subseteq Oid
    /\ \A o \in Default \cap spent : SwitchOf[o] \in spent

RelatedPlaced ==
    /\ m_portRelatedSet \in [Port -> SUBSET Oid]
    /\ \A p \in Port : m_portRelatedSet[p] \subseteq spent
    /\ \A p \in Port : \A o \in m_portRelatedSet[p] \cap DOMAIN onSwitch : onSwitch[o] = p

PortInv == SpentIds /\ RelatedPlaced /\ RelatedAreKnown

\* The inductive invariant.
MetaInv == DbInv /\ PortInv /\ threw \in BOOLEAN

\* Ids that are new keep away from what the ports have.
LEMMA PlacedKeeps ==
    ASSUME PortInv, NEW ids, ids \subseteq Oid, ids \cap spent = {}, NEW k, NEW port,
           onSwitch' = Placed(ids, k, port), spent' = spent \cup ids, UNCHANGED m_portRelatedSet,
           Known \subseteq Known', Known' \subseteq spent',
           \A o \in Default \cap ids : SwitchOf[o] \in spent'
    PROVE  PortInv'
  <1>1. /\ DOMAIN onSwitch' = DOMAIN onSwitch \cup ids
        /\ \A o \in DOMAIN onSwitch : onSwitch'[o] = onSwitch[o]
    BY DEF Placed
  <1>2. SpentIds'
    BY <1>1 DEF PortInv, SpentIds
  <1>3. RelatedPlaced'
    BY <1>1 DEF PortInv, RelatedPlaced
  <1>4. RelatedAreKnown'
    BY <1>1 DEF PortInv, RelatedPlaced, RelatedAreKnown
  <1> QED
    BY <1>2, <1>3, <1>4 DEF PortInv

\* A step that leaves the ports and the switches alone, and forgets no id.
LEMMA KnownGrows ==
    ASSUME PortInv, UNCHANGED <<m_portRelatedSet, onSwitch, spent>>,
           Known \subseteq Known', Known' \subseteq spent
    PROVE  PortInv'
  BY DEF PortInv, SpentIds, RelatedPlaced, RelatedAreKnown

--------------------------------------------------------------------------------
(* One lemma per operation: it keeps the invariant, and is a step of the   *)
(* graph of objects.                                                       *)

\* A new switch, or the one that is there after a restart of the client.
LEMMA CreateSwitchKeeps ==
    ASSUME DbInv, PortInv, NEW s \in Switch, CreateSwitch(s)
    PROVE  DbInv' /\ PortInv' /\ Graph!Next
  <1> DEFINE new == [x \in {s} |-> NoAttrs]
             ids == IF s \in DOMAIN onSwitch THEN {} ELSE {s} \cup ComesWith(s)
  <1>1. s \in Oid /\ s \in Key /\ SwitchOf[s] = s
    BY IdAssumption, SwitchAssumption DEF Key
  <1>2. s \notin DOMAIN m_saiObjectCollection
    BY <1>1 DEF CreateSwitch, DbInv, CountsAreReferences
  <1>3. PostCreate({}, new, <<>>)
    BY DEF CreateSwitch
  <1>4. /\ DOMAIN new = {s}
        /\ new[s] \in [Attr -> SUBSET Oid]
        /\ \A a \in Attr : new[s][a] = {}
    BY NoAttrsFacts
  <1>5. DOMAIN <<>> \subseteq Key
    OBVIOUS
  <1> HIDE DEF new
  <1>6. DbInv' /\ Known' = Known \cup {} \cup ((DOMAIN new) \cap Oid) /\ Graph!Update
    <2>1. DOMAIN new \subseteq Key /\ DOMAIN new \cap (DOMAIN m_saiObjectCollection \cup {}) = {}
      BY <1>1, <1>2, <1>4
    <2>2. \A x \in DOMAIN new : \A a \in Attr : \A y \in new[x][a] :
              y \in Known \cup {} /\ SwitchOf[y] = SwitchOf[x]
      BY <1>4
    <2> QED
      BY <1>3, <1>4, <1>5, <2>1, <2>2, PostCreateKeeps
  <1>7. Known' = Known \cup {s}
    BY <1>1, <1>4, <1>6
  <1>8. ids \subseteq Oid /\ ids \cap spent = {}
    <2>1. CASE s \in DOMAIN onSwitch
      BY <2>1
    <2>2. CASE s \notin DOMAIN onSwitch
      <3>1. s \notin spent
        BY <2>2 DEF CreateSwitch
      <3>2. ComesWith(s) = {o \in Default : SwitchOf[o] = s}
        BY DEF ComesWith
      <3>3. ComesWith(s) \subseteq Oid /\ ComesWith(s) \cap spent = {}
        BY <3>1, <3>2, IdAssumption DEF PortInv, SpentIds
      <3> QED
        BY <1>1, <2>2, <3>1, <3>3
    <2> QED
      BY <2>1, <2>2
  <1>9. onSwitch' = Placed(ids, s, NoPort) /\ spent' = spent \cup ids /\ UNCHANGED m_portRelatedSet
    BY DEF CreateSwitch
  <1>10. Known' \subseteq spent' /\ \A o \in Default \cap ids : SwitchOf[o] \in spent'
    BY <1>7, <1>9, IdAssumption DEF PortInv, SpentIds, ComesWith
  <1> HIDE DEF ids
  <1>11. PortInv'
    BY <1>7, <1>8, <1>9, <1>10, PlacedKeeps
  <1> QED
    BY <1>6, <1>11 DEF Graph!Next

\* The id of a created object is new, and so are those that come with it.
LEMMA CreateObjectKeeps ==
    ASSUME DbInv, PortInv, NEW o \in Oid, NEW refs \in SUBSET Oid, NEW port \in SUBSET Port, NEW key,
           CreateObject(o, refs, port, key)
    PROVE  DbInv' /\ PortInv' /\ Graph!Next
  <1> DEFINE new == [x \in {o} |-> [NoAttrs EXCEPT !["list"] = refs, !["port"] = port]]
             keys == [x \in (IF key = {} THEN {} ELSE {o}) |-> key]
             ids == {o} \cup ComesWith(o)
  <1>1. o \notin Known /\ o \notin DOMAIN m_saiObjectCollection
    BY DEF CreateObject, DbInv, CountsAreReferences, PortInv, SpentIds
  <1>2. PostCreate({}, new, keys)
    BY DEF CreateObject
  <1>3. DOMAIN new = {o} /\ new[o] \in [Attr -> SUBSET Oid]
        /\ \A a \in Attr : new[o][a] \subseteq refs \cup port
    BY NoAttrsFacts, IdAssumption DEF Attr, NoAttrs
  <1>4. DOMAIN keys \subseteq Key
    BY DEF Key
  <1>5. \A x \in refs \cup port : x \in Known /\ SwitchOf[x] = SwitchOf[o]
    BY DEF CreateObject, ValidRefs
  <1> HIDE DEF new, keys
  <1>6. DbInv' /\ Known' = Known \cup {} \cup ((DOMAIN new) \cap Oid) /\ Graph!Update
    <2>1. DOMAIN new \subseteq Key
      BY <1>3 DEF Key
    <2>2. DOMAIN new \cap (DOMAIN m_saiObjectCollection \cup {}) = {}
      BY <1>1, <1>3
    <2>3. \A x \in DOMAIN new : \A a \in Attr : \A y \in new[x][a] :
              y \in Known \cup {} /\ SwitchOf[y] = SwitchOf[x]
      BY <1>3, <1>5
    <2> QED
      BY <1>2, <1>3, <1>4, <2>1, <2>2, <2>3, PostCreateKeeps
  <1>7. Known' = Known \cup {o}
    BY <1>3, <1>6
  <1>8. PICK h : onSwitch' = Placed(ids, o, h)
    BY DEF CreateObject
  <1>9. spent' = spent \cup ids /\ UNCHANGED m_portRelatedSet /\ ids \cap spent = {}
    BY DEF CreateObject
  <1>10. ids \subseteq Oid /\ ids \cap Default = {}
    BY DEF CreateObject, ComesWith
  <1>11. Known' \subseteq spent'
    BY <1>7, <1>9 DEF PortInv, SpentIds
  <1> HIDE DEF ids
  <1>12. PortInv'
    BY <1>7, <1>8, <1>9, <1>10, <1>11, PlacedKeeps
  <1> QED
    BY <1>6, <1>12 DEF Graph!Next

\* The attributes of a valid entry.
LEMMA ValidEntryFacts ==
    ASSUME NEW e \in Entry, NEW refs \in SUBSET Oid, NEW known, ValidEntry(e, refs, known)
    PROVE  /\ EntryAttrs(e, refs) \in [Attr -> SUBSET Oid]
           /\ e \notin DOMAIN m_saiObjectCollection
           /\ \A a \in Attr : \A o \in EntryAttrs(e, refs)[a] : o \in known /\ SwitchOf[o] = SwitchOf[e]
  <1>1. Member[e] \in SUBSET Oid
    BY MemberAssumption
  <1>2. EntryAttrs(e, refs) \in [Attr -> SUBSET Oid]
        /\ \A a \in Attr : EntryAttrs(e, refs)[a] \subseteq Member[e] \cup refs
    BY <1>1, NoAttrsFacts DEF EntryAttrs, Attr, NoAttrs
  <1> QED
    BY <1>2 DEF ValidEntry, ValidRefs, Exists

\* A bulk of entries: all valid in the state before the first is recorded.
LEMMA CreateEntriesKeeps ==
    ASSUME DbInv, PortInv, NEW S \in SUBSET Entry, NEW refs \in [S -> SUBSET Oid], CreateEntries(refs)
    PROVE  DbInv' /\ PortInv' /\ Graph!Next
  <1> DEFINE new == [e \in DOMAIN refs |-> EntryAttrs(e, refs[e])]
  <1>1. DOMAIN new = S /\ \A e \in S : new[e] = EntryAttrs(e, refs[e])
    OBVIOUS
  <1>2. \A e \in S : ValidEntry(e, refs[e], Known)
    BY DEF CreateEntries
  <1>3. PostCreate({}, new, <<>>) /\ UNCHANGED <<m_portRelatedSet, onSwitch, spent>>
    BY DEF CreateEntries
  <1> HIDE DEF new
  <1>4. ASSUME NEW e \in S
        PROVE  /\ new[e] \in [Attr -> SUBSET Oid]
               /\ e \notin DOMAIN m_saiObjectCollection
               /\ \A a \in Attr : \A o \in new[e][a] : o \in Known /\ SwitchOf[o] = SwitchOf[e]
    BY <1>1, <1>2, ValidEntryFacts
  <1>5. DOMAIN <<>> \subseteq Key
    OBVIOUS
  <1>6. DbInv' /\ Known' = Known \cup {} \cup ((DOMAIN new) \cap Oid) /\ Graph!Update
    <2>1. DOMAIN new \subseteq Key /\ DOMAIN new \cap (DOMAIN m_saiObjectCollection \cup {}) = {}
      BY <1>1, <1>4 DEF Key
    <2> QED
      BY <1>1, <1>3, <1>4, <1>5, <2>1, PostCreateKeeps
  <1>7. Known' = Known
    BY <1>1, <1>6, IdAssumption
  <1>8. PortInv'
    BY <1>3, <1>7, KnownGrows DEF PortInv, SpentIds
  <1> QED
    BY <1>6, <1>8 DEF Graph!Next

\* A set changes the counts of what the list held and of what it holds now.
LEMMA SetAttrKeeps ==
    ASSUME DbInv, PortInv, NEW k \in Key, NEW refs \in SUBSET Oid, SetAttr(k, refs)
    PROVE  DbInv' /\ PortInv' /\ Graph!Next
  <1>1. /\ k \in DOMAIN m_saiObjectCollection
        /\ refs \subseteq Known \cup {} /\ \A o \in refs : SwitchOf[o] = SwitchOf[k]
        /\ PostSet({}, k, "list", refs)
        /\ UNCHANGED <<m_portRelatedSet, onSwitch, spent>>
    BY DEF SetAttr, Exists, ValidRefs
  <1>2. DbInv' /\ Known' = Known \cup {} /\ Graph!Update
    <2>1. "list" \in Attr /\ {} \subseteq Oid
      BY DEF Attr
    <2> QED
      BY <1>1, <2>1, PostSetKeeps
  <1>3. PortInv'
    BY <1>1, <1>2, KnownGrows DEF PortInv, SpentIds
  <1> QED
    BY <1>2, <1>3 DEF Graph!Next

\* The objects of a bulk go because nothing refers to any of them.
LEMMA RemoveObjectsKeeps ==
    ASSUME DbInv, PortInv, NEW S, RemoveObjects(S)
    PROVE  DbInv' /\ PortInv' /\ Graph!Next
  <1>1. /\ S \subseteq DOMAIN m_saiObjectCollection
        /\ \A o \in S \cap Oid : m_oids[o] = 0
        /\ PostRemove({}, S)
        /\ UNCHANGED <<m_portRelatedSet, spent>>
    BY DEF RemoveObjects, Removable, Exists
  <1>2. DbInv' /\ Known' = (Known \cup {}) \ S /\ Graph!Remove
    BY <1>1, PostRemoveKeeps
  <1>3. /\ DOMAIN onSwitch' = DOMAIN onSwitch \ S
        /\ \A o \in DOMAIN onSwitch' : onSwitch'[o] = onSwitch[o]
    BY DEF RemoveObjects, Restrict
  <1>4. PortInv'
    BY <1>1, <1>2, <1>3 DEF PortInv, SpentIds, RelatedPlaced, RelatedAreKnown
  <1> QED
    BY <1>2, <1>4 DEF Graph!Next

\* A port takes the objects that it is said to have with it, and none of another
\* port that is still there.
LEMMA RemovePortKeeps ==
    ASSUME DbInv, PortInv, NEW p \in Port, RemovePort(p)
    PROVE  DbInv' /\ PortInv' /\ Graph!Next
  <1> DEFINE S == {p} \cup m_portRelatedSet[p]
  <1>1. S \subseteq DOMAIN m_saiObjectCollection /\ \A o \in S \cap Oid : m_oids[o] = 0
    BY DEF RemovePort, Removable, Exists, DbInv, CountsAreReferences
  <1>2. PostRemove({}, S)
    BY DEF RemovePort
  <1>3. DbInv' /\ Known' = (Known \cup {}) \ S /\ Graph!Remove
    <2> HIDE DEF S
    <2> QED
      BY <1>1, <1>2, PostRemoveKeeps
  <1>4. /\ m_portRelatedSet' \in [Port -> SUBSET Oid]
        /\ m_portRelatedSet'[p] = {}
        /\ \A q \in Port : q # p => m_portRelatedSet'[q] = m_portRelatedSet[q]
    BY DEF RemovePort, PortInv, RelatedPlaced
  <1>5. /\ DOMAIN onSwitch' = {o \in DOMAIN onSwitch : o # p /\ onSwitch[o] # p}
        /\ \A o \in DOMAIN onSwitch' : onSwitch'[o] = onSwitch[o]
        /\ spent' = spent
    BY DEF RemovePort, Restrict
  <1>6. SpentIds'
    BY <1>3, <1>5 DEF PortInv, SpentIds
  <1>7. RelatedPlaced'
    BY <1>4, <1>5 DEF PortInv, RelatedPlaced
  <1>8. RelatedAreKnown'
    <2> SUFFICES ASSUME NEW q \in Port, NEW o \in m_portRelatedSet'[q] \cap DOMAIN onSwitch'
                 PROVE  o \in Known'
      BY DEF RelatedAreKnown
    <2>1. q # p /\ o \in m_portRelatedSet[q] \cap DOMAIN onSwitch
      BY <1>4, <1>5
    <2>2. o \in Known /\ onSwitch[o] = q
      BY <2>1 DEF PortInv, RelatedPlaced, RelatedAreKnown
    <2>3. o \notin m_portRelatedSet[p]
      BY <2>1, <2>2 DEF PortInv, RelatedPlaced
    <2> QED
      BY <1>3, <1>5, <2>2, <2>3
  <1> QED
    BY <1>3, <1>6, <1>7, <1>8 DEF PortInv, Graph!Next

\* With a switch go its ports and what they have.
LEMMA RemoveSwitchStep ==
    ASSUME DbInv, PortInv, NEW s \in Switch, RemoveSwitch(s)
    PROVE  DbInv' /\ PortInv' /\ Graph!Next
  <1>1. DbInv' /\ Known' = {o \in Known : SwitchOf[o] # s} /\ Graph!RemoveSwitch(s)
    BY RemoveSwitchKeeps
  <1>2. /\ DOMAIN onSwitch' = {o \in DOMAIN onSwitch : SwitchOf[o] # s}
        /\ \A o \in DOMAIN onSwitch' : onSwitch'[o] = onSwitch[o]
        /\ spent' = spent
    BY DEF RemoveSwitch, Restrict
  <1>3. /\ m_portRelatedSet' \in [Port -> SUBSET Oid]
        /\ \A p \in Port : m_portRelatedSet'[p] \subseteq m_portRelatedSet[p]
    BY DEF RemoveSwitch, PortInv, RelatedPlaced
  <1>4. SpentIds'
    BY <1>1, <1>2 DEF PortInv, SpentIds
  <1>5. RelatedPlaced'
    BY <1>2, <1>3 DEF PortInv, RelatedPlaced
  <1>6. RelatedAreKnown'
    BY <1>1, <1>2, <1>3 DEF PortInv, RelatedAreKnown
  <1> QED
    BY <1>1, <1>4, <1>5, <1>6 DEF PortInv, Graph!Next

\* What a get returns is on the switch, so its id has been given out.
LEMMA GetFacts ==
    ASSUME DbInv, PortInv, NEW k, NEW list, Get(k, list)
    PROVE  /\ DbInv' /\ Graph!Next
           /\ Known' = Known \cup list /\ Known' \subseteq spent
           /\ UNCHANGED <<onSwitch, spent>>
  <1>1. /\ list \subseteq DOMAIN onSwitch
        /\ m_oids' = Snooped(list) /\ m_saiObjectCollection' = SnoopedObjects(list)
        /\ UNCHANGED <<m_attrKeys, onSwitch, spent>>
    BY DEF Get
  <1>2. list \subseteq spent /\ list \subseteq Oid
    BY <1>1 DEF PortInv, SpentIds
  <1>3. DbInv' /\ Known' = Known \cup list /\ Graph!Update
    BY <1>1, <1>2, SnoopKeeps
  <1> QED
    BY <1>1, <1>2, <1>3 DEF PortInv, SpentIds, Graph!Next

\* A get of one object id.
LEMMA GetOidKeeps ==
    ASSUME DbInv, PortInv, NEW k, NEW o, GetOid(k, o)
    PROVE  DbInv' /\ PortInv' /\ Graph!Next
  <1>1. Get(k, {o}) /\ UNCHANGED m_portRelatedSet
    BY DEF GetOid
  <1>2. /\ DbInv' /\ Graph!Next
        /\ Known' = Known \cup {o} /\ Known' \subseteq spent
        /\ UNCHANGED <<onSwitch, spent>>
    BY <1>1, GetFacts
  <1> QED
    BY <1>1, <1>2, KnownGrows

\* A get of a port's objects puts them on the port's list.
LEMMA GetPortObjectsKeeps ==
    ASSUME DbInv, PortInv, NEW p \in Port, GetPortObjects(p)
    PROVE  DbInv' /\ PortInv' /\ Graph!Next
  <1> DEFINE list == {o \in DOMAIN onSwitch : onSwitch[o] = p}
  <1>1. Get(p, list) /\ m_portRelatedSet' = [m_portRelatedSet EXCEPT ![p] = @ \cup list]
    BY DEF GetPortObjects
  <1>2. list \subseteq DOMAIN onSwitch /\ \A o \in list : onSwitch[o] = p
    OBVIOUS
  <1> HIDE DEF list
  <1>3. /\ DbInv' /\ Graph!Next
        /\ Known' = Known \cup list /\ Known' \subseteq spent
        /\ UNCHANGED <<onSwitch, spent>>
    BY <1>1, GetFacts
  <1>4. /\ m_portRelatedSet' \in [Port -> SUBSET Oid]
        /\ m_portRelatedSet'[p] = m_portRelatedSet[p] \cup list
        /\ \A q \in Port : q # p => m_portRelatedSet'[q] = m_portRelatedSet[q]
    BY <1>1, <1>2 DEF PortInv, RelatedPlaced, SpentIds
  <1>5. SpentIds'
    BY <1>3 DEF PortInv, SpentIds
  <1>6. RelatedPlaced'
    BY <1>2, <1>3, <1>4 DEF PortInv, RelatedPlaced, SpentIds
  <1>7. RelatedAreKnown'
    BY <1>3, <1>4 DEF PortInv, RelatedAreKnown
  <1> QED
    BY <1>3, <1>5, <1>6, <1>7 DEF PortInv

--------------------------------------------------------------------------------
(* Notifications                                                           *)

\* The ids that an event makes known have been given out.
LEMMA EventFacts ==
    ASSUME PortInv, NEW e \in Entry, NEW refs, Event(e, refs)
    PROVE  /\ NewlyReported(e, refs) \subseteq spent /\ NewlyReported(e, refs) \subseteq Oid
           /\ Known \cup NewlyReported(e, refs) \subseteq spent
           /\ UNCHANGED <<m_portRelatedSet, onSwitch, spent>>
  BY DEF Event, NewlyReported, PortInv, SpentIds

\* An event that changes no entry still makes ids known.
LEMMA IgnoredKeeps ==
    ASSUME DbInv, PortInv, NEW L, L \subseteq Oid, Known \cup L \subseteq spent, Ignored(L),
           UNCHANGED <<m_portRelatedSet, onSwitch, spent>>
    PROVE  DbInv' /\ PortInv' /\ Graph!Next
  <1>1. DbInv' /\ Known' = Known \cup L /\ Graph!Update
    BY SnoopKeeps DEF Ignored
  <1> QED
    BY <1>1, KnownGrows DEF Graph!Next

\* Entries leave: nothing refers to them, and ids stay known.
LEMMA EntriesGo ==
    ASSUME DbInv, PortInv, NEW L, L \subseteq Oid, Known \cup L \subseteq spent,
           NEW S \in SUBSET Entry, \A e \in S : Exists(e), PostRemove(L, S),
           UNCHANGED <<m_portRelatedSet, onSwitch, spent>>
    PROVE  DbInv' /\ PortInv' /\ Graph!Next
  <1>1. S \subseteq DOMAIN m_saiObjectCollection /\ L \cap S = {} /\ S \cap Oid = {}
    BY IdAssumption DEF Exists
  <1>2. DbInv' /\ Known' = (Known \cup L) \ S /\ Graph!Remove
    BY <1>1, PostRemoveKeeps
  <1>3. Known' = Known \cup L
    BY <1>1, <1>2 DEF DbInv, DbType
  <1> QED
    BY <1>2, <1>3, KnownGrows DEF Graph!Next

\* A learned entry is recorded if it is valid, with what the event made known.
LEMMA FdbLearnedKeeps ==
    ASSUME DbInv, PortInv, NEW e \in Entry, NEW refs \in SUBSET Oid, FdbLearned(e, refs)
    PROVE  DbInv' /\ PortInv' /\ Graph!Next
  <1> DEFINE L == NewlyReported(e, refs)
             new == [x \in {e} |-> EntryAttrs(e, refs)]
  <1>1. /\ Event(e, refs)
        /\ IF ValidEntry(e, refs, Known \cup L) THEN PostCreate(L, new, <<>>) ELSE Ignored(L)
    BY DEF FdbLearned
  <1>2. L \subseteq Oid /\ Known \cup L \subseteq spent /\ UNCHANGED <<m_portRelatedSet, onSwitch, spent>>
    BY <1>1, EventFacts
  <1>3. DOMAIN new = {e} /\ new[e] = EntryAttrs(e, refs) /\ DOMAIN <<>> \subseteq Key
    OBVIOUS
  <1> HIDE DEF L, new
  <1>4. CASE ValidEntry(e, refs, Known \cup L)
    <2>1. /\ new[e] \in [Attr -> SUBSET Oid]
          /\ e \notin DOMAIN m_saiObjectCollection
          /\ \A a \in Attr : \A o \in new[e][a] : o \in Known \cup L /\ SwitchOf[o] = SwitchOf[e]
      BY <1>3, <1>4, ValidEntryFacts
    <2>2. DOMAIN new \subseteq Key /\ DOMAIN new \cap (DOMAIN m_saiObjectCollection \cup L) = {}
      BY <1>2, <1>3, <2>1, IdAssumption DEF Key
    <2>3. /\ \A x \in DOMAIN new : new[x] \in [Attr -> SUBSET Oid]
          /\ \A x \in DOMAIN new : \A a \in Attr : \A o \in new[x][a] :
                o \in Known \cup L /\ SwitchOf[o] = SwitchOf[x]
      BY <1>3, <2>1
    <2>4. DbInv' /\ Known' = Known \cup L \cup ((DOMAIN new) \cap Oid) /\ Graph!Update
      BY <1>1, <1>2, <1>3, <1>4, <2>2, <2>3, PostCreateKeeps
    <2>5. Known' = Known \cup L
      BY <1>3, <2>4, IdAssumption
    <2> QED
      BY <1>2, <2>4, <2>5, KnownGrows DEF Graph!Next
  <1>5. CASE ~ValidEntry(e, refs, Known \cup L)
    BY <1>1, <1>2, <1>5, IgnoredKeeps
  <1> QED
    BY <1>4, <1>5

\* An aged entry goes if it is there.
LEMMA FdbAgedKeeps ==
    ASSUME DbInv, PortInv, NEW e \in Entry, NEW refs \in SUBSET Oid, FdbAged(e, refs)
    PROVE  DbInv' /\ PortInv' /\ Graph!Next
  <1> DEFINE L == NewlyReported(e, refs)
  <1>1. Event(e, refs) /\ IF Exists(e) THEN PostRemove(L, {e}) ELSE Ignored(L)
    BY DEF FdbAged
  <1>2. L \subseteq Oid /\ Known \cup L \subseteq spent /\ UNCHANGED <<m_portRelatedSet, onSwitch, spent>>
    BY <1>1, EventFacts
  <1> HIDE DEF L
  <1>3. CASE Exists(e)
    <2>1. {e} \in SUBSET Entry /\ \A x \in {e} : Exists(x)
      BY <1>3
    <2> QED
      BY <1>1, <1>2, <1>3, <2>1, EntriesGo
  <1>4. CASE ~Exists(e)
    BY <1>1, <1>2, <1>4, IgnoredKeeps
  <1> QED
    BY <1>3, <1>4

\* A moved entry gets another bridge port.
LEMMA FdbMoveKeeps ==
    ASSUME DbInv, PortInv, NEW e \in Entry, NEW refs \in SUBSET Oid, FdbMove(e, refs)
    PROVE  DbInv' /\ PortInv' /\ Graph!Next
  <1> DEFINE L == NewlyReported(e, refs)
  <1>1. /\ Event(e, refs)
        /\ IF Exists(e) /\ ValidRefs(e, refs, Known \cup L) THEN PostSet(L, e, "list", refs)
           ELSE Ignored(L)
    BY DEF FdbMove
  <1>2. L \subseteq Oid /\ Known \cup L \subseteq spent /\ UNCHANGED <<m_portRelatedSet, onSwitch, spent>>
    BY <1>1, EventFacts
  <1> HIDE DEF L
  <1>3. CASE Exists(e) /\ ValidRefs(e, refs, Known \cup L)
    <2>1. /\ e \in DOMAIN m_saiObjectCollection /\ "list" \in Attr
          /\ refs \subseteq Known \cup L /\ \A o \in refs : SwitchOf[o] = SwitchOf[e]
      BY <1>3 DEF Exists, ValidRefs, Attr
    <2>2. DbInv' /\ Known' = Known \cup L /\ Graph!Update
      BY <1>1, <1>2, <1>3, <2>1, PostSetKeeps
    <2> QED
      BY <1>2, <2>2, KnownGrows DEF Graph!Next
  <1>4. CASE ~(Exists(e) /\ ValidRefs(e, refs, Known \cup L))
    BY <1>1, <1>2, <1>4, IgnoredKeeps
  <1> QED
    BY <1>3, <1>4

\* A consolidated flush, from a notification.
LEMMA FdbFlushKeeps ==
    ASSUME DbInv, PortInv, NEW ids \in SUBSET Oid, NEW S \in SUBSET Entry, FdbFlush(ids, S)
    PROVE  DbInv' /\ PortInv' /\ Graph!Next
  <1> DEFINE L == ids \ Known
  <1>1. L \subseteq Oid /\ Known \cup L \subseteq spent
    BY DEF FdbFlush, PortInv, SpentIds
  <1>2. FlushConsolidated(L, ids, S)
    BY DEF FdbFlush
  <1> HIDE DEF L
  <1> QED
    BY <1>1, <1>2, EntriesGo DEF FlushConsolidated

\* The client's own flush.
LEMMA FlushFdbEntriesKeeps ==
    ASSUME DbInv, PortInv, NEW s, NEW ids, NEW S \in SUBSET Entry, FlushFdbEntries(s, ids, S)
    PROVE  DbInv' /\ PortInv' /\ Graph!Next
  <1>1. {} \subseteq Oid /\ Known \cup {} \subseteq spent
    BY DEF PortInv, SpentIds
  <1> QED
    BY <1>1, EntriesGo DEF FlushFdbEntries, FlushConsolidated

\* After INIT_VIEW the database is empty; ids stay given out.
LEMMA RestartKeeps ==
    ASSUME PortInv, Restart
    PROVE  DbInv' /\ PortInv' /\ Graph!Next
  <1>1. /\ m_oids' = <<>> /\ m_saiObjectCollection' = <<>> /\ m_attrKeys' = <<>>
        /\ m_portRelatedSet' = [p \in Port |-> {}]
        /\ UNCHANGED <<onSwitch, spent>>
    BY DEF Restart
  <1>2. Known' = {} /\ DOMAIN m_saiObjectCollection' = {} /\ DOMAIN m_attrKeys' = {}
    BY <1>1 DEF Known
  <1>3. DbInv'
    BY <1>1, <1>2 DEF DbInv, DbType, CountsAreReferences, ClosedRefs
  <1>4. PortInv'
    BY <1>1, <1>2 DEF PortInv, SpentIds, RelatedPlaced, RelatedAreKnown
  <1> QED
    BY <1>1, <1>3, <1>4 DEF Graph!Next, Graph!Clear

--------------------------------------------------------------------------------
(* The specification                                                       *)

\* The lists that the bounds allow are sets of object ids.
LEMMA ListsType == \A S : ListsBut(S) \subseteq SUBSET Oid
  BY DEF ListsBut

\* Every call of the client.
LEMMA ClientKeeps ==
    ASSUME DbInv, PortInv, ClientNext
    PROVE  DbInv' /\ PortInv' /\ Graph!Next
  <1>1. CASE \E s \in Switch : CreateSwitch(s) \/ RemoveSwitch(s)
    BY <1>1, CreateSwitchKeeps, RemoveSwitchStep
  <1>2. CASE \E o \in Oid : \E refs \in Lists(o), port \in SUBSET Port, key \in {{}} \cup {{k} : k \in AttrKey} :
                CreateObject(o, refs, port, key)
    BY <1>2, ListsType, CreateObjectKeeps DEF Lists
  <1>3. CASE \E S \in SUBSET Entry : \E refs \in [S -> ListsBut(S)] : CreateEntries(refs)
    <2>1. PICK S \in SUBSET Entry : \E refs \in [S -> ListsBut(S)] : CreateEntries(refs)
      BY <1>3
    <2>2. PICK refs \in [S -> ListsBut(S)] : CreateEntries(refs)
      BY <2>1
    <2>3. refs \in [S -> SUBSET Oid]
      BY ListsType
    <2> QED
      BY <2>2, <2>3, CreateEntriesKeeps
  <1>4. CASE \E k \in Key : \E refs \in Lists(k) : SetAttr(k, refs)
    BY <1>4, ListsType, SetAttrKeeps DEF Lists
  <1>5. CASE \E S \in Bulk : RemoveObjects(S)
    BY <1>5, RemoveObjectsKeeps
  <1>6. CASE \E p \in Port : RemovePort(p) \/ GetPortObjects(p)
    BY <1>6, RemovePortKeeps, GetPortObjectsKeeps
  <1>7. CASE \E k \in Key, o \in Oid : GetOid(k, o)
    BY <1>7, GetOidKeeps
  <1>8. CASE \E s \in Switch, S \in SUBSET Entry : \E ids \in Lists(s) : FlushFdbEntries(s, ids, S)
    BY <1>8, FlushFdbEntriesKeeps
  <1> QED
    BY <1>1, <1>2, <1>3, <1>4, <1>5, <1>6, <1>7, <1>8 DEF ClientNext

\* Every notification.
LEMMA EventKeeps ==
    ASSUME DbInv, PortInv, EventNext
    PROVE  DbInv' /\ PortInv' /\ Graph!Next
  <1>1. PICK e \in Entry, refs \in SUBSET Oid :
            \/ FdbLearned(e, refs) \/ FdbAged(e, refs) \/ FdbMove(e, refs)
            \/ \E S \in SUBSET Entry : FdbFlush(refs, S)
    BY ListsType DEF EventNext, Lists
  <1> QED
    BY <1>1, FdbLearnedKeeps, FdbAgedKeeps, FdbMoveKeeps, FdbFlushKeeps

\* meta_init_db establishes the invariant.
LEMMA InitHolds ==
    ASSUME Init
    PROVE  MetaInv
  <1>1. Known = {} /\ DOMAIN m_saiObjectCollection = {} /\ DOMAIN m_attrKeys = {} /\ DOMAIN onSwitch = {}
    BY DEF Init, Known
  <1>2. DbInv
    BY <1>1 DEF Init, DbInv, DbType, CountsAreReferences, ClosedRefs
  <1>3. PortInv
    BY <1>1 DEF Init, PortInv, SpentIds, RelatedPlaced, RelatedAreKnown
  <1> QED
    BY <1>2, <1>3 DEF Init, MetaInv

\* Every step keeps the invariant and is a step of the graph, or leaves it alone.
LEMMA StepKeeps ==
    ASSUME MetaInv, [Next]_vars
    PROVE  MetaInv' /\ [Graph!Next]_m_saiObjectCollection
  <1>1. DbInv /\ PortInv /\ threw \in BOOLEAN
    BY DEF MetaInv
  <1>2. CASE (ClientNext \/ EventNext) /\ UNCHANGED threw
    <2>1. DbInv' /\ PortInv' /\ Graph!Next
      BY <1>1, <1>2, ClientKeeps, EventKeeps
    <2>2. threw' \in BOOLEAN
      BY <1>1, <1>2
    <2> QED
      BY <2>1, <2>2 DEF MetaInv
  <1>3. CASE Restart
    <2>1. threw' \in BOOLEAN
      BY <1>3 DEF Restart
    <2> QED
      BY <1>1, <1>3, <2>1, RestartKeeps DEF MetaInv
  <1>4. ASSUME UNCHANGED <<db, onSwitch, spent>>, threw' \in BOOLEAN
        PROVE  MetaInv' /\ UNCHANGED m_saiObjectCollection
    <2>1. UNCHANGED <<m_oids, m_saiObjectCollection, m_attrKeys, m_portRelatedSet, onSwitch, spent>>
      BY <1>4 DEF db
    <2>2. DbInv'
      BY <1>1, <2>1 DEF DbInv, DbType, CountsAreReferences, ClosedRefs, Known
    <2>3. PortInv'
      BY <1>1, <2>1 DEF PortInv, SpentIds, RelatedPlaced, RelatedAreKnown, Known
    <2> QED
      BY <1>4, <2>1, <2>2, <2>3 DEF MetaInv
  <1>5. CASE \E p \in Port : RemovePortThrows(p)
    <2>1. UNCHANGED <<db, onSwitch, spent>> /\ threw' \in BOOLEAN
      BY <1>5 DEF RemovePortThrows
    <2> QED
      BY <1>4, <2>1
  <1>6. CASE UNCHANGED vars
    <2>1. UNCHANGED <<db, onSwitch, spent>> /\ threw' \in BOOLEAN
      BY <1>1, <1>6 DEF vars
    <2> QED
      BY <1>4, <2>1
  <1> QED
    BY <1>2, <1>3, <1>5, <1>6 DEF Next

\* The inductive invariant holds in every state.
THEOREM Invariance == Spec => []MetaInv
  <1>1. Init => MetaInv
    BY InitHolds
  <1>2. MetaInv /\ [Next]_vars => MetaInv'
    BY StepKeeps
  <1> QED
    BY <1>1, <1>2, PTL DEF Spec

\* Every variable has its type in every state; no count is negative, so no
\* decrement of OidRefCounter goes below zero or meets an unknown id.
THEOREM TypeCorrect == Spec => []TypeOK
  <1>1. MetaInv => TypeOK
    BY DEF MetaInv, DbInv, DbType, PortInv, SpentIds, RelatedPlaced, TypeOK
  <1> QED
    BY <1>1, Invariance, PTL

\* The count of an object id is the number of places that refer to it: after any
\* calls and notifications, in any order.
THEOREM CountsRight == Spec => []CountsAreReferences
  <1>1. MetaInv => CountsAreReferences
    BY DEF MetaInv, DbInv
  <1> QED
    BY <1>1, Invariance, PTL

\* The objects that a port has and that are on the switch are known, so that the
\* check of the removal of the port finds them.
THEOREM RelatedKnown == Spec => []RelatedAreKnown
  <1>1. MetaInv => RelatedAreKnown
    BY DEF MetaInv, PortInv
  <1> QED
    BY <1>1, Invariance, PTL

\* Every reference leads to an object that is there, of the same switch: nothing
\* is removed while it is referred to.
THEOREM GraphClosed == Spec => []Graph!Closed
  <1>1. MetaInv => Graph!Closed
    <2> SUFFICES ASSUME MetaInv, NEW k \in DOMAIN m_saiObjectCollection,
                        NEW o \in Refs(m_saiObjectCollection[k])
                 PROVE  o \in DOMAIN m_saiObjectCollection /\ SwitchOf[o] = SwitchOf[k]
      BY DEF Graph!Closed, Graph!Refs, Refs
    <2>1. PICK a \in Attr : o \in m_saiObjectCollection[k][a]
      BY DEF Refs
    <2> QED
      BY <2>1 DEF MetaInv, DbInv, ClosedRefs, CountsAreReferences
  <1> QED
    BY <1>1, Invariance, PTL

\* The database implements the graph of objects: an object leaves only when
\* nothing refers to it, or with its whole switch.
THEOREM ImplementsGraph == Spec => ImplementsObjectGraph
  <1>1. Init => Graph!Init
    BY DEF Init, Graph!Init
  <1>2. MetaInv /\ [Next]_vars => [Graph!Next]_m_saiObjectCollection
    BY StepKeeps
  <1> QED
    BY <1>1, <1>2, Invariance, PTL DEF Spec, ImplementsObjectGraph, Graph!Spec
================================================================================
