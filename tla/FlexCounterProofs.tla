--------------------------- MODULE FlexCounterProofs ---------------------------
(***************************************************************************)
(* What the flex counter group polls is what was asked for, under the      *)
(* right object, and its thread does not sleep over work: for every set of *)
(* objects, counters and prefixes, and whatever the vendor supports.       *)
(***************************************************************************)
EXTENDS FlexCounter, FiniteSetTheorems, SequenceTheorems, TLAPS

--------------------------------------------------------------------------------
(* The thread and its notices                                              *)

\* A group that does not exist has a thread that has not started: the thread
\* that comes with the next instance looks at the tables before it waits.
ThreadInv ==
    /\ m_flexCounters \in {"none", "up", "ending"}
    /\ m_flexCounters = "none" => pc = "top"
    /\ WaitsOnlyIfIdle

\* Without the tables' contents there is nothing that a removal could bring back.
LEMMA EmptyStaysEmpty ==
    ASSUME Empty, NEW v, RemoveCounter(v)
    PROVE  Empty'
  <1>1. m_objectIdsMap' = Without(m_objectIdsMap, {v})
    BY DEF RemoveCounter
  <1>2. PICK left : m_bulkContexts' = BulkWithout(v, left)
    BY DEF RemoveCounter
  <1>3. DOMAIN m_objectIdsMap = {} /\ DOMAIN m_bulkContexts = {}
    BY DEF Empty
  <1>4. m_objectIdsMap' = <<>>
    BY <1>1, <1>3 DEF Without
  <1>5. {q \in DOMAIN m_bulkContexts : q \notin left \/ Len(m_bulkContexts[q].vids) > 1} = {}
    BY <1>3
  <1>6. m_bulkContexts' = <<>>
    BY <1>2, <1>5 DEF BulkWithout
  <1> QED
    BY <1>4, <1>6 DEF Empty

\* A call of the main thread that does not leave a notice brings no work.
LEMMA MainKeepsThread ==
    ASSUME ThreadInv, MainNext
    PROVE  ThreadInv'
  <1>1. ASSUME m_readyToPoll', m_flexCounters' \in {"up", "ending"} PROVE ThreadInv'
    BY <1>1 DEF ThreadInv, WaitsOnlyIfIdle
  <1>2. ASSUME NEW enable, SetStatus(enable) PROVE ThreadInv'
    BY <1>1, <1>2 DEF SetStatus, NotifyPoll
  <1>3. ASSUME NEW v, NEW ids, NEW bulk, AddCounter(v, ids, bulk) PROVE ThreadInv'
    BY <1>1, <1>3 DEF AddCounter, NotifyPoll, EndIfDiscarded
  <1>3a. ASSUME AddNothing PROVE ThreadInv'
    BY <1>1, <1>3a DEF AddNothing, NotifyPoll, EndIfDiscarded
  <1>4. ASSUME NEW v, ObjectRemoved(v) PROVE ThreadInv'
    BY <1>4 DEF ObjectRemoved, ThreadInv, WaitsOnlyIfIdle, Pollable, Empty, group, thread
  <1>5. ASSUME NEW pf, NEW valid, NEW plugin, SetPrefixes(pf, valid, plugin) PROVE ThreadInv'
    BY <1>1, <1>5 DEF SetPrefixes, NotifyPoll
  <1>6. ASSUME NEW ids, NEW ok, NEW read, BulkAddCounter(ids, ok, read) PROVE ThreadInv'
    BY <1>1, <1>6 DEF BulkAddCounter, NotifyPoll, EndIfDiscarded
  <1>7. ASSUME RemoveCounterPlugins PROVE ThreadInv'
    <2>1. /\ m_flexCounters # "ending" /\ m_flexCounters' \in {"up", "ending"} /\ UNCHANGED pc
          /\ UNCHANGED <<m_enable, m_objectIdsMap, m_bulkContexts>>
          /\ m_flexCounters' = "up" => UNCHANGED m_readyToPoll
      BY <1>7 DEF RemoveCounterPlugins, GetInstance, EndIfDiscarded
    <2>2. Pollable' = Pollable
      BY <2>1 DEF Pollable, Empty
    <2> QED
      BY <2>1, <2>2 DEF ThreadInv, WaitsOnlyIfIdle
  <1>8. ASSUME RemoveAllCounters PROVE ThreadInv'
    BY <1>8 DEF RemoveAllCounters, ThreadInv, WaitsOnlyIfIdle
  <1>9. ASSUME NEW v, RemoveCounter(v) PROVE ThreadInv'
    <2>1. /\ m_flexCounters # "ending" /\ m_flexCounters' \in {"up", "ending"}
          /\ UNCHANGED <<pc, m_enable>>
          /\ m_flexCounters' = "up" => UNCHANGED m_readyToPoll
      BY <1>9 DEF RemoveCounter, GetInstance, EndIfDiscarded
    <2>2. ~Pollable => ~Pollable'
      BY <1>9, <2>1, EmptyStaysEmpty DEF Pollable
    <2> QED
      BY <2>1, <2>2 DEF ThreadInv, WaitsOnlyIfIdle
  <1>10. ASSUME Joined PROVE ThreadInv'
    BY <1>10 DEF Joined, NewGroup, ThreadInv, WaitsOnlyIfIdle
  <1> QED
    BY <1>2, <1>3, <1>3a, <1>4, <1>5, <1>6, <1>7, <1>8, <1>9, <1>10 DEF MainNext

\* The thread waits only after it has found nothing, and the tables do not
\* change in that step.
LEMMA ThreadKeepsThread ==
    ASSUME ThreadInv, ThreadNext
    PROVE  ThreadInv'
  <1>1. UNCHANGED <<m_flexCounters, m_enable, m_objectIdsMap, m_bulkContexts>>
    BY DEF ThreadNext, LoopTop, NothingToPoll, WakeUp, WaitPoll, Connect, Poll, ThreadUnchanged, group
  <1>2. Pollable' = Pollable
    BY <1>1 DEF Pollable, Empty
  <1>3. CASE LoopTop
    BY <1>1, <1>2, <1>3 DEF LoopTop, ThreadInv, WaitsOnlyIfIdle
  <1>4. CASE NothingToPoll
    BY <1>1, <1>2, <1>4 DEF NothingToPoll, ThreadInv, WaitsOnlyIfIdle
  <1>5. CASE WakeUp \/ WaitPoll
    BY <1>1, <1>2, <1>5 DEF WakeUp, WaitPoll, ThreadInv, WaitsOnlyIfIdle
  <1>6. ASSUME NEW ok, Connect(ok) \/ Poll(ok) PROVE ThreadInv'
    BY <1>1, <1>2, <1>6 DEF Connect, Poll, ThreadInv, WaitsOnlyIfIdle
  <1> QED
    BY <1>3, <1>4, <1>5, <1>6 DEF ThreadNext

\* The thread of a group never waits for a notice while the group is enabled and
\* has something to poll: every call that gives it work leaves a notice that its
\* next wait takes (waitPoll, notifyPoll).
THEOREM NoLostNotice == Spec => []WaitsOnlyIfIdle
  <1>1. Init => ThreadInv
    BY DEF Init, ThreadInv, WaitsOnlyIfIdle
  <1>2. ThreadInv /\ [Next]_vars => ThreadInv'
    <2>1. ASSUME ThreadInv, UNCHANGED vars PROVE ThreadInv'
      BY <2>1 DEF ThreadInv, WaitsOnlyIfIdle, Pollable, Empty, vars, group, thread
    <2> QED
      BY <2>1, MainKeepsThread, ThreadKeepsThread DEF Next
  <1>3. ThreadInv => WaitsOnlyIfIdle
    BY DEF ThreadInv
  <1> QED
    BY <1>1, <1>2, <1>3, PTL DEF Spec

--------------------------------------------------------------------------------
(* Sequences of objects                                                    *)

\* What RemoveAt leaves.
LEMMA RemoveFacts ==
    ASSUME NEW S, NEW q \in Seq(S), NEW n \in 1..Len(q)
    PROVE  /\ RemoveAt(q, n) \in Seq(S)
           /\ Len(RemoveAt(q, n)) = Len(q) - 1
           /\ \A m \in 1..Len(q) - 1 : RemoveAt(q, n)[m] = q[IF m < n THEN m ELSE m + 1]
  <1> DEFINE a == SubSeq(q, 1, n - 1)
             b == SubSeq(q, n + 1, Len(q))
  <1>1. /\ a \in Seq(S)
        /\ Len(a) = n - 1
        /\ \A m \in 1..n - 1 : a[m] = q[m]
    OBVIOUS
  <1>2. /\ b \in Seq(S)
        /\ Len(b) = Len(q) - n
        /\ \A m \in 1..Len(q) - n : b[m] = q[m + n]
    OBVIOUS
  <1>3. RemoveAt(q, n) = a \o b
    BY DEF RemoveAt
  <1> HIDE DEF a, b
  <1>4. /\ a \o b \in Seq(S)
        /\ Len(a \o b) = Len(a) + Len(b)
        /\ \A m \in 1..Len(a) + Len(b) :
              (a \o b)[m] = IF m <= Len(a) THEN a[m] ELSE b[m - Len(a)]
    BY <1>1, <1>2, ConcatProperties
  <1>5. Len(q) \in Nat /\ n \in Nat /\ Len(a) + Len(b) = Len(q) - 1
    BY <1>1, <1>2
  <1>6. ASSUME NEW m \in 1..Len(q) - 1
        PROVE  (a \o b)[m] = q[IF m < n THEN m ELSE m + 1]
    <2>1. CASE m < n
      BY <1>1, <1>4, <1>5, <2>1
    <2>2. CASE ~(m < n)
      <3>1. m - Len(a) \in 1..Len(q) - n /\ (m - Len(a)) + n = m + 1 /\ ~(m <= Len(a))
        BY <1>1, <1>5, <2>2
      <3>2. (a \o b)[m] = b[m - Len(a)] /\ b[m - Len(a)] = q[(m - Len(a)) + n]
        BY <1>2, <1>4, <1>5, <3>1
      <3> QED
        BY <2>2, <3>1, <3>2
    <2> QED
      BY <2>1, <2>2
  <1> QED
    BY <1>3, <1>4, <1>5, <1>6

\* The elements of a sequence.
LEMMA ElementsFacts ==
    ASSUME NEW S, NEW q \in Seq(S)
    PROVE  /\ DOMAIN q = 1..Len(q) /\ Len(q) \in Nat
           /\ ToSet(q) \subseteq S
           /\ \A x : x \in ToSet(q) <=> \E i \in 1..Len(q) : q[i] = x
           /\ Len(q) > 0 <=> ToSet(q) # {}
  <1>1. DOMAIN q = 1..Len(q) /\ Len(q) \in Nat /\ \A i \in 1..Len(q) : q[i] \in S
    OBVIOUS
  <1>2. ToSet(q) = {q[i] : i \in 1..Len(q)}
    BY <1>1 DEF ToSet
  <1>3. Len(q) > 0 => q[1] \in ToSet(q)
    BY <1>1, <1>2
  <1> QED
    BY <1>1, <1>2, <1>3

\* What a concatenation holds, and where.
LEMMA ConcatFacts ==
    ASSUME NEW S, NEW a \in Seq(S), NEW b \in Seq(S)
    PROVE  /\ a \o b \in Seq(S)
           /\ Len(a \o b) = Len(a) + Len(b)
           /\ \A i \in 1..Len(a) : (a \o b)[i] = a[i]
           /\ \A i \in 1..Len(b) : (a \o b)[Len(a) + i] = b[i]
           /\ \A i \in 1..Len(a \o b) : i \in 1..Len(a) \/ \E j \in 1..Len(b) : i = Len(a) + j
           /\ ToSet(a \o b) = ToSet(a) \cup ToSet(b)
           /\ IsInjective(a) /\ IsInjective(b) /\ ToSet(a) \cap ToSet(b) = {} => IsInjective(a \o b)
  <1> DEFINE r == a \o b
             m == Len(a)
             n == Len(b)
  <1>1. /\ r \in Seq(S) /\ Len(r) = m + n
        /\ \A i \in 1..m + n : r[i] = IF i <= m THEN a[i] ELSE b[i - m]
    BY ConcatProperties
  <1>2. m \in Nat /\ n \in Nat
    OBVIOUS
  <1>3. /\ \A x : x \in ToSet(r) <=> \E i \in 1..Len(r) : r[i] = x
        /\ \A x : x \in ToSet(a) <=> \E i \in 1..m : a[i] = x
        /\ \A x : x \in ToSet(b) <=> \E i \in 1..n : b[i] = x
        /\ DOMAIN r = 1..Len(r) /\ DOMAIN a = 1..m /\ DOMAIN b = 1..n
    BY <1>1, ElementsFacts
  <1> HIDE DEF r, m, n
  <1>4. \A i \in 1..m : r[i] = a[i] /\ i \in 1..Len(r)
    BY <1>1, <1>2
  <1>5. ASSUME NEW i \in 1..n PROVE r[m + i] = b[i] /\ m + i \in 1..Len(r)
    <2>1. m + i \in 1..m + n /\ ~(m + i <= m) /\ (m + i) - m = i
      BY <1>2
    <2> QED
      BY <1>1, <2>1
  <1>6. ASSUME NEW i \in 1..Len(r) PROVE i \in 1..m \/ \E j \in 1..n : i = m + j
    <2>1. CASE i <= m
      BY <1>1, <1>2, <2>1
    <2>2. CASE ~(i <= m)
      <3>1. i - m \in 1..n /\ i = m + (i - m)
        BY <1>1, <1>2, <2>2
      <3> QED
        BY <3>1
    <2> QED
      BY <2>1, <2>2
  <1>7. ToSet(r) = ToSet(a) \cup ToSet(b)
    <2>1. ASSUME NEW x \in ToSet(r) PROVE x \in ToSet(a) \cup ToSet(b)
      BY <1>3, <1>4, <1>5, <1>6
    <2>2. ASSUME NEW x \in ToSet(a) \cup ToSet(b) PROVE x \in ToSet(r)
      BY <1>3, <1>4, <1>5
    <2> QED
      BY <2>1, <2>2
  <1>8. ASSUME IsInjective(a), IsInjective(b), ToSet(a) \cap ToSet(b) = {} PROVE IsInjective(r)
    <2> SUFFICES ASSUME NEW i \in 1..Len(r), NEW j \in 1..Len(r), r[i] = r[j] PROVE i = j
      BY <1>3 DEF IsInjective
    <2>1. /\ \A x, y \in 1..m : a[x] = a[y] => x = y
          /\ \A x, y \in 1..n : b[x] = b[y] => x = y
          /\ \A x \in 1..m, y \in 1..n : a[x] # b[y]
      BY <1>3, <1>8 DEF IsInjective
    <2>2. CASE i \in 1..m /\ j \in 1..m
      BY <1>4, <2>1, <2>2
    <2>3. ASSUME NEW y \in 1..n, i \in 1..m, j = m + y PROVE FALSE
      BY <1>4, <1>5, <2>1, <2>3
    <2>4. ASSUME NEW x \in 1..n, i = m + x, j \in 1..m PROVE FALSE
      BY <1>4, <1>5, <2>1, <2>4
    <2>5. ASSUME NEW x \in 1..n, NEW y \in 1..n, i = m + x, j = m + y PROVE i = j
      <3>1. b[x] = b[y]
        BY <1>5, <2>5
      <3> QED
        BY <2>1, <2>5, <3>1
    <2> QED
      BY <1>6, <2>2, <2>3, <2>4, <2>5
  <1> QED
    BY <1>1, <1>4, <1>5, <1>6, <1>7, <1>8 DEF r, m, n

\* A sequence without repetitions has as many elements as places.
LEMMA DistinctCount ==
    ASSUME NEW S, NEW q \in Seq(S), IsInjective(q)
    PROVE  Cardinality(ToSet(q)) = Len(q) /\ IsFiniteSet(ToSet(q))
  <1>1. DOMAIN q = 1..Len(q) /\ Len(q) \in Nat
    OBVIOUS
  <1>2. ToSet(q) = {q[i] : i \in 1..Len(q)}
    BY <1>1 DEF ToSet
  <1>3. q \in [1..Len(q) -> ToSet(q)]
    BY <1>1, <1>2
  <1>4. q \in Bijection(1..Len(q), ToSet(q))
    BY <1>1, <1>2, <1>3 DEF IsInjective, Bijection, Injection, Surjection
  <1>5. ExistsBijection(1..Len(q), ToSet(q))
    BY <1>4 DEF ExistsBijection
  <1> QED
    BY <1>1, <1>5, FS_NatBijection, FS_CountingElements

\* SetToSeq lists the elements of a finite set, each once.
LEMMA SetToSeqFacts ==
    ASSUME NEW S, IsFiniteSet(S)
    PROVE  /\ SetToSeq(S) \in Seq(S)
           /\ IsInjective(SetToSeq(S))
           /\ ToSet(SetToSeq(S)) = S
  <1> DEFINE n == Cardinality(S)
             f == SetToSeq(S)
  <1>1. n \in Nat /\ ExistsBijection(1..n, S)
    BY FS_CardinalityType
  <1>2. \E g \in [1..n -> S] : IsInjective(g)
    BY <1>1 DEF ExistsBijection, Bijection, Injection, IsInjective
  <1>3. f \in [1..n -> S] /\ IsInjective(f)
    BY <1>2 DEF SetToSeq
  <1> HIDE DEF n, f
  <1>4. f \in Seq(S) /\ Len(f) = n
    BY <1>1, <1>3
  <1>5. Cardinality(ToSet(f)) = n
    BY <1>3, <1>4, DistinctCount
  <1>6. ToSet(f) \in SUBSET S
    BY <1>4, ElementsFacts
  <1>7. ToSet(f) = S
    BY <1>5, <1>6, FS_Subset DEF n
  <1> QED
    BY <1>3, <1>4, <1>7 DEF f

--------------------------------------------------------------------------------
(* The lists of a bulk                                                     *)

\* A bulk has its objects once each, and the key of an object, or none, in the
\* place where it has the object.
InStep(c) ==
    /\ c \in [name : {"default", "prefix"}, vids : Seq(Vid), keys : Seq(Vid \cup {NoRid})]
    /\ Len(c.vids) = Len(c.keys)
    /\ IsInjective(c.vids)
    /\ \A i \in 1..Len(c.vids) : c.keys[i] \in {c.vids[i], NoRid}

\* A bulk of nothing.
LEMMA NewContext ==
    ASSUME NEW name \in {"default", "prefix"}
    PROVE  InStep(NoContext(name)) /\ ToSet(NoContext(name).vids) = {}
  BY DEF InStep, NoContext, IsInjective, ToSet

\* addBulkStatsContext adds the objects that are not there, with their keys.
LEMMA AddAllFacts ==
    ASSUME NEW c, InStep(c), NEW S, S \subseteq Vid
    PROVE  /\ InStep(AddAllTo(c, S))
           /\ ToSet(AddAllTo(c, S).vids) = ToSet(c.vids) \cup S
  <1> DEFINE T == S \ ToSet(c.vids)
             new == SetToSeq(T)
             nkeys == [i \in DOMAIN new |-> Key(new[i])]
             d == AddAllTo(c, S)
  <1>1. d = [c EXCEPT !.vids = c.vids \o new, !.keys = c.keys \o nkeys]
    BY DEF AddAllTo
  <1>2. IsFiniteSet(T)
    BY VidAssumption, FS_Subset
  <1>3. new \in Seq(T) /\ IsInjective(new) /\ ToSet(new) = T
    BY <1>2, SetToSeqFacts
  <1>4. c \in [name : {"default", "prefix"}, vids : Seq(Vid), keys : Seq(Vid \cup {NoRid})]
        /\ Len(c.vids) = Len(c.keys) /\ Len(c.vids) \in Nat
    BY DEF InStep
  <1> HIDE DEF new
  <1>5. /\ new \in Seq(Vid) /\ Len(new) \in Nat /\ DOMAIN new = 1..Len(new)
        /\ \A i \in 1..Len(new) : new[i] \in T
    BY <1>3
  <1>6. /\ nkeys \in Seq(Vid \cup {NoRid}) /\ Len(nkeys) = Len(new)
        /\ \A i \in 1..Len(new) : nkeys[i] \in {new[i], NoRid}
    BY <1>5 DEF Key
  <1> HIDE DEF T, nkeys, d
  <1> DEFINE cv == c.vids
             ck == c.keys
             dv == cv \o new
             dk == ck \o nkeys
  <1>7. /\ cv \in Seq(Vid) /\ ck \in Seq(Vid \cup {NoRid}) /\ Len(cv) = Len(ck) /\ Len(cv) \in Nat
        /\ IsInjective(cv) /\ \A i \in 1..Len(cv) : ck[i] \in {cv[i], NoRid}
    BY <1>4 DEF InStep
  <1>8. /\ d.vids = dv /\ d.keys = dk /\ d.name = c.name
        /\ d = [name |-> c.name, vids |-> dv, keys |-> dk]
    BY <1>1, <1>4
  <1> HIDE DEF cv, ck
  <1>9. /\ dv \in Seq(Vid)
        /\ Len(dv) = Len(cv) + Len(new)
        /\ \A i \in 1..Len(cv) : dv[i] = cv[i]
        /\ \A i \in 1..Len(new) : dv[Len(cv) + i] = new[i]
        /\ \A i \in 1..Len(dv) : i \in 1..Len(cv) \/ \E j \in 1..Len(new) : i = Len(cv) + j
        /\ ToSet(dv) = ToSet(cv) \cup ToSet(new)
        /\ IsInjective(cv) /\ IsInjective(new) /\ ToSet(cv) \cap ToSet(new) = {} => IsInjective(dv)
    BY <1>5, <1>7, ConcatFacts, Zenon
  <1>10. /\ dk \in Seq(Vid \cup {NoRid})
         /\ Len(dk) = Len(ck) + Len(nkeys)
         /\ \A i \in 1..Len(ck) : dk[i] = ck[i]
         /\ \A i \in 1..Len(nkeys) : dk[Len(ck) + i] = nkeys[i]
    <2> DEFINE K == Vid \cup {NoRid}
    <2>1. nkeys \in Seq(K) /\ ck \in Seq(K)
      BY <1>6, <1>7
    <2> HIDE DEF K
    <2>2. /\ dk \in Seq(K)
          /\ Len(dk) = Len(ck) + Len(nkeys)
          /\ \A i \in 1..Len(ck) : dk[i] = ck[i]
          /\ \A i \in 1..Len(nkeys) : dk[Len(ck) + i] = nkeys[i]
          /\ \A i \in 1..Len(dk) : i \in 1..Len(ck) \/ \E j \in 1..Len(nkeys) : i = Len(ck) + j
          /\ ToSet(dk) = ToSet(ck) \cup ToSet(nkeys)
          /\ IsInjective(ck) /\ IsInjective(nkeys) /\ ToSet(ck) \cap ToSet(nkeys) = {} => IsInjective(dk)
      BY <2>1, ConcatFacts, Zenon
    <2> QED
      BY <2>2 DEF K
  <1> HIDE DEF dv, dk
  <1>11. \A i \in 1..Len(dv) : dk[i] \in {dv[i], NoRid}
    <2> SUFFICES ASSUME NEW i \in 1..Len(dv) PROVE dk[i] \in {dv[i], NoRid}
      OBVIOUS
    <2>1. CASE i \in 1..Len(cv)
      <3>1. dk[i] = ck[i] /\ dv[i] = cv[i]
        BY <1>7, <1>9, <1>10, <2>1
      <3> QED
        BY <1>7, <2>1, <3>1
    <2>2. ASSUME NEW j \in 1..Len(new), i = Len(cv) + j PROVE dk[i] \in {dv[i], NoRid}
      <3>1. dk[i] = nkeys[j] /\ dv[i] = new[j]
        BY <1>6, <1>7, <1>9, <1>10, <2>2
      <3> QED
        BY <1>6, <3>1
    <2> QED
      BY <1>9, <2>1, <2>2
  <1>12. ToSet(dv) = ToSet(c.vids) \cup S /\ IsInjective(dv)
    BY <1>3, <1>7, <1>9 DEF T, cv
  <1>13. d \in [name : {"default", "prefix"}, vids : Seq(Vid), keys : Seq(Vid \cup {NoRid})]
    BY <1>4, <1>8, <1>9, <1>10
  <1> QED
    BY <1>6, <1>7, <1>8, <1>9, <1>10, <1>11, <1>12, <1>13 DEF InStep, d

\* removeBulkStatsContext takes an object out of both lists, at the same place.
LEMMA TakeFacts ==
    ASSUME NEW c, InStep(c), NEW v \in ToSet(c.vids)
    PROVE  /\ InStep(TakeFrom(c, v))
           /\ ToSet(TakeFrom(c, v).vids) = ToSet(c.vids) \ {v}
           /\ Len(TakeFrom(c, v).vids) = Len(c.vids) - 1
  <1> DEFINE cv == c.vids
             ck == c.keys
             i == SelectInSeq(cv, LAMBDA x : x = v)
             dv == RemoveAt(cv, i)
             dk == RemoveAt(ck, i)
             d == TakeFrom(c, v)
  <1>1. /\ cv \in Seq(Vid) /\ ck \in Seq(Vid \cup {NoRid}) /\ Len(cv) = Len(ck) /\ Len(cv) \in Nat
        /\ DOMAIN cv = 1..Len(cv)
        /\ IsInjective(cv) /\ \A j \in 1..Len(cv) : ck[j] \in {cv[j], NoRid}
        /\ c \in [name : {"default", "prefix"}, vids : Seq(Vid), keys : Seq(Vid \cup {NoRid})]
    BY DEF InStep
  <1>2. d = [c EXCEPT !.vids = dv, !.keys = dk]
    BY DEF TakeFrom
  <1>3. i \in 1..Len(cv) /\ cv[i] = v
    <2>1. PICK n \in 1..Len(cv) : cv[n] = v
      BY <1>1, ElementsFacts
    <2>2. {m \in 1..Len(cv) : cv[m] = v} = {n}
      BY <1>1, <2>1 DEF IsInjective
    <2>3. Min({n}) = n
      <3>1. n \in Nat
        BY <1>1, <2>1
      <3>2. \A x \in {n} : x <= n
        BY <3>1
      <3> QED
        BY <3>1, <3>2 DEF Min
    <2>4. i = n
      BY <2>2, <2>3 DEF SelectInSeq
    <2> QED
      BY <2>1, <2>4
  <1>4. d.vids = dv /\ d.keys = dk /\ d = [name |-> c.name, vids |-> dv, keys |-> dk]
    BY <1>1, <1>2
  <1> HIDE DEF cv, ck, i, d
  <1>5. /\ dv \in Seq(Vid)
        /\ Len(dv) = Len(cv) - 1
        /\ \A m \in 1..Len(cv) - 1 : dv[m] = cv[IF m < i THEN m ELSE m + 1]
    BY <1>1, <1>3, RemoveFacts
  <1>6. /\ dk \in Seq(Vid \cup {NoRid})
        /\ Len(dk) = Len(ck) - 1
        /\ \A m \in 1..Len(ck) - 1 : dk[m] = ck[IF m < i THEN m ELSE m + 1]
    <2> DEFINE K == Vid \cup {NoRid}
    <2>1. ck \in Seq(K) /\ i \in 1..Len(ck)
      BY <1>1, <1>3
    <2> HIDE DEF K
    <2>2. /\ dk \in Seq(K)
          /\ Len(dk) = Len(ck) - 1
          /\ \A m \in 1..Len(ck) - 1 : dk[m] = ck[IF m < i THEN m ELSE m + 1]
      BY <2>1, RemoveFacts
    <2> QED
      BY <2>2 DEF K
  <1>7. DOMAIN dv = 1..Len(dv) /\ \A x : x \in ToSet(dv) <=> \E m \in 1..Len(dv) : dv[m] = x
    BY <1>5, ElementsFacts
  <1> HIDE DEF dv, dk
  <1> DEFINE at(m) == IF m < i THEN m ELSE m + 1
  <1>8. ASSUME NEW m \in 1..Len(dv)
        PROVE  at(m) \in 1..Len(cv) /\ at(m) # i /\ dv[m] = cv[at(m)] /\ dk[m] = ck[at(m)]
    BY <1>1, <1>3, <1>5, <1>6
  <1>9. ASSUME NEW n \in 1..Len(cv), n # i PROVE \E m \in 1..Len(dv) : at(m) = n
    <2>1. CASE n < i
      <3>1. n \in 1..Len(dv) /\ at(n) = n
        BY <1>1, <1>3, <1>5, <1>9, <2>1
      <3> QED
        BY <3>1
    <2>2. CASE ~(n < i)
      <3>1. n - 1 \in 1..Len(dv) /\ at(n - 1) = n
        BY <1>1, <1>3, <1>5, <1>9, <2>2
      <3> QED
        BY <3>1
    <2> QED
      BY <2>1, <2>2
  <1>10. \A m, n \in 1..Len(dv) : at(m) = at(n) => m = n
    BY <1>1, <1>3, <1>5
  <1> HIDE DEF at
  <1>11. IsInjective(dv)
    BY <1>1, <1>7, <1>8, <1>10 DEF IsInjective
  <1>12. ToSet(dv) = ToSet(cv) \ {v}
    <2>1. \A x : x \in ToSet(cv) <=> \E m \in 1..Len(cv) : cv[m] = x
      BY <1>1, ElementsFacts
    <2>2. \A m \in 1..Len(cv) : cv[m] = v => m = i
      BY <1>1, <1>3 DEF IsInjective
    <2>3. ASSUME NEW x \in ToSet(dv) PROVE x \in ToSet(cv) /\ x # v
      BY <1>7, <1>8, <2>1, <2>2
    <2>4. ASSUME NEW x \in ToSet(cv), x # v PROVE x \in ToSet(dv)
      BY <1>3, <1>7, <1>8, <1>9, <2>1, <2>4
    <2> QED
      BY <1>3, <2>3, <2>4
  <1>13. \A m \in 1..Len(dv) : dk[m] \in {dv[m], NoRid}
    BY <1>1, <1>8
  <1>14. d \in [name : {"default", "prefix"}, vids : Seq(Vid), keys : Seq(Vid \cup {NoRid})]
    BY <1>1, <1>4, <1>5, <1>6
  <1> QED
    BY <1>1, <1>4, <1>5, <1>6, <1>11, <1>12, <1>13, <1>14 DEF InStep, d, cv

--------------------------------------------------------------------------------
(* The table of bulks                                                      *)

\* Bulks that are in step and have objects; who has an object.
BulksOk(f) ==
    \A p \in DOMAIN f : p \in SUBSET Stat /\ InStep(f[p]) /\ ToSet(f[p].vids) # {}
Holders(f, v) == {p \in DOMAIN f : v \in ToSet(f[p].vids)}

\* The parts of a list of counters have all its counters and no other; without
\* prefixes the list is one part.
LEMMA PartsFacts ==
    ASSUME NEW ids, NEW pf
    PROVE  /\ Parts(ids, pf) \subseteq SUBSET ids
           /\ ids \subseteq UNION Parts(ids, pf)
           /\ pf = {} => Parts(ids, pf) = {ids}
           /\ Default(ids, pf) \in Parts(ids, pf)
  <1>1. Parts(ids, pf) \subseteq SUBSET ids
    BY DEF Parts, Default
  <1>2. Default(ids, pf) \in Parts(ids, pf)
    BY DEF Parts
  <1>3. ASSUME NEW s \in ids PROVE s \in UNION Parts(ids, pf)
    <2>1. CASE PrefixOf[s] \in pf
      <3> DEFINE part == {t \in ids : PrefixOf[t] = PrefixOf[s]}
      <3>1. s \in part /\ part \in {{t \in ids : PrefixOf[t] = x} : x \in pf} \ {{}}
        BY <2>1
      <3> QED
        BY <3>1 DEF Parts
    <2>2. CASE PrefixOf[s] \notin pf
      BY <1>2, <2>2 DEF Default
    <2> QED
      BY <2>1, <2>2
  <1>4. ASSUME pf = {} PROVE Parts(ids, pf) = {ids}
    <2>1. {{t \in ids : PrefixOf[t] = x} : x \in pf} = {} /\ Default(ids, pf) = ids
      BY <1>4 DEF Default
    <2> QED
      BY <2>1 DEF Parts
  <1> QED
    BY <1>1, <1>2, <1>3, <1>4

\* Objects get into the bulks of their parts and stay where they are.
LEMMA AddBulkFacts ==
    ASSUME NEW f, BulksOk(f), NEW S, NEW ids,
           \A p \in DOMAIN S : p \in SUBSET Stat /\ S[p] \subseteq Vid
    PROVE  /\ BulksOk(AddBulk(f, S, ids))
           /\ \A v : Holders(AddBulk(f, S, ids), v) = Holders(f, v) \cup {p \in DOMAIN S : v \in S[p]}
  <1> DEFINE g == AddBulk(f, S, ids)
             parts == {p \in DOMAIN S : S[p] # {}}
             ctx(p) == IF p \in DOMAIN f THEN f[p] ELSE NoContext(Name(p, ids, m_prefixes))
  <1>1. /\ DOMAIN g = DOMAIN f \cup parts
        /\ \A p \in DOMAIN f \cup parts : g[p] = IF p \in parts THEN AddAllTo(ctx(p), S[p]) ELSE ctx(p)
    BY DEF AddBulk
  <1>2. ASSUME NEW p PROVE Name(p, ids, m_prefixes) \in {"default", "prefix"}
    BY DEF Name
  <1>3. ASSUME NEW p
        PROVE  InStep(ctx(p)) /\ ToSet(ctx(p).vids) = IF p \in DOMAIN f THEN ToSet(f[p].vids) ELSE {}
    BY <1>2, NewContext DEF BulksOk
  <1> HIDE DEF g, ctx
  <1>4. ASSUME NEW p \in DOMAIN f \cup parts
        PROVE  InStep(g[p]) /\ ToSet(g[p].vids) = ToSet(ctx(p).vids) \cup (IF p \in parts THEN S[p] ELSE {})
    <2>1. CASE p \in parts
      <3>1. g[p] = AddAllTo(ctx(p), S[p]) /\ S[p] \subseteq Vid
        BY <1>1, <2>1
      <3>2. /\ InStep(AddAllTo(ctx(p), S[p]))
            /\ ToSet(AddAllTo(ctx(p), S[p]).vids) = ToSet(ctx(p).vids) \cup S[p]
        BY <1>3, <3>1, AddAllFacts
      <3> QED
        BY <2>1, <3>1, <3>2
    <2>2. CASE p \notin parts
      BY <1>1, <1>3, <2>2
    <2> QED
      BY <2>1, <2>2
  <1>5. BulksOk(g)
    BY <1>1, <1>3, <1>4 DEF BulksOk
  <1>6. ASSUME NEW v PROVE Holders(g, v) = Holders(f, v) \cup {p \in DOMAIN S : v \in S[p]}
    BY <1>1, <1>3, <1>4 DEF Holders
  <1> QED
    BY <1>5, <1>6 DEF g

\* An object leaves some of the bulks that have it; the others stay.
LEMMA BulkWithoutFacts ==
    ASSUME BulksOk(m_bulkContexts), NEW v, NEW left, left \subseteq Holding(v)
    PROVE  /\ BulksOk(BulkWithout(v, left))
           /\ Holders(BulkWithout(v, left), v) = Holding(v) \ left
           /\ \A w : w # v => Holders(BulkWithout(v, left), w) = Holding(w)
  <1> DEFINE f == m_bulkContexts
             g == BulkWithout(v, left)
  <1>1. /\ DOMAIN g = {q \in DOMAIN f : q \notin left \/ Len(f[q].vids) > 1}
        /\ \A p \in DOMAIN g : g[p] = IF p \in left THEN TakeFrom(f[p], v) ELSE f[p]
    BY DEF BulkWithout
  <1> HIDE DEF g
  <1>2. ASSUME NEW p \in left
        PROVE  /\ p \in DOMAIN f
               /\ InStep(TakeFrom(f[p], v))
               /\ ToSet(TakeFrom(f[p], v).vids) = ToSet(f[p].vids) \ {v}
               /\ Len(f[p].vids) > 1 <=> ToSet(f[p].vids) \ {v} # {}
    <2>1. p \in DOMAIN f /\ v \in ToSet(f[p].vids) /\ InStep(f[p])
      BY DEF Holding, BulksOk
    <2>2. /\ InStep(TakeFrom(f[p], v))
          /\ ToSet(TakeFrom(f[p], v).vids) = ToSet(f[p].vids) \ {v}
          /\ Len(TakeFrom(f[p], v).vids) = Len(f[p].vids) - 1
      BY <2>1, TakeFacts
    <2>3. TakeFrom(f[p], v).vids \in Seq(Vid) /\ Len(f[p].vids) \in Nat
      BY <2>1, <2>2 DEF InStep
    <2>4. Len(TakeFrom(f[p], v).vids) > 0 <=> ToSet(TakeFrom(f[p], v).vids) # {}
      BY <2>3, ElementsFacts
    <2> QED
      BY <2>1, <2>2, <2>3, <2>4
  <1>3. BulksOk(g)
    BY <1>1, <1>2 DEF BulksOk
  <1>4. Holders(g, v) = Holding(v) \ left
    BY <1>1, <1>2 DEF Holders, Holding
  <1>5. ASSUME NEW w, w # v PROVE Holders(g, w) = Holding(w)
    <2>1. ASSUME NEW p \in Holders(g, w) PROVE p \in Holding(w)
      BY <1>1, <1>2 DEF Holders, Holding
    <2>2. ASSUME NEW p \in Holding(w) PROVE p \in Holders(g, w)
      <3>1. p \in DOMAIN f /\ w \in ToSet(f[p].vids)
        BY DEF Holding
      <3>2. p \in DOMAIN g
        BY <1>1, <1>2, <1>5, <3>1
      <3>3. w \in ToSet(g[p].vids)
        BY <1>1, <1>2, <1>5, <3>1, <3>2
      <3> QED
        BY <3>2, <3>3 DEF Holders
    <2> QED
      BY <2>1, <2>2
  <1> QED
    BY <1>3, <1>4, <1>5 DEF g

\* Prefixes split the one bulk there is, or the bulks are merged: those that
\* result are in step.
LEMMA SplitOrMergeOk ==
    ASSUME BulksOk(m_bulkContexts), NEW pf
    PROVE  /\ BulksOk(SplitOrMerge(pf))
           /\ DOMAIN m_bulkContexts = {} => SplitOrMerge(pf) = m_bulkContexts
  <1> DEFINE f == m_bulkContexts
  <1>1. IsFiniteSet(DOMAIN f)
    <2>1. DOMAIN f \in SUBSET (SUBSET Stat)
      BY DEF BulksOk
    <2>2. IsFiniteSet(SUBSET Stat)
      BY StatAssumption, FS_SUBSET
    <2> QED
      BY <2>1, <2>2, FS_Subset
  <1>2. CASE Cardinality(DOMAIN f) = 1 /\ pf # {}
    <2> DEFINE p == CHOOSE q \in DOMAIN f : TRUE
    <2>1. DOMAIN f # {}
      BY <1>2, FS_EmptySet
    <2>2. p \in DOMAIN f
      BY <2>1
    <2>3. SplitOrMerge(pf) = Split(p, pf)
      BY <1>2 DEF SplitOrMerge
    <2> HIDE DEF p
    <2>4. /\ DOMAIN Split(p, pf) = Parts(p, pf) \ {p}
          /\ \A x \in Parts(p, pf) \ {p} : Split(p, pf)[x] = [f[p] EXCEPT !.name = Name(x, p, pf)]
      BY DEF Split
    <2>5. ASSUME NEW x \in Parts(p, pf) \ {p}
          PROVE  /\ x \in SUBSET Stat /\ InStep(Split(p, pf)[x])
                 /\ Split(p, pf)[x].vids = f[p].vids
      <3>1. Name(x, p, pf) \in {"default", "prefix"}
        BY DEF Name
      <3>2. InStep(f[p])
        BY <2>2 DEF BulksOk
      <3>3. /\ Split(p, pf)[x].vids = f[p].vids /\ Split(p, pf)[x].keys = f[p].keys
            /\ Split(p, pf)[x] \in [name : {"default", "prefix"}, vids : Seq(Vid), keys : Seq(Vid \cup {NoRid})]
        BY <2>4, <3>1, <3>2 DEF InStep
      <3>4. x \in SUBSET Stat
        BY <2>2, PartsFacts DEF BulksOk
      <3> QED
        BY <3>2, <3>3, <3>4 DEF InStep
    <2>6. ToSet(f[p].vids) # {}
      BY <2>2 DEF BulksOk
    <2> QED
      BY <2>1, <2>3, <2>4, <2>5, <2>6 DEF BulksOk
  <1>3. CASE Cardinality(DOMAIN f) > 1 /\ pf = {} /\ Mergeable
    <2> DEFINE p == CHOOSE q \in DOMAIN f : f[q].name = "default"
    <2>1. p \in DOMAIN f
      BY <1>3 DEF Mergeable
    <2>2. SplitOrMerge(pf) = [x \in {UNION DOMAIN f} |-> f[p]]
      BY <1>3 DEF SplitOrMerge, Merge
    <2> HIDE DEF p
    <2>3. UNION DOMAIN f \in SUBSET Stat
      BY DEF BulksOk
    <2> QED
      BY <2>1, <2>2, <2>3 DEF BulksOk
  <1>4. CASE ~(Cardinality(DOMAIN f) = 1 /\ pf # {}) /\ ~(Cardinality(DOMAIN f) > 1 /\ pf = {} /\ Mergeable)
    BY <1>4 DEF SplitOrMerge
  <1>5. CASE DOMAIN f = {}
    <2>1. Cardinality(DOMAIN f) = 0
      BY <1>5, FS_EmptySet
    <2> QED
      BY <1>4, <2>1 DEF SplitOrMerge
  <1> QED
    BY <1>2, <1>3, <1>4, <1>5

\* Careful prefixes: every object keeps its counters, gets no other bulk than it
\* had one before, and without prefixes there is one bulk at most.
LEMMA SplitOrMergeKeeps ==
    ASSUME BulksOk(m_bulkContexts), NEW pf, CarefulPrefixes(pf, TRUE)
    PROVE  LET g == SplitOrMerge(pf) IN
           /\ \A v : Holders(g, v) # {} => Holding(v) # {}
           /\ \A v : UNION Holding(v) \subseteq UNION Holders(g, v)
           /\ pf = {} => \A p, q \in DOMAIN g : p = q
  <1> DEFINE f == m_bulkContexts
             g == SplitOrMerge(pf)
  <1>0. \A v : Holding(v) = Holders(f, v)
    BY DEF Holding, Holders
  <1>1. IsFiniteSet(DOMAIN f) /\ Cardinality(DOMAIN f) \in Nat
    <2>1. DOMAIN f \in SUBSET (SUBSET Stat)
      BY DEF BulksOk
    <2>2. IsFiniteSet(SUBSET Stat)
      BY StatAssumption, FS_SUBSET
    <2> QED
      BY <2>1, <2>2, FS_Subset, FS_CardinalityType
  <1>2. CASE Cardinality(DOMAIN f) = 1 /\ pf # {}
    <2> DEFINE p == CHOOSE q \in DOMAIN f : TRUE
    <2>1. PICK q : DOMAIN f = {q}
      BY <1>1, <1>2, FS_Singleton
    <2>2. p = q
      BY <2>1
    <2>3. g = Split(p, pf) /\ p \notin Parts(p, pf)
      BY <1>2, <2>1, <2>2 DEF SplitOrMerge, CarefulPrefixes
    <2> HIDE DEF p
    <2>4. /\ DOMAIN Split(p, pf) = Parts(p, pf)
          /\ \A x \in Parts(p, pf) : Split(p, pf)[x].vids = f[p].vids
      <3>1. f[p] \in [name : {"default", "prefix"}, vids : Seq(Vid), keys : Seq(Vid \cup {NoRid})]
        BY <2>1, <2>2 DEF BulksOk, InStep
      <3> QED
        BY <2>3, <3>1 DEF Split
    <2>5. \A v : Holders(g, v) = IF v \in ToSet(f[p].vids) THEN Parts(p, pf) ELSE {}
      BY <2>3, <2>4 DEF Holders
    <2>6. \A v : Holders(f, v) = IF v \in ToSet(f[p].vids) THEN {p} ELSE {}
      BY <2>1, <2>2 DEF Holders
    <2>7. p \subseteq UNION Parts(p, pf)
      BY PartsFacts
    <2> QED
      BY <1>0, <1>2, <2>5, <2>6, <2>7
  <1>3. CASE Cardinality(DOMAIN f) > 1 /\ pf = {} /\ Mergeable
    <2> DEFINE p == CHOOSE q \in DOMAIN f : f[q].name = "default"
    <2>1. p \in DOMAIN f
      BY <1>3 DEF Mergeable
    <2>2. g = [x \in {UNION DOMAIN f} |-> f[p]]
      BY <1>3 DEF SplitOrMerge, Merge
    <2> HIDE DEF p
    <2>3. \A q \in DOMAIN f : ToSet(f[q].vids) = ToSet(f[p].vids)
      BY <1>3, <2>1 DEF Mergeable, Vids
    <2> HIDE DEF g
    <2>4. \A v : Holders(g, v) = IF v \in ToSet(f[p].vids) THEN {UNION DOMAIN f} ELSE {}
      BY <2>2 DEF Holders
    <2>5. \A v : Holders(f, v) = IF v \in ToSet(f[p].vids) THEN DOMAIN f ELSE {}
      BY <2>3 DEF Holders
    <2>6. \A v : UNION Holders(f, v) \subseteq UNION Holders(g, v)
      BY <2>4, <2>5
    <2>7. \A v : Holders(g, v) # {} => Holders(f, v) # {}
      BY <2>1, <2>4, <2>5
    <2>8. \A x, y \in DOMAIN g : x = y
      BY <2>2
    <2> QED
      BY <1>0, <2>6, <2>7, <2>8 DEF g
  <1>4. CASE ~(Cardinality(DOMAIN f) = 1 /\ pf # {}) /\ ~(Cardinality(DOMAIN f) > 1 /\ pf = {} /\ Mergeable)
    <2>1. g = f
      BY <1>4 DEF SplitOrMerge
    <2>2. ASSUME pf = {} PROVE \A p, q \in DOMAIN f : p = q
      <3>1. Cardinality(DOMAIN f) = 0 \/ Cardinality(DOMAIN f) = 1
        BY <1>1, <1>4, <2>2 DEF CarefulPrefixes
      <3>2. DOMAIN f = {} \/ \E x : DOMAIN f = {x}
        BY <1>1, <3>1, FS_EmptySet, FS_Singleton
      <3> QED
        BY <3>2
    <2> QED
      BY <1>0, <2>1, <2>2
  <1> QED
    BY <1>2, <1>3, <1>4

\* Which bulks an object leaves.
LEMMA LeftByFacts ==
    ASSUME NEW v, NEW left \in LeftBy(v)
    PROVE  /\ left \subseteq Holding(v)
           /\ (m_prefixes = {} => \A p, q \in Holding(v) : p = q) => left = Holding(v)
  BY DEF LeftBy

--------------------------------------------------------------------------------
(***************************************************************************)
(* The invariant of the tables.  What is polled has been asked for and is  *)
(* polled once without prefixes; the last is what the removal, which then  *)
(* looks for one bulk only, relies on.                                     *)
(***************************************************************************)
Tidy ==
    /\ m_prefixes = {} => \A v : \A p, q \in Holders(m_bulkContexts, v) : p = q
    /\ \A v : v \in DOMAIN m_objectIdsMap \/ Holders(m_bulkContexts, v) # {} => v \in DOMAIN wanted
    /\ \A v \in DOMAIN wanted \ gone : \A s \in wanted[v] :
        \/ s \in UNION Holders(m_bulkContexts, v)
        \/ v \in DOMAIN m_objectIdsMap /\ s \in m_objectIdsMap[v]

TablesType ==
    /\ m_flexCounters \in {"none", "up", "ending"}
    /\ m_prefixes \in Configs
    /\ BulksOk(m_bulkContexts)
    /\ \A v \in DOMAIN m_objectIdsMap : v \in Vid /\ m_objectIdsMap[v] \subseteq Stat
    /\ gone \subseteq Vid
    /\ DOMAIN wanted \subseteq Vid
    /\ ~m_counterContext => DOMAIN m_bulkContexts = {} /\ m_prefixes = {}
    /\ m_flexCounters = "none" => Empty /\ wanted = <<>>

TablesInv ==
    /\ TablesType
    /\ m_flexCounters # "ending" /\ ~careless => Tidy

\* Calls that leave the tables alone.
LEMMA SetStatusTables ==
    ASSUME TablesInv, NEW enable, SetStatus(enable), UNCHANGED careless
    PROVE  TablesInv'
  <1>1. /\ m_flexCounters # "ending" /\ m_flexCounters' = "up"
        /\ UNCHANGED <<m_counterContext, m_prefixes, m_objectIdsMap, m_bulkContexts, gone, wanted, careless>>
    BY DEF SetStatus, GetInstance
  <1>2. TablesType'
    BY <1>1 DEF TablesInv, TablesType
  <1>3. ~careless' => Tidy'
    BY <1>1 DEF TablesInv, Tidy
  <1> QED
    BY <1>2, <1>3 DEF TablesInv

\* Plugins are removed.
LEMMA RemovePluginsTables ==
    ASSUME TablesInv, RemoveCounterPlugins, UNCHANGED careless
    PROVE  TablesInv'
  <1>1. /\ m_flexCounters # "ending" /\ m_flexCounters' \in {"up", "ending"}
        /\ UNCHANGED <<m_counterContext, m_prefixes, m_objectIdsMap, m_bulkContexts, gone, wanted, careless>>
    BY DEF RemoveCounterPlugins, GetInstance, EndIfDiscarded
  <1>2. TablesType'
    BY <1>1 DEF TablesInv, TablesType
  <1>3. ~careless' => Tidy'
    BY <1>1 DEF TablesInv, Tidy
  <1> QED
    BY <1>2, <1>3 DEF TablesInv

\* removeAllCounters leaves the group to its destructor.
LEMMA RemoveAllTables ==
    ASSUME TablesInv, RemoveAllCounters, UNCHANGED careless
    PROVE  TablesInv'
  <1>1. /\ m_flexCounters' = "ending" /\ wanted' = <<>> /\ DOMAIN wanted' = {}
        /\ UNCHANGED <<m_counterContext, m_prefixes, m_objectIdsMap, m_bulkContexts, gone>>
    BY DEF RemoveAllCounters, group
  <1> QED
    BY <1>1 DEF TablesInv, TablesType

\* The thread has ended.
LEMMA JoinedTables ==
    ASSUME TablesInv, Joined
    PROVE  TablesInv'
  <1>1. /\ m_flexCounters' = "none" /\ m_prefixes' = {} /\ m_objectIdsMap' = <<>>
        /\ m_bulkContexts' = <<>> /\ wanted' = <<>> /\ UNCHANGED gone
    BY DEF Joined, NewGroup
  <1>2. DOMAIN m_objectIdsMap' = {} /\ DOMAIN m_bulkContexts' = {} /\ DOMAIN wanted' = {}
    BY <1>1
  <1>3. BulksOk(m_bulkContexts')
    BY <1>2 DEF BulksOk
  <1>4. TablesType'
    BY <1>1, <1>2, <1>3 DEF TablesInv, TablesType, Empty, Configs
  <1>5. Tidy'
    BY <1>2 DEF Tidy, Holders
  <1> QED
    BY <1>4, <1>5 DEF TablesInv

\* An object is removed by a request: it need not be polled any more.
LEMMA ObjectRemovedTables ==
    ASSUME TablesInv, NEW v \in Vid, ObjectRemoved(v), UNCHANGED careless
    PROVE  TablesInv'
  <1>1. /\ gone' = gone \cup {v}
        /\ UNCHANGED <<m_flexCounters, m_counterContext, m_prefixes, m_objectIdsMap, m_bulkContexts, wanted, careless>>
    BY DEF ObjectRemoved, group
  <1>2. TablesType'
    BY <1>1 DEF TablesInv, TablesType, Empty
  <1>3. m_flexCounters' # "ending" /\ ~careless' => Tidy'
    BY <1>1 DEF TablesInv, Tidy
  <1> QED
    BY <1>2, <1>3 DEF TablesInv

\* setBulkChunkSizePerPrefix
LEMMA SetPrefixesTables ==
    ASSUME TablesInv, ~careless, NEW pf \in Configs, NEW valid \in BOOLEAN, NEW plugin \in BOOLEAN,
           SetPrefixes(pf, valid, plugin), careless' = ~CarefulPrefixes(pf, valid)
    PROVE  TablesInv'
  <1> DEFINE f == m_bulkContexts
             g == SplitOrMerge(pf)
  <1>1. /\ m_flexCounters # "ending" /\ m_flexCounters' = "up"
        /\ m_counterContext' = (m_counterContext \/ plugin)
        /\ m_prefixes' = IF m_counterContext' THEN pf ELSE m_prefixes
        /\ m_bulkContexts' = IF valid THEN g ELSE f
        /\ UNCHANGED <<m_objectIdsMap, gone, wanted>>
    BY DEF SetPrefixes, GetInstance
  <1>2. BulksOk(f) /\ Tidy
    BY <1>1 DEF TablesInv, TablesType
  <1>3. BulksOk(g) /\ (DOMAIN f = {} => g = f)
    BY <1>2, SplitOrMergeOk
  <1> HIDE DEF g
  <1>4. ~m_counterContext' => DOMAIN m_bulkContexts' = {} /\ m_prefixes' = {}
    BY <1>1, <1>3 DEF TablesInv, TablesType
  <1>5. TablesType'
    <2>1. BulksOk(m_bulkContexts')
      BY <1>1, <1>2, <1>3
    <2> QED
      BY <1>1, <1>4, <2>1 DEF TablesInv, TablesType
  <1>6. ASSUME ~careless' PROVE Tidy'
    <2>1. valid /\ CarefulPrefixes(pf, TRUE)
      BY <1>6 DEF CarefulPrefixes
    <2>2. /\ \A v : Holders(g, v) # {} => Holding(v) # {}
          /\ \A v : UNION Holding(v) \subseteq UNION Holders(g, v)
          /\ pf = {} => \A p, q \in DOMAIN g : p = q
      BY <1>2, <2>1, SplitOrMergeKeeps DEF g
    <2>3. m_bulkContexts' = g
      BY <1>1, <2>1
    <2>4. \A v : Holding(v) = Holders(f, v)
      BY DEF Holding, Holders
    <2>5. m_prefixes' = {} => \A p, q \in DOMAIN g : p = q
      BY <1>1, <1>4, <2>2, <2>3
    <2>6. m_prefixes' = {} => \A v : \A p, q \in Holders(g, v) : p = q
      BY <2>5 DEF Holders
    <2>7. \A v : v \in DOMAIN m_objectIdsMap \/ Holders(g, v) # {} => v \in DOMAIN wanted
      BY <1>2, <2>2, <2>4 DEF Tidy
    <2>8. \A v \in DOMAIN wanted \ gone : \A s \in wanted[v] :
            \/ s \in UNION Holders(g, v)
            \/ v \in DOMAIN m_objectIdsMap /\ s \in m_objectIdsMap[v]
      BY <1>2, <2>2, <2>4 DEF Tidy
    <2> QED
      BY <1>1, <2>3, <2>6, <2>7, <2>8 DEF Tidy
  <1> QED
    BY <1>5, <1>6 DEF TablesInv

\* removeObject: the object leaves the single polls and, in a tidy group, every
\* bulk that has it.
LEMMA RemoveCounterTables ==
    ASSUME TablesInv, NEW v, RemoveCounter(v), UNCHANGED careless
    PROVE  TablesInv'
  <1>1. /\ m_flexCounters # "ending" /\ m_flexCounters' \in {"up", "ending"}
        /\ m_objectIdsMap' = Without(m_objectIdsMap, {v})
        /\ wanted' = Without(wanted, {v})
        /\ UNCHANGED <<m_counterContext, m_prefixes, gone, careless>>
    BY DEF RemoveCounter, GetInstance, EndIfDiscarded
  <1>2. PICK left \in LeftBy(v) : m_bulkContexts' = BulkWithout(v, left)
    BY DEF RemoveCounter
  <1> DEFINE f == m_bulkContexts
             g == BulkWithout(v, left)
  <1>3. BulksOk(f)
    BY DEF TablesInv, TablesType
  <1>4. /\ BulksOk(g)
        /\ Holders(g, v) = Holding(v) \ left
        /\ \A w : w # v => Holders(g, w) = Holding(w)
    BY <1>3, LeftByFacts, BulkWithoutFacts
  <1>5. DOMAIN g \subseteq DOMAIN f
    BY DEF BulkWithout
  <1>6. /\ DOMAIN m_objectIdsMap' = DOMAIN m_objectIdsMap \ {v}
        /\ DOMAIN wanted' = DOMAIN wanted \ {v}
        /\ \A w \in DOMAIN m_objectIdsMap' : m_objectIdsMap'[w] = m_objectIdsMap[w]
        /\ \A w \in DOMAIN wanted' : wanted'[w] = wanted[w]
    BY <1>1 DEF Without
  <1> HIDE DEF g
  <1>7. TablesType'
    <2>1. ~m_counterContext => DOMAIN g = {} /\ m_prefixes = {}
      BY <1>5 DEF TablesInv, TablesType
    <2>2. \A w \in DOMAIN m_objectIdsMap' : w \in Vid /\ m_objectIdsMap'[w] \subseteq Stat
      BY <1>6 DEF TablesInv, TablesType
    <2>3. m_prefixes \in Configs /\ gone \subseteq Vid /\ DOMAIN wanted' \subseteq Vid
      BY <1>6 DEF TablesInv, TablesType
    <2> QED
      BY <1>1, <1>2, <1>4, <2>1, <2>2, <2>3 DEF TablesType, g
  <1>8. ASSUME ~careless PROVE Tidy'
    <2>0. \A w : Holding(w) = Holders(f, w)
      BY DEF Holding, Holders
    <2>1. Tidy
      BY <1>1, <1>8 DEF TablesInv
    <2>2. left = Holding(v)
      BY <2>0, <2>1, LeftByFacts DEF Tidy
    <2>3. Holders(g, v) = {} /\ \A w : w # v => Holders(g, w) = Holders(f, w)
      BY <1>4, <2>0, <2>2
    <2>4. m_prefixes = {} => \A w : \A p, q \in Holders(g, w) : p = q
      BY <2>1, <2>3 DEF Tidy
    <2>5. \A w : w \in DOMAIN m_objectIdsMap' \/ Holders(g, w) # {} => w \in DOMAIN wanted'
      BY <1>6, <2>1, <2>3 DEF Tidy
    <2>6. \A w \in DOMAIN wanted' \ gone : \A s \in wanted'[w] :
            \/ s \in UNION Holders(g, w)
            \/ w \in DOMAIN m_objectIdsMap' /\ s \in m_objectIdsMap'[w]
      BY <1>6, <2>1, <2>3 DEF Tidy
    <2> QED
      BY <1>1, <1>2, <2>4, <2>5, <2>6 DEF Tidy, g
  <1> QED
    BY <1>1, <1>7, <1>8 DEF TablesInv

\* An add that returns early leaves the tables alone.
LEMMA AddNothingTables ==
    ASSUME TablesInv, AddNothing, UNCHANGED careless
    PROVE  TablesInv'
  <1>1. /\ m_flexCounters # "ending" /\ m_flexCounters' \in {"up", "ending"}
        /\ m_counterContext'
        /\ UNCHANGED <<m_prefixes, m_objectIdsMap, m_bulkContexts, gone, wanted, careless>>
    BY DEF AddNothing, GetInstance, EndIfDiscarded
  <1>2. TablesType'
    BY <1>1 DEF TablesInv, TablesType, Empty
  <1>3. Tidy => Tidy'
    BY <1>1 DEF Tidy
  <1> QED
    BY <1>1, <1>2, <1>3 DEF TablesInv

\* addObject: the object leaves what polled it and is polled for what was asked,
\* alone or in the bulks of the parts of its counters.
LEMMA AddCounterTables ==
    ASSUME TablesInv, NEW v \in Vid, NEW ids \in SUBSET Stat, NEW bulk \in BOOLEAN,
           AddCounter(v, ids, bulk), UNCHANGED careless
    PROVE  TablesInv'
  <1> DEFINE f == m_bulkContexts
             parts == Parts(ids, m_prefixes)
             S == [p \in parts |-> {v}]
  <1>1. /\ m_flexCounters # "ending" /\ m_flexCounters' \in {"up", "ending"}
        /\ m_counterContext' /\ wanted' = With(wanted, {v}, ids)
        /\ UNCHANGED <<m_prefixes, gone, careless>>
    BY DEF AddCounter, GetInstance, EndIfDiscarded
  <1>2. PICK left \in LeftBy(v) :
            IF bulk
            THEN /\ m_bulkContexts' = AddBulk(BulkWithout(v, left), S, ids)
                 /\ m_objectIdsMap' = Without(m_objectIdsMap, {v})
            ELSE /\ m_bulkContexts' = BulkWithout(v, left)
                 /\ m_objectIdsMap' = With(m_objectIdsMap, {v}, ids)
    BY DEF AddCounter
  <1> DEFINE f0 == BulkWithout(v, left)
  <1>3. BulksOk(f) /\ ids \subseteq Stat
    BY StatAssumption DEF TablesInv, TablesType
  <1>4. /\ BulksOk(f0)
        /\ Holders(f0, v) = Holding(v) \ left
        /\ \A w : w # v => Holders(f0, w) = Holding(w)
    BY <1>3, LeftByFacts, BulkWithoutFacts
  <1>5. /\ parts \subseteq SUBSET ids
        /\ ids \subseteq UNION parts
        /\ m_prefixes = {} => parts = {ids}
    BY PartsFacts
  <1>6. DOMAIN S = parts /\ \A p \in parts : p \in SUBSET Stat /\ S[p] = {v} /\ S[p] \subseteq Vid
    BY <1>3, <1>5
  <1>7. /\ DOMAIN wanted' = DOMAIN wanted \cup {v} /\ wanted'[v] = ids
        /\ \A w \in DOMAIN wanted : w # v => wanted'[w] = wanted[w]
    BY <1>1 DEF With
  <1> HIDE DEF f0, S, parts
  <1>8. /\ BulksOk(AddBulk(f0, S, ids))
        /\ \A w : Holders(AddBulk(f0, S, ids), w) = Holders(f0, w) \cup {p \in DOMAIN S : w \in S[p]}
    BY <1>4, <1>6, AddBulkFacts
  <1> DEFINE own == IF bulk THEN parts ELSE {}
  <1>9. /\ BulksOk(m_bulkContexts')
        /\ Holders(m_bulkContexts', v) = (Holding(v) \ left) \cup own
        /\ \A w : w # v => Holders(m_bulkContexts', w) = Holding(w)
    <2>1. CASE bulk
      <3>1. m_bulkContexts' = AddBulk(f0, S, ids)
        BY <1>2, <2>1 DEF f0, S
      <3>2. {p \in DOMAIN S : v \in S[p]} = parts /\ \A w : w # v => {p \in DOMAIN S : w \in S[p]} = {}
        BY <1>6
      <3> QED
        BY <1>4, <1>8, <2>1, <3>1, <3>2
    <2>2. CASE ~bulk
      BY <1>2, <1>4, <2>2 DEF f0
    <2> QED
      BY <2>1, <2>2
  <1>10. /\ DOMAIN m_objectIdsMap' = IF bulk THEN DOMAIN m_objectIdsMap \ {v} ELSE DOMAIN m_objectIdsMap \cup {v}
         /\ ~bulk => m_objectIdsMap'[v] = ids
         /\ \A w \in DOMAIN m_objectIdsMap : w # v => m_objectIdsMap'[w] = m_objectIdsMap[w]
    BY <1>2 DEF Without, With
  <1>11. TablesType'
    <2>1. \A w \in DOMAIN m_objectIdsMap' : w \in Vid /\ m_objectIdsMap'[w] \subseteq Stat
      BY <1>3, <1>10 DEF TablesInv, TablesType
    <2>2. m_prefixes' \in Configs /\ gone' \subseteq Vid /\ DOMAIN wanted' \subseteq Vid
      BY <1>1, <1>7 DEF TablesInv, TablesType
    <2> QED
      BY <1>1, <1>9, <2>1, <2>2 DEF TablesType
  <1>12. ASSUME ~careless PROVE Tidy'
    <2>0. \A w : Holding(w) = Holders(f, w)
      BY DEF Holding, Holders
    <2>1. Tidy
      BY <1>1, <1>12 DEF TablesInv
    <2>2. left = Holding(v)
      BY <2>0, <2>1, LeftByFacts DEF Tidy
    <2>3. /\ Holders(m_bulkContexts', v) = own
          /\ \A w : w # v => Holders(m_bulkContexts', w) = Holders(f, w)
      BY <1>9, <2>0, <2>2
    <2>4. m_prefixes = {} => \A w : \A p, q \in Holders(m_bulkContexts', w) : p = q
      BY <1>5, <2>1, <2>3 DEF Tidy
    <2>5. \A w : w \in DOMAIN m_objectIdsMap' \/ Holders(m_bulkContexts', w) # {} => w \in DOMAIN wanted'
      BY <1>7, <1>10, <2>1, <2>3 DEF Tidy
    <2>6. ASSUME NEW w \in DOMAIN wanted' \ gone, NEW s \in wanted'[w]
          PROVE  \/ s \in UNION Holders(m_bulkContexts', w)
                 \/ w \in DOMAIN m_objectIdsMap' /\ s \in m_objectIdsMap'[w]
      <3>1. CASE w = v
        BY <1>5, <1>7, <1>10, <2>3, <3>1
      <3>2. CASE w # v
        <4>1. w \in DOMAIN wanted \ gone /\ s \in wanted[w]
          BY <1>7, <3>2
        <4> QED
          BY <1>10, <2>1, <2>3, <3>2, <4>1 DEF Tidy
      <3> QED
        BY <3>1, <3>2
    <2> QED
      BY <1>1, <2>4, <2>5, <2>6 DEF Tidy
  <1> QED
    BY <1>1, <1>11, <1>12 DEF TablesInv

\* The counters the vendor answers for are those of the parts it answers for, or
\* all when it refuses a bulk and answers single reads.
LEMMA AcceptedFacts ==
    ASSUME NEW v, NEW ids, NEW ok, NEW read,
           NEW s \in Accepted(v, ids, ok, read)
    PROVE  \/ \E p \in DOMAIN read : s \in p /\ v \in read[p]
           \/ \E p \in DOMAIN ok : s \in p /\ v \in ok[p]
           \/ s \in ids /\ \E p \in DOMAIN ok : v \in read[p]
  <1> DEFINE own == {p \in DOMAIN read : v \in read[p] \/ (p \in DOMAIN ok /\ v \in ok[p])}
             all == {t \in ids : \E p \in DOMAIN ok : v \in read[p]}
  <1>0. Accepted(v, ids, ok, read) = (UNION own) \cup all
    BY DEF Accepted
  <1>1. s \in UNION own \/ s \in all
    <2> HIDE DEF own, all
    <2> QED
      BY <1>0
  <1>2. CASE s \in UNION own
    BY <1>2
  <1>3. CASE s \in all
    BY <1>3
  <1> QED
    BY <1>1, <1>2, <1>3

\* bulkAddObject: every part of the counters the vendor answers for is polled in a
\* bulk, or alone.
LEMMA BulkAddTables ==
    ASSUME TablesInv, ~careless, NEW S \in SUBSET Vid, NEW ids \in SUBSET Stat,
           NEW ok \in OkChoices(S, ids), NEW read \in ReadChoices(S, ids, ok),
           BulkAddCounter(ids, ok, read), careless' = ~CarefulAdd(S, ids)
    PROVE  TablesInv'
  <1> DEFINE f == m_bulkContexts
             parts == Parts(ids, m_prefixes)
             single == Single(ids)
             alone == UNION {read[p] : p \in single}
             refused == UNION {read[p] : p \in DOMAIN ok}
             added == alone \cup refused \cup UNION {ok[p] : p \in DOMAIN ok}
  <1>1. /\ m_flexCounters # "ending" /\ m_flexCounters' \in {"up", "ending"}
        /\ m_counterContext'
        /\ UNCHANGED <<m_prefixes, gone>>
        /\ m_bulkContexts' = AddBulk(f, ok, ids)
    BY DEF BulkAddCounter, GetInstance, EndIfDiscarded
  <1>2. PICK last \in [alone -> single] :
            /\ \A v \in alone : last[v] \in LastOf({p \in single : v \in read[p]}, Default(ids, m_prefixes))
            /\ m_objectIdsMap' =
                [v \in DOMAIN m_objectIdsMap \cup alone \cup refused |->
                    IF v \in refused THEN ids ELSE IF v \in alone THEN last[v] ELSE m_objectIdsMap[v]]
    BY DEF BulkAddCounter
  <1>3. BulksOk(f) /\ single \subseteq parts
    BY DEF TablesInv, TablesType, Single
  <1>4. /\ parts \subseteq SUBSET ids
        /\ m_prefixes = {} => parts = {ids}
    BY PartsFacts
  <1>5. /\ DOMAIN ok = parts \ single /\ DOMAIN read = parts
        /\ \A p \in DOMAIN ok : ok[p] \subseteq S
        /\ \A p \in parts : read[p] \subseteq S
    BY DEF OkChoices, ReadChoices
  <1>6. alone \subseteq S /\ refused \subseteq S /\ added \subseteq S
    BY <1>3, <1>5
  <1>7. /\ DOMAIN wanted' = DOMAIN wanted \cup added
        /\ \A w \in added : wanted'[w] = Accepted(w, ids, ok, read)
        /\ \A w \in DOMAIN wanted \ added : wanted'[w] = wanted[w]
    <2>1. wanted' = [v \in DOMAIN wanted \cup added |->
                        IF v \in added THEN Accepted(v, ids, ok, read) ELSE wanted[v]]
      BY DEF BulkAddCounter
    <2> HIDE DEF added
    <2> QED
      BY <2>1
  <1>8. /\ \A p \in single : read[p] \subseteq alone
        /\ \A p \in DOMAIN ok : read[p] \subseteq refused /\ ok[p] \subseteq added
        /\ alone \subseteq added /\ refused \subseteq added
    OBVIOUS
  <1> HIDE DEF parts, single, alone, refused, added
  <1>9. /\ BulksOk(m_bulkContexts')
        /\ \A w : Holders(m_bulkContexts', w) = Holders(f, w) \cup {p \in DOMAIN ok : w \in ok[p]}
    <2>1. \A p \in DOMAIN ok : p \in SUBSET Stat /\ ok[p] \subseteq Vid
      BY <1>4, <1>5
    <2> QED
      BY <1>1, <1>3, <2>1, AddBulkFacts
  <1>10. /\ DOMAIN m_objectIdsMap' = DOMAIN m_objectIdsMap \cup alone \cup refused
         /\ \A w \in refused : m_objectIdsMap'[w] = ids
         /\ \A w \in alone \ refused : m_objectIdsMap'[w] = last[w] /\ last[w] \in single
         /\ \A w \in DOMAIN m_objectIdsMap \ (alone \cup refused) : m_objectIdsMap'[w] = m_objectIdsMap[w]
    BY <1>2
  <1>11. TablesType'
    <2>1. ASSUME NEW w \in DOMAIN m_objectIdsMap' PROVE w \in Vid /\ m_objectIdsMap'[w] \subseteq Stat
      <3>1. w \in Vid
        BY <1>6, <1>10 DEF TablesInv, TablesType
      <3>2. CASE w \in refused
        BY <1>10, <3>1, <3>2
      <3>3. CASE w \in alone \ refused
        <4>1. last[w] \in SUBSET ids
          BY <1>3, <1>4, <1>10, <3>3
        <4> QED
          BY <1>10, <3>1, <3>3, <4>1
      <3>4. CASE w \notin alone \cup refused
        BY <1>10, <3>1, <3>4 DEF TablesInv, TablesType
      <3> QED
        BY <3>2, <3>3, <3>4
    <2>2. m_prefixes' \in Configs /\ gone' \subseteq Vid /\ DOMAIN wanted' \subseteq Vid
      BY <1>1, <1>6, <1>7 DEF TablesInv, TablesType
    <2> QED
      BY <1>1, <1>9, <2>1, <2>2 DEF TablesType
  <1>12. ASSUME ~careless' PROVE Tidy'
    <2>1. Tidy
      BY <1>1 DEF TablesInv
    <2>2. S \cap DOMAIN wanted = {} /\ \A p, q \in single : p = q
      BY <1>12 DEF CarefulAdd, single
    <2>3. \A w \in S : Holders(f, w) = {} /\ w \notin DOMAIN m_objectIdsMap
      BY <2>1, <2>2 DEF Tidy
    <2>4. \A w : w \notin S => Holders(m_bulkContexts', w) = Holders(f, w)
      BY <1>5, <1>9
    <2>5. \A w \in S : Holders(m_bulkContexts', w) = {p \in DOMAIN ok : w \in ok[p]}
      BY <1>9, <2>3
    <2>6. ASSUME m_prefixes = {}, NEW w, NEW p \in Holders(m_bulkContexts', w),
                 NEW q \in Holders(m_bulkContexts', w)
          PROVE  p = q
      <3>1. CASE w \in S
        BY <1>4, <1>5, <2>5, <2>6, <3>1
      <3>2. CASE w \notin S
        BY <2>1, <2>4, <2>6, <3>2 DEF Tidy
      <3> QED
        BY <3>1, <3>2
    <2>7. ASSUME NEW w, w \in DOMAIN m_objectIdsMap' \/ Holders(m_bulkContexts', w) # {}
          PROVE  w \in DOMAIN wanted'
      <3>1. CASE w \in DOMAIN m_objectIdsMap \/ Holders(f, w) # {}
        BY <1>7, <2>1, <3>1 DEF Tidy
      <3>2. CASE w \in alone \cup refused \/ \E p \in DOMAIN ok : w \in ok[p]
        BY <1>7, <1>8, <3>2
      <3> QED
        BY <1>9, <1>10, <2>7, <3>1, <3>2
    <2>8. ASSUME NEW w \in DOMAIN wanted' \ gone, NEW s \in wanted'[w]
          PROVE  \/ s \in UNION Holders(m_bulkContexts', w)
                 \/ w \in DOMAIN m_objectIdsMap' /\ s \in m_objectIdsMap'[w]
      <3>1. CASE w \notin added
        <4>1. w \in DOMAIN wanted \ gone /\ s \in wanted[w] /\ w \notin S
          BY <1>7, <2>2, <3>1
        <4> QED
          BY <1>6, <1>10, <2>1, <2>4, <4>1 DEF Tidy
      <3>2. CASE w \in added
        <4>1. w \in S /\ s \in Accepted(w, ids, ok, read)
          BY <1>6, <1>7, <3>2
        <4>2. \/ \E p \in DOMAIN read : s \in p /\ w \in read[p]
              \/ \E p \in DOMAIN ok : s \in p /\ w \in ok[p]
              \/ s \in ids /\ \E p \in DOMAIN ok : w \in read[p]
          BY <4>1, AcceptedFacts
        <4>3. CASE w \in refused
          <5>1. s \in ids
            BY <1>4, <1>5, <4>2
          <5> QED
            BY <1>10, <4>3, <5>1
        <4>4. CASE \E p \in DOMAIN ok : s \in p /\ w \in ok[p]
          BY <2>5, <4>1, <4>4
        <4>5. CASE w \notin refused /\ \E p \in DOMAIN read : s \in p /\ w \in read[p]
          <5>1. PICK p \in single : s \in p /\ w \in read[p]
            BY <1>5, <1>8, <4>5
          <5>2. w \in alone /\ last[w] = p
            BY <1>8, <1>10, <2>2, <4>5, <5>1
          <5> QED
            BY <1>10, <4>5, <5>1, <5>2
        <4> QED
          BY <1>8, <4>2, <4>3, <4>4, <4>5
      <3> QED
        BY <3>1, <3>2
    <2> QED
      BY <1>1, <2>6, <2>7, <2>8 DEF Tidy
  <1> QED
    BY <1>1, <1>11, <1>12 DEF TablesInv

--------------------------------------------------------------------------------
(* The specification                                                       *)

\* Every step keeps the invariant of the tables.
LEMMA StepKeepsTables ==
    ASSUME TablesInv, [Next]_vars
    PROVE  TablesInv'
  <1>1. CASE ThreadNext \/ UNCHANGED vars
    <2>1. UNCHANGED <<m_flexCounters, m_counterContext, m_prefixes, m_objectIdsMap, m_bulkContexts,
                      gone, wanted, careless>>
      BY <1>1 DEF ThreadNext, LoopTop, NothingToPoll, WakeUp, WaitPoll, Connect, Poll, ThreadUnchanged,
                  vars, group
    <2>2. TablesType'
      BY <2>1 DEF TablesInv, TablesType, Empty
    <2>3. Tidy => Tidy'
      BY <2>1 DEF Tidy
    <2> QED
      BY <2>1, <2>2, <2>3 DEF TablesInv
  <1>2. CASE MainNext
    <2>0. \A asked \in Lists : Supported(asked) \subseteq SUBSET Stat
      BY StatAssumption DEF Supported
    <2>1. ASSUME NEW v \in Vid, NEW ids \in SUBSET Stat, NEW bulk \in BOOLEAN, AddCounter(v, ids, bulk),
                 UNCHANGED careless
          PROVE  TablesInv'
      BY <2>1, AddCounterTables
    <2>1a. CASE AddNothing /\ UNCHANGED careless
      BY <2>1a, AddNothingTables
    <2>2. ASSUME ~careless, NEW S \in SUBSET Vid, NEW ids \in SUBSET Stat,
                 NEW ok \in OkChoices(S, ids), NEW read \in ReadChoices(S, ids, ok),
                 BulkAddCounter(ids, ok, read), careless' = ~CarefulAdd(S, ids)
          PROVE  TablesInv'
      BY <2>2, BulkAddTables
    <2>3. ASSUME ~careless, NEW pf \in Configs, NEW valid \in BOOLEAN, NEW plugin \in BOOLEAN,
                 SetPrefixes(pf, valid, plugin), careless' = ~CarefulPrefixes(pf, valid)
          PROVE  TablesInv'
      BY <2>3, SetPrefixesTables
    <2>4. ASSUME NEW enable, SetStatus(enable), UNCHANGED careless PROVE TablesInv'
      BY <2>4, SetStatusTables
    <2>5. ASSUME NEW v \in Vid, ObjectRemoved(v), UNCHANGED careless PROVE TablesInv'
      BY <2>5, ObjectRemovedTables
    <2>6. ASSUME NEW v \in Vid, RemoveCounter(v), UNCHANGED careless PROVE TablesInv'
      BY <2>6, RemoveCounterTables
    <2>7. CASE (RemoveCounterPlugins \/ RemoveAllCounters) /\ UNCHANGED careless
      BY <2>7, RemovePluginsTables, RemoveAllTables
    <2>8. CASE Joined
      BY <2>8, JoinedTables
    <2> QED
      BY <1>2, <2>0, <2>1, <2>1a, <2>2, <2>3, <2>4, <2>5, <2>6, <2>7, <2>8 DEF MainNext
  <1> QED
    BY <1>1, <1>2 DEF Next

\* The tables are as the invariant says in every state.
THEOREM TablesInvariant == Spec => []TablesInv
  <1>1. Init => TablesInv
    <2> SUFFICES ASSUME Init PROVE TablesInv
      OBVIOUS
    <2>1. DOMAIN m_objectIdsMap = {} /\ DOMAIN m_bulkContexts = {} /\ DOMAIN wanted = {}
      BY DEF Init
    <2>2. BulksOk(m_bulkContexts)
      BY <2>1 DEF BulksOk
    <2>3. TablesType
      BY <2>1, <2>2 DEF Init, TablesType, Empty, Configs
    <2>4. Tidy
      BY <2>1 DEF Tidy, Holders
    <2> QED
      BY <2>3, <2>4 DEF TablesInv
  <1>2. TablesInv /\ [Next]_vars => TablesInv'
    BY StepKeepsTables
  <1> QED
    BY <1>1, <1>2, PTL DEF Spec

\* The objects and the keys of a bulk stay in step: the counters that a bulk
\* reads are stored under the object they belong to (removeBulkStatsContext).
THEOREM BulksStayInStep == Spec => []BulkInStep
  <1>1. TablesInv => BulkInStep
    <2> SUFFICES ASSUME TablesInv, NEW p \in DOMAIN m_bulkContexts
                 PROVE  LET c == m_bulkContexts[p] IN
                        /\ Len(c.vids) = Len(c.keys) /\ Len(c.vids) > 0
                        /\ Cardinality(ToSet(c.vids)) = Len(c.vids)
                        /\ \A i \in DOMAIN c.vids : c.keys[i] \in {c.vids[i], NoRid}
      BY DEF BulkInStep
    <2> DEFINE c == m_bulkContexts[p]
    <2>1. InStep(c) /\ ToSet(c.vids) # {}
      BY DEF TablesInv, TablesType, BulksOk
    <2>2. c.vids \in Seq(Vid) /\ IsInjective(c.vids)
      BY <2>1 DEF InStep
    <2>3. Cardinality(ToSet(c.vids)) = Len(c.vids)
      BY <2>2, DistinctCount
    <2>4. Len(c.vids) > 0 /\ DOMAIN c.vids = 1..Len(c.vids)
      BY <2>1, <2>2, ElementsFacts
    <2> HIDE DEF c
    <2>5. /\ Len(c.vids) = Len(c.keys)
          /\ \A i \in DOMAIN c.vids : c.keys[i] \in {c.vids[i], NoRid}
      BY <2>1, <2>4 DEF InStep
    <2> QED
      BY <2>3, <2>4, <2>5 DEF c
  <1> QED
    BY <1>1, TablesInvariant, PTL

\* While the calls are those the tables are made for, nothing is polled that was
\* not added or that has been removed since (removeObject).
THEOREM RemovedStaysRemoved == Spec => []RemovedIsNotPolled
  <1>1. TablesInv => RemovedIsNotPolled
    <2> SUFFICES ASSUME TablesInv, m_flexCounters = "up", ~careless, NEW v \in Polled
                 PROVE  v \in DOMAIN wanted
      BY DEF RemovedIsNotPolled
    <2>1. Tidy
      BY DEF TablesInv
    <2>2. v \in DOMAIN m_objectIdsMap \/ Holders(m_bulkContexts, v) # {}
      BY DEF Polled, Vids, Holders
    <2> QED
      BY <2>1, <2>2 DEF Tidy
  <1> QED
    BY <1>1, TablesInvariant, PTL

\* While the calls are those the tables are made for, every counter that was
\* asked for and that the vendor supports and answered for is polled, through
\* splits and merges of the bulks and calls that add nothing
\* (setBulkChunkSizePerPrefix, addObject, bulkAddObject).
THEOREM AddedStaysPolled == Spec => []AddedIsPolled
  <1>1. TablesInv => AddedIsPolled
    <2> SUFFICES ASSUME TablesInv, m_flexCounters = "up", ~careless,
                        NEW v \in DOMAIN wanted \ gone, NEW s \in wanted[v]
                 PROVE  s \in PolledStats(v)
      BY DEF AddedIsPolled
    <2>1. \/ s \in UNION Holding(v)
          \/ v \in DOMAIN m_objectIdsMap /\ s \in m_objectIdsMap[v]
      BY DEF TablesInv, Tidy, Holders, Holding
    <2> QED
      BY <2>1 DEF PolledStats
  <1> QED
    BY <1>1, TablesInvariant, PTL

\* The flags of the group and the place of its thread.
Flags ==
    /\ m_enable \in BOOLEAN /\ m_isDiscarded \in BOOLEAN /\ m_counterContext \in BOOLEAN
    /\ m_readyToPoll \in BOOLEAN /\ connected \in BOOLEAN /\ careless \in BOOLEAN
    /\ pc \in {"top", "connect", "lock", "sleep", "wait", "ended"}

\* Every variable has its type in every state.
THEOREM TypeCorrect == Spec => []TypeOK
  <1>1. Init => Flags
    BY DEF Init, Flags
  <1>2. Flags /\ [Next]_vars => Flags'
    <2> SUFFICES ASSUME Flags, [Next]_vars PROVE Flags'
      OBVIOUS
    <2>1. ASSUME ThreadNext PROVE Flags'
      <3>1. UNCHANGED <<m_enable, m_isDiscarded, m_counterContext, careless>>
        BY <2>1 DEF ThreadNext, LoopTop, NothingToPoll, WakeUp, WaitPoll, Connect, Poll, ThreadUnchanged, group
      <3>2. m_readyToPoll' \in BOOLEAN /\ connected' \in BOOLEAN
            /\ pc' \in {"top", "connect", "lock", "sleep", "wait", "ended"}
        BY <2>1 DEF ThreadNext, LoopTop, NothingToPoll, WakeUp, WaitPoll, Connect, Poll, Flags
      <3> QED
        BY <3>1, <3>2 DEF Flags
    <2>2. ASSUME NEW enable \in BOOLEAN, SetStatus(enable), UNCHANGED careless PROVE Flags'
      BY <2>2 DEF SetStatus, GetInstance, NotifyPoll, Flags
    <2>3. ASSUME NEW v, NEW ids, NEW bulk, AddCounter(v, ids, bulk), UNCHANGED careless PROVE Flags'
      BY <2>3 DEF AddCounter, GetInstance, NotifyPoll, Flags
    <2>4. ASSUME NEW v, ObjectRemoved(v), UNCHANGED careless PROVE Flags'
      BY <2>4 DEF ObjectRemoved, group, thread, Flags
    <2>5. ASSUME NEW pf, NEW valid, NEW plugin, SetPrefixes(pf, valid, plugin), careless' \in BOOLEAN PROVE Flags'
      BY <2>5 DEF SetPrefixes, GetInstance, NotifyPoll, Flags
    <2>3a. ASSUME AddNothing, UNCHANGED careless PROVE Flags'
      BY <2>3a DEF AddNothing, GetInstance, NotifyPoll, Flags
    <2>6. ASSUME NEW ids, NEW ok, NEW read, BulkAddCounter(ids, ok, read), careless' \in BOOLEAN PROVE Flags'
      BY <2>6 DEF BulkAddCounter, GetInstance, NotifyPoll, Flags
    <2>7. ASSUME RemoveCounterPlugins, UNCHANGED careless PROVE Flags'
      BY <2>7 DEF RemoveCounterPlugins, GetInstance, NotifyPoll, Flags
    <2>8. ASSUME RemoveAllCounters, UNCHANGED careless PROVE Flags'
      BY <2>8 DEF RemoveAllCounters, group, NotifyPoll, Flags
    <2>9. ASSUME NEW v, RemoveCounter(v), UNCHANGED careless PROVE Flags'
      BY <2>9 DEF RemoveCounter, GetInstance, NotifyPoll, Flags
    <2>10. ASSUME Joined PROVE Flags'
      BY <2>10 DEF Joined, NewGroup, Flags
    <2>11. ASSUME UNCHANGED vars PROVE Flags'
      BY <2>11 DEF vars, group, thread, Flags
    <2>12. ASSUME MainNext PROVE Flags'
      <3>1. \A pf, valid : (~CarefulPrefixes(pf, valid)) \in BOOLEAN
        OBVIOUS
      <3>2. \A S, ids : (~CarefulAdd(S, ids)) \in BOOLEAN
        OBVIOUS
      <3> QED
        BY <2>2, <2>3, <2>3a, <2>4, <2>5, <2>6, <2>7, <2>8, <2>9, <2>10, <2>12, <3>1, <3>2 DEF MainNext
    <2> QED
      BY <2>1, <2>11, <2>12 DEF Next
  <1>3. Flags /\ TablesInv => TypeOK
    BY DEF Flags, TablesInv, TablesType, BulksOk, InStep, TypeOK
  <1> QED
    BY <1>1, <1>2, <1>3, TablesInvariant, PTL DEF Spec
================================================================================
