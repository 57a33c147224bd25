------------------------ MODULE OidTranslatorProofs ------------------------
(***************************************************************************)
(* The safety properties of OidTranslator for every set of RIDs, every     *)
(* number of VIDs and every number of waiting notifications.  None of them *)
(* is inductive alone: inserting a pair keeps the maps inverse only if     *)
(* neither half is mapped, which rests on how VIDs are drawn and on when   *)
(* the vendor may hand out a RID again.  IInv collects these facts.        *)
(***************************************************************************)
EXTENDS OidTranslator, FiniteSetTheorems, TLAPS

(* What the request in progress may rely on about its pairs.               *)
WorkInv ==
  /\ mainPc \in {"idle", "failed"} => \A r \in Rid : work[r] = NULL
  /\ mainPc \in {"erase", "throw"} => \A r \in Rid : work[r] # NULL => RIDTOVID[r] = work[r]
  /\ mainPc \in {"insert", "del", "fill"} =>
       /\ Injective(work)
       /\ \A r \in Rid : work[r] # NULL => /\ work[r] \notin requested
                                           /\ work[r] \notin retired
                                           /\ work[r] <= VIDCOUNTER
                                           /\ r \in live
  /\ mainPc \in {"insert", "fill"} =>
       \A r \in Rid : work[r] # NULL => RIDTOVID[r] = NULL /\ VIDTORID[work[r]] = NULL

(* A mapped RID is on the ASIC, or about to be erased, or the whole map is *)
(* about to be replaced, or a removal has thrown.                          *)
LiveInv ==
  \A r \in Rid : RIDTOVID[r] # NULL =>
    \/ r \in live
    \/ mainPc \in {"erase", "throw"} /\ work[r] # NULL
    \/ mainPc \in {"del", "failed"}

(* VIDs not drawn yet, drawn but not created, and taken out of service are *)
(* three disjoint sets of unmapped VIDs.                                   *)
FreshInv ==
  /\ \A v \in Vid : v > VIDCOUNTER => VIDTORID[v] = NULL
  /\ \A v \in requested : VIDTORID[v] = NULL /\ v <= VIDCOUNTER /\ v \notin retired
  /\ \A v \in retired : v <= VIDCOUNTER
  /\ \A r \in Rid : m_removedRid2vid[r] # NULL => m_removedRid2vid[r] \in retired

NtfInv ==
  /\ ntf.pc = "checked" => mainPc \in {"idle", "failed"} /\ FindVid(ntf.rid, TRUE) # NULL
  /\ CheckedFdbTranslates

IInv ==
  /\ TypeOK
  /\ MapsInverse
  /\ CachesCoherent
  /\ WorkInv
  /\ LiveInv
  /\ FreshInv
  /\ VidsNotReused
  /\ NtfInv

(* Looking a VID up in InverseOver(f, g) inverts an injective f and falls  *)
(* back on g where f has no such value.                                    *)
LEMMA InverseOverFacts ==
  ASSUME NEW f \in [Rid -> VidOrNull], NEW g \in [Vid -> RidOrNull], Injective(f)
  PROVE  /\ InverseOver(f, g) \in [Vid -> RidOrNull]
         /\ \A r \in Rid : f[r] # NULL => InverseOver(f, g)[f[r]] = r
         /\ \A v \in Vid : (\A r \in Rid : f[r] # v) => InverseOver(f, g)[v] = g[v]
         /\ \A v \in Vid : \/ InverseOver(f, g)[v] = g[v]
                           \/ InverseOver(f, g)[v] \in Rid /\ f[InverseOver(f, g)[v]] = v
<1> USE MaxVidAssumption DEF NULL, Vid, VidOrNull, RidOrNull, InverseOver, Injective
<1>1. ASSUME NEW v \in Vid, NEW s \in Rid, f[s] = v
      PROVE  (CHOOSE r \in Rid : f[r] = v) = s
  BY <1>1
<1>2. ASSUME NEW v \in Vid
      PROVE  \/ InverseOver(f, g)[v] = g[v] /\ \A r \in Rid : f[r] # v
             \/ InverseOver(f, g)[v] \in Rid /\ f[InverseOver(f, g)[v]] = v
  <2>1. CASE \E r \in Rid : f[r] = v
    <3>1. PICK s \in Rid : f[s] = v
      BY <2>1
    <3>2. InverseOver(f, g)[v] = s
      BY <1>1, <3>1
    <3> QED BY <3>1, <3>2
  <2>2. CASE ~ \E r \in Rid : f[r] = v
    BY <2>2
  <2> QED BY <2>1, <2>2
<1>3. InverseOver(f, g) \in [Vid -> RidOrNull]
  <2>1. InverseOver(f, g) = [v \in Vid |-> InverseOver(f, g)[v]]
    OBVIOUS
  <2>2. \A v \in Vid : InverseOver(f, g)[v] \in RidOrNull
    BY <1>2
  <2> QED BY <2>1, <2>2
<1>4. ASSUME NEW r \in Rid, f[r] # NULL PROVE InverseOver(f, g)[f[r]] = r
  <2>1. f[r] \in Vid
    BY <1>4
  <2> QED BY <1>2, <1>4, <2>1
<1> QED BY <1>2, <1>3, <1>4


(* OA draws an id from the shared counter.                                 *)
LEMMA OaAllocatesStep ==
  ASSUME IInv, OaAllocates PROVE IInv'
<1> USE MaxVidAssumption, RidAssumption, KindAssumption
       DEF NULL, Vid, VidOrNull, RidOrNull, redis, cache, SyncdMutexFree, TakesRequest, Alive,
           IInv, TypeOK, MapsInverse, CachesCoherent, WorkInv, LiveInv, FreshInv,
           VidsNotReused, NtfInv, CheckedFdbTranslates, Injective, Idle, FindVid,
           NotificationKind, Notification
<1>1. TypeOK'
  <2>1. VIDCOUNTER' \in VidOrNull /\ VIDCOUNTER + 1 \in Vid
    BY DEF OaAllocates, DrawVids
  <2> QED BY <2>1 DEF OaAllocates
<1>2. MapsInverse'
  BY DEF OaAllocates, DrawVids
<1>3. CachesCoherent'
  BY DEF OaAllocates, DrawVids
<1>4. WorkInv'
  BY DEF OaAllocates, DrawVids
<1>5. LiveInv'
  BY DEF OaAllocates, DrawVids
<1>6. FreshInv'
  BY DEF OaAllocates, DrawVids
<1>7. VidsNotReused'
  BY DEF OaAllocates, DrawVids
<1>8. NtfInv'
  BY DEF OaAllocates, DrawVids
<1> QED BY <1>1, <1>2, <1>3, <1>4, <1>5, <1>6, <1>7, <1>8

(* A notification names a real id of the ASIC.                             *)
LEMMA VendorNotifiesStep ==
  ASSUME IInv, NEW k \in Kind, NEW r \in Rid, VendorNotifies(k, r) PROVE IInv'
<1>a. ntfs' \subseteq Notification
  BY KindAssumption DEF VendorNotifies, Notification, IInv, TypeOK
<1> USE MaxVidAssumption, RidAssumption, KindAssumption
       DEF NULL, Vid, VidOrNull, RidOrNull, redis, cache, SyncdMutexFree, TakesRequest, Alive,
           IInv, TypeOK, MapsInverse, CachesCoherent, WorkInv, LiveInv, FreshInv,
           VidsNotReused, NtfInv, CheckedFdbTranslates, Injective, Idle, FindVid,
           NotificationKind, Notification
<1>1. TypeOK'
  BY <1>a, Zenon DEF VendorNotifies, TypeOK
<1>2. MapsInverse'
  BY DEF VendorNotifies
<1>3. CachesCoherent'
  BY DEF VendorNotifies
<1>4. WorkInv'
  BY DEF VendorNotifies
<1>5. LiveInv'
  BY DEF VendorNotifies
<1>6. FreshInv'
  BY DEF VendorNotifies
<1>7. VidsNotReused'
  BY DEF VendorNotifies
<1>8. NtfInv'
  BY DEF VendorNotifies
<1> QED BY <1>1, <1>2, <1>3, <1>4, <1>5, <1>6, <1>7, <1>8

(* The vendor gives a new object a free real id.                           *)
LEMMA CreateOnAsicStep ==
  ASSUME IInv, NEW new \in [Rid -> VidOrNull], CreateOnAsic(new) PROVE IInv'
<1> USE MaxVidAssumption, RidAssumption, KindAssumption
       DEF NULL, Vid, VidOrNull, RidOrNull, redis, cache, SyncdMutexFree, TakesRequest, Alive,
           IInv, TypeOK, MapsInverse, CachesCoherent, WorkInv, LiveInv, FreshInv,
           VidsNotReused, NtfInv, CheckedFdbTranslates, Injective, Idle, FindVid,
           NotificationKind, Notification
<1>1. TypeOK'
  BY DEF CreateOnAsic, NoWork
<1>2. MapsInverse'
  BY DEF CreateOnAsic, NoWork
<1>3. CachesCoherent'
  BY DEF CreateOnAsic, NoWork
<1>4. WorkInv'
  BY DEF CreateOnAsic, NoWork
<1>5. LiveInv'
  BY DEF CreateOnAsic, NoWork
<1>6. FreshInv'
  BY DEF CreateOnAsic, NoWork
<1>7. VidsNotReused'
  BY DEF CreateOnAsic, NoWork
<1>8. NtfInv'
  BY DEF CreateOnAsic, NoWork
<1> QED BY <1>1, <1>2, <1>3, <1>4, <1>5, <1>6, <1>7, <1>8

(* Neither half of an inserted pair is mapped yet, in the hashes or, by    *)
(* coherence, in the caches.                                               *)
LEMMA InsertStep ==
  ASSUME IInv, InsertRidsAndVids PROVE IInv'
<1>h. /\ work \in [Rid -> VidOrNull] /\ Injective(work)
      /\ VIDTORID \in [Vid -> RidOrNull] /\ m_vid2rid \in [Vid -> RidOrNull]
  BY DEF IInv, TypeOK, WorkInv, InsertRidsAndVids
<1>a. /\ RIDTOVID' = Overlay(work, RIDTOVID) /\ m_rid2vid' = Overlay(work, m_rid2vid)
      /\ VIDTORID' = InverseOver(work, VIDTORID) /\ m_vid2rid' = InverseOver(work, m_vid2rid)
      /\ mainPc = "insert" /\ mainPc' = "idle" /\ work' = NoWork
      /\ UNCHANGED <<VIDCOUNTER, m_removedRid2vid, live, requested, ntfs, ntf, retired>>
  BY DEF InsertRidsAndVids
<1>b. /\ VIDTORID' \in [Vid -> RidOrNull]
      /\ \A r \in Rid : work[r] # NULL => VIDTORID'[work[r]] = r
      /\ \A v \in Vid : (\A r \in Rid : work[r] # v) => VIDTORID'[v] = VIDTORID[v]
      /\ \A v \in Vid : \/ VIDTORID'[v] = VIDTORID[v]
                        \/ VIDTORID'[v] \in Rid /\ work[VIDTORID'[v]] = v
  BY <1>a, <1>h, InverseOverFacts
<1>c. /\ m_vid2rid' \in [Vid -> RidOrNull]
      /\ \A r \in Rid : work[r] # NULL => m_vid2rid'[work[r]] = r
      /\ \A v \in Vid : \/ m_vid2rid'[v] = m_vid2rid[v]
                        \/ m_vid2rid'[v] \in Rid /\ work[m_vid2rid'[v]] = v
  BY <1>a, <1>h, InverseOverFacts
<1> USE MaxVidAssumption, RidAssumption, KindAssumption
       DEF NULL, Vid, VidOrNull, RidOrNull, redis, cache, SyncdMutexFree, TakesRequest, Alive,
           IInv, TypeOK, MapsInverse, CachesCoherent, WorkInv, LiveInv, FreshInv,
           VidsNotReused, NtfInv, CheckedFdbTranslates, Injective, Idle, FindVid,
           NotificationKind, Notification
<1>d. \A r \in Rid : /\ RIDTOVID'[r] = IF work[r] # NULL THEN work[r] ELSE RIDTOVID[r]
                     /\ m_rid2vid'[r] = IF work[r] # NULL THEN work[r] ELSE m_rid2vid[r]
  BY <1>a DEF Overlay
<1>1. TypeOK'
  BY <1>a, <1>b, <1>c, <1>d DEF NoWork, Overlay
<1>2. MapsInverse'
  BY <1>a, <1>b, <1>c, <1>d DEF NoWork, Overlay
<1>3. CachesCoherent'
  <2>1. ASSUME NEW v \in Vid, m_vid2rid'[v] # NULL PROVE m_vid2rid'[v] = VIDTORID'[v]
    <3>1. CASE m_vid2rid'[v] \in Rid /\ work[m_vid2rid'[v]] = v
      BY <1>b, <3>1
    <3>2. CASE m_vid2rid'[v] = m_vid2rid[v]
      <4>1. VIDTORID[v] # NULL /\ VIDTORID[v] = m_vid2rid[v]
        BY <1>a, <2>1, <3>2
      <4>2. \A r \in Rid : work[r] # v
        BY <1>a, <4>1
      <4> QED BY <1>b, <3>2, <4>1, <4>2
    <3> QED BY <1>c, <3>1, <3>2
  <2>2. \A r \in Rid : m_rid2vid'[r] # NULL => m_rid2vid'[r] = RIDTOVID'[r]
    BY <1>a, <1>d
  <2> QED BY <2>1, <2>2
<1>4. WorkInv'
  BY <1>a, <1>b, <1>c, <1>d DEF NoWork, Overlay
<1>5. LiveInv'
  BY <1>a, <1>b, <1>c, <1>d DEF NoWork, Overlay
<1>6. FreshInv'
  BY <1>a, <1>b, <1>c, <1>d DEF NoWork, Overlay
<1>7. VidsNotReused'
  BY <1>a, <1>b, <1>c, <1>d DEF NoWork, Overlay
<1>8. NtfInv'
  BY <1>a, <1>b, <1>c, <1>d DEF NoWork, Overlay
<1> QED BY <1>1, <1>2, <1>3, <1>4, <1>5, <1>6, <1>7, <1>8

(* A pair leaves the hashes and the caches.                                *)
LEMMA EraseStep ==
  ASSUME IInv, NEW r \in Rid, EraseRidAndVid(r) PROVE IInv'
<1> USE MaxVidAssumption, RidAssumption, KindAssumption
       DEF NULL, Vid, VidOrNull, RidOrNull, redis, cache, SyncdMutexFree, TakesRequest, Alive,
           IInv, TypeOK, MapsInverse, CachesCoherent, WorkInv, LiveInv, FreshInv,
           VidsNotReused, NtfInv, CheckedFdbTranslates, Injective, Idle, FindVid,
           NotificationKind, Notification
<1>a. work[r] \in Vid /\ RIDTOVID[r] = work[r] /\ VIDTORID[work[r]] = r
  BY DEF EraseRidAndVid
<1>1. TypeOK'
  <2>1. VIDTORID' \in [Vid -> RidOrNull] /\ m_vid2rid' \in [Vid -> RidOrNull]
    BY <1>a DEF EraseRidAndVid
  <2>2. /\ RIDTOVID' \in [Rid -> VidOrNull] /\ m_rid2vid' \in [Rid -> VidOrNull]
        /\ m_removedRid2vid' \in [Rid -> VidOrNull] /\ work' \in [Rid -> VidOrNull]
    BY <1>a DEF EraseRidAndVid
  <2>3. retired' \subseteq Vid
    BY <1>a DEF EraseRidAndVid
  <2> QED BY <2>1, <2>2, <2>3 DEF EraseRidAndVid
<1>2. MapsInverse'
  BY <1>a DEF EraseRidAndVid
<1>3. CachesCoherent'
  BY <1>a DEF EraseRidAndVid
<1>4. WorkInv'
  BY <1>a DEF EraseRidAndVid
<1>5. LiveInv'
  BY <1>a DEF EraseRidAndVid
<1>6. FreshInv'
  BY <1>a DEF EraseRidAndVid
<1>7. VidsNotReused'
  BY <1>a DEF EraseRidAndVid
<1>8. NtfInv'
  BY <1>a DEF EraseRidAndVid
<1> QED BY <1>1, <1>2, <1>3, <1>4, <1>5, <1>6, <1>7, <1>8

(* Real ids are translated, with new virtual ids for those unknown.        *)
LEMMA TranslateRidsToVidsStep ==
  ASSUME IInv, NEW batch \in SUBSET Rid, NEW new \in [Rid -> VidOrNull],
         TranslateRidsToVids(batch, new)
  PROVE  IInv'
<1> DEFINE known == {r \in batch : RIDTOVID[r] # NULL \/ m_rid2vid[r] # NULL}
           n == Cardinality(batch \ known)
           found == [r \in Rid |-> IF r \notin batch THEN NULL
                                   ELSE IF RIDTOVID[r] # NULL THEN RIDTOVID[r]
                                   ELSE IF m_rid2vid[r] # NULL THEN m_rid2vid[r]
                                   ELSE new[r]]
<1>n. n \in Nat
  BY RidAssumption, FS_Subset, FS_CardinalityType
<1> HIDE DEF n
<1>h. /\ VIDTORID \in [Vid -> RidOrNull] /\ m_vid2rid \in [Vid -> RidOrNull]
      /\ RIDTOVID \in [Rid -> VidOrNull] /\ m_rid2vid \in [Rid -> VidOrNull]
      /\ VIDCOUNTER \in VidOrNull
  BY DEF IInv, TypeOK
<1>a. /\ VIDCOUNTER' = VIDCOUNTER + n /\ VIDCOUNTER + n <= MaxVid
      /\ Injective(new)
      /\ \A r \in Rid : new[r] # NULL <=> r \in batch /\ RIDTOVID[r] = NULL /\ m_rid2vid[r] = NULL
      /\ \A r \in Rid : new[r] # NULL => new[r] \in VIDCOUNTER + 1 .. VIDCOUNTER + n
      /\ VIDTORID' = InverseOver(new, VIDTORID) /\ RIDTOVID' = Overlay(new, RIDTOVID)
      /\ m_rid2vid' = Overlay(found, m_rid2vid) /\ m_vid2rid' = InverseOver(found, m_vid2rid)
      /\ mainPc = "idle" /\ ntf.pc = "idle" /\ batch \subseteq live
      /\ UNCHANGED <<m_removedRid2vid, live, requested, mainPc, work, ntfs, ntf, retired>>
  <2>1. {r \in Rid : new[r] # NULL} = batch \ known
    BY DEF TranslateRidsToVids
  <2>2. VIDCOUNTER' = VIDCOUNTER + n /\ VIDCOUNTER + n <= MaxVid
    BY DEF TranslateRidsToVids, DrawVids, n
  <2>3. \A r \in batch \ known : new[r] \in VIDCOUNTER + 1 .. VIDCOUNTER + n
    BY DEF TranslateRidsToVids, n
  <2> QED BY <2>1, <2>2, <2>3 DEF TranslateRidsToVids, SyncdMutexFree, TakesRequest
<1>b. found \in [Rid -> VidOrNull] /\ Injective(found)
  <2>1. \A r \in Rid : RIDTOVID[r] = NULL => m_rid2vid[r] = NULL
    BY <1>a DEF IInv, CachesCoherent
  <2>2. \A r, s \in Rid : RIDTOVID[r] # NULL /\ RIDTOVID[r] = RIDTOVID[s] => r = s
    BY DEF IInv, MapsInverse
  <2>3. \A r \in Rid : RIDTOVID[r] # NULL => RIDTOVID[r] <= VIDCOUNTER
    BY <1>h, MaxVidAssumption, RidAssumption
    DEF IInv, MapsInverse, FreshInv, NULL, Vid, VidOrNull, RidOrNull
  <2>4. \A r \in Rid : new[r] # NULL => new[r] > VIDCOUNTER
    BY <1>a, <1>h, <1>n, MaxVidAssumption DEF VidOrNull
  <2>5. \A r \in Rid : found[r] \in {NULL, RIDTOVID[r], new[r]}
    BY <2>1
  <2>6. found \in [Rid -> VidOrNull]
    BY <1>h, MaxVidAssumption DEF NULL, VidOrNull
  <2>8. \A r, s \in Rid : new[r] # NULL /\ RIDTOVID[s] # NULL => new[r] # RIDTOVID[s]
    BY <1>h, <2>3, <2>4, MaxVidAssumption DEF VidOrNull
  <2>7. ASSUME NEW r \in Rid, NEW s \in Rid, found[r] # NULL, found[r] = found[s]
        PROVE  r = s
    <3> HIDE DEF found
    <3>1. CASE found[r] = new[r] /\ found[s] = new[s]
      BY <1>a, <2>7, <3>1 DEF Injective
    <3>2. CASE found[r] = RIDTOVID[r] /\ found[s] = RIDTOVID[s]
      BY <2>2, <2>7, <3>2
    <3>3. CASE found[r] = RIDTOVID[r] /\ found[s] = new[s]
      BY <2>7, <2>8, <3>3
    <3>4. CASE found[r] = new[r] /\ found[s] = RIDTOVID[s]
      BY <2>7, <2>8, <3>4
    <3> QED BY <2>5, <2>7, <3>1, <3>2, <3>3, <3>4
  <2> QED BY <2>6, <2>7 DEF Injective
<1>c. /\ VIDTORID' \in [Vid -> RidOrNull]
      /\ \A r \in Rid : new[r] # NULL => VIDTORID'[new[r]] = r
      /\ \A v \in Vid : (\A r \in Rid : new[r] # v) => VIDTORID'[v] = VIDTORID[v]
      /\ \A v \in Vid : \/ VIDTORID'[v] = VIDTORID[v]
                        \/ VIDTORID'[v] \in Rid /\ new[VIDTORID'[v]] = v
  BY <1>a, <1>h, InverseOverFacts
<1>d. /\ m_vid2rid' \in [Vid -> RidOrNull]
      /\ \A v \in Vid : \/ m_vid2rid'[v] = m_vid2rid[v]
                        \/ m_vid2rid'[v] \in Rid /\ found[m_vid2rid'[v]] = v
  BY <1>a, <1>b, <1>h, InverseOverFacts
<1>f. \A v \in Vid : v <= VIDCOUNTER \/ v > VIDCOUNTER' => VIDTORID'[v] = VIDTORID[v]
  <2>1. ASSUME NEW v \in Vid, v <= VIDCOUNTER \/ v > VIDCOUNTER', NEW r \in Rid PROVE new[r] # v
    <3>1. v # NULL /\ v \in Int /\ VIDCOUNTER \in Int /\ VIDCOUNTER' = VIDCOUNTER + n /\ n \in Int
      BY <1>a, <1>n, MaxVidAssumption DEF IInv, TypeOK, Vid, VidOrNull, NULL
    <3>2. new[r] # NULL => new[r] > VIDCOUNTER /\ new[r] <= VIDCOUNTER'
      BY <1>a, <3>1
    <3> QED BY <2>1, <3>1, <3>2
  <2> QED BY <1>c, <2>1
<1> USE MaxVidAssumption, RidAssumption, KindAssumption
       DEF NULL, Vid, VidOrNull, RidOrNull, redis, cache, SyncdMutexFree, TakesRequest, Alive,
           IInv, TypeOK, MapsInverse, CachesCoherent, WorkInv, LiveInv, FreshInv,
           VidsNotReused, NtfInv, CheckedFdbTranslates, Injective, Idle, FindVid,
           NotificationKind, Notification
<1>e. \A r \in Rid : /\ RIDTOVID'[r] = IF new[r] # NULL THEN new[r] ELSE RIDTOVID[r]
                     /\ m_rid2vid'[r] = IF found[r] # NULL THEN found[r] ELSE m_rid2vid[r]
  BY <1>a DEF Overlay
<1>k. \A r \in Rid : found[r] # NULL => found[r] = RIDTOVID'[r]
  BY <1>a, <1>e
<1>g. \A r \in Rid : RIDTOVID[r] # NULL => RIDTOVID'[r] = RIDTOVID[r]
  BY <1>a, <1>e
<1> HIDE DEF found
<1>1. TypeOK'
  <2>1. m_rid2vid' \in [Rid -> VidOrNull] /\ RIDTOVID' \in [Rid -> VidOrNull]
    BY <1>a, <1>b DEF Overlay
  <2>2. VIDCOUNTER' \in VidOrNull
    BY <1>a, <1>n
  <2> QED BY <1>a, <1>c, <1>d, <2>1, <2>2
<1>2. MapsInverse'
  BY <1>n, <1>a, <1>c, <1>d, <1>e, <1>f DEF Overlay
<1>3. CachesCoherent'
  <2>1. ASSUME NEW v \in Vid, m_vid2rid'[v] # NULL PROVE m_vid2rid'[v] = VIDTORID'[v]
    <3>1. CASE m_vid2rid'[v] \in Rid /\ found[m_vid2rid'[v]] = v
      <4> DEFINE x == m_vid2rid'[v]
      <4>1. RIDTOVID'[x] = v
        <5>1. found[x] # NULL /\ x \in Rid
          BY <3>1
        <5> QED BY <1>k, <3>1, <5>1
      <4>2. RIDTOVID'[x] # NULL => VIDTORID'[RIDTOVID'[x]] = x
        BY <1>2, <3>1
      <4> QED BY <4>1, <4>2
    <3>2. CASE m_vid2rid'[v] = m_vid2rid[v]
      <4>1. VIDTORID[v] # NULL /\ VIDTORID[v] = m_vid2rid[v]
        BY <1>a, <2>1, <3>2
      <4>2. \A r \in Rid : new[r] # v
        BY <1>a, <1>n, <4>1
      <4> QED BY <1>c, <3>2, <4>1, <4>2
    <3> QED BY <1>d, <3>1, <3>2
  <2>2. \A r \in Rid : m_rid2vid'[r] # NULL => m_rid2vid'[r] = RIDTOVID'[r]
    BY <1>a, <1>e, <1>g, <1>k
  <2> QED BY <2>1, <2>2
<1>4. WorkInv'
  BY <1>n, <1>a, <1>c, <1>d, <1>e, <1>f DEF Overlay
<1>5. LiveInv'
  <2>1. \A r \in Rid : new[r] # NULL => r \in live
    BY <1>a
  <2> QED BY <1>a, <1>e, <2>1
<1>6. FreshInv'
  <2>1. VIDCOUNTER <= VIDCOUNTER' /\ VIDCOUNTER' \in VidOrNull
    BY <1>a, <1>n
  <2> QED BY <1>a, <1>f, <2>1
<1>7. VidsNotReused'
  <2>1. \A v \in retired : VIDTORID'[v] = VIDTORID[v]
    BY <1>f
  <2> QED BY <1>a, <2>1
<1>8. NtfInv'
  BY <1>n, <1>a, <1>c, <1>d, <1>e, <1>f DEF Overlay
<1> QED BY <1>1, <1>2, <1>3, <1>4, <1>5, <1>6, <1>7, <1>8

(* The operations of APPLY_VIEW change the ASIC.                           *)
LEMMA ApplyOnAsicStep ==
  ASSUME IInv, NEW new \in [Rid -> VidOrNull], ApplyOnAsic(new) PROVE IInv'
<1> USE MaxVidAssumption, RidAssumption, KindAssumption
       DEF NULL, Vid, VidOrNull, RidOrNull, redis, cache, SyncdMutexFree, TakesRequest, Alive,
           IInv, TypeOK, MapsInverse, CachesCoherent, WorkInv, LiveInv, FreshInv,
           VidsNotReused, NtfInv, CheckedFdbTranslates, Injective, Idle, FindVid,
           NotificationKind, Notification
<1>a. \A v \in retired' : \/ v \in retired
                          \/ \E s \in Rid : /\ v = RIDTOVID[s] /\ RIDTOVID[s] # NULL
                                           /\ RIDTOVID[s] # new[s]
  BY DEF ApplyOnAsic, ComparedView
<1>b. \A v : v \in requested' <=> v \in requested /\ \A s \in Rid : new[s] # v
  BY DEF ApplyOnAsic, ComparedView
<1>c. /\ Injective(new) /\ work' = new /\ mainPc = "idle" /\ mainPc' = "del" /\ ntf.pc = "idle"
      /\ \A s \in Rid : new[s] \in requested \cup {NULL, RIDTOVID[s]}
      /\ live' = (live \ {s \in Rid : RIDTOVID[s] # NULL}) \cup {s \in Rid : new[s] # NULL}
      /\ retired \subseteq retired'
      /\ UNCHANGED <<redis, cache, ntfs, ntf>>
  BY DEF ApplyOnAsic, ComparedView
<1>d. ASSUME NEW v \in retired' PROVE v \in Vid /\ v <= VIDCOUNTER /\ v \notin requested
  <2>1. CASE v \in retired
    BY <2>1
  <2>2. CASE \E s \in Rid : v = RIDTOVID[s] /\ RIDTOVID[s] # NULL
    <3>1. PICK s \in Rid : v = RIDTOVID[s] /\ RIDTOVID[s] # NULL
      BY <2>2
    <3>2. v \in Vid /\ VIDTORID[v] = s
      BY <3>1
    <3> QED BY <3>2
  <2> QED BY <1>a, <2>1, <2>2
<1>1. TypeOK'
  <2>1. retired' \subseteq Vid
    BY <1>d
  <2>2. requested' \subseteq Vid /\ live' \subseteq Rid
    BY <1>b, <1>c
  <2> QED BY <1>c, <2>1, <2>2 DEF redis, cache
<1>2. MapsInverse'
  BY <1>a, <1>b, <1>c DEF redis, cache
<1>3. CachesCoherent'
  BY <1>a, <1>b, <1>c DEF redis, cache
<1>4. WorkInv'
  <2>1. ASSUME NEW r \in Rid, new[r] # NULL
        PROVE  new[r] \notin retired' /\ new[r] <= VIDCOUNTER
    <3>1. CASE new[r] \in requested
      BY <1>d, <2>1, <3>1
    <3>2. CASE new[r] = RIDTOVID[r]
      BY <1>a, <1>c, <2>1, <3>2
    <3> QED BY <1>c, <2>1, <3>1, <3>2
  <2> QED BY <1>b, <1>c, <2>1 DEF redis, cache
<1>5. LiveInv'
  BY <1>a, <1>b, <1>c DEF redis, cache
<1>6. FreshInv'
  BY <1>b, <1>c, <1>d DEF redis, cache
<1>7. VidsNotReused'
  BY <1>a, <1>b, <1>c DEF redis, cache
<1>8. NtfInv'
  BY <1>a, <1>b, <1>c DEF redis, cache
<1> QED BY <1>1, <1>2, <1>3, <1>4, <1>5, <1>6, <1>7, <1>8

(* APPLY_VIEW replaces the maps.                                           *)
LEMMA FillMapsStep ==
  ASSUME IInv, NEW r \in Rid, FillMaps(r) PROVE IInv'
<1> USE MaxVidAssumption, RidAssumption, KindAssumption
       DEF NULL, Vid, VidOrNull, RidOrNull, redis, cache, SyncdMutexFree, TakesRequest, Alive,
           IInv, TypeOK, MapsInverse, CachesCoherent, WorkInv, LiveInv, FreshInv,
           VidsNotReused, NtfInv, CheckedFdbTranslates, Injective, Idle, FindVid,
           NotificationKind, Notification
<1>1. TypeOK'
  BY DEF FillMaps
<1>2. MapsInverse'
  BY DEF FillMaps
<1>3. CachesCoherent'
  BY DEF FillMaps
<1>4. WorkInv'
  BY DEF FillMaps
<1>5. LiveInv'
  BY DEF FillMaps
<1>6. FreshInv'
  BY DEF FillMaps
<1>7. VidsNotReused'
  BY DEF FillMaps
<1>8. NtfInv'
  BY DEF FillMaps
<1> QED BY <1>1, <1>2, <1>3, <1>4, <1>5, <1>6, <1>7, <1>8

(* The invariant holds when syncd starts.                                  *)
LEMMA InitIInv == Init => IInv
BY MaxVidAssumption, RidAssumption, KindAssumption
DEF Init, NoWork, NULL, Vid, VidOrNull, RidOrNull, redis, cache, SyncdMutexFree, TakesRequest, Alive,
    IInv, TypeOK, MapsInverse, CachesCoherent, WorkInv, LiveInv, FreshInv,
    VidsNotReused, NtfInv, CheckedFdbTranslates, Injective, Idle, FindVid,
    NotificationKind, Notification

(* Every step preserves IInv; the actions that touch one variable or two   *)
(* are discharged here, the others by their own lemma.                     *)
LEMMA NextIInv == ASSUME IInv, [Next]_vars PROVE IInv'
<1>a. CASE UNCHANGED vars
  BY <1>a, MaxVidAssumption, RidAssumption, KindAssumption
  DEF vars, NULL, Vid, VidOrNull, RidOrNull, redis, cache, SyncdMutexFree, TakesRequest, Alive,
      IInv, TypeOK, MapsInverse, CachesCoherent, WorkInv, LiveInv, FreshInv,
      VidsNotReused, NtfInv, CheckedFdbTranslates, Injective, Idle, FindVid,
      NotificationKind, Notification
<1>1. ASSUME NEW r \in Rid, VendorSpawns(r)
     PROVE  IInv'
  BY <1>1, MaxVidAssumption, RidAssumption, KindAssumption
  DEF VendorSpawns,
      NULL, Vid, VidOrNull, RidOrNull, redis, cache, SyncdMutexFree, TakesRequest, Alive,
      IInv, TypeOK, MapsInverse, CachesCoherent, WorkInv, LiveInv, FreshInv,
      VidsNotReused, NtfInv, CheckedFdbTranslates, Injective, Idle, FindVid,
      NotificationKind, Notification
<1>2. ASSUME NEW v \in Vid, CreateFails(v)
     PROVE  IInv'
  BY <1>2, MaxVidAssumption, RidAssumption, KindAssumption
  DEF CreateFails,
      NULL, Vid, VidOrNull, RidOrNull, redis, cache, SyncdMutexFree, TakesRequest, Alive,
      IInv, TypeOK, MapsInverse, CachesCoherent, WorkInv, LiveInv, FreshInv,
      VidsNotReused, NtfInv, CheckedFdbTranslates, Injective, Idle, FindVid,
      NotificationKind, Notification
<1>3. ASSUME NEW vids \in SUBSET Vid, NEW related \in SUBSET live, RemoveOnAsic(vids, related)
     PROVE  IInv'
  BY <1>3, MaxVidAssumption, RidAssumption, KindAssumption
  DEF RemoveOnAsic, FindRid,
      NULL, Vid, VidOrNull, RidOrNull, redis, cache, SyncdMutexFree, TakesRequest, Alive,
      IInv, TypeOK, MapsInverse, CachesCoherent, WorkInv, LiveInv, FreshInv,
      VidsNotReused, NtfInv, CheckedFdbTranslates, Injective, Idle, FindVid,
      NotificationKind, Notification
<1>4. ASSUME RemoveEnds
     PROVE  IInv'
  BY <1>4, MaxVidAssumption, RidAssumption, KindAssumption
  DEF RemoveEnds, NoWork,
      NULL, Vid, VidOrNull, RidOrNull, redis, cache, SyncdMutexFree, TakesRequest, Alive,
      IInv, TypeOK, MapsInverse, CachesCoherent, WorkInv, LiveInv, FreshInv,
      VidsNotReused, NtfInv, CheckedFdbTranslates, Injective, Idle, FindVid,
      NotificationKind, Notification
<1>4b. ASSUME RemoveThrows
     PROVE  IInv'
  BY <1>4b, MaxVidAssumption, RidAssumption, KindAssumption
  DEF RemoveThrows, NoWork,
      NULL, Vid, VidOrNull, RidOrNull, redis, cache, SyncdMutexFree, TakesRequest, Alive,
      IInv, TypeOK, MapsInverse, CachesCoherent, WorkInv, LiveInv, FreshInv,
      VidsNotReused, NtfInv, CheckedFdbTranslates, Injective, Idle, FindVid,
      NotificationKind, Notification
<1>5. ASSUME NEW v \in Vid, TranslateVidToRid(v)
     PROVE  IInv'
  BY <1>5, MaxVidAssumption, RidAssumption, KindAssumption
  DEF TranslateVidToRid,
      NULL, Vid, VidOrNull, RidOrNull, redis, cache, SyncdMutexFree, TakesRequest, Alive,
      IInv, TypeOK, MapsInverse, CachesCoherent, WorkInv, LiveInv, FreshInv,
      VidsNotReused, NtfInv, CheckedFdbTranslates, Injective, Idle, FindVid,
      NotificationKind, Notification
<1>6. ASSUME NEW r \in Rid, TranslateRidToVid(r)
     PROVE  IInv'
  BY <1>6, MaxVidAssumption, RidAssumption, KindAssumption
  DEF TranslateRidToVid, DrawVids,
      NULL, Vid, VidOrNull, RidOrNull, redis, cache, SyncdMutexFree, TakesRequest, Alive,
      IInv, TypeOK, MapsInverse, CachesCoherent, WorkInv, LiveInv, FreshInv,
      VidsNotReused, NtfInv, CheckedFdbTranslates, Injective, Idle, FindVid,
      NotificationKind, Notification
<1>7. ASSUME DelMaps
     PROVE  IInv'
  BY <1>7, MaxVidAssumption, RidAssumption, KindAssumption
  DEF DelMaps,
      NULL, Vid, VidOrNull, RidOrNull, redis, cache, SyncdMutexFree, TakesRequest, Alive,
      IInv, TypeOK, MapsInverse, CachesCoherent, WorkInv, LiveInv, FreshInv,
      VidsNotReused, NtfInv, CheckedFdbTranslates, Injective, Idle, FindVid,
      NotificationKind, Notification
<1>8. ASSUME ClearLocalCache
     PROVE  IInv'
  BY <1>8, MaxVidAssumption, RidAssumption, KindAssumption
  DEF ClearLocalCache, NoWork,
      NULL, Vid, VidOrNull, RidOrNull, redis, cache, SyncdMutexFree, TakesRequest, Alive,
      IInv, TypeOK, MapsInverse, CachesCoherent, WorkInv, LiveInv, FreshInv,
      VidsNotReused, NtfInv, CheckedFdbTranslates, Injective, Idle, FindVid,
      NotificationKind, Notification
<1>9. ASSUME NEW n \in ntfs, CheckFdbEvent(n)
     PROVE  IInv'
  BY <1>9, MaxVidAssumption, RidAssumption, KindAssumption
  DEF CheckFdbEvent,
      NULL, Vid, VidOrNull, RidOrNull, redis, cache, SyncdMutexFree, TakesRequest, Alive,
      IInv, TypeOK, MapsInverse, CachesCoherent, WorkInv, LiveInv, FreshInv,
      VidsNotReused, NtfInv, CheckedFdbTranslates, Injective, Idle, FindVid,
      NotificationKind, Notification
<1>10. ASSUME TranslateFdbEvent
     PROVE  IInv'
  BY <1>10, MaxVidAssumption, RidAssumption, KindAssumption
  DEF TranslateFdbEvent, Outcome,
      NULL, Vid, VidOrNull, RidOrNull, redis, cache, SyncdMutexFree, TakesRequest, Alive,
      IInv, TypeOK, MapsInverse, CachesCoherent, WorkInv, LiveInv, FreshInv,
      VidsNotReused, NtfInv, CheckedFdbTranslates, Injective, Idle, FindVid,
      NotificationKind, Notification
<1>11. ASSUME NEW n \in ntfs, HandleNtf(n)
     PROVE  IInv'
  BY <1>11, MaxVidAssumption, RidAssumption, KindAssumption
  DEF HandleNtf, Outcome,
      NULL, Vid, VidOrNull, RidOrNull, redis, cache, SyncdMutexFree, TakesRequest, Alive,
      IInv, TypeOK, MapsInverse, CachesCoherent, WorkInv, LiveInv, FreshInv,
      VidsNotReused, NtfInv, CheckedFdbTranslates, Injective, Idle, FindVid,
      NotificationKind, Notification
<1>12. ASSUME NEW n \in ntfs, HandleFlowNtf(n)
     PROVE  IInv'
  BY <1>12, MaxVidAssumption, RidAssumption, KindAssumption
  DEF HandleFlowNtf, Outcome,
      NULL, Vid, VidOrNull, RidOrNull, redis, cache, SyncdMutexFree, TakesRequest, Alive,
      IInv, TypeOK, MapsInverse, CachesCoherent, WorkInv, LiveInv, FreshInv,
      VidsNotReused, NtfInv, CheckedFdbTranslates, Injective, Idle, FindVid,
      NotificationKind, Notification
<1> QED
  BY <1>a, <1>1, <1>2, <1>3, <1>4, <1>4b, <1>5, <1>6, <1>7, <1>8, <1>9, <1>10, <1>11, <1>12,
     OaAllocatesStep, VendorNotifiesStep, CreateOnAsicStep, InsertStep, EraseStep, TranslateRidsToVidsStep, ApplyOnAsicStep, FillMapsStep DEF Next

(* IInv holds in every reachable state.                                    *)
THEOREM Invariance == Spec => []IInv
BY InitIInv, NextIInv, PTL DEF Spec

(* The variables of the translator, of both threads and of the database    *)
(* keep their types.                                                       *)
THEOREM TypeCorrect == Spec => []TypeOK
BY Invariance, PTL DEF IInv

(* VIDTORID and RIDTOVID are one-to-one and inverse to each other in every *)
(* reachable state, whatever the main thread, the notification thread,     *)
(* orchagent and the vendor do and in whatever order.                      *)
THEOREM MapsStayInverse == Spec => []MapsInverse
BY Invariance, PTL DEF IInv

(* Except while APPLY_VIEW replaces the maps, m_vid2rid and m_rid2vid      *)
(* never disagree with ASIC_DB.                                            *)
THEOREM CachesStayCoherent == Spec => []CachesCoherent
BY Invariance, PTL DEF IInv

(* Between requests nothing is mapped that is not on the ASIC: removing an *)
(* object, related objects included, leaves no mapping behind.             *)
THEOREM NoMappingLeaks == Spec => []IdleMapsAreLive
<1>1. IInv => IdleMapsAreLive
  BY DEF IInv, LiveInv, IdleMapsAreLive
<1> QED BY <1>1, Invariance, PTL

(* A VID taken out of service by a remove or by APPLY_VIEW never names an  *)
(* object again, so matching views by VID cannot confuse two objects.      *)
THEOREM VidsNeverReused == Spec => []VidsNotReused
BY Invariance, PTL DEF IInv

(* Holding Syncd::m_mutex from the check to the translation is enough: an  *)
(* FDB event that passed the check never makes translateRidToVid throw.    *)
THEOREM CheckedFdbEventsTranslate == Spec => []CheckedFdbTranslates
<1>1. IInv => CheckedFdbTranslates
  BY DEF IInv, NtfInv
<1> QED BY <1>1, Invariance, PTL

=============================================================================
