--------------------------- MODULE OidTranslator ---------------------------
(***************************************************************************)
(* syncd's translation between virtual object ids (VIDs, which orchagent   *)
(* uses) and real ids (RIDs, which the vendor SAI uses).  The mapping is   *)
(* kept three times: the hashes VIDTORID and RIDTOVID of ASIC_DB, the      *)
(* caches m_vid2rid and m_rid2vid of VirtualOidTranslator, and, for        *)
(* objects already removed, m_removedRid2vid.  Two processes draw VIDs     *)
(* from the counter VIDCOUNTER (orchagent for what it creates, syncd for   *)
(* what it discovers), and two threads of syncd use the translator: the    *)
(* main thread, which holds Syncd::m_mutex for a whole request, and the    *)
(* notification thread, which holds it for every kind of notification but  *)
(* flow_bulk_get_session_event.  The translator's own mutex makes each of  *)
(* its operations one step; a request is several of them.                  *)
(***************************************************************************)
EXTENDS Integers, FiniteSets

CONSTANTS Rid,       \* the ids the vendor SAI may hand out
          MaxVid,    \* SAI_REDIS_OBJECT_INDEX_MAX: the last index there is
          Kind,      \* the kinds of notification, a subset of NotificationKind
          MaxNtf     \* bound: notifications waiting for the thread

NULL == 0            \* SAI_NULL_OBJECT_ID
Vid == 1 .. MaxVid
VidOrNull == 0 .. MaxVid
RidOrNull == Rid \cup {NULL}

(* One kind for each way a handler of NotificationProcessor translates.    *)
NotificationKind == {"fdb", "bfd", "ha", "port", "flow"}

ASSUME MaxVidAssumption == MaxVid \in Nat
ASSUME RidAssumption == IsFiniteSet(Rid) /\ NULL \notin Rid
ASSUME KindAssumption == Kind \subseteq NotificationKind

VARIABLES
  VIDCOUNTER,         \* the shared counter in the database
  VIDTORID, RIDTOVID, \* the two hashes of ASIC_DB; NULL: no such field
  m_vid2rid, m_rid2vid, m_removedRid2vid,
  live,               \* RIDs of the objects that exist on the ASIC
  requested,          \* VIDs orchagent has drawn and not seen created yet
  mainPc,             \* where the main thread is inside a request
  work,               \* RID -> VID pairs the request still has to process
  ntfs,               \* notifications raised by the vendor, not handled yet
  ntf,                \* what the notification thread is doing
  retired             \* history: VIDs that have been taken out of service

redis == <<VIDCOUNTER, VIDTORID, RIDTOVID>>
cache == <<m_vid2rid, m_rid2vid, m_removedRid2vid>>
vars == <<redis, cache, live, requested, mainPc, work, ntfs, ntf, retired>>

Notification == [kind : Kind, rid : Rid]
NoWork == [r \in Rid |-> NULL]
Idle == [pc |-> "idle"]

Init ==
  /\ VIDCOUNTER = 0
  /\ VIDTORID = [v \in Vid |-> NULL]
  /\ RIDTOVID = [r \in Rid |-> NULL]
  /\ m_vid2rid = [v \in Vid |-> NULL]
  /\ m_rid2vid = [r \in Rid |-> NULL]
  /\ m_removedRid2vid = [r \in Rid |-> NULL]
  /\ live = {}
  /\ requested = {}
  /\ mainPc = "idle"
  /\ work = NoWork
  /\ ntfs = {}
  /\ ntf = Idle
  /\ retired = {}

-----------------------------------------------------------------------------
(* The pieces.                                                             *)

Alive == ntf.pc # "dead"

(* Syncd::m_mutex: held by the main thread during a request and by the     *)
(* notification thread between the two halves of the FDB handler.          *)
SyncdMutexFree == mainPc \in {"idle", "failed"} /\ ntf.pc = "idle"

(* A main thread that has failed, and is in shutdown-wait mode, takes no   *)
(* more requests.                                                          *)
TakesRequest == SyncdMutexFree /\ mainPc = "idle"

Injective(f) == \A r, s \in Rid : f[r] # NULL /\ f[r] = f[s] => r = s
Overlay(f, g) == [r \in Rid |-> IF f[r] # NULL THEN f[r] ELSE g[r]]
InverseOver(f, g) == [v \in Vid |-> IF \E r \in Rid : f[r] = v
                                    THEN CHOOSE r \in Rid : f[r] = v
                                    ELSE g[v]]

(* What tryTranslateRidToVid, checkRidExists and translateRidToVid find    *)
(* before they would allocate: cache, then hash, then, when asked to, the  *)
(* removed objects.                                                        *)
FindVid(r, removed) ==
  IF m_rid2vid[r] # NULL THEN m_rid2vid[r]
  ELSE IF RIDTOVID[r] # NULL THEN RIDTOVID[r]
  ELSE IF removed THEN m_removedRid2vid[r] ELSE NULL

(* getRidForVid behind the cache, as translateVidToRid looks a VID up.     *)
FindRid(v) == IF m_vid2rid[v] # NULL THEN m_vid2rid[v] ELSE VIDTORID[v]

(* INCR and INCRBY; past the last index allocateNewObjectId(s) throws.     *)
DrawVidsNotAtomic(n) == VIDCOUNTER + n <= MaxVid /\ VIDCOUNTER' \in {VIDCOUNTER, VIDCOUNTER + n}
DrawVidsUnlimited(n) == VIDCOUNTER' = VIDCOUNTER + n
DrawVids(n) == VIDCOUNTER + n <= MaxVid /\ VIDCOUNTER' = VIDCOUNTER + n

-----------------------------------------------------------------------------
(* Orchagent.                                                              *)

OaAllocates ==
  /\ DrawVids(1)
  /\ requested' = requested \cup {VIDCOUNTER + 1}
  /\ UNCHANGED <<VIDTORID, RIDTOVID, cache, live, mainPc, work, ntfs, ntf, retired>>

-----------------------------------------------------------------------------
(* The vendor SAI (external): objects it makes of its own accord, such as  *)
(* the queues of a port, and the notifications it raises.  Sessions exist  *)
(* only because orchagent asked for them.                                  *)

VendorSpawns(r) ==
  /\ r \notin live
  /\ live' = live \cup {r}
  /\ UNCHANGED <<redis, cache, requested, mainPc, work, ntfs, ntf, retired>>

VendorNotifies(k, r) ==
  /\ r \in live
  /\ k \in {"bfd", "ha", "flow"} => RIDTOVID[r] # NULL \/ work[r] # NULL
  /\ Cardinality(ntfs) < MaxNtf
  /\ ntfs' = ntfs \cup {[kind |-> k, rid |-> r]}
  /\ UNCHANGED <<redis, cache, live, requested, mainPc, work, ntf, retired>>

-----------------------------------------------------------------------------
(* The main thread: create and remove, single and bulk.  The vendor call   *)
(* and the update of the maps are separate steps of one request.           *)

CreateOnAsic(new) ==
  /\ TakesRequest
  /\ Injective(new)
  /\ new # NoWork
  /\ \A r \in Rid : new[r] # NULL => r \notin live /\ new[r] \in requested
  /\ live' = live \cup {r \in Rid : new[r] # NULL}
  /\ requested' = requested \ {new[r] : r \in Rid}
  /\ work' = new
  /\ mainPc' = "insert"
  /\ UNCHANGED <<redis, cache, ntfs, ntf, retired>>

CreateFails(v) ==
  /\ TakesRequest
  /\ v \in requested
  /\ requested' = requested \ {v}
  /\ UNCHANGED <<redis, cache, live, mainPc, work, ntfs, ntf, retired>>

InsertRidsAndVids ==
  /\ Alive
  /\ mainPc = "insert"
  /\ m_rid2vid' = Overlay(work, m_rid2vid)
  /\ m_vid2rid' = InverseOver(work, m_vid2rid)
  /\ RIDTOVID' = Overlay(work, RIDTOVID)
  /\ VIDTORID' = InverseOver(work, VIDTORID)
  /\ mainPc' = "idle"
  /\ work' = NoWork
  /\ UNCHANGED <<VIDCOUNTER, m_removedRid2vid, live, requested, ntfs, ntf, retired>>

(* vids are the objects of the request; related are the RIDs that go with  *)
(* a port (its queues, scheduler groups, priority groups, serdes), which   *)
(* postPortRemove takes out of the maps too, one after the other: it       *)
(* throws at one that is not in them.                                      *)
RemovePortOnly(vids, related) ==
  /\ TakesRequest
  /\ vids # {}
  /\ \A v \in vids : FindRid(v) \in live
  /\ LET gone == {FindRid(v) : v \in vids} \cup related
     IN /\ live' = live \ gone
        /\ work' = [r \in Rid |-> IF r \in gone \ related THEN RIDTOVID[r] ELSE NULL]
  /\ m_vid2rid' = [v \in Vid |-> IF v \in vids THEN FindRid(v) ELSE m_vid2rid[v]]
  /\ mainPc' = "erase"
  /\ UNCHANGED <<redis, m_rid2vid, m_removedRid2vid, requested, ntfs, ntf, retired>>
RemoveOnAsic(vids, related) ==
  /\ TakesRequest
  /\ vids # {}
  /\ \A v \in vids : FindRid(v) \in live
  /\ LET gone == {FindRid(v) : v \in vids} \cup related
     IN /\ live' = live \ gone
        /\ work' = [r \in Rid |-> IF r \in gone THEN RIDTOVID[r] ELSE NULL]
  /\ m_vid2rid' = [v \in Vid |-> IF v \in vids THEN FindRid(v) ELSE m_vid2rid[v]]
  /\ mainPc' = IF \A r \in related : RIDTOVID[r] # NULL THEN "erase" ELSE "throw"
  /\ UNCHANGED <<redis, m_rid2vid, m_removedRid2vid, requested, ntfs, ntf, retired>>

(* eraseRidAndVid, one pair per call.                                      *)
EraseFromCacheOnly(r) ==
  /\ Alive
  /\ mainPc \in {"erase", "throw"}
  /\ work[r] # NULL
  /\ RIDTOVID' = [RIDTOVID EXCEPT ![r] = NULL]
  /\ m_rid2vid' = [m_rid2vid EXCEPT ![r] = NULL]
  /\ m_vid2rid' = [m_vid2rid EXCEPT ![work[r]] = NULL]
  /\ m_removedRid2vid' = [m_removedRid2vid EXCEPT ![r] = work[r]]
  /\ retired' = retired \cup {work[r]}
  /\ work' = [work EXCEPT ![r] = NULL]
  /\ UNCHANGED <<VIDCOUNTER, VIDTORID, live, requested, mainPc, ntfs, ntf>>
EraseRidAndVid(r) ==
  /\ Alive
  /\ mainPc \in {"erase", "throw"}
  /\ work[r] # NULL
  /\ VIDTORID' = [VIDTORID EXCEPT ![work[r]] = NULL]
  /\ RIDTOVID' = [RIDTOVID EXCEPT ![r] = NULL]
  /\ m_rid2vid' = [m_rid2vid EXCEPT ![r] = NULL]
  /\ m_vid2rid' = [m_vid2rid EXCEPT ![work[r]] = NULL]
  /\ m_removedRid2vid' = [m_removedRid2vid EXCEPT ![r] = work[r]]
  /\ retired' = retired \cup {work[r]}
  /\ work' = [work EXCEPT ![r] = NULL]
  /\ UNCHANGED <<VIDCOUNTER, live, requested, mainPc, ntfs, ntf>>

RemoveEnds ==
  /\ Alive
  /\ mainPc = "erase"
  /\ work = NoWork
  /\ mainPc' = "idle"
  /\ UNCHANGED <<redis, cache, live, requested, work, ntfs, ntf, retired>>

(* What is related and has not been erased stays in the maps.              *)
RemoveThrows ==
  /\ Alive
  /\ mainPc = "throw"
  /\ mainPc' = "failed"
  /\ work' = NoWork
  /\ UNCHANGED <<redis, cache, live, requested, ntfs, ntf, retired>>

-----------------------------------------------------------------------------
(* The main thread: translating what it reads and what it discovers.       *)

(* translateVidToRid caches what it read from the hash.                    *)
TranslateVidToRid(v) ==
  /\ TakesRequest
  /\ m_vid2rid[v] = NULL
  /\ VIDTORID[v] # NULL
  /\ m_vid2rid' = [m_vid2rid EXCEPT ![v] = VIDTORID[v]]
  /\ UNCHANGED <<redis, m_rid2vid, m_removedRid2vid, live, requested, mainPc, work,
                 ntfs, ntf, retired>>

(* translateRidToVid of a RID the vendor returned and nothing knows: it    *)
(* gets a VID.  A RID that is known changes nothing.                       *)
TranslateRidToVid(r) ==
  /\ TakesRequest
  /\ r \in live
  /\ FindVid(r, FALSE) = NULL
  /\ DrawVids(1)
  /\ LET v == VIDCOUNTER + 1
     IN /\ VIDTORID' = [VIDTORID EXCEPT ![v] = r]
        /\ RIDTOVID' = [RIDTOVID EXCEPT ![r] = v]
        /\ m_vid2rid' = [m_vid2rid EXCEPT ![v] = r]
        /\ m_rid2vid' = [m_rid2vid EXCEPT ![r] = v]
  /\ UNCHANGED <<m_removedRid2vid, live, requested, mainPc, work, ntfs, ntf, retired>>

(* translateRidsToVids of a batch without null or repeated RIDs: hash      *)
(* first, cache second, new VIDs for the rest; the caches take the batch.  *)
TranslateRidsToVids(batch, new) ==
  /\ TakesRequest
  /\ batch # {}
  /\ batch \subseteq live
  /\ LET known == {r \in batch : RIDTOVID[r] # NULL \/ m_rid2vid[r] # NULL}
         n == Cardinality(batch \ known)
         found == [r \in Rid |-> IF r \notin batch THEN NULL
                                 ELSE IF RIDTOVID[r] # NULL THEN RIDTOVID[r]
                                 ELSE IF m_rid2vid[r] # NULL THEN m_rid2vid[r]
                                 ELSE new[r]]
     IN /\ DrawVids(n)
        /\ Injective(new)
        /\ {r \in Rid : new[r] # NULL} = batch \ known
        /\ \A r \in batch \ known : new[r] \in VIDCOUNTER + 1 .. VIDCOUNTER + n
        /\ VIDTORID' = InverseOver(new, VIDTORID)
        /\ RIDTOVID' = Overlay(new, RIDTOVID)
        /\ m_rid2vid' = Overlay(found, m_rid2vid)
        /\ m_vid2rid' = InverseOver(found, m_vid2rid)
  /\ UNCHANGED <<m_removedRid2vid, live, requested, mainPc, work, ntfs, ntf, retired>>

-----------------------------------------------------------------------------
(* The main thread: APPLY_VIEW.  An object found in both views keeps its   *)
(* RID and takes the VID of the new view; the others are created or        *)
(* removed on the ASIC without the translator.  Then the hashes are        *)
(* deleted and filled again, and last of all the caches are cleared.       *)

(* What comparison logic can make of the current map: a RID keeps its VID  *)
(* (matched by VID), takes a new one (best match), is created or removed.  *)
ComparedView(new) ==
  /\ Injective(new)
  /\ \A r \in Rid : new[r] \in requested \cup {NULL, RIDTOVID[r]}
  /\ \A r \in Rid : new[r] # NULL /\ r \in live => RIDTOVID[r] # NULL

ApplyOnAsic(new) ==
  /\ TakesRequest
  /\ ComparedView(new)
  /\ live' = (live \ {r \in Rid : RIDTOVID[r] # NULL}) \cup {r \in Rid : new[r] # NULL}
  /\ requested' = requested \ {new[r] : r \in Rid}
  /\ retired' = retired \cup {RIDTOVID[r] : r \in {s \in Rid : RIDTOVID[s] # NULL
                                                            /\ RIDTOVID[s] # new[s]}}
  /\ work' = new
  /\ mainPc' = "del"
  /\ UNCHANGED <<redis, cache, ntfs, ntf>>

DelMaps ==
  /\ Alive
  /\ mainPc = "del"
  /\ VIDTORID' = [v \in Vid |-> NULL]
  /\ RIDTOVID' = [r \in Rid |-> NULL]
  /\ mainPc' = "fill"
  /\ UNCHANGED <<VIDCOUNTER, cache, live, requested, work, ntfs, ntf, retired>>

FillMaps(r) ==
  /\ Alive
  /\ mainPc = "fill"
  /\ work[r] # NULL
  /\ VIDTORID' = [VIDTORID EXCEPT ![work[r]] = r]
  /\ RIDTOVID' = [RIDTOVID EXCEPT ![r] = work[r]]
  /\ work' = [work EXCEPT ![r] = NULL]
  /\ UNCHANGED <<VIDCOUNTER, cache, live, requested, mainPc, ntfs, ntf, retired>>

ClearRid2vidOnly ==
  /\ Alive
  /\ mainPc = "fill"
  /\ work = NoWork
  /\ m_rid2vid' = [r \in Rid |-> NULL]
  /\ m_removedRid2vid' = [r \in Rid |-> NULL]
  /\ mainPc' = "idle"
  /\ UNCHANGED <<redis, m_vid2rid, live, requested, work, ntfs, ntf, retired>>
ClearLocalCache ==
  /\ Alive
  /\ mainPc = "fill"
  /\ work = NoWork
  /\ m_rid2vid' = [r \in Rid |-> NULL]
  /\ m_vid2rid' = [v \in Vid |-> NULL]
  /\ m_removedRid2vid' = [r \in Rid |-> NULL]
  /\ mainPc' = "idle"
  /\ UNCHANGED <<redis, live, requested, work, ntfs, ntf, retired>>

-----------------------------------------------------------------------------
(* The notification thread.  The handlers pass no switch VID to allocate   *)
(* from, or ask for what they checked before (the bridge port and the      *)
(* attributes of an FDB event), so translateRidToVid throws on a RID that  *)
(* is not found; nothing catches it in that thread and the process is      *)
(* terminated.                                                             *)

Outcome(k, r, vid) == IF vid = NULL THEN [pc |-> "dead", kind |-> k, rid |-> r] ELSE Idle

(* check_fdb_event_notification_data: a RID nobody knows drops the event.  *)
CheckFdbEventUnlocked(n) ==
  /\ ntf.pc = "idle"
  /\ n \in ntfs /\ n.kind = "fdb"
  /\ ntfs' = ntfs \ {n}
  /\ ntf' = IF FindVid(n.rid, TRUE) = NULL THEN Idle
            ELSE [pc |-> "checked", kind |-> "fdb", rid |-> n.rid]
  /\ UNCHANGED <<redis, cache, live, requested, mainPc, work, retired>>
CheckFdbEvent(n) ==
  /\ SyncdMutexFree
  /\ n \in ntfs /\ n.kind = "fdb"
  /\ ntfs' = ntfs \ {n}
  /\ ntf' = IF FindVid(n.rid, TRUE) = NULL THEN Idle
            ELSE [pc |-> "checked", kind |-> "fdb", rid |-> n.rid]
  /\ UNCHANGED <<redis, cache, live, requested, mainPc, work, retired>>

TranslateFdbEvent ==
  /\ ntf.pc = "checked"
  /\ ntf' = Outcome("fdb", ntf.rid, FindVid(ntf.rid, TRUE))
  /\ UNCHANGED <<redis, cache, live, requested, mainPc, work, ntfs, retired>>

(* bfd and icmp_echo look among the removed objects, ha_set, ha_scope,     *)
(* queue_pfc_deadlock and twamp do not; port_state_change only tries.      *)
HandleNtf(n) ==
  /\ SyncdMutexFree
  /\ n \in ntfs /\ n.kind \in {"bfd", "ha", "port"}
  /\ ntfs' = ntfs \ {n}
  /\ ntf' = IF n.kind = "port" THEN Idle
            ELSE Outcome(n.kind, n.rid, FindVid(n.rid, n.kind = "bfd"))
  /\ UNCHANGED <<redis, cache, live, requested, mainPc, work, retired>>

HandleFlowNtf(n) ==
  /\ ntf.pc = "idle"
  /\ n \in ntfs /\ n.kind = "flow"
  /\ ntfs' = ntfs \ {n}
  /\ ntf' = Outcome("flow", n.rid, FindVid(n.rid, FALSE))
  /\ UNCHANGED <<redis, cache, live, requested, mainPc, work, retired>>

-----------------------------------------------------------------------------
Next ==
  \/ OaAllocates
  \/ \E r \in Rid : VendorSpawns(r)
  \/ \E k \in Kind, r \in Rid : VendorNotifies(k, r)
  \/ \E new \in [Rid -> VidOrNull] : CreateOnAsic(new)
  \/ \E v \in Vid : CreateFails(v)
  \/ InsertRidsAndVids
  \/ \E vids \in SUBSET Vid, related \in SUBSET live : RemoveOnAsic(vids, related)
  \/ \E r \in Rid : EraseRidAndVid(r)
  \/ RemoveEnds \/ RemoveThrows
  \/ \E v \in Vid : TranslateVidToRid(v)
  \/ \E r \in Rid : TranslateRidToVid(r)
  \/ \E batch \in SUBSET Rid, new \in [Rid -> VidOrNull] : TranslateRidsToVids(batch, new)
  \/ \E new \in [Rid -> VidOrNull] : ApplyOnAsic(new)
  \/ DelMaps
  \/ \E r \in Rid : FillMaps(r)
  \/ ClearLocalCache
  \/ \E n \in ntfs : CheckFdbEvent(n)
  \/ TranslateFdbEvent
  \/ \E n \in ntfs : HandleNtf(n)
  \/ \E n \in ntfs : HandleFlowNtf(n)

Spec == Init /\ [][Next]_vars

-----------------------------------------------------------------------------
(* Properties.                                                             *)

TypeOK ==
  /\ VIDCOUNTER \in VidOrNull
  /\ VIDTORID \in [Vid -> RidOrNull]
  /\ RIDTOVID \in [Rid -> VidOrNull]
  /\ m_vid2rid \in [Vid -> RidOrNull]
  /\ m_rid2vid \in [Rid -> VidOrNull]
  /\ m_removedRid2vid \in [Rid -> VidOrNull]
  /\ live \subseteq Rid
  /\ requested \subseteq Vid
  /\ mainPc \in {"idle", "insert", "erase", "throw", "failed", "del", "fill"}
  /\ work \in [Rid -> VidOrNull]
  /\ ntfs \subseteq Notification
  /\ ntf \in {Idle} \cup [pc : {"checked", "dead"}, kind : NotificationKind, rid : Rid]
  /\ retired \subseteq Vid

(* The two hashes of ASIC_DB describe the same one-to-one mapping, whoever *)
(* drew the VID and whatever the main thread is in the middle of: a VID    *)
(* never leads to a RID that leads back to another VID.                    *)
MapsInverse ==
  /\ \A v \in Vid : VIDTORID[v] # NULL => RIDTOVID[VIDTORID[v]] = v
  /\ \A r \in Rid : RIDTOVID[r] # NULL => VIDTORID[RIDTOVID[r]] = r

(* Outside APPLY_VIEW a cached translation is the one in the database, so  *)
(* that no erased or renamed object can be reached through a cache.        *)
CachesCoherent ==
  mainPc \notin {"del", "fill"} =>
    /\ \A v \in Vid : m_vid2rid[v] # NULL => m_vid2rid[v] = VIDTORID[v]
    /\ \A r \in Rid : m_rid2vid[r] # NULL => m_rid2vid[r] = RIDTOVID[r]

(* Between requests every RID in the maps is an object on the ASIC: a      *)
(* removal, of a port with everything that belongs to it too, leaves no    *)
(* mapping behind that a reused RID would inherit.  (One that throws does, *)
(* but no request follows it.)                                             *)
IdleMapsAreLive ==
  mainPc = "idle" => \A r \in Rid : RIDTOVID[r] # NULL => r \in live

(* A VID taken out of service never names an object again, although two    *)
(* processes draw VIDs: comparison logic matches objects of two views by   *)
(* VID alone and m_removedRid2vid still answers with the old one.          *)
VidsNotReused ==
  /\ \A v \in retired : VIDTORID[v] = NULL \/ mainPc = "del"
  /\ \A r \in Rid : m_removedRid2vid[r] # NULL => VIDTORID[m_removedRid2vid[r]] = NULL

(* An FDB event that passed check_fdb_event_notification_data is           *)
(* translated: no request can take the mapping away in between.            *)
CheckedFdbTranslates ==
  ~ (ntf.pc = "dead" /\ ntf.kind = "fdb")

=============================================================================
