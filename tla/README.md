# A TLA+ model of sonic-sairedis

sonic-sairedis connects orchagent (OA), which configures a switch, to the vendor's SAI library, which
drives the ASIC. OA links the sairedis library, which turns every SAI call into a message through redis
(or ZeroMQ); the daemon syncd takes the messages, calls the vendor SAI, keeps a mirror of the ASIC in the
redis database and reports the vendor's notifications back. This project models the parts of syncd and
of the library that keep state across calls and threads, checks them with TLC and proves the central
invariants with TLAPS. `PROJECT.json` maps every definition to the lines it stands for.

## Inventory

| Component | State | Operations | Interacts with |
|---|---|---|---|
| Notification queue (`syncd/NotificationQueue`) | queue, last event, length of its run | enqueue with drop policy, tryDequeue | vendor callbacks, notification thread |
| Notification delivery (`NotificationHandler`, `NotificationProcessor`) | thread state, condition variable, `m_runThread` | callback, signal, loop, start, stop | queue, main thread through `Syncd::m_mutex` |
| Object id translation (`VirtualOidTranslator`, `VidManager`, `RedisVidIndexGenerator`) | `VIDTORID`, `RIDTOVID`, two caches, removed objects, the shared counter | insert, erase, translate (single, bulk), clear | requests, notifications, APPLY_VIEW, OA (counter) |
| Views and requests (`Syncd.cpp`, `RedisChannel`, `RedisSelectableChannel`) | request and answer queues, flags of the view protocol, `ASIC_STATE`, `TEMP_ASIC_STATE`, sets of init view mode | create, remove, set, get, bulk requests, INIT_VIEW, APPLY_VIEW, INSPECT_ASIC, INVOKE_DUMP, shutdown-wait mode | OA, vendor, comparison logic |
| Link event damping (`Syncd.cpp`, `LinkEventDamping.h`) | penalty, time stamps, physical and advertised status, pending sync per port | event, timer check, sync, configuration | notification thread, timer thread, main loop |
| Comparison logic (`ComparisonLogic`, `BestCandidateFinder`, `AsicView`) | two views with status and reference counts, lists of operations | match, update, create, remove, transfer, reorder, execute | APPLY_VIEW, vendor |
| Restart (`HardReiniter`, `SingleReiniter`, `WarmRestartTable`) | contents of redis, flags of the start | cold, warm and fast start | database, vendor |
| Main loop and shutdown (`Syncd::run`) | selectables, shutdown type | select, drain, restart query | everything in syncd |
| Response channels (`RedisChannel`, `ZeroMQChannel`, `ZeroMQSelectableChannel`) | sockets, poll permission | send, wait, reconnect | OA and syncd |
| Metadata (`Meta`, `OidRefCounter`, `SaiObjectCollection`) | known objects, reference counts | validation before and bookkeeping after each call | OA's calls |
| Flex counters (`FlexCounter`, `FlexCounterManager`) | counter groups, polling threads | add, remove, poll, stop | vendor, COUNTERS_DB |
| Virtual object ids (`VirtualObjectIdManager`) | free switch indices | allocate, decode | library and syncd |
| Watchdog (`TimerWatchdog`) | time stamps of the event in progress | start, end, check | main thread |

Other parts (serialization, recorder, virtual switch, VPP, proxy, client/server SAI, MDIO server, the
command line tools) convert data or forward calls; `PROJECT.json` lists each with the reason it is not
modelled.

What is hard here: two threads of syncd and the vendor's threads share state under several mutexes, and
some paths go around them; OA and syncd are separate processes with queues in between that outlive
either; answers carry no request id; the database is written before or after the ASIC depending on the
mode; a view switch replaces maps that other threads read; time decides when a damped port is released.
The `hazards` of `PROJECT.json` list these at their lines, with the properties that guard them.

What makes each part correct: the queue stays bounded in a storm and a queued notification is handled;
the copies of the id mapping agree and no id is reused; the database mirrors the ASIC and an applied
view is the one OA built; every command is answered, and a call returns its own answer; a suppressed link
status reaches OA in the end; a restarted syncd comes up with the ASIC its database describes; the client's
database refuses exactly what would leave a reference to nothing; a counter is polled from the call that adds
it to the call that removes it; the operations that lead to a new view are never refused on the way.

## Modules

**NotificationQueue, NotificationStorm, MCNotificationStorm.** `NotificationQueue` has the queue's
variables, `Enqueue` and `EnqueueDropped` (the two return values of `enqueue`) and `TryDequeue`. The queue
limit and the threshold are constants; the counter of equal events grows without a bound, as in the code.
`NotificationStorm` offers events in any order and counts, in a history variable, the runs of equal events since the
queue was below its limit.

**NotificationThread** extends the queue with the vendor's callback threads, the notification thread and
the main thread. The test of `m_runThread`, the wait, each dequeue and each handler are steps of their
own, because `m_cv.wait` has no predicate and the notifiers hold no mutex.

**OidTranslator, MCOidTranslator.** The mapping between virtual and real ids in all its copies. Each
operation of the translator is one step (its own mutex); a request is several steps under
`Syncd::m_mutex`. The vendor hands out any real id that is free, so ids of removed objects come back.
Notifications come in five kinds, one for each way a handler translates. A remove on the ASIC takes any related
objects along; where one of them is not mapped, `SaiSwitch` throws half way through the bookkeeping (`RemoveThrows`) and
syncd takes no more requests, while its notification thread goes on.

**SyncdView, MCSyncdView.** OA with its library, the two queues and syncd's handlers. The parts
of the state are the view flags (`m_veryFirstRun`, `m_firstInitWasPerformed`, `m_asicInitViewMode`), the
sets `m_createdInInitView` and `m_initViewRemovedVidSet`, the discovered objects, the ASIC, and both
tables. One action per handler and mode: `ProcessCreate` and `InitViewCreate` are the two halves of a
create, `FirstInitView`/`InitViewCmd`, `FirstApplyView`/`ApplyView`/`ApplyFails`/`ApplyBreaks`/`ApplyRefused` the
outcomes of the two commands. In synchronous mode syncd answers and then writes the table; in asynchronous
mode the consumer writes a whole batch to the table that the mode of that moment selects (`Pop`).
`ProcessBulkOid`, `ProcessBulkGet` and `InitViewBulk` take the bulk requests: the vendor executes any of the objects,
in one call or one by one. INSPECT_ASIC translates the ids it reads, and may throw before it answers. An object has one
attribute; comparison logic is abstracted to its result (`ComparedView`, `Executed`), or that it throws before anything
is executed (`ApplyFails`) or half way through the execution (`ApplyBreaks`). `ViewTransition` shows that a comparison which does not throw reaches this result, for
objects that are updated, created, removed or kept; that objects which cannot be removed are brought back to their
defaults is part of `ComparedView` and taken from the code, not shown there.
Of OA the model assumes: it begins with INIT_VIEW (or INSPECT_ASIC), uses only objects it knows, waits
for its answers and stops configuring when INIT_VIEW or APPLY_VIEW failed. A wait times out only
when no answer can come any more.

**LinkEventDamping, MCLinkEventDamping.** The AIED algorithm as operators on the state of a port, and the
three threads as actions: `ProcessPortStateChange` and `SendNotification` (notification thread),
`CheckDampedPortsTimeout` (timer thread), `ProcessPendingDampingSync`, `SendBatch`/`SendFails` and `Acknowledge`
(main loop). Where the code holds `m_linkEventDampingMutex` is one step; reading a status and sending it
are not. A tick is one half-life, so that halving is exact; time stamps are kept as ages, which stop
at `AgeCap`, where any penalty has decayed to 0 and any suppression has timed out.

**ViewTransition, MCViewTransition.** What APPLY_VIEW does with the two views. `current` is the `AsicView` of the ASIC
(objects, status, reference counts, the last operation that freed each id, the two lists of operations) and its
operators are the methods of that class; `temp` is the requested view and `vidToRid` what its ids were matched to.
`UpdateBestMatch` and `CreateInstead` are the two outcomes of `processObjectForViewTransition` for an object whose references
have been processed; a matched object cannot be created anew, and where its update is not possible the comparison throws
(`MatchedFails`). Which matched objects these are is chosen at the start (`oneSided`): those with an attribute that only one view
has and that is mandatory, conditional, or create-only or without a default to go back to; the attributes themselves are not in the
model. Where `CreateInstead` has to remove something first (`breaking`), `RemoveDependent` takes one member that goes
with its group, or gives up on one in use, and `MakeAfterBreak` takes the object itself and creates the new one.
`RemoveUnused` is one object of the removing loop, then `TransferNotProcessed` and the checks of
`compareViews`. The loop of `asicGetWithOptimizedRemoveOperations` puts one operation at a time on the list `optimized`
(`OrderOperation`; `Lost` is where it throws because the operation that freed an object is not on the list), that of
`executeOperationsOnAsic` executes one at a time on `asic` (`ExecuteOperation`); `taken` counts in both. `atStart` and
`peak` are history: what was on the ASIC, and the most groups on it since. Three kinds of objects and one of entries
have every sort of link the code distinguishes: create-only and settable, mandatory and conditional, in attributes and
in keys. Where the code prefers one of several candidates (labels, the graph around an object, equal attributes), the
model takes any, so that the results do not depend on these heuristics. Real ids are written as the current virtual ids.

**SyncdRestart, MCSyncdRestart.** A crash between any two writes to redis or to the ASIC, and what the next cold
or warm start makes of the remains. Requests, discovery and the database update of APPLY_VIEW are programs
of single writes. A syncd that fails is in shutdown-wait mode, by its own doing (`failed`) or because the vendor refused the
switch or an object in a start (`refused`: `StartRefused`, `NoVidLeft`); it can be shut down cold or warm from there. Entries may
be of types the reiniter does not know (`otherEntry`, inseg entries): the start throws when it reads one.

**CallChannel** with the abstract **RemoteCall.** A call over redis or ZeroMQ: the library's wait and timeout, late
answers, reconnecting sockets, the polling thread of syncd, its main loop, exceptions and shutdown-wait mode. A handler
answers once, but INSPECT_ASIC before any view has been applied answers twice (`AnswersAgain`): over redis the second
answer stays for a later NOTIFY, over ZeroMQ the socket refuses it after `m_allowZmqPoll` has been set again, and from then
on two threads may be on it (`Aborts`). The history variable `twice` holds the requests this happened to.
`RemoteCall` says what a caller may rely on; `ImplementsRemoteCall` is the refinement.

**Meta, MCMeta** with the abstract **ObjectGraph.** The client's object database with the bookkeeping after each kind
of call, the removal of ports and switches with what belongs to them, bulk calls (bulk set and get are sequences
of single ones), FDB flush and late notifications. `ObjectGraph` says that references lead to known objects of the
same switch and that nothing in use is removed; `ImplementsObjectGraph` is the refinement.

**FlexCounter, MCFlexCounter.** A group of counters: the tables of single and bulk polls, splitting and merging of
bulks by prefixes, and the polling thread with its two waits. Of the counters that are asked for, those in `Doubtful` may
be unsupported (`Supported`), unreadable, or refused in bulk for some objects: nothing is added (`AddNothing`), the object
gets fewer counters, or it is polled alone, or not at all for a part (`ok` and `read` of `BulkAddCounter`). `wanted` is
what a client may expect after these answers. A history variable, `careless`, records that a
call was made the tables are not made for; two properties say nothing from then on.

**NotificationProofs, OidTranslatorProofs, CallChannelProofs, MetaProofs, FlexCounterProofs, SyncdViewProofs,
SyncdRestartProofs, ViewTransitionProofs.** Theorems and proofs, each about the specification it is named after;
`NotificationProofs` is about what a notification passes on its way: `NotificationStorm`, `NotificationThread` and
`LinkEventDamping`, whose definitions therefore have names of their own (`StormSpec`, `DampingSpec`).

Operators that only serve as deliberately broken variants (for example `UpdateTempNot`,
`EraseFromCacheOnly`) stand right before the definition they vary; no specification uses them. They are
what the properties are tested against.

## Runs that pass

| Run | Checks | Shows |
|---|---|---|
| `notification_storm` | `FdbWithinLimit`, `StormBound` | FDB events never sit beyond the limit; each run of equal events pushes the queue at most `ThresholdLimit - 1` further |
| `notification_thread` | `HandledApartFromEvents`, `SignalledBacklogIsTaken`, `StopFromWaitReturns` | handlers and main events exclude each other (flow bulk events excepted); a signal that finds the thread waiting drains the backlog; a stop that finds it waiting returns |
| `oid_translator` | `TypeOK`, `MapsInverse`, `CachesCoherent`, `IdleMapsAreLive`, `VidsNotReused`, `CheckedFdbTranslates` | the copies of the mapping agree at every step the code relies on them, with concurrent draws of ids, reused real ids, removals that throw and view switches |
| `view` | `DbMirrorsAsic`, `AppliedViewIsRequested`, `InitViewDataIsInTemp` | synchronous and asynchronous mode, single and bulk requests, any vendor failures, one restart of OA: the database mirrors the ASIC, the temporary table is the view OA builds, an applied view is that view, and what was removed one by one is gone |
| `view_answers` | `NotifyIsAnswered` | every NOTIFY is answered, with exceptions, shutdown-wait mode and an OA that dies while it waits; only an INSPECT_ASIC whose handler throws is not |
| `damping` | `PendingIsReleased`, `SuppressedIsRemembered`, `DecayEndsInTime`, `SuppressedIsDelivered` | a suppressed status is remembered and delivered unless an event went past the damping state |
| `call_channel` | `OneThreadOnSocket`, `ImplementsRemoteCall`, `RequestIsTaken` | a call gets its own answer or none over ZeroMQ, over redis at worst a late one of its kind, and none twice but for the doubled answer to a first INSPECT_ASIC; until such a request the two threads of syncd never share the socket |
| `restart` | `UpMeansConsistent`, `ComesUpUnlessTorn`, `RestartKeepsView` | two crashes anywhere: syncd refuses to come up, or the ASIC and the database agree; crashes outside of related writes, and starts the vendor refuses, lose nothing and let syncd come up again, unless there is an entry of a type the reiniter does not know |
| `meta` | `CountsAreReferences`, `RelatedAreKnown`, `ImplementsObjectGraph` | counts are the references there are, through throwing removals, partial bulks and late notifications; nothing in use is removed |
| `flex_counter` | `BulkInStep`, `RemovedIsNotPolled`, `AddedIsPolled`, `WaitsOnlyIfIdle`, `EndReturns` | what was asked for and the vendor answers for is polled, under its own name, and nothing else; the thread does not sleep over work and does not keep the destructor waiting |
| `view_transition` | `CountsAreReferences`, `ComparisonPasses`, `OperationsSucceed`, `ViewIsReached`, `BreakComesFirst`, `NewViewIsClosed` | between any two views of the instance, in any order and with any candidates: the comparison passes its own checks, and throws only for a matched object that cannot be updated or under a break configuration; the reordered operations are never refused, the ASIC ends with the requested view, and a kind to be broken first never outgrows its limit |

The `TypeOK` of the other specifications is not part of a run: it documents the variables and is there for proofs to
start from.

### Bounds

* storm: limit 2, threshold 3, 8 items, 4 runs of up to 6 equal events (`MaxRunLength`): enough for the queue to pass
  its limit by several runs.
* thread: limit 1, threshold 2, 3 items, runs of up to 3, two callbacks: drops, a backlog and two racing signals.
* translator: 2 real ids, 4 virtual ids, one waiting notification: a real id can be used three times, two
  objects can swap roles in a view switch; the real ids are symmetric.
* views: a default object and one that only OA creates, at most one value besides the default, queues of 1
  (synchronous: OA has one request outstanding) or 2 (asynchronous: a batch of two can hold INIT_VIEW and a
  create), one restart of OA, which is what it takes for a second view to meet the remains of a first. A bulk names
  both objects. Once syncd is in shutdown-wait mode OA only sends commands: the rest is dropped.
  In `view_answers` there is only the switch, with one value, which INSPECT_ASIC may stumble over, and OA may die while it
  waits, so that a new OA meets old answers: whether a NOTIFY is answered does not depend on what else there is.
* damping: one port (the ports are independent but for being sent together), 6 link changes, 4 configuration
  requests, two configurations: in one a single flap starts damping, in the other two close ones.
  6 changes are a damped port, its release and another flap.
* channel: 3 calls, one restart of the caller: a late answer, its victim and the call after it.
* restart: 5 virtual ids, a switch with two more objects of which one can be removed, one that a firmware adds, one
  object of OA and an entry, of a type the reiniter knows or, without an upgrade, not; two crashes, the second of which meets the remains of
  the first. What follows a crash in a discovery or a warm shutdown in shutdown-wait mode is the next start only
  (`Followed`, `LeftOpen`): no property is about it.
* meta: two switches, a port with a queue, two objects of the client, an entry on each switch, one object with a
  list that is not empty.
* flex counters: two objects, two counters, a prefix that matches one of them: a split, a merge and a bulk shared by
  both objects. The vendor supports both counters in bulk or one of them, and answers for one of them as it likes;
  requests remove one of the objects (`Removable`).
* transition: current views with one port, up to two groups and a member with an entry, requested views with matched
  or new groups and a matched or new member, with every choice of matched objects that cannot be updated 30,352 starts
  in all (1,223,119 states): every action has several objects to choose from, and a remove can meet a set and a remove
  that free its object.

Deadlock checking is off where the system may stop: a terminated or stopped process, a vendor without free
ids, an OA that has no restart left, a client without calls left.

### Fairness

* `NotificationThread`: weak fairness of the running threads; strong fairness of taking `Syncd::m_mutex`, which
  main releases between events: the mutex is not fair in theory, but main blocks in select between
  events. Nothing is assumed of callbacks, spurious wakeups or a shutdown request.
* `SyncdView`: weak fairness of syncd's loop and of a waiting OA that has an answer. OA need not send, and
  timeouts and restarts need not happen.
* `LinkEventDamping`: time passes; the notification thread, the timer thread (once a second) and the main
  loop (select wakes once a second) run; a send that is tried again and again succeeds at last
  (strong fairness of `SendBatch`). The number of link changes is bounded: a link that flaps for ever may be
  suppressed for ever, since every DOWN event restarts the suppression time.
* `CallChannel`: weak fairness of syncd's main loop and of its polling thread; timeouts and restarts need not happen.
* `FlexCounter`: weak fairness of the polling thread and of the join in the destructor; no request need come.

## The run that finds a disagreement

`notify_in_shutdown_wait` checks `NotifyIsTakenInShutdownWait` and fails: over ZeroMQ, a handler that throws before it
answers, or a request that shutdown-wait mode ignores, leaves the socket owing an answer. The polling thread
waits for it, and the INIT_VIEW of a restarted OA, which shutdown-wait mode is there to refuse, is never read.
The finding in `PROJECT.json` quotes the comment this contradicts.

Further limits met while modelling are excluded by the properties' hypotheses or by the bounds and are listed
here, some of them with the hazards too:

* notifications: a signal before the thread's wait is lost, the item stays queued until the next notification, and a
  stop in the same window hangs; flow bulk events are handled without `Syncd::m_mutex`; a BFD session removed while
  its notification is queued makes the notification thread throw; a real id that the vendor gives to a new object is
  reported as the new one by notifications still queued about the old;
* views: a GET in init view mode undoes an earlier SET or remove; a bulk remove in init view mode is recorded as a create
  and a default object it names comes back at APPLY_VIEW; in asynchronous mode with bulk support of the vendor a bulk that
  fails is not noticed and stays in `ASIC_STATE` (`AsyncBulk`); the attributes of a switch created in init view mode
  are unknown to `ASIC_STATE`; INSPECT_ASIC on the very first run is answered twice, which shifts the later answers over
  redis and brings two threads on the socket over ZeroMQ (`CallChannel`), and one that throws is not answered at all;
  an OA that dies while it waits leaves an answer that its successor takes for its own; in asynchronous mode
  shutdown-wait mode still writes the requests it ignores to `ASIC_STATE`;
* comparison: a create-only object id transferred to a matched object keeps the id of the current view also when the
  object it names was matched to a new one, so that the new `ASIC_STATE` holds an id without an object; a matched object
  with an attribute in one view only that cannot be changed makes every APPLY_VIEW of that view throw;
* restart: a crash in the middle of related writes can keep syncd from coming up, one in a discovery leaves objects
  out of the database; requests the consumer has taken out of redis are lost; an inseg entry in `ASIC_STATE` keeps every
  cold start from coming up; a warm shutdown in shutdown-wait mode is followed by a warm start that takes the database and
  the ASIC as they are, also where an asynchronous request was refused by the vendor; in shutdown-wait mode a restart
  request first has the queued requests processed (`Syncd.cpp:6895`), which the model leaves out;
* metadata: a late FDB notification brings back what is no longer on the switch; a port removal that throws half way
  leaves relations to objects that are gone; a consolidated FDB flush drops the entries of every switch; a bulk that
  names an object twice passes the checks;
* flex counters: objects added again with other counters, refused merges, unreadable prefixes and counters no bulk
  supports leave an object polled after its removal or not polled at all; of several parts of an object's counters that
  are not supported in bulk only the last is polled (found when the proof of `AddedIsPolled` failed); a bulk request
  that names an object already gone adds it with a null id;
* damping: the link may go down while the main loop holds a batch that says UP, and the older status is sent last;
  `last_decay_time_ms` stands still while the penalty is 0; damping that is turned off while a port is damped leaves its
  suppressed status undelivered; a configuration with a lower ceiling, set while a port is damped, leaves it a penalty that
  outlasts the new `max_suppress_time`, so that only the time-out ends the damping (found when the proof of
  `DecayEndsInTime` failed without `OneCeiling`).

## Proofs

All theorems hold for every value of the constants that meets the named assumptions.

**NotificationProofs.** *The queue in a storm* (assumptions: `FdbEvent` is an event, the limit is a natural number, the
threshold a positive one). `FdbStormBounded`, inductive together with the types: an FDB event is
only appended to a queue below the limit and only moves forward; `StormBounded`, which needs a strengthening
that relates the length of the queue to the run in progress: while the queue is at its limit, the items
beyond it are at most `ThresholdLimit - 1` for each finished run plus the length of the current one.

*The notification thread* (also: the flow bulk event is an event other than the FDB event). `TypeCorrect`, and
`HandlersApart` from the invariant that whoever is inside owns `m_mutex` (`MutexOwner`), for any number of callback threads.

*Link event damping*, for any ports and configurations. `PendingStaysReleased`: `PendingIsReleased` with
the shape of the port records is inductive. `SuppressedStaysRemembered` needs `ToldInv`, which follows a status through
the three threads: the last event of a port that is still queued tells the status of its link (`LastTells`), what the
notification thread is about to send is what it has just recorded as advertised (`NtfHolds`), and what the main loop
has in its batch is the status of a port that is still pending, so that an acknowledgement closes exactly what was sent
(`BatchHolds`). The lemmas say what each operator of the algorithm does to flags and statuses; the values of the
penalties play no part in these two. `DecayStaysInTime` is about the penalties alone (assumptions: ages are counted far
enough, `AgeAssumption`, and `PowerLaw`, the law of exponents the provers do not have). Its invariant `Earned` bounds the penalty
*as if it were decayed now* by what is left of the suppression time, and not only for the configuration in force but for
every one OA may set, since a request exchanges the configuration of a damped port; the property itself, about the
configuration in force, is not inductive. That is also why the configurations are to have one ceiling.

**OidTranslatorProofs** (assumptions: finitely many real ids, none of them null; the last index is a natural number). One inductive
invariant `IInv` carries all results. `MapsInverse` and `CachesCoherent` are not inductive alone:
a request is several steps, so `WorkInv` says what the pairs still to be processed are in each phase
(not mapped yet, still mapped, removed from the hashes), `LiveInv` that mapped ids which no request is
about to remove are on the ASIC (until a removal throws, after which no request runs), `FreshInv` that ids beyond the
counter and ids OA has drawn but not created name nothing, and `NtfInv` what the mutex protects between the two halves
of the FDB handler. `Invariance` proves it with one lemma for each action that changes the maps; `TypeCorrect`, `MapsStayInverse`,
`CachesStayCoherent`, `NoMappingLeaks`, `VidsNeverReused` and `CheckedFdbEventsTranslate` follow from it.

**CallChannelProofs** (at least one call; any number of restarts of the caller). `SocketHasOneThread` rests on
`PollInv`: `m_allowZmqPoll` is cleared before the polling thread enters its poll, so it is clear, and the thread out of
the poll, from the wake-up of the main thread to its answer, as long as no request has been answered twice; that
condition is needed, because a second answer sets the permission again while the thread may be in its poll.
`ImplementsCalls` is the refinement of `RemoteCall`, from `CallInv` (theorem `CallsInvariant`): calls are made one
after the other and used answers are not newer than their calls (`CallsInOrder`), a request is in the queue, with
syncd, or handled, never two of these (`TakenOnce`); over redis everything under way is in order, a second answer right
after the first one (`Rank`), and newer than every used answer (`RedisInOrder`), and over ZeroMQ the current socket
has one request or one answer under way, which is the pending call's (`ZmqOneInFlight`). The actions of the caller map to
actions of `RemoteCall` one by one, those of syncd to its handling or to stuttering.

**MetaProofs** (assumptions: finitely many ids; an object has one switch; switches, ports and members are among the ids).
`MetaInv` is the conjunction of `DbInv` (types, `CountsAreReferences`, and that references lead to known objects of the
same switch) and `PortInv` (ids that were given out are never given out again, related objects were given out, and those
on the switch are known and belong to that port). The counts need closedness: a set that takes a reference
away may only decrement a count that is there. `TypeCorrect`, `CountsRight`, `RelatedKnown`, `GraphClosed` follow, and
`ImplementsGraph` shows each call and notification to be a step of `ObjectGraph`, or none.

**FlexCounterProofs** (assumptions: finitely many objects and counters). `NoLostNotice`: `WaitsOnlyIfIdle` with the
states of a group that does not exist (`ThreadInv`). The tables have the invariant `TablesInv`: the lists of each bulk are in
step, and, while no careless call was made, an object is in one bulk at most when there are no prefixes, everything polled
was asked for, and everything asked for that the vendor answers for is in a bulk or polled alone (`Tidy`), whatever it
supports, refuses or cannot read. The first of these is what the removal relies on,
which then stops at the first bulk that has the object. `BulksStayInStep`, `RemovedStaysRemoved`, `AddedStaysPolled` and
`TypeCorrect` follow. The lemmas about `SplitOrMerge`, `AddAllTo` and `TakeFrom` say what bulks an object is in afterwards.

**SyncdViewProofs** (the module's assumptions on ids and values, and `OneAtATime`). `TableMirrorsAsic`, `TempHasInitView` and
`AppliedIsRequested` hold in synchronous mode for any objects, values, bulk requests, vendor failures and number of
restarts of OA, provided that OA does not die while it waits and does not use INSPECT_ASIC. Both exclusions are
needed: an answer that is left over, or the second answer to a first INSPECT_ASIC, shifts every later one (see the
limits above), and then what OA believes is not what it was told. `SyncInv` says that one request or one answer is under way,
or none because syncd threw (`Flow`), and describes the views by what OA knows *once it has the answer under way*
(`Known`, `KnownPhase`), because syncd changes ASIC and tables when it answers and OA learns of it later: the table mirrors
the ASIC, in normal mode the ASIC has what is known and otherwise untouched default objects only (`OnAsic`), in init view
mode the temporary table has it (`InTemp`), and without its switch OA knows nothing (`SwitchFirst`). `OneAtATime` restricts
constants, so TLC covers the rest on its instance: asynchronous mode, where a batch is a fold of writes over a
sequence, and its invariant would need induction over that sequence.

**SyncdRestartProofs** (assumptions: `IdAssumption`, the kinds of ids are apart, and `SwitchIsLarge`, a switch has more objects
that cannot be removed than the threshold above which syncd takes a database for that of a running switch). `UpIsConsistent`,
`ComesUp` and `ViewIsKept`, for any objects, entries, requests, upgrades and number of crashes. Between two writes of a request or
of a start the tables and the ASIC disagree, so `RestartInv` (theorem `RestartInvariant`) has a stage for each step of each program,
which says what they will be when the writes that are left have been done: for a request that `Agree` holds then, for a cold start
which objects have been rebuilt from what was read, for the replacement of the id maps which maps they are to become. A crash
may leave any of these states to the next start; `Safe` is what they have in common: if the database has a switch and
id maps, either all objects of the switch that cannot be removed are in `VIDTORID`, or there are too many keys for a
first boot and some of them have no id, so that `checkAllIds` stops the start. `RestartInv` holds under `Followed`: a
crash in a discovery and a warm shutdown in shutdown-wait mode are excepted, as in the property. In shutdown-wait mode
the invariant is `Rest`, for starts that the vendor refused as for those that threw; a start that threw although no
crash cut anything in two found no switch, or an entry the reiniter does not know.

**ViewTransitionProofs** (assumptions: `ViewsAssumption`, views are finite and closed, only members belong to a group
and groups have no links; `KindsAssumption`, the kinds of ids are apart). `CountsStayRight`, `ComparisonGetsThrough`,
`NoOperationFails`, `AsicHoldsTheView`, `BreakStaysFirst` and `NewViewStaysClosed` for any views, any order of
processing, any choice of candidates and any break configuration. `TransitionInv` (theorem `TransitionInvariant`) has a
part for each structure.

* *The views.* The current view is closed and its counts are right (`ViewInv`, kept by each operation of `AsicView`, for which
  the removal of an object needs its count to be zero and the count to be right). Processed objects of the temporary view and final
  objects of the current view belong together one to one (`MatchInv`), which at the end gives the equal numbers that `compareViews`
  checks, and have the same values (`ValuesInv`). A throw without a break configuration is that of a matched object in `oneSided`:
  every other object can be created instead.
* *The operations issued*, seen as a set (`OpsInv`). The current view is what they make of the ASIC at the start, in whatever
  order (`Applied`): that is well defined because there is at most one for each object, but that an entry may be removed and created
  (`OnePerKey`). `Needs` says what each must come after, and `LastInv` what the code remembers in `m_vidToAsicOperationId`: once
  nothing refers to an object, no reference to it was ended by a later operation than the one noted.
* *The list and its execution.* `Sorted`: creates and sets come after every operation with a smaller number, and the
  remove of an object after whatever ends each reference to it. `PlaceOperation` keeps this; from it and `Needs` each operation is
  accepted in its turn, the ASIC is at any time what the executed ones make of the start (`ExecInv`), and therefore at
  the end it is the current view.
* *The number of groups* under a break configuration, a second invariant (`LimitInv`). The current view never has more
  groups than the start or the request: a group is made in place of another, or when all that are left are requested
  (`RoomForOne`). For each create of a group the count right after it is kept (`CreatesFit`), and `Sorted` carries this
  over to the ASIC, where at that create all earlier removes have been executed, and perhaps later ones.

TLC agrees with each of these inductive invariants on the instance of its run (in `SyncdViewProofs`, restricted by `OneAtATime`).

Only model-checked: all liveness properties (fairness is out of the prover's reach); and `SyncdView` in asynchronous mode.

## Not modelled

The preference among candidates in the comparison logic, default values other than a null id and objects that are brought
to their defaults instead of removed; bulk requests about entries in syncd; statistics and capability
queries; contents of FDB notifications (their ids are in `OidTranslator`); disabled temporary views; attribute
validation other than references; values, chunk sizes and plugins of flex counters; port removal as seen by
damping; 32-bit overflow of penalties; the layout of virtual object ids; the watchdog. Serialization, recording, the
virtual and the VPP switch, the proxy, the client/server transport and the tools convert or forward data and keep no
state that a property here would be about; together they are most of the repository's lines.

## Plan

1. Watchdog threads; layout of virtual object ids.
