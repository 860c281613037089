------------------------------- MODULE Gateway -------------------------------
(***************************************************************************)
(* RouterGatewayService for one router: the live snapshot, the readers     *)
(* that ask for it, the RouterLiveCollector that keeps it, and the         *)
(* activation sync that feeds it in their place.  What a router reports    *)
(* is a version number that grows; a snapshot holds the versions of its    *)
(* session list, of its session count and of its resource figures.  Ages   *)
(* and dates are the classes the code compares.                            *)
(***************************************************************************)
EXTENDS Integers, Sequences, FiniteSets

CONSTANTS Readers,     \* calls of getLiveSnapshot awaiting at once
          Refreshes,   \* names of refreshes under way at once
          Syncs,       \* activation syncs: one has the lock, others outlived it
          Feeds,       \* configurations to start from
          MaxVersion,  \* bound on the changes of the router's state
          MaxWatchers, \* bound on the open screens
          MaxOverruns  \* bound on the deadlines that pass

ASSUME GatewayAssumption ==
  /\ IsFiniteSet(Refreshes) /\ IsFiniteSet(Syncs)
  /\ Feeds \subseteq {"none", "sync", "stats"}
  /\ MaxVersion \in Nat /\ MaxWatchers \in Nat /\ MaxOverruns \in Nat

None == "none"
Unread == -1

ASSUME NamesAssumption == None \notin Refreshes /\ None \notin Syncs

VARIABLES
  feed,      \* "none", or the sync gives the sessions: "sync", and after it
             \* the resource figures are read: "stats"
  version,   \* of what the router reports
  value,     \* entry.value
  age,       \* of value.lastSuccessAt
  entry,     \* the other fields of the Entry
  refresh,   \* the refreshes: commands left, and what was read
  reader,    \* the refresh a caller awaits
  collector, \* the collector's target and its State
  sync,      \* the syncRouter calls
  lock,      \* the sync in syncRoutersInFlight
  overruns

vars == <<feed, version, value, age, entry, refresh, reader, collector, sync,
          lock, overruns>>

NoValue == [list |-> Unread, count |-> Unread, stats |-> Unread,
            health |-> None, os |-> None]
Known == value # NoValue
Fed == feed # "none"
Done == [todo |-> <<>>, list |-> FALSE, got |-> Unread, res |-> Unread]

Init ==
  /\ feed \in Feeds /\ version = 0
  /\ value = NoValue /\ age = "old"
  /\ entry = [inflight |-> None, watchers |-> 0, managed |-> FALSE,
              cooling |-> FALSE, syncError |-> FALSE, syncBusy |-> FALSE,
              statsInflight |-> FALSE, statsDue |-> TRUE]
  /\ refresh = [f \in Refreshes |-> Done]
  /\ reader = [r \in Readers |-> None]
  /\ collector = [usable |-> TRUE, target |-> FALSE, running |-> None, due |-> TRUE]
  /\ sync = [s \in Syncs |-> [pc |-> "idle", rows |-> Unread]]
  /\ lock = None /\ overruns = 0

-----------------------------------------------------------------------------
(* refresh: one connection, its commands in order, then the snapshot.       *)

StartRefresh(f, commands, list) ==
  /\ refresh[f] = Done
  /\ refresh' = [refresh EXCEPT ![f] = [todo |-> commands, list |-> list,
                                        got |-> Unread, res |-> Unread]]
  /\ entry' = [entry EXCEPT !.inflight = f]

\* What the answer to the next command leaves.
Answered(f, ok) ==
  LET r == refresh[f] IN
  [r EXCEPT !.todo = Tail(@),
            !.got = IF Head(r.todo) = "sessions" THEN version ELSE @,
            !.res = IF ok /\ Head(r.todo) = "resource" THEN version ELSE @]

\* The collector has its sessions already when the resource figures fail.
Survives(f, ok) ==
  ok \/ (Head(refresh[f].todo) = "resource" /\ refresh[f].got # Unread)

\* Whoever awaited refresh f goes on.
Resolve(f) ==
  /\ refresh' = [refresh EXCEPT ![f] = Done]
  /\ reader' = [r \in Readers |-> IF reader[r] = f THEN None ELSE reader[r]]
  /\ collector' = IF collector.running # f THEN collector
                  ELSE [collector EXCEPT !.running = None, !.due = FALSE]

RefreshGoesOn(f, ok) ==
  /\ refresh[f].todo # <<>> /\ Survives(f, ok) /\ Answered(f, ok).todo # <<>>
  /\ refresh' = [refresh EXCEPT ![f] = Answered(f, ok)]
  /\ UNCHANGED <<feed, version, value, age, entry, reader, collector, sync,
                 lock, overruns>>

RefreshSucceeds(f, ok) ==
  /\ refresh[f].todo # <<>> /\ Survives(f, ok) /\ Answered(f, ok).todo = <<>>
  /\ LET r == Answered(f, ok) IN
     value' = [list |-> IF r.list THEN r.got ELSE value.list, count |-> r.got,
               stats |-> IF r.res # Unread THEN r.res ELSE value.stats,
               health |-> "ONLINE", os |-> "RESPONSIVE"]
  /\ age' = "fresh"
  /\ entry' = [entry EXCEPT !.cooling = FALSE, !.inflight = None]
  /\ Resolve(f)
  /\ UNCHANGED <<feed, version, sync, lock, overruns>>

\* A failed read costs the tunnel's state only when nobody manages the router.
Failed(v, slow) ==
  IF v = NoValue THEN v
  ELSE [v EXCEPT !.health = IF entry.managed THEN @ ELSE "OFFLINE",
                 !.os = IF slow THEN "SLOW" ELSE "UNREACHABLE"]

\* Mutant: the error handler leaves the settled promise in place.
AfterFailureStuck == [entry EXCEPT !.cooling = TRUE]
AfterFailure == [entry EXCEPT !.cooling = TRUE, !.inflight = None]

RefreshFails(f) ==
  /\ refresh[f].todo # <<>> /\ ~Survives(f, FALSE)
  /\ \E slow \in BOOLEAN : value' = Failed(value, slow)
  /\ entry' = AfterFailure
  /\ Resolve(f)
  /\ UNCHANGED <<feed, version, age, sync, lock, overruns>>

-----------------------------------------------------------------------------
(* getLiveSnapshot.  An answer from the cache, an unknown state and a        *)
(* cooling refusal change nothing.                                           *)

OnDemand == <<"resource", "sessions">>

\* A stale snapshot is served at once, and a refresh started behind it.
ReaderRefreshes(f) ==
  /\ Known /\ ~Fed /\ ~entry.managed /\ age = "stale"
  /\ entry.inflight = None /\ ~entry.cooling
  /\ \E want \in BOOLEAN : StartRefresh(f, OnDemand, want \/ entry.watchers > 0)
  /\ UNCHANGED <<feed, version, value, age, reader, collector, sync, lock, overruns>>

MustWait == ~Fed /\ IF Known THEN ~entry.managed /\ age = "old" ELSE TRUE

ReaderJoins(r) ==
  /\ reader[r] = None /\ MustWait /\ entry.inflight # None
  /\ reader' = [reader EXCEPT ![r] = entry.inflight]
  /\ UNCHANGED <<feed, version, value, age, entry, refresh, collector, sync,
                 lock, overruns>>

ReaderMisses(r, f) ==
  /\ reader[r] = None /\ MustWait /\ entry.inflight = None /\ ~entry.cooling
  /\ \E want \in BOOLEAN : StartRefresh(f, OnDemand, want \/ entry.watchers > 0)
  /\ reader' = [reader EXCEPT ![r] = f]
  /\ UNCHANGED <<feed, version, value, age, collector, sync, lock, overruns>>

\* A screen opens its event stream, or closes it.
Watch ==
  /\ \E n \in {entry.watchers + 1, entry.watchers - 1} :
       n \in 0..MaxWatchers /\ entry' = [entry EXCEPT !.watchers = n]
  /\ UNCHANGED <<feed, version, value, age, refresh, reader, collector, sync,
                 lock, overruns>>

-----------------------------------------------------------------------------
(* RouterLiveCollector.                                                      *)

\* refreshTargets: a router that is no target any more loses its State, even
\* while a cycle of it is running.
RefreshTargets ==
  LET target == collector.usable /\ ~Fed IN
  /\ entry' = [entry EXCEPT !.managed = target]
  /\ collector' = IF collector.target /\ ~target
                  THEN [collector EXCEPT !.target = FALSE, !.running = None, !.due = TRUE]
                  ELSE [collector EXCEPT !.target = target]
  /\ UNCHANGED <<feed, version, value, age, refresh, reader, sync, lock, overruns>>

CycleDue == collector.target /\ collector.running = None /\ collector.due

\* Mutant: collect does not look for a read under way.
CollectableAnyway == TRUE
Collectable == entry.inflight = None

CycleStarts(f) ==
  /\ CycleDue /\ Collectable
  /\ \E stats \in BOOLEAN :
       StartRefresh(f, IF stats THEN <<"sessions", "resource">> ELSE <<"sessions">>, TRUE)
  /\ collector' = [collector EXCEPT !.running = f]
  /\ UNCHANGED <<feed, version, value, age, reader, sync, lock, overruns>>

\* collect answers null: the cycle comes back two ticks later.
CycleSkips ==
  /\ CycleDue /\ ~Collectable
  /\ collector' = [collector EXCEPT !.due = FALSE]
  /\ UNCHANGED <<feed, version, value, age, entry, refresh, reader, sync, lock, overruns>>

\* The cycle's deadline: its State is free, the refresh goes on.
CycleOverruns ==
  /\ collector.running # None /\ overruns < MaxOverruns
  /\ collector' = [collector EXCEPT !.running = None, !.due = FALSE]
  /\ overruns' = overruns + 1
  /\ UNCHANGED <<feed, version, value, age, entry, refresh, reader, sync, lock>>

-----------------------------------------------------------------------------
(* The sync of a router that is fed by it: publishSessions,                  *)
(* noteSyncReadFailure, syncStarted, syncFinished, and the resource read it  *)
(* leaves room for.  Of a router that is not fed, all these return at once.  *)

Published(rows) ==
  [value EXCEPT !.list = rows, !.count = rows, !.os = "RESPONSIVE",
                !.health = IF Known THEN @ ELSE "ONLINE"]

\* noteSyncReadFailure: the snapshot stays, and says that the API is in trouble.
ReadFailed(e) == [e EXCEPT !.syncError = TRUE, !.cooling = TRUE]
Troubled(v, slow) ==
  IF v = NoValue THEN v ELSE [v EXCEPT !.os = IF slow THEN "SLOW" ELSE "UNREACHABLE"]

\* maybeStartStatsRead: a router in trouble is left alone.
StatsMayStart(e, v) ==
  /\ ~e.syncBusy /\ ~e.statsInflight /\ e.inflight = None
  /\ v # NoValue /\ ~e.syncError /\ e.statsDue

\* Mutant: syncFinished keeps syncBusy.
FinishedBusy(e, v) == e
Finished(e, v) ==
  IF feed # "stats" THEN e
  ELSE LET free == [e EXCEPT !.syncBusy = FALSE]
       IN [free EXCEPT !.statsInflight = @ \/ StatsMayStart(free, v)]

\* syncRouter: the lock, and the mutual lock with the resource read.
\* Mutant: the sync does not look for a resource read.
SyncMayStartAnyway == lock = None
SyncMayStart == lock = None /\ ~entry.statsInflight

SyncStarts(s) ==
  /\ Fed /\ SyncMayStart /\ sync[s].pc = "idle"
  /\ lock' = s
  /\ sync' = [sync EXCEPT ![s] = [pc |-> "read", rows |-> Unread]]
  /\ entry' = [entry EXCEPT !.syncBusy = (feed = "stats")]
  /\ UNCHANGED <<feed, version, value, age, refresh, reader, collector, overruns>>

SyncReads(s) ==
  /\ sync[s].pc = "read"
  /\ sync' = [sync EXCEPT ![s] = [pc |-> "reconcile", rows |-> version]]
  /\ UNCHANGED <<feed, version, value, age, entry, refresh, reader, collector,
                 lock, overruns>>

\* syncRouter returns with the entry e and the snapshot v its work has left.
SyncReturns(s, e, v) ==
  /\ value' = v
  /\ entry' = IF lock = s THEN Finished(e, v) ELSE e
  /\ lock' = IF lock = s THEN None ELSE lock
  /\ UNCHANGED <<feed, version, refresh, reader, collector>>

SyncEnds(s) == sync' = [sync EXCEPT ![s] = [pc |-> "idle", rows |-> Unread]]

\* Past the deadline nobody looks at the failure of the read.
SyncReadFails(s) ==
  /\ sync[s].pc = "read" /\ SyncEnds(s)
  /\ IF lock = s
     THEN \E slow \in BOOLEAN : SyncReturns(s, ReadFailed(entry), Troubled(value, slow))
     ELSE SyncReturns(s, entry, value)
  /\ UNCHANGED <<age, overruns>>

SyncPublishes(s) ==
  /\ sync[s].pc = "reconcile" /\ SyncEnds(s)
  /\ SyncReturns(s, [entry EXCEPT !.syncError = FALSE, !.cooling = FALSE],
                 Published(sync[s].rows))
  /\ age' = "fresh" /\ UNCHANGED overruns

\* A database call of reconcileActive throws: the list is not published.
SyncReconcileFails(s) ==
  /\ sync[s].pc = "reconcile" /\ SyncEnds(s)
  /\ SyncReturns(s, entry, value)
  /\ UNCHANGED <<age, overruns>>

\* The deadline of syncRouter releases its lock and lets the work go on.
SyncOverruns(s) ==
  /\ lock = s /\ overruns < MaxOverruns
  /\ overruns' = overruns + 1
  /\ IF sync[s].pc = "read"
     THEN \E slow \in BOOLEAN : SyncReturns(s, ReadFailed(entry), Troubled(value, slow))
     ELSE SyncReturns(s, entry, value)
  /\ UNCHANGED <<age, sync>>

\* readStatsOnly: the resource figures, on the snapshot of that moment.
AfterStats == [entry EXCEPT !.statsInflight = FALSE, !.statsDue = FALSE]

StatsSucceeds ==
  /\ entry.statsInflight
  /\ value' = [value EXCEPT !.stats = version]
  /\ entry' = AfterStats
  /\ UNCHANGED <<feed, version, age, refresh, reader, collector, sync, lock, overruns>>

\* A failure or the deadline; what answers later changes nothing any more.
\* Mutant: only a success releases the lock.
StatsFailsHolding == [entry EXCEPT !.statsDue = FALSE]
AfterStatsFailure == AfterStats

StatsFails ==
  /\ entry.statsInflight
  /\ entry' = AfterStatsFailure
  /\ UNCHANGED <<feed, version, value, age, refresh, reader, collector, sync, lock,
                 overruns>>

-----------------------------------------------------------------------------
(* The router, its configuration, and time.                                  *)

RouterChanges ==
  /\ version < MaxVersion /\ version' = version + 1
  /\ UNCHANGED <<feed, value, age, entry, refresh, reader, collector, sync, lock, overruns>>

UsableChanges ==
  /\ collector' = [collector EXCEPT !.usable = ~@]
  /\ UNCHANGED <<feed, version, value, age, entry, refresh, reader, sync, lock, overruns>>

Ages ==
  /\ Known /\ age # "old"
  /\ age' = IF age = "fresh" THEN "stale" ELSE "old"
  /\ UNCHANGED <<feed, version, value, entry, refresh, reader, collector, sync, lock,
                 overruns>>

CoolsDown ==
  /\ entry.cooling /\ entry' = [entry EXCEPT !.cooling = FALSE]
  /\ UNCHANGED <<feed, version, value, age, refresh, reader, collector, sync, lock,
                 overruns>>

StatsFallDue ==
  /\ ~entry.statsDue /\ entry' = [entry EXCEPT !.statsDue = TRUE]
  /\ UNCHANGED <<feed, version, value, age, refresh, reader, collector, sync, lock,
                 overruns>>

CycleFallsDue ==
  /\ ~collector.due /\ collector' = [collector EXCEPT !.due = TRUE]
  /\ UNCHANGED <<feed, version, value, age, entry, refresh, reader, sync, lock, overruns>>

-----------------------------------------------------------------------------
RefreshStep(f) ==
  \/ \E ok \in BOOLEAN : RefreshGoesOn(f, ok) \/ RefreshSucceeds(f, ok)
  \/ RefreshFails(f)

CycleStep == (\E f \in Refreshes : CycleStarts(f)) \/ CycleSkips

SyncStep(s) ==
  SyncReads(s) \/ SyncReadFails(s) \/ SyncPublishes(s) \/ SyncReconcileFails(s)

StatsStep == StatsSucceeds \/ StatsFails

Next ==
  \/ \E f \in Refreshes : RefreshStep(f) \/ ReaderRefreshes(f)
  \/ \E r \in Readers : ReaderJoins(r) \/ \E f \in Refreshes : ReaderMisses(r, f)
  \/ Watch
  \/ RefreshTargets \/ CycleStep \/ CycleOverruns
  \/ \E s \in Syncs : SyncStarts(s) \/ SyncStep(s) \/ SyncOverruns(s)
  \/ StatsStep
  \/ RouterChanges \/ UsableChanges \/ Ages \/ CoolsDown \/ StatsFallDue
  \/ CycleFallsDue

\* Time passes, the intervals fire, and what has started ends: every command
\* has a socket timeout, every list query an answer.
Fairness ==
  /\ \A f \in Refreshes : WF_vars(RefreshStep(f))
  /\ WF_vars(RefreshTargets) /\ WF_vars(CycleStep) /\ WF_vars(CycleFallsDue)
  /\ \A s \in Syncs : WF_vars(SyncStep(s))
  /\ WF_vars(\E s \in Syncs : SyncStarts(s))
  /\ WF_vars(StatsStep)

Spec == Init /\ [][Next]_vars
FairSpec == Spec /\ Fairness

-----------------------------------------------------------------------------
Reading(f) == refresh[f].todo # <<>>

Version == Unread..MaxVersion

\* Types, and whom the locks of the Entry belong to.
TypeOK ==
  /\ feed \in Feeds /\ version \in 0..MaxVersion
  /\ value \in [list : Version, count : Version, stats : Version,
                health : {None, "ONLINE", "OFFLINE"},
                os : {None, "RESPONSIVE", "SLOW", "UNREACHABLE"}]
  /\ age \in {"fresh", "stale", "old"}
  /\ entry \in [inflight : Refreshes \cup {None}, watchers : 0..MaxWatchers,
                managed : BOOLEAN, cooling : BOOLEAN, syncError : BOOLEAN,
                syncBusy : BOOLEAN, statsInflight : BOOLEAN, statsDue : BOOLEAN]
  /\ refresh \in [Refreshes -> [todo : {OnDemand, <<"sessions", "resource">>,
                                        <<"sessions">>, <<"resource">>, <<>>},
                                list : BOOLEAN, got : Version, res : Version]]
  /\ reader \in [Readers -> Refreshes \cup {None}]
  /\ collector \in [usable : BOOLEAN, target : BOOLEAN,
                    running : Refreshes \cup {None}, due : BOOLEAN]
  /\ sync \in [Syncs -> [pc : {"idle", "read", "reconcile"}, rows : Version]]
  /\ lock \in Syncs \cup {None} /\ overruns \in 0..MaxOverruns
  /\ entry.syncBusy => lock # None
  /\ entry.inflight # None => Reading(entry.inflight)

\* A small router serves one live read at a time (router-gateway.service.ts:88,
\* sessions.service.ts:359): one refresh, counting those that their cycle no
\* longer awaits, or, when the sync feeds the snapshot, one of the sync and the
\* resource read, until its deadline.
OneReadAtATime ==
  /\ Cardinality({f \in Refreshes : Reading(f)}) <= 1
  /\ Fed => \A f \in Refreshes : ~Reading(f)
  /\ feed = "stats" => ~(entry.statsInflight /\ lock # None)

\* A snapshot is never replaced by an older one, field by field, whatever the
\* collector's cycles and the readers do; nor by a sync, until one outlives its
\* deadline and publishes along with its successor (sessions.service.ts:392).
SnapshotNeverGoesBack ==
  [][ \/ \A k \in {"list", "count", "stats"} : value'[k] >= value[k]
      \/ Fed /\ overruns > 0 ]_vars

\* A router that stays a target is read again and again, whatever fails,
\* outlives its cycle or loses its State.
KeepsBeingCollected ==
  <>[](collector.target) => []<>(\E f \in Refreshes : Reading(f))

\* The mutual lock never keeps the activation sync, which counts the revenue,
\* from its router.
KeepsBeingSynced == Fed => []<>(lock = None) /\ []<>(lock # None)

=============================================================================
