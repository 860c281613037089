---------------------------- MODULE GatewayProofs ----------------------------
(* Theorems about Gateway, for any number of readers, of refreshes and of    *)
(* syncs, any number of versions and of deadlines that pass.                 *)
EXTENDS Gateway, FiniteSetTheorems, TLAPS

\* The commands left of a refresh; the first three are those of a connection
\* that has just opened.
Opening == {OnDemand, <<"sessions", "resource">>, <<"sessions">>}
Commands == Opening \cup {<<"resource">>, <<>>}

Values == [list : Version, count : Version, stats : Version,
           health : {None, "ONLINE", "OFFLINE"},
           os : {None, "RESPONSIVE", "SLOW", "UNREACHABLE"}]
Entries == [inflight : Refreshes \cup {None}, watchers : 0..MaxWatchers,
            managed : BOOLEAN, cooling : BOOLEAN, syncError : BOOLEAN,
            syncBusy : BOOLEAN, statsInflight : BOOLEAN, statsDue : BOOLEAN]
Reads == [todo : Commands, list : BOOLEAN, got : Version, res : Version]
Collectors == [usable : BOOLEAN, target : BOOLEAN, running : Refreshes \cup {None},
               due : BOOLEAN]
SyncCalls == [pc : {"idle", "read", "reconcile"}, rows : Version]

\* The types of TypeOK, without what it says of the locks.
Typed ==
  /\ feed \in Feeds /\ version \in 0..MaxVersion
  /\ value \in Values /\ age \in {"fresh", "stale", "old"}
  /\ entry \in Entries /\ refresh \in [Refreshes -> Reads]
  /\ reader \in [Readers -> Refreshes \cup {None}] /\ collector \in Collectors
  /\ sync \in [Syncs -> SyncCalls]
  /\ lock \in Syncs \cup {None} /\ overruns \in 0..MaxOverruns

\* One refresh at a time, the one the entry holds; only of a router whose
\* snapshot the sync does not feed, as the collector's targets.
OneRefresh ==
  /\ \A f \in Refreshes : Reading(f) <=> entry.inflight = f
  /\ Fed => entry.inflight = None /\ ~collector.target

\* What a refresh has read is not older than the snapshot it will replace, and
\* it has read the sessions by the time it comes to its end.
RefreshReads ==
  \A f \in Refreshes : LET r == refresh[f] IN
    /\ r.todo = <<"resource">> => r.got # Unread
    /\ Reading(f) /\ r.got # Unread => value.list <= r.got /\ value.count <= r.got
    /\ Reading(f) /\ r.res # Unread => value.stats <= r.res
    /\ r.got <= version /\ r.res <= version

\* The snapshot is the router's at some earlier moment.
ValuePast == value.list <= version /\ value.count <= version /\ value.stats <= version

\* Only a router that is fed is synced; the sync and the resource read exclude
\* each other, and syncBusy goes with the lock.
SyncLocks ==
  /\ entry.statsInflight => feed = "stats" /\ lock = None
  /\ entry.syncBusy => feed = "stats" /\ lock # None
  /\ lock # None => Fed
  /\ \A s \in Syncs : sync[s].pc # "idle" => Fed

\* Until a deadline passes, the sync under way has the lock, and its rows are
\* not older than the snapshot.
SyncReadsPast ==
  \A s \in Syncs :
    /\ sync[s].rows <= version
    /\ overruns = 0 /\ sync[s].pc # "idle" => lock = s
    /\ overruns = 0 /\ sync[s].pc = "reconcile" =>
         value.list <= sync[s].rows /\ value.count <= sync[s].rows

IInv == Typed /\ OneRefresh /\ RefreshReads /\ ValuePast /\ SyncLocks /\ SyncReadsPast

-----------------------------------------------------------------------------
(* Commands, and what an answer leaves.                                      *)

LEMMA CommandSteps ==
  \A todo \in Commands : todo # <<>> =>
    /\ Head(todo) \in {"sessions", "resource"} /\ Tail(todo) \in Commands
    /\ Tail(todo) = <<"resource">> => Head(todo) = "sessions"
    /\ Tail(todo) = <<>> => Head(todo) = "sessions" \/ todo = <<"resource">>
<1>1. OnDemand # <<>> /\ Head(OnDemand) = "resource" /\ Tail(OnDemand) = <<"sessions">>
  BY DEF OnDemand
<1>2. LET t == <<"sessions", "resource">> IN
      t # <<>> /\ Head(t) = "sessions" /\ Tail(t) = <<"resource">>
  OBVIOUS
<1>3. LET t == <<"sessions">> IN t # <<>> /\ Head(t) = "sessions" /\ Tail(t) = <<>>
  OBVIOUS
<1>4. LET t == <<"resource">> IN t # <<>> /\ Head(t) = "resource" /\ Tail(t) = <<>>
  OBVIOUS
<1>5. <<"sessions">> # <<"resource">>
  OBVIOUS
<1> QED
  BY <1>1, <1>2, <1>3, <1>4, <1>5 DEF Commands, Opening

LEMMA OpeningFacts == \A todo \in Opening : todo # <<>> /\ todo # <<"resource">>
<1>1. Len(<<"resource", "sessions">>) = 2 /\ Len(<<"sessions", "resource">>) = 2
      /\ Len(<<"resource">>) = 1
  OBVIOUS
<1>2. <<"sessions">> # <<"resource">> /\ <<"sessions">> # <<>>
  OBVIOUS
<1>3. <<"resource", "sessions">> # <<>> /\ <<"sessions", "resource">> # <<>>
  OBVIOUS
<1>4. <<"resource", "sessions">> # <<"resource">> /\ <<"sessions", "resource">> # <<"resource">>
  BY <1>1
<1> QED
  BY <1>2, <1>3, <1>4 DEF Opening, OnDemand

\* The answer to the command of a refresh: what was read before, or the
\* router's version of that moment.
LEMMA AnswerFacts ==
  ASSUME Typed, NEW f \in Refreshes, NEW ok \in BOOLEAN, Reading(f)
  PROVE  LET r == refresh[f]
             x == Answered(f, ok) IN
         /\ x \in Reads /\ x.list = r.list
         /\ x.todo = Tail(r.todo)
         /\ x.got = (IF Head(r.todo) = "sessions" THEN version ELSE r.got)
         /\ x.res = r.res \/ x.res = version
<1> DEFINE r == refresh[f]
           got == IF Head(r.todo) = "sessions" THEN version ELSE r.got
           res == IF ok /\ Head(r.todo) = "resource" THEN version ELSE r.res
           x == [r EXCEPT !.todo = Tail(r.todo), !.got = got, !.res = res]
<1>1. r \in Reads /\ version \in Version /\ r.todo # <<>>
  BY DEF Typed, Version, Unread, Reading
<1>2. Tail(r.todo) \in Commands
  BY <1>1, CommandSteps DEF Reads
<1>3. got \in Version /\ res \in Version
  BY <1>1 DEF Reads
<1>4. Answered(f, ok) = x
  BY DEF Answered
<1>5. res = r.res \/ res = version
  OBVIOUS
<1> HIDE DEF r, got, res
<1>6. /\ x \in Reads /\ x.list = r.list
      /\ x.todo = Tail(r.todo) /\ x.got = got /\ x.res = res
  BY <1>1, <1>2, <1>3 DEF Reads
<1> QED
  BY <1>4, <1>5, <1>6 DEF r, got

-----------------------------------------------------------------------------
(* The steps, by what they do to the refreshes and to the snapshot.          *)

LEMMA InvInit == Init => IInv
<1> SUFFICES ASSUME Init PROVE IInv
  OBVIOUS
<1>1. Done \in Reads /\ Done.todo = <<>> /\ Done.got = Unread /\ Done.res = Unread
  BY GatewayAssumption DEF Done, Reads, Commands, Version, Unread
<1>2. NoValue \in Values /\ NoValue.list = Unread /\ NoValue.count = Unread
      /\ NoValue.stats = Unread
  BY GatewayAssumption DEF NoValue, Values, Version, Unread
<1>3. Typed
  BY <1>1, <1>2, GatewayAssumption
     DEF Init, Typed, Entries, Collectors, SyncCalls, Version, Unread
<1>4. \A f \in Refreshes : refresh[f] = Done /\ ~Reading(f)
  BY <1>1 DEF Init, Reading
<1>5. OneRefresh
  BY <1>4, NamesAssumption DEF Init, OneRefresh
<1>6. <<>> # <<"resource">>
  OBVIOUS
<1>7. RefreshReads
  BY <1>1, <1>4, <1>6 DEF Init, RefreshReads, Unread
<1>8. ValuePast
  BY <1>2 DEF Init, ValuePast, Unread
<1>9. SyncLocks /\ SyncReadsPast
  BY DEF Init, SyncLocks, SyncReadsPast, Unread
<1> QED
  BY <1>3, <1>5, <1>7, <1>8, <1>9 DEF IInv

\* A refresh starts, of a router without one that is not fed.
Starts(f) ==
  /\ entry.inflight = None /\ ~Fed
  /\ \E x \in Reads : /\ x.todo \in Opening /\ x.got = Unread /\ x.res = Unread
                      /\ refresh' = [refresh EXCEPT ![f] = x]
  /\ entry' = [entry EXCEPT !.inflight = f]
  /\ reader' \in [Readers -> Refreshes \cup {None}]
  /\ collector' \in Collectors /\ collector'.target = collector.target
  /\ UNCHANGED <<feed, version, value, age, sync, lock, overruns>>

LEMMA StartReads ==
  ASSUME NEW f \in Refreshes, NEW commands \in Opening, NEW list \in BOOLEAN,
         StartRefresh(f, commands, list)
  PROVE  /\ \E x \in Reads : /\ x.todo \in Opening /\ x.got = Unread /\ x.res = Unread
                             /\ refresh' = [refresh EXCEPT ![f] = x]
         /\ entry' = [entry EXCEPT !.inflight = f]
<1> DEFINE x == [todo |-> commands, list |-> list, got |-> Unread, res |-> Unread]
<1>1. refresh' = [refresh EXCEPT ![f] = x] /\ entry' = [entry EXCEPT !.inflight = f]
  BY DEF StartRefresh
<1>2. x \in Reads /\ x.todo = commands /\ x.got = Unread /\ x.res = Unread
  BY GatewayAssumption DEF Reads, Commands, Version, Unread
<1> HIDE DEF x
<1> QED
  BY <1>1, <1>2

LEMMA Starting ==
  ASSUME IInv, NEW f \in Refreshes
  PROVE  /\ ReaderRefreshes(f) => Starts(f)
         /\ \A r \in Readers : ReaderMisses(r, f) => Starts(f)
         /\ CycleStarts(f) => Starts(f)
<1> USE DEF Starts
<1>1. OnDemand \in Opening /\ <<"sessions", "resource">> \in Opening
      /\ <<"sessions">> \in Opening
  BY DEF Opening
<1>2. /\ reader \in [Readers -> Refreshes \cup {None}] /\ collector \in Collectors
      /\ Fed => ~collector.target
  BY DEF IInv, Typed, OneRefresh
<1>3. ASSUME ReaderRefreshes(f) PROVE Starts(f)
  <2>1. PICK list \in BOOLEAN : StartRefresh(f, OnDemand, list)
    BY <1>3 DEF ReaderRefreshes
  <2> QED
    BY <1>1, <1>2, <1>3, <2>1, StartReads DEF ReaderRefreshes
<1>4. ASSUME NEW r \in Readers, ReaderMisses(r, f) PROVE Starts(f)
  <2>1. PICK list \in BOOLEAN : StartRefresh(f, OnDemand, list)
    BY <1>4 DEF ReaderMisses
  <2> QED
    BY <1>1, <1>2, <1>4, <2>1, StartReads DEF ReaderMisses, MustWait
<1>5. ASSUME CycleStarts(f) PROVE Starts(f)
  <2>1. PICK commands \in Opening : StartRefresh(f, commands, TRUE)
    BY <1>1, <1>5 DEF CycleStarts
  <2>2. collector' = [collector EXCEPT !.running = f] /\ ~Fed /\ entry.inflight = None
        /\ UNCHANGED <<feed, version, value, age, reader, sync, lock, overruns>>
    BY <1>2, <1>5 DEF CycleStarts, CycleDue, Collectable
  <2>3. collector' \in Collectors /\ collector'.target = collector.target
    BY <1>2, <2>2 DEF Collectors
  <2> QED
    BY <1>2, <2>1, <2>2, <2>3, StartReads
<1> QED
  BY <1>3, <1>4, <1>5

LEMMA StartStep ==
  ASSUME IInv, NEW f \in Refreshes, Starts(f)
  PROVE  IInv'
<1>1. PICK x \in Reads : /\ x.todo \in Opening /\ x.got = Unread /\ x.res = Unread
                         /\ refresh' = [refresh EXCEPT ![f] = x]
  BY DEF Starts
<1>2. /\ entry \in Entries /\ refresh \in [Refreshes -> Reads] /\ version \in 0..MaxVersion
  BY DEF IInv, Typed
<1>3. x.todo # <<>> /\ x.todo # <<"resource">>
  BY <1>1, OpeningFacts
<1>4. refresh' \in [Refreshes -> Reads] /\ refresh'[f] = x
      /\ \A g \in Refreshes : g # f => refresh'[g] = refresh[g]
  BY <1>1, <1>2
<1>5. entry' \in Entries /\ entry'.inflight = f
      /\ entry'.statsInflight = entry.statsInflight /\ entry'.syncBusy = entry.syncBusy
  BY <1>2 DEF Starts, Entries
<1>6. UNCHANGED <<feed, version, value, age, sync, lock, overruns>>
      /\ entry.inflight = None /\ ~Fed
  BY DEF Starts
<1>7. Typed'
  BY <1>4, <1>5, <1>6 DEF IInv, Typed, Starts
<1>8. OneRefresh'
  <2>1. \A g \in Refreshes : Reading(g)' <=> g = f
    BY <1>3, <1>4, <1>6, NamesAssumption DEF IInv, OneRefresh, Reading
  <2> QED
    BY <1>5, <1>6, <2>1 DEF OneRefresh, Fed
<1>9. RefreshReads'
  <2>1. ASSUME NEW g \in Refreshes, g # f
        PROVE  refresh'[g] = refresh[g] /\ Reading(g)' = Reading(g)
    BY <1>4, <2>1 DEF Reading
  <2>2. x.got <= version /\ x.res <= version
    BY <1>1, <1>2 DEF Unread
  <2> QED
    BY <1>1, <1>3, <1>4, <1>6, <2>1, <2>2 DEF IInv, RefreshReads
<1>10. ValuePast' /\ SyncLocks' /\ SyncReadsPast'
  BY <1>5, <1>6 DEF IInv, ValuePast, SyncLocks, SyncReadsPast, Fed
<1> QED
  BY <1>7, <1>8, <1>9, <1>10 DEF IInv

\* A command answers and others are left.
LEMMA GoesOnStep ==
  ASSUME IInv, NEW f \in Refreshes, NEW ok \in BOOLEAN, RefreshGoesOn(f, ok)
  PROVE  IInv'
<1> DEFINE r == refresh[f]
           x == Answered(f, ok)
<1>1. /\ Reading(f) /\ x.todo # <<>> /\ refresh' = [refresh EXCEPT ![f] = x]
      /\ UNCHANGED <<feed, version, value, age, entry, reader, collector, sync, lock, overruns>>
  BY DEF RefreshGoesOn, Reading
<1>2. /\ x \in Reads /\ x.todo = Tail(r.todo)
      /\ x.got = (IF Head(r.todo) = "sessions" THEN version ELSE r.got)
      /\ x.res = r.res \/ x.res = version
  BY <1>1, AnswerFacts DEF IInv
<1>3. /\ r \in Reads /\ refresh \in [Refreshes -> Reads] /\ version \in 0..MaxVersion
      /\ value \in Values
  BY DEF IInv, Typed
<1> HIDE DEF x
<1>4. refresh' \in [Refreshes -> Reads] /\ refresh'[f] = x
      /\ \A g \in Refreshes : g # f => refresh'[g] = refresh[g]
  BY <1>1, <1>2, <1>3
<1>5. Typed'
  BY <1>1, <1>4 DEF IInv, Typed
<1>6. \A g \in Refreshes : Reading(g)' <=> Reading(g)
  BY <1>1, <1>4 DEF Reading
<1>7. OneRefresh'
  BY <1>1, <1>6 DEF IInv, OneRefresh, Fed
<1>8. x.todo = <<"resource">> => x.got # Unread
  <2>1. version # Unread
    BY <1>3 DEF Unread
  <2>2. x.todo = <<"resource">> => Head(r.todo) = "sessions"
    BY <1>1, <1>2, <1>3, CommandSteps DEF Reads, Reading
  <2> QED
    BY <1>2, <2>1, <2>2
<1>9. /\ r.got # Unread => value.list <= r.got /\ value.count <= r.got
      /\ r.res # Unread => value.stats <= r.res
      /\ r.got <= version /\ r.res <= version
      /\ value.list <= version /\ value.count <= version /\ value.stats <= version
  BY <1>1 DEF IInv, RefreshReads, ValuePast
<1>10. /\ x.got # Unread => value.list <= x.got /\ value.count <= x.got
       /\ x.res # Unread => value.stats <= x.res
       /\ x.got <= version /\ x.res <= version
  BY <1>2, <1>3, <1>9
<1>11. RefreshReads'
  BY <1>1, <1>4, <1>6, <1>8, <1>10 DEF IInv, RefreshReads
<1>12. ValuePast' /\ SyncLocks' /\ SyncReadsPast'
  BY <1>1 DEF IInv, ValuePast, SyncLocks, SyncReadsPast, Fed
<1> QED
  BY <1>5, <1>7, <1>11, <1>12 DEF IInv

\* A refresh ends: it is the one the entry holds, and the entry is free.
Ends(f) ==
  /\ Reading(f) /\ Resolve(f)
  /\ entry' \in Entries /\ entry'.inflight = None
  /\ entry'.statsInflight = entry.statsInflight /\ entry'.syncBusy = entry.syncBusy
  /\ value' \in Values /\ age' \in {"fresh", "stale", "old"}
  /\ value.list <= value'.list /\ value'.list <= version
  /\ value.count <= value'.count /\ value'.count <= version
  /\ value.stats <= value'.stats /\ value'.stats <= version
  /\ UNCHANGED <<feed, version, sync, lock, overruns>>

LEMMA SucceedsEnds ==
  ASSUME IInv, NEW f \in Refreshes, NEW ok \in BOOLEAN, RefreshSucceeds(f, ok)
  PROVE  Ends(f)
<1> DEFINE r == refresh[f]
           x == Answered(f, ok)
           list == IF x.list THEN x.got ELSE value.list
           stats == IF x.res # Unread THEN x.res ELSE value.stats
<1>1. /\ Reading(f) /\ x.todo = <<>> /\ Resolve(f) /\ age' = "fresh"
      /\ value' = [list |-> list, count |-> x.got, stats |-> stats,
                   health |-> "ONLINE", os |-> "RESPONSIVE"]
      /\ entry' = [entry EXCEPT !.cooling = FALSE, !.inflight = None]
      /\ UNCHANGED <<feed, version, sync, lock, overruns>>
  BY DEF RefreshSucceeds, Reading
<1>2. /\ x \in Reads /\ x.todo = Tail(r.todo)
      /\ x.got = (IF Head(r.todo) = "sessions" THEN version ELSE r.got)
      /\ x.res = r.res \/ x.res = version
  BY <1>1, AnswerFacts DEF IInv
<1>3. /\ r \in Reads /\ version \in 0..MaxVersion /\ value \in Values /\ entry \in Entries
  BY DEF IInv, Typed
<1>4. Head(r.todo) = "sessions" \/ r.todo = <<"resource">>
  BY <1>1, <1>2, <1>3, CommandSteps DEF Reads, Reading
<1>5. x.got \in Version /\ x.res \in Version /\ x.got # Unread
  BY <1>2, <1>3, <1>4 DEF IInv, RefreshReads, Reads, Unread
<1>6. /\ r.got # Unread => value.list <= r.got /\ value.count <= r.got
      /\ r.res # Unread => value.stats <= r.res
      /\ r.got <= version /\ r.res <= version
      /\ value.list <= version /\ value.count <= version /\ value.stats <= version
      /\ value.list \in Version /\ value.count \in Version /\ value.stats \in Version
  BY <1>1, <1>3 DEF IInv, RefreshReads, ValuePast, Values
<1> HIDE DEF x, r
<1>7. /\ list \in Version /\ stats \in Version
      /\ value.list <= list /\ list <= version
      /\ value.count <= x.got /\ x.got <= version
      /\ value.stats <= stats /\ stats <= version
  BY <1>2, <1>3, <1>5, <1>6 DEF Version, Unread
<1> HIDE DEF list, stats
<1>8. value' \in Values /\ value'.list = list /\ value'.count = x.got /\ value'.stats = stats
  BY <1>1, <1>5, <1>7 DEF Values
<1>9. entry' \in Entries /\ entry'.inflight = None
      /\ entry'.statsInflight = entry.statsInflight /\ entry'.syncBusy = entry.syncBusy
  BY <1>1, <1>3 DEF Entries
<1> QED
  BY <1>1, <1>7, <1>8, <1>9 DEF Ends

LEMMA FailsEnds ==
  ASSUME IInv, NEW f \in Refreshes, RefreshFails(f)
  PROVE  Ends(f)
<1>1. PICK slow \in BOOLEAN : value' = Failed(value, slow)
  BY DEF RefreshFails
<1>2. value \in Values /\ entry \in Entries /\ version \in 0..MaxVersion
      /\ age \in {"fresh", "stale", "old"}
  BY DEF IInv, Typed
<1>3. value' \in Values /\ value'.list = value.list /\ value'.count = value.count
      /\ value'.stats = value.stats
  <2> DEFINE health == IF entry.managed THEN value.health ELSE "OFFLINE"
             os == IF slow THEN "SLOW" ELSE "UNREACHABLE"
  <2>1. value' = value \/ value' = [value EXCEPT !.health = health, !.os = os]
    BY <1>1 DEF Failed
  <2>2. health \in {None, "ONLINE", "OFFLINE"} /\ os \in {"SLOW", "UNREACHABLE"}
    BY <1>2 DEF Values
  <2> HIDE DEF health, os
  <2> QED
    BY <1>2, <2>1, <2>2 DEF Values
<1>4. entry' \in Entries /\ entry'.inflight = None
      /\ entry'.statsInflight = entry.statsInflight /\ entry'.syncBusy = entry.syncBusy
  BY <1>2 DEF RefreshFails, AfterFailure, Entries
<1>5. value.list \in Int /\ value.count \in Int /\ value.stats \in Int
  BY <1>2 DEF Values, Version, Unread
<1> QED
  BY <1>2, <1>3, <1>4, <1>5 DEF RefreshFails, Reading, Ends, IInv, ValuePast

LEMMA EndStep ==
  ASSUME IInv, NEW f \in Refreshes, Ends(f)
  PROVE  IInv'
<1>1. Done \in Reads /\ Done.todo = <<>> /\ Done.got = Unread /\ Done.res = Unread
  BY GatewayAssumption DEF Done, Reads, Commands, Version, Unread
<1>2. /\ refresh \in [Refreshes -> Reads] /\ collector \in Collectors
      /\ reader \in [Readers -> Refreshes \cup {None}] /\ version \in 0..MaxVersion
  BY DEF IInv, Typed
<1>3. refresh' \in [Refreshes -> Reads] /\ refresh'[f] = Done
      /\ \A g \in Refreshes : g # f => refresh'[g] = refresh[g]
  BY <1>1, <1>2 DEF Ends, Resolve
<1>4. collector' \in Collectors /\ collector'.target = collector.target
  <2>1. collector' = collector
        \/ collector' = [collector EXCEPT !.running = None, !.due = FALSE]
    BY DEF Ends, Resolve
  <2> QED
    BY <1>2, <2>1 DEF Collectors
<1>5. reader' \in [Readers -> Refreshes \cup {None}]
  BY <1>2 DEF Ends, Resolve
<1>6. Typed'
  BY <1>3, <1>4, <1>5 DEF IInv, Typed, Ends
<1>7. \A g \in Refreshes : ~Reading(g)'
  BY <1>1, <1>3, NamesAssumption DEF IInv, OneRefresh, Ends, Reading
<1>8. OneRefresh'
  BY <1>4, <1>7, NamesAssumption DEF IInv, OneRefresh, Ends, Fed
<1>9. <<>> # <<"resource">>
  OBVIOUS
<1>10. ASSUME NEW g \in Refreshes
       PROVE  /\ refresh'[g].todo = <<"resource">> => refresh'[g].got # Unread
              /\ refresh'[g].got <= version /\ refresh'[g].res <= version
  <2>1. CASE g = f
    <3>1. refresh'[g].todo # <<"resource">>
      BY <1>1, <1>3, <1>9, <2>1
    <3>2. Unread <= version
      BY <1>2, GatewayAssumption DEF Unread
    <3> QED
      BY <1>1, <1>3, <2>1, <3>1, <3>2
  <2>2. CASE g # f
    BY <1>3, <2>2 DEF IInv, RefreshReads
  <2> QED
    BY <2>1, <2>2
<1>11. RefreshReads'
  BY <1>7, <1>10 DEF Ends, RefreshReads
<1>12. ValuePast' /\ SyncLocks'
  BY DEF IInv, ValuePast, SyncLocks, Ends, Fed
<1>13. SyncReadsPast'
  <2>1. ~Fed
    BY NamesAssumption DEF IInv, OneRefresh, Ends
  <2> QED
    BY <2>1 DEF IInv, SyncLocks, SyncReadsPast, Ends
<1> QED
  BY <1>6, <1>8, <1>11, <1>12, <1>13 DEF IInv

\* The syncs, the resource read and the rest leave the refreshes alone: what
\* these steps do to the entry, to the collector and to the readers.
Calm ==
  /\ entry' \in Entries /\ entry'.inflight = entry.inflight
  /\ collector' \in Collectors /\ (collector'.target => ~Fed)
  /\ reader' \in [Readers -> Refreshes \cup {None}]
  /\ age' \in {"fresh", "stale", "old"}
  /\ UNCHANGED <<feed, refresh>>

\* ... and those that leave the snapshot, the syncs and the locks alone too.
Quiet ==
  /\ Calm
  /\ entry'.statsInflight = entry.statsInflight /\ entry'.syncBusy = entry.syncBusy
  /\ version' \in 0..MaxVersion /\ version <= version'
  /\ UNCHANGED <<value, sync, lock, overruns>>

LEMMA CalmStep ==
  ASSUME IInv, Calm
  PROVE  OneRefresh'
<1>1. \A f \in Refreshes : Reading(f)' <=> Reading(f)
  BY DEF Calm, Reading
<1>2. \A f \in Refreshes : Reading(f)' <=> entry'.inflight = f
  BY <1>1 DEF IInv, OneRefresh, Calm
<1>3. Fed' => Fed /\ entry'.inflight = None
  BY DEF IInv, OneRefresh, Calm, Fed
<1>4. Fed' => ~collector'.target
  BY <1>3 DEF Calm
<1> QED
  BY <1>2, <1>3, <1>4 DEF OneRefresh

LEMMA QuietStep ==
  ASSUME IInv, Quiet
  PROVE  IInv'
<1>1. /\ version \in Int /\ version' \in Int /\ version <= version'
      /\ value.list \in Int /\ value.count \in Int /\ value.stats \in Int
      /\ \A f \in Refreshes : refresh[f].got \in Int /\ refresh[f].res \in Int
      /\ \A s \in Syncs : sync[s].rows \in Int
  BY DEF IInv, Typed, Quiet, Values, Reads, SyncCalls, Version, Unread
<1>2. Typed'
  <2>1. UNCHANGED <<feed, refresh, value, sync, lock, overruns>>
    BY DEF Quiet, Calm
  <2> QED
    BY <2>1 DEF IInv, Typed, Quiet, Calm
<1>3. OneRefresh'
  BY CalmStep DEF Quiet
<1>4. RefreshReads'
  <2>1. ASSUME NEW f \in Refreshes
        PROVE  Reading(f)' = Reading(f) /\ refresh'[f] = refresh[f]
    BY DEF Quiet, Calm, Reading
  <2> QED
    BY <1>1, <2>1 DEF IInv, RefreshReads, Quiet
<1>5. ValuePast' /\ SyncLocks' /\ SyncReadsPast'
  BY <1>1 DEF IInv, ValuePast, SyncLocks, SyncReadsPast, Quiet, Calm, Fed
<1> QED
  BY <1>2, <1>3, <1>4, <1>5 DEF IInv

LEMMA QuietSteps ==
  ASSUME IInv,
         \/ \E r \in Readers : ReaderJoins(r)
         \/ Watch \/ RefreshTargets \/ CycleSkips \/ RouterChanges
         \/ UsableChanges \/ Ages \/ CoolsDown \/ StatsFallDue \/ CycleFallsDue
         \/ UNCHANGED vars
  PROVE  Quiet
<1>1. /\ version \in 0..MaxVersion /\ entry \in Entries /\ collector \in Collectors
      /\ reader \in [Readers -> Refreshes \cup {None}] /\ age \in {"fresh", "stale", "old"}
      /\ collector.target => ~Fed
      /\ version <= version
  BY DEF IInv, Typed, OneRefresh
<1>2. ASSUME NEW r \in Readers, ReaderJoins(r) PROVE Quiet
  BY <1>1, <1>2 DEF ReaderJoins, Quiet, Calm, Entries
<1>3. CASE Watch
  BY <1>1, <1>3 DEF Watch, Quiet, Calm, Entries
<1>4. CASE RefreshTargets
  <2> DEFINE target == collector.usable /\ ~Fed
  <2>1. target \in BOOLEAN /\ (target => ~Fed)
    BY <1>1 DEF Collectors
  <2>2. /\ entry' = [entry EXCEPT !.managed = target]
        /\ \/ collector' = [collector EXCEPT !.target = FALSE, !.running = None, !.due = TRUE]
           \/ collector' = [collector EXCEPT !.target = target]
        /\ UNCHANGED <<feed, version, value, age, refresh, reader, sync, lock, overruns>>
    BY <1>4 DEF RefreshTargets
  <2> HIDE DEF target
  <2>3. entry' \in Entries /\ entry'.inflight = entry.inflight
        /\ entry'.statsInflight = entry.statsInflight /\ entry'.syncBusy = entry.syncBusy
    BY <1>1, <2>1, <2>2 DEF Entries
  <2>4. collector' \in Collectors /\ (collector'.target => ~Fed)
    BY <1>1, <2>1, <2>2 DEF Collectors
  <2> QED
    BY <1>1, <2>2, <2>3, <2>4 DEF Quiet, Calm
<1>5. CASE CycleSkips
  BY <1>1, <1>5 DEF CycleSkips, Quiet, Calm, Collectors
<1>6. CASE RouterChanges
  BY <1>1, <1>6, GatewayAssumption DEF RouterChanges, Quiet, Calm
<1>7. CASE UsableChanges
  BY <1>1, <1>7 DEF UsableChanges, Quiet, Calm, Collectors
<1>8. CASE Ages
  BY <1>1, <1>8 DEF Ages, Quiet, Calm
<1>9. CASE CoolsDown
  BY <1>1, <1>9 DEF CoolsDown, Quiet, Calm, Entries
<1>10. CASE StatsFallDue
  BY <1>1, <1>10 DEF StatsFallDue, Quiet, Calm, Entries
<1>11. CASE CycleFallsDue
  BY <1>1, <1>11 DEF CycleFallsDue, Quiet, Calm, Collectors
<1>12. CASE UNCHANGED vars
  BY <1>1, <1>12 DEF vars, Quiet, Calm
<1> QED
  BY <1>2, <1>3, <1>4, <1>5, <1>6, <1>7, <1>8, <1>9, <1>10, <1>11, <1>12

LEMMA CycleOverrunsStep ==
  ASSUME IInv, CycleOverruns
  PROVE  IInv'
<1>1. /\ collector' = [collector EXCEPT !.running = None, !.due = FALSE]
      /\ overruns' = overruns + 1 /\ overruns < MaxOverruns
      /\ UNCHANGED <<feed, version, value, age, entry, refresh, reader, sync, lock>>
  BY DEF CycleOverruns
<1>2. collector' \in Collectors /\ collector'.target = collector.target
  BY <1>1 DEF IInv, Typed, Collectors
<1>3. overruns' \in 0..MaxOverruns /\ overruns' # 0
  BY <1>1, GatewayAssumption DEF IInv, Typed
<1>4. Typed'
  BY <1>1, <1>2, <1>3 DEF IInv, Typed
<1>5. \A f \in Refreshes : Reading(f)' <=> Reading(f)
  BY <1>1 DEF Reading
<1>6. OneRefresh' /\ RefreshReads'
  BY <1>1, <1>2, <1>5 DEF IInv, OneRefresh, RefreshReads, Fed
<1>7. ValuePast' /\ SyncLocks' /\ SyncReadsPast'
  BY <1>1, <1>3 DEF IInv, ValuePast, SyncLocks, SyncReadsPast, Fed
<1> QED
  BY <1>4, <1>6, <1>7 DEF IInv

-----------------------------------------------------------------------------
(* The steps of a router that is fed.                                        *)

LocksKept ==
  /\ entry'.statsInflight => feed = "stats" /\ lock' = None
  /\ entry'.syncBusy => feed = "stats" /\ lock' # None
  /\ \A s \in Syncs : sync'[s].pc # "idle" => Fed

FedStep ==
  /\ Fed /\ Calm /\ LocksKept
  /\ value' \in Values
  /\ value'.list <= version /\ value'.count <= version /\ value'.stats <= version
  /\ sync' \in [Syncs -> SyncCalls] /\ lock' \in Syncs \cup {None}
  /\ overruns' \in 0..MaxOverruns /\ version' = version

LEMMA FedKeeps ==
  ASSUME IInv, FedStep, SyncReadsPast'
  PROVE  IInv'
<1>1. UNCHANGED <<feed, refresh, version>> /\ Fed
  BY DEF FedStep, Calm
<1>2. Typed'
  BY <1>1 DEF IInv, Typed, FedStep, Calm
<1>3. OneRefresh'
  BY CalmStep DEF FedStep
<1>4. \A f \in Refreshes : ~Reading(f)'
  BY <1>1, <1>3, NamesAssumption DEF OneRefresh, Fed
<1>5. RefreshReads'
  BY <1>1, <1>4 DEF IInv, RefreshReads
<1>6. ValuePast' /\ SyncLocks'
  BY <1>1 DEF FedStep, LocksKept, ValuePast, SyncLocks, Fed
<1> QED
  BY <1>2, <1>3, <1>5, <1>6 DEF IInv

\* The value and the entry of a sync that fails to read.
LEMMA TroubledFacts ==
  ASSUME NEW v \in Values, NEW slow \in BOOLEAN
  PROVE  /\ Troubled(v, slow) \in Values /\ Troubled(v, slow).list = v.list
         /\ Troubled(v, slow).count = v.count /\ Troubled(v, slow).stats = v.stats
<1>1. \E os \in {"SLOW", "UNREACHABLE"} :
        Troubled(v, slow) = v \/ Troubled(v, slow) = [v EXCEPT !.os = os]
  BY DEF Troubled
<1> QED
  BY <1>1 DEF Values

\* Entries that differ in what the reads have shown.
SameLocks(e) ==
  /\ e \in Entries /\ e.inflight = entry.inflight
  /\ e.statsInflight = entry.statsInflight /\ e.syncBusy = entry.syncBusy

LEMMA EntryFacts ==
  ASSUME IInv
  PROVE  /\ SameLocks(entry) /\ SameLocks(ReadFailed(entry))
         /\ SameLocks([entry EXCEPT !.syncError = FALSE, !.cooling = FALSE])
  BY DEF IInv, Typed, SameLocks, ReadFailed, Entries

LEMMA FinishedFacts ==
  ASSUME IInv, NEW e, NEW v, SameLocks(e), feed = "stats"
  PROVE  /\ Finished(e, v) \in Entries /\ Finished(e, v).inflight = entry.inflight
         /\ Finished(e, v).syncBusy = FALSE
<1> DEFINE free == [e EXCEPT !.syncBusy = FALSE]
           stats == free.statsInflight \/ StatsMayStart(free, v)
<1>1. Finished(e, v) = [free EXCEPT !.statsInflight = stats]
  BY DEF Finished
<1>2. free \in Entries /\ free.inflight = entry.inflight /\ free.syncBusy = FALSE
  BY DEF SameLocks, Entries
<1>3. stats \in BOOLEAN
  OBVIOUS
<1> HIDE DEF free, stats
<1> QED
  BY <1>1, <1>2, <1>3 DEF Entries

\* What syncRouter leaves of the locks when it returns.
LEMMA ReturnFacts ==
  ASSUME IInv, NEW s \in Syncs, NEW e, NEW v, SameLocks(e), SyncReturns(s, e, v)
  PROVE  /\ entry' \in Entries /\ entry'.inflight = entry.inflight
         /\ lock' = (IF lock = s THEN None ELSE lock)
         /\ entry'.statsInflight => feed = "stats" /\ lock' = None
         /\ entry'.syncBusy => feed = "stats" /\ lock' # None
         /\ value' = v /\ UNCHANGED <<feed, version, refresh, reader, collector>>
<1>1. /\ entry' = (IF lock = s THEN Finished(e, v) ELSE e)
      /\ lock' = (IF lock = s THEN None ELSE lock)
      /\ value' = v /\ UNCHANGED <<feed, version, refresh, reader, collector>>
  BY DEF SyncReturns
<1>2. /\ e \in Entries /\ e.inflight = entry.inflight
      /\ e.statsInflight => feed = "stats" /\ lock = None
      /\ e.syncBusy => feed = "stats" /\ lock # None
  BY DEF IInv, SyncLocks, SameLocks
<1>3. CASE lock = s /\ feed = "stats"
  BY <1>1, <1>3, FinishedFacts
<1>4. CASE lock = s /\ feed # "stats"
  BY <1>1, <1>2, <1>4 DEF Finished
<1>5. CASE lock # s
  BY <1>1, <1>2, <1>5
<1> QED
  BY <1>3, <1>4, <1>5

LEMMA ReturnStep ==
  ASSUME IInv, NEW s \in Syncs, NEW e, NEW v \in Values, SameLocks(e), SyncReturns(s, e, v), Fed,
         v.list <= version, v.count <= version, v.stats <= version,
         age' \in {"fresh", "stale", "old"}, overruns' \in 0..MaxOverruns,
         sync' \in [Syncs -> SyncCalls]
  PROVE  FedStep
<1>1. /\ lock \in Syncs \cup {None} /\ collector \in Collectors /\ (collector.target => ~Fed)
      /\ reader \in [Readers -> Refreshes \cup {None}]
  BY DEF IInv, Typed, OneRefresh
<1>2. lock' \in Syncs \cup {None} /\ version' = version /\ value' = v
  BY <1>1, ReturnFacts
<1>3. Calm
  BY <1>1, ReturnFacts DEF Calm
<1>4. LocksKept
  BY ReturnFacts DEF LocksKept
<1> QED
  BY <1>2, <1>3, <1>4 DEF FedStep

LEMMA SyncStartsStep ==
  ASSUME IInv, NEW s \in Syncs, SyncStarts(s)
  PROVE  IInv'
<1> DEFINE x == [pc |-> "read", rows |-> Unread]
           e == [entry EXCEPT !.syncBusy = (feed = "stats")]
<1>1. /\ Fed /\ lock = None /\ ~entry.statsInflight /\ sync[s].pc = "idle"
      /\ lock' = s /\ sync' = [sync EXCEPT ![s] = x] /\ entry' = e
      /\ UNCHANGED <<feed, version, value, age, refresh, reader, collector, overruns>>
  BY DEF SyncStarts, SyncMayStart
<1>2. /\ sync \in [Syncs -> SyncCalls] /\ entry \in Entries /\ version \in 0..MaxVersion
      /\ collector \in Collectors /\ (collector.target => ~Fed)
      /\ reader \in [Readers -> Refreshes \cup {None}] /\ age \in {"fresh", "stale", "old"}
      /\ value \in Values /\ overruns \in 0..MaxOverruns
  BY DEF IInv, Typed, OneRefresh
<1>3. x \in SyncCalls /\ x.pc = "read" /\ x.rows = Unread
  BY GatewayAssumption DEF SyncCalls, Version, Unread
<1>4. /\ e \in Entries /\ e.inflight = entry.inflight
      /\ e.statsInflight = entry.statsInflight /\ e.syncBusy = (feed = "stats")
  BY <1>2 DEF Entries
<1> HIDE DEF x, e
<1>5. sync' \in [Syncs -> SyncCalls] /\ sync'[s] = x
      /\ \A p \in Syncs : p # s => sync'[p] = sync[p]
  BY <1>1, <1>2, <1>3
<1>6. s # None
  BY NamesAssumption
<1>7. LocksKept
  BY <1>1, <1>4, <1>6 DEF LocksKept
<1>8. FedStep
  BY <1>1, <1>2, <1>4, <1>5, <1>7 DEF FedStep, Calm, IInv, ValuePast
<1>9. SyncReadsPast'
  <2>1. Unread <= version
    BY <1>2, GatewayAssumption DEF Unread
  <2>2. ASSUME NEW p \in Syncs
        PROVE  /\ sync'[p].rows <= version
               /\ overruns = 0 /\ sync'[p].pc # "idle" => p = s
               /\ overruns = 0 => sync'[p].pc # "reconcile"
    <3>1. CASE p = s
      BY <1>3, <1>5, <2>1, <3>1
    <3>2. CASE p # s
      <4>1. overruns = 0 => sync[p].pc = "idle"
        BY <1>1, NamesAssumption DEF IInv, SyncReadsPast
      <4> QED
        BY <1>5, <3>2, <4>1 DEF IInv, SyncReadsPast
    <3> QED
      BY <3>1, <3>2
  <2> QED
    BY <1>1, <2>2 DEF SyncReadsPast
<1> QED
  BY <1>8, <1>9, FedKeeps

LEMMA SyncReadsStep ==
  ASSUME IInv, NEW s \in Syncs, SyncReads(s)
  PROVE  IInv'
<1> DEFINE x == [pc |-> "reconcile", rows |-> version]
<1>1. /\ sync[s].pc = "read" /\ sync' = [sync EXCEPT ![s] = x]
      /\ UNCHANGED <<feed, version, value, age, entry, refresh, reader, collector,
                     lock, overruns>>
  BY DEF SyncReads
<1>2. /\ sync \in [Syncs -> SyncCalls] /\ entry \in Entries /\ version \in 0..MaxVersion
      /\ collector \in Collectors /\ (collector.target => ~Fed)
      /\ reader \in [Readers -> Refreshes \cup {None}] /\ age \in {"fresh", "stale", "old"}
      /\ value \in Values /\ overruns \in 0..MaxOverruns /\ lock \in Syncs \cup {None}
  BY DEF IInv, Typed, OneRefresh
<1>3. x \in SyncCalls /\ x.pc = "reconcile" /\ x.rows = version
  BY <1>2, GatewayAssumption DEF SyncCalls, Version, Unread
<1> HIDE DEF x
<1>4. sync' \in [Syncs -> SyncCalls] /\ sync'[s] = x
      /\ \A p \in Syncs : p # s => sync'[p] = sync[p]
  BY <1>1, <1>2, <1>3
<1>5. Fed
  BY <1>1 DEF IInv, SyncLocks
<1>6. LocksKept
  BY <1>1, <1>5 DEF LocksKept, IInv, SyncLocks
<1>7. FedStep
  BY <1>1, <1>2, <1>4, <1>5, <1>6 DEF FedStep, Calm, IInv, ValuePast
<1>8. SyncReadsPast'
  <2>1. ASSUME NEW p \in Syncs
        PROVE  /\ sync'[p].rows <= version
               /\ overruns = 0 /\ sync'[p].pc # "idle" => lock = p
               /\ overruns = 0 /\ sync'[p].pc = "reconcile" =>
                    value.list <= sync'[p].rows /\ value.count <= sync'[p].rows
    <3>1. CASE p = s
      BY <1>1, <1>2, <1>3, <1>4, <3>1 DEF IInv, ValuePast, SyncReadsPast
    <3>2. CASE p # s
      BY <1>4, <3>2 DEF IInv, SyncReadsPast
    <3> QED
      BY <3>1, <3>2
  <2> QED
    BY <1>1, <2>1 DEF SyncReadsPast
<1> QED
  BY <1>7, <1>8, FedKeeps

\* A sync that has started ends, and leaves the others as they are.
LEMMA SyncEndFacts ==
  ASSUME IInv, NEW s \in Syncs, SyncEnds(s)
  PROVE  /\ sync' \in [Syncs -> SyncCalls]
         /\ sync'[s].pc = "idle" /\ sync'[s].rows = Unread
         /\ \A p \in Syncs : p # s => sync'[p] = sync[p]
<1> DEFINE x == [pc |-> "idle", rows |-> Unread]
<1>1. x \in SyncCalls /\ x.pc = "idle" /\ x.rows = Unread
  BY GatewayAssumption DEF SyncCalls, Version, Unread
<1>2. sync' = [sync EXCEPT ![s] = x] /\ sync \in [Syncs -> SyncCalls]
  BY DEF SyncEnds, IInv, Typed
<1> HIDE DEF x
<1> QED
  BY <1>1, <1>2

\* The reads of the others are not disturbed: while no deadline has passed,
\* there is none.
LEMMA EndedReads ==
  ASSUME IInv, NEW s \in Syncs, SyncEnds(s), sync[s].pc # "idle",
         UNCHANGED <<version, overruns>>
  PROVE  SyncReadsPast'
<1>1. version \in 0..MaxVersion
  BY DEF IInv, Typed
<1>2. ASSUME NEW p \in Syncs
      PROVE  sync'[p].rows <= version /\ (overruns = 0 => sync'[p].pc = "idle")
  <2>1. CASE p = s
    BY <1>1, <2>1, SyncEndFacts, GatewayAssumption DEF Unread
  <2>2. CASE p # s
    <3>1. overruns = 0 => lock = s /\ sync[p].pc = "idle"
      BY <2>2 DEF IInv, SyncReadsPast
    <3> QED
      BY <2>2, <3>1, SyncEndFacts DEF IInv, SyncReadsPast
  <2> QED
    BY <2>1, <2>2
<1> QED
  BY <1>2 DEF SyncReadsPast

\* What a sync leaves of the snapshot: fresher lists, unless it outlived its
\* deadline.
Replaced(s, v) ==
  /\ v \in Values /\ v.list <= version /\ v.count <= version /\ v.stats <= version
  /\ v.list >= value.list \/ overruns > 0
  /\ v.count >= value.count \/ overruns > 0
  /\ v.stats >= value.stats

LEMMA EndsWith ==
  ASSUME IInv, NEW s \in Syncs, SyncEnds(s), sync[s].pc # "idle",
         NEW e, NEW v, SameLocks(e), Replaced(s, v), SyncReturns(s, e, v),
         age' \in {"fresh", "stale", "old"}, UNCHANGED overruns
  PROVE  IInv' /\ value' = v
<1>1. Fed /\ overruns' \in 0..MaxOverruns /\ sync' \in [Syncs -> SyncCalls]
  BY SyncEndFacts DEF IInv, Typed, SyncLocks
<1>2. FedStep
  BY <1>1, ReturnStep DEF Replaced
<1>3. SyncReadsPast' /\ value' = v
  BY <1>2, EndedReads DEF FedStep, SyncReturns
<1> QED
  BY <1>2, <1>3, FedKeeps

\* The snapshot itself, and one whose API is in trouble.
LEMMA ReplacedFacts ==
  ASSUME IInv, NEW s \in Syncs
  PROVE  Replaced(s, value) /\ \A slow \in BOOLEAN : Replaced(s, Troubled(value, slow))
<1>1. /\ value \in Values /\ value.list \in Int /\ value.count \in Int /\ value.stats \in Int
      /\ value.list <= version /\ value.count <= version /\ value.stats <= version
  BY DEF IInv, Typed, ValuePast, Values, Version, Unread
<1>2. \A slow \in BOOLEAN :
        /\ Troubled(value, slow) \in Values /\ Troubled(value, slow).list = value.list
        /\ Troubled(value, slow).count = value.count
        /\ Troubled(value, slow).stats = value.stats
  BY <1>1, TroubledFacts
<1> QED
  BY <1>1, <1>2 DEF Replaced

LEMMA PublishedFacts ==
  ASSUME IInv, NEW s \in Syncs, sync[s].pc = "reconcile"
  PROVE  Replaced(s, Published(sync[s].rows))
<1> DEFINE rows == sync[s].rows
           health == IF Known THEN value.health ELSE "ONLINE"
           v == [value EXCEPT !.list = rows, !.count = rows, !.os = "RESPONSIVE",
                              !.health = health]
<1>1. value \in Values /\ rows \in Version /\ overruns \in 0..MaxOverruns
  BY DEF IInv, Typed, SyncCalls
<1>2. /\ rows <= version /\ value.stats <= version /\ value.stats \in Int
      /\ overruns = 0 => value.list <= rows /\ value.count <= rows
  BY <1>1 DEF IInv, ValuePast, SyncReadsPast, Values, Version, Unread
<1>3. health \in {None, "ONLINE", "OFFLINE"}
  BY <1>1 DEF Values
<1>4. Published(rows) = v
  BY DEF Published
<1> HIDE DEF rows, health
<1>5. v \in Values /\ v.list = rows /\ v.count = rows /\ v.stats = value.stats
  BY <1>1, <1>3 DEF Values
<1>6. value.list \in Int /\ value.count \in Int /\ rows \in Int
  BY <1>1 DEF Values, Version, Unread
<1>7. (v.list >= value.list /\ v.count >= value.count) \/ overruns > 0
  BY <1>1, <1>2, <1>5, <1>6
<1> HIDE DEF v
<1>8. Replaced(s, v)
  BY <1>1, <1>2, <1>5, <1>6, <1>7 DEF Replaced
<1> QED
  BY <1>4, <1>8 DEF rows

\* A snapshot is not replaced by an older one, or a deadline of the sync has
\* passed before.
NotOlder ==
  \/ \A k \in {"list", "count", "stats"} : value'[k] >= value[k]
  \/ Fed /\ overruns > 0

LEMMA SyncWorkStep ==
  ASSUME IInv, NEW s \in Syncs, SyncReadFails(s) \/ SyncPublishes(s) \/ SyncReconcileFails(s)
  PROVE  IInv' /\ NotOlder
<1>1. sync[s].pc # "idle" /\ SyncEnds(s) /\ UNCHANGED overruns
      /\ age' \in {"fresh", "stale", "old"}
  BY DEF IInv, Typed, SyncReadFails, SyncPublishes, SyncReconcileFails
<1>2. \E e, v : SameLocks(e) /\ Replaced(s, v) /\ SyncReturns(s, e, v)
  <2>1. CASE SyncReadFails(s)
    <3>1. CASE lock = s
      <4>1. PICK slow \in BOOLEAN : SyncReturns(s, ReadFailed(entry), Troubled(value, slow))
        BY <2>1, <3>1 DEF SyncReadFails
      <4> QED
        BY <4>1, EntryFacts, ReplacedFacts
    <3>2. CASE lock # s
      BY <2>1, <3>2, EntryFacts, ReplacedFacts DEF SyncReadFails
    <3> QED
      BY <3>1, <3>2
  <2>2. CASE SyncPublishes(s)
    BY <2>2, EntryFacts, PublishedFacts DEF SyncPublishes
  <2>3. CASE SyncReconcileFails(s)
    BY <2>3, EntryFacts, ReplacedFacts DEF SyncReconcileFails
  <2> QED
    BY <2>1, <2>2, <2>3
<1>3. PICK e, v : SameLocks(e) /\ Replaced(s, v) /\ SyncReturns(s, e, v)
  BY <1>2
<1>4. IInv' /\ value' = v
  BY <1>1, <1>3, EndsWith
<1>5. Fed
  BY <1>1 DEF IInv, SyncLocks
<1> QED
  BY <1>3, <1>4, <1>5 DEF Replaced, NotOlder

LEMMA SyncOverrunsStep ==
  ASSUME IInv, NEW s \in Syncs, SyncOverruns(s)
  PROVE  IInv' /\ NotOlder
<1>1. /\ lock = s /\ overruns' = overruns + 1 /\ overruns < MaxOverruns
      /\ UNCHANGED <<age, sync>>
  BY DEF SyncOverruns
<1>2. PICK e, v : SameLocks(e) /\ Replaced(s, v) /\ SyncReturns(s, e, v)
  <2>1. CASE sync[s].pc = "read"
    <3>1. PICK slow \in BOOLEAN : SyncReturns(s, ReadFailed(entry), Troubled(value, slow))
      BY <2>1 DEF SyncOverruns
    <3> QED
      BY <3>1, EntryFacts, ReplacedFacts
  <2>2. CASE sync[s].pc # "read"
    BY <2>2, EntryFacts, ReplacedFacts DEF SyncOverruns
  <2> QED
    BY <2>1, <2>2
<1>3. Fed /\ age' \in {"fresh", "stale", "old"} /\ sync' \in [Syncs -> SyncCalls]
  BY <1>1, NamesAssumption DEF IInv, Typed, SyncLocks
<1>4. overruns' \in 0..MaxOverruns /\ overruns' # 0
  BY <1>1, GatewayAssumption DEF IInv, Typed
<1>5. FedStep
  BY <1>2, <1>3, <1>4, ReturnStep DEF Replaced
<1>6. SyncReadsPast'
  <2>1. version' = version /\ sync' = sync
    BY <1>1, <1>5 DEF FedStep
  <2> QED
    BY <1>4, <2>1 DEF IInv, SyncReadsPast
<1>7. IInv'
  BY <1>5, <1>6, FedKeeps
<1>8. value' = v
  BY <1>2 DEF SyncReturns
<1> QED
  BY <1>2, <1>3, <1>7, <1>8 DEF Replaced, NotOlder

LEMMA StatsReadStep ==
  ASSUME IInv, StatsStep
  PROVE  IInv' /\ NotOlder
<1>1. /\ entry.statsInflight
      /\ entry' = [entry EXCEPT !.statsInflight = FALSE, !.statsDue = FALSE]
      /\ value' = [value EXCEPT !.stats = version] \/ value' = value
      /\ UNCHANGED <<feed, version, age, refresh, reader, collector, sync, lock, overruns>>
  BY DEF StatsStep, StatsSucceeds, StatsFails, AfterStatsFailure, AfterStats
<1>2. /\ version \in 0..MaxVersion /\ entry \in Entries /\ collector \in Collectors
      /\ reader \in [Readers -> Refreshes \cup {None}] /\ age \in {"fresh", "stale", "old"}
      /\ (collector.target => ~Fed) /\ value \in Values
      /\ sync \in [Syncs -> SyncCalls] /\ lock \in Syncs \cup {None}
      /\ overruns \in 0..MaxOverruns
  BY DEF IInv, Typed, OneRefresh
<1>3. Fed /\ feed = "stats" /\ lock = None
  BY <1>1 DEF IInv, SyncLocks, Fed
<1>4. entry' \in Entries /\ entry'.inflight = entry.inflight /\ entry'.statsInflight = FALSE
      /\ entry'.syncBusy = entry.syncBusy
  BY <1>1, <1>2 DEF Entries
<1>5. /\ value' \in Values /\ value'.list = value.list /\ value'.count = value.count
      /\ value'.stats = version \/ value'.stats = value.stats
  <2>1. version \in Version
    BY <1>2 DEF Version, Unread
  <2> QED
    BY <1>1, <1>2, <2>1 DEF Values
<1>6. /\ value.list \in Int /\ value.count \in Int /\ value.stats \in Int
      /\ value.list <= version /\ value.count <= version /\ value.stats <= version
  BY <1>2 DEF IInv, ValuePast, Values, Version, Unread
<1>7. LocksKept
  BY <1>1, <1>3, <1>4 DEF LocksKept, IInv, SyncLocks
<1>8. Calm
  BY <1>1, <1>2, <1>4 DEF Calm
<1>9. value'.list <= version /\ value'.count <= version /\ value'.stats <= version
  BY <1>2, <1>5, <1>6
<1>10. FedStep
  BY <1>1, <1>2, <1>3, <1>5, <1>7, <1>8, <1>9 DEF FedStep
<1>11. SyncReadsPast'
  BY <1>1, <1>5 DEF IInv, SyncReadsPast
<1>12. \A k \in {"list", "count", "stats"} : value'[k] >= value[k]
  BY <1>2, <1>5, <1>6
<1> QED
  BY <1>10, <1>11, <1>12, FedKeeps DEF NotOlder

LEMMA SameValue == ASSUME IInv, value' = value PROVE NotOlder
<1>1. value.list \in Int /\ value.count \in Int /\ value.stats \in Int
  BY DEF IInv, Typed, Values, Version, Unread
<1> QED
  BY <1>1 DEF NotOlder

LEMMA InvStep ==
  ASSUME IInv, [Next]_vars
  PROVE  IInv' /\ NotOlder
<1>1. ASSUME NEW f \in Refreshes, Ends(f) PROVE IInv' /\ NotOlder
  <2>1. \A k \in {"list", "count", "stats"} : value'[k] >= value[k]
    <3>1. value \in Values /\ value' \in Values
      BY <1>1 DEF Ends, IInv, Typed
    <3>2. /\ value.list \in Int /\ value.count \in Int /\ value.stats \in Int
          /\ value'.list \in Int /\ value'.count \in Int /\ value'.stats \in Int
      BY <3>1 DEF Values, Version, Unread
    <3> QED
      BY <1>1, <3>2 DEF Ends
  <2> QED
    BY <1>1, <2>1, EndStep DEF NotOlder
<1>2. ASSUME NEW f \in Refreshes, RefreshStep(f) PROVE IInv' /\ NotOlder
  <2>1. ASSUME NEW ok \in BOOLEAN, RefreshGoesOn(f, ok) PROVE IInv' /\ NotOlder
    BY <2>1, GoesOnStep, SameValue DEF RefreshGoesOn
  <2>2. ASSUME NEW ok \in BOOLEAN, RefreshSucceeds(f, ok) PROVE IInv' /\ NotOlder
    BY <1>1, <2>2, SucceedsEnds
  <2>3. CASE RefreshFails(f)
    BY <1>1, <2>3, FailsEnds
  <2> QED
    BY <1>2, <2>1, <2>2, <2>3 DEF RefreshStep
<1>3. ASSUME NEW f \in Refreshes, Starts(f) PROVE IInv' /\ NotOlder
  BY <1>3, StartStep, SameValue DEF Starts
<1>4. CASE Quiet
  BY <1>4, QuietStep, SameValue DEF Quiet
<1>5. CASE CycleOverruns
  BY <1>5, CycleOverrunsStep, SameValue DEF CycleOverruns
<1>6. ASSUME NEW s \in Syncs, SyncStarts(s) \/ SyncStep(s) \/ SyncOverruns(s)
      PROVE  IInv' /\ NotOlder
  <2>1. CASE SyncStarts(s)
    BY <2>1, SyncStartsStep, SameValue DEF SyncStarts
  <2>2. CASE SyncReads(s)
    BY <2>2, SyncReadsStep, SameValue DEF SyncReads
  <2> QED
    BY <1>6, <2>1, <2>2, SyncWorkStep, SyncOverrunsStep DEF SyncStep
<1>7. CASE StatsStep
  BY <1>7, StatsReadStep
<1> QED
  BY <1>2, <1>3, <1>4, <1>5, <1>6, <1>7, QuietSteps, Starting DEF Next, CycleStep

LEMMA InvAlways == Spec => []IInv
<1>1. IInv /\ [Next]_vars => IInv'
  BY InvStep
<1> QED
  BY <1>1, InvInit, PTL DEF Spec

-----------------------------------------------------------------------------
(* The theorems.                                                             *)

\* Types are kept; syncBusy is set only while a sync has the lock, and the
\* refresh the entry holds is one that is reading.
THEOREM TypeCorrect == Spec => []TypeOK
<1>1. ASSUME IInv PROVE TypeOK
  <2>1. entry.syncBusy => lock # None
    BY <1>1 DEF IInv, SyncLocks
  <2>2. entry.inflight # None => Reading(entry.inflight)
    BY <1>1 DEF IInv, OneRefresh, Typed, Entries
  <2> QED
    BY <1>1, <2>1, <2>2
    DEF IInv, Typed, TypeOK, Values, Entries, Reads, Commands, Opening, Collectors, SyncCalls
<1>2. IInv => TypeOK
  BY <1>1
<1> QED
  BY <1>2, InvAlways, PTL

\* A small router serves one live read at a time, counting the refreshes that
\* their cycle no longer awaits: one refresh of the router that feeds its own
\* snapshot, or one of the sync and the resource read.
THEOREM OneReadCorrect == Spec => []OneReadAtATime
<1>1. ASSUME IInv PROVE OneReadAtATime
  <2> DEFINE S == {f \in Refreshes : Reading(f)}
  <2>1. S \subseteq {entry.inflight}
    BY <1>1 DEF IInv, OneRefresh
  <2>2. IsFiniteSet({entry.inflight}) /\ Cardinality({entry.inflight}) = 1
    BY FS_Singleton
  <2>3. Cardinality(S) <= 1
    BY <2>1, <2>2, FS_Subset
  <2>4. Fed => \A f \in Refreshes : ~Reading(f)
    BY <1>1, NamesAssumption DEF IInv, OneRefresh
  <2>5. feed = "stats" => ~(entry.statsInflight /\ lock # None)
    BY <1>1 DEF IInv, SyncLocks
  <2> QED
    BY <2>3, <2>4, <2>5 DEF OneReadAtATime
<1>2. IInv => OneReadAtATime
  BY <1>1
<1> QED
  BY <1>2, InvAlways, PTL

\* A snapshot is never replaced by an older one, field by field, whatever the
\* cycles, the readers and the screens do; nor by a sync, until one outlives its
\* deadline.
THEOREM FreshnessCorrect == Spec => SnapshotNeverGoesBack
<1>1. IInv /\ [Next]_vars => [NotOlder]_vars
  BY InvStep
<1> QED
  BY <1>1, InvAlways, PTL DEF Spec, SnapshotNeverGoesBack, NotOlder
=============================================================================
