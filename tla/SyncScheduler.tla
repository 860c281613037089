---------------------------- MODULE SyncScheduler ----------------------------
(***************************************************************************)
(* RouterSyncScheduler: when the activation sync reads each router, and    *)
(* with what concurrency.  Time is counted in dispatcher periods (5 s); a  *)
(* date is kept as the number of periods until it (`wait`) or since it     *)
(* (`since`).  The queue order between two routers whose last success and  *)
(* rank are equal is left open.                                            *)
(***************************************************************************)
EXTENDS Integers, FiniteSetsExt

CONSTANTS Routers,
          Changing,  \* routers whose configuration changes; the others stay up
          PoolMax, Base, Skip, Cap, Probe, Slow,  \* the SYNC_* constants
          Ttl,       \* SYNC_ROUTER_LIST_TTL_MS
          Deadline,  \* SYNC_ROUTER_DEADLINE_MS, the longest read
          MaxFails,  \* bound on consecutiveFailures, where the backoff saturates
          MaxChanges \* bound on the changes of the routers' configuration

ASSUME SchedulerAssumption ==
  /\ Changing \subseteq Routers /\ IsFiniteSet(Routers)
  /\ PoolMax \in Nat \ {0} /\ Base \in Nat \ {0} /\ Skip \in Nat /\ Cap \in Nat
  /\ Probe \in Nat /\ Slow \in Nat /\ Ttl \in Nat /\ Deadline \in Nat
  /\ MaxFails \in Nat \ {0} /\ MaxChanges \in Nat
  /\ Base * 2^(MaxFails - 1) >= Cap

VARIABLES
  fact,    \* the router's row: "none" (no REMOTE router), "blocked" (no
           \* credentials or no active peer), "down" (stale handshake), "up"
  st,      \* this.states
  recent,  \* the order of lastSuccessAt: the pairs of routers that have one, the
           \* first not after the second
  reads,   \* reads of the router that are running
  elapsed, \* ... and for how long
  listAge, \* since listAt
  beat,    \* the interval has fired
  changes

vars == <<fact, st, recent, reads, elapsed, listAge, beat, changes>>

Never == -1

Unknown == [known |-> FALSE, view |-> "none", wait |-> 0, fails |-> 0,
            since |-> Never, slow |-> FALSE, inFlight |-> FALSE]

Init ==
  /\ fact \in [Routers -> {"up", "down", "blocked"}]
  /\ \A r \in Routers \ Changing : fact[r] = "up"
  /\ st = [r \in Routers |-> Unknown]
  /\ recent = {}
  /\ reads = [r \in Routers |-> 0] /\ elapsed = [r \in Routers |-> 0]
  /\ listAge = Ttl /\ beat = TRUE /\ changes = 0

-----------------------------------------------------------------------------
(* refreshRouters.                                                          *)

\* Forgotten, unless it is being read.
Forgettable(r) == fact[r] = "none" /\ ~st[r].inFlight

\* Read at once: a configuration completed, a handshake that came back.
Restored(r) == \/ st[r].view = "blocked" /\ fact[r] # "blocked"
               \/ st[r].view = "down" /\ fact[r] = "up"

Refreshed ==
  [r \in Routers |->
     CASE Forgettable(r) -> Unknown
       [] ~Forgettable(r) /\ fact[r] = "none" -> st[r]
       [] fact[r] # "none" /\ ~st[r].known ->
            [Unknown EXCEPT !.known = TRUE, !.view = fact[r]]
       [] fact[r] # "none" /\ st[r].known ->
            [st[r] EXCEPT !.view = fact[r], !.wait = IF Restored(r) THEN 0 ELSE @]]

-----------------------------------------------------------------------------
(* launchDue, on the states s.                                              *)

\* Mutant: a router that is being read stays due.
DueAgain(s) == {r \in Routers :
             /\ s[r].view \in {"up", "down"} /\ s[r].wait = 0
             /\ s[r].view = "down" /\ s[r].since # Never => s[r].since >= Probe}

Due(s) == {r \in Routers :
             /\ s[r].view \in {"up", "down"} /\ ~s[r].inFlight /\ s[r].wait = 0
             /\ s[r].view = "down" /\ s[r].since # Never => s[r].since >= Probe}

IsSlow(x) == x.fails > 0 \/ x.slow

Succeeded(r) == <<r, r>> \in recent

Rank(s, r) == CASE s[r].fails > 0 -> 3
                [] s[r].fails = 0 /\ s[r].slow -> 2
                [] ~IsSlow(s[r]) /\ ~Succeeded(r) -> 1
                [] ~IsSlow(s[r]) /\ Succeeded(r) -> 0

\* The sort of the due routers: rank, then the oldest success (none first).
Before(s, a, b) ==
  \/ Rank(s, a) < Rank(s, b)
  \/ /\ Rank(s, a) = Rank(s, b) /\ Succeeded(b)
     /\ Succeeded(a) => <<a, b>> \in recent

\* The n first of S: nothing left out comes before something taken.
Firsts(s, n, S) ==
  {T \in kSubset(Min({n, Cardinality(S)}), S) :
     \A a \in S \ T, b \in T : ~Before(s, a, b)}

InFlight(s) == {r \in Routers : s[r].inFlight}
SlowOf(s, S) == {r \in S : IsSlow(s[r])}

Free(s) == PoolMax - Cardinality(InFlight(s))

\* Mutant: slow routers may take the whole pool.
WholePool(s) == PoolMax - Cardinality(SlowOf(s, InFlight(s)))

\* Slow routers never take the last slot.
SlowRoom(s) == PoolMax - 1 - Cardinality(SlowOf(s, InFlight(s)))

\* runOne up to its await, for what the loop over the due routers takes:
\* healthy routers come first in the sort, so they fill the free slots, then
\* slow ones.
Launch(s) ==
  LET due == Due(s)
      slow == SlowOf(s, due) IN
  \E H \in Firsts(s, Free(s), due \ slow) :
  \E L \in Firsts(s, Min({Free(s) - Cardinality(H), SlowRoom(s)}), slow) :
    /\ st' = [r \in Routers |-> [s[r] EXCEPT !.inFlight = @ \/ r \in H \cup L]]
    /\ reads' = [r \in Routers |-> reads[r] + (IF r \in H \cup L THEN 1 ELSE 0)]
    /\ elapsed' = [r \in Routers |-> IF r \in H \cup L THEN 0 ELSE elapsed[r]]

-----------------------------------------------------------------------------
(* dispatch, called by the interval.  The list query answers within a       *)
(* period, so that a call never finds `dispatching` set by the last one.    *)

\* The list is recent enough.
DispatchLaunch ==
  /\ beat /\ listAge < Ttl
  /\ beat' = FALSE
  /\ Launch(st)
  /\ UNCHANGED <<fact, recent, listAge, changes>>

DispatchRefresh ==
  /\ beat /\ listAge >= Ttl
  /\ beat' = FALSE /\ listAge' = 0
  /\ recent' = {p \in recent : ~Forgettable(p[1]) /\ ~Forgettable(p[2])}
  /\ \E s \in {Refreshed} : Launch(s)
  /\ UNCHANGED <<fact, changes>>

\* The query failed: the list is kept and asked for again at the next call.
DispatchListFailed ==
  /\ beat /\ listAge >= Ttl
  /\ beat' = FALSE
  /\ Launch(st)
  /\ UNCHANGED <<fact, recent, listAge, changes>>

Dispatch == DispatchLaunch \/ DispatchRefresh \/ DispatchListFailed

-----------------------------------------------------------------------------
(* The end of a read.                                                       *)

\* base * 2^(fails - 1).
Doubled[fails \in 1..MaxFails] == IF fails = 1 THEN Base ELSE 2 * Doubled[fails - 1]

\* Mutant: the cap is left out.
BackoffUncapped(fails) == Doubled[fails]

Backoff(fails) == Min({Cap, Doubled[fails]})

\* Mutant: the flag is not cleared when the read throws.
EndedUnlessItThrows(x, status, d) ==
  CASE status = "skipped" -> [x EXCEPT !.inFlight = FALSE, !.wait = Skip]
    [] status = "ok" ->
         [x EXCEPT !.inFlight = FALSE, !.fails = 0, !.since = 0, !.slow = d > Slow,
                   !.wait = Max({Base, 2 * d}) - d]
    [] status = "failed" -> x

\* The state after a read of duration d.
Ended(x, status, d) ==
  CASE status = "skipped" -> [x EXCEPT !.inFlight = FALSE, !.wait = Skip]
    [] status = "ok" ->
         [x EXCEPT !.inFlight = FALSE, !.fails = 0, !.since = 0, !.slow = d > Slow,
                   !.wait = Max({Base, 2 * d}) - d]
    [] status = "failed" ->
         LET n == Min({x.fails + 1, MaxFails}) IN
         [x EXCEPT !.inFlight = FALSE, !.fails = n, !.since = 0, !.slow = d > Slow,
                   !.wait = Backoff(n)]

\* A read ends; "skipped" is immediate.
RunEnd(r, status) ==
  /\ reads[r] > 0
  /\ status = "skipped" => elapsed[r] = 0
  /\ st' = IF st[r].known THEN [st EXCEPT ![r] = Ended(@, status, elapsed[r])] ELSE st
  /\ recent' = IF status = "ok" /\ st[r].known
               THEN {p \in recent : r \notin {p[1], p[2]}}
                    \cup {<<q, r>> : q \in {r} \cup {q \in Routers : Succeeded(q)}}
               ELSE recent
  /\ reads' = [reads EXCEPT ![r] = @ - 1]
  /\ elapsed' = [elapsed EXCEPT ![r] = 0]
  /\ UNCHANGED <<fact, listAge, beat, changes>>

Statuses == {"ok", "failed", "skipped"}

-----------------------------------------------------------------------------
(* Time and configuration.                                                  *)

\* The next call of the interval.  A read lasts as long as the router takes,
\* the deadline at most.
Tick ==
  /\ ~beat
  /\ \A r \in Routers : reads[r] > 0 => elapsed[r] < Deadline
  /\ beat' = TRUE
  /\ listAge' = Min({listAge + 1, Ttl})
  /\ elapsed' = [r \in Routers |-> IF reads[r] > 0 THEN elapsed[r] + 1 ELSE 0]
  /\ st' = [r \in Routers |->
              [st[r] EXCEPT !.wait = IF @ > 0 THEN @ - 1 ELSE 0,
                            !.since = IF @ = Never THEN Never ELSE Min({@ + 1, Probe})]]
  /\ UNCHANGED <<fact, recent, reads, changes>>

\* Credentials, tunnel, handshake or mode change, or the router is deleted.
Configure(r) ==
  /\ changes < MaxChanges /\ r \in Changing
  /\ \E f \in {"none", "blocked", "down", "up"} \ {fact[r]} : fact' = [fact EXCEPT ![r] = f]
  /\ changes' = changes + 1
  /\ UNCHANGED <<st, recent, reads, elapsed, listAge, beat>>

Next ==
  \/ Dispatch \/ Tick
  \/ \E r \in Routers : Configure(r) \/ \E status \in Statuses : RunEnd(r, status)

Spec == Init /\ [][Next]_vars

-----------------------------------------------------------------------------

RouterState ==
  [known : BOOLEAN, view : {"none", "blocked", "down", "up"}, wait : Nat, fails : 0..MaxFails,
   since : {Never} \cup (0..Probe), slow : BOOLEAN, inFlight : BOOLEAN]

\* The type invariant; no wait is longer than the cap of the backoff or twice
\* the longest read.
TypeOK ==
  /\ fact \in [Routers -> {"none", "blocked", "down", "up"}]
  /\ st \in [Routers -> RouterState]
  /\ \A r \in Routers : st[r].wait <= Max({Max({Skip, Base}), Max({Cap, Deadline})})
  /\ recent \subseteq Routers \X Routers
  /\ reads \in [Routers -> Nat] /\ elapsed \in [Routers -> 0..Deadline]
  /\ beat \in BOOLEAN
  /\ listAge \in 0..Ttl /\ changes \in 0..MaxChanges

\* A router is read once at a time, although it may be deleted and come back
\* while a read of it is running.
OneReadPerRouter == \A r \in Routers : reads[r] = (IF st[r].inFlight THEN 1 ELSE 0)

\* The pool is bounded, and its last slot is never given to a slow router.
Running == {r \in Routers : reads[r] > 0}
PoolBounded ==
  /\ Cardinality(Running) <= PoolMax
  /\ Cardinality(SlowOf(st, Running)) <= PoolMax - 1

-----------------------------------------------------------------------------
(* Progress.                                                                *)

\* The interval fires, a list query returns, a lock is not found taken for
\* ever.
Fairness ==
  /\ WF_vars(Dispatch) /\ WF_vars(Tick)
  /\ SF_vars(DispatchRefresh)
  /\ \A r \in Routers : SF_vars(RunEnd(r, "ok") \/ RunEnd(r, "failed"))

FairSpec == Init /\ [][Next]_vars /\ Fairness

\* A router that can be read is read again and again, whatever the others
\* make the pool wait for.
KeepsBeingRead ==
  \A r \in Routers : fact[r] = "up" ~> reads[r] > 0 \/ fact[r] # "up"
=============================================================================
