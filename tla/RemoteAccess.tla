----------------------------- MODULE RemoteAccess -----------------------------
(***************************************************************************)
(* Remote management: the RemotePeer rows, the WireGuard peers and the     *)
(* port forwarding rules of the VPS derived from them, the calls that      *)
(* write both, and WireGuardReconciler, which makes the second follow the  *)
(* first.  One action is one query, transaction or command.                *)
(* A rule stands for the four iptables rules of one router and source; an  *)
(* address for the pair (wgIp, allocatedPort), always allocated together.  *)
(* Router.mode, written with the row and read by none of this, is left out. *)
(***************************************************************************)
EXTENDS Integers, FiniteSetsExt

CONSTANTS Routers, Tenants,
          Owner,        \* the tenant of each router
          Addresses,    \* WG_SUBNET_BASE and WG_PORT_MIN..WG_PORT_MAX
          Sources,      \* client addresses
          Calls,        \* calls under way at a time
          Cycles,       \* reconciles under way at a time: the interval does not wait
          OpKinds,      \* the calls made
          Start,        \* the addresses of the routers provisioned at the start
          MaxCalls, MaxTime, MaxTroubles  \* bounds

Cron == 0  \* the slot of ComplianceCron.revokeDeletedTenantPeers
NoRouter == "no router"
NoSource == "no source"

ASSUME RemoteAssumption ==
  /\ Owner \in [Routers -> Tenants] /\ IsFiniteSet(Routers)
  /\ Addresses \in SUBSET (Nat \ {0}) /\ IsFiniteSet(Addresses)
  /\ DOMAIN Start \subseteq Routers /\ \A r \in DOMAIN Start : Start[r] \in Addresses
  /\ \A p, q \in DOMAIN Start : Start[p] = Start[q] => p = q
  /\ Cycles = 1..Cardinality(Cycles) /\ NoRouter \notin Routers /\ NoSource \notin Sources /\ Calls = 1..Cardinality(Calls)
  /\ MaxCalls \in Nat /\ MaxTime \in Nat \ {0} /\ MaxTroubles \in Nat

VARIABLES
  live,     \* the Router row exists
  row,      \* the RemotePeer row
  consent,  \* Tenant.remoteAccessVersion is the current one
  paid,     \* isRemoteAllowed
  closed,   \* Tenant.status is DELETED
  wg,       \* peers of the interface: key -> allowed address, 0 for none
  rules,    \* copies of each forwarding rule
  now,
  call, cycle,
  made,     \* calls made; a provision's key is the number of its call
  troubles, \* failed commands, restarts and overlapping reconciles
  quiet     \* history: cycles since whose read nobody else changed anything

store == <<live, row, consent, paid, closed>>
vars == <<live, row, consent, paid, closed, wg, rules, now, call, cycle, made,
          troubles, quiet>>

StartKey(r) == MaxCalls + Start[r]
Keys == 1..MaxCalls \cup {StartKey(r) : r \in DOMAIN Start}
NoRow == [status |-> "NONE", key |-> 0, ip |-> 0, until |-> 0, src |-> NoSource]
Peer(key, ip) == [status |-> "ACTIVE", key |-> key, ip |-> ip, until |-> 0,
                  src |-> NoSource]
Idle == [op |-> "idle", at |-> "", router |-> NoRouter, row |-> NoRow,
         todo |-> {}, listed |-> [r \in {} |-> NoRow], key |-> 0,
         until |-> 0, src |-> NoSource]
Waiting == [at |-> "idle", seen |-> [r \in {} |-> NoRow], todo |-> {}, extra |-> {}]

Active == {r \in Routers : row[r].status = "ACTIVE"}

\* Mutant: the addresses of revoked peers are free.
TakenByActive == {row[r].ip : r \in Active}

\* allocate reads every row, the revoked ones included.
Taken == {row[r].ip : r \in Routers}

Init ==
  /\ live = [r \in Routers |-> TRUE]
  /\ row = [r \in Routers |-> IF r \in DOMAIN Start
                              THEN Peer(StartKey(r), Start[r]) ELSE NoRow]
  /\ wg = [k \in {StartKey(r) : r \in DOMAIN Start} |-> k - MaxCalls]
  /\ consent = [t \in Tenants |-> TRUE] /\ paid = [t \in Tenants |-> TRUE]
  /\ closed = [t \in Tenants |-> FALSE]
  /\ rules = [rule \in Addresses \X Sources |-> 0]
  /\ now = 1 /\ made = 0 /\ troubles = 0 /\ quiet = {}
  /\ call = [c \in Calls \cup {Cron} |-> Idle]
  /\ cycle = [k \in Cycles |-> Waiting]

-----------------------------------------------------------------------------
(* The commands of wireguard.service.ts.                                    *)

\* An address belongs to one peer of an interface: the last one set.
SetPeer(key, ip) ==
  wg' = [k \in DOMAIN wg \cup {key} |->
           IF k = key THEN ip ELSE IF wg[k] = ip THEN 0 ELSE wg[k]]

RemovePeer(key) == wg' = [k \in DOMAIN wg \ {key} |-> wg[k]]

AddRule(ip, src) == rules' = [rules EXCEPT ![<<ip, src>>] = @ + 1]

\* iptables -D: one copy; a failure is swallowed, no source is a no-op.
DropRule(ip, src) ==
  rules' = IF src = NoSource THEN rules
           ELSE [rules EXCEPT ![<<ip, src>>] = IF @ = 0 THEN 0 ELSE @ - 1]

\* A command fails.
Trouble == troubles < MaxTroubles /\ troubles' = troubles + 1
Works == troubles' = troubles

-----------------------------------------------------------------------------
(* Calls.                                                                   *)

\* A new call takes the first free slot of Calls.
FreeSlot(c) == made < MaxCalls /\ call[c] = Idle /\ \A d \in 1..(c - 1) : call[d] # Idle

Begin(c, op) ==
  /\ op \in OpKinds /\ made' = made + 1
  /\ UNCHANGED <<wg, rules, now, cycle, troubles>>

Go(c, at) == call' = [call EXCEPT ![c].at = at]
End(c) == call' = [call EXCEPT ![c] = Idle]
At(c, at) == call[c].at = at

\* provisionInner: the subscription and the authorization.
StartProvision(c, r) ==
  /\ Begin(c, "provision")
  /\ paid[Owner[r]] /\ consent[Owner[r]]
  /\ call' = [call EXCEPT ![c] = [Idle EXCEPT
                !.op = "provision", !.at = "read", !.router = r, !.key = made + 1]]
  /\ UNCHANGED store

\* ... the router, its peer, and the address: the one of the revoked peer, or
\* the first free one.
ProvisionRead(c) ==
  LET r == call[c].router
      free == Addresses \ Taken
  IN
  /\ call[c].op = "provision" /\ At(c, "read")
  /\ \/ /\ live[r] /\ r \notin Active
        /\ \/ /\ row[r] # NoRow
              /\ call' = [call EXCEPT ![c].at = "add", ![c].row = row[r]]
           \/ /\ row[r] = NoRow /\ free # {}
              /\ call' = [call EXCEPT ![c].at = "add", ![c].row.ip = Min(free)]
     \/ ~live[r] /\ End(c)
     \/ r \in Active /\ End(c)
     \/ row[r] = NoRow /\ free = {} /\ End(c)
  /\ UNCHANGED <<store, wg, rules, now, cycle, made, troubles>>

\* addPeer, for a provision and for the administrator's resync, which sets the
\* rules of an open window again.
CallAddPeer(c) ==
  /\ At(c, "add")
  /\ \/ /\ Works /\ SetPeer(call[c].key, call[c].row.ip)
        /\ CASE call[c].op = "provision" -> Go(c, "commit")
             [] call[c].op = "resync" /\ call[c].row.until > now -> Go(c, "unrule")
             [] OTHER -> End(c)
     \/ Trouble /\ End(c) /\ UNCHANGED wg
  /\ UNCHANGED <<store, rules, now, cycle, made>>

\* Mutant: every provision takes the first free address.
FreshAddress(c) ==
  IF Addresses \ Taken = {} THEN call[c].row.ip ELSE Min(Addresses \ Taken)

GivenAddress(c) == call[c].row.ip

\* The transaction.  routerId, wgIp and allocatedPort are unique: a create
\* that lost the race fails, and so does the update of a row that is gone.
ProvisionCommit(c) ==
  LET r == call[c].router
      ip == GivenAddress(c)
      allowed == IF call[c].row.status = "NONE"
                 THEN live[r] /\ row[r] = NoRow /\ ip \notin Taken
                 ELSE row[r] # NoRow
  IN
  /\ call[c].op = "provision" /\ At(c, "commit") /\ End(c)
  /\ row' = IF allowed THEN [row EXCEPT ![r] = Peer(call[c].key, ip)] ELSE row
  /\ UNCHANGED <<live, consent, paid, closed, wg, rules, now, cycle, made,
                 troubles>>

\* admin-wireguard resync: the active row is read, then set again.
StartResync(c, r) ==
  /\ Begin(c, "resync") /\ r \in Active
  /\ call' = [call EXCEPT ![c] = [Idle EXCEPT !.op = "resync", !.at = "add",
                !.router = r, !.row = row[r], !.key = row[r].key, !.src = row[r].src]]
  /\ UNCHANGED store

-----------------------------------------------------------------------------
(* Revocations: by the owner, an administrator, the withdrawal of the       *)
(* authorization, the cron and the removal of the router.                   *)

\* RemoteAccessService.revoke and admin revoke: the row is read.
StartRevoke(c, r, op) ==
  /\ Begin(c, op) /\ op \in {"revoke", "adminRevoke"}
  /\ IF op = "revoke" THEN row[r] # NoRow ELSE r \in Active
  /\ call' = [call EXCEPT ![c] = [Idle EXCEPT
                !.op = op, !.at = "remove", !.router = r, !.row = row[r]]]
  /\ UNCHANGED store

\* RoutersService.remove: hardCleanup.
StartDelete(c, r) ==
  /\ Begin(c, "delete") /\ live[r]
  /\ call' = [call EXCEPT ![c] = [Idle EXCEPT
                !.op = "delete", !.at = IF row[r] = NoRow THEN "commit" ELSE "remove",
                !.router = r, !.row = row[r]]]
  /\ UNCHANGED store

\* RemoteAccessAuthorizationService.revoke: the version is erased first.
StartWithdraw(c, t) ==
  /\ Begin(c, "withdraw")
  /\ consent' = [consent EXCEPT ![t] = FALSE]
  /\ call' = [call EXCEPT ![c] = [Idle EXCEPT !.op = "withdraw", !.at = "list",
                !.todo = {r \in Routers : Owner[r] = t}]]
  /\ UNCHANGED <<live, row, paid, closed>>

\* The peers to revoke, read in one query.
List(c, routers) ==
  call' = [call EXCEPT ![c] = [Idle EXCEPT !.op = call[c].op, !.at = "next",
             !.todo = Active \cap routers,
             !.listed = [r \in Active \cap routers |-> row[r]]]]

WithdrawList(c) ==
  /\ At(c, "list") /\ List(c, call[c].todo)
  /\ UNCHANGED <<store, wg, rules, now, cycle, made, troubles>>

\* Mutant: the cron lists the peers revoked already.
CronListsRevoked ==
  LET gone == {r \in Routers : closed[Owner[r]] /\ row[r].status = "REVOKED"} IN
  /\ call[Cron] = Idle /\ gone # {}
  /\ call' = [call EXCEPT ![Cron] = [Idle EXCEPT !.op = "cron", !.at = "next",
                !.todo = gone, !.listed = [r \in gone |-> row[r]]]]
  /\ UNCHANGED <<store, wg, rules, now, cycle, made, troubles>>

\* Every five minutes; a run that finds nothing changes nothing.
CronLists ==
  LET gone == {r \in Routers : closed[Owner[r]]} IN
  /\ call[Cron] = Idle /\ Active \cap gone # {}
  /\ call' = [call EXCEPT ![Cron] = [Idle EXCEPT !.op = "cron", !.at = "next",
                !.todo = Active \cap gone, !.listed = [r \in Active \cap gone |-> row[r]]]]
  /\ UNCHANGED <<store, wg, rules, now, cycle, made, troubles>>

\* revokeEach.
NextPeer(c) ==
  /\ At(c, "next")
  /\ \/ \E r \in call[c].todo :
          call' = [call EXCEPT ![c].at = "remove", ![c].router = r,
                     ![c].row = call[c].listed[r], ![c].todo = @ \ {r}]
     \/ call[c].todo = {} /\ End(c)
  /\ UNCHANGED <<store, wg, rules, now, cycle, made, troubles>>

\* A failure leaves the peer and its rules to the reconciler.
CallRemovePeer(c) ==
  /\ At(c, "remove")
  /\ \/ Works /\ RemovePeer(call[c].row.key) /\ Go(c, "unrule")
     \/ Trouble /\ Go(c, "commit") /\ UNCHANGED wg
  /\ UNCHANGED <<store, rules, now, cycle, made>>

CallDropRule(c) ==
  /\ At(c, "unrule")
  /\ \/ Works /\ DropRule(call[c].row.ip, call[c].row.src)
     \/ Trouble /\ UNCHANGED rules
  /\ Go(c, IF call[c].op \in {"open", "resync"} THEN "rule" ELSE "commit")
  /\ UNCHANGED <<store, wg, now, cycle, made>>

\* The transaction, by the row's id; it fails when the row is gone, which a
\* list of peers survives.  The administrator's leaves the window.
RevokeCommit(c) ==
  LET r == call[c].router
      op == call[c].op
  IN
  /\ At(c, "commit") /\ op \in {"revoke", "adminRevoke", "withdraw", "cron"}
  /\ row' = IF row[r] = NoRow THEN row
            ELSE [row EXCEPT ![r].status = "REVOKED",
                    ![r].until = IF op = "adminRevoke" THEN @ ELSE 0,
                    ![r].src = IF op = "adminRevoke" THEN @ ELSE NoSource]
  /\ IF op \in {"withdraw", "cron"} THEN Go(c, "next") ELSE End(c)
  /\ UNCHANGED <<live, consent, paid, closed, wg, rules, now, cycle, made,
                 troubles>>

\* Fails when the peer row went or came since it was read.
DeleteCommit(c) ==
  LET r == call[c].router
      same == (call[c].row = NoRow) = (row[r] = NoRow)
  IN
  /\ At(c, "commit") /\ call[c].op = "delete" /\ End(c)
  /\ IF live[r] /\ same
     THEN row' = [row EXCEPT ![r] = NoRow] /\ live' = [live EXCEPT ![r] = FALSE]
     ELSE UNCHANGED <<row, live>>
  /\ UNCHANGED <<consent, paid, closed, wg, rules, now, cycle, made, troubles>>

-----------------------------------------------------------------------------
(* Access windows.                                                          *)

StartOpen(c, r, s) ==
  /\ Begin(c, "open")
  /\ paid[Owner[r]] /\ r \in Active /\ now < MaxTime
  /\ call' = [call EXCEPT ![c] = [Idle EXCEPT !.op = "open", !.at = "unrule",
                !.router = r, !.row = row[r], !.until = now + 1, !.src = s]]
  /\ UNCHANGED store

\* A failure leaves some of the rules behind, and the row as it was.
OpenAddRule(c) ==
  /\ At(c, "rule")
  /\ \/ /\ Works /\ AddRule(call[c].row.ip, call[c].src)
        /\ IF call[c].op = "open" THEN Go(c, "commit") ELSE End(c)
     \/ /\ Trouble /\ End(c)
        /\ AddRule(call[c].row.ip, call[c].src) \/ UNCHANGED rules
  /\ UNCHANGED <<store, wg, now, cycle, made>>

\* By the row's id, whatever its status has become.
OpenCommit(c) ==
  LET r == call[c].router IN
  /\ At(c, "commit") /\ call[c].op = "open" /\ End(c)
  /\ row' = IF row[r] = NoRow THEN row
            ELSE [row EXCEPT ![r].until = call[c].until, ![r].src = call[c].src]
  /\ UNCHANGED <<live, consent, paid, closed, wg, rules, now, cycle, made,
                 troubles>>

StartClose(c, r) ==
  /\ Begin(c, "close") /\ row[r] # NoRow
  /\ call' = [call EXCEPT ![c] = [Idle EXCEPT
                !.op = "close", !.at = "unrule", !.router = r, !.row = row[r]]]
  /\ UNCHANGED store

CloseCommit(c) ==
  LET r == call[c].router IN
  /\ At(c, "commit") /\ call[c].op = "close" /\ End(c)
  /\ row' = IF row[r] = NoRow THEN row
            ELSE [row EXCEPT ![r].until = 0, ![r].src = NoSource]
  /\ UNCHANGED <<live, consent, paid, closed, wg, rules, now, cycle, made,
                 troubles>>

-----------------------------------------------------------------------------
(* Calls of one transaction.                                                *)

\* SubscriptionsService.deactivate: the rows only.
Deactivate(t) ==
  /\ "deactivate" \in OpKinds /\ made < MaxCalls /\ made' = made + 1
  /\ paid' = [paid EXCEPT ![t] = FALSE]
  /\ row' = [r \in Routers |->
               IF Owner[r] = t /\ r \in Active
               THEN [row[r] EXCEPT !.status = "REVOKED"] ELSE row[r]]
  /\ UNCHANGED <<live, consent, closed, wg, rules, now, call, cycle, troubles>>

\* RemoteAccessAuthorizationService.accept; accepting again changes nothing.
Accept(t) ==
  /\ "accept" \in OpKinds /\ ~consent[t] /\ made < MaxCalls /\ made' = made + 1
  /\ consent' = [consent EXCEPT ![t] = TRUE]
  /\ UNCHANGED <<live, row, paid, closed, wg, rules, now, call, cycle, troubles>>

\* The last member of the tenant deletes its account.
CloseTenant(t) ==
  /\ "closeTenant" \in OpKinds /\ ~closed[t] /\ made < MaxCalls /\ made' = made + 1
  /\ closed' = [closed EXCEPT ![t] = TRUE]
  /\ UNCHANGED <<live, row, consent, paid, wg, rules, now, call, cycle, troubles>>

-----------------------------------------------------------------------------
(* WireGuardReconciler.reconcile.                                           *)

\* A cycle takes the first free slot of Cycles.
CycleRead(k) ==
  /\ cycle[k] = Waiting /\ \A j \in 1..(k - 1) : cycle[j] # Waiting
  /\ cycle' = [cycle EXCEPT ![k] = [Waiting EXCEPT !.at = "peers",
                 !.seen = [r \in Active |-> row[r]], !.todo = Active]]
  /\ IF \A j \in Cycles : cycle[j] = Waiting THEN Works ELSE Trouble
  /\ UNCHANGED <<store, wg, rules, now, call, made>>

\* Mutant: syncPeers sets only the peers the interface lacks.
SetMissing(key, ip) ==
  IF key \in DOMAIN wg THEN UNCHANGED wg ELSE SetPeer(key, ip)

SetWanted(key, ip) == SetPeer(key, ip)

\* syncPeers: every wanted peer; a failing command aborts the cycle.
CycleSetPeer(k) ==
  /\ cycle[k].at = "peers"
  /\ \E r \in cycle[k].todo :
       \/ /\ Works /\ SetWanted(cycle[k].seen[r].key, cycle[k].seen[r].ip)
          /\ cycle' = [cycle EXCEPT ![k].todo = @ \ {r}]
       \/ Trouble /\ cycle' = [cycle EXCEPT ![k] = Waiting] /\ UNCHANGED wg
  /\ UNCHANGED <<store, rules, now, call, made>>

\* Mutant: the keys of revoked rows count as wanted.
ShowStrangers(k) ==
  /\ cycle[k].at = "peers" /\ cycle[k].todo = {}
  /\ cycle' = [cycle EXCEPT ![k].at = "prune",
       ![k].extra = DOMAIN wg \ {row[r].key : r \in Routers}]
  /\ UNCHANGED <<store, wg, rules, now, call, made, troubles>>

\* ... then the live keys that are not wanted.
CycleShow(k) ==
  /\ cycle[k].at = "peers" /\ cycle[k].todo = {}
  /\ cycle' = [cycle EXCEPT ![k].at = "prune",
       ![k].extra = DOMAIN wg \ {cycle[k].seen[r].key : r \in DOMAIN cycle[k].seen}]
  /\ UNCHANGED <<store, wg, rules, now, call, made, troubles>>

CyclePrune(k) ==
  /\ cycle[k].at = "prune"
  /\ \E key \in cycle[k].extra :
       \/ /\ Works /\ RemovePeer(key)
          /\ cycle' = [cycle EXCEPT ![k].extra = @ \ {key}]
       \/ Trouble /\ cycle' = [cycle EXCEPT ![k] = Waiting] /\ UNCHANGED wg
  /\ UNCHANGED <<store, rules, now, call, made>>

\* openAccessWindows, of the rows as they were read.
Windows(k) ==
  {r \in DOMAIN cycle[k].seen :
     cycle[k].seen[r].src # NoSource /\ cycle[k].seen[r].until > now}

\* syncDnat: the chains are emptied (a failure is swallowed), then refilled.
CycleFlush(k) ==
  /\ cycle[k].at = "prune" /\ cycle[k].extra = {}
  /\ \/ Works /\ rules' = [rule \in DOMAIN rules |-> 0]
     \/ Trouble /\ UNCHANGED rules
  /\ cycle' = [cycle EXCEPT ![k].at = "rules", ![k].todo = Windows(k)]
  /\ UNCHANGED <<store, wg, now, call, made>>

CycleAddRule(k) ==
  /\ cycle[k].at = "rules"
  /\ \E r \in cycle[k].todo :
       \/ /\ Works /\ AddRule(cycle[k].seen[r].ip, cycle[k].seen[r].src)
          /\ cycle' = [cycle EXCEPT ![k].todo = @ \ {r}]
       \/ Trouble /\ cycle' = [cycle EXCEPT ![k] = Waiting] /\ UNCHANGED rules
  /\ UNCHANGED <<store, wg, now, call, made>>

\* closeExpiredWindows.
CycleExpire(k) ==
  /\ cycle[k].at = "rules" /\ cycle[k].todo = {}
  /\ row' = [r \in Routers |-> IF row[r].until # 0 /\ row[r].until <= now
                              THEN [row[r] EXCEPT !.until = 0, !.src = NoSource]
                              ELSE row[r]]
  /\ cycle' = [cycle EXCEPT ![k] = Waiting]
  /\ UNCHANGED <<live, consent, paid, closed, wg, rules, now, call, made,
                 troubles>>

-----------------------------------------------------------------------------

Tick ==
  /\ now < MaxTime /\ now' = now + 1
  /\ UNCHANGED <<store, wg, rules, call, cycle, made, troubles>>

\* The VPS restarts: nothing of `wg set` and iptables is kept.
Restart ==
  /\ Trouble
  /\ wg' = [k \in {} |-> 0] /\ rules' = [rule \in DOMAIN rules |-> 0]
  /\ call' = [c \in DOMAIN call |-> Idle] /\ cycle' = [k \in Cycles |-> Waiting]
  /\ UNCHANGED <<store, now, made>>

StartCall(c) ==
  /\ FreeSlot(c)
  /\ \/ \E r \in Routers :
          \/ StartProvision(c, r) \/ StartResync(c, r) \/ StartDelete(c, r)
          \/ StartClose(c, r)
          \/ \E op \in {"revoke", "adminRevoke"} : StartRevoke(c, r, op)
          \/ \E s \in Sources : StartOpen(c, r, s)
     \/ \E t \in Tenants : StartWithdraw(c, t)

ContinueCall(c) ==
  \/ ProvisionRead(c) \/ CallAddPeer(c) \/ ProvisionCommit(c)
  \/ WithdrawList(c) \/ NextPeer(c) \/ CallRemovePeer(c) \/ CallDropRule(c)
  \/ RevokeCommit(c) \/ DeleteCommit(c)
  \/ OpenAddRule(c) \/ OpenCommit(c) \/ CloseCommit(c)

CycleStep(k) ==
  \/ CycleRead(k) \/ CycleSetPeer(k) \/ CycleShow(k) \/ CyclePrune(k)
  \/ CycleFlush(k) \/ CycleAddRule(k) \/ CycleExpire(k)

\* `quiet` after a step of the cycles ks: the others saw a change, unless
\* nothing they work on changed.
Observe(ks) ==
  quiet' = IF UNCHANGED <<row, wg, rules, now, troubles>> THEN quiet ELSE quiet \cap ks

OtherStep ==
  /\ \/ \E c \in Calls : StartCall(c)
     \/ \E c \in Calls \cup {Cron} : ContinueCall(c)
     \/ CronLists
     \/ \E t \in Tenants : Deactivate(t) \/ Accept(t) \/ CloseTenant(t)
     \/ Tick \/ Restart
  /\ Observe({})

Reconcile(k) ==
  /\ CycleStep(k)
  /\ IF cycle[k] = Waiting THEN quiet' = quiet \cup {k}
     ELSE /\ quiet' = IF troubles' # troubles THEN {}
                      ELSE IF UNCHANGED <<row, wg, rules>> THEN quiet
                      ELSE quiet \cap {k}

Next == OtherStep \/ \E k \in Cycles : Reconcile(k)

\* Some call under way goes on or the cron fires, and some reconcile: less than
\* fairness to each.  Nothing says that a call is made, that time passes or
\* that a command fails.
Fairness ==
  /\ WF_call(CronLists \/ \E c \in Calls \cup {Cron} : ContinueCall(c))
  /\ WF_cycle(\E k \in Cycles : CycleStep(k))

Spec == Init /\ [][Next]_vars
FairSpec == Spec /\ Fairness

-----------------------------------------------------------------------------
(* Properties.                                                              *)

Rows == [status : {"NONE", "ACTIVE", "REVOKED"}, key : Keys \cup {0},
         ip : Addresses \cup {0}, until : 0..(MaxTime + 1),
         src : Sources \cup {NoSource}]

\* Every variable keeps its type, and no two peer rows share an address.
TypeOK ==
  /\ row \in [Routers -> Rows]
  /\ \A p, q \in Routers : row[p].ip = row[q].ip /\ row[p].ip # 0 => p = q
  /\ DOMAIN wg \subseteq Keys /\ \A k \in DOMAIN wg : wg[k] \in Addresses \cup {0}
  /\ rules \in [Addresses \X Sources -> Nat]
  /\ <<live, consent, paid, closed>> \in
       [Routers -> BOOLEAN] \X [Tenants -> BOOLEAN] \X [Tenants -> BOOLEAN]
                            \X [Tenants -> BOOLEAN]
  /\ \A c \in Calls \cup {Cron} : call[c].row \in Rows /\ call[c].todo \subseteq Routers
  /\ \A k \in Cycles : cycle[k].todo \subseteq Routers /\ cycle[k].extra \subseteq Keys
  /\ now \in 1..MaxTime /\ made \in 0..MaxCalls /\ quiet \subseteq Cycles

\* The interface holds exactly the active peers, each with its own address.
PeersAgree ==
  /\ DOMAIN wg = {row[r].key : r \in Active}
  /\ \A r \in Active : wg[row[r].key] = row[r].ip

\* The rules are those of the open windows of the active peers.
RulesAgree ==
  \A ip \in Addresses, s \in Sources :
    rules[ip, s] > 0 <=> \E r \in Active : /\ row[r].ip = ip /\ row[r].src = s
                                            /\ row[r].until > now

\* "La base est la source de verite": whatever happened before (a restart, an
\* address taken over by a provision that lost its race, a peer or a rule left
\* by a failed removal), a cycle that nobody disturbs leaves the interface and
\* the rules as the rows have them.
UndisturbedCycleRepairs ==
  \A k \in quiet : cycle[k].at = "rules" /\ cycle[k].todo = {}
                      => PeersAgree /\ RulesAgree

\* Re-provisioning keeps the router's address ("never drifts from what the
\* router already holds").
AddressIsStable ==
  [][\A r \in Routers : row[r].ip # 0 /\ row'[r].ip # 0 => row'[r].ip = row[r].ip]_vars

\* Once the calls are over, the interface and the rules agree with the rows
\* again and again, whatever reconciles, calls and failures overlapped.
VpsFollowsDatabase == []<>(PeersAgree /\ RulesAgree)

\* A deleted tenant loses its peers for good: one that a provision under way
\* brings back is revoked by a later run of the cron.
DeletedTenantIsCutOff ==
  \A t \in Tenants : []<>(closed[t] => \A r \in Active : Owner[r] # t)

=============================================================================
