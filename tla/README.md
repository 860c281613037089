# Verification of MikroLAN

MikroLAN sells Internet access by ticket on MikroTik hotspots.  An owner (the
tenant) prints batches of codes, a customer types a code on the hotspot, and the
backend recognises the first connection as the sale.  This directory holds TLA+
modules of the parts where actors race or machines fail, the TLC configurations
that check them on small instances, and proofs for TLAPS.  `PROJECT.json` gives,
for each definition, the source lines it models; for each property, a mutant of
the code that breaks it; and the hazards at the lines where they bite.

## 1. Inventory

The backend is NestJS over PostgreSQL (Prisma), single process, with cron jobs and
a dispatcher; routers are reached over WireGuard (mode REMOTE) or only by the
owner's phone on the LAN (mode LOCAL); SasPay is the payment provider.

| Component | State | Operations | Talks to | Hard part | What makes it correct |
|---|---|---|---|---|---|
| vouchers | `Voucher`, `VoucherBatch` rows | generate, confirmPush, reportPushFailure, revoke (force), remove, removeBatch, removeEligible, expiry cron | router, phone, sessions | the server, the phone and the crons write the same rows; the router is not in the transaction | a sale is final; COMPLETED means pushed; expired tickets leave it |
| sessions | `Session` rows, per-router locks | syncRouter, syncFromLan, terminate, stale cleanup | router, vouchers, notifications | stale lists of connected codes, two syncs at once, a deadline that releases the lock of a read that goes on | one promotion, one notification, price written once, sessions close |
| sync scheduler | in-memory states per router | dispatch, refresh, launch, end of a read | sessions | pool full of slow routers, routers forgotten while read | bounded pool, one read per router, no starvation |
| plans | `Plan` rows | CRUD | vouchers | prices and durations change under sold tickets | sold prices do not move |
| subscriptions | `Subscription`, `Invoice` | requestUpgrade, activate, activateManually, deactivate, expiry cron | payments, admin | reads outside the transaction, cron lists | one period per invoice, expiry only when expired |
| payments | `PaymentIntent`, `WebhookEventLog` | createCheckout, handleWebhookEvent | SasPay, subscriptions | redelivered, duplicated and late events, crashes | every payment not stated to be short settles, once |
| accounting | `Invoice` | generateInvoice | subscriptions | same table as upgrades | never taken for a tier |
| admin | all of the above | validate/reject invoice, set tenant status, activate | subscriptions | check-then-act | settled invoices stay settled |
| auth, ticket verifiers | `User`, `Tenant.status`, `RefreshToken`, `TicketVerifierAssignment`, one-time codes | sign in, rotate, revoke, suspend, assign, delete account | mobile session, billing (deletion) | concurrent rotations, replays, a status read before it is written by id | one heir per family, reuse fatal, a disabled account renews nothing |
| remote access | `RemotePeer` rows, `wg` peers and iptables rules of the VPS | provision, resync, revoke, open/close a window, reconcile | routers, compliance, subscriptions | interface, rules and rows are not one transaction; reconciles overlap; the VPS forgets at restart | the VPS ends up as the rows say, addresses never move |
| router gateway | live entries, collector states, locks (in memory) | getLiveSnapshot, collector cycle, publishSessions, resource read | routers, sessions, screens | shared in-flight reads, deadlines that free what goes on | one read at a time, no snapshot goes back, no mutual lock |
| compliance | authorizations, retention | accept, withdraw, revoke peers, retry cron, purges | remote access | a provision in flight commits after the revocation | a deleted tenant ends without peers |
| mobile session | tokens in memory and in the secure store | request, single refresh, boot, sign in, sign out | auth | concurrent 401s, lost answers, the app killed between two writes | no token posted twice, no session lost without cause |
| tenant context | async-local tenant | `applyTenantScope` | all | `update` silently becomes `updateMany` | a vanished row is no error |
| mobile tickets | local queue, LAN client | push, confirm, LAN sync | router, backend | answers lost after the effect | never reports more than it pushed |
| others | | routers CRUD, events, notifications, revenue and analytics (read-only), app releases, hotspot pass-through, ops health, telemetry, support, legal, mail, cache, `_legacy` (no longer deployed), deployment | | | see `components` in `PROJECT.json` |

## 2. Modules

| Module | What it is |
|---|---|
| `Tickets` | vouchers + sessions + plan edits + the phone + the router, for the tickets of one batch on one router |
| `TicketLifecycle` | abstract: the life of a ticket as the verification screen shows it |
| `MCTickets` | symmetry for TLC |
| `TicketsProofs` | theorems about `Tickets`, with the refinement of `TicketLifecycle` |
| `Billing` | subscriptions + payments + the parts of admin, accounting and auth that touch them, for one tenant |
| `MCBilling` | symmetry for TLC |
| `BillingProofs` | theorems about `Billing` |
| `SyncScheduler` | the dispatcher of activation reads; instantiated directly |
| `SyncSchedulerProofs` | theorems about `SyncScheduler` |
| `RemoteAccess` | remote access + router removal + the parts of compliance, admin and subscriptions that revoke peers + the reconciler, for a few routers on one VPS |
| `MCRemoteAccess` | who owns which router, and what is provisioned at the start |
| `RemoteAccessProofs` | theorems about `RemoteAccess` |
| `Accounts` | auth + ticket verifiers + the status changes of admin, for one tenant |
| `AccountsProofs` | theorems about `Accounts` |
| `MobileSession` | the composition of the phone's session with the server: EXTENDS `Accounts` |
| `MobileSessionProofs` | theorems about the composition |
| `Gateway` | the router gateway for one router, with the collector and the sync that feed it |
| `GatewayProofs` | theorems about `Gateway` |
| `Numbers` | least and greatest elements of sets of naturals, for the proofs |

**One action per await.**  The backend is JavaScript: between two awaits a
function is atomic.  Each action is one database or router call with the code
around it; what the function read before is kept in its own record (`gen`,
`confirm`, `sync[s]`, `op[o]`, `expiry`, `req[r]`, `act[p]`, `call[c]`, `cycle[k]`), so that it is stale
exactly where it is stale in the code.  A Prisma transaction is one action.  Reads
in a row of which none decides on another are one action (`ReqRead`,
`AdminActivate`, `HookReceive`).

### Tickets

State: the rows (`status`, `provisioned` for a stored router id, `expiresAt` once
stored, `price` for the snapshot, `session`, `notified`, `batch`), the router
(`user`, `online`), the environment (`mode`, `planPrice`, `due` for a duration that
has run out) and the processes.

* `Gen*`: `doGenerate`.  A router read as REMOTE with an active peer is pushed to,
  user by user, the id stored after each add.  An add that RouterOS answers without an id
  is counted as pushed and leaves the ticket unrecorded (`unnamed`); otherwise the codes go to the phone
  (`Phone*`), whose `confirmPush` (`Confirm*`) and `reportPushFailure` come back in
  any order, an answer possibly lost.
* `Sync*`: `syncRouter`/`syncFromLan` and `reconcileActive`: read the connected
  codes, find ended sessions, close them, fetch vouchers, then per voucher refresh
  the session, or promote (a conditional UPDATE, the sale), create the session, notify.
  `SyncDeadline` releases the lock and lets the work go on.  A LAN sync has no lock.
* `Op*`: `revoke`, `revoke` with force (`forceCut`), `remove`, `removeEligible`,
  `terminate`.  `removeBatch` runs the same code as `removeEligible`.
* `Expiry*`: the expiry cron; `SessionCleanup`: the stale-session cron.
* Environment: customers, time, plan edits (a longer plan gives elapsed tickets time
  again), mode changes, restarts.

Assumptions: a code is drawn once (codes are unique in the schema); a hotspot user logs in only with a code the router
knows; one expiry run at a time (the cron has its own guard).  The update of a batch
or voucher row is `BatchUpdate`: under a tenant context Prisma's middleware turns
`update` into `updateMany`, and a row that has gone is no error.

The deletion of a router (`hardCleanup`) removes its vouchers, sold ones included,
in one transaction; it is not modelled, and "a sale is final" is to be read for a
router that stays.  So is the one-off script that rewrites price snapshots
(`src/backend/src/scripts`).

### Billing

State: `sub`, `invoice`, `intent`, `tenant`; SasPay's `checkout` and `owed` (the
events it has not had acknowledged).  An amount is the price of its tier, a period
has a fixed length, the clock counts periods.

* `Req*`: `requestUpgrade` and `createCheckout`: find the pending invoice, rewrite or
  create it, find a reusable intent, create one, open the session.
* `AttemptFails`, `Pay`: the provider, external.  A customer may retry after a failed
  attempt; less than the price may be charged, and the event may leave the amount out
  (`Unstated`).
* `Accepted`: the check of a success.  A stated amount below the price is refused; an event
  without amount is not (saspay.service.ts:311, webhook.dto.ts:22).
* `Hook*`: `handleWebhookEvent`.  Redeliveries carry a new timestamp, so the event log
  takes them as new; `HookDuplicate` is the same delivery twice.
* `Act*`: `SubscriptionsService.activate`, called by a hook, `validateInvoice` or
  `activateManually`: two reads, then the transaction with its conditional claims.
* `AccountingInvoice`, `AdminReject`, `AdminReadStatus`/`AdminSetStatus`,
  `AdminDeactivate`, `DeleteAccount`, `CronList`/`CronDeactivate`, `Tick`, `Crash`.

Not modelled: `patchSubscription` (an administrator's free edit), payment reminders,
`expirePendingInvoices` (no intent gets an `expiresAt`), the signature check (a pure
function).  `HookSettle` writes the success whatever the status of the intent was:
the comment above it says a concurrent redelivery "exits", but a redelivery updates
the same row with the same reference, which conflicts with nothing.  That it goes on
to `activate` is what makes recovery after a crash work (`PaymentSettles`; its
mutant is the early exit).

### SyncScheduler

State: `st` (the scheduler's map), `recent` (the order of the last successes, as a set of pairs),
`reads` and `elapsed` (reads that run), `fact` (the routers' rows), `listAge`.  Time
is counted in dispatcher periods of 5 s, dates are kept as distances.  The list query
is assumed shorter than a period; the order of two routers equal in rank and success
is left open.  `consecutiveFailures` saturates at `MaxFails`, where the assumption on
the constants says that the backoff has reached its cap.  A down router that was never
read counts as healthy until its first failure, as in the code.

### RemoteAccess

State: the rows (`live`, `row`, `consent`, `paid`, `closed`), the VPS (`wg`: key to
allowed address, `rules`: copies of each forwarding rule), the clock `now`, the calls
and the reconciles under way.  A rule stands for the four iptables rules of one router
and one source; an address for the pair (wgIp, allocatedPort), always allocated together.

* `StartProvision`, `ProvisionRead`, `CallAddPeer`, `ProvisionCommit`: the checks, the
  reading that picks the address, the command, the transaction.  Two provisions can
  pick one address; the unique index refuses the second after it has taken the address
  over on the interface.  `StartResync` is the administrator's, which also sets the
  rules of an open window again.
* `StartRevoke`, `StartDelete`, `StartWithdraw`, `CronLists`, `CallRemovePeer`,
  `CallDropRule`, `RevokeCommit`, `DeleteCommit`: revocations by the owner, the
  administrator, the removal of a router, the withdrawal of the authorization and the
  compliance cron, peer by peer, with failures swallowed where the code swallows them.
* `StartOpen`, `OpenAddRule`, `OpenCommit`, `StartClose`, `CloseCommit`: port windows.
* `Cycle*`: `WireGuardReconciler`: read the rows, set each peer, show, prune, flush,
  add rules, expire windows.  The interval does not wait, so two reconciles overlap.
* `Restart` empties the interface and the rules; any command may fail (`Trouble`).

`quiet` records the reconciles since whose reading nobody else changed anything: what
`UndisturbedCycleRepairs` speaks about.  Not modelled: the heartbeat that the reconciler
stores in the router's health, the key pair, the script given to the owner, and
`Router.mode`, written with the row (`Tickets` has its effect).

### Accounts

State: `status` of each user, `tenant`, `assigned`, the `tokens` in order of creation (a
family is named by its first token), the calls.  An access token is checked by its
signature alone and is no state.  `StartLogin`/`LinkIdentity`/`IssueSession`: sign-in by
password, Google or Apple.  `StartRotate`/`Claim`/`BurnFamily`/`IssueNext`: `rotate`,
with its conditional claim between the reading and the issue.  `Logout`,
`RevokeAllSessions`: the revocations of one statement.  `SetUserStatus`,
`SetTenantStatus`: read, written by id, then revoked in a statement of its own.  The
operations on verifiers load the row, then write it in one transaction; under the tenant
middleware its `delete` is a `deleteMany`, so an assignment that has gone meanwhile is no
error, and the removal or deletion goes on.
`DeleteAccount` counts the other users in its transaction.  `Fails`: a query throws or the
server restarts, and the call is over where it was.

Not modelled: one-time codes and MFA challenges (they gate a sign-in; the revocations
they lead to are `RevokeAllSessions`), mails, the anonymisation of the profile.

### MobileSession

The phone over `Accounts`: its refresh is the server's `rotate`, step by step.  An access
token is named by the refresh token issued with it; `expired` is the newest access token
that has run out.  `Send`, `AnswerOk`, `JoinRefresh`, `GiveUp`, `TakeTokens`, `KeepAccess`,
`KeepRefresh`, `TakeRefusal`, ...: the interceptors of `lib/api.ts`, an action per await,
the two writes of the secure store being two.
`SendWrong` is a request of an account call with a wrong password (`changePassword`,
`deleteAccount`): the server answers it 401 whatever the access token is (`Denied`), the first
time and when it is sent again.  `SignIn`, `Welcome`, `Leave`, `BootApp`:
`auth-provider.tsx`.  `LoseAnswer`, `ServerFails`, `Timeout`, `Kill`, `EndSessions` are, with `SendWrong`, the
troubles, bounded by `MaxTroubles`.

Not modelled: the profile request after a sign-in, the deletion of the push token before
a sign-out, and a second clearing by `boot()` of what the interceptor has just cleared.

### Gateway

One router.  What it reports is a `version` that grows; a snapshot holds the versions of
its session list, session count and resource figures.  Ages and dates are the classes the
code compares (`fresh`, `stale`, `old`; `cooling`; `due`).

* `RefreshGoesOn`, `RefreshSucceeds`, `RefreshFails`: the deduplicated refresh, one command
  an action; `ReaderRefreshes`, `ReaderJoins`, `ReaderMisses`: `getLiveSnapshot`.
* `RefreshTargets`, `CycleStarts`, `CycleSkips`, `CycleOverruns`: the collector; a cycle past
  its deadline frees its state and its read goes on.
* `SyncStarts`, `SyncReads`, `SyncPublishes`, `SyncOverruns`, ...: `syncRouter` with its lock and
  what it publishes, and the resource read that follows it (`StatsSucceeds`, `StatsFails`).

Simplifications: the collector's pool of two across routers and the restart of the process
(which only empties memory) are not modelled; a read of the resources abandoned at its
deadline changes nothing and is forgotten, which leaves out that it can still be on the
wire beside a sync (section 6).

## 3. Properties, runs and bounds

A bound is named in the cfg or in the module's CONSTANTS.

| Run | Instance | Shows |
|---|---|---|
| `tickets_race` | 1 ticket, 2 LAN syncs, 1 remover, prices 0 and 100, ids omitted | `SaleIsFinal`, `PriceFrozen`, `SessionOnlyOfSale`, `NotifiedOnce`: the two syncs hold different plan prices, the remover read the ticket before its sale |
| `tickets_batch` | 2 tickets, 2 operators (force, revoke, remove, bulk), no sync, 1 mode change, 1 restart, ids omitted | `CompletedIsPushed`: two tickets are needed for a partial push |
| `tickets_live` | 1 ticket, REMOTE, 1 sync, 1 operator (terminate, bulk), 1 restart, longer plan | `SessionCloses`, `ExpiryPersisted`, `ExpiredLeavesRouter`, and the refinement `ImplementsLifecycle` |
| `billing_race` | 1 tier, 1 invoice, 2 intents, 2 deliveries at once, 1 administrator, amounts full, short and unstated | `SettledOnce`, `OnePeriodPerInvoice`, `DeletedGetsNoActivation`, `ActivatedIsPaid` |
| `billing_live` | 1 invoice, 1 intent, 1 delivery, 3 periods, 1 restart | `PaymentSettles`, `OverdueReverts` |
| `billing_covers` | 2 tiers | violation of `PaymentCoversInvoice` (finding) |
| `billing_expiry` | 2 invoices, 3 periods | violation of `OnlyExpiredReverts` (finding) |
| `sync_scheduler` | 2 routers, one reconfigured, pool of 2 | `OneReadPerRouter`, `PoolBounded`, `KeepsBeingRead` |
| `remote_access` | 2 routers of 1 tenant, 2 addresses, 1 source, 2 calls, 2 reconciles, 1 trouble | `UndisturbedCycleRepairs`, `AddressIsStable`, `VpsFollowsDatabase`, `DeletedTenantIsCutOff` |
| `accounts` | owner and 1 verifier, 1 router, 3 calls at once, 5 calls and 5 tokens in all | `OneHeirPerFamily`, `ReuseIsFatal`, `DeadFamilyStaysDead`, `DisabledIsCutOff` |
| `mobile_session` | 1 user, 2 calls and 2 requests at once plus the boot's, 3 requests, 1 trouble | `SignedOutForCause`, `NeverPostedTwice`, `EveryRequestSettles` |
| `gateway` | 2 readers, 2 refreshes, 2 syncs, 1 screen, 1 change of the router, 1 deadline passed | `OneReadAtATime`, `SnapshotNeverGoesBack`, `KeepsBeingCollected`, `KeepsBeingSynced` |

Why the bounds are enough.  Tickets of a batch meet only in the batch row and in the
order a loop takes them: one ticket shows every race on a voucher, two show a partial
push.  Races are between two actors: two syncs, or a sync and an operator.  In
`billing_race` two deliveries and two intents give redelivery, duplication and double
payment; a second invoice would be an independent row.  In
`tickets_live` every add is answered with an id (`OmitsIds` is FALSE): a ticket without id is
beyond `ExpiredLeavesRouter`, which asks for a recorded one, and the theorems have it.
The theorems remove the
bounds for every safety property of the passing runs.  `sync_scheduler` has a pool of 2
where the code has 3, and two routers: the reserved slot and the competition for it
are there, starvation among many slow routers is not (a hazard without a property).
`remote_access` has two routers and two addresses: two provisions can want one address,
the revoked peer keeps one, and the pool can be empty; two reconciles are every overlap
of a pair.  `accounts` has five tokens: a session, its rotation, a replay and a second
session; three calls are a rotation, its duplicate and a revocation.  In `mobile_session`
one trouble at a time is every way a session can end; two requests share one refresh and
a third comes after it.  In `gateway` a second refresh is what a second reader or a cycle
past its deadline would start, a second sync is the successor of one past its deadline.

CHECK_DEADLOCK is off for `Tickets`, `Billing`, `Accounts` and `MobileSession`: an instance
whose bounded operations are used up stops.  The scheduler, the gateway and the
reconciler never stop, and deadlock is checked there.

**Fairness.**  Tickets: a function that has started gets its next turn (the event
loop); a REMOTE router is read again and again (the dispatcher); the expiry cron
ticks; strong fairness only on "the router answers the cron", which the code retries
forever.  Nothing is assumed of phones, customers, operators' new requests or the
owner.  Billing: running functions go on, the cron ticks, and SasPay delivers an
event again until it is acknowledged (schema.prisma:512 speaks of 5 attempts; the
single restart of the run stays below).  `HookDuplicate` is off there: an identical
delivery is acknowledged while the first can still crash, which loses the payment
(hazard).  Scheduler: the interval fires, list queries and locks succeed at times.
RemoteAccess: some call under way goes on or the cron fires, and some reconcile goes on
or starts; less than fairness to each, and nothing of callers, of time or of failures.
MobileSession: the server answers what reaches it and the app handles what it is
answered; nobody has to sign in, and no time has to pass.  Gateway: every command has a
socket timeout, so a refresh, a sync and a resource read end; the intervals fire.

**Assumptions across the models.**  An answer of the RouterOS client is taken to be the
answer to its command.  After a timeout that the caller swallows this need not be so
(hazard at routeros-api.client.ts:260).

## 4. The abstract specification

`TicketLifecycle` has, per ticket, the state `ticketState` answers, whether it was
sold, and whether its expiry is stored.  Its actions say that tickets are issued
together, become available when their router id is recorded, are sold once, expire
and may be given time again until they are closed, and are withdrawn only unsold.
`Tickets!Lifecycle` is the refinement mapping; `ImplementsLifecycle` is checked by TLC in
`tickets_live`, with the syncs, the expiry cron, terminations and bulk removals.  A
revocation, a forced cut and a change of mode are not in that run: for a forced cut,
`ExpiredLeavesRouter` does not hold (`forceCut` stores the expiry even when the router did
not answer, and the cron takes only tickets without one).  The
refinement itself (the safety part) is proved with all of them, as `LifecycleCorrect`.

## 5. Proofs

`TicketsProofs` proves, for all sets of tickets, syncs and operators, all prices and
bounds (assumption `ConstantsAssumption`):

* `TypeCorrect`: `TypeOK` is inductive; one lemma per group of actions.
* `SaleIsFinalCorrect`, `PriceFrozenCorrect`: not true of an arbitrary typed state,
  since `GenCreateVouchers` writes every status.  `IssueInv` says that no ticket exists
  before its batch is created and that every function after it finds it created;
  with it each step keeps a sold ticket and its price (`SaleStep`).
* `SessionOnlyOfSaleCorrect`, `NotifiedOnceCorrect`: a session is created steps after
  the fetch that justified it.  `SaleInv` adds what a sync carries: what it will
  neither refresh nor promote is already sold, what it is creating a session for is
  sold, a promoted ticket has one promoter and was not notified yet.  It needs
  `SaleIsFinal` as a step fact.
* `CompletedCorrect`: `RecordInv` says that what the push counted and what the
  confirmation went through is recorded, deleted or was added without an id, and
  `RecordedStays` that no step takes it back.
* `LifecycleCorrect`: `Spec` implements `TicketLifecycle`, the property `ImplementsLifecycle`.
  The steps are sorted once (`LifeMoves`): a step leaves what the screen answers alone, or is
  one of nine actions that may move it, each shown to be an action of the abstract
  specification or a stutter (`IssueSeen`, `SellSeen`, `ClaimSeen`, ...).  `LifeInv` is needed for
  that: a ticket that was never created is not recorded on the router, and one that has
  elapsed or is closed was sold; without it a deletion could withdraw a sold ticket.

`AccountsProofs` proves all the properties of the run `accounts`, for any number of
verifiers, routers, calls and tokens (assumption `AccountsAssumption`).

* `TypeCorrect`: `TypeInv` adds to `TypeOK` that a call that writes a status has one.  Steps
  are sorted once, by `StepKinds`: a step weakens the table (no token appears or comes back
  to life, no rotation wins its claim), wins a claim, or issues a token.  The proofs below
  speak of these three kinds instead of the actions.
* `OneHeirCorrect`: `SoleHeir` states the property without cardinalities: two live tokens of
  a family are one, two rotations about to issue in it are one, and there are not both.  The
  conditional claim is what preserves it.
* `DeadFamilyCorrect`, `ReuseCorrect`: `OverStays`, that no kind of step gives a heir to a
  family without one; a claim needs a live token, an issue a claim or a new family.
* `DisabledCorrect`: `CheckHolds`, that whoever gets past the check of the status is active
  at that moment or was past it before.

`BillingProofs` (assumption `BillingAssumption`), any number of tiers, invoices, intents,
requests, deliveries and periods.  Its `IInv` says what each function under way holds: a
delivery past its settlement holds a successful intent, paid with no stated charge below its
price, and the invoice of that intent (`GoodHook`), an intent whose checkout is not open yet
belongs to one request (`ReqOK`), the provider owes events of existing checkouts only (`OwedOK`).

* `TypeCorrect`, `ActivatedCorrect`: conjuncts of `IInv`.
* `SettledCorrect`, `DeletedCorrect`: step by step; the writes of a paid or failed invoice are
  conditional in the code, and `IInv` says which unconditional ones find it pending.
* `OnePeriodCorrect`: the transaction that grants a period claims its invoice, which it finds
  pending.  One without an invoice grants a period too, and is an administrator's: a delivery
  holds the invoice of its intent (`GoodHook`), which exists (`IntentOK`).

`SyncSchedulerProofs` (assumption `SchedulerAssumption`), any number of routers, size of the
pool and cadence.

* `TypeCorrect` shows that no wait passes the longest delay; the backoff is a recursive function
  whose values are natural (`DoubledType`).
* `OneReadCorrect`: `Counted`, that a router has one read exactly when its flag is set, and
  `GoodStates`, that a router the scheduler forgot has nothing left of its earlier life.
* `PoolCorrect`: `SlotsOK`, along the launches of one dispatch: how many are read, and how many of
  these are slow, after each of them.

`GatewayProofs` (assumptions `GatewayAssumption`, `NamesAssumption`), any number of readers,
refreshes, syncs and screens.

* `OneReadCorrect`: `OneRefresh`, that the refresh which reads is the one the entry holds, even
  when its cycle gave it up, and `SyncLocks`, that the sync and the resource read exclude each
  other.
* `FreshnessCorrect`: whatever will be published was read after what it replaces.
  `RefreshReads` and `SyncReadsPast` say so of a read under way; the latter only while no sync
  has outlived its deadline, and so does the property (section 6).

`RemoteAccessProofs` (assumption `RemoteAssumption`), any number of routers, tenants,
addresses, calls and reconciles.

* `TypeCorrect`: with types, that no two rows share an address, across the reading of the free
  addresses and the transaction.
* `AddressCorrect`: `Provisions`, that the row a provision has read still has its address when
  the transaction commits, unless the router was deleted; `KeysOwned`, that a key belongs to one
  row or to one provision.
* `RepairCorrect`: `AllRepaired` says of each undisturbed cycle what it has repaired so far: the
  peers it went through are set to their addresses, no stranger outside its list is left, the
  rules it went through are there once.  `UndisturbedCycleRepairs` is its last stage, and is not
  inductive alone.

`MobileSessionProofs` (assumptions `AccountsAssumption`, `MobileAssumption`), any number of
requests, calls, tokens and troubles, the server's rotation included.

* `UsesAccounts`: every step of the composition is a step of `Accounts` or leaves it alone, so
  the theorems of `AccountsProofs` hold of it; the proofs below use its invariant.
* `MobileTypeCorrect`: with types, that a request waits only for a refresh in flight.
* `SignedOutCorrect`: `Signed` follows the token as long as nothing that may end a session has
  happened; a wrong password is such a thing, since the code signs out on it.  It is live and in memory, or its rotation is under way in the one call of the
  server, or the successor is on its way or being stored; a request sent again carries an
  access token newer than the expired one.
* `PostedOnceCorrect`: `Fresh`, that the token in memory was not posted, unless by the refresh in
  flight.

Each inductive invariant was checked by TLC on the instance of its run (up to 2.1 million
states) before it was proved.

Three places of the models were changed by the proofs: `RemoteAccess` assumes that time has at
least one value; in its `CallAddPeer` the arms of a CASE overlapped for a provision of a row with
an open window; the order of successes in `SyncScheduler` is a set of pairs and its backoff a
recursive function.

Induction is done where it is needed by looking at the least counterexample (`LeastNatural`
of `Numbers`, from the well-foundedness of the naturals).

Only model-checked: liveness (`SessionCloses`, `ExpiryPersisted`, `ExpiredLeavesRouter`,
`PaymentSettles`, `OverdueReverts`, `KeepsBeingRead`, `VpsFollowsDatabase`,
`DeletedTenantIsCutOff`, `EveryRequestSettles`, `KeepsBeingCollected`, `KeepsBeingSynced`), which is
out of the prover's reach.  The two violations (`PaymentCoversInvoice`, `OnlyExpiredReverts`) are
counterexamples of TLC.  All other properties of the runs are theorems.

## 6. What the code does and its texts do not say

Checked by a run:

1. An open checkout pays a rewritten invoice at the old price (`billing_covers`).
2. The expiry cron undoes a renewal that came after its list (`billing_expiry`).

Reached by the models, without a run of their own (each is a hazard in `PROJECT.json`):

3. A sale can be left without notification: one sync's `session.create` meets the row
   another one made after the promotion (sessions.service.ts:189).
4. A ticket revoked on a LOCAL router, or cut by force while the router does not answer,
   stays on it.
5. A provision that passed its checks commits after the authorization was withdrawn and
   the peers revoked; no cron looks at withdrawn authorizations, so the peer stays
   (remote-access.service.ts:86, against the text at legal.content.ts:194).
6. The limit of users is passed by two creations at once, or by suspending, creating and
   activating again.
7. `setUserStatus`, `setTenantStatus` and a verifier's `setStatus` read, then write by id: an
   account deleted in between is active or suspended again.
8. A COMPLETED batch can hold a ticket that is shown as not provisioned: a push whose add was
   answered without an id is counted (voucher.service.ts:290-296), and an empty id does not
   count as provisioned (voucher.provisioning.spec.ts:98).
9. A success event without a charged amount activates whatever was paid
   (saspay.service.ts:311), against the comment above the check (saspay.service.ts:308-309);
   the field is optional (webhook.dto.ts:22).
10. After the suspension of a tenant, a sign-in or a rotation past its claim gets tokens, and
   they are renewed as long as the suspension lasts: `rotate` refuses the tokens of a deleted
   tenant only (token.service.ts:84-87), against the comment at admin.service.ts:225-227.
   `DeadFamilyStaysDead` says what remains: the families that the suspension ended stay ended.
11. A wrong password in `changePassword` or `deleteAccount` is a 401 (auth.service.ts:330,
   :714), which the interceptor takes for an expired access token (api.ts:975-996): it
   refreshes, sends the request again, meets the second 401 and clears the session.
12. Past its deadline, a resource read can be on the wire beside a sync of the same router,
   and a sync can publish over its successor (against the comments at
   router-gateway.types.ts:90 and sessions.service.ts:360).

## 7. Not modelled

The routers' CRUD, listings, reports and analytics are reads or single statements, and no
other part decides on them.  Screens, documents, mails and the wire format of the event
stream are presentation.  App releases, hotspot configuration, telemetry, support, ops
health, cache and deployment keep no state the modelled parts read.  The RouterOS client
(framing, login, request queue), one-time codes and MFA challenges are state machines of
their own that are left for later: their hazards are listed, without a property.

## 8. Plan

1. Proofs beyond the runs' properties: what holds of a forced cut and a revocation on a LOCAL
   router, and the limits of the hazards without a property (two PENDING intents, the user limit).
2. The RouterOS client with late answers, composed with forced cuts; one-time codes.
3. Several routers in `SyncScheduler` and in the collector's pool of two.
