------------------------------- MODULE Tickets -------------------------------
(***************************************************************************)
(* The life of the hotspot tickets (vouchers) of one batch on one router:  *)
(* generation and push, first connection, sale, sessions, withdrawal and   *)
(* expiry.  The processes are the asynchronous functions of the backend    *)
(* that share the Voucher, Session, VoucherBatch and Notification tables   *)
(* and the router: one action per await, with the values a function read   *)
(* earlier kept in its own record.                                         *)
(*   generate      VoucherService.doGenerate (server push, or hand-over)   *)
(*   phone/confirm the mobile LAN push and VoucherService.confirmPush      *)
(*   sync[s]       SessionsService.syncRouter / syncFromLan                *)
(*   op[o]         revoke, forced cut, remove, removeEligible, terminate   *)
(*   expiry        VoucherExpiryCron.run                                   *)
(***************************************************************************)
EXTENDS Integers

CONSTANTS Tickets,      \* the codes of the batch
          Syncs,        \* activation syncs that can be in flight at once
          Operators,    \* concurrent withdrawal requests
          OpKinds,      \* the withdrawal operations the operators call
          Prices,       \* values Plan.priceXof takes
          Modes,        \* the router's mode at the start
          Lengthens,    \* the owner lengthens the plan
          OmitsIds,     \* the router may answer an add without an id
          MaxSwitches,  \* bound on LOCAL <-> REMOTE changes
          MaxCrashes    \* bound on restarts of the backend

ASSUME ConstantsAssumption ==
  /\ Prices \subseteq Nat /\ Prices # {}
  /\ Modes \subseteq {"LOCAL", "REMOTE"} /\ Modes # {}
  /\ OpKinds \subseteq {"revoke", "force", "remove", "bulk", "terminate"}
  /\ Lengthens \in BOOLEAN /\ OmitsIds \in BOOLEAN
  /\ MaxSwitches \in Nat /\ MaxCrashes \in Nat

VARIABLES
  mode,        \* Router.mode (REMOTE: an active tunnel peer exists)
  planPrice,   \* Plan.priceXof
  status,      \* Voucher.status, with "ABSENT" and "DELETED" for no row
  provisioned, \* Voucher.mikrotikId is a non-empty string
  expiresAt,   \* Voucher.expiresAt is persisted
  due,         \* usedAt + durationMinutes is in the past
  price,       \* Voucher.priceXofAtActivation
  session,     \* Session row: "NONE" (no row), "ACTIVE", "TERMINATED"
  notified,    \* VOUCHER_ACTIVATED notifications of the ticket
  batch,       \* VoucherBatch.status and the tickets `generated` counts
  user,        \* router: the code is a /ip/hotspot/user
  online,      \* router: the code is in /ip/hotspot/active
  gen, phone, confirm, sync, op, expiry,
  unnamed,     \* history: tickets whose add the router answered without an id
  switches, crashes

db     == <<status, provisioned, expiresAt, due, price, session, notified, batch>>
router == <<user, online>>
env    == <<mode, planPrice, unnamed, switches, crashes>>
procs  == <<gen, phone, confirm, sync, op, expiry>>
vars   == <<db, router, env, procs>>

NoPrice == -1

SessionOpen(t) == session[t] = "ACTIVE"

\* The Voucher row of the ticket exists.
Exists(t) == status[t] \notin {"ABSENT", "DELETED"}

\* `updateMany ... data: {status: TERMINATED}` on the sessions of a set.
Closed(S) == [t \in Tickets |->
                IF t \in S /\ session[t] # "NONE" THEN "TERMINATED" ELSE session[t]]

\* `voucherBatch.update` under a tenant context: the tenant middleware makes
\* it an updateMany, which does nothing when the row is gone.
BatchUpdate(st, counted) ==
  batch' = IF batch.status \in {"ABSENT", "DELETED"} THEN batch
           ELSE [status |-> st, generated |-> counted]

GenDone    == [pc |-> "done", remote |-> FALSE, cur |-> {}, pushed |-> {}]
IdleSync   == [pc |-> "idle", holds |-> FALSE, seen |-> {}, ended |-> {},
               todo |-> {}, known |-> {}, fresh |-> {}, cur |-> {}, price |-> 0]
IdleOp     == [pc |-> "idle", kind |-> "none", tgt |-> {}, ids |-> {},
               kick |-> {}, remote |-> FALSE]
IdleExpiry == [pc |-> "idle", todo |-> {}, cur |-> {}, ids |-> {},
               kick |-> {}, remote |-> FALSE]

Init ==
  /\ mode \in Modes /\ planPrice \in Prices
  /\ status = [t \in Tickets |-> "ABSENT"]
  /\ provisioned = [t \in Tickets |-> FALSE]
  /\ expiresAt = [t \in Tickets |-> FALSE]
  /\ due = [t \in Tickets |-> FALSE]
  /\ price = [t \in Tickets |-> NoPrice]
  /\ session = [t \in Tickets |-> "NONE"]
  /\ notified = [t \in Tickets |-> 0]
  /\ batch = [status |-> "ABSENT", generated |-> {}]
  /\ user = [t \in Tickets |-> FALSE]
  /\ online = [t \in Tickets |-> FALSE]
  /\ gen = [pc |-> "idle", remote |-> FALSE, cur |-> {}, pushed |-> {}]
  /\ phone = [pc |-> "idle", pushed |-> {}]
  /\ confirm = [pc |-> "idle", todo |-> {}, items |-> {}]
  /\ sync = [s \in Syncs |-> IdleSync]
  /\ op = [o \in Operators |-> IdleOp]
  /\ expiry = IdleExpiry
  /\ unnamed = {} /\ switches = 0 /\ crashes = 0

-----------------------------------------------------------------------------
(* doGenerate.                                                             *)

\* The router is read, then the batch row is created.
GenCreateBatch ==
  /\ gen.pc = "idle"
  /\ batch' = [status |-> "GENERATING", generated |-> {}]
  /\ gen' = [gen EXCEPT !.pc = "batch", !.remote = (mode = "REMOTE")]
  /\ UNCHANGED <<status, provisioned, expiresAt, due, price, session, notified,
                 router, env, phone, confirm, sync, op, expiry>>

GenCreateVouchers ==
  /\ gen.pc = "batch"
  /\ status' = [t \in Tickets |-> "GENERATED"]
  /\ gen' = [gen EXCEPT !.pc = "peer"]
  /\ UNCHANGED <<provisioned, expiresAt, due, price, session, notified, batch,
                 router, env, phone, confirm, sync, op, expiry>>

\* A router read as REMOTE with an active peer is pushed to over the tunnel;
\* otherwise every code is handed to the phone.
GenReadPeer ==
  /\ gen.pc = "peer"
  /\ IF gen.remote /\ mode = "REMOTE"
     THEN /\ gen' = [gen EXCEPT !.pc = "push", !.remote = FALSE]
          /\ UNCHANGED phone
     ELSE /\ gen' = GenDone
          /\ phone' = [phone EXCEPT !.pc = "push"]
  /\ UNCHANGED <<db, router, env, confirm, sync, op, expiry>>

GenAddUser(t) ==
  /\ gen.pc = "push"
  /\ t \notin gen.pushed
  /\ user' = [user EXCEPT ![t] = TRUE]
  /\ gen' = [gen EXCEPT !.pc = "record", !.cur = {t}]
  /\ UNCHANGED <<db, online, env, phone, confirm, sync, op, expiry>>

\* `updateMany({batchId, code}, {mikrotikId})`, with no condition on the
\* status.  It is skipped when the router's answer to the add holds no id (the
\* id is then ''); the push is counted all the same.
GenRecordId(t) ==
  /\ gen.pc = "record" /\ gen.cur = {t}
  /\ \/ /\ provisioned' = [provisioned EXCEPT ![t] = Exists(t)]
        /\ UNCHANGED unnamed
     \/ /\ OmitsIds
        /\ unnamed' = unnamed \cup {t}
        /\ UNCHANGED provisioned
  /\ gen' = [gen EXCEPT !.pc = "push", !.cur = {}, !.pushed = @ \cup {t}]
  /\ UNCHANGED <<status, expiresAt, due, price, session, notified, batch, router,
                 mode, planPrice, switches, crashes, phone, confirm, sync, op, expiry>>

\* The push throws, possibly after the router applied an add whose answer was
\* lost or whose id could not be stored: the batch keeps what was counted.
GenPushFails ==
  /\ gen.pc = "record" \/ (gen.pc = "push" /\ gen.pushed # Tickets)
  /\ IF gen.pushed # {} THEN BatchUpdate("PARTIAL_SUCCESS", gen.pushed)
                        ELSE BatchUpdate("FAILED", batch.generated)
  /\ gen' = GenDone
  /\ UNCHANGED <<status, provisioned, expiresAt, due, price, session, notified,
                 router, env, phone, confirm, sync, op, expiry>>

GenComplete ==
  /\ gen.pc = "push" /\ gen.pushed = Tickets
  /\ BatchUpdate("COMPLETED", Tickets)
  /\ gen' = GenDone
  /\ UNCHANGED <<status, provisioned, expiresAt, due, price, session, notified,
                 router, env, phone, confirm, sync, op, expiry>>

-----------------------------------------------------------------------------
(* The LAN push of the mobile app, confirmPush and reportPushFailure.       *)

PhonePush(t) ==
  /\ phone.pc = "push" /\ t \notin phone.pushed
  /\ user' = [user EXCEPT ![t] = TRUE]
  /\ phone' = [phone EXCEPT !.pushed = @ \cup {t}]
  /\ UNCHANGED <<db, online, env, gen, confirm, sync, op, expiry>>

\* Everything is pushed, or a PartialPushError carries what was.
PhoneConfirm ==
  /\ phone.pc = "push" /\ phone.pushed # {}
  /\ phone' = [phone EXCEPT !.pc = "wait"]
  /\ confirm' = [pc |-> "items", todo |-> phone.pushed, items |-> phone.pushed]
  /\ UNCHANGED <<db, router, env, gen, sync, op, expiry>>

\* Nothing could be pushed, or the confirmation of a full push got no answer
\* (the axios error is reported as a failure of the whole push).
PhoneGivesUp ==
  /\ \/ phone.pc = "push" /\ phone.pushed = {}
     \/ phone.pc = "wait"
  /\ phone' = [pc |-> IF phone.pc = "wait" /\ phone.pushed # Tickets
                      THEN "done" ELSE "report", pushed |-> {}]
  /\ UNCHANGED <<db, router, env, gen, confirm, sync, op, expiry>>

\* reportPushFailure with pushedCount 0.
PhoneReportFailure ==
  /\ phone.pc = "report"
  /\ BatchUpdate("FAILED", batch.generated)
  /\ phone' = [pc |-> "done", pushed |-> {}]
  /\ UNCHANGED <<status, provisioned, expiresAt, due, price, session, notified,
                 router, env, gen, confirm, sync, op, expiry>>

ConfirmItem(t) ==
  /\ confirm.pc = "items" /\ t \in confirm.todo
  /\ provisioned' = [provisioned EXCEPT ![t] = Exists(t)]
  /\ confirm' = [confirm EXCEPT !.todo = @ \ {t}]
  /\ UNCHANGED <<status, expiresAt, due, price, session, notified, batch,
                 router, env, gen, phone, sync, op, expiry>>

\* Mutant: the phone is trusted to confirm everything.
ConfirmAlwaysComplete(items) == TRUE

\* `complete = !batch || items.length >= batch.quantity`.
ConfirmComplete(items) == batch.status = "DELETED" \/ items = Tickets

ConfirmBatch ==
  /\ confirm.pc = "items" /\ confirm.todo = {}
  /\ BatchUpdate(IF ConfirmComplete(confirm.items) THEN "COMPLETED" ELSE "PARTIAL_SUCCESS",
                 confirm.items)
  /\ confirm' = [pc |-> "idle", todo |-> {}, items |-> {}]
  /\ phone' = IF phone.pc = "wait" THEN [pc |-> "done", pushed |-> {}] ELSE phone
  /\ UNCHANGED <<status, provisioned, expiresAt, due, price, session, notified,
                 router, env, gen, sync, op, expiry>>

Generate ==
  \/ GenCreateBatch \/ GenCreateVouchers \/ GenReadPeer
  \/ GenPushFails \/ GenComplete
  \/ PhoneConfirm \/ PhoneGivesUp \/ PhoneReportFailure \/ ConfirmBatch
  \/ \E t \in Tickets :
        GenAddUser(t) \/ GenRecordId(t) \/ PhonePush(t) \/ ConfirmItem(t)

-----------------------------------------------------------------------------
(* Activation sync: syncRouter / syncFromLan and reconcileActive.           *)

SyncSet(s, r) == sync' = [sync EXCEPT ![s] = r]

\* The list of connected codes.  A REMOTE router is read by the server under
\* the per-router lock; a LOCAL one is read by a phone, without any lock.
SyncRead(s) ==
  /\ sync[s].pc = "idle"
  /\ mode = "REMOTE" => \A s2 \in Syncs : ~sync[s2].holds
  /\ SyncSet(s, [IdleSync EXCEPT !.pc = "read", !.holds = (mode = "REMOTE"),
                                 !.seen = {t \in Tickets : online[t]}])
  /\ UNCHANGED <<db, router, env, gen, phone, confirm, op, expiry>>

\* withDeadline gives up: the lock is released, the work goes on.
SyncDeadline(s) ==
  /\ sync[s].holds
  /\ SyncSet(s, [sync[s] EXCEPT !.holds = FALSE])
  /\ UNCHANGED <<db, router, env, gen, phone, confirm, op, expiry>>

\* Mutant: the return on an empty list comes first.
EndedUnlessNobodyIsLeft(seen) ==
  IF seen = {} THEN {} ELSE {t \in Tickets : SessionOpen(t) /\ t \notin seen}

\* Open sessions whose code is not in the list.
Ended(seen) == {t \in Tickets : SessionOpen(t) /\ t \notin seen}

SyncFindEnded(s) ==
  /\ sync[s].pc = "read"
  /\ SyncSet(s, [sync[s] EXCEPT !.pc = "close", !.ended = Ended(sync[s].seen)])
  /\ UNCHANGED <<db, router, env, gen, phone, confirm, op, expiry>>

\* The sessions found above are closed, by id.
SyncCloseEnded(s) ==
  /\ sync[s].pc = "close"
  /\ session' = Closed(sync[s].ended)
  /\ SyncSet(s, [sync[s] EXCEPT !.pc = "fetch", !.ended = {}])
  /\ UNCHANGED <<status, provisioned, expiresAt, due, price, notified, batch,
                 router, env, gen, phone, confirm, op, expiry>>

\* The vouchers to go through, with their session id, status and plan price.
SyncFetch(s) ==
  /\ sync[s].pc = "fetch"
  /\ LET found == {t \in sync[s].seen : status[t] \in {"GENERATED", "ACTIVE"}}
     IN  SyncSet(s, [sync[s] EXCEPT
           !.pc = "loop", !.todo = found, !.price = planPrice, !.seen = {},
           !.known = {t \in found : session[t] # "NONE"},
           !.fresh = {t \in found : session[t] = "NONE" /\ status[t] = "GENERATED"}])
  /\ UNCHANGED <<db, router, env, gen, phone, confirm, op, expiry>>

\* The loop is through with a ticket.
Through(r, t) == [r EXCEPT !.pc = "loop", !.cur = {}, !.todo = @ \ {t},
                           !.known = @ \ {t}, !.fresh = @ \ {t}]

\* A session known at the fetch is refreshed, and reopened if it was closed.
SyncRefresh(s, t) ==
  /\ sync[s].pc = "loop" /\ t \in sync[s].todo \cap sync[s].known
  /\ session' = [session EXCEPT ![t] = IF @ = "NONE" THEN "NONE" ELSE "ACTIVE"]
  /\ SyncSet(s, Through(sync[s], t))
  /\ UNCHANGED <<status, provisioned, expiresAt, due, price, notified, batch,
                 router, env, gen, phone, confirm, op, expiry>>

\* Mutant: the price is kept as it is.
PriceSnapshotUnchecked(p) == p

\* priceXofAtActivation of a plan price: only a positive integer is kept.
PriceSnapshot(p) == IF p > 0 THEN p ELSE NoPrice

\* Mutant: no guard against another sync.
PromotableAgain(t) == status[t] \in {"GENERATED", "ACTIVE"}

\* `updateMany where status: GENERATED`: the sale.  Losing the race skips the
\* ticket.
Promotable(t) == status[t] = "GENERATED"

SyncPromote(s, t) ==
  /\ sync[s].pc = "loop" /\ t \in sync[s].todo \cap sync[s].fresh
  /\ IF Promotable(t)
     THEN /\ status' = [status EXCEPT ![t] = "ACTIVE"]
          /\ price' = [price EXCEPT ![t] = PriceSnapshot(sync[s].price)]
          /\ SyncSet(s, [sync[s] EXCEPT !.pc = "create", !.cur = {t}])
     ELSE /\ SyncSet(s, Through(sync[s], t))
          /\ UNCHANGED <<status, price>>
  /\ UNCHANGED <<provisioned, expiresAt, due, session, notified, batch,
                 router, env, gen, phone, confirm, op, expiry>>

\* A ticket fetched as ACTIVE without a session goes straight to the create.
SyncAdopt(s, t) ==
  /\ sync[s].pc = "loop" /\ t \in sync[s].todo \ (sync[s].known \cup sync[s].fresh)
  /\ SyncSet(s, [sync[s] EXCEPT !.pc = "create", !.cur = {t}])
  /\ UNCHANGED <<db, router, env, gen, phone, confirm, op, expiry>>

\* session.create: the unique voucherId makes the second creator throw, which
\* abandons the rest of its list.
SyncCreate(s, t) ==
  /\ sync[s].pc = "create" /\ sync[s].cur = {t}
  /\ IF session[t] # "NONE"
     THEN SyncSet(s, IdleSync) /\ UNCHANGED session
     ELSE /\ session' = [session EXCEPT ![t] = "ACTIVE"]
          /\ SyncSet(s, IF t \in sync[s].fresh THEN [sync[s] EXCEPT !.pc = "notify"]
                        ELSE Through(sync[s], t))
  /\ UNCHANGED <<status, provisioned, expiresAt, due, price, notified, batch,
                 router, env, gen, phone, confirm, op, expiry>>

SyncNotify(s, t) ==
  /\ sync[s].pc = "notify" /\ sync[s].cur = {t}
  /\ notified' = [notified EXCEPT ![t] = @ + 1]
  /\ SyncSet(s, Through(sync[s], t))
  /\ UNCHANGED <<status, provisioned, expiresAt, due, price, session, batch,
                 router, env, gen, phone, confirm, op, expiry>>

SyncEnd(s) ==
  /\ sync[s].pc = "loop" /\ sync[s].todo = {}
  /\ SyncSet(s, IdleSync)
  /\ UNCHANGED <<db, router, env, gen, phone, confirm, op, expiry>>

SyncWork(s) ==
  \/ SyncFindEnded(s) \/ SyncCloseEnded(s) \/ SyncFetch(s) \/ SyncEnd(s)
  \/ \E t \in Tickets :
        \/ SyncRefresh(s, t) \/ SyncPromote(s, t) \/ SyncAdopt(s, t)
        \/ SyncCreate(s, t) \/ SyncNotify(s, t)

\* SessionCleanupCron.cleanStaleSessions: any of the open sessions may have
\* gone 30 minutes without being seen.
SessionCleanup ==
  /\ \E S \in SUBSET {t \in Tickets : SessionOpen(t)} : S # {} /\ session' = Closed(S)
  /\ UNCHANGED <<status, provisioned, expiresAt, due, price, notified, batch,
                 router, env, procs>>

-----------------------------------------------------------------------------
(* Withdrawal: revoke, forced cut, remove, removeEligible; and terminate.   *)

OpSet(o, r) == op' = [op EXCEPT ![o] = r]

\* The voucher(s) the request names are read with router mode, mikrotikId and
\* session id.  removeEligible keeps the ones not ACTIVE at this read.
OpRead(o, k, S) ==
  /\ op[o].pc = "idle"
  /\ S # {} /\ \A t \in S : Exists(t)
  /\ k = "bulk" => S = {t \in Tickets : Exists(t) /\ status[t] # "ACTIVE"}
  /\ k # "bulk" => \E t \in S : S = {t}
  /\ k \in {"revoke", "force"} => \A t \in S : status[t] # "REVOKED"
  /\ k = "terminate" => mode = "REMOTE" /\ \A t \in S : online[t]
  /\ OpSet(o, [pc |-> IF k = "terminate" THEN "kick" ELSE "claim", kind |-> k,
               tgt |-> S, ids |-> {t \in S : provisioned[t]},
               kick |-> {t \in S : session[t] # "NONE"}, remote |-> (mode = "REMOTE")])
  /\ UNCHANGED <<db, router, env, gen, phone, confirm, sync, expiry>>

\* Mutant: the unconditional UPDATE.
ClaimableWhateverItsStatus(t) == Exists(t)

\* `where: {id, status: {not: ACTIVE}}`: the rows a withdrawal may take.
Claimable(t) == status[t] \in {"GENERATED", "REVOKED"}

\* The conditional UPDATE of revoke.  Touching no row means the ticket was
\* sold (or deleted): refused, or cut by force.
OpClaimRevoke(o) ==
  /\ op[o].pc = "claim" /\ op[o].kind \in {"revoke", "force"}
  /\ LET claimed == {t \in op[o].tgt : Claimable(t)} IN
     /\ status' = [t \in Tickets |-> IF t \in claimed THEN "REVOKED" ELSE status[t]]
     /\ OpSet(o, IF claimed # {} THEN [op[o] EXCEPT !.pc = "router", !.tgt = claimed, !.kick = {}]
                 ELSE IF op[o].kind = "force" THEN [op[o] EXCEPT !.pc = "cut"]
                 ELSE IdleOp)
  /\ UNCHANGED <<provisioned, expiresAt, due, price, session, notified, batch,
                 router, env, gen, phone, confirm, sync, expiry>>

\* The transaction of remove and removeEligible: claim, delete the sessions,
\* delete the vouchers; removeEligible also deletes an emptied batch.
OpClaimDelete(o) ==
  /\ op[o].pc = "claim" /\ op[o].kind \in {"remove", "bulk"}
  /\ LET claimed == {t \in op[o].tgt : Claimable(t)} IN
     /\ status' = [t \in Tickets |-> IF t \in claimed THEN "DELETED" ELSE status[t]]
     /\ session' = [t \in Tickets |-> IF t \in claimed THEN "NONE" ELSE session[t]]
     /\ provisioned' = [t \in Tickets |-> provisioned[t] /\ t \notin claimed]
     /\ batch' = IF /\ op[o].kind = "bulk" /\ claimed # {}
                    /\ \A t \in Tickets : status'[t] = "DELETED"
                 THEN [status |-> "DELETED", generated |-> {}] ELSE batch
     /\ OpSet(o, IF claimed # {} THEN [op[o] EXCEPT !.pc = "router", !.tgt = claimed, !.kick = {}]
                 ELSE IdleOp)
  /\ UNCHANGED <<expiresAt, due, price, notified,
                 router, env, gen, phone, confirm, sync, expiry>>

\* What the claim left to remove on the router.
OnRouter(o) == IF op[o].remote THEN op[o].tgt \cap op[o].ids ELSE {}

\* removeHotspotUser over the tunnel, or its failure, which is only logged.
OpRouter(o, t) ==
  /\ op[o].pc = "router" /\ t \in OnRouter(o)
  /\ \E ok \in BOOLEAN : user' = [user EXCEPT ![t] = @ /\ ~ok]
  /\ OpSet(o, [op[o] EXCEPT !.tgt = @ \ {t}])
  /\ UNCHANGED <<db, online, env, gen, phone, confirm, sync, expiry>>

OpDone(o) ==
  /\ op[o].pc = "router" /\ OnRouter(o) = {}
  /\ OpSet(o, IdleOp)
  /\ UNCHANGED <<db, router, env, gen, phone, confirm, sync, expiry>>

\* Mutant: only the connection is removed.
CutConnectionOnly(t, kicks, ok) ==
  /\ \E gone \in BOOLEAN : online' = [online EXCEPT ![t] = @ /\ ~(t \in kicks /\ gone)]
  /\ UNCHANGED user

\* Removal of the connection by the id stored in the session (it may be an
\* earlier connection's), then of the user; either may fail.
CutFromRouter(t, kicks, ok) ==
  /\ \E gone \in BOOLEAN : online' = [online EXCEPT ![t] = @ /\ ~(t \in kicks /\ gone)]
  /\ user' = [user EXCEPT ![t] = @ /\ ~ok]

\* forceCut: router first (best effort), then the voucher, then the session.
OpCutRouter(o, t) ==
  /\ op[o].pc = "cut" /\ op[o].tgt = {t}
  /\ IF OnRouter(o) = {} THEN UNCHANGED router
     ELSE \E ok \in BOOLEAN : CutFromRouter(t, op[o].kick, ok)
  /\ OpSet(o, [op[o] EXCEPT !.pc = "cutVoucher", !.ids = {}, !.kick = {}])
  /\ UNCHANGED <<db, env, gen, phone, confirm, sync, expiry>>

OpCutVoucher(o, t) ==
  /\ op[o].pc = "cutVoucher" /\ op[o].tgt = {t}
  /\ expiresAt' = [expiresAt EXCEPT ![t] = @ \/ status[t] = "ACTIVE"]
  /\ OpSet(o, [op[o] EXCEPT !.pc = "cutSession"])
  /\ UNCHANGED <<status, provisioned, due, price, session, notified, batch,
                 router, env, gen, phone, confirm, sync, expiry>>

\* terminate: the connection is removed by its current id (a failure throws).
OpKick(o, t) ==
  /\ op[o].pc = "kick" /\ op[o].tgt = {t}
  /\ \/ /\ online' = [online EXCEPT ![t] = FALSE]
        /\ OpSet(o, [op[o] EXCEPT !.pc = "cutSession"])
     \/ OpSet(o, IdleOp) /\ UNCHANGED online
  /\ UNCHANGED <<db, user, env, gen, phone, confirm, sync, expiry>>

\* The session row, if it is open: of the ticket for forceCut, of the kicked
\* connection's id for terminate (the row may hold an earlier one).
OpCloseSession(o) ==
  /\ op[o].pc = "cutSession"
  /\ \E match \in BOOLEAN :
       /\ op[o].kind = "force" => match
       /\ session' = Closed({t \in op[o].tgt : match /\ SessionOpen(t)})
  /\ OpSet(o, IdleOp)
  /\ UNCHANGED <<status, provisioned, expiresAt, due, price, notified, batch,
                 router, env, gen, phone, confirm, sync, expiry>>

OpWork(o) ==
  \/ OpClaimRevoke(o) \/ OpClaimDelete(o) \/ OpDone(o) \/ OpCloseSession(o)
  \/ \E t \in Tickets :
        OpRouter(o, t) \/ OpCutRouter(o, t) \/ OpCutVoucher(o, t) \/ OpKick(o, t)

-----------------------------------------------------------------------------
(* VoucherExpiryCron.run (one run at a time) on this router.                *)

\* `usedAt <= now - durationMinutes` on a sold ticket.
Elapsed(t) == status[t] = "ACTIVE" /\ due[t]

\* Mutant: only the tickets whose session is still open.
ExpiredInSession(t) == Elapsed(t) /\ ~expiresAt[t] /\ SessionOpen(t)

\* Candidates; a REMOTE router known to be offline or cooling down has none.
Expired(t) == Elapsed(t) /\ ~expiresAt[t]

ExpiryRead ==
  /\ expiry.pc = "idle"
  /\ \E t \in Tickets : Expired(t)
  /\ LET found == {t \in Tickets : Expired(t)} IN
     expiry' = [pc |-> "loop", todo |-> found, cur |-> {},
                ids |-> {t \in found : provisioned[t]},
                kick |-> {t \in found : session[t] # "NONE"}, remote |-> (mode = "REMOTE")]
  /\ UNCHANGED <<db, router, env, gen, phone, confirm, sync, op>>

\* On a REMOTE router the connection and the user are removed first ("no such
\* item" is success); a failure skips the router's other tickets.
ExpiryRouter(t) ==
  /\ expiry.pc = "loop" /\ t \in expiry.todo
  /\ IF expiry.remote /\ t \in expiry.ids
     THEN \E ok \in BOOLEAN :
            /\ CutFromRouter(t, expiry.kick, ok)
            /\ expiry' = IF ok THEN [expiry EXCEPT !.pc = "voucher", !.cur = {t}] ELSE IdleExpiry
     ELSE /\ expiry' = [expiry EXCEPT !.pc = "voucher", !.cur = {t}]
          /\ UNCHANGED router
  /\ UNCHANGED <<db, env, gen, phone, confirm, sync, op>>

ExpiryVoucher(t) ==
  /\ expiry.pc = "voucher" /\ expiry.cur = {t}
  /\ expiresAt' = [expiresAt EXCEPT ![t] = @ \/ status[t] = "ACTIVE"]
  /\ expiry' = [expiry EXCEPT !.pc = "session"]
  /\ UNCHANGED <<status, provisioned, due, price, session, notified, batch,
                 router, env, gen, phone, confirm, sync, op>>

ExpirySession(t) ==
  /\ expiry.pc = "session" /\ expiry.cur = {t}
  /\ session' = Closed({x \in {t} : SessionOpen(x)})
  /\ expiry' = IF expiry.todo = {t} THEN IdleExpiry
               ELSE [expiry EXCEPT !.pc = "loop", !.cur = {}, !.todo = @ \ {t}]
  /\ UNCHANGED <<status, provisioned, expiresAt, due, price, notified, batch,
                 router, env, gen, phone, confirm, sync, op>>

ExpiryWork ==
  \E t \in Tickets : ExpiryRouter(t) \/ ExpiryVoucher(t) \/ ExpirySession(t)

-----------------------------------------------------------------------------
(* The environment.                                                         *)

\* A customer logs in with a code the router knows, or leaves.
Connect(t) ==
  /\ user[t] /\ ~online[t]
  /\ online' = [online EXCEPT ![t] = TRUE]
  /\ UNCHANGED <<db, user, env, procs>>

Disconnect(t) ==
  /\ online[t]
  /\ online' = [online EXCEPT ![t] = FALSE]
  /\ UNCHANGED <<db, user, env, procs>>

\* The plan's duration since the first connection runs out, or is shortened.
DurationElapses(t) ==
  /\ status[t] = "ACTIVE" /\ ~due[t]
  /\ due' = [due EXCEPT ![t] = TRUE]
  /\ UNCHANGED <<status, provisioned, expiresAt, price, session, notified, batch,
                 router, env, procs>>

\* The owner lengthens the plan: tickets that had elapsed have time left again.
LengthenPlan ==
  /\ Lengthens
  /\ \E S \in SUBSET {t \in Tickets : due[t]} :
       S # {} /\ due' = [t \in Tickets |-> due[t] /\ t \notin S]
  /\ UNCHANGED <<status, provisioned, expiresAt, price, session, notified, batch,
                 router, env, procs>>

\* The owner edits its price.
ChangePlanPrice ==
  /\ \E p \in Prices \ {planPrice} : planPrice' = p
  /\ UNCHANGED <<db, router, mode, unnamed, switches, crashes, procs>>

\* Remote access is provisioned or revoked, or the subscription ends.
SwitchMode ==
  /\ switches < MaxSwitches
  /\ mode' = IF mode = "LOCAL" THEN "REMOTE" ELSE "LOCAL"
  /\ switches' = switches + 1
  /\ UNCHANGED <<db, router, planPrice, unnamed, crashes, procs>>

\* The backend restarts: every function in flight is lost where it stands.
Crash ==
  /\ crashes < MaxCrashes
  /\ crashes' = crashes + 1
  /\ gen' = IF gen.pc = "idle" THEN gen ELSE GenDone
  /\ confirm' = [pc |-> "idle", todo |-> {}, items |-> {}]
  /\ sync' = [s \in Syncs |-> IdleSync]
  /\ op' = [o \in Operators |-> IdleOp]
  /\ expiry' = IdleExpiry
  /\ UNCHANGED <<db, router, mode, planPrice, unnamed, switches, phone>>

Environment ==
  \/ LengthenPlan \/ ChangePlanPrice \/ SwitchMode \/ Crash \/ SessionCleanup
  \/ \E t \in Tickets :
        Connect(t) \/ Disconnect(t) \/ DurationElapses(t)

Next ==
  \/ Generate
  \/ \E s \in Syncs : SyncRead(s) \/ SyncDeadline(s) \/ SyncWork(s)
  \/ \E o \in Operators :
        OpWork(o) \/ \E k \in OpKinds, S \in SUBSET Tickets : OpRead(o, k, S)
  \/ ExpiryRead \/ ExpiryWork
  \/ Environment

Spec == Init /\ [][Next]_vars

-----------------------------------------------------------------------------

SyncState ==
  [pc : {"idle", "read", "close", "fetch", "loop", "create", "notify"},
   holds : BOOLEAN, seen : SUBSET Tickets, ended : SUBSET Tickets,
   todo : SUBSET Tickets, known : SUBSET Tickets, fresh : SUBSET Tickets,
   cur : SUBSET Tickets, price : Prices \cup {0}]

OpState ==
  [pc : {"idle", "claim", "router", "cut", "cutVoucher", "cutSession", "kick"},
   kind : {"none", "revoke", "force", "remove", "bulk", "terminate"},
   tgt : SUBSET Tickets, ids : SUBSET Tickets, kick : SUBSET Tickets,
   remote : BOOLEAN]

ExpiryState ==
  [pc : {"idle", "loop", "voucher", "session"}, todo : SUBSET Tickets,
   cur : SUBSET Tickets, ids : SUBSET Tickets, kick : SUBSET Tickets,
   remote : BOOLEAN]

\* The type invariant.
TypeOK ==
  /\ mode \in {"LOCAL", "REMOTE"} /\ planPrice \in Prices
  /\ status \in [Tickets -> {"ABSENT", "GENERATED", "ACTIVE", "REVOKED", "DELETED"}]
  /\ provisioned \in [Tickets -> BOOLEAN]
  /\ expiresAt \in [Tickets -> BOOLEAN]
  /\ due \in [Tickets -> BOOLEAN]
  /\ price \in [Tickets -> {p \in Prices \cup {NoPrice} : p # 0}]
  /\ session \in [Tickets -> {"NONE", "ACTIVE", "TERMINATED"}]
  /\ notified \in [Tickets -> Nat]
  /\ batch \in [status : {"ABSENT", "GENERATING", "COMPLETED", "PARTIAL_SUCCESS",
                          "FAILED", "DELETED"}, generated : SUBSET Tickets]
  /\ user \in [Tickets -> BOOLEAN] /\ online \in [Tickets -> BOOLEAN]
  /\ gen \in [pc : {"idle", "batch", "peer", "push", "record", "done"},
              remote : BOOLEAN, cur : SUBSET Tickets, pushed : SUBSET Tickets]
  /\ phone \in [pc : {"idle", "push", "wait", "report", "done"}, pushed : SUBSET Tickets]
  /\ confirm \in [pc : {"idle", "items"}, todo : SUBSET Tickets, items : SUBSET Tickets]
  /\ sync \in [Syncs -> SyncState]
  /\ op \in [Operators -> OpState]
  /\ expiry \in ExpiryState
  /\ unnamed \subseteq Tickets
  /\ switches \in 0..MaxSwitches /\ crashes \in 0..MaxCrashes

\* A sale is final: once a ticket is ACTIVE no withdrawal, cron, restart or
\* late sync revokes it or deletes it, even when the request read the ticket
\* before it was sold.
SaleIsFinal ==
  [][\A t \in Tickets : status[t] = "ACTIVE" => status'[t] = "ACTIVE"]_vars

\* The price a ticket was sold at is written by the sale and never again: not
\* by a second sync holding another plan price, nor by an edit of the plan.
PriceFrozen ==
  [][\A t \in Tickets : price'[t] # price[t] =>
        status[t] = "GENERATED" /\ status'[t] = "ACTIVE"]_vars

\* A session row exists only for a sold ticket: deleting "the sessions of the
\* deleted tickets" never destroys a session, and no session shows up for a
\* ticket that was revoked or deleted while the sync was on its way.
SessionOnlyOfSale == \A t \in Tickets : session[t] # "NONE" => status[t] = "ACTIVE"

\* However many syncs see the first connection at once, the owner gets at most
\* one VOUCHER_ACTIVATED notification for a ticket, and only for a sold one.
NotifiedOnce == \A t \in Tickets : notified[t] <= 1 /\ (notified[t] = 1 => status[t] = "ACTIVE")

\* A batch reported COMPLETED hides no ticket that was never put on a router:
\* each one is recorded with its router id, was deleted since, or was accepted
\* by the router in an answer without an id (the server push counts such a
\* ticket though it cannot be sold) - whichever of the server push, the phone
\* and the failure report wrote the batch last.
CompletedIsPushed ==
  batch.status = "COMPLETED" =>
    \A t \in Tickets : provisioned[t] \/ status[t] = "DELETED" \/ t \in unnamed

-----------------------------------------------------------------------------
(* Implementation of the life cycle.                                        *)

\* computeExpiresAt against the clock: cut or expired by the cron, or the
\* duration since the first connection is over.
PastExpiry(t) == expiresAt[t] \/ due[t]

\* ticketState, with the two cases that have no voucher row.
TicketState(t) ==
  CASE status[t] \in {"ABSENT", "DELETED", "REVOKED"} -> status[t]
    [] Exists(t) /\ status[t] # "REVOKED" /\ ~provisioned[t] -> "UNAVAILABLE"
    [] status[t] = "ACTIVE" /\ provisioned[t] -> IF PastExpiry(t) THEN "EXPIRED" ELSE "IN_USE"
    [] status[t] = "GENERATED" /\ provisioned[t] -> "AVAILABLE"

Lifecycle == INSTANCE TicketLifecycle WITH
  state  <- [t \in Tickets |-> TicketState(t)],
  sold   <- [t \in Tickets |-> status[t] = "ACTIVE"],
  closed <- expiresAt

\* Every behaviour of the service, seen through the verification screen, is a
\* life of tickets as TicketLifecycle promises it.
ImplementsLifecycle == Lifecycle!Spec

-----------------------------------------------------------------------------
(* Progress.                                                                *)

\* What keeps running: the scheduler reads a REMOTE router again and again, a
\* function that started gets its next turn, the expiry cron ticks, and a
\* router that is retried forever answers at times.
Fairness ==
  /\ \A s \in Syncs : WF_vars(SyncWork(s)) /\ WF_vars(mode = "REMOTE" /\ SyncRead(s))
  /\ \A o \in Operators : WF_vars(OpWork(o))
  /\ WF_vars(Generate)
  /\ WF_vars(ExpiryRead) /\ WF_vars(ExpiryWork)
  /\ \A t \in Tickets : SF_vars(ExpiryRouter(t) /\ expiry'.pc = "voucher")

FairSpec == Init /\ [][Next]_vars /\ Fairness

\* A session whose client has left the hotspot is eventually closed: a sync
\* that still held an older list may reopen it, a later one closes it again.
SessionCloses ==
  \A t \in Tickets :
    SessionOpen(t) /\ ~online[t] ~> (~SessionOpen(t) \/ online[t])

\* A sold ticket whose duration is over is eventually marked expired, through
\* router failures and restarts, unless its plan is lengthened.
ExpiryPersisted == \A t \in Tickets : Elapsed(t) ~> expiresAt[t] \/ ~due[t]

\* ... and its user eventually leaves the router when the backend knows its
\* id and no run of the cron was already on its way without it.
ExpiredLeavesRouter ==
  \A t \in Tickets :
    Elapsed(t) /\ ~expiresAt[t] /\ provisioned[t] /\ expiry.pc = "idle"
      ~> ~user[t] \/ ~due[t]

=============================================================================
