------------------------------- MODULE Billing -------------------------------
(***************************************************************************)
(* Subscription payments of one tenant: the owner's upgrade requests and   *)
(* online checkouts, the payment provider (SasPay) and its webhook         *)
(* deliveries, activation by the webhook or by an administrator, the       *)
(* expiry cron and the deletion of the account.  One action per await; a   *)
(* Prisma transaction is one action, and so are reads in a row of which    *)
(* none decides on another (ReqRead, AdminActivate, HookReceive).          *)
(*   req[r]   requestUpgrade or createCheckout                             *)
(*   act[p]   a webhook delivery, validateInvoice, activateManually, each  *)
(*            followed by SubscriptionsService.activate; or rejectInvoice  *)
(*   cron     PaymentCron.expireOverdueSubscriptions                       *)
(* An amount is the price of its tier and a period has a fixed length.     *)
(***************************************************************************)
EXTENDS Integers, FiniteSetsExt

CONSTANTS Tiers,       \* prices of the published tiers
          Requests,    \* requests of the owner in flight at once
          Hooks,       \* webhook deliveries in flight at once
          Admins,      \* administrator actions in flight at once
          AdminKinds,  \* what the administrators do
          MaxInvoices, MaxIntents,  \* rows that can be created
          Period,      \* length of a paid period
          Duplicates,               \* a delivery can arrive twice
          MaxTime, MaxEnd, MaxCrashes  \* bounds of the clock, of the periods given
                                    \* away and of the restarts

ASSUME BillingAssumption ==
  /\ Tiers \subseteq Nat \ {0} /\ IsFiniteSet(Tiers)
  /\ AdminKinds \subseteq {"validate", "activate", "reject", "deactivate", "status"}
  /\ MaxInvoices \in Nat /\ MaxIntents \in Nat /\ Duplicates \in BOOLEAN
  /\ Period \in Nat \ {0} /\ MaxTime \in Nat /\ MaxEnd \in Nat /\ MaxCrashes \in Nat
  /\ Hooks \cap Admins = {}

Invoices == 1..MaxInvoices   \* numbered in the order of createdAt
Intents  == 1..MaxIntents
Procs    == Hooks \cup Admins
None     == 0
Unstated == -1   \* the event of a payment has no charged amount

VARIABLES
  now,      \* the clock
  tenant,   \* Tenant.status
  sub,      \* Subscription: plan, tier, end (currentPeriodEnd)
  invoice,  \* Invoice rows: status, tier (tierId and amount, None for an
            \* accounting invoice), provider
  intent,   \* PaymentIntent rows: status, invoice, requested, url, activated
  checkout, \* the provider's checkout sessions: state, and the charged amount
            \* its success event states
  owed,     \* events the provider has not had acknowledged
  req, act, cron, crashes

vars == <<now, tenant, sub, invoice, intent, checkout, owed, req, act, cron, crashes>>
rows == <<tenant, sub, invoice, intent>>

IdleReq == [pc |-> "idle", kind |-> "none", tier |-> None, inv |-> None, intent |-> None]
IdleAct == [pc |-> "idle", intent |-> None, inv |-> None, found |-> None,
            tier |-> None, end |-> 0]

Init ==
  /\ now = 1 /\ tenant = "ACTIVE"
  /\ sub = [plan |-> "FREE", tier |-> None, end |-> 0]
  /\ invoice = [i \in Invoices |-> [status |-> "ABSENT", tier |-> None, provider |-> "MANUAL"]]
  /\ intent = [k \in Intents |-> [status |-> "ABSENT", inv |-> None, requested |-> 0,
                                  url |-> FALSE, activated |-> FALSE]]
  /\ checkout = [k \in Intents |-> [state |-> "none", charged |-> 0]]
  /\ owed = {}
  /\ req = [r \in Requests |-> IdleReq]
  /\ act = [p \in Procs |-> IdleAct]
  /\ cron = "idle" /\ crashes = 0

-----------------------------------------------------------------------------
(* Invoices.                                                                *)

PendingInvoices == {i \in Invoices : invoice[i].status = "PENDING"}

\* `findFirst where PENDING orderBy createdAt desc`.
LatestPending == IF PendingInvoices = {} THEN None ELSE Max(PendingInvoices)

\* The row a create takes, None when the bound is reached.
NextInvoice ==
  LET free == {i \in Invoices : invoice[i].status = "ABSENT"}
  IN  IF free = {} THEN None ELSE Min(free)
NextIntent ==
  LET free == {k \in Intents : intent[k].status = "ABSENT"}
  IN  IF free = {} THEN None ELSE Min(free)

\* getEntitlement: PRO until the end of the paid period.
Entitled == sub.plan = "PRO" /\ sub.end >= now

ReqSet(r, x) == req' = [req EXCEPT ![r] = x]

\* The tier and the pending invoice are read.  Only requestUpgrade refuses a
\* tier below the one held.  The status of the account is not read again: the
\* access token is enough.
ReqRead(r, kind, t) ==
  /\ req[r].pc = "idle"
  /\ kind = "upgrade" => ~(Entitled /\ sub.tier # None /\ t < sub.tier)
  /\ ReqSet(r, [IdleReq EXCEPT !.pc = "invoice", !.kind = kind, !.tier = t,
                               !.inv = LatestPending])
  /\ UNCHANGED <<now, rows, checkout, owed, act, cron, crashes>>

\* The pending invoice is rewritten by id, whatever became of it; or one is
\* created.  A checkout makes it a SasPay invoice.
ReqInvoice(r) ==
  /\ req[r].pc = "invoice"
  /\ LET x == req[r]
         i == IF x.inv = None THEN NextInvoice ELSE x.inv
         provider == IF x.kind = "checkout" THEN "SASPAY" ELSE invoice[i].provider IN
     /\ i # None
     /\ invoice' = [invoice EXCEPT ![i].tier = x.tier, ![i].provider = provider,
                                   ![i].status = IF x.inv = None THEN "PENDING" ELSE @]
     /\ ReqSet(r, IF x.kind = "checkout" THEN [x EXCEPT !.pc = "find", !.inv = i] ELSE IdleReq)
  /\ UNCHANGED <<now, tenant, sub, intent, checkout, owed, act, cron, crashes>>

\* AccountingService.generateInvoice, an invoice of the tickets sold: it has no
\* tier and goes to the same table.
AccountingInvoice ==
  /\ NextInvoice # None
  /\ invoice' = [invoice EXCEPT ![NextInvoice] =
                   [status |-> "PENDING", tier |-> None, provider |-> "MANUAL"]]
  /\ UNCHANGED <<now, tenant, sub, intent, checkout, owed, req, act, cron, crashes>>

\* An open checkout of the invoice is handed out again, at its own price.
ReusableIntent(k, i) ==
  intent[k].inv = i /\ intent[k].status = "PENDING" /\ intent[k].url

ReqFind(r) ==
  /\ req[r].pc = "find"
  /\ ReqSet(r, IF \E k \in Intents : ReusableIntent(k, req[r].inv)
               THEN IdleReq ELSE [req[r] EXCEPT !.pc = "create"])
  /\ UNCHANGED <<now, rows, checkout, owed, act, cron, crashes>>

ReqCreate(r) ==
  /\ req[r].pc = "create" /\ NextIntent # None
  /\ intent' = [intent EXCEPT ![NextIntent] =
                  [status |-> "PENDING", inv |-> req[r].inv, requested |-> req[r].tier,
                   url |-> FALSE, activated |-> FALSE]]
  /\ ReqSet(r, [req[r] EXCEPT !.pc = "session", !.intent = NextIntent])
  /\ UNCHANGED <<now, tenant, sub, invoice, checkout, owed, act, cron, crashes>>

\* The provider opens a session and its URL is stored; or the call fails.
ReqSession(r) ==
  /\ req[r].pc = "session"
  /\ LET k == req[r].intent IN
     \/ /\ intent' = [intent EXCEPT ![k].url = TRUE]
        /\ checkout' = [checkout EXCEPT ![k].state = "open"]
     \/ /\ intent' = [intent EXCEPT ![k].status = "FAILED"]
        /\ UNCHANGED checkout
  /\ ReqSet(r, IdleReq)
  /\ UNCHANGED <<now, tenant, sub, invoice, owed, act, cron, crashes>>

ReqWork(r) == ReqInvoice(r) \/ ReqFind(r) \/ ReqCreate(r) \/ ReqSession(r)

-----------------------------------------------------------------------------
(* The provider (outside the repository).                                   *)

\* An attempt fails or is cancelled; the customer may try again.
AttemptFails(k) ==
  /\ checkout[k].state = "open"
  /\ checkout' = [checkout EXCEPT ![k].state = "failed"]
  /\ owed' = owed \cup {[intent |-> k, kind |-> "failed"]}
  /\ UNCHANGED <<now, rows, req, act, cron, crashes>>

\* The customer pays.  The event states the amount of the session, less of it,
\* or nothing: the field is optional.
Pay(k, charged) ==
  /\ checkout[k].state \in {"open", "failed"}
  /\ checkout' = [checkout EXCEPT ![k] = [state |-> "paid", charged |-> charged]]
  /\ owed' = owed \cup {[intent |-> k, kind |-> "success"]}
  /\ UNCHANGED <<now, rows, req, act, cron, crashes>>

-----------------------------------------------------------------------------
(* handleWebhookEvent.                                                      *)

ActSet(p, x) == act' = [act EXCEPT ![p] = x]

\* `amountCharged !== null && amountCharged < intent.amountRequested` refuses
\* the event: a success that states no amount is accepted.
Accepted(k) ==
  checkout[k].charged # Unstated => checkout[k].charged >= intent[k].requested

\* A delivery, possibly while an earlier one of the same event is still
\* running (no answer within 15 s): each carries its own timestamp, so the
\* event log takes it as new.  A payment that is stated to be short is
\* acknowledged and ignored.
HookReceive(h, e) ==
  /\ act[h].pc = "idle" /\ e \in owed
  /\ IF e.kind = "success" /\ ~Accepted(e.intent)
     THEN owed' = owed \ {e} /\ UNCHANGED act
     ELSE /\ ActSet(h, [IdleAct EXCEPT
                 !.pc = IF e.kind = "success" THEN "settle" ELSE "fail",
                 !.intent = e.intent, !.inv = intent[e.intent].inv])
          /\ UNCHANGED owed
  /\ UNCHANGED <<now, rows, checkout, req, cron, crashes>>

\* The same delivery twice (same timestamp and signature): the second one is
\* acknowledged at once, whatever becomes of the first.
HookDuplicate(e) ==
  /\ Duplicates
  /\ \E h \in Hooks : act[h].pc # "idle" /\ act[h].intent = e.intent
                      /\ (act[h].pc = "fail") = (e.kind = "failed")
  /\ owed' = owed \ {e}
  /\ UNCHANGED <<now, rows, checkout, req, act, cron, crashes>>

\* Mutant: an intent that is already a success is taken as processed.
HookSettleOnce(h) ==
  /\ act[h].pc = "settle"
  /\ LET k == act[h].intent IN
     /\ intent' = [intent EXCEPT ![k].status = "SUCCESS"]
     /\ IF intent[k].status = "SUCCESS"
        THEN ActSet(h, IdleAct) /\ owed' = owed \ {[intent |-> k, kind |-> "success"]}
        ELSE ActSet(h, [act[h] EXCEPT !.pc = "readSub"]) /\ UNCHANGED owed
  /\ UNCHANGED <<now, tenant, sub, invoice, checkout, req, cron, crashes>>

\* The success is written whatever the intent's status was.
HookSettle(h) ==
  /\ act[h].pc = "settle"
  /\ intent' = [intent EXCEPT ![act[h].intent].status = "SUCCESS"]
  /\ ActSet(h, [act[h] EXCEPT !.pc = "readSub"])
  /\ UNCHANGED <<now, tenant, sub, invoice, checkout, owed, req, cron, crashes>>

\* Mutant: the failure is written by id alone.
FailableAnyway(k) == TRUE

\* `updateMany where status: PENDING`: what a failed attempt may rewrite.
Failable(k) == intent[k].status = "PENDING"

HookFail(h) ==
  /\ act[h].pc = "fail"
  /\ LET k == act[h].intent IN
     /\ intent' = [intent EXCEPT ![k].status = IF Failable(k) THEN "FAILED" ELSE @]
     /\ owed' = owed \ {[intent |-> k, kind |-> "failed"]}
  /\ ActSet(h, IdleAct)
  /\ UNCHANGED <<now, tenant, sub, invoice, checkout, req, cron, crashes>>

\* activatedAt, and the delivery is acknowledged.
HookMark(h) ==
  /\ act[h].pc = "mark"
  /\ LET k == act[h].intent IN
     /\ intent' = [intent EXCEPT ![k].activated = TRUE]
     /\ owed' = owed \ {[intent |-> k, kind |-> "success"]}
  /\ ActSet(h, IdleAct)
  /\ UNCHANGED <<now, tenant, sub, invoice, checkout, req, cron, crashes>>

-----------------------------------------------------------------------------
(* The administrator.                                                       *)

Start(p, pc, i) == ActSet(p, [IdleAct EXCEPT !.pc = pc, !.inv = i])

\* validateInvoice and rejectInvoice: a pending invoice that is not SasPay's.
AdminInvoice(p, kind, i) ==
  /\ act[p].pc = "idle"
  /\ invoice[i].status = "PENDING" /\ invoice[i].provider # "SASPAY"
  /\ Start(p, IF kind = "validate" THEN "readSub" ELSE "reject", i)
  /\ UNCHANGED <<now, rows, checkout, owed, req, cron, crashes>>

\* activateManually, on an invoice or on none: refused while a SasPay invoice
\* is pending.
AdminActivate(p, i) ==
  /\ act[p].pc = "idle" /\ sub.end < MaxEnd
  /\ i # None => invoice[i].status # "ABSENT" /\ invoice[i].provider # "SASPAY"
  /\ \A j \in PendingInvoices : invoice[j].provider # "SASPAY"
  /\ Start(p, "readSub", i)
  /\ UNCHANGED <<now, rows, checkout, owed, req, cron, crashes>>

AdminReject(p) ==
  /\ act[p].pc = "reject"
  /\ invoice' = [invoice EXCEPT ![act[p].inv].status = IF @ = "PENDING" THEN "FAILED" ELSE @]
  /\ ActSet(p, IdleAct)
  /\ UNCHANGED <<now, tenant, sub, intent, checkout, owed, req, cron, crashes>>

\* setTenantStatus: a deleted account is refused, then the status is written.
AdminReadStatus(p) ==
  /\ act[p].pc = "idle" /\ tenant # "DELETED"
  /\ Start(p, "status", None)
  /\ UNCHANGED <<now, rows, checkout, owed, req, cron, crashes>>

AdminSetStatus(p) ==
  /\ act[p].pc = "status"
  /\ tenant' \in {"ACTIVE", "SUSPENDED"}
  /\ ActSet(p, IdleAct)
  /\ UNCHANGED <<now, sub, invoice, intent, checkout, owed, req, cron, crashes>>

\* The transaction of deactivate, whatever the subscription is by then.
Deactivated == [plan |-> "FREE", tier |-> None, end |-> now]

AdminDeactivate ==
  /\ "deactivate" \in AdminKinds
  /\ sub' = Deactivated
  /\ UNCHANGED <<now, tenant, invoice, intent, checkout, owed, req, act, cron, crashes>>

AdminStart(p) ==
  \/ \E i \in Invoices, kind \in AdminKinds \cap {"validate", "reject"} : AdminInvoice(p, kind, i)
  \/ \E i \in Invoices \cup {None} : "activate" \in AdminKinds /\ AdminActivate(p, i)
  \/ "status" \in AdminKinds /\ AdminReadStatus(p)

-----------------------------------------------------------------------------
(* SubscriptionsService.activate.                                           *)

ActReadSub(p) ==
  /\ act[p].pc = "readSub"
  /\ ActSet(p, [act[p] EXCEPT !.pc = "readInvoice", !.tier = sub.tier, !.end = sub.end])
  /\ UNCHANGED <<now, rows, checkout, owed, req, cron, crashes>>

\* The renewal starts at the end of the running period.
RenewedEnd(end) == (IF end > now THEN end ELSE now) + Period

\* Mutant and code: the refusal of a period without a tier.
NeverRefused(tier) == FALSE
Refused(tier) == tier = None

\* The target invoice, or the latest pending one; its tier, or the one held.
\* Without any tier the activation is refused.
ActReadInvoice(p) ==
  /\ act[p].pc = "readInvoice"
  /\ LET i == IF act[p].inv = None THEN LatestPending ELSE act[p].inv
         tier == IF i = None \/ invoice[i].tier = None THEN act[p].tier ELSE invoice[i].tier IN
     ActSet(p, IF Refused(tier) THEN IdleAct
               ELSE [act[p] EXCEPT !.pc = "commit", !.found = i, !.tier = tier,
                                   !.end = RenewedEnd(@)])
  /\ UNCHANGED <<now, rows, checkout, owed, req, cron, crashes>>

\* Mutant: the invoice is updated by id alone.
ClaimedWhateverItsStatus(i) == IF i = None THEN PendingInvoices ELSE {i}

\* Rows the transaction claims: the invoice if it is still pending, or every
\* pending invoice when none was found.
Claimed(i) == IF i = None THEN PendingInvoices ELSE PendingInvoices \cap {i}

\* An invoice that is not pending any more aborts the transaction.
ClaimAborts(i) == i # None /\ Claimed(i) = {}

\* Mutant: the account is made ACTIVE whatever it was.
DeletedIsIgnored == FALSE

\* `updateMany where status: {not: DELETED}` touching no row aborts it.
TenantAborts == tenant = "DELETED"

ActCommit(p) ==
  /\ act[p].pc = "commit"
  /\ LET i == act[p].found IN
     IF ClaimAborts(i) \/ TenantAborts
     THEN ActSet(p, IdleAct) /\ UNCHANGED <<sub, invoice, tenant>>
     ELSE /\ invoice' = [j \in Invoices |->
               IF j \in Claimed(i) THEN [invoice[j] EXCEPT !.status = "PAID"] ELSE invoice[j]]
          /\ sub' = [plan |-> "PRO", tier |-> act[p].tier, end |-> act[p].end]
          /\ tenant' = "ACTIVE"
          /\ ActSet(p, IF p \in Hooks THEN [IdleAct EXCEPT !.pc = "mark", !.intent = act[p].intent]
                       ELSE IdleAct)
  /\ UNCHANGED <<now, intent, checkout, owed, req, cron, crashes>>

HookWork(h) == HookSettle(h) \/ HookFail(h) \/ ActReadSub(h) \/ ActReadInvoice(h)
               \/ ActCommit(h) \/ HookMark(h)
AdminWork(p) == AdminReject(p) \/ AdminSetStatus(p) \/ ActReadSub(p) \/ ActReadInvoice(p) \/ ActCommit(p)

-----------------------------------------------------------------------------
(* Expiry, deletion, time and restarts.                                     *)

\* Mutant: the cron only looks at the accounts in use.
OverdueInUse == sub.plan = "PRO" /\ sub.end < now /\ tenant = "ACTIVE"

\* The overdue subscriptions are listed, then each is deactivated.
Overdue == sub.plan = "PRO" /\ sub.end < now

CronList ==
  /\ cron = "idle" /\ Overdue
  /\ cron' = "due"
  /\ UNCHANGED <<now, rows, checkout, owed, req, act, crashes>>

CronDeactivate ==
  /\ cron = "due"
  /\ sub' = Deactivated
  /\ cron' = "idle"
  /\ UNCHANGED <<now, tenant, invoice, intent, checkout, owed, req, act, crashes>>

\* The transaction of deleteAccount for the last user.
DeleteAccount ==
  /\ tenant # "DELETED"
  /\ tenant' = "DELETED"
  /\ invoice' = [i \in Invoices |-> IF i \in PendingInvoices
                     THEN [invoice[i] EXCEPT !.status = "FAILED"] ELSE invoice[i]]
  /\ UNCHANGED <<now, sub, intent, checkout, owed, req, act, cron, crashes>>

Tick ==
  /\ now < MaxTime
  /\ now' = now + 1
  /\ UNCHANGED <<rows, checkout, owed, req, act, cron, crashes>>

Crash ==
  /\ crashes < MaxCrashes
  /\ crashes' = crashes + 1
  /\ req' = [r \in Requests |-> IdleReq]
  /\ act' = [p \in Procs |-> IdleAct]
  /\ cron' = "idle"
  /\ UNCHANGED <<now, rows, checkout, owed>>

Next ==
  \/ \E r \in Requests :
        \/ ReqWork(r)
        \/ \E kind \in {"upgrade", "checkout"}, t \in Tiers : ReqRead(r, kind, t)
  \/ \E k \in Intents :
        \/ AttemptFails(k)
        \/ \E c \in {intent[k].requested, intent[k].requested - 1, Unstated} : Pay(k, c)
  \/ \E e \in owed : HookDuplicate(e) \/ \E h \in Hooks : HookReceive(h, e)
  \/ \E h \in Hooks : HookWork(h)
  \/ \E p \in Admins : AdminStart(p) \/ AdminWork(p)
  \/ AccountingInvoice \/ AdminDeactivate
  \/ CronList \/ CronDeactivate \/ DeleteAccount \/ Tick \/ Crash

Spec == Init /\ [][Next]_vars

-----------------------------------------------------------------------------

ReqState ==
  [pc : {"idle", "invoice", "find", "create", "session"},
   kind : {"none", "upgrade", "checkout"}, tier : Tiers \cup {None},
   inv : Invoices \cup {None}, intent : Intents \cup {None}]

ActState ==
  [pc : {"idle", "settle", "fail", "mark", "reject", "status", "readSub", "readInvoice", "commit"},
   intent : Intents \cup {None}, inv : Invoices \cup {None}, found : Invoices \cup {None},
   tier : Tiers \cup {None}, end : Nat]

\* The type invariant.
TypeOK ==
  /\ now \in 1..(MaxTime + 1)
  /\ tenant \in {"ACTIVE", "SUSPENDED", "DELETED"}
  /\ \/ sub \in [plan : {"PRO"}, tier : Tiers, end : Nat]
     \/ sub \in [plan : {"FREE"}, tier : {None}, end : Nat]
  /\ invoice \in [Invoices -> [status : {"ABSENT", "PENDING", "PAID", "FAILED"},
                               tier : Tiers \cup {None}, provider : {"MANUAL", "SASPAY"}]]
  /\ intent \in [Intents -> [status : {"ABSENT", "PENDING", "SUCCESS", "FAILED"},
                             inv : Invoices \cup {None}, requested : Tiers \cup {0},
                             url : BOOLEAN, activated : BOOLEAN]]
  /\ checkout \in [Intents -> [state : {"none", "open", "failed", "paid"}, charged : Nat \cup {Unstated}]]
  /\ owed \subseteq [intent : Intents, kind : {"success", "failed"}]
  /\ req \in [Requests -> ReqState]
  /\ act \in [Procs -> ActState]
  /\ cron \in {"idle", "due"}
  /\ crashes \in 0..MaxCrashes

\* An invoice is settled once: a rejection, a late checkout, a redelivered
\* payment or the deletion of the account never turns PAID or FAILED into
\* something else.
SettledOnce ==
  [][\A i \in Invoices :
       invoice[i].status \in {"PAID", "FAILED"} => invoice'[i].status = invoice[i].status]_vars

\* A paid period is granted by a step that settles an invoice, or by an
\* administrator without any: redelivered, duplicated and concurrent
\* confirmations of one payment grant one period.
OnePeriodPerInvoice ==
  [][sub'.plan = "PRO" /\ sub' # sub =>
       \/ \E i \in Invoices : invoice[i].status = "PENDING" /\ invoice'[i].status = "PAID"
       \/ \E p \in Admins : act[p].pc = "commit" /\ act[p].found = None]_vars

\* No activation reaches a deleted account, not even from a checkout that was
\* in flight at the deletion and issued its invoice after it.
DeletedGetsNoActivation ==
  [][tenant = "DELETED" =>
       /\ sub'.plan = "PRO" => sub' = sub
       /\ \A i \in Invoices : invoice'[i].status = "PAID" => invoice[i].status = "PAID"]_vars

\* An intent marked activated is a success whose invoice is paid and whose
\* session the customer did pay, with a charge that covers what was requested
\* unless the provider's event did not state it, whatever event of an earlier
\* attempt came late.
ActivatedIsPaid ==
  \A k \in Intents : intent[k].activated =>
    /\ intent[k].status = "SUCCESS"
    /\ invoice[intent[k].inv].status = "PAID"
    /\ checkout[k].state = "paid"
    /\ checkout[k].charged # Unstated => checkout[k].charged >= intent[k].requested

-----------------------------------------------------------------------------
(* Progress.                                                                *)

\* A function that started gets its next turn, the crons tick, and SasPay
\* delivers an event again until it is acknowledged.
Fairness ==
  /\ \A h \in Hooks : WF_vars(HookWork(h))
  /\ \A p \in Admins : WF_vars(AdminWork(p))
  /\ SF_vars(\E h \in Hooks, e \in owed : HookReceive(h, e))
  /\ WF_vars(CronList) /\ WF_vars(CronDeactivate)

FairSpec == Init /\ [][Next]_vars /\ Fairness

\* A payment not stated to be short eventually settles the invoice, unless the
\* account is deleted, through restarts between any two steps of its
\* confirmation.
PaymentSettles ==
  \A k \in Intents, i \in Invoices :
    intent[k].inv = i /\ checkout[k].state = "paid" /\ Accepted(k)
      ~> invoice[i].status \in {"PAID", "FAILED"} \/ tenant = "DELETED"

\* A subscription past its period eventually reverts to FREE, or is renewed.
OverdueReverts == sub.plan = "PRO" /\ sub.end < now ~> sub.plan = "FREE" \/ sub.end >= now

-----------------------------------------------------------------------------
(* What comments of the code say and the code does not do.                   *)

\* schema.prisma: the invoice "reste la source de verite metier (ce que le
\* client doit)"; a payment that activates covers what its invoice says, when its
\* event states an amount.
PaymentCoversInvoice ==
  \A k \in Intents : intent[k].activated /\ checkout[k].charged # Unstated
    => checkout[k].charged >= invoice[intent[k].inv].tier

\* subscriptions.service.ts: "Only an expired PRO reverts to FREE".
OnlyExpiredReverts == [][CronDeactivate => Overdue]_vars
=============================================================================
