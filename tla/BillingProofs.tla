----------------------------- MODULE BillingProofs -----------------------------
(* Theorems about Billing, for any number of requests, deliveries,           *)
(* administrators, invoices and intents.                                     *)
EXTENDS Billing, Numbers, TLAPS

InvoiceRow == [status : {"ABSENT", "PENDING", "PAID", "FAILED"},
               tier : Tiers \cup {None}, provider : {"MANUAL", "SASPAY"}]
IntentRow == [status : {"ABSENT", "PENDING", "SUCCESS", "FAILED"},
              inv : Invoices \cup {None}, requested : Tiers \cup {0},
              url : BOOLEAN, activated : BOOLEAN]
CheckoutRow == [state : {"none", "open", "failed", "paid"}, charged : Nat \cup {Unstated}]
Event == [intent : Intents, kind : {"success", "failed"}]

\* The payment of a checkout covers what the intent asked, unless its event
\* stated no amount.
Paid(k, intents, checkouts) ==
  /\ checkouts[k].state = "paid"
  /\ checkouts[k].charged # Unstated => checkouts[k].charged >= intents[k].requested

\* What a request holds between its steps: before its session is open, the
\* intent it created is unknown to the provider.
GoodReq(x, intents, checkouts) ==
  /\ x.pc # "idle" => x.tier \in Tiers
  /\ x.pc \in {"find", "create", "session"} => x.inv \in Invoices
  /\ x.pc = "session" => /\ x.intent \in Intents
                         /\ intents[x.intent].status # "ABSENT"
                         /\ checkouts[x.intent].state = "none"

\* What a delivery holds between its steps: it confirms a payment that covers
\* its intent, on the invoice of the intent, and once it has committed that
\* invoice is paid.
GoodHook(x, invoices, intents, checkouts) ==
  x.pc # "idle" =>
    /\ x.intent \in Intents /\ checkouts[x.intent].state # "none"
    /\ x.pc # "fail" => Paid(x.intent, intents, checkouts)
    /\ x.pc \notin {"settle", "fail"} => intents[x.intent].status = "SUCCESS"
    /\ x.pc # "mark" => x.inv = intents[x.intent].inv
    /\ x.pc = "commit" => x.found = x.inv
    /\ x.pc = "mark" => invoices[intents[x.intent].inv].status = "PAID"

Sessions == {r \in Requests : req[r].pc = "session"}

ReqOK ==
  /\ \A r \in Requests : GoodReq(req[r], intent, checkout)
  /\ \A r, s \in Sessions : r # s => req[r].intent # req[s].intent
IntentOK ==
  \A k \in Intents :
    /\ intent[k].status # "ABSENT" => intent[k].inv \in Invoices /\ intent[k].requested \in Tiers
    /\ checkout[k].state # "none" => intent[k].status # "ABSENT"
OwedOK ==
  \A e \in owed : /\ checkout[e.intent].state # "none"
                  /\ e.kind = "success" => checkout[e.intent].state = "paid"
ActOK ==
  /\ \A h \in Hooks : GoodHook(act[h], invoice, intent, checkout)
  /\ \A p \in Procs : act[p].pc = "commit" => act[p].tier \in Tiers

IInv == TypeOK /\ ReqOK /\ IntentOK /\ OwedOK /\ ActOK /\ ActivatedIsPaid

-----------------------------------------------------------------------------
(* Least and greatest rows.                                                  *)

\* The pending invoice a request reads is one, and a create takes a free row.
LEMMA PicksARow ==
  /\ LatestPending \in PendingInvoices \cup {None}
  /\ NextInvoice # None => NextInvoice \in Invoices /\ invoice[NextInvoice].status = "ABSENT"
  /\ NextIntent # None => NextIntent \in Intents /\ intent[NextIntent].status = "ABSENT"
<1>1. ASSUME PendingInvoices # {} PROVE Max(PendingInvoices) \in PendingInvoices
  <2>1. PendingInvoices \in SUBSET (0..MaxInvoices) /\ MaxInvoices \in Nat
    BY BillingAssumption DEF PendingInvoices, Invoices
  <2> QED
    BY <1>1, <2>1, GreatestNatural
<1>2. NextInvoice # None => NextInvoice \in Invoices /\ invoice[NextInvoice].status = "ABSENT"
  <2> DEFINE free == {i \in Invoices : invoice[i].status = "ABSENT"}
  <2>1. free \in SUBSET Nat
    BY BillingAssumption DEF Invoices
  <2>2. free # {} => Min(free) \in free
    BY <2>1, LeastNatural
  <2> QED
    BY <2>2 DEF NextInvoice
<1>3. NextIntent # None => NextIntent \in Intents /\ intent[NextIntent].status = "ABSENT"
  <2> DEFINE free == {k \in Intents : intent[k].status = "ABSENT"}
  <2>1. free \in SUBSET Nat
    BY BillingAssumption DEF Intents
  <2>2. free # {} => Min(free) \in free
    BY <2>1, LeastNatural
  <2> QED
    BY <2>2 DEF NextIntent
<1> QED
  BY <1>1, <1>2, <1>3 DEF LatestPending

-----------------------------------------------------------------------------
(* Who writes each table.                                                    *)

LEMMA InvoiceWriters ==
  ASSUME [Next]_vars
  PROVE  \/ UNCHANGED invoice
         \/ \E r \in Requests : ReqInvoice(r)
         \/ AccountingInvoice \/ DeleteAccount
         \/ \E p \in Procs : AdminReject(p) \/ ActCommit(p)
BY DEF Next, vars, rows, ReqWork, ReqRead, ReqFind, ReqCreate, ReqSession, AttemptFails, Pay,
       HookDuplicate, HookReceive, HookWork, HookSettle, HookFail, HookMark, AdminStart,
       AdminInvoice, AdminActivate, AdminReadStatus, AdminSetStatus, AdminWork, AdminDeactivate,
       ActReadSub, ActReadInvoice, CronList, CronDeactivate, Tick, Crash, Procs

LEMMA IntentWriters ==
  ASSUME [Next]_vars
  PROVE  \/ UNCHANGED intent
         \/ \E r \in Requests : ReqCreate(r) \/ ReqSession(r)
         \/ \E h \in Hooks : HookSettle(h) \/ HookFail(h) \/ HookMark(h)
BY DEF Next, vars, rows, ReqWork, ReqRead, ReqFind, ReqInvoice, AttemptFails, Pay,
       HookDuplicate, HookReceive, HookWork, AdminStart,
       AdminInvoice, AdminActivate, AdminReadStatus, AdminSetStatus, AdminWork, AdminDeactivate,
       ActReadSub, ActReadInvoice, CronList, CronDeactivate, Tick, Crash, Procs,
       AdminReject, ActCommit, AccountingInvoice, DeleteAccount

LEMMA CheckoutWriters ==
  ASSUME [Next]_vars
  PROVE  \/ UNCHANGED checkout /\ owed' \subseteq owed
         \/ \E r \in Requests : ReqSession(r)
         \/ \E k \in Intents : AttemptFails(k)
         \/ \E k \in Intents :
              \E c \in {intent[k].requested, intent[k].requested - 1, Unstated} : Pay(k, c)
<1> DEFINE Quiet == UNCHANGED checkout /\ owed' \subseteq owed
<1>1. ASSUME NEW r \in Requests,
             \/ ReqInvoice(r) \/ ReqFind(r) \/ ReqCreate(r)
             \/ \E kind \in {"upgrade", "checkout"}, t \in Tiers : ReqRead(r, kind, t)
      PROVE  Quiet
  BY <1>1 DEF ReqInvoice, ReqFind, ReqCreate, ReqRead
<1>2. ASSUME NEW e \in owed, HookDuplicate(e) \/ \E h \in Hooks : HookReceive(h, e)
      PROVE  Quiet
  BY <1>2 DEF HookDuplicate, HookReceive
<1>3. ASSUME NEW p, HookWork(p) \/ AdminWork(p)
      PROVE  Quiet
  BY <1>3 DEF HookWork, HookSettle, HookFail, HookMark, AdminWork, AdminReject, AdminSetStatus,
              ActReadSub, ActReadInvoice, ActCommit
<1>4. ASSUME NEW p, AdminStart(p)
      PROVE  Quiet
  BY <1>4 DEF AdminStart, AdminInvoice, AdminActivate, AdminReadStatus
<1>5. ASSUME \/ AccountingInvoice \/ AdminDeactivate \/ CronList \/ CronDeactivate
             \/ DeleteAccount \/ Tick \/ Crash \/ UNCHANGED vars
      PROVE  Quiet
  BY <1>5 DEF AccountingInvoice, AdminDeactivate, CronList, CronDeactivate, DeleteAccount, Tick,
              Crash, vars
<1> QED
  BY <1>1, <1>2, <1>3, <1>4, <1>5 DEF Next, ReqWork

LEMMA ReqWriters ==
  ASSUME [Next]_vars
  PROVE  \/ UNCHANGED req
         \/ \E r \in Requests : ReqWork(r)
         \/ \E r \in Requests, kind \in {"upgrade", "checkout"}, t \in Tiers : ReqRead(r, kind, t)
         \/ Crash
BY DEF Next, vars, rows, AttemptFails, Pay,
       HookDuplicate, HookReceive, HookWork, HookSettle, HookFail, HookMark, AdminStart,
       AdminInvoice, AdminActivate, AdminReadStatus, AdminSetStatus, AdminWork, AdminDeactivate,
       ActReadSub, ActReadInvoice, CronList, CronDeactivate, Tick, Procs,
       AdminReject, ActCommit, AccountingInvoice, DeleteAccount

LEMMA ActWriters ==
  ASSUME [Next]_vars
  PROVE  \/ UNCHANGED act
         \/ \E h \in Hooks, e \in owed : HookReceive(h, e)
         \/ \E h \in Hooks : HookSettle(h) \/ HookFail(h) \/ HookMark(h)
         \/ \E p \in Procs : ActReadSub(p) \/ ActReadInvoice(p) \/ ActCommit(p)
         \/ \E p \in Admins : AdminStart(p) \/ AdminReject(p) \/ AdminSetStatus(p)
         \/ Crash
BY DEF Next, vars, rows, ReqWork, ReqRead, ReqFind, ReqInvoice, ReqCreate, ReqSession,
       AttemptFails, Pay, HookDuplicate, HookWork, AdminWork, AdminDeactivate,
       CronList, CronDeactivate, Tick, Procs, AccountingInvoice, DeleteAccount

-----------------------------------------------------------------------------
(* What a step may do to the rows.                                           *)

\* requestUpgrade and createCheckout rewrite the invoice that was pending when
\* they read it, and never its status; a new one takes a free row.
LEMMA ReqInvoiceEffect ==
  ASSUME TypeOK, ReqOK, NEW r \in Requests, ReqInvoice(r)
  PROVE  /\ invoice' \in [Invoices -> InvoiceRow]
         /\ \A j \in Invoices :
              \/ invoice'[j].status = invoice[j].status
              \/ invoice[j].status = "ABSENT" /\ invoice'[j].status = "PENDING"
<1>1. invoice \in [Invoices -> InvoiceRow] /\ \A i \in Invoices : invoice[i] \in InvoiceRow
  BY DEF TypeOK, InvoiceRow
<1> DEFINE x == req[r]
           i == IF x.inv = None THEN NextInvoice ELSE x.inv
           provider == IF x.kind = "checkout" THEN "SASPAY" ELSE invoice[i].provider
<1>2. /\ i # None /\ x.tier \in Tiers
      /\ invoice' = [invoice EXCEPT ![i].tier = x.tier, ![i].provider = provider,
                                    ![i].status = IF x.inv = None THEN "PENDING" ELSE @]
  BY DEF ReqInvoice, ReqOK, GoodReq
<1>3. i \in Invoices /\ (x.inv = None => invoice[i].status = "ABSENT")
  <2>1. x.inv \in Invoices \cup {None}
    BY DEF TypeOK, ReqState
  <2> QED
    BY <1>2, <2>1, PicksARow
<1>4. invoice[i] \in InvoiceRow /\ provider \in {"MANUAL", "SASPAY"}
  BY <1>1, <1>3 DEF InvoiceRow
<1> HIDE DEF i, provider, x
<1> DEFINE f == [invoice EXCEPT ![i].tier = x.tier]
<1>5. /\ f = [invoice EXCEPT ![i].tier = x.tier]
      /\ invoice' = [f EXCEPT ![i].provider = provider,
                              ![i].status = IF x.inv = None THEN "PENDING" ELSE @]
  BY <1>2
<1> HIDE DEF f
<1>6. /\ f \in [Invoices -> InvoiceRow] /\ f[i].status = invoice[i].status
      /\ \A j \in Invoices : j # i => f[j] = invoice[j]
  BY <1>1, <1>2, <1>3, <1>4, <1>5 DEF InvoiceRow
<1> DEFINE g == [f EXCEPT ![i].provider = provider]
           v == IF x.inv = None THEN "PENDING" ELSE g[i].status
<1>7. invoice' = [g EXCEPT ![i].status = v]
  BY <1>5
<1>8. /\ g \in [Invoices -> InvoiceRow] /\ g[i].status = invoice[i].status
      /\ \A j \in Invoices : j # i => g[j] = invoice[j]
  BY <1>3, <1>4, <1>6 DEF InvoiceRow
<1> HIDE DEF g
<1>9. v \in {"ABSENT", "PENDING", "PAID", "FAILED"}
      /\ (v = invoice[i].status \/ (invoice[i].status = "ABSENT" /\ v = "PENDING"))
  BY <1>3, <1>8 DEF InvoiceRow
<1> HIDE DEF v
<1>10. /\ invoice' \in [Invoices -> InvoiceRow]
       /\ invoice'[i].status = v
       /\ \A j \in Invoices : j # i => invoice'[j] = invoice[j]
  BY <1>3, <1>7, <1>8, <1>9 DEF InvoiceRow
<1> QED
  BY <1>3, <1>9, <1>10

\* The invoices: typed, and once settled never rewritten to another status.
LEMMA InvoiceStep ==
  ASSUME TypeOK, ReqOK, [Next]_vars
  PROVE  /\ invoice' \in [Invoices -> InvoiceRow]
         /\ \A i \in Invoices :
              invoice[i].status \in {"PAID", "FAILED"} => invoice'[i].status = invoice[i].status
<1>1. invoice \in [Invoices -> InvoiceRow]
  BY DEF TypeOK, InvoiceRow
<1>2. \A i \in Invoices : invoice[i] \in InvoiceRow
  BY <1>1
<1>3. CASE UNCHANGED invoice
  BY <1>1, <1>3
<1>4. ASSUME NEW r \in Requests, ReqInvoice(r)
      PROVE  /\ invoice' \in [Invoices -> InvoiceRow]
             /\ \A i \in Invoices :
                  invoice[i].status \in {"PAID", "FAILED"} => invoice'[i].status = invoice[i].status
  BY <1>4, ReqInvoiceEffect
<1>5. CASE AccountingInvoice
  BY <1>1, <1>2, <1>5, PicksARow DEF AccountingInvoice, InvoiceRow
<1>6. CASE DeleteAccount
  BY <1>1, <1>2, <1>6 DEF DeleteAccount, InvoiceRow, PendingInvoices
<1>7. ASSUME NEW p \in Procs, AdminReject(p)
      PROVE  /\ invoice' \in [Invoices -> InvoiceRow]
             /\ \A i \in Invoices :
                  invoice[i].status \in {"PAID", "FAILED"} => invoice'[i].status = invoice[i].status
  <2> DEFINE j == act[p].inv
             status == IF invoice[j].status = "PENDING" THEN "FAILED" ELSE invoice[j].status
  <2>1. invoice' = [invoice EXCEPT ![j].status = status]
    BY <1>7 DEF AdminReject
  <2>2. j \in Invoices => status \in {"ABSENT", "PENDING", "PAID", "FAILED"}
    BY <1>2 DEF InvoiceRow
  <2>3. /\ invoice' \in [Invoices -> InvoiceRow]
        /\ \A i \in Invoices : i # j => invoice'[i] = invoice[i]
        /\ j \in Invoices => invoice'[j].status = status
    <3> HIDE DEF status, j
    <3> QED
      BY <1>1, <1>2, <2>1, <2>2 DEF InvoiceRow
  <2> QED
    BY <2>3
<1>8. ASSUME NEW p \in Procs, ActCommit(p)
      PROVE  /\ invoice' \in [Invoices -> InvoiceRow]
             /\ \A i \in Invoices :
                  invoice[i].status \in {"PAID", "FAILED"} => invoice'[i].status = invoice[i].status
  <2>1. \A i : Claimed(i) \subseteq PendingInvoices
    BY DEF Claimed
  <2> QED
    BY <1>1, <1>2, <1>8, <2>1 DEF ActCommit, InvoiceRow, PendingInvoices
<1> QED
  BY <1>3, <1>4, <1>5, <1>6, <1>7, <1>8, InvoiceWriters

\* The intents: what was created keeps its invoice and its amount, and a success
\* of a session that was opened is never taken back.
IntentsKeep ==
  \A k \in Intents :
    /\ intent[k].status # "ABSENT" =>
         /\ intent'[k].status # "ABSENT"
         /\ intent'[k].inv = intent[k].inv /\ intent'[k].requested = intent[k].requested
    /\ intent[k].status = "SUCCESS" /\ checkout[k].state # "none" =>
         intent'[k].status = "SUCCESS"
    /\ intent'[k].status # "ABSENT" => intent'[k].inv \in Invoices /\ intent'[k].requested \in Tiers

LEMMA IntentStep ==
  ASSUME TypeOK, ReqOK, IntentOK, ActOK, [Next]_vars
  PROVE  intent' \in [Intents -> IntentRow] /\ IntentsKeep
<1>1. /\ intent \in [Intents -> IntentRow]
      /\ \A k \in Intents : intent[k] \in IntentRow
      /\ \A k \in Intents : intent[k].status # "ABSENT" =>
           intent[k].inv \in Invoices /\ intent[k].requested \in Tiers
  BY DEF TypeOK, IntentRow, IntentOK
<1>2. CASE UNCHANGED intent
  BY <1>1, <1>2 DEF IntentsKeep
<1>3. ASSUME NEW r \in Requests, ReqCreate(r)
      PROVE  intent' \in [Intents -> IntentRow] /\ IntentsKeep
  <2> DEFINE k == NextIntent
             row == [status |-> "PENDING", inv |-> req[r].inv, requested |-> req[r].tier,
                     url |-> FALSE, activated |-> FALSE]
  <2>1. k \in Intents /\ intent[k].status = "ABSENT"
    BY <1>3, PicksARow DEF ReqCreate
  <2>2. req[r].inv \in Invoices /\ req[r].tier \in Tiers
    BY <1>3 DEF ReqCreate, ReqOK, GoodReq
  <2>3. intent' = [intent EXCEPT ![k] = row]
    BY <1>3 DEF ReqCreate
  <2>4. row \in IntentRow
    BY <2>2 DEF IntentRow
  <2> HIDE DEF k
  <2>5. /\ intent'[k].status = "PENDING" /\ intent'[k].inv \in Invoices
        /\ intent'[k].requested \in Tiers
    BY <1>1, <2>1, <2>2, <2>3
  <2> HIDE DEF row
  <2>6. intent' \in [Intents -> IntentRow] /\ \A j \in Intents : j # k => intent'[j] = intent[j]
    BY <1>1, <2>1, <2>3, <2>4
  <2> QED
    BY <1>1, <2>1, <2>5, <2>6 DEF IntentsKeep
<1>4. ASSUME NEW r \in Requests, ReqSession(r)
      PROVE  intent' \in [Intents -> IntentRow] /\ IntentsKeep
  <2> DEFINE k == req[r].intent
  <2>1. k \in Intents /\ intent[k].status # "ABSENT" /\ checkout[k].state = "none"
    BY <1>4 DEF ReqSession, ReqOK, GoodReq
  <2>2. \/ intent' = [intent EXCEPT ![k].url = TRUE]
        \/ intent' = [intent EXCEPT ![k].status = "FAILED"]
    BY <1>4 DEF ReqSession
  <2> HIDE DEF k
  <2>3. CASE intent' = [intent EXCEPT ![k].url = TRUE]
    BY <1>1, <2>1, <2>3 DEF IntentsKeep, IntentRow
  <2>4. CASE intent' = [intent EXCEPT ![k].status = "FAILED"]
    BY <1>1, <2>1, <2>4 DEF IntentsKeep, IntentRow
  <2> QED
    BY <2>2, <2>3, <2>4
<1>5. ASSUME NEW h \in Hooks, HookSettle(h) \/ HookFail(h) \/ HookMark(h)
      PROVE  intent' \in [Intents -> IntentRow] /\ IntentsKeep
  <2> DEFINE k == act[h].intent
  <2>1. k \in Intents /\ checkout[k].state # "none"
    BY <1>5 DEF HookSettle, HookFail, HookMark, ActOK, GoodHook
  <2>2. intent[k].status # "ABSENT"
    BY <2>1 DEF IntentOK
  <2>3. \/ intent' = [intent EXCEPT ![k].status = "SUCCESS"]
        \/ intent' = [intent EXCEPT ![k].status = IF Failable(k) THEN "FAILED" ELSE @]
        \/ intent' = [intent EXCEPT ![k].activated = TRUE]
    BY <1>5 DEF HookSettle, HookFail, HookMark
  <2> HIDE DEF k
  <2>4. CASE intent' = [intent EXCEPT ![k].status = "SUCCESS"]
    BY <1>1, <2>1, <2>2, <2>4 DEF IntentsKeep, IntentRow
  <2>5. CASE intent' = [intent EXCEPT ![k].status = IF Failable(k) THEN "FAILED" ELSE @]
    <3>1. CASE intent' = [intent EXCEPT ![k].status = "FAILED"] /\ intent[k].status = "PENDING"
      BY <1>1, <2>1, <2>2, <3>1 DEF IntentsKeep, IntentRow
    <3>2. CASE intent' = intent
      BY <1>1, <3>2 DEF IntentsKeep
    <3>3. CASE Failable(k)
      BY <2>5, <3>1, <3>3 DEF Failable
    <3>4. CASE ~Failable(k)
      BY <1>1, <2>1, <2>5, <3>2, <3>4 DEF IntentRow
    <3> QED
      BY <3>3, <3>4
  <2>6. CASE intent' = [intent EXCEPT ![k].activated = TRUE]
    BY <1>1, <2>1, <2>2, <2>6 DEF IntentsKeep, IntentRow
  <2> QED
    BY <2>3, <2>4, <2>5, <2>6
<1> QED
  BY <1>2, <1>3, <1>4, <1>5, IntentWriters

\* The checkout sessions: an opened session stays known, a payment is final.
CheckoutsKeep ==
  \A k \in Intents :
    /\ checkout[k].state # "none" => checkout'[k].state # "none"
    /\ checkout[k].state = "paid" => checkout'[k] = checkout[k]
    /\ checkout[k].state = "none" /\ checkout'[k].state # "none" =>
         \E r \in Requests : ReqSession(r) /\ req[r].intent = k

LEMMA CheckoutStep ==
  ASSUME TypeOK, ReqOK, IntentOK, OwedOK, [Next]_vars
  PROVE  /\ checkout' \in [Intents -> CheckoutRow] /\ CheckoutsKeep
         /\ owed' \subseteq Event /\ OwedOK'
<1>1. /\ checkout \in [Intents -> CheckoutRow] /\ owed \subseteq Event
      /\ \A k \in Intents : checkout[k] \in CheckoutRow
  BY DEF TypeOK, CheckoutRow, Event
<1>2. ASSUME owed' \subseteq owed, CheckoutsKeep PROVE owed' \subseteq Event /\ OwedOK'
  BY <1>1, <1>2 DEF OwedOK, CheckoutsKeep, Event
<1>3. CASE UNCHANGED checkout /\ owed' \subseteq owed
  BY <1>1, <1>2, <1>3 DEF CheckoutsKeep
<1>4. ASSUME NEW r \in Requests, ReqSession(r)
      PROVE  /\ checkout' \in [Intents -> CheckoutRow] /\ CheckoutsKeep
             /\ owed' \subseteq owed
  <2> DEFINE k == req[r].intent
  <2>1. k \in Intents /\ checkout[k].state = "none"
    BY <1>4 DEF ReqSession, ReqOK, GoodReq
  <2>2. owed' = owed /\ \/ checkout' = [checkout EXCEPT ![k].state = "open"]
                        \/ checkout' = checkout
    BY <1>4 DEF ReqSession
  <2>3. \A j \in Intents : j # k => checkout'[j] = checkout[j]
    BY <1>1, <2>1, <2>2
  <2>4. checkout' \in [Intents -> CheckoutRow]
    BY <1>1, <2>1, <2>2 DEF CheckoutRow
  <2> QED
    BY <1>4, <2>1, <2>2, <2>3, <2>4 DEF CheckoutsKeep
<1>5. ASSUME NEW k \in Intents, AttemptFails(k)
      PROVE  /\ checkout' \in [Intents -> CheckoutRow] /\ CheckoutsKeep
             /\ owed' \subseteq Event /\ OwedOK'
  <2>1. /\ checkout[k].state = "open" /\ checkout' = [checkout EXCEPT ![k].state = "failed"]
        /\ owed' = owed \cup {[intent |-> k, kind |-> "failed"]}
    BY <1>5 DEF AttemptFails
  <2>2. /\ checkout' \in [Intents -> CheckoutRow] /\ checkout'[k].state = "failed"
        /\ \A j \in Intents : j # k => checkout'[j] = checkout[j]
    BY <1>1, <2>1 DEF CheckoutRow
  <2>3. CheckoutsKeep
    BY <2>1, <2>2 DEF CheckoutsKeep
  <2>4. owed' \subseteq Event
    BY <1>1, <2>1 DEF Event
  <2>5. OwedOK'
    BY <1>1, <2>1, <2>2 DEF OwedOK, Event
  <2> QED
    BY <2>2, <2>3, <2>4, <2>5
<1>6. ASSUME NEW k \in Intents,
             NEW charged \in {intent[k].requested, intent[k].requested - 1, Unstated},
             Pay(k, charged)
      PROVE  /\ checkout' \in [Intents -> CheckoutRow] /\ CheckoutsKeep
             /\ owed' \subseteq Event /\ OwedOK'
  <2>1. /\ checkout[k].state \in {"open", "failed"}
        /\ checkout' = [checkout EXCEPT ![k] = [state |-> "paid", charged |-> charged]]
        /\ owed' = owed \cup {[intent |-> k, kind |-> "success"]}
    BY <1>6 DEF Pay
  <2>2. charged \in Nat \cup {Unstated}
    <3>1. intent[k].requested \in Tiers
      BY <2>1 DEF IntentOK
    <3>2. intent[k].requested \in Nat \ {0}
      BY <3>1, BillingAssumption
    <3> QED
      BY <1>6, <3>2
  <2>3. /\ checkout' \in [Intents -> CheckoutRow] /\ checkout'[k].state = "paid"
        /\ \A j \in Intents : j # k => checkout'[j] = checkout[j]
    BY <1>1, <2>1, <2>2 DEF CheckoutRow
  <2>4. CheckoutsKeep
    BY <2>1, <2>3 DEF CheckoutsKeep
  <2>5. owed' \subseteq Event
    BY <1>1, <2>1 DEF Event
  <2>6. OwedOK'
    BY <1>1, <2>1, <2>3 DEF OwedOK, Event
  <2> QED
    BY <2>3, <2>4, <2>5, <2>6
<1> QED
  BY <1>2, <1>3, <1>4, <1>5, <1>6, CheckoutWriters

-----------------------------------------------------------------------------
(* Requests.                                                                 *)

LEMMA IdleReqType == IdleReq \in ReqState /\ IdleReq.pc = "idle"
  BY DEF IdleReq, ReqState

\* A request that does not move keeps what it holds.
LEMMA OtherReq ==
  ASSUME TypeOK, ReqOK, IntentOK, ActOK, IntentsKeep, CheckoutsKeep,
         NEW s \in Requests, req'[s] = req[s]
  PROVE  GoodReq(req'[s], intent', checkout')
<1> DEFINE x == req[s]
<1>1. GoodReq(x, intent, checkout) /\ x \in ReqState
  BY DEF ReqOK, TypeOK
<1>2. ASSUME x.pc = "session"
      PROVE  /\ intent'[x.intent].status # "ABSENT"
             /\ checkout'[x.intent].state = "none"
  <2>1. /\ x.intent \in Intents /\ intent[x.intent].status # "ABSENT"
        /\ checkout[x.intent].state = "none"
    BY <1>1, <1>2 DEF GoodReq
  <2>2. ASSUME NEW r \in Requests, ReqSession(r), req[r].intent = x.intent PROVE FALSE
    <3>1. r \in Sessions /\ s \in Sessions /\ req' = [req EXCEPT ![r] = IdleReq]
      BY <1>2, <2>2 DEF ReqSession, Sessions, ReqSet
    <3>2. r = s
      BY <2>2, <3>1 DEF ReqOK
    <3>3. req'[s] = IdleReq
      BY <3>1, <3>2 DEF TypeOK
    <3> QED
      BY <1>2, <3>3, IdleReqType
  <2> QED
    BY <2>1, <2>2 DEF IntentsKeep, CheckoutsKeep
<1> QED
  BY <1>1, <1>2 DEF GoodReq

\* One request moves to x.
LEMMA ReqMoves ==
  ASSUME TypeOK, ReqOK, IntentOK, ActOK, IntentsKeep, CheckoutsKeep,
         NEW r \in Requests, NEW x \in ReqState, ReqSet(r, x),
         GoodReq(x, intent', checkout'),
         x.pc = "session" => x.intent \in Intents /\ intent[x.intent].status = "ABSENT"
  PROVE  req' \in [Requests -> ReqState] /\ ReqOK'
<1>1. /\ req' \in [Requests -> ReqState] /\ req'[r] = x
      /\ \A s \in Requests : s # r => req'[s] = req[s]
  BY DEF TypeOK, ReqSet
<1>2. \A s \in Requests : GoodReq(req'[s], intent', checkout')
  BY <1>1, OtherReq
<1>3. \A s \in Sessions : intent[req[s].intent].status # "ABSENT"
  BY DEF Sessions, ReqOK, GoodReq
<1>4. \A s \in Sessions' : s # r => s \in Sessions /\ req'[s].intent = req[s].intent
  BY <1>1 DEF Sessions
<1>5. r \in Sessions' => intent[req'[r].intent].status = "ABSENT"
  BY <1>1 DEF Sessions
<1>6. ASSUME NEW a \in Sessions', NEW b \in Sessions', a # b
      PROVE  req'[a].intent # req'[b].intent
  BY <1>3, <1>4, <1>5, <1>6 DEF ReqOK
<1> QED
  BY <1>1, <1>2, <1>6 DEF ReqOK

LEMMA ReqStep ==
  ASSUME TypeOK, ReqOK, IntentOK, ActOK, IntentsKeep, CheckoutsKeep, [Next]_vars
  PROVE  req' \in [Requests -> ReqState] /\ ReqOK'
<1>1. /\ req \in [Requests -> ReqState]
      /\ \A r \in Requests : req[r] \in ReqState /\ GoodReq(req[r], intent, checkout)
  BY DEF TypeOK, ReqOK
<1> USE IdleReqType
<1> DEFINE Goal == req' \in [Requests -> ReqState] /\ ReqOK'
<1>2. CASE UNCHANGED req
  <2>1. \A s \in Requests : GoodReq(req'[s], intent', checkout')
    BY <1>2, OtherReq
  <2>2. Sessions' = Sessions
    BY <1>2 DEF Sessions
  <2> QED
    BY <1>1, <1>2, <2>1, <2>2 DEF ReqOK
<1>3. ASSUME NEW r \in Requests, ReqSet(r, IdleReq) PROVE Goal
  BY <1>3, ReqMoves DEF GoodReq
<1>4. ASSUME NEW r \in Requests, NEW kind \in {"upgrade", "checkout"}, NEW t \in Tiers,
             ReqRead(r, kind, t)
      PROVE  Goal
  <2> DEFINE x == [IdleReq EXCEPT !.pc = "invoice", !.kind = kind, !.tier = t,
                                  !.inv = LatestPending]
  <2>1. LatestPending \in Invoices \cup {None}
    BY PicksARow DEF PendingInvoices
  <2>2. x \in ReqState /\ x.pc = "invoice" /\ x.tier = t
    BY <2>1 DEF ReqState
  <2>3. ReqSet(r, x)
    BY <1>4 DEF ReqRead
  <2> HIDE DEF x
  <2>4. GoodReq(x, intent', checkout')
    BY <2>2 DEF GoodReq
  <2> QED
    BY <2>2, <2>3, <2>4, ReqMoves
<1>5. ASSUME NEW r \in Requests, ReqInvoice(r) PROVE Goal
  <2> DEFINE i == IF req[r].inv = None THEN NextInvoice ELSE req[r].inv
             x == [req[r] EXCEPT !.pc = "find", !.inv = i]
  <2>1. /\ i # None /\ req[r].pc = "invoice"
        /\ ReqSet(r, IdleReq) \/ ReqSet(r, x)
    BY <1>5 DEF ReqInvoice
  <2>2. i \in Invoices
    BY <1>1, <2>1, PicksARow DEF ReqState
  <2> HIDE DEF i
  <2>3. x \in ReqState /\ x.pc = "find" /\ x.tier = req[r].tier /\ x.inv = i
    BY <1>1, <2>2 DEF ReqState
  <2>4. req[r].tier \in Tiers
    BY <1>1, <2>1 DEF GoodReq
  <2> HIDE DEF x
  <2>5. GoodReq(x, intent', checkout')
    BY <2>2, <2>3, <2>4 DEF GoodReq
  <2>6. CASE ReqSet(r, x)
    BY <2>3, <2>5, <2>6, ReqMoves
  <2> QED
    BY <1>3, <2>1, <2>6
<1>6. ASSUME NEW r \in Requests, ReqFind(r) PROVE Goal
  <2> DEFINE x == [req[r] EXCEPT !.pc = "create"]
  <2>1. /\ req[r].pc = "find"
        /\ ReqSet(r, IdleReq) \/ ReqSet(r, x)
    BY <1>6 DEF ReqFind
  <2>2. x \in ReqState /\ x.pc = "create" /\ x.tier = req[r].tier /\ x.inv = req[r].inv
    BY <1>1 DEF ReqState
  <2>3. req[r].tier \in Tiers /\ req[r].inv \in Invoices
    BY <1>1, <2>1 DEF GoodReq
  <2> HIDE DEF x
  <2>4. GoodReq(x, intent', checkout')
    BY <2>2, <2>3 DEF GoodReq
  <2>5. CASE ReqSet(r, x)
    BY <2>2, <2>4, <2>5, ReqMoves
  <2> QED
    BY <1>3, <2>1, <2>5
<1>7. ASSUME NEW r \in Requests, ReqCreate(r) PROVE Goal
  <2> DEFINE k == NextIntent
             x == [req[r] EXCEPT !.pc = "session", !.intent = k]
  <2>1. /\ req[r].pc = "create" /\ k \in Intents /\ intent[k].status = "ABSENT"
        /\ ReqSet(r, x) /\ checkout' = checkout
        /\ intent' = [intent EXCEPT ![k] =
                       [status |-> "PENDING", inv |-> req[r].inv, requested |-> req[r].tier,
                        url |-> FALSE, activated |-> FALSE]]
    BY <1>7, PicksARow DEF ReqCreate
  <2> HIDE DEF k
  <2>2. intent'[k].status = "PENDING"
    BY <2>1 DEF TypeOK
  <2>3. checkout[k].state = "none"
    BY <2>1 DEF IntentOK
  <2>4. /\ x \in ReqState /\ x.pc = "session" /\ x.tier = req[r].tier /\ x.inv = req[r].inv
        /\ x.intent = k
    BY <1>1, <2>1 DEF ReqState
  <2>5. req[r].tier \in Tiers /\ req[r].inv \in Invoices
    BY <1>1, <2>1 DEF GoodReq
  <2> HIDE DEF x
  <2>6. GoodReq(x, intent', checkout')
    BY <2>1, <2>2, <2>3, <2>4, <2>5 DEF GoodReq
  <2> QED
    BY <2>1, <2>4, <2>6, ReqMoves
<1>8. ASSUME NEW r \in Requests, ReqSession(r) PROVE Goal
  BY <1>3, <1>8 DEF ReqSession
<1>9. CASE Crash
  <2>1. /\ req' \in [Requests -> ReqState]
        /\ \A r \in Requests : req'[r].pc = "idle"
    BY <1>9 DEF Crash
  <2> QED
    BY <2>1 DEF ReqOK, GoodReq, Sessions
<1> QED
  BY <1>2, <1>4, <1>5, <1>6, <1>7, <1>8, <1>9, ReqWriters DEF ReqWork

-----------------------------------------------------------------------------
(* Deliveries and administrators.                                            *)

Keeps ==
  /\ IntentsKeep /\ CheckoutsKeep
  /\ \A i \in Invoices :
       invoice[i].status \in {"PAID", "FAILED"} => invoice'[i].status = invoice[i].status

LEMMA IntentOKStep ==
  ASSUME ReqOK, IntentOK, IntentsKeep, CheckoutsKeep
  PROVE  IntentOK'
<1>1. ASSUME NEW k \in Intents, checkout'[k].state # "none" PROVE intent'[k].status # "ABSENT"
  <2>1. intent[k].status # "ABSENT"
    <3>1. CASE checkout[k].state # "none"
      BY <3>1 DEF IntentOK
    <3>2. CASE checkout[k].state = "none"
      <4>1. PICK r \in Requests : ReqSession(r) /\ req[r].intent = k
        BY <1>1, <3>2 DEF CheckoutsKeep
      <4>2. req[r].pc = "session"
        BY <4>1 DEF ReqSession
      <4> QED
        BY <4>1, <4>2 DEF ReqOK, GoodReq
    <3> QED
      BY <3>1, <3>2
  <2> QED
    BY <2>1 DEF IntentsKeep
<1> QED
  BY <1>1 DEF IntentOK, IntentsKeep

\* A payment that is accepted for its intent goes on being so.
LEMMA PaidStays ==
  ASSUME IntentOK, IntentsKeep, CheckoutsKeep, NEW k \in Intents, Paid(k, intent, checkout)
  PROVE  Paid(k, intent', checkout')
<1>1. checkout[k].state = "paid" /\ intent[k].status # "ABSENT"
  BY DEF Paid, IntentOK
<1>2. checkout'[k] = checkout[k] /\ intent'[k].requested = intent[k].requested
  BY <1>1 DEF IntentsKeep, CheckoutsKeep
<1> QED
  BY <1>2 DEF Paid

\* What a delivery holds is kept by every step.
LEMMA HookKept ==
  ASSUME IntentOK, Keeps, NEW x, GoodHook(x, invoice, intent, checkout)
  PROVE  GoodHook(x, invoice', intent', checkout')
<1> SUFFICES ASSUME x.pc # "idle" PROVE GoodHook(x, invoice', intent', checkout')
  BY DEF GoodHook
<1>1. /\ x.intent \in Intents /\ checkout[x.intent].state # "none"
      /\ intent[x.intent].status # "ABSENT" /\ intent[x.intent].inv \in Invoices
  BY DEF GoodHook, IntentOK
<1>2. /\ checkout'[x.intent].state # "none" /\ intent'[x.intent].inv = intent[x.intent].inv
      /\ intent[x.intent].status = "SUCCESS" => intent'[x.intent].status = "SUCCESS"
  BY <1>1 DEF Keeps, IntentsKeep, CheckoutsKeep
<1>3. Paid(x.intent, intent, checkout) => Paid(x.intent, intent', checkout')
  BY <1>1, PaidStays DEF Keeps
<1>4. x.pc = "mark" => invoice'[intent[x.intent].inv].status = "PAID"
  BY <1>1 DEF GoodHook, Keeps
<1> QED
  BY <1>1, <1>2, <1>3, <1>4 DEF GoodHook

\* One of them moves to x.
LEMMA ActMoves ==
  ASSUME TypeOK, IntentOK, ActOK, Keeps, NEW p \in Procs, NEW x \in ActState, ActSet(p, x),
         p \in Hooks => GoodHook(x, invoice', intent', checkout'),
         x.pc = "commit" => x.tier \in Tiers
  PROVE  act' \in [Procs -> ActState] /\ ActOK'
<1>1. /\ act' \in [Procs -> ActState] /\ act'[p] = x
      /\ \A q \in Procs : q # p => act'[q] = act[q]
  BY DEF TypeOK, ActSet
<1>2. \A q \in Hooks : GoodHook(act[q], invoice', intent', checkout')
  BY HookKept DEF ActOK
<1>3. \A q \in Hooks : GoodHook(act'[q], invoice', intent', checkout')
  BY <1>1, <1>2 DEF Procs
<1>4. \A q \in Procs : act'[q].pc = "commit" => act'[q].tier \in Tiers
  BY <1>1 DEF ActOK
<1> QED
  BY <1>1, <1>3, <1>4 DEF ActOK

LEMMA IdleActType == IdleAct \in ActState /\ IdleAct.pc = "idle"
  BY DEF IdleAct, ActState

LEMMA ActEnds ==
  ASSUME TypeOK, IntentOK, ActOK, Keeps, NEW p \in Procs, ActSet(p, IdleAct)
  PROVE  act' \in [Procs -> ActState] /\ ActOK'
<1>1. GoodHook(IdleAct, invoice', intent', checkout')
  BY IdleActType DEF GoodHook
<1> QED
  BY <1>1, IdleActType, ActMoves

\* The steps of a delivery before the activation.
LEMMA DeliverySteps ==
  ASSUME IInv, Keeps, NEW h \in Hooks,
         \/ \E e \in owed : HookReceive(h, e)
         \/ HookSettle(h) \/ HookFail(h) \/ HookMark(h)
  PROVE  act' \in [Procs -> ActState] /\ ActOK'
<1>1. /\ TypeOK /\ IntentOK /\ ActOK /\ OwedOK /\ h \in Procs /\ act[h] \in ActState
      /\ GoodHook(act[h], invoice, intent, checkout)
  BY DEF IInv, Procs, TypeOK, ActOK
<1> USE IdleActType
<1>2. ASSUME NEW e \in owed, HookReceive(h, e) PROVE act' \in [Procs -> ActState] /\ ActOK'
  <2> DEFINE k == e.intent
             pc == IF e.kind = "success" THEN "settle" ELSE "fail"
             x == [IdleAct EXCEPT !.pc = pc, !.intent = k, !.inv = intent[k].inv]
  <2>1. CASE UNCHANGED act
    <3>1. ActSet(h, act[h])
      BY <1>1, <2>1 DEF TypeOK, ActSet
    <3>2. GoodHook(act[h], invoice', intent', checkout')
      BY <1>1, HookKept
    <3>3. act[h].pc = "commit" => act[h].tier \in Tiers
      BY <1>1 DEF ActOK
    <3> QED
      BY <1>1, <3>1, <3>2, <3>3, ActMoves
  <2>2. CASE ~(e.kind = "success" /\ ~Accepted(k)) /\ ActSet(h, x)
    <3>1. k \in Intents /\ e.kind \in {"success", "failed"} /\ checkout[k].state # "none"
      BY <1>1 DEF TypeOK, OwedOK
    <3>2. intent[k].inv \in Invoices /\ intent[k].status # "ABSENT"
      BY <1>1, <3>1 DEF IntentOK
    <3>3. pc = "settle" => Paid(k, intent, checkout)
      BY <1>1, <2>2 DEF OwedOK, Accepted, Paid
    <3>4. pc \in {"settle", "fail"}
      OBVIOUS
    <3> HIDE DEF pc, k
    <3>5. /\ x \in ActState /\ x.pc = pc /\ x.intent = k /\ x.inv = intent[k].inv
      BY <3>1, <3>2, <3>4 DEF ActState
    <3> HIDE DEF x
    <3>6. GoodHook(x, invoice, intent, checkout)
      BY <3>1, <3>3, <3>4, <3>5 DEF GoodHook
    <3>7. GoodHook(x, invoice', intent', checkout')
      BY <1>1, <3>6, HookKept
    <3> QED
      BY <1>1, <2>2, <3>4, <3>5, <3>7, ActMoves
  <2> QED
    BY <1>2, <2>1, <2>2 DEF HookReceive
<1>3. CASE HookSettle(h)
  <2> DEFINE x == [act[h] EXCEPT !.pc = "readSub"]
             k == act[h].intent
  <2>1. /\ act[h].pc = "settle" /\ ActSet(h, x) /\ UNCHANGED <<checkout, invoice>>
        /\ intent' = [intent EXCEPT ![k].status = "SUCCESS"]
    BY <1>3 DEF HookSettle
  <2>2. /\ k \in Intents /\ checkout[k].state # "none" /\ Paid(k, intent, checkout)
        /\ act[h].inv = intent[k].inv
    BY <1>1, <2>1 DEF GoodHook
  <2>3. /\ intent'[k].status = "SUCCESS" /\ intent'[k].inv = intent[k].inv
        /\ Paid(k, intent', checkout')
    <3>1. intent[k] \in IntentRow
      BY <1>1, <2>2 DEF TypeOK, IntentRow
    <3>2. intent'[k] = [intent[k] EXCEPT !.status = "SUCCESS"]
      BY <1>1, <2>1, <2>2 DEF TypeOK
    <3>3. Paid(k, intent', checkout')
      BY <1>1, <2>2, PaidStays DEF Keeps
    <3> HIDE DEF k
    <3> QED
      BY <3>1, <3>2, <3>3 DEF IntentRow
  <2>4. x \in ActState /\ x.pc = "readSub" /\ x.intent = k /\ x.inv = act[h].inv
    BY <1>1 DEF ActState
  <2> HIDE DEF x, k
  <2>5. GoodHook(x, invoice', intent', checkout')
    BY <2>1, <2>2, <2>3, <2>4 DEF GoodHook
  <2> QED
    BY <1>1, <2>1, <2>4, <2>5, ActMoves
<1>4. CASE HookFail(h) \/ HookMark(h)
  BY <1>1, <1>4, ActEnds DEF HookFail, HookMark
<1> QED
  BY <1>2, <1>3, <1>4

\* The steps of the activation.
LEMMA ActivationSteps ==
  ASSUME IInv, Keeps, NEW p \in Procs, ActReadSub(p) \/ ActReadInvoice(p) \/ ActCommit(p)
  PROVE  act' \in [Procs -> ActState] /\ ActOK'
<1>1. /\ TypeOK /\ IntentOK /\ ActOK /\ act[p] \in ActState
      /\ p \in Hooks => GoodHook(act[p], invoice, intent, checkout)
      /\ p \in Hooks => GoodHook(act[p], invoice', intent', checkout')
  BY HookKept DEF IInv, TypeOK, ActOK
<1> USE IdleActType
<1>2. CASE ActReadSub(p)
  <2> DEFINE x == [act[p] EXCEPT !.pc = "readInvoice", !.tier = sub.tier, !.end = sub.end]
  <2>1. act[p].pc = "readSub" /\ ActSet(p, x)
    BY <1>2 DEF ActReadSub
  <2>2. sub.tier \in Tiers \cup {None} /\ sub.end \in Nat
    BY <1>1 DEF TypeOK
  <2>3. /\ x \in ActState /\ x.pc = "readInvoice" /\ x.intent = act[p].intent
        /\ x.inv = act[p].inv
    BY <1>1, <2>2 DEF ActState
  <2> HIDE DEF x
  <2>4. p \in Hooks => GoodHook(x, invoice', intent', checkout')
    BY <1>1, <2>1, <2>3 DEF GoodHook
  <2> QED
    BY <1>1, <2>1, <2>3, <2>4, ActMoves
<1>3. CASE ActReadInvoice(p)
  <2> DEFINE i == IF act[p].inv = None THEN LatestPending ELSE act[p].inv
             tier == IF i = None \/ invoice[i].tier = None THEN act[p].tier ELSE invoice[i].tier
             end == RenewedEnd(act[p].end)
             x == [act[p] EXCEPT !.pc = "commit", !.found = i, !.tier = tier, !.end = end]
  <2>1. /\ act[p].pc = "readInvoice"
        /\ ActSet(p, IdleAct) \/ (~Refused(tier) /\ ActSet(p, x))
    BY <1>3 DEF ActReadInvoice
  <2>2. i \in Invoices \cup {None}
    BY <1>1, PicksARow DEF ActState, PendingInvoices
  <2>3. tier \in Tiers \cup {None}
    <3>1. i # None => invoice[i].tier \in Tiers \cup {None}
      BY <1>1, <2>2 DEF TypeOK
    <3>2. act[p].tier \in Tiers \cup {None}
      BY <1>1 DEF ActState
    <3> HIDE DEF i
    <3> QED
      BY <3>1, <3>2
  <2>4. end \in Nat
    <3>1. act[p].end \in Nat /\ now \in Nat /\ Period \in Nat
      BY <1>1, BillingAssumption DEF TypeOK, ActState
    <3> QED
      BY <3>1 DEF RenewedEnd
  <2>5. act[p].inv # None => i = act[p].inv
    OBVIOUS
  <2>6. CASE ~Refused(tier) /\ ActSet(p, x)
    <3>1. tier \in Tiers
      BY <2>3, <2>6 DEF Refused
    <3> HIDE DEF i, tier, end
    <3>2. /\ x \in ActState /\ x.pc = "commit" /\ x.intent = act[p].intent
          /\ x.inv = act[p].inv /\ x.found = i /\ x.tier = tier
      BY <1>1, <2>2, <2>3, <2>4 DEF ActState
    <3> HIDE DEF x
    <3>3. ASSUME p \in Hooks PROVE GoodHook(x, invoice', intent', checkout')
      <4>1. /\ GoodHook(act[p], invoice', intent', checkout')
            /\ act[p].inv = intent[act[p].intent].inv /\ act[p].intent \in Intents
            /\ checkout[act[p].intent].state # "none"
        BY <1>1, <2>1, <3>3 DEF GoodHook
      <4>2. act[p].inv \in Invoices
        BY <1>1, <4>1 DEF IntentOK
      <4>3. act[p].inv # None
        BY <4>2, BillingAssumption DEF Invoices, None
      <4> QED
        BY <2>1, <2>5, <3>2, <4>1, <4>3 DEF GoodHook
    <3> QED
      BY <1>1, <2>6, <3>1, <3>2, <3>3, ActMoves
  <2> HIDE DEF x, tier
  <2> QED
    BY <1>1, <2>1, <2>6, ActEnds
<1>4. CASE ActCommit(p)
  <2> DEFINE i == act[p].found
             x == [IdleAct EXCEPT !.pc = "mark", !.intent = act[p].intent]
  <2>1. \/ ActSet(p, IdleAct)
        \/ /\ p \in Hooks /\ ~ClaimAborts(i) /\ ActSet(p, x)
           /\ invoice' = [j \in Invoices |->
                IF j \in Claimed(i) THEN [invoice[j] EXCEPT !.status = "PAID"] ELSE invoice[j]]
    BY <1>4 DEF ActCommit
  <2>2. CASE /\ p \in Hooks /\ ~ClaimAborts(i) /\ ActSet(p, x)
             /\ invoice' = [j \in Invoices |->
                  IF j \in Claimed(i) THEN [invoice[j] EXCEPT !.status = "PAID"] ELSE invoice[j]]
    <3>1. act[p].pc = "commit" /\ intent' = intent /\ checkout' = checkout
      BY <1>4 DEF ActCommit
    <3>2. /\ act[p].intent \in Intents /\ checkout[act[p].intent].state # "none"
          /\ Paid(act[p].intent, intent, checkout)
          /\ intent[act[p].intent].status = "SUCCESS"
          /\ i = intent[act[p].intent].inv
      BY <1>1, <2>2, <3>1 DEF GoodHook
    <3>3. i \in Invoices
      BY <1>1, <3>2 DEF IntentOK
    <3>4. i \in Claimed(i)
      <4>1. i # None
        BY <3>3, BillingAssumption DEF Invoices, None
      <4> QED
        BY <2>2, <4>1 DEF ClaimAborts, Claimed
    <3>5. invoice'[i].status = "PAID"
      <4>1. invoice[i] \in InvoiceRow
        BY <1>1, <3>3 DEF TypeOK, InvoiceRow
      <4>2. invoice'[i] = [invoice[i] EXCEPT !.status = "PAID"]
        BY <2>2, <3>3, <3>4
      <4> HIDE DEF i
      <4> QED
        BY <4>1, <4>2 DEF InvoiceRow
    <3>6. x \in ActState /\ x.pc = "mark" /\ x.intent = act[p].intent
      BY <1>1 DEF ActState
    <3> HIDE DEF x, i
    <3>7. GoodHook(x, invoice', intent', checkout')
      BY <3>1, <3>2, <3>5, <3>6 DEF GoodHook
    <3> QED
      BY <1>1, <2>2, <3>6, <3>7, ActMoves
  <2> QED
    BY <1>1, <2>1, <2>2, ActEnds
<1> QED
  BY <1>2, <1>3, <1>4

\* The steps of the administrators.
LEMMA AdminSteps ==
  ASSUME IInv, Keeps, NEW p \in Admins, AdminStart(p) \/ AdminReject(p) \/ AdminSetStatus(p)
  PROVE  act' \in [Procs -> ActState] /\ ActOK'
<1>1. /\ TypeOK /\ IntentOK /\ ActOK /\ p \in Procs /\ p \notin Hooks
  BY BillingAssumption DEF IInv, Procs
<1>2. CASE AdminStart(p)
  <2>1. PICK pc \in {"readSub", "reject", "status"}, i \in Invoices \cup {None} : Start(p, pc, i)
    BY <1>2 DEF AdminStart, AdminInvoice, AdminActivate, AdminReadStatus
  <2> DEFINE x == [IdleAct EXCEPT !.pc = pc, !.inv = i]
  <2>2. ActSet(p, x)
    BY <2>1 DEF Start
  <2>3. x \in ActState /\ x.pc = pc
    BY IdleActType DEF ActState
  <2> HIDE DEF x
  <2> QED
    BY <1>1, <2>2, <2>3, ActMoves
<1>3. CASE AdminReject(p) \/ AdminSetStatus(p)
  BY <1>1, <1>3, ActEnds DEF AdminReject, AdminSetStatus
<1> QED
  BY <1>2, <1>3

LEMMA ActStep ==
  ASSUME IInv, Keeps, [Next]_vars
  PROVE  act' \in [Procs -> ActState] /\ ActOK'
<1>1. /\ TypeOK /\ IntentOK /\ ActOK
  BY DEF IInv
<1>2. CASE UNCHANGED act
  <2>1. \A q \in Hooks : GoodHook(act[q], invoice', intent', checkout')
    BY <1>1, HookKept DEF ActOK
  <2> QED
    BY <1>1, <1>2, <2>1 DEF TypeOK, ActOK
<1>3. CASE Crash
  <2>1. act' = [p \in Procs |-> IdleAct]
    BY <1>3 DEF Crash
  <2> QED
    BY <2>1, IdleActType DEF ActOK, GoodHook, Procs
<1> QED
  BY <1>2, <1>3, ActWriters, DeliverySteps, ActivationSteps, AdminSteps

-----------------------------------------------------------------------------
(* The inductive invariant.                                                  *)

\* A period is only granted by a commit that was not aborted.
LEMMA SubWriters ==
  ASSUME [Next]_vars
  PROVE  \/ UNCHANGED sub
         \/ sub' = Deactivated
         \/ \E p \in Procs :
              /\ ActCommit(p) /\ ~ClaimAborts(act[p].found) /\ ~TenantAborts
              /\ sub' = [plan |-> "PRO", tier |-> act[p].tier, end |-> act[p].end]
              /\ invoice' = [j \in Invoices |->
                   IF j \in Claimed(act[p].found) THEN [invoice[j] EXCEPT !.status = "PAID"]
                                                  ELSE invoice[j]]
<1>1. \/ UNCHANGED sub
      \/ sub' = Deactivated
      \/ \E p \in Procs : ActCommit(p)
  BY DEF Next, vars, rows, ReqWork, ReqRead, ReqFind, ReqInvoice, ReqCreate, ReqSession,
         AttemptFails, Pay, HookDuplicate, HookReceive, HookWork, HookSettle, HookFail, HookMark,
         AdminStart, AdminInvoice, AdminActivate, AdminReadStatus, AdminSetStatus, AdminWork,
         AdminReject, AdminDeactivate, ActReadSub, ActReadInvoice, CronList, CronDeactivate,
         Tick, Crash, AccountingInvoice, DeleteAccount, Procs
<1>2. ASSUME NEW p \in Procs, ActCommit(p)
      PROVE  \/ UNCHANGED sub
             \/ /\ ~ClaimAborts(act[p].found) /\ ~TenantAborts
                /\ sub' = [plan |-> "PRO", tier |-> act[p].tier, end |-> act[p].end]
                /\ invoice' = [j \in Invoices |->
                     IF j \in Claimed(act[p].found) THEN [invoice[j] EXCEPT !.status = "PAID"]
                                                    ELSE invoice[j]]
  BY <1>2 DEF ActCommit
<1> QED
  BY <1>1, <1>2

LEMMA DataStep ==
  ASSUME TypeOK, ActOK, [Next]_vars
  PROVE  /\ now' \in 1..(MaxTime + 1)
         /\ tenant' \in {"ACTIVE", "SUSPENDED", "DELETED"}
         /\ \/ sub' \in [plan : {"PRO"}, tier : Tiers, end : Nat]
            \/ sub' \in [plan : {"FREE"}, tier : {None}, end : Nat]
         /\ cron' \in {"idle", "due"}
         /\ crashes' \in 0..MaxCrashes
<1>1. now \in 1..(MaxTime + 1) /\ MaxTime \in Nat /\ now \in Nat
  BY BillingAssumption DEF TypeOK
<1>2. now' \in 1..(MaxTime + 1)
  <2>1. now' = now \/ (now < MaxTime /\ now' = now + 1)
    BY DEF Next, vars, rows, ReqWork, ReqRead, ReqFind, ReqInvoice, ReqCreate, ReqSession,
           AttemptFails, Pay, HookDuplicate, HookReceive, HookWork, HookSettle, HookFail,
           HookMark, AdminStart, AdminInvoice, AdminActivate, AdminReadStatus, AdminSetStatus,
           AdminWork, AdminReject, AdminDeactivate, ActReadSub, ActReadInvoice, ActCommit,
           CronList, CronDeactivate, Tick, Crash, AccountingInvoice, DeleteAccount
  <2> QED
    BY <1>1, <2>1
<1>3. tenant' \in {"ACTIVE", "SUSPENDED", "DELETED"}
  <2>1. tenant' = tenant \/ tenant' \in {"ACTIVE", "SUSPENDED", "DELETED"}
    BY DEF Next, vars, rows, ReqWork, ReqRead, ReqFind, ReqInvoice, ReqCreate, ReqSession,
           AttemptFails, Pay, HookDuplicate, HookReceive, HookWork, HookSettle, HookFail,
           HookMark, AdminStart, AdminInvoice, AdminActivate, AdminReadStatus, AdminSetStatus,
           AdminWork, AdminReject, AdminDeactivate, ActReadSub, ActReadInvoice, ActCommit,
           CronList, CronDeactivate, Tick, Crash, AccountingInvoice, DeleteAccount
  <2> QED
    BY <2>1 DEF TypeOK
<1>4. cron' \in {"idle", "due"} /\ crashes' \in 0..MaxCrashes
  <2>1. cron' \in {cron, "idle", "due"}
        /\ (crashes' = crashes \/ (crashes < MaxCrashes /\ crashes' = crashes + 1))
    BY DEF Next, vars, rows, ReqWork, ReqRead, ReqFind, ReqInvoice, ReqCreate, ReqSession,
           AttemptFails, Pay, HookDuplicate, HookReceive, HookWork, HookSettle, HookFail,
           HookMark, AdminStart, AdminInvoice, AdminActivate, AdminReadStatus, AdminSetStatus,
           AdminWork, AdminReject, AdminDeactivate, ActReadSub, ActReadInvoice, ActCommit,
           CronList, CronDeactivate, Tick, Crash, AccountingInvoice, DeleteAccount
  <2> QED
    BY <2>1, BillingAssumption DEF TypeOK
<1>5. \/ sub' \in [plan : {"PRO"}, tier : Tiers, end : Nat]
      \/ sub' \in [plan : {"FREE"}, tier : {None}, end : Nat]
  <2>1. CASE UNCHANGED sub
    BY <2>1 DEF TypeOK
  <2>2. CASE sub' = Deactivated
    BY <1>1, <2>2 DEF Deactivated
  <2>3. ASSUME NEW p \in Procs, ActCommit(p),
               sub' = [plan |-> "PRO", tier |-> act[p].tier, end |-> act[p].end]
        PROVE  sub' \in [plan : {"PRO"}, tier : Tiers, end : Nat]
    <3>1. act[p].tier \in Tiers
      BY <2>3 DEF ActCommit, ActOK
    <3>2. act[p].end \in Nat
      BY DEF TypeOK, ActState
    <3> QED
      BY <2>3, <3>1, <3>2
  <2> QED
    BY <2>1, <2>2, <2>3, SubWriters
<1> QED
  BY <1>2, <1>3, <1>4, <1>5

LEMMA ActivatedStep ==
  ASSUME IInv, Keeps, [Next]_vars
  PROVE  ActivatedIsPaid'
<1> USE DEF IInv
<1>1. /\ \A k \in Intents : intent[k] \in IntentRow
      /\ \A k \in Intents : intent[k].status = "ABSENT" \/ intent[k].inv \in Invoices
  BY DEF TypeOK, IntentRow, IntentOK
<1>2. ASSUME NEW k \in Intents, intent[k].activated
      PROVE  /\ intent'[k].status = "SUCCESS"
             /\ invoice'[intent'[k].inv].status = "PAID"
             /\ Paid(k, intent', checkout')
  <2>1. /\ intent[k].status = "SUCCESS" /\ invoice[intent[k].inv].status = "PAID"
        /\ Paid(k, intent, checkout)
    BY <1>2 DEF ActivatedIsPaid, Paid
  <2>2. Paid(k, intent', checkout')
    BY <2>1, PaidStays DEF Keeps
  <2> QED
    BY <1>1, <2>1, <2>2 DEF Keeps, IntentsKeep, Paid
<1>3. ASSUME NEW h \in Hooks, HookMark(h), NEW k \in Intents, act[h].intent = k
      PROVE  /\ intent'[k].status = "SUCCESS"
             /\ invoice'[intent'[k].inv].status = "PAID"
             /\ Paid(k, intent', checkout')
  <2>1. /\ intent[k].status = "SUCCESS" /\ invoice[intent[k].inv].status = "PAID"
        /\ Paid(k, intent, checkout)
    BY <1>3 DEF HookMark, ActOK, GoodHook
  <2>2. Paid(k, intent', checkout')
    BY <2>1, PaidStays DEF Keeps
  <2> QED
    BY <1>1, <2>1, <2>2 DEF Keeps, IntentsKeep, Paid
<1>4. ASSUME NEW k \in Intents, intent'[k].activated, ~intent[k].activated
      PROVE  \E h \in Hooks : HookMark(h) /\ act[h].intent = k
  <2>1. intent \in [Intents -> IntentRow]
    BY DEF TypeOK, IntentRow
  <2>2. ~UNCHANGED intent
    BY <1>4
  <2>3. ASSUME NEW r \in Requests, ReqCreate(r) PROVE FALSE
    <3> DEFINE row == [status |-> "PENDING", inv |-> req[r].inv, requested |-> req[r].tier,
                       url |-> FALSE, activated |-> FALSE]
    <3>1. intent' = [intent EXCEPT ![NextIntent] = row] /\ ~row.activated
      BY <2>3 DEF ReqCreate
    <3> HIDE DEF row
    <3> QED
      BY <1>4, <2>1, <3>1
  <2>4. ASSUME NEW r \in Requests, ReqSession(r) PROVE FALSE
    BY <1>1, <1>4, <2>1, <2>4 DEF ReqSession, IntentRow
  <2>5. ASSUME NEW h \in Hooks, HookSettle(h) \/ HookFail(h) PROVE FALSE
    BY <1>1, <1>4, <2>1, <2>5 DEF HookSettle, HookFail, IntentRow
  <2>6. PICK h \in Hooks : HookMark(h)
    BY <2>2, <2>3, <2>4, <2>5, IntentWriters
  <2> QED
    BY <1>4, <2>1, <2>6 DEF HookMark
<1> QED
  BY <1>2, <1>3, <1>4 DEF ActivatedIsPaid, Paid

LEMMA KeepsStep == IInv /\ [Next]_vars => Keeps
  BY InvoiceStep, IntentStep, CheckoutStep DEF IInv, Keeps

LEMMA InvInit == Init => IInv
<1> SUFFICES ASSUME Init PROVE IInv
  OBVIOUS
<1>1. /\ invoice = [i \in Invoices |-> [status |-> "ABSENT", tier |-> None, provider |-> "MANUAL"]]
      /\ intent = [k \in Intents |-> [status |-> "ABSENT", inv |-> None, requested |-> 0,
                                      url |-> FALSE, activated |-> FALSE]]
      /\ checkout = [k \in Intents |-> [state |-> "none", charged |-> 0]]
      /\ owed = {} /\ req = [r \in Requests |-> IdleReq] /\ act = [p \in Procs |-> IdleAct]
  BY DEF Init
<1>2. TypeOK
  <2>1. /\ now \in 1..(MaxTime + 1) /\ tenant \in {"ACTIVE", "SUSPENDED", "DELETED"}
        /\ sub \in [plan : {"FREE"}, tier : {None}, end : Nat]
        /\ cron \in {"idle", "due"} /\ crashes \in 0..MaxCrashes
    BY BillingAssumption DEF Init
  <2>2. /\ invoice \in [Invoices -> InvoiceRow] /\ intent \in [Intents -> IntentRow]
        /\ checkout \in [Intents -> CheckoutRow]
    BY <1>1 DEF InvoiceRow, IntentRow, CheckoutRow
  <2>3. /\ req \in [Requests -> ReqState] /\ act \in [Procs -> ActState]
    BY <1>1, IdleReqType, IdleActType
  <2> QED
    BY <1>1, <2>1, <2>2, <2>3 DEF TypeOK, InvoiceRow, IntentRow, CheckoutRow
<1>3. ReqOK
  BY <1>1, IdleReqType DEF ReqOK, GoodReq, Sessions
<1>4. ActOK
  BY <1>1, IdleActType DEF ActOK, GoodHook, Procs
<1>5. IntentOK /\ OwedOK /\ ActivatedIsPaid
  BY <1>1 DEF IntentOK, OwedOK, ActivatedIsPaid
<1> QED
  BY <1>2, <1>3, <1>4, <1>5 DEF IInv

LEMMA InvStep == IInv /\ [Next]_vars => IInv'
<1> SUFFICES ASSUME IInv, [Next]_vars PROVE IInv'
  OBVIOUS
<1>1. Keeps
  BY KeepsStep
<1>2. /\ TypeOK /\ ReqOK /\ IntentOK /\ OwedOK /\ ActOK
      /\ IntentsKeep /\ CheckoutsKeep
  BY <1>1 DEF IInv, Keeps
<1>3. TypeOK'
  <2>1. /\ invoice' \in [Invoices -> InvoiceRow] /\ intent' \in [Intents -> IntentRow]
        /\ checkout' \in [Intents -> CheckoutRow] /\ owed' \subseteq Event
        /\ req' \in [Requests -> ReqState] /\ act' \in [Procs -> ActState]
    BY <1>1, <1>2, InvoiceStep, IntentStep, CheckoutStep, ReqStep, ActStep
  <2> QED
    BY <1>2, <2>1, DataStep DEF TypeOK, InvoiceRow, IntentRow, CheckoutRow, Event
<1> QED
  BY <1>1, <1>2, <1>3, IntentOKStep, CheckoutStep, ReqStep, ActStep, ActivatedStep DEF IInv

LEMMA InvAlways == Spec => []IInv
  BY InvInit, InvStep, PTL DEF Spec

-----------------------------------------------------------------------------
(* The theorems.                                                             *)

\* Types are kept; no step takes a row the tables do not have.
THEOREM TypeCorrect == Spec => []TypeOK
<1>1. IInv => TypeOK
  BY DEF IInv
<1> QED
  BY <1>1, InvAlways, PTL

\* An intent marked activated is a success whose invoice is paid and whose
\* stated charge covers what was requested, for good: no late event, second delivery,
\* rejection or deletion takes it back.
THEOREM ActivatedCorrect == Spec => []ActivatedIsPaid
<1>1. IInv => ActivatedIsPaid
  BY DEF IInv
<1> QED
  BY <1>1, InvAlways, PTL

\* A paid or failed invoice keeps its status.
THEOREM SettledCorrect == Spec => SettledOnce
<1>1. IInv /\ [Next]_vars =>
        [\A i \in Invoices :
           invoice[i].status \in {"PAID", "FAILED"} => invoice'[i].status = invoice[i].status]_vars
  BY InvoiceStep DEF IInv
<1> QED
  BY <1>1, InvAlways, PTL DEF Spec, SettledOnce

\* A period is granted by the step that settles an invoice, or by an
\* administrator without one.
LEMMA PeriodStep ==
  ASSUME IInv, [Next]_vars, sub'.plan = "PRO", sub' # sub
  PROVE  \/ \E i \in Invoices : invoice[i].status = "PENDING" /\ invoice'[i].status = "PAID"
         \/ \E p \in Admins : act[p].pc = "commit" /\ act[p].found = None
<1>1. PICK p \in Procs :
        /\ ActCommit(p) /\ ~ClaimAborts(act[p].found)
        /\ invoice' = [j \in Invoices |->
             IF j \in Claimed(act[p].found) THEN [invoice[j] EXCEPT !.status = "PAID"]
                                            ELSE invoice[j]]
  BY SubWriters DEF Deactivated
<1> DEFINE i == act[p].found
<1>2. act[p].pc = "commit" /\ TypeOK /\ IntentOK /\ ActOK
  BY <1>1 DEF ActCommit, IInv
<1>3. CASE i = None
  <2>1. ASSUME p \in Hooks PROVE FALSE
    <3>1. /\ i = intent[act[p].intent].inv /\ act[p].intent \in Intents
          /\ checkout[act[p].intent].state # "none"
      BY <1>2, <2>1 DEF ActOK, GoodHook
    <3>2. i \in Invoices
      BY <1>2, <3>1 DEF IntentOK
    <3> QED
      BY <1>3, <3>2, BillingAssumption DEF Invoices, None
  <2> QED
    BY <1>2, <1>3, <2>1 DEF Procs
<1>4. CASE i # None
  <2>1. i \in PendingInvoices /\ Claimed(i) = PendingInvoices \cap {i}
    BY <1>1, <1>4 DEF ClaimAborts, Claimed
  <2>2. i \in Invoices /\ invoice[i].status = "PENDING" /\ i \in Claimed(i)
    BY <2>1 DEF PendingInvoices
  <2>3. invoice[i] \in InvoiceRow
    BY <1>2, <2>2 DEF TypeOK, InvoiceRow
  <2>4. invoice'[i] = [invoice[i] EXCEPT !.status = "PAID"]
    BY <1>1, <2>2
  <2> HIDE DEF i
  <2>5. invoice'[i].status = "PAID"
    BY <2>3, <2>4 DEF InvoiceRow
  <2> QED
    BY <2>2, <2>5
<1> QED
  BY <1>3, <1>4

\* Redelivered, duplicated and concurrent confirmations of one payment grant one
\* period.
THEOREM OnePeriodCorrect == Spec => OnePeriodPerInvoice
<1>1. IInv /\ [Next]_vars =>
        [sub'.plan = "PRO" /\ sub' # sub =>
           \/ \E i \in Invoices : invoice[i].status = "PENDING" /\ invoice'[i].status = "PAID"
           \/ \E p \in Admins : act[p].pc = "commit" /\ act[p].found = None]_vars
  BY PeriodStep
<1> QED
  BY <1>1, InvAlways, PTL DEF Spec, OnePeriodPerInvoice

LEMMA DeletedStep ==
  ASSUME IInv, [Next]_vars, tenant = "DELETED"
  PROVE  /\ sub'.plan = "PRO" => sub' = sub
         /\ \A i \in Invoices : invoice'[i].status = "PAID" => invoice[i].status = "PAID"
<1>1. sub'.plan = "PRO" => sub' = sub
  BY SubWriters DEF Deactivated, TenantAborts
<1>2. invoice \in [Invoices -> InvoiceRow] /\ \A i \in Invoices : invoice[i] \in InvoiceRow
  BY DEF IInv, TypeOK, InvoiceRow
<1>3. ASSUME NEW r \in Requests, ReqInvoice(r), NEW i \in Invoices, invoice'[i].status = "PAID"
      PROVE  invoice[i].status = "PAID"
  BY <1>3, ReqInvoiceEffect DEF IInv
<1>4. CASE AccountingInvoice
  BY <1>2, <1>4 DEF AccountingInvoice
<1>5. CASE DeleteAccount
  BY <1>5 DEF DeleteAccount
<1>6. ASSUME NEW p \in Procs, AdminReject(p) \/ ActCommit(p), NEW i \in Invoices,
             invoice'[i].status = "PAID"
      PROVE  invoice[i].status = "PAID"
  BY <1>2, <1>6 DEF AdminReject, ActCommit, TenantAborts, InvoiceRow
<1> QED
  BY <1>1, <1>3, <1>4, <1>5, <1>6, InvoiceWriters

\* No activation reaches a deleted account.
THEOREM DeletedCorrect == Spec => DeletedGetsNoActivation
<1>1. IInv /\ [Next]_vars =>
        [tenant = "DELETED" =>
           /\ sub'.plan = "PRO" => sub' = sub
           /\ \A i \in Invoices : invoice'[i].status = "PAID" => invoice[i].status = "PAID"]_vars
  BY DeletedStep
<1> QED
  BY <1>1, InvAlways, PTL DEF Spec, DeletedGetsNoActivation
================================================================================
