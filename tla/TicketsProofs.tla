---------------------------- MODULE TicketsProofs ----------------------------
(* Theorems about Tickets, for any number of tickets, syncs and operators.  *)
EXTENDS Tickets, TLAPS

LEMMA TypeInit == Init => TypeOK
  BY ConstantsAssumption DEF Init, TypeOK, IdleSync, IdleOp, IdleExpiry, NoPrice,
     SyncState, OpState, ExpiryState

LEMMA TypeGenerate == TypeOK /\ Generate => TypeOK'
<1> SUFFICES ASSUME TypeOK, Generate PROVE TypeOK'
  OBVIOUS
<1> USE DEF TypeOK, db, router, env
<1>1. CASE GenCreateBatch
  BY <1>1 DEF GenCreateBatch
<1>2. CASE GenCreateVouchers
  BY <1>2 DEF GenCreateVouchers
<1>3. CASE GenReadPeer
  <2>1. CASE gen.remote /\ mode = "REMOTE"
    <3>1. gen' = [gen EXCEPT !.pc = "push", !.remote = FALSE] /\ phone' = phone
      BY <1>3, <2>1, Zenon DEF GenReadPeer
    <3>2. gen' \in [pc : {"idle", "batch", "peer", "push", "record", "done"},
                    remote : BOOLEAN, cur : SUBSET Tickets, pushed : SUBSET Tickets]
      BY <3>1
    <3>3. UNCHANGED <<db, router, env, confirm, sync, op, expiry>>
      BY <1>3, Zenon DEF GenReadPeer
    <3> QED
      BY <3>1, <3>2, <3>3
  <2>2. CASE ~(gen.remote /\ mode = "REMOTE")
    <3>1. gen' = GenDone /\ phone' = [phone EXCEPT !.pc = "push"]
      BY <1>3, <2>2, Zenon DEF GenReadPeer
    <3>2. UNCHANGED <<db, router, env, confirm, sync, op, expiry>>
      BY <1>3, Zenon DEF GenReadPeer
    <3> QED
      BY <3>1, <3>2 DEF GenDone
  <2> QED
    BY <2>1, <2>2
<1>4. CASE GenPushFails
  BY <1>4 DEF GenPushFails, GenDone, BatchUpdate
<1>5. CASE GenComplete
  BY <1>5 DEF GenComplete, GenDone, BatchUpdate
<1>6. CASE PhoneConfirm
  BY <1>6 DEF PhoneConfirm
<1>7. CASE PhoneGivesUp
  BY <1>7 DEF PhoneGivesUp
<1>8. CASE PhoneReportFailure
  BY <1>8 DEF PhoneReportFailure, BatchUpdate
<1>9. CASE ConfirmBatch
  BY <1>9 DEF ConfirmBatch, BatchUpdate
<1>10. ASSUME NEW t \in Tickets, GenAddUser(t) PROVE TypeOK'
  BY <1>10 DEF GenAddUser
<1>11. ASSUME NEW t \in Tickets, GenRecordId(t) PROVE TypeOK'
  BY <1>11 DEF GenRecordId, Exists
<1>12. ASSUME NEW t \in Tickets, PhonePush(t) PROVE TypeOK'
  BY <1>12 DEF PhonePush
<1>13. ASSUME NEW t \in Tickets, ConfirmItem(t) PROVE TypeOK'
  BY <1>13 DEF ConfirmItem, Exists
<1> QED
  BY <1>1, <1>2, <1>3, <1>4, <1>5, <1>6, <1>7, <1>8, <1>9, <1>10, <1>11,
     <1>12, <1>13 DEF Generate

LEMMA TypeThrough ==
  ASSUME NEW r \in SyncState, NEW t \in Tickets
  PROVE  Through(r, t) \in SyncState
  BY DEF Through, SyncState

LEMMA TypeSync ==
  ASSUME TypeOK, NEW s \in Syncs, SyncRead(s) \/ SyncDeadline(s) \/ SyncWork(s)
  PROVE  TypeOK'
<1> DEFINE r == sync[s]
<1>a. r \in SyncState
  BY DEF TypeOK
<1>b. \A x \in SyncState : SyncSet(s, x) => sync' \in [Syncs -> SyncState]
  BY DEF TypeOK, SyncSet
<1>c. IdleSync \in SyncState
  BY DEF IdleSync, SyncState
<1>d. \A t \in Tickets : [r EXCEPT !.pc = "create", !.cur = {t}] \in SyncState
  BY <1>a DEF SyncState
<1> USE DEF TypeOK, db, router, env
<1>1. CASE SyncRead(s)
  <2>1. [IdleSync EXCEPT !.pc = "read", !.holds = (mode = "REMOTE"),
                         !.seen = {t \in Tickets : online[t]}] \in SyncState
    BY DEF IdleSync, SyncState
  <2> QED
    BY <1>1, <2>1, <1>b DEF SyncRead
<1>2. CASE SyncDeadline(s)
  <2>1. [r EXCEPT !.holds = FALSE] \in SyncState
    BY <1>a DEF SyncState
  <2> QED
    BY <1>2, <2>1, <1>b DEF SyncDeadline
<1>3. CASE SyncFindEnded(s)
  <2>1. [r EXCEPT !.pc = "close", !.ended = Ended(r.seen)] \in SyncState
    BY <1>a DEF SyncState, Ended
  <2> QED
    BY <1>3, <2>1, <1>b DEF SyncFindEnded
<1>4. CASE SyncCloseEnded(s)
  <2>1. [r EXCEPT !.pc = "fetch", !.ended = {}] \in SyncState
    BY <1>a DEF SyncState
  <2>2. session' \in [Tickets -> {"NONE", "ACTIVE", "TERMINATED"}]
    BY <1>4 DEF SyncCloseEnded, Closed
  <2> QED
    BY <1>4, <2>1, <2>2, <1>b DEF SyncCloseEnded
<1>5. CASE SyncFetch(s)
  <2> DEFINE found == {t \in r.seen : status[t] \in {"GENERATED", "ACTIVE"}}
             x == [r EXCEPT
                    !.pc = "loop", !.todo = found, !.price = planPrice, !.seen = {},
                    !.known = {t \in found : session[t] # "NONE"},
                    !.fresh = {t \in found : session[t] = "NONE" /\ status[t] = "GENERATED"}]
  <2>1. x \in SyncState
    BY <1>a DEF SyncState
  <2>2. SyncSet(s, x)
    BY <1>5 DEF SyncFetch
  <2> QED
    BY <1>5, <2>1, <2>2, <1>b DEF SyncFetch
<1>6. CASE SyncEnd(s)
  BY <1>6, <1>b, <1>c DEF SyncEnd
<1>7. ASSUME NEW t \in Tickets, SyncRefresh(s, t) PROVE TypeOK'
  <2>1. session' \in [Tickets -> {"NONE", "ACTIVE", "TERMINATED"}]
    BY <1>7 DEF SyncRefresh
  <2> QED
    BY <1>7, <2>1, <1>a, <1>b, TypeThrough DEF SyncRefresh
<1>8. ASSUME NEW t \in Tickets, SyncPromote(s, t) PROVE TypeOK'
  <2>1. PriceSnapshot(r.price) \in {p \in Prices \cup {NoPrice} : p # 0}
    BY <1>a, ConstantsAssumption DEF PriceSnapshot, NoPrice, SyncState
  <2>2. CASE Promotable(t)
    <3>1. [r EXCEPT !.pc = "create", !.cur = {t}] \in SyncState
      BY <1>d
    <3>2. price' \in [Tickets -> {p \in Prices \cup {NoPrice} : p # 0}]
      BY <1>8, <2>1, <2>2 DEF SyncPromote
    <3> QED
      BY <1>8, <1>b, <2>2, <3>1, <3>2 DEF SyncPromote
  <2>3. CASE ~Promotable(t)
    BY <1>8, <2>3, <1>a, <1>b, TypeThrough DEF SyncPromote
  <2> QED
    BY <2>2, <2>3
<1>9. ASSUME NEW t \in Tickets, SyncAdopt(s, t) PROVE TypeOK'
  <2>1. [r EXCEPT !.pc = "create", !.cur = {t}] \in SyncState
    BY <1>d
  <2> QED
    BY <1>9, <2>1, <1>b DEF SyncAdopt
<1>10. ASSUME NEW t \in Tickets, SyncCreate(s, t) PROVE TypeOK'
  <2>1. CASE session[t] # "NONE"
    BY <1>10, <2>1, <1>b, <1>c DEF SyncCreate
  <2>2. CASE session[t] = "NONE"
    <3>1. [r EXCEPT !.pc = "notify"] \in SyncState
      BY <1>a DEF SyncState
    <3>2. session' \in [Tickets -> {"NONE", "ACTIVE", "TERMINATED"}]
      BY <1>10, <2>2 DEF SyncCreate
    <3>3. sync' \in [Syncs -> SyncState]
      BY <1>10, <2>2, <3>1, <1>a, <1>b, TypeThrough DEF SyncCreate
    <3> QED
      BY <1>10, <3>2, <3>3 DEF SyncCreate
  <2> QED
    BY <2>1, <2>2
<1>11. ASSUME NEW t \in Tickets, SyncNotify(s, t) PROVE TypeOK'
  <2>1. notified' \in [Tickets -> Nat]
    BY <1>11 DEF SyncNotify
  <2> QED
    BY <1>11, <2>1, <1>a, <1>b, TypeThrough DEF SyncNotify
<1> QED
  BY <1>1, <1>2, <1>3, <1>4, <1>5, <1>6, <1>7, <1>8, <1>9, <1>10, <1>11 DEF SyncWork

LEMMA TypeOp ==
  ASSUME TypeOK, NEW o \in Operators,
         OpWork(o) \/ \E k \in OpKinds, S \in SUBSET Tickets : OpRead(o, k, S)
  PROVE  TypeOK'
<1> DEFINE r == op[o]
<1>a. r \in OpState
  BY DEF TypeOK
<1>b. \A x \in OpState : OpSet(o, x) => op' \in [Operators -> OpState]
  BY DEF TypeOK, OpSet
<1>c. IdleOp \in OpState
  BY DEF IdleOp, OpState
<1> USE DEF TypeOK, db, router, env
<1>1. ASSUME NEW k \in OpKinds, NEW S \in SUBSET Tickets, OpRead(o, k, S) PROVE TypeOK'
  <2> DEFINE x == [pc |-> IF k = "terminate" THEN "kick" ELSE "claim", kind |-> k,
                   tgt |-> S, ids |-> {t \in S : provisioned[t]},
                   kick |-> {t \in S : session[t] # "NONE"}, remote |-> (mode = "REMOTE")]
  <2>1. x \in OpState
    BY ConstantsAssumption DEF OpState
  <2>2. OpSet(o, x)
    BY <1>1 DEF OpRead
  <2> QED
    BY <1>1, <2>1, <2>2, <1>b DEF OpRead
<1>2. CASE OpClaimRevoke(o)
  <2> DEFINE claimed == {t \in r.tgt : Claimable(t)}
  <2>1. [r EXCEPT !.pc = "router", !.tgt = claimed, !.kick = {}] \in OpState
    BY <1>a DEF OpState
  <2>2. [r EXCEPT !.pc = "cut"] \in OpState
    BY <1>a DEF OpState
  <2>3. op' \in [Operators -> OpState]
    BY <1>2, <1>b, <1>c, <2>1, <2>2 DEF OpClaimRevoke
  <2> QED
    BY <1>2, <2>3 DEF OpClaimRevoke
<1>3. CASE OpClaimDelete(o)
  <2> DEFINE claimed == {t \in r.tgt : Claimable(t)}
  <2>1. [r EXCEPT !.pc = "router", !.tgt = claimed, !.kick = {}] \in OpState
    BY <1>a DEF OpState
  <2>2. op' \in [Operators -> OpState]
    BY <1>3, <1>b, <1>c, <2>1 DEF OpClaimDelete
  <2> QED
    BY <1>3, <2>2 DEF OpClaimDelete
<1>4. CASE OpDone(o)
  BY <1>4, <1>b, <1>c DEF OpDone
<1>5. CASE OpCloseSession(o)
  <2>1. session' \in [Tickets -> {"NONE", "ACTIVE", "TERMINATED"}]
    BY <1>5 DEF OpCloseSession, Closed
  <2> QED
    BY <1>5, <2>1, <1>b, <1>c DEF OpCloseSession
<1>6. ASSUME NEW t \in Tickets, OpRouter(o, t) PROVE TypeOK'
  <2>1. [r EXCEPT !.tgt = @ \ {t}] \in OpState
    BY <1>a DEF OpState
  <2>2. user' \in [Tickets -> BOOLEAN]
    BY <1>6 DEF OpRouter
  <2> QED
    BY <1>6, <2>1, <2>2, <1>b DEF OpRouter
<1>7. ASSUME NEW t \in Tickets, OpCutRouter(o, t) PROVE TypeOK'
  <2>1. [r EXCEPT !.pc = "cutVoucher", !.ids = {}, !.kick = {}] \in OpState
    BY <1>a DEF OpState
  <2>2. user' \in [Tickets -> BOOLEAN]
    BY <1>7 DEF OpCutRouter, CutFromRouter
  <2>3. online' \in [Tickets -> BOOLEAN]
    BY <1>7 DEF OpCutRouter, CutFromRouter
  <2> QED
    BY <1>7, <2>1, <2>2, <2>3, <1>b DEF OpCutRouter
<1>8. ASSUME NEW t \in Tickets, OpCutVoucher(o, t) PROVE TypeOK'
  <2>1. [r EXCEPT !.pc = "cutSession"] \in OpState
    BY <1>a DEF OpState
  <2> QED
    BY <1>8, <2>1, <1>b DEF OpCutVoucher
<1>9. ASSUME NEW t \in Tickets, OpKick(o, t) PROVE TypeOK'
  <2>1. [r EXCEPT !.pc = "cutSession"] \in OpState
    BY <1>a DEF OpState
  <2>2. op' \in [Operators -> OpState]
    BY <1>9, <2>1, <1>b, <1>c DEF OpKick
  <2>3. online' \in [Tickets -> BOOLEAN]
    BY <1>9 DEF OpKick
  <2> QED
    BY <1>9, <2>2, <2>3 DEF OpKick
<1> QED
  BY <1>1, <1>2, <1>3, <1>4, <1>5, <1>6, <1>7, <1>8, <1>9 DEF OpWork

LEMMA TypeExpiry == TypeOK /\ (ExpiryRead \/ ExpiryWork) => TypeOK'
<1> SUFFICES ASSUME TypeOK, ExpiryRead \/ ExpiryWork PROVE TypeOK'
  OBVIOUS
<1>a. IdleExpiry \in ExpiryState
  BY DEF IdleExpiry, ExpiryState
<1> USE DEF TypeOK, db, router, env
<1>1. CASE ExpiryRead
  BY <1>1 DEF ExpiryRead, ExpiryState
<1>2. ASSUME NEW t \in Tickets, ExpiryRouter(t) PROVE TypeOK'
  <2>1. [expiry EXCEPT !.pc = "voucher", !.cur = {t}] \in ExpiryState
    BY DEF ExpiryState
  <2>2. expiry' \in ExpiryState
    BY <1>2, <1>a, <2>1 DEF ExpiryRouter
  <2>3. user' \in [Tickets -> BOOLEAN]
    BY <1>2 DEF ExpiryRouter, CutFromRouter
  <2>4. online' \in [Tickets -> BOOLEAN]
    BY <1>2 DEF ExpiryRouter, CutFromRouter
  <2> QED
    BY <1>2, <2>2, <2>3, <2>4 DEF ExpiryRouter
<1>3. ASSUME NEW t \in Tickets, ExpiryVoucher(t) PROVE TypeOK'
  BY <1>3 DEF ExpiryVoucher, ExpiryState
<1>4. ASSUME NEW t \in Tickets, ExpirySession(t) PROVE TypeOK'
  <2>1. expiry' \in ExpiryState
    BY <1>4, <1>a DEF ExpirySession, ExpiryState
  <2>2. session' \in [Tickets -> {"NONE", "ACTIVE", "TERMINATED"}]
    BY <1>4 DEF ExpirySession, Closed
  <2> QED
    BY <1>4, <2>1, <2>2 DEF ExpirySession
<1> QED
  BY <1>1, <1>2, <1>3, <1>4 DEF ExpiryWork

LEMMA TypeEnvironment == TypeOK /\ Environment => TypeOK'
<1> SUFFICES ASSUME TypeOK, Environment PROVE TypeOK'
  OBVIOUS
<1> USE DEF TypeOK, db, router, env, procs
<1>1. CASE ChangePlanPrice
  BY <1>1 DEF ChangePlanPrice
<1>2. CASE SwitchMode
  BY <1>2, ConstantsAssumption DEF SwitchMode
<1>3. CASE Crash
  BY <1>3, ConstantsAssumption DEF Crash, GenDone, IdleSync, IdleOp, IdleExpiry, SyncState, OpState, ExpiryState
<1>4. CASE SessionCleanup
  BY <1>4 DEF SessionCleanup, Closed
<1>5. ASSUME NEW t \in Tickets, Connect(t) PROVE TypeOK'
  BY <1>5 DEF Connect
<1>6. ASSUME NEW t \in Tickets, Disconnect(t) PROVE TypeOK'
  BY <1>6 DEF Disconnect
<1>7. ASSUME NEW t \in Tickets, DurationElapses(t) PROVE TypeOK'
  BY <1>7 DEF DurationElapses
<1>8. CASE LengthenPlan
  BY <1>8 DEF LengthenPlan
<1> QED
  BY <1>1, <1>2, <1>3, <1>4, <1>5, <1>6, <1>7, <1>8 DEF Environment

\* The type invariant of the ticket service.
THEOREM TypeCorrect == Spec => []TypeOK
<1>1. TypeOK /\ [Next]_vars => TypeOK'
  <2> SUFFICES ASSUME TypeOK, [Next]_vars PROVE TypeOK'
    OBVIOUS
  <2>1. CASE UNCHANGED vars
    BY <2>1 DEF vars, db, router, env, procs, TypeOK
  <2> QED
    BY <2>1, TypeGenerate, TypeSync, TypeOp, TypeExpiry, TypeEnvironment DEF Next
<1> QED
  BY <1>1, TypeInit, PTL DEF Spec

-----------------------------------------------------------------------------
(* A sale is final.                                                         *)

\* No ticket exists before its batch is created, and the functions that
\* follow the creation find it created.
IssueInv ==
  /\ gen.pc \in {"idle", "batch"} => \A t \in Tickets : status[t] = "ABSENT"
  /\ gen.pc \in {"peer", "push", "record"} \/ phone.pc # "idle" \/ confirm.pc # "idle" =>
       \A t \in Tickets : status[t] # "ABSENT"

LEMMA IssueInit == Init => IssueInv
  BY DEF Init, IssueInv

LEMMA IssueStep == TypeOK /\ IssueInv /\ [Next]_vars => IssueInv'
<1> SUFFICES ASSUME TypeOK, IssueInv, [Next]_vars PROVE IssueInv'
  OBVIOUS
<1> USE DEF IssueInv, db
<1>1. ASSUME UNCHANGED <<gen, phone, confirm, status>> PROVE IssueInv'
  BY <1>1
<1>2. CASE Generate
  <2>1. CASE GenCreateBatch
    BY <2>1 DEF GenCreateBatch, TypeOK
  <2>2. CASE GenCreateVouchers
    BY <2>2 DEF GenCreateVouchers, TypeOK
  <2>3. CASE GenReadPeer
    <3>1. \/ gen' = [gen EXCEPT !.pc = "push", !.remote = FALSE]
          \/ gen' = GenDone
      BY <2>3, Zenon DEF GenReadPeer
    <3>2. gen'.pc \in {"push", "done"}
      <4>1. gen \in [pc : {"idle", "batch", "peer", "push", "record", "done"},
                    remote : BOOLEAN, cur : SUBSET Tickets, pushed : SUBSET Tickets]
        BY DEF TypeOK
      <4>2. [gen EXCEPT !.pc = "push", !.remote = FALSE].pc = "push"
        BY <4>1
      <4>3. GenDone.pc = "done"
        BY DEF GenDone
      <4> QED
        BY <3>1, <4>2, <4>3
    <3>3. gen.pc = "peer" /\ status' = status /\ confirm' = confirm
      BY <2>3, Zenon DEF GenReadPeer
    <3> QED
      BY <3>2, <3>3
  <2>4. CASE GenPushFails
    BY <2>4 DEF GenPushFails, GenDone
  <2>5. CASE GenComplete
    BY <2>5 DEF GenComplete, GenDone
  <2>6. CASE PhoneConfirm
    BY <2>6 DEF PhoneConfirm
  <2>7. CASE PhoneGivesUp
    BY <2>7 DEF PhoneGivesUp
  <2>8. CASE PhoneReportFailure
    BY <2>8 DEF PhoneReportFailure
  <2>9. CASE ConfirmBatch
    BY <2>9 DEF ConfirmBatch
  <2>10. ASSUME NEW t \in Tickets, GenAddUser(t) PROVE IssueInv'
    BY <2>10 DEF GenAddUser, TypeOK
  <2>11. ASSUME NEW t \in Tickets, GenRecordId(t) PROVE IssueInv'
    BY <2>11 DEF GenRecordId, TypeOK
  <2>12. ASSUME NEW t \in Tickets, PhonePush(t) PROVE IssueInv'
    BY <2>12 DEF PhonePush, TypeOK
  <2>13. ASSUME NEW t \in Tickets, ConfirmItem(t) PROVE IssueInv'
    BY <2>13 DEF ConfirmItem, TypeOK
  <2> QED
    BY <1>2, <2>1, <2>2, <2>3, <2>4, <2>5, <2>6, <2>7, <2>8, <2>9, <2>10,
       <2>11, <2>12, <2>13 DEF Generate
<1>3. ASSUME NEW s \in Syncs, SyncRead(s) \/ SyncDeadline(s) \/ SyncWork(s)
      PROVE  IssueInv'
  <2>1. ASSUME NEW t \in Tickets, SyncPromote(s, t) PROVE IssueInv'
    BY <2>1 DEF SyncPromote, Promotable, TypeOK
  <2> QED
    BY <1>1, <1>3, <2>1 DEF SyncWork, SyncRead, SyncDeadline, SyncFindEnded, SyncCloseEnded,
       SyncFetch, SyncEnd, SyncRefresh, SyncAdopt, SyncCreate, SyncNotify
<1>4. ASSUME NEW o \in Operators,
             OpWork(o) \/ \E k \in OpKinds, S \in SUBSET Tickets : OpRead(o, k, S)
      PROVE  IssueInv'
  <2>1. CASE OpClaimRevoke(o)
    BY <2>1 DEF OpClaimRevoke, Claimable, TypeOK
  <2>2. CASE OpClaimDelete(o)
    BY <2>2 DEF OpClaimDelete, Claimable, TypeOK
  <2> QED
    BY <1>1, <1>4, <2>1, <2>2 DEF OpWork, OpRead, OpDone, OpCloseSession, OpRouter,
       OpCutRouter, OpCutVoucher, OpKick
<1>5. CASE ExpiryRead \/ ExpiryWork
  BY <1>1, <1>5 DEF ExpiryRead, ExpiryWork, ExpiryRouter, ExpiryVoucher, ExpirySession
<1>6. CASE Environment
  <2>1. CASE Crash
    BY <2>1 DEF Crash, GenDone
  <2> QED
    BY <1>1, <1>6, <2>1 DEF Environment, LengthenPlan, ChangePlanPrice, SwitchMode, SessionCleanup, Connect,
       Disconnect, DurationElapses, procs
<1>7. CASE UNCHANGED vars
  BY <1>1, <1>7 DEF vars, procs
<1> QED
  BY <1>2, <1>3, <1>4, <1>5, <1>6, <1>7 DEF Next

\* No step takes a sold ticket back, and none touches the price of a ticket
\* other than the one it sells.
LEMMA SaleStep ==
  ASSUME TypeOK, IssueInv, [Next]_vars, NEW t \in Tickets
  PROVE  /\ status[t] = "ACTIVE" => status'[t] = "ACTIVE"
         /\ price'[t] # price[t] => status[t] = "GENERATED" /\ status'[t] = "ACTIVE"
<1> DEFINE Goal == /\ status[t] = "ACTIVE" => status'[t] = "ACTIVE"
                   /\ price'[t] # price[t] => status[t] = "GENERATED" /\ status'[t] = "ACTIVE"
<1> USE DEF db
<1>1. ASSUME UNCHANGED <<status, price>> PROVE Goal
  BY <1>1
<1>2. CASE Generate
  <2>1. CASE GenCreateVouchers
    BY <2>1 DEF GenCreateVouchers, IssueInv
  <2> QED
    BY <1>1, <1>2, <2>1 DEF Generate, GenCreateBatch, GenReadPeer, GenPushFails, GenComplete,
       PhoneConfirm, PhoneGivesUp, PhoneReportFailure, ConfirmBatch, GenAddUser, GenRecordId,
       PhonePush, ConfirmItem
<1>3. ASSUME NEW s \in Syncs, SyncRead(s) \/ SyncDeadline(s) \/ SyncWork(s)
      PROVE  Goal
  <2>1. ASSUME NEW u \in Tickets, SyncPromote(s, u) PROVE Goal
    BY <2>1 DEF SyncPromote, Promotable, TypeOK
  <2> QED
    BY <1>1, <1>3, <2>1 DEF SyncWork, SyncRead, SyncDeadline, SyncFindEnded, SyncCloseEnded,
       SyncFetch, SyncEnd, SyncRefresh, SyncAdopt, SyncCreate, SyncNotify
<1>4. ASSUME NEW o \in Operators,
             OpWork(o) \/ \E k \in OpKinds, S \in SUBSET Tickets : OpRead(o, k, S)
      PROVE  Goal
  <2>1. CASE OpClaimRevoke(o)
    BY <2>1 DEF OpClaimRevoke, Claimable, TypeOK
  <2>2. CASE OpClaimDelete(o)
    BY <2>2 DEF OpClaimDelete, Claimable, TypeOK
  <2> QED
    BY <1>1, <1>4, <2>1, <2>2 DEF OpWork, OpRead, OpDone, OpCloseSession, OpRouter,
       OpCutRouter, OpCutVoucher, OpKick
<1>5. CASE ExpiryRead \/ ExpiryWork
  BY <1>1, <1>5 DEF ExpiryRead, ExpiryWork, ExpiryRouter, ExpiryVoucher, ExpirySession
<1>6. CASE Environment
  BY <1>1, <1>6 DEF Environment, Crash, LengthenPlan, ChangePlanPrice, SwitchMode, SessionCleanup, Connect,
     Disconnect, DurationElapses
<1>7. CASE UNCHANGED vars
  BY <1>1, <1>7 DEF vars
<1> QED
  BY <1>2, <1>3, <1>4, <1>5, <1>6, <1>7 DEF Next

LEMMA IssueCorrect == Spec => []IssueInv
  BY TypeCorrect, IssueInit, IssueStep, PTL DEF Spec

\* A ticket that was sold stays sold.
THEOREM SaleIsFinalCorrect == Spec => SaleIsFinal
<1>1. TypeOK /\ IssueInv /\ [Next]_vars =>
        [\A t \in Tickets : status[t] = "ACTIVE" => status'[t] = "ACTIVE"]_vars
  BY SaleStep
<1> QED
  BY <1>1, TypeCorrect, IssueCorrect, PTL DEF Spec, SaleIsFinal

\* Its price is the one of the sale, whatever the number of syncs.
THEOREM PriceFrozenCorrect == Spec => PriceFrozen
<1>1. TypeOK /\ IssueInv /\ [Next]_vars =>
        [\A t \in Tickets : price'[t] # price[t] =>
            status[t] = "GENERATED" /\ status'[t] = "ACTIVE"]_vars
  BY SaleStep
<1> QED
  BY <1>1, TypeCorrect, IssueCorrect, PTL DEF Spec, PriceFrozen

-----------------------------------------------------------------------------
(* Sessions and notifications belong to sales.                              *)

\* A ticket the loop takes for neither refreshed nor new is sold, and so is
\* the one whose session is about to be created or notified; a new one is not
\* notified yet, and is in the hands of one sync only.
Promoter(s, t) == sync[s].pc \in {"create", "notify"} /\ t \in sync[s].cur /\ t \in sync[s].fresh

SyncInv ==
  /\ \A s \in Syncs :
       /\ \A t \in sync[s].todo :
            t \in sync[s].known \/ t \in sync[s].fresh \/ status[t] = "ACTIVE"
       /\ sync[s].pc \in {"create", "notify"} => \A t \in sync[s].cur : status[t] = "ACTIVE"
       /\ sync[s].pc = "notify" => sync[s].cur \subseteq sync[s].fresh
  /\ \A s \in Syncs, t \in Tickets : Promoter(s, t) => notified[t] = 0
  /\ \A s1, s2 \in Syncs, t \in Tickets : Promoter(s1, t) /\ Promoter(s2, t) => s1 = s2

SaleInv ==
  /\ SessionOnlyOfSale
  /\ \A t \in Tickets : notified[t] <= 1 /\ (notified[t] > 0 => status[t] = "ACTIVE")
  /\ SyncInv

LEMMA SaleInit == Init => SaleInv
  BY DEF Init, SaleInv, SessionOnlyOfSale, SyncInv, Promoter, IdleSync

\* A step that leaves the syncs alone.
LEMMA SaleFrame ==
  ASSUME TypeOK, SaleInv, UNCHANGED <<sync, notified>>,
         \A t \in Tickets : status[t] = "ACTIVE" => status'[t] = "ACTIVE",
         \A t \in Tickets : session'[t] # "NONE" => session[t] # "NONE"
  PROVE  SaleInv'
<1>1. SessionOnlyOfSale'
  BY DEF SaleInv, SessionOnlyOfSale
<1>2. SyncInv'
  <2>1. \A s \in Syncs : sync[s].todo \subseteq Tickets /\ sync[s].cur \subseteq Tickets
    BY DEF TypeOK, SyncState
  <2> QED
    BY <2>1 DEF SaleInv, SyncInv, Promoter
<1> QED
  BY <1>1, <1>2 DEF SaleInv

\* A step of one sync.
LEMMA SyncFrame ==
  ASSUME TypeOK, SyncInv, NEW s \in Syncs, NEW x \in SyncState, SyncSet(s, x),
         \A t \in Tickets : status[t] = "ACTIVE" => status'[t] = "ACTIVE",
         \A t \in x.todo : t \in x.known \/ t \in x.fresh \/ status'[t] = "ACTIVE",
         x.pc \in {"create", "notify"} => \A t \in x.cur : status'[t] = "ACTIVE",
         x.pc = "notify" => x.cur \subseteq x.fresh,
         \A t \in Tickets :
           x.pc \in {"create", "notify"} /\ t \in x.cur /\ t \in x.fresh =>
             notified'[t] = 0 /\ \A s2 \in Syncs \ {s} : ~Promoter(s2, t),
         \A s2 \in Syncs \ {s}, t \in Tickets : Promoter(s2, t) => notified'[t] = 0
  PROVE  SyncInv'
<1>1. sync'[s] = x /\ \A s2 \in Syncs \ {s} : sync'[s2] = sync[s2]
  BY DEF SyncSet, TypeOK
<1>2. \A s2 \in Syncs : sync[s2].todo \subseteq Tickets /\ sync[s2].cur \subseteq Tickets
  BY DEF TypeOK, SyncState
<1>3. \A s2 \in Syncs :
       /\ \A t \in sync'[s2].todo :
            t \in sync'[s2].known \/ t \in sync'[s2].fresh \/ status'[t] = "ACTIVE"
       /\ sync'[s2].pc \in {"create", "notify"} => \A t \in sync'[s2].cur : status'[t] = "ACTIVE"
       /\ sync'[s2].pc = "notify" => sync'[s2].cur \subseteq sync'[s2].fresh
  BY <1>1, <1>2 DEF SyncInv
<1>4. \A s2 \in Syncs, t \in Tickets : Promoter(s2, t)' => notified'[t] = 0
  BY <1>1 DEF Promoter
<1>5. \A s1, s2 \in Syncs, t \in Tickets : Promoter(s1, t)' /\ Promoter(s2, t)' => s1 = s2
  BY <1>1 DEF Promoter, SyncInv
<1> QED
  BY <1>3, <1>4, <1>5 DEF SyncInv

LEMMA SaleInvSync ==
  ASSUME TypeOK, TypeOK', IssueInv, SaleInv, [Next]_vars, NEW s \in Syncs,
         SyncRead(s) \/ SyncDeadline(s) \/ SyncWork(s)
  PROVE  SaleInv'
<1> DEFINE r == sync[s]
           x == sync'[s]
<1>a. \A t \in Tickets : status[t] = "ACTIVE" => status'[t] = "ACTIVE"
  BY SaleStep
<1>b. r \in SyncState /\ x \in SyncState
  BY DEF TypeOK
<1>c. \A y : SyncSet(s, y) => y = x /\ SyncSet(s, x)
  BY DEF SyncSet, TypeOK
<1>d. SyncInv /\ SessionOnlyOfSale
  BY DEF SaleInv
\* A step after which no create or notification of this sync is pending.
<1>e. ASSUME SyncSet(s, x), x.pc \notin {"create", "notify"}, notified' = notified,
             \A t \in x.todo : t \in x.known \/ t \in x.fresh \/ status'[t] = "ACTIVE"
      PROVE  SyncInv'
  <2>1. \A s2 \in Syncs \ {s}, t \in Tickets : Promoter(s2, t) => notified'[t] = 0
    BY <1>d, <1>e DEF SyncInv
  <2> QED
    BY <1>a, <1>b, <1>d, <1>e, <2>1, SyncFrame
\* The rest of the list after a ticket is through.
<1>f. ASSUME NEW t \in Tickets, x = Through(r, t)
      PROVE  /\ x.pc = "loop"
             /\ \A u \in x.todo : u \in x.known \/ u \in x.fresh \/ status'[u] = "ACTIVE"
  <2>1. x.pc = "loop" /\ x.todo = r.todo \ {t} /\ x.known = r.known \ {t} /\ x.fresh = r.fresh \ {t}
    BY <1>b, <1>f DEF Through, SyncState
  <2> QED
    BY <1>a, <1>b, <1>d, <2>1 DEF SyncInv, SyncState
<1>g. ASSUME SyncInv', UNCHANGED notified,
             \A t \in Tickets : session'[t] # "NONE" => session[t] # "NONE" \/ status'[t] = "ACTIVE"
      PROVE  SaleInv'
  BY <1>a, <1>d, <1>g DEF SaleInv, SessionOnlyOfSale
<1>1. CASE SyncRead(s)
  <2>1. SyncSet(s, x) /\ x.pc = "read" /\ x.todo = {}
    <3>1. SyncSet(s, [IdleSync EXCEPT !.pc = "read", !.holds = (mode = "REMOTE"),
                                     !.seen = {t \in Tickets : online[t]}])
      BY <1>1, Zenon DEF SyncRead
    <3>2. SyncSet(s, x) /\ x = [IdleSync EXCEPT !.pc = "read", !.holds = (mode = "REMOTE"),
                                     !.seen = {t \in Tickets : online[t]}]
      BY <3>1, <1>c
    <3> QED
      BY <3>2 DEF IdleSync
  <2> QED
    BY <1>1, <2>1, <1>e, <1>g DEF SyncRead, db
<1>2. CASE SyncDeadline(s)
  <2>1. /\ SyncSet(s, x) /\ x.pc = r.pc /\ x.todo = r.todo /\ x.known = r.known
        /\ x.fresh = r.fresh /\ x.cur = r.cur
    BY <1>2, <1>b, <1>c DEF SyncDeadline, SyncState
  <2>2. UNCHANGED <<status, session, notified>>
    BY <1>2 DEF SyncDeadline, db
  <2>3. SyncInv'
    <3>1. \A t \in Tickets :
            x.pc \in {"create", "notify"} /\ t \in x.cur /\ t \in x.fresh =>
              notified'[t] = 0 /\ \A s2 \in Syncs \ {s} : ~Promoter(s2, t)
      BY <1>d, <2>1, <2>2 DEF SyncInv, Promoter
    <3>2. \A s2 \in Syncs \ {s}, t \in Tickets : Promoter(s2, t) => notified'[t] = 0
      BY <1>d, <2>2 DEF SyncInv
    <3>3. /\ \A t \in x.todo : t \in x.known \/ t \in x.fresh \/ status'[t] = "ACTIVE"
          /\ x.pc \in {"create", "notify"} => \A t \in x.cur : status'[t] = "ACTIVE"
          /\ x.pc = "notify" => x.cur \subseteq x.fresh
      BY <1>d, <2>1, <2>2 DEF SyncInv
    <3> QED
      BY <1>a, <1>b, <1>d, <2>1, <3>1, <3>2, <3>3, SyncFrame
  <2> QED
    BY <2>2, <2>3, <1>g
<1>3. CASE SyncFindEnded(s)
  <2>1. SyncSet(s, x) /\ x.pc = "close" /\ x.todo = r.todo /\ x.known = r.known /\ x.fresh = r.fresh
    <3>1. SyncSet(s, [r EXCEPT !.pc = "close", !.ended = Ended(r.seen)])
      BY <1>3, Zenon DEF SyncFindEnded
    <3>2. SyncSet(s, x) /\ x = [r EXCEPT !.pc = "close", !.ended = Ended(r.seen)]
      BY <3>1, <1>c
    <3> QED
      BY <1>b, <3>2 DEF SyncState
  <2>2. UNCHANGED <<status, session, notified>>
    BY <1>3 DEF SyncFindEnded, db
  <2>3. \A t \in x.todo : t \in x.known \/ t \in x.fresh \/ status'[t] = "ACTIVE"
    BY <1>d, <2>1, <2>2 DEF SyncInv
  <2> QED
    BY <2>1, <2>2, <2>3, <1>e, <1>g
<1>4. CASE SyncCloseEnded(s)
  <2>1. SyncSet(s, x) /\ x.pc = "fetch" /\ x.todo = r.todo /\ x.known = r.known /\ x.fresh = r.fresh
    <3>1. SyncSet(s, [r EXCEPT !.pc = "fetch", !.ended = {}])
      BY <1>4, Zenon DEF SyncCloseEnded
    <3>2. SyncSet(s, x) /\ x = [r EXCEPT !.pc = "fetch", !.ended = {}]
      BY <3>1, <1>c
    <3> QED
      BY <1>b, <3>2 DEF SyncState
  <2>2. UNCHANGED <<status, notified>> /\ \A t \in Tickets : session'[t] # "NONE" => session[t] # "NONE"
    BY <1>4 DEF SyncCloseEnded, Closed
  <2>3. \A t \in x.todo : t \in x.known \/ t \in x.fresh \/ status'[t] = "ACTIVE"
    BY <1>d, <2>1, <2>2 DEF SyncInv
  <2> QED
    BY <2>1, <2>2, <2>3, <1>e, <1>g
<1>5. CASE SyncFetch(s)
  <2> DEFINE found == {t \in r.seen : status[t] \in {"GENERATED", "ACTIVE"}}
  <2>1. /\ SyncSet(s, x) /\ x.pc = "loop" /\ x.todo = found
        /\ x.known = {t \in found : session[t] # "NONE"}
        /\ x.fresh = {t \in found : session[t] = "NONE" /\ status[t] = "GENERATED"}
    <3> DEFINE y == [r EXCEPT
                      !.pc = "loop", !.todo = found, !.price = planPrice, !.seen = {},
                      !.known = {t \in found : session[t] # "NONE"},
                      !.fresh = {t \in found : session[t] = "NONE" /\ status[t] = "GENERATED"}]
    <3>1. SyncSet(s, y)
      BY <1>5, Zenon DEF SyncFetch
    <3>2. SyncSet(s, x) /\ x = y
      BY <3>1, <1>c
    <3> QED
      BY <1>b, <3>2 DEF SyncState
  <2>2. UNCHANGED <<status, session, notified>>
    BY <1>5 DEF SyncFetch, db
  <2>3. \A t \in x.todo : t \in x.known \/ t \in x.fresh \/ status'[t] = "ACTIVE"
    BY <2>1, <2>2
  <2> QED
    BY <2>1, <2>2, <2>3, <1>e, <1>g
<1>6. CASE SyncEnd(s)
  <2>1. SyncSet(s, x) /\ x.pc = "idle" /\ x.todo = {}
    BY <1>6, <1>c DEF SyncEnd, IdleSync
  <2> QED
    BY <1>6, <2>1, <1>e, <1>g DEF SyncEnd, db
<1>7. ASSUME NEW t \in Tickets, SyncRefresh(s, t) PROVE SaleInv'
  <2>1. SyncSet(s, x) /\ x = Through(r, t)
    BY <1>7, <1>c DEF SyncRefresh
  <2>2. UNCHANGED <<status, notified>> /\ \A u \in Tickets : session'[u] # "NONE" => session[u] # "NONE"
    BY <1>7 DEF SyncRefresh, TypeOK
  <2> QED
    BY <2>1, <2>2, <1>e, <1>f, <1>g
<1>8. ASSUME NEW t \in Tickets, SyncPromote(s, t) PROVE SaleInv'
  <2>1. UNCHANGED <<session, notified>>
    BY <1>8 DEF SyncPromote
  <2>2. CASE ~Promotable(t)
    <3>1. SyncSet(s, x) /\ x = Through(r, t)
      BY <1>8, <2>2, <1>c DEF SyncPromote
    <3> QED
      BY <3>1, <2>1, <1>e, <1>f, <1>g
  <2>3. CASE Promotable(t)
    <3>1. /\ SyncSet(s, x) /\ x.pc = "create" /\ x.cur = {t}
          /\ x.todo = r.todo /\ x.known = r.known /\ x.fresh = r.fresh
    <4>1. SyncSet(s, [r EXCEPT !.pc = "create", !.cur = {t}])
      BY <1>8, <2>3, Zenon DEF SyncPromote
    <4>2. SyncSet(s, x) /\ x = [r EXCEPT !.pc = "create", !.cur = {t}]
      BY <4>1, <1>c
    <4> QED
      BY <1>b, <4>2 DEF SyncState
    <3>2. status[t] = "GENERATED" /\ status'[t] = "ACTIVE"
      BY <1>8, <2>3 DEF SyncPromote, Promotable, TypeOK
    \* The ticket was not sold: nobody else holds it, nothing was notified.
    <3>3. notified[t] = 0
      BY <3>2 DEF SaleInv, TypeOK
    <3>4. \A s2 \in Syncs : ~Promoter(s2, t)
      BY <3>2, <1>d DEF SyncInv, Promoter
    <3>5. \A u \in x.todo : u \in x.known \/ u \in x.fresh \/ status'[u] = "ACTIVE"
      BY <1>a, <1>b, <1>d, <3>1 DEF SyncInv, SyncState
    <3>6. \A s2 \in Syncs \ {s}, u \in Tickets : Promoter(s2, u) => notified'[u] = 0
      BY <1>d, <2>1 DEF SyncInv
    <3>7. SyncInv'
      BY <1>a, <1>b, <1>d, <2>1, <3>1, <3>2, <3>3, <3>4, <3>5, <3>6, SyncFrame
    <3> QED
      BY <2>1, <3>7, <1>g
  <2> QED
    BY <2>2, <2>3
<1>9. ASSUME NEW t \in Tickets, SyncAdopt(s, t) PROVE SaleInv'
  <2>1. /\ SyncSet(s, x) /\ x.pc = "create" /\ x.cur = {t}
        /\ x.todo = r.todo /\ x.known = r.known /\ x.fresh = r.fresh
    <3>1. SyncSet(s, [r EXCEPT !.pc = "create", !.cur = {t}])
      BY <1>9, Zenon DEF SyncAdopt
    <3>2. SyncSet(s, x) /\ x = [r EXCEPT !.pc = "create", !.cur = {t}]
      BY <3>1, <1>c
    <3> QED
      BY <1>b, <3>2 DEF SyncState
  <2>2. UNCHANGED <<status, session, notified>>
    BY <1>9 DEF SyncAdopt, db
  <2>3. t \notin x.fresh /\ status'[t] = "ACTIVE"
    BY <1>9, <1>d, <2>1, <2>2 DEF SyncAdopt, SyncInv
  <2>4. \A u \in x.todo : u \in x.known \/ u \in x.fresh \/ status'[u] = "ACTIVE"
    BY <1>d, <2>1, <2>2 DEF SyncInv
  <2>5. \A s2 \in Syncs \ {s}, u \in Tickets : Promoter(s2, u) => notified'[u] = 0
    BY <1>d, <2>2 DEF SyncInv
  <2>6. SyncInv'
    BY <1>a, <1>b, <1>d, <2>1, <2>3, <2>4, <2>5, SyncFrame
  <2> QED
    BY <2>2, <2>6, <1>g
<1>10. ASSUME NEW t \in Tickets, SyncCreate(s, t) PROVE SaleInv'
  <2>1. UNCHANGED <<status, notified>> /\ status[t] = "ACTIVE"
    BY <1>10, <1>d DEF SyncCreate, SyncInv
  <2>2. \A u \in Tickets : session'[u] # "NONE" => session[u] # "NONE" \/ status'[u] = "ACTIVE"
    BY <1>10, <2>1 DEF SyncCreate, TypeOK
  <2>3. CASE session[t] # "NONE"
    <3>1. SyncSet(s, x) /\ x.pc = "idle" /\ x.todo = {}
      BY <1>10, <2>3, <1>c DEF SyncCreate, IdleSync
    <3> QED
      BY <2>1, <2>2, <3>1, <1>e, <1>g
  <2>4. CASE session[t] = "NONE" /\ t \notin r.fresh
    <3>1. SyncSet(s, x) /\ x = Through(r, t)
      BY <1>10, <2>4, <1>c DEF SyncCreate
    <3> QED
      BY <2>1, <2>2, <3>1, <1>e, <1>f, <1>g
  <2>5. CASE session[t] = "NONE" /\ t \in r.fresh
    <3>1. r.pc = "create" /\ r.cur = {t}
      BY <1>10 DEF SyncCreate
    <3>2. /\ SyncSet(s, x) /\ x.pc = "notify" /\ x.cur = {t}
          /\ x.todo = r.todo /\ x.known = r.known /\ x.fresh = r.fresh
      BY <1>10, <2>5, <3>1, <1>b, <1>c DEF SyncCreate, SyncState
    <3>3. Promoter(s, t)
      BY <2>5, <3>1 DEF Promoter
    <3>4. notified'[t] = 0 /\ \A s2 \in Syncs \ {s} : ~Promoter(s2, t)
      BY <1>d, <2>1, <3>3 DEF SyncInv
    <3>5. \A u \in x.todo : u \in x.known \/ u \in x.fresh \/ status'[u] = "ACTIVE"
      BY <1>d, <2>1, <3>2 DEF SyncInv
    <3>6. \A s2 \in Syncs \ {s}, u \in Tickets : Promoter(s2, u) => notified'[u] = 0
      BY <1>d, <2>1 DEF SyncInv
    <3>7. SyncInv'
      BY <1>a, <1>b, <1>d, <2>1, <2>5, <3>2, <3>4, <3>5, <3>6, SyncFrame
    <3> QED
      BY <2>1, <2>2, <3>7, <1>g
  <2> QED
    BY <2>3, <2>4, <2>5
<1>11. ASSUME NEW t \in Tickets, SyncNotify(s, t) PROVE SaleInv'
  <2>1. UNCHANGED <<status, session>> /\ notified' = [notified EXCEPT ![t] = @ + 1]
    BY <1>11 DEF SyncNotify
  <2>2. r.pc = "notify" /\ r.cur = {t} /\ Promoter(s, t)
    BY <1>11, <1>d DEF SyncNotify, SyncInv, Promoter
  <2>3. SyncSet(s, x) /\ x = Through(r, t)
    BY <1>11, <1>c DEF SyncNotify
  <2>4. \A s2 \in Syncs \ {s}, u \in Tickets : Promoter(s2, u) => u # t /\ notified'[u] = 0
    BY <1>d, <2>1, <2>2 DEF SyncInv, TypeOK
  <2>5. SyncInv'
    BY <1>a, <1>b, <1>d, <1>f, <2>3, <2>4, SyncFrame
  <2>6. notified[t] = 0 /\ status[t] = "ACTIVE"
    BY <1>d, <2>2 DEF SyncInv
  <2>7. \A u \in Tickets : notified'[u] <= 1 /\ (notified'[u] > 0 => status'[u] = "ACTIVE")
    BY <2>1, <2>6 DEF SaleInv, TypeOK
  <2> QED
    BY <1>d, <2>1, <2>5, <2>7 DEF SaleInv, SessionOnlyOfSale
<1> QED
  BY <1>1, <1>2, <1>3, <1>4, <1>5, <1>6, <1>7, <1>8, <1>9, <1>10, <1>11 DEF SyncWork

LEMMA SaleInvStep == TypeOK /\ TypeOK' /\ IssueInv /\ SaleInv /\ [Next]_vars => SaleInv'
<1> SUFFICES ASSUME TypeOK, TypeOK', IssueInv, SaleInv, [Next]_vars PROVE SaleInv'
  OBVIOUS
<1>a. \A t \in Tickets : status[t] = "ACTIVE" => status'[t] = "ACTIVE"
  BY SaleStep
<1>b. ASSUME UNCHANGED <<sync, notified, session>> PROVE SaleInv'
  BY <1>a, <1>b, SaleFrame
<1> USE DEF db
<1>1. CASE Generate
  BY <1>1, <1>b DEF Generate, GenCreateBatch, GenCreateVouchers, GenReadPeer, GenPushFails,
     GenComplete, PhoneConfirm, PhoneGivesUp, PhoneReportFailure, ConfirmBatch, GenAddUser,
     GenRecordId, PhonePush, ConfirmItem
<1>2. ASSUME NEW s \in Syncs, SyncRead(s) \/ SyncDeadline(s) \/ SyncWork(s) PROVE SaleInv'
  BY <1>2, SaleInvSync
<1>3. ASSUME NEW o \in Operators,
             OpWork(o) \/ \E k \in OpKinds, S \in SUBSET Tickets : OpRead(o, k, S)
      PROVE  SaleInv'
  <2>1. CASE OpClaimDelete(o)
    <3>1. UNCHANGED <<sync, notified>> /\ \A t \in Tickets : session'[t] # "NONE" => session[t] # "NONE"
      BY <2>1 DEF OpClaimDelete
    <3> QED
      BY <1>a, <3>1, SaleFrame
  <2>2. CASE OpCloseSession(o)
    <3>1. UNCHANGED <<sync, notified>> /\ \A t \in Tickets : session'[t] # "NONE" => session[t] # "NONE"
      BY <2>2 DEF OpCloseSession, Closed
    <3> QED
      BY <1>a, <3>1, SaleFrame
  <2> QED
    BY <1>3, <1>b, <2>1, <2>2 DEF OpWork, OpRead, OpClaimRevoke, OpDone, OpRouter, OpCutRouter,
       OpCutVoucher, OpKick
<1>4. CASE ExpiryRead \/ ExpiryWork
  <2>1. ASSUME NEW t \in Tickets, ExpirySession(t) PROVE SaleInv'
    <3>1. UNCHANGED <<sync, notified>> /\ \A u \in Tickets : session'[u] # "NONE" => session[u] # "NONE"
      BY <2>1 DEF ExpirySession, Closed
    <3> QED
      BY <1>a, <3>1, SaleFrame
  <2> QED
    BY <1>4, <1>b, <2>1 DEF ExpiryRead, ExpiryWork, ExpiryRouter, ExpiryVoucher
<1>5. CASE Environment
  <2>1. CASE SessionCleanup
    <3>1. UNCHANGED <<sync, notified>> /\ \A u \in Tickets : session'[u] # "NONE" => session[u] # "NONE"
      BY <2>1 DEF SessionCleanup, Closed, procs
    <3> QED
      BY <1>a, <3>1, SaleFrame
  <2>2. CASE Crash
    <3>1. UNCHANGED <<session, notified>> /\ sync' = [s \in Syncs |-> IdleSync]
      BY <2>2 DEF Crash
    <3>2. SyncInv'
      BY <3>1 DEF SyncInv, Promoter, IdleSync
    <3> QED
      BY <1>a, <3>1, <3>2 DEF SaleInv, SessionOnlyOfSale
  <2> QED
    BY <1>5, <1>b, <2>1, <2>2 DEF Environment, LengthenPlan, ChangePlanPrice, SwitchMode, Connect, Disconnect,
       DurationElapses, procs
<1>6. CASE UNCHANGED vars
  BY <1>6, <1>b DEF vars, procs
<1> QED
  BY <1>1, <1>2, <1>3, <1>4, <1>5, <1>6 DEF Next

LEMMA SaleInvCorrect == Spec => []SaleInv
<1>1. TypeOK /\ IssueInv /\ SaleInv /\ [Next]_vars /\ TypeOK' => SaleInv'
  BY SaleInvStep
<1> QED
  BY <1>1, TypeCorrect, IssueCorrect, SaleInit, PTL DEF Spec

\* A session row belongs to a sold ticket.
THEOREM SessionOnlyOfSaleCorrect == Spec => []SessionOnlyOfSale
<1>1. SaleInv => SessionOnlyOfSale
  BY DEF SaleInv
<1> QED
  BY <1>1, SaleInvCorrect, PTL

\* A sale is notified at most once, and nothing else is.
THEOREM NotifiedOnceCorrect == Spec => []NotifiedOnce
<1>1. SaleInv => NotifiedOnce
  <2>1. ASSUME SaleInv, NEW t \in Tickets
        PROVE  notified[t] <= 1 /\ (notified[t] = 1 => status[t] = "ACTIVE")
    <3>1. notified[t] <= 1 /\ (notified[t] > 0 => status[t] = "ACTIVE")
      BY <2>1, Zenon DEF SaleInv
    <3> QED
      BY <3>1
  <2> QED
    BY <2>1, Zenon DEF NotifiedOnce
<1> QED
  BY <1>1, SaleInvCorrect, PTL

-----------------------------------------------------------------------------
(* A batch reported complete is on the router.                              *)

\* The router id of the ticket is stored, the ticket is gone, or the router
\* took it without saying its id.
Recorded(t) == provisioned[t] \/ status[t] = "DELETED" \/ t \in unnamed

\* What the server push counted and what a confirmation went through is
\* recorded.
RecordInv ==
  /\ \A t \in gen.pushed : Recorded(t)
  /\ confirm.pc = "items" => \A t \in confirm.items : t \in confirm.todo \/ Recorded(t)
  /\ batch.status = "COMPLETED" => \A t \in Tickets : Recorded(t)

LEMMA RecordInit == Init => RecordInv
  BY DEF Init, RecordInv

\* No step makes a recorded ticket unrecorded.
LEMMA RecordedStays ==
  ASSUME TypeOK, IssueInv, [Next]_vars, NEW t \in Tickets, Recorded(t)
  PROVE  Recorded(t)'
<1> USE DEF Recorded, db, env
<1>1. ASSUME UNCHANGED <<status, provisioned, unnamed>> PROVE Recorded(t)'
  BY <1>1
<1>2. CASE Generate
  <2>1. CASE GenCreateVouchers
    BY <2>1 DEF GenCreateVouchers, IssueInv
  <2>2. ASSUME NEW u \in Tickets, GenRecordId(u) PROVE Recorded(t)'
    BY <2>2 DEF GenRecordId, Exists, IssueInv, TypeOK
  <2>3. ASSUME NEW u \in Tickets, ConfirmItem(u) PROVE Recorded(t)'
    BY <2>3 DEF ConfirmItem, Exists, IssueInv, TypeOK
  <2> QED
    BY <1>1, <1>2, <2>1, <2>2, <2>3 DEF Generate, GenCreateBatch, GenReadPeer, GenPushFails,
       GenComplete, PhoneConfirm, PhoneGivesUp, PhoneReportFailure, ConfirmBatch, GenAddUser,
       PhonePush
<1>3. ASSUME NEW s \in Syncs, SyncRead(s) \/ SyncDeadline(s) \/ SyncWork(s) PROVE Recorded(t)'
  <2>1. ASSUME NEW u \in Tickets, SyncPromote(s, u) PROVE Recorded(t)'
    BY <2>1 DEF SyncPromote, Promotable, TypeOK
  <2> QED
    BY <1>1, <1>3, <2>1 DEF SyncWork, SyncRead, SyncDeadline, SyncFindEnded, SyncCloseEnded,
       SyncFetch, SyncEnd, SyncRefresh, SyncAdopt, SyncCreate, SyncNotify
<1>4. ASSUME NEW o \in Operators,
             OpWork(o) \/ \E k \in OpKinds, S \in SUBSET Tickets : OpRead(o, k, S)
      PROVE  Recorded(t)'
  <2>1. CASE OpClaimRevoke(o)
    BY <2>1 DEF OpClaimRevoke, Claimable, TypeOK
  <2>2. CASE OpClaimDelete(o)
    BY <2>2 DEF OpClaimDelete, Claimable, TypeOK
  <2> QED
    BY <1>1, <1>4, <2>1, <2>2 DEF OpWork, OpRead, OpDone, OpCloseSession, OpRouter,
       OpCutRouter, OpCutVoucher, OpKick
<1>5. CASE ExpiryRead \/ ExpiryWork
  BY <1>1, <1>5 DEF ExpiryRead, ExpiryWork, ExpiryRouter, ExpiryVoucher, ExpirySession
<1>6. CASE Environment
  BY <1>1, <1>6 DEF Environment, Crash, LengthenPlan, ChangePlanPrice, SwitchMode, SessionCleanup, Connect,
     Disconnect, DurationElapses
<1>7. CASE UNCHANGED vars
  BY <1>1, <1>7 DEF vars
<1> QED
  BY <1>2, <1>3, <1>4, <1>5, <1>6, <1>7 DEF Next

\* A step that counts nothing more.
LEMMA RecordFrame ==
  ASSUME TypeOK, IssueInv, RecordInv, [Next]_vars,
         gen'.pushed \subseteq gen.pushed,
         confirm' = confirm \/ confirm'.pc = "idle",
         batch'.status = "COMPLETED" => batch.status = "COMPLETED"
  PROVE  RecordInv'
<1>1. \A t \in Tickets : Recorded(t) => Recorded(t)'
  BY RecordedStays
<1>2. gen.pushed \subseteq Tickets /\ confirm.items \subseteq Tickets
  BY DEF TypeOK
<1>3. \A t \in gen'.pushed : Recorded(t)'
  BY <1>1, <1>2 DEF RecordInv
<1>4. confirm'.pc = "items" => \A t \in confirm'.items : t \in confirm'.todo \/ Recorded(t)'
  BY <1>1, <1>2 DEF RecordInv
<1>5. batch'.status = "COMPLETED" => \A t \in Tickets : Recorded(t)'
  BY <1>1 DEF RecordInv
<1> QED
  BY <1>3, <1>4, <1>5 DEF RecordInv

LEMMA RecordStep == TypeOK /\ IssueInv /\ RecordInv /\ [Next]_vars => RecordInv'
<1> SUFFICES ASSUME TypeOK, IssueInv, RecordInv, [Next]_vars PROVE RecordInv'
  OBVIOUS
<1>a. \A t \in Tickets : Recorded(t) => Recorded(t)'
  BY RecordedStays
<1>b. /\ gen \in [pc : {"idle", "batch", "peer", "push", "record", "done"},
                  remote : BOOLEAN, cur : SUBSET Tickets, pushed : SUBSET Tickets]
      /\ confirm \in [pc : {"idle", "items"}, todo : SUBSET Tickets, items : SUBSET Tickets]
      /\ batch \in [status : {"ABSENT", "GENERATING", "COMPLETED", "PARTIAL_SUCCESS",
                              "FAILED", "DELETED"}, generated : SUBSET Tickets]
  BY DEF TypeOK
<1>c. ASSUME UNCHANGED <<gen, confirm, batch>> PROVE RecordInv'
  BY <1>c, RecordFrame
<1> USE DEF db
<1>1. CASE Generate
  <2>1. CASE GenCreateBatch
    BY <2>1, <1>b, RecordFrame DEF GenCreateBatch
  <2>2. CASE GenCreateVouchers
    BY <2>2, <1>b, RecordFrame DEF GenCreateVouchers
  <2>3. CASE GenReadPeer
    <3>1. \/ gen' = [gen EXCEPT !.pc = "push", !.remote = FALSE]
          \/ gen' = GenDone
      BY <2>3, Zenon DEF GenReadPeer
    <3>2. [gen EXCEPT !.pc = "push", !.remote = FALSE].pushed = gen.pushed
      BY <1>b
    <3>3. GenDone.pushed = {}
      BY DEF GenDone
    <3>4. UNCHANGED <<confirm, batch>>
      BY <2>3, Zenon DEF GenReadPeer
    <3>5. gen'.pushed \subseteq gen.pushed
      BY <3>1, <3>2, <3>3
    <3> QED
      BY <3>4, <3>5, RecordFrame
  <2>4. CASE GenPushFails
    BY <2>4, RecordFrame DEF GenPushFails, GenDone, BatchUpdate
  <2>5. CASE GenComplete
    <3>1. \A t \in Tickets : Recorded(t)'
      BY <2>5, <1>a DEF GenComplete, RecordInv
    <3> QED
      BY <2>5, <1>b, <3>1 DEF GenComplete, GenDone, RecordInv
  <2>6. CASE PhoneConfirm
    <3>1. UNCHANGED <<gen, batch>> /\ confirm'.items = confirm'.todo
      BY <2>6 DEF PhoneConfirm
    <3> QED
      BY <1>a, <1>b, <3>1 DEF RecordInv
  <2>7. CASE PhoneGivesUp
    BY <2>7, <1>c DEF PhoneGivesUp
  <2>8. CASE PhoneReportFailure
    BY <2>8, RecordFrame DEF PhoneReportFailure, BatchUpdate
  <2>9. CASE ConfirmBatch
    <3>1. gen' = gen /\ confirm'.pc = "idle"
      BY <2>9 DEF ConfirmBatch
    <3>2. CASE batch'.status = "COMPLETED" /\ batch.status # "COMPLETED"
      <4>1. confirm.items = Tickets
        BY <2>9, <3>2, <1>b DEF ConfirmBatch, ConfirmComplete, BatchUpdate
      <4>2. \A t \in Tickets : Recorded(t)
        BY <2>9, <4>1 DEF ConfirmBatch, RecordInv
      <4> QED
        BY <1>a, <1>b, <3>1, <4>2 DEF RecordInv
    <3>3. CASE ~(batch'.status = "COMPLETED" /\ batch.status # "COMPLETED")
      BY <3>1, <3>3, RecordFrame
    <3> QED
      BY <3>2, <3>3
  <2>10. ASSUME NEW t \in Tickets, GenAddUser(t) PROVE RecordInv'
    BY <2>10, <1>b, RecordFrame DEF GenAddUser
  <2>11. ASSUME NEW t \in Tickets, GenRecordId(t) PROVE RecordInv'
    <3>1. gen'.pushed = gen.pushed \cup {t} /\ UNCHANGED <<confirm, batch>>
      BY <2>11, <1>b DEF GenRecordId
    <3>2. Recorded(t)'
      BY <2>11 DEF GenRecordId, Recorded, Exists, IssueInv, TypeOK
    <3> QED
      BY <1>a, <1>b, <3>1, <3>2 DEF RecordInv
  <2>12. ASSUME NEW t \in Tickets, PhonePush(t) PROVE RecordInv'
    BY <2>12, <1>c DEF PhonePush
  <2>13. ASSUME NEW t \in Tickets, ConfirmItem(t) PROVE RecordInv'
    <3>1. UNCHANGED <<gen, batch>> /\ confirm'.pc = "items"
      BY <2>13, <1>b DEF ConfirmItem
    <3>2. confirm'.items = confirm.items /\ confirm'.todo = confirm.todo \ {t} /\ confirm.pc = "items"
      BY <2>13, <1>b DEF ConfirmItem
    <3>3. Recorded(t)'
      BY <2>13 DEF ConfirmItem, Recorded, Exists, IssueInv, TypeOK
    <3> QED
      BY <1>a, <1>b, <3>1, <3>2, <3>3 DEF RecordInv
  <2> QED
    BY <1>1, <2>1, <2>2, <2>3, <2>4, <2>5, <2>6, <2>7, <2>8, <2>9, <2>10,
       <2>11, <2>12, <2>13 DEF Generate
<1>2. ASSUME NEW s \in Syncs, SyncRead(s) \/ SyncDeadline(s) \/ SyncWork(s) PROVE RecordInv'
  BY <1>2, <1>c DEF SyncWork, SyncRead, SyncDeadline, SyncFindEnded, SyncCloseEnded,
     SyncFetch, SyncEnd, SyncRefresh, SyncPromote, SyncAdopt, SyncCreate, SyncNotify
<1>3. ASSUME NEW o \in Operators,
             OpWork(o) \/ \E k \in OpKinds, S \in SUBSET Tickets : OpRead(o, k, S)
      PROVE  RecordInv'
  <2>1. CASE OpClaimDelete(o)
    <3>1. UNCHANGED <<gen, confirm>> /\ (batch'.status = "COMPLETED" => batch.status = "COMPLETED")
      BY <2>1 DEF OpClaimDelete
    <3> QED
      BY <3>1, RecordFrame
  <2> QED
    BY <1>3, <1>c, <2>1 DEF OpWork, OpRead, OpClaimRevoke, OpDone, OpRouter, OpCutRouter,
       OpCutVoucher, OpKick, OpCloseSession
<1>4. CASE ExpiryRead \/ ExpiryWork
  BY <1>4, <1>c DEF ExpiryRead, ExpiryWork, ExpiryRouter, ExpiryVoucher, ExpirySession
<1>5. CASE Environment
  <2>1. CASE Crash
    BY <2>1, RecordFrame DEF Crash, GenDone
  <2> QED
    BY <1>5, <1>c, <2>1 DEF Environment, LengthenPlan, ChangePlanPrice, SwitchMode, SessionCleanup, Connect,
       Disconnect, DurationElapses, procs
<1>6. CASE UNCHANGED vars
  BY <1>6, <1>c DEF vars, procs
<1> QED
  BY <1>1, <1>2, <1>3, <1>4, <1>5, <1>6 DEF Next

\* A batch is reported complete only when every ticket is recorded, gone or
\* accepted by the router without an id.
THEOREM CompletedCorrect == Spec => []CompletedIsPushed
<1>1. RecordInv => CompletedIsPushed
  BY DEF RecordInv, Recorded, CompletedIsPushed
<1> QED
  BY <1>1, RecordInit, RecordStep, TypeCorrect, IssueCorrect, PTL DEF Spec

-----------------------------------------------------------------------------
(* The refinement of TicketLifecycle.                                        *)

\* A ticket without row was never recorded on the router; a ticket that has
\* elapsed or is closed was sold.
LifeInv ==
  \A t \in Tickets : /\ status[t] = "ABSENT" => ~provisioned[t]
                     /\ expiresAt[t] \/ due[t] => status[t] = "ACTIVE"

\* The steps that change what the verification screen answers.
LifeMoves ==
  \/ UNCHANGED <<status, provisioned, expiresAt, due>>
  \/ GenCreateVouchers \/ LengthenPlan
  \/ \E t \in Tickets :
       GenRecordId(t) \/ ConfirmItem(t) \/ ExpiryVoucher(t) \/ DurationElapses(t)
  \/ \E s \in Syncs, t \in Tickets : SyncPromote(s, t)
  \/ \E o \in Operators : \/ OpClaimRevoke(o) \/ OpClaimDelete(o)
                          \/ \E t \in Tickets : OpCutVoucher(o, t)

LEMMA LifeSteps == [Next]_vars => LifeMoves
<1> SUFFICES ASSUME [Next]_vars PROVE LifeMoves
  OBVIOUS
<1> USE DEF db, LifeMoves
<1>1. CASE Generate
  BY <1>1 DEF Generate, GenCreateBatch, GenReadPeer, GenPushFails, GenComplete, PhoneConfirm,
     PhoneGivesUp, PhoneReportFailure, ConfirmBatch, GenAddUser, PhonePush
<1>2. ASSUME NEW s \in Syncs, SyncRead(s) \/ SyncDeadline(s) \/ SyncWork(s) PROVE LifeMoves
  BY <1>2 DEF SyncWork, SyncRead, SyncDeadline, SyncFindEnded, SyncCloseEnded, SyncFetch,
     SyncEnd, SyncRefresh, SyncAdopt, SyncCreate, SyncNotify
<1>3. ASSUME NEW o \in Operators,
             OpWork(o) \/ \E k \in OpKinds, S \in SUBSET Tickets : OpRead(o, k, S)
      PROVE  LifeMoves
  BY <1>3 DEF OpWork, OpRead, OpDone, OpCloseSession, OpRouter, OpCutRouter, OpKick
<1>4. CASE ExpiryRead \/ ExpiryWork
  BY <1>4 DEF ExpiryRead, ExpiryWork, ExpiryRouter, ExpirySession
<1>5. CASE Environment
  BY <1>5 DEF Environment, ChangePlanPrice, SwitchMode, Crash, SessionCleanup, Connect,
     Disconnect
<1>6. CASE UNCHANGED vars
  BY <1>6 DEF vars
<1> QED
  BY <1>1, <1>2, <1>3, <1>4, <1>5, <1>6 DEF Next

LEMMA LifeInit == Init => LifeInv
  BY DEF Init, LifeInv

LEMMA LifeInvStep == TypeOK /\ IssueInv /\ LifeInv /\ [Next]_vars => LifeInv'
<1> SUFFICES ASSUME TypeOK, IssueInv, LifeInv, [Next]_vars PROVE LifeInv'
  OBVIOUS
<1> USE DEF LifeInv, TypeOK
<1>1. CASE UNCHANGED <<status, provisioned, expiresAt, due>>
  BY <1>1
<1>2. CASE GenCreateVouchers
  BY <1>2 DEF GenCreateVouchers, IssueInv
<1>3. CASE LengthenPlan
  BY <1>3 DEF LengthenPlan
<1>4. ASSUME NEW t \in Tickets, GenRecordId(t) \/ ConfirmItem(t) PROVE LifeInv'
  BY <1>4 DEF GenRecordId, ConfirmItem, Exists
<1>5. ASSUME NEW t \in Tickets, ExpiryVoucher(t) \/ DurationElapses(t) PROVE LifeInv'
  BY <1>5 DEF ExpiryVoucher, DurationElapses
<1>6. ASSUME NEW s \in Syncs, NEW t \in Tickets, SyncPromote(s, t) PROVE LifeInv'
  BY <1>6 DEF SyncPromote, Promotable
<1>7. ASSUME NEW o \in Operators, OpClaimRevoke(o) PROVE LifeInv'
  BY <1>7 DEF OpClaimRevoke, Claimable
<1>8. ASSUME NEW o \in Operators, OpClaimDelete(o) PROVE LifeInv'
  BY <1>8 DEF OpClaimDelete, Claimable
<1>9. ASSUME NEW o \in Operators, NEW t \in Tickets, OpCutVoucher(o, t) PROVE LifeInv'
  BY <1>9 DEF OpCutVoucher
<1> QED
  BY <1>1, <1>2, <1>3, <1>4, <1>5, <1>6, <1>7, <1>8, <1>9, LifeSteps DEF LifeMoves

LEMMA LifeCorrect == Spec => []LifeInv
  BY TypeCorrect, IssueCorrect, LifeInit, LifeInvStep, PTL DEF Spec

\* The answer of the screen for a row's columns.
Screen(row, recorded, past) ==
  IF row \in {"ABSENT", "DELETED", "REVOKED"} THEN row
  ELSE IF ~recorded THEN "UNAVAILABLE"
  ELSE IF row = "GENERATED" THEN "AVAILABLE" ELSE IF past THEN "EXPIRED" ELSE "IN_USE"

LEMMA ScreenIs ==
  ASSUME TypeOK, NEW t \in Tickets
  PROVE  TicketState(t) = Screen(status[t], provisioned[t], expiresAt[t] \/ due[t])
  BY DEF TypeOK, TicketState, Screen, Exists, PastExpiry

LEMMA ScreenIsNext ==
  ASSUME TypeOK', NEW t \in Tickets
  PROVE  TicketState(t)' = Screen(status'[t], provisioned'[t], expiresAt'[t] \/ due'[t])
  BY DEF TypeOK, TicketState, Screen, Exists, PastExpiry

\* What TicketLifecycle sees.
Seen == [t \in Tickets |-> TicketState(t)]
Sold == [t \in Tickets |-> status[t] = "ACTIVE"]

\* A row's columns stay.
RowStays(t) ==
  /\ status'[t] = status[t] /\ provisioned'[t] = provisioned[t]
  /\ (expiresAt'[t] \/ due'[t]) <=> (expiresAt[t] \/ due[t])

\* One ticket is seen in another state.
LEMMA OneSeen ==
  ASSUME TypeOK, TypeOK', NEW t \in Tickets, \A x \in Tickets : x # t => RowStays(x),
         NEW s, Screen(status'[t], provisioned'[t], expiresAt'[t] \/ due'[t]) = s
  PROVE  Seen' = [Seen EXCEPT ![t] = s]
<1>1. TicketState(t)' = s
  BY ScreenIsNext
<1>2. ASSUME NEW x \in Tickets, x # t PROVE TicketState(x)' = TicketState(x)
  <2>1. TicketState(x) = Screen(status[x], provisioned[x], expiresAt[x] \/ due[x])
    BY ScreenIs
  <2>2. TicketState(x)' = Screen(status'[x], provisioned'[x], expiresAt'[x] \/ due'[x])
    BY ScreenIsNext
  <2> QED
    BY <1>2, <2>1, <2>2 DEF RowStays, Screen
<1> QED
  BY <1>1, <1>2 DEF Seen

LEMMA SoldStays ==
  ASSUME \A t \in Tickets : status'[t] = "ACTIVE" <=> status[t] = "ACTIVE"
  PROVE  Sold' = Sold
  BY DEF Sold

\* What the screen answers depends on these columns alone.
LEMMA NothingSeen ==
  ASSUME TypeOK, TypeOK', UNCHANGED expiresAt, \A t \in Tickets : status'[t] = status[t],
         \A t \in Tickets :
           Screen(status'[t], provisioned'[t], expiresAt'[t] \/ due'[t]) =
           Screen(status[t], provisioned[t], expiresAt[t] \/ due[t])
  PROVE  UNCHANGED Lifecycle!lifecycleVars
<1>1. \A t \in Tickets : TicketState(t)' = TicketState(t)
  BY ScreenIs, ScreenIsNext
<1>2. Seen' = Seen
  BY <1>1 DEF Seen
<1>3. Sold' = Sold
  BY SoldStays
<1> QED
  BY <1>2, <1>3 DEF Lifecycle!lifecycleVars, Seen, Sold

\* The codes of the batch are created.
LEMMA IssueSeen ==
  ASSUME TypeOK, TypeOK', IssueInv, LifeInv, GenCreateVouchers
  PROVE  Lifecycle!Next
<1>1. \A t \in Tickets : status[t] = "ABSENT" /\ ~provisioned[t] /\ status'[t] = "GENERATED"
  BY DEF GenCreateVouchers, IssueInv, LifeInv
<1>2. UNCHANGED <<provisioned, expiresAt, due>>
  BY DEF GenCreateVouchers
<1>3. \A t \in Tickets : Seen[t] = "ABSENT"
  BY <1>1, ScreenIs DEF Seen, Screen
<1>4. Seen' = [t \in Tickets |-> "UNAVAILABLE"]
  <2>1. ASSUME NEW t \in Tickets PROVE TicketState(t)' = "UNAVAILABLE"
    <3>1. TicketState(t)' = Screen(status'[t], provisioned'[t], expiresAt'[t] \/ due'[t])
      BY ScreenIsNext
    <3> QED
      BY <1>1, <1>2, <3>1 DEF Screen
  <2> QED
    BY <2>1 DEF Seen
<1>5. Sold' = Sold
  BY <1>1, SoldStays
<1>6. Lifecycle!Issue
  BY <1>2, <1>3, <1>4, <1>5 DEF Lifecycle!Issue, Seen, Sold
<1> QED
  BY <1>6 DEF Lifecycle!Next

\* The router's id of a ticket is recorded.
LEMMA RecordSeen ==
  ASSUME TypeOK, TypeOK', IssueInv, LifeInv, NEW t \in Tickets, GenRecordId(t) \/ ConfirmItem(t),
         provisioned' # provisioned
  PROVE  Lifecycle!Next \/ UNCHANGED Lifecycle!lifecycleVars
<1>1. /\ provisioned' = [provisioned EXCEPT ![t] = Exists(t)]
      /\ UNCHANGED <<status, expiresAt, due>> /\ status[t] # "ABSENT"
  BY DEF GenRecordId, ConfirmItem, IssueInv
<1>2. /\ provisioned'[t] = (status[t] \notin {"ABSENT", "DELETED"})
      /\ \A x \in Tickets : x # t => RowStays(x)
  BY <1>1 DEF TypeOK, Exists, RowStays
<1>3. CASE status[t] \in {"DELETED", "REVOKED"} \/ provisioned[t]
  <2>1. \A x \in Tickets :
           Screen(status'[x], provisioned'[x], expiresAt'[x] \/ due'[x]) =
           Screen(status[x], provisioned[x], expiresAt[x] \/ due[x])
    BY <1>1, <1>2, <1>3 DEF RowStays, Screen, TypeOK
  <2> QED
    BY <1>1, <2>1, NothingSeen
<1>4. CASE status[t] \in {"GENERATED", "ACTIVE"} /\ ~provisioned[t]
  <2> DEFINE past == expiresAt[t] \/ due[t]
             s == IF status[t] = "GENERATED" THEN "AVAILABLE"
                  ELSE IF past THEN "EXPIRED" ELSE "IN_USE"
  <2>1. Seen[t] = "UNAVAILABLE"
    BY <1>4, ScreenIs DEF Seen, Screen
  <2>2. Screen(status'[t], provisioned'[t], expiresAt'[t] \/ due'[t]) = s
    BY <1>1, <1>2, <1>4 DEF Screen
  <2>3. Seen' = [Seen EXCEPT ![t] = s]
    BY <1>2, <2>2, OneSeen
  <2>4. Sold' = Sold
    BY <1>1, SoldStays
  <2>5. /\ s \in IF Sold[t] THEN {"IN_USE", "EXPIRED"} ELSE {"AVAILABLE"}
        /\ expiresAt[t] => s = "EXPIRED"
    BY <1>4 DEF Sold, LifeInv
  <2> HIDE DEF s
  <2>6. Lifecycle!Record(t)
    BY <1>1, <2>1, <2>3, <2>4, <2>5 DEF Lifecycle!Record, Seen, Sold
  <2> QED
    BY <2>6 DEF Lifecycle!Next
<1> QED
  BY <1>1, <1>3, <1>4 DEF TypeOK

\* The sale.
LEMMA SellSeen ==
  ASSUME TypeOK, TypeOK', LifeInv, NEW s \in Syncs, NEW t \in Tickets, SyncPromote(s, t)
  PROVE  Lifecycle!Next \/ UNCHANGED Lifecycle!lifecycleVars
<1>1. UNCHANGED <<provisioned, expiresAt, due>>
  BY DEF SyncPromote
<1>2. CASE ~Promotable(t)
  <2>1. UNCHANGED status
    BY <1>2 DEF SyncPromote
  <2> QED
    BY <1>1, <2>1, NothingSeen
<1>3. CASE Promotable(t)
  <2>1. status' = [status EXCEPT ![t] = "ACTIVE"] /\ status[t] = "GENERATED"
    BY <1>3 DEF SyncPromote, Promotable
  <2>2. /\ status'[t] = "ACTIVE" /\ ~expiresAt[t] /\ ~due[t]
        /\ \A x \in Tickets : x # t => status'[x] = status[x]
    BY <2>1 DEF TypeOK, LifeInv
  <2>3. \A x \in Tickets : x # t => RowStays(x)
    BY <1>1, <2>2 DEF RowStays
  <2> DEFINE v == IF Seen[t] = "AVAILABLE" THEN "IN_USE" ELSE Seen[t]
  <2>4. Seen[t] = IF provisioned[t] THEN "AVAILABLE" ELSE "UNAVAILABLE"
    BY <2>1, ScreenIs DEF Seen, Screen
  <2>5. Screen(status'[t], provisioned'[t], expiresAt'[t] \/ due'[t]) = v
    BY <1>1, <2>2, <2>4 DEF Screen
  <2>6. Seen' = [Seen EXCEPT ![t] = v]
    BY <2>3, <2>5, OneSeen
  <2>7. Sold' = [Sold EXCEPT ![t] = TRUE] /\ ~Sold[t]
    BY <2>1, <2>2 DEF Sold
  <2>8. Seen[t] \in {"UNAVAILABLE", "AVAILABLE"}
    BY <2>4
  <2>9. Lifecycle!Sell(t)
    BY <1>1, <2>6, <2>7, <2>8 DEF Lifecycle!Sell, Seen, Sold
  <2> QED
    BY <2>9 DEF Lifecycle!Next
<1> QED
  BY <1>2, <1>3

\* The duration elapses.
LEMMA ExpireSeen ==
  ASSUME TypeOK, TypeOK', NEW t \in Tickets, DurationElapses(t)
  PROVE  Lifecycle!Next \/ UNCHANGED Lifecycle!lifecycleVars
<1>1. /\ UNCHANGED <<status, provisioned, expiresAt>> /\ status[t] = "ACTIVE" /\ ~due[t]
      /\ due' = [due EXCEPT ![t] = TRUE]
  BY DEF DurationElapses
<1>2. due'[t] /\ \A x \in Tickets : x # t => RowStays(x)
  BY <1>1 DEF TypeOK, RowStays
<1>3. CASE expiresAt[t] \/ ~provisioned[t]
  <2>1. \A x \in Tickets :
           Screen(status'[x], provisioned'[x], expiresAt'[x] \/ due'[x]) =
           Screen(status[x], provisioned[x], expiresAt[x] \/ due[x])
    BY <1>1, <1>2, <1>3 DEF RowStays, Screen
  <2> QED
    BY <1>1, <2>1, NothingSeen
<1>4. CASE ~expiresAt[t] /\ provisioned[t]
  <2>1. Seen[t] = "IN_USE"
    BY <1>1, <1>4, ScreenIs DEF Seen, Screen
  <2>2. Screen(status'[t], provisioned'[t], expiresAt'[t] \/ due'[t]) = "EXPIRED"
    BY <1>1, <1>2, <1>4 DEF Screen
  <2>3. Seen' = [Seen EXCEPT ![t] = "EXPIRED"]
    BY <1>2, <2>2, OneSeen
  <2>4. Sold' = Sold
    BY <1>1, SoldStays
  <2>5. Lifecycle!Expire(t)
    BY <1>1, <2>1, <2>3, <2>4 DEF Lifecycle!Expire, Seen, Sold
  <2> QED
    BY <2>5 DEF Lifecycle!Next
<1> QED
  BY <1>3, <1>4

\* A longer plan gives time again to the tickets on the router that no expiry
\* has closed.
LEMMA ExtendSeen ==
  ASSUME TypeOK, TypeOK', LifeInv, LengthenPlan
  PROVE  Lifecycle!Next \/ UNCHANGED Lifecycle!lifecycleVars
<1>1. PICK S \in SUBSET {t \in Tickets : due[t]} :
        due' = [t \in Tickets |-> due[t] /\ t \notin S]
  BY DEF LengthenPlan
<1>2. UNCHANGED <<status, provisioned, expiresAt>>
  BY DEF LengthenPlan
<1> DEFINE R == {t \in S : provisioned[t] /\ ~expiresAt[t]}
<1>3. \A t \in Tickets : due'[t] <=> due[t] /\ t \notin S
  BY <1>1
<1>4. \A t \in R : t \in Tickets /\ status[t] = "ACTIVE" /\ due[t]
  BY DEF LifeInv
<1>5. ASSUME NEW t \in Tickets, t \notin R PROVE TicketState(t)' = TicketState(t)
  <2>1. TicketState(t) = Screen(status[t], provisioned[t], expiresAt[t] \/ due[t])
    BY ScreenIs
  <2>2. TicketState(t)' = Screen(status'[t], provisioned'[t], expiresAt'[t] \/ due'[t])
    BY ScreenIsNext
  <2>3. t \in S => expiresAt[t] \/ ~provisioned[t]
    BY <1>5
  <2> QED
    BY <1>2, <1>3, <2>1, <2>2, <2>3 DEF Screen
<1>6. ASSUME NEW t \in R PROVE TicketState(t) = "EXPIRED" /\ TicketState(t)' = "IN_USE"
  <2>0. t \in Tickets /\ t \in S /\ provisioned[t] /\ ~expiresAt[t]
    BY <1>4, <1>6
  <2>1. TicketState(t) = Screen(status[t], provisioned[t], expiresAt[t] \/ due[t])
    BY <2>0, ScreenIs
  <2>2. TicketState(t)' = Screen(status'[t], provisioned'[t], expiresAt'[t] \/ due'[t])
    BY <2>0, ScreenIsNext
  <2> QED
    BY <1>2, <1>3, <1>4, <2>0, <2>1, <2>2 DEF Screen
<1>7. Sold' = Sold
  BY <1>2, SoldStays
<1>8. CASE R = {}
  <2>1. Seen' = Seen
    BY <1>5, <1>8 DEF Seen
  <2> QED
    BY <1>2, <1>7, <2>1 DEF Lifecycle!lifecycleVars, Seen, Sold
<1>9. CASE R # {}
  <2> HIDE DEF R
  <2>1. Seen' = [t \in Tickets |-> IF t \in R THEN "IN_USE" ELSE Seen[t]]
    BY <1>5, <1>6 DEF Seen
  <2>2. \A t \in R : Seen[t] = "EXPIRED" /\ ~expiresAt[t]
    BY <1>4, <1>6 DEF R, Seen
  <2>3. R \subseteq Tickets
    BY <1>4
  <2>4. Lifecycle!Extend(R)
    BY <1>2, <1>7, <1>9, <2>1, <2>2 DEF Lifecycle!Extend, Seen, Sold
  <2> QED
    BY <2>3, <2>4 DEF Lifecycle!Next
<1> QED
  BY <1>8, <1>9

\* The expiry is enforced or the ticket is cut.
LEMMA CloseSeen ==
  ASSUME TypeOK, TypeOK', NEW t \in Tickets,
         expiresAt' = [expiresAt EXCEPT ![t] = @ \/ status[t] = "ACTIVE"],
         UNCHANGED <<status, provisioned, due>>
  PROVE  Lifecycle!Next \/ UNCHANGED Lifecycle!lifecycleVars
<1>1. CASE expiresAt[t] \/ status[t] # "ACTIVE"
  <2>1. UNCHANGED expiresAt
    BY <1>1 DEF TypeOK
  <2> QED
    BY <2>1, NothingSeen
<1>2. CASE ~expiresAt[t] /\ status[t] = "ACTIVE"
  <2>1. /\ expiresAt' = [expiresAt EXCEPT ![t] = TRUE] /\ expiresAt'[t]
        /\ \A x \in Tickets : x # t => RowStays(x)
    BY <1>2 DEF TypeOK, RowStays
  <2> DEFINE v == IF Seen[t] = "IN_USE" THEN "EXPIRED" ELSE Seen[t]
  <2>2. Seen[t] = IF ~provisioned[t] THEN "UNAVAILABLE" ELSE IF due[t] THEN "EXPIRED" ELSE "IN_USE"
    BY <1>2, ScreenIs DEF Seen, Screen
  <2>3. Screen(status'[t], provisioned'[t], expiresAt'[t] \/ due'[t]) = v
    BY <1>2, <2>1, <2>2 DEF Screen
  <2>4. Seen' = [Seen EXCEPT ![t] = v]
    BY <2>1, <2>3, OneSeen
  <2>5. Sold' = Sold /\ Sold[t]
    BY <1>2, SoldStays DEF Sold
  <2>6. Lifecycle!Close(t)
    BY <1>2, <2>1, <2>4, <2>5 DEF Lifecycle!Close, Seen, Sold
  <2> QED
    BY <2>6 DEF Lifecycle!Next
<1> QED
  BY <1>1, <1>2

\* Tickets that were not sold are withdrawn together.
LEMMA WithdrawSeen ==
  ASSUME TypeOK, TypeOK', NEW S \in SUBSET Tickets, NEW to \in {"REVOKED", "DELETED"},
         \A t \in S : Claimable(t),
         status' = [t \in Tickets |-> IF t \in S THEN to ELSE status[t]],
         \A t \in Tickets : t \notin S => provisioned'[t] = provisioned[t],
         UNCHANGED <<expiresAt, due>>
  PROVE  Lifecycle!Next \/ UNCHANGED Lifecycle!lifecycleVars
<1>1. ASSUME NEW t \in Tickets, t \notin S PROVE TicketState(t)' = TicketState(t)
  <2>1. TicketState(t) = Screen(status[t], provisioned[t], expiresAt[t] \/ due[t])
    BY ScreenIs
  <2>2. TicketState(t)' = Screen(status'[t], provisioned'[t], expiresAt'[t] \/ due'[t])
    BY ScreenIsNext
  <2> QED
    BY <1>1, <2>1, <2>2
<1>2. ASSUME NEW t \in S
      PROVE  /\ TicketState(t) \in {"UNAVAILABLE", "AVAILABLE", "REVOKED"}
             /\ TicketState(t)' = to
  <2>1. TicketState(t) = Screen(status[t], provisioned[t], expiresAt[t] \/ due[t])
    BY ScreenIs
  <2>2. TicketState(t)' = Screen(status'[t], provisioned'[t], expiresAt'[t] \/ due'[t])
    BY ScreenIsNext
  <2>3. status[t] \in {"GENERATED", "REVOKED"} /\ status'[t] = to
    BY DEF Claimable
  <2> QED
    BY <2>1, <2>2, <2>3 DEF Screen
<1>3. Seen' = [t \in Tickets |-> IF t \in S THEN to ELSE Seen[t]]
  BY <1>1, <1>2 DEF Seen
<1>4. Sold' = Sold
  <2>1. \A t \in Tickets : status'[t] = "ACTIVE" <=> status[t] = "ACTIVE"
    BY DEF Claimable
  <2> QED
    BY <2>1, SoldStays
<1>5. CASE S = {}
  <2>1. Seen' = Seen
    BY <1>3, <1>5 DEF Seen
  <2> QED
    BY <1>4, <2>1 DEF Lifecycle!lifecycleVars, Seen, Sold
<1>6. CASE S # {}
  <2>1. \A t \in S : ~Sold[t] /\ Seen[t] \in {"UNAVAILABLE", "AVAILABLE", "REVOKED"}
    BY <1>2 DEF Claimable, Seen, Sold
  <2>2. Lifecycle!Withdraw(S, to)
    BY <1>3, <1>4, <1>6, <2>1 DEF Lifecycle!Withdraw, Seen, Sold
  <2> QED
    BY <2>2 DEF Lifecycle!Next
<1> QED
  BY <1>5, <1>6

LEMMA ClaimSeen ==
  ASSUME TypeOK, TypeOK', NEW o \in Operators, OpClaimRevoke(o) \/ OpClaimDelete(o)
  PROVE  Lifecycle!Next \/ UNCHANGED Lifecycle!lifecycleVars
<1> DEFINE claimed == {t \in op[o].tgt : Claimable(t)}
<1>1. claimed \in SUBSET Tickets /\ \A t \in claimed : Claimable(t)
  BY DEF TypeOK, OpState
<1>2. PICK to \in {"REVOKED", "DELETED"} :
        status' = [t \in Tickets |-> IF t \in claimed THEN to ELSE status[t]]
  BY DEF OpClaimRevoke, OpClaimDelete
<1>3. /\ UNCHANGED <<expiresAt, due>>
      /\ \A t \in Tickets : t \notin claimed => provisioned'[t] = provisioned[t]
  BY DEF OpClaimRevoke, OpClaimDelete, TypeOK
<1> HIDE DEF claimed
<1> QED
  BY <1>1, <1>2, <1>3, WithdrawSeen

\* Every step of the service is a step of the life cycle or none.
LEMMA LifecycleStep ==
  TypeOK /\ TypeOK' /\ IssueInv /\ LifeInv /\ [Next]_vars
    => [Lifecycle!Next]_(Lifecycle!lifecycleVars)
<1> SUFFICES ASSUME TypeOK, TypeOK', IssueInv, LifeInv, [Next]_vars
             PROVE  Lifecycle!Next \/ UNCHANGED Lifecycle!lifecycleVars
  OBVIOUS
<1>1. CASE UNCHANGED <<status, provisioned, expiresAt, due>>
  BY <1>1, NothingSeen
<1>2. ASSUME NEW t \in Tickets, GenRecordId(t) \/ ConfirmItem(t) \/ DurationElapses(t)
      PROVE  Lifecycle!Next \/ UNCHANGED Lifecycle!lifecycleVars
  <2>1. CASE (GenRecordId(t) \/ ConfirmItem(t)) /\ provisioned' # provisioned
    BY <2>1, RecordSeen
  <2>2. CASE (GenRecordId(t) \/ ConfirmItem(t)) /\ provisioned' = provisioned
    <3>1. UNCHANGED <<status, provisioned, expiresAt, due>>
      BY <2>2 DEF GenRecordId, ConfirmItem
    <3> QED
      BY <3>1, <1>1
  <2>3. CASE DurationElapses(t)
    BY <2>3, ExpireSeen
  <2> QED
    BY <1>2, <2>1, <2>2, <2>3
<1>3. ASSUME NEW t \in Tickets, ExpiryVoucher(t)
      PROVE  Lifecycle!Next \/ UNCHANGED Lifecycle!lifecycleVars
  BY <1>3, CloseSeen DEF ExpiryVoucher
<1>4. ASSUME NEW o \in Operators, NEW t \in Tickets, OpCutVoucher(o, t)
      PROVE  Lifecycle!Next \/ UNCHANGED Lifecycle!lifecycleVars
  BY <1>4, CloseSeen DEF OpCutVoucher
<1> QED
  BY <1>1, <1>2, <1>3, <1>4, LifeSteps, IssueSeen, ExtendSeen, SellSeen, ClaimSeen DEF LifeMoves

\* The service implements the life cycle of TicketLifecycle: whatever functions
\* interleave and wherever the backend restarts, the answer of the verification
\* screen moves along its edges only, and no withdrawal reaches a sold ticket.
THEOREM LifecycleCorrect == Spec => ImplementsLifecycle
<1>1. Init => Lifecycle!Init
  <2> SUFFICES ASSUME Init PROVE Lifecycle!Init
    OBVIOUS
  <2>1. \A t \in Tickets : TicketState(t) = "ABSENT" /\ status[t] # "ACTIVE"
    BY ScreenIs, TypeInit DEF Init, Screen
  <2>2. Seen = [t \in Tickets |-> "ABSENT"]
    BY <2>1 DEF Seen
  <2>3. Sold = [t \in Tickets |-> FALSE]
    BY <2>1 DEF Sold
  <2>4. expiresAt = [t \in Tickets |-> FALSE]
    BY DEF Init
  <2> QED
    BY <2>2, <2>3, <2>4 DEF Lifecycle!Init, Seen, Sold
<1> QED
  BY <1>1, LifecycleStep, TypeCorrect, IssueCorrect, LifeCorrect, PTL
  DEF Spec, ImplementsLifecycle, Lifecycle!Spec
=============================================================================
