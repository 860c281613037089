-------------------------- MODULE RemoteAccessProofs --------------------------
(* Theorems about RemoteAccess, for any number of routers, addresses, calls   *)
(* and reconciles that overlap.                                               *)
EXTENDS RemoteAccess, Numbers, TLAPS

Slots == Calls \cup {Cron}

\* Peer rows read in one query.
Lists == UNION {[S -> Rows] : S \in SUBSET Routers}

Ops == {"idle", "provision", "resync", "revoke", "adminRevoke", "delete", "withdraw",
        "cron", "open", "close"}
Places == {"", "read", "add", "commit", "remove", "unrule", "rule", "list", "next"}
CallRecords ==
  [op : Ops, at : Places, router : Routers \cup {NoRouter}, row : Rows,
   todo : SUBSET Routers, listed : Lists, key : Keys \cup {0},
   until : 0..(MaxTime + 1), src : Sources \cup {NoSource}]
CycleRecords == [at : {"idle", "peers", "prune", "rules"}, seen : Lists,
                 todo : SUBSET Routers, extra : SUBSET Keys]

\* A row: none, or one with a key and an address.
GoodRow(x) ==
  /\ x \in Rows
  /\ x = NoRow \/ (x.status # "NONE" /\ x.key \in Keys /\ x.ip \in Addresses)

GoodRows ==
  /\ row \in [Routers -> Rows] /\ \A r \in Routers : GoodRow(row[r])
  /\ \A p, q \in Routers : row[p].ip = row[q].ip /\ row[p].ip # 0 => p = q

\* A call, by the place it has reached.
GoodCall(x) ==
  /\ x \in CallRecords
  /\ x.at \in {"read", "add", "commit", "remove", "unrule", "rule"} => x.router \in Routers
  /\ x.at # "list" => x.todo \subseteq DOMAIN x.listed
  /\ x.at = "add" => x.key \in Keys
  /\ x.op = "provision" =>
       /\ x.at \in {"read", "add", "commit"} /\ x.key \in 1..MaxCalls
       /\ IF x.at = "read" THEN x.row = NoRow ELSE x.row.ip \in Addresses

\* A provision that updates a row gives it the address it has: the row of its
\* router is the one it read, or was deleted with the router.
Provisions ==
  \A c \in Slots : LET x == call[c] IN
    x.op = "provision" /\ x.at # "read" /\ x.row.status # "NONE" =>
      \/ row[x.router] = NoRow /\ ~live[x.router]
      \/ row[x.router].ip = x.row.ip

\* A key belongs to one router, or to one provision that has not committed yet.
KeysOwned ==
  /\ \A r \in Routers : row[r] # NoRow => row[r].key <= made \/ row[r].key > MaxCalls
  /\ \A p, q \in Routers : row[p] # NoRow /\ row[q] # NoRow /\ row[p].key = row[q].key => p = q
  /\ \A c \in Slots : call[c].op = "provision" =>
       /\ call[c].key <= made
       /\ \A r \in Routers : row[r] # NoRow => row[r].key # call[c].key
       /\ \A d \in Slots : call[d].op = "provision" /\ call[d].key = call[c].key => d = c

\* A cycle works on active rows.
GoodCycle(x) ==
  /\ x \in CycleRecords /\ x.todo \subseteq DOMAIN x.seen
  /\ \A r \in DOMAIN x.seen : x.seen[r].key \in Keys /\ x.seen[r].ip \in Addresses

Typed ==
  /\ GoodRows
  /\ DOMAIN wg \subseteq Keys /\ \A k \in DOMAIN wg : wg[k] \in Addresses \cup {0}
  /\ rules \in [Addresses \X Sources -> Nat]
  /\ live \in [Routers -> BOOLEAN] /\ consent \in [Tenants -> BOOLEAN]
  /\ paid \in [Tenants -> BOOLEAN] /\ closed \in [Tenants -> BOOLEAN]
  /\ call \in [Slots -> CallRecords] /\ \A c \in Slots : GoodCall(call[c])
  /\ cycle \in [Cycles -> CycleRecords] /\ \A k \in Cycles : GoodCycle(cycle[k])
  /\ now \in 1..MaxTime /\ made \in 0..MaxCalls /\ quiet \subseteq Cycles
  /\ troubles \in Nat

IInv == Typed /\ Provisions /\ KeysOwned

-----------------------------------------------------------------------------
(* Data.                                                                     *)

LEMMA NoRowType ==
  /\ NoRow \in Rows /\ NoRow.status = "NONE" /\ NoRow.ip = 0 /\ NoRow.until = 0
  /\ NoRow.src = NoSource /\ GoodRow(NoRow)
<1>1. NoRow \in Rows
  BY RemoteAssumption DEF NoRow, Rows
<1> QED
  BY <1>1 DEF NoRow, GoodRow

LEMMA ListType ==
  ASSUME NEW S \in SUBSET Routers, NEW f, \A r \in S : f[r] \in Rows
  PROVE  [r \in S |-> f[r]] \in Lists
  BY DEF Lists

LEMMA ListItems ==
  ASSUME NEW l \in Lists
  PROVE  DOMAIN l \subseteq Routers /\ \A r \in DOMAIN l : l[r] \in Rows
  BY DEF Lists

LEMMA IdleType ==
  /\ Idle \in CallRecords /\ Idle.op = "idle" /\ Idle.at = "" /\ Idle.todo = {}
  /\ DOMAIN Idle.listed = {} /\ Idle.row = NoRow /\ Idle.key = 0 /\ GoodCall(Idle)
<1>1. [r \in {} |-> NoRow] \in Lists
  <2>1. [r \in {} |-> NoRow] \in [{} -> Rows]
    OBVIOUS
  <2> QED
    BY <2>1 DEF Lists
<1>2. Idle \in CallRecords
  BY <1>1, NoRowType, RemoteAssumption DEF Idle, CallRecords, Ops, Places
<1>3. /\ Idle.op = "idle" /\ Idle.at = "" /\ Idle.todo = {} /\ DOMAIN Idle.listed = {}
      /\ Idle.row = NoRow /\ Idle.key = 0
  BY DEF Idle
<1> QED
  BY <1>2, <1>3 DEF GoodCall

LEMMA WaitingType ==
  /\ Waiting \in CycleRecords /\ Waiting.at = "idle" /\ GoodCycle(Waiting)
<1>1. [r \in {} |-> NoRow] \in Lists
  <2>1. [r \in {} |-> NoRow] \in [{} -> Rows]
    OBVIOUS
  <2> QED
    BY <2>1 DEF Lists
<1>2. Waiting \in CycleRecords
  BY <1>1 DEF Waiting, CycleRecords
<1>3. Waiting.at = "idle" /\ Waiting.todo = {} /\ DOMAIN Waiting.seen = {}
  BY DEF Waiting
<1> QED
  BY <1>2, <1>3 DEF GoodCycle

LEMMA KeyTypes ==
  /\ Keys \subseteq Nat \ {0}
  /\ \A k \in 1..MaxCalls : k \in Keys
  /\ \A r \in DOMAIN Start : StartKey(r) \in Keys /\ StartKey(r) > MaxCalls
  /\ \A p, q \in DOMAIN Start : StartKey(p) = StartKey(q) => p = q
<1>1. MaxCalls \in Nat /\ \A r \in DOMAIN Start : Start[r] \in Nat \ {0}
  BY RemoteAssumption
<1>2. \A p, q \in DOMAIN Start : Start[p] = Start[q] => p = q
  BY RemoteAssumption
<1> QED
  BY <1>1, <1>2 DEF Keys, StartKey

-----------------------------------------------------------------------------
(* What a step does to the calls and to the rows.                            *)

\* The calls are as they were, or all of them are lost, or one of them has
\* moved: a provision begins with a new key, reads the row of its router, or
\* keeps what it has read.
Moves(c, y) ==
  y.op = "provision" =>
    \/ y.at = "read" /\ y.key = made + 1 /\ made' = made + 1
    \/ /\ call[c].op = "provision" /\ y.key = call[c].key /\ y.router = call[c].router
       /\ y.at # "read" =>
            \/ call[c].at # "read" /\ y.row = call[c].row
            \/ UNCHANGED row /\ (y.row.status # "NONE" => y.row = row[y.router])

CallMoves ==
  \/ UNCHANGED call
  \/ call' = [c \in Slots |-> Idle]
  \/ \E c \in Slots : \E y : GoodCall(y) /\ call' = [call EXCEPT ![c] = y] /\ Moves(c, y)

\* A row keeps its key and its address, or goes with its router.
RowKept(r) ==
  \/ row'[r] = row[r]
  \/ /\ row[r] # NoRow /\ row'[r] # NoRow
     /\ row'[r].key = row[r].key /\ row'[r].ip = row[r].ip
  \/ row'[r] = NoRow /\ ~live'[r]

RowsKept ==
  /\ row' \in [Routers -> Rows] /\ \A r \in Routers : GoodRow(row'[r]) /\ RowKept(r)
  /\ live' \in [Routers -> BOOLEAN] /\ \A r \in Routers : live'[r] => live[r]

\* The transaction of a provision.
RowGiven(c) == LET r == call[c].router IN
  /\ call[c].op = "provision" /\ call[c].at = "commit"
  /\ call' = [call EXCEPT ![c] = Idle] /\ UNCHANGED <<live, made>>
  /\ \/ row' = row
     \/ /\ row' = [row EXCEPT ![r] = Peer(call[c].key, call[c].row.ip)]
        /\ IF row[r] = NoRow THEN live[r] /\ call[c].row.ip \notin Taken
           ELSE call[c].row.status # "NONE"

LEMMA Steady ==
  ASSUME Typed, UNCHANGED <<row, live>>
  PROVE  RowsKept
  BY DEF Typed, GoodRows, RowsKept, RowKept

LEMMA SlotFacts ==
  ASSUME Typed
  PROVE  /\ call \in [Slots -> CallRecords]
         /\ \A c \in Slots : call[c] \in CallRecords /\ GoodCall(call[c])
         /\ Calls \subseteq Slots /\ Cron \in Slots
  BY DEF Typed, Slots

\* What each kind of step leaves alone.
LEMMA StartLeaves ==
  ASSUME NEW c, StartCall(c)
  PROVE  /\ UNCHANGED <<live, row, paid, closed, wg, rules, now, cycle, troubles>>
         /\ made' = made + 1 /\ made < MaxCalls
         /\ consent' = consent \/ \E t \in Tenants : consent' = [consent EXCEPT ![t] = FALSE]
  BY DEF StartCall, FreeSlot, StartProvision, StartResync, StartDelete, StartClose, StartRevoke,
     StartOpen, StartWithdraw, Begin, store

LEMMA CallLeaves ==
  ASSUME NEW c, ContinueCall(c)
  PROVE  /\ UNCHANGED <<consent, paid, closed, now, cycle, made>>
         /\ troubles' = troubles \/ troubles' = troubles + 1
<1>1. CASE ProvisionRead(c) \/ CallAddPeer(c) \/ ProvisionCommit(c) \/ WithdrawList(c)
           \/ NextPeer(c)
  BY <1>1 DEF ProvisionRead, CallAddPeer, ProvisionCommit, WithdrawList, NextPeer, store,
     Trouble, Works
<1>2. CASE CallRemovePeer(c) \/ CallDropRule(c) \/ OpenAddRule(c)
  BY <1>2 DEF CallRemovePeer, CallDropRule, OpenAddRule, store, Trouble, Works
<1>3. CASE RevokeCommit(c) \/ DeleteCommit(c) \/ OpenCommit(c) \/ CloseCommit(c)
  BY <1>3 DEF RevokeCommit, DeleteCommit, OpenCommit, CloseCommit
<1> QED
  BY <1>1, <1>2, <1>3 DEF ContinueCall

LEMMA CycleLeaves ==
  ASSUME NEW k, CycleStep(k)
  PROVE  /\ UNCHANGED <<live, consent, paid, closed, now, call, made>>
         /\ troubles' = troubles \/ troubles' = troubles + 1
  BY DEF CycleStep, CycleRead, CycleSetPeer, CycleShow, CyclePrune, CycleFlush, CycleAddRule,
     CycleExpire, store, Trouble, Works

\* The calls that begin.
LEMMA Started ==
  ASSUME Typed, NEW c \in Calls, StartCall(c)
  PROVE  \E y : GoodCall(y) /\ call' = [call EXCEPT ![c] = y] /\ Moves(c, y)
<1>1. /\ made' = made + 1 /\ made \in 0..MaxCalls /\ made < MaxCalls /\ now \in 1..MaxTime
      /\ row \in [Routers -> Rows] /\ \A r \in Routers : GoodRow(row[r])
  BY DEF Typed, GoodRows, StartCall, FreeSlot, StartProvision, StartResync, StartDelete,
     StartClose, StartRevoke, StartOpen, StartWithdraw, Begin
<1>2. made + 1 \in 1..MaxCalls /\ made + 1 \in Keys /\ now + 1 \in 0..(MaxTime + 1)
      /\ MaxCalls \in Nat
  BY <1>1, KeyTypes, RemoteAssumption
<1>3. ASSUME NEW r \in Routers, StartProvision(c, r)
      PROVE  \E y : GoodCall(y) /\ call' = [call EXCEPT ![c] = y] /\ Moves(c, y)
  <2> DEFINE y == [Idle EXCEPT !.op = "provision", !.at = "read", !.router = r, !.key = made + 1]
  <2>1. call' = [call EXCEPT ![c] = y]
    BY <1>3 DEF StartProvision
  <2>2. /\ y \in CallRecords /\ y.op = "provision" /\ y.at = "read" /\ y.router = r
        /\ y.key = made + 1 /\ y.todo = {} /\ y.row = NoRow
    BY <1>2, IdleType DEF CallRecords, Ops, Places
  <2> HIDE DEF y
  <2>3. GoodCall(y)
    BY <1>2, <2>2 DEF GoodCall
  <2>4. Moves(c, y)
    BY <1>1, <2>2 DEF Moves
  <2> QED
    BY <2>1, <2>3, <2>4
<1>4. ASSUME NEW r \in Routers, StartResync(c, r)
      PROVE  \E y : GoodCall(y) /\ call' = [call EXCEPT ![c] = y] /\ Moves(c, y)
  <2> DEFINE x == row[r]
             key == x.key
             src == x.src
             y == [Idle EXCEPT !.op = "resync", !.at = "add", !.router = r, !.row = x,
                               !.key = key, !.src = src]
  <2>1. call' = [call EXCEPT ![c] = y] /\ r \in Active
    BY <1>4 DEF StartResync
  <2>2. x \in Rows /\ key \in Keys /\ src \in Sources \cup {NoSource}
    BY <1>1, <2>1, NoRowType DEF GoodRow, Active, Rows
  <2> HIDE DEF x, key, src
  <2>3. /\ y \in CallRecords /\ y.op = "resync" /\ y.at = "add" /\ y.router = r
        /\ y.key = key /\ y.todo = {}
    BY <2>2, IdleType DEF CallRecords, Ops, Places
  <2> HIDE DEF y
  <2>4. GoodCall(y) /\ Moves(c, y)
    BY <2>2, <2>3 DEF GoodCall, Moves
  <2> QED
    BY <2>1, <2>4
<1>5. ASSUME NEW r \in Routers, NEW op \in {"revoke", "adminRevoke", "delete", "close"},
             NEW at \in {"remove", "commit", "unrule"},
             call' = [call EXCEPT ![c] = [Idle EXCEPT !.op = op, !.at = at, !.router = r,
                                                      !.row = row[r]]]
      PROVE  \E y : GoodCall(y) /\ call' = [call EXCEPT ![c] = y] /\ Moves(c, y)
  <2> DEFINE x == row[r]
             y == [Idle EXCEPT !.op = op, !.at = at, !.router = r, !.row = x]
  <2>1. x \in Rows
    BY <1>1
  <2>2. call' = [call EXCEPT ![c] = y]
    BY <1>5
  <2> HIDE DEF x
  <2>3. y \in CallRecords /\ y.op = op /\ y.at = at /\ y.router = r /\ y.todo = {}
    BY <2>1, IdleType DEF CallRecords, Ops, Places
  <2> HIDE DEF y
  <2>4. GoodCall(y) /\ Moves(c, y)
    BY <2>3 DEF GoodCall, Moves
  <2> QED
    BY <2>2, <2>4
<1>6. ASSUME NEW r \in Routers, NEW s \in Sources, StartOpen(c, r, s)
      PROVE  \E y : GoodCall(y) /\ call' = [call EXCEPT ![c] = y] /\ Moves(c, y)
  <2> DEFINE x == row[r]
             y == [Idle EXCEPT !.op = "open", !.at = "unrule", !.router = r, !.row = x,
                               !.until = now + 1, !.src = s]
  <2>1. x \in Rows
    BY <1>1
  <2>2. call' = [call EXCEPT ![c] = y]
    BY <1>6 DEF StartOpen
  <2> HIDE DEF x
  <2>3. y \in CallRecords /\ y.op = "open" /\ y.at = "unrule" /\ y.router = r /\ y.todo = {}
    BY <1>2, <2>1, IdleType DEF CallRecords, Ops, Places
  <2> HIDE DEF y
  <2>4. GoodCall(y) /\ Moves(c, y)
    BY <2>3 DEF GoodCall, Moves
  <2> QED
    BY <2>2, <2>4
<1>7. ASSUME NEW t \in Tenants, StartWithdraw(c, t)
      PROVE  \E y : GoodCall(y) /\ call' = [call EXCEPT ![c] = y] /\ Moves(c, y)
  <2> DEFINE S == {r \in Routers : Owner[r] = t}
             y == [Idle EXCEPT !.op = "withdraw", !.at = "list", !.todo = S]
  <2>1. call' = [call EXCEPT ![c] = y]
    BY <1>7 DEF StartWithdraw
  <2>2. S \in SUBSET Routers
    OBVIOUS
  <2> HIDE DEF S
  <2>3. y \in CallRecords /\ y.op = "withdraw" /\ y.at = "list"
    BY <2>2, IdleType DEF CallRecords, Ops, Places
  <2> HIDE DEF y
  <2>4. GoodCall(y) /\ Moves(c, y)
    BY <2>3 DEF GoodCall, Moves
  <2> QED
    BY <2>1, <2>4
<1>8. ASSUME NEW r \in Routers, StartDelete(c, r) \/ StartClose(c, r)
                                \/ \E op \in {"revoke", "adminRevoke"} : StartRevoke(c, r, op)
      PROVE  \E op \in {"revoke", "adminRevoke", "delete", "close"} :
             \E at \in {"remove", "commit", "unrule"} :
               call' = [call EXCEPT ![c] = [Idle EXCEPT !.op = op, !.at = at, !.router = r,
                                                        !.row = row[r]]]
  BY <1>8 DEF StartDelete, StartClose, StartRevoke
<1> QED
  <2>1. ASSUME NEW r \in Routers, StartDelete(c, r) \/ StartClose(c, r)
                                \/ \E op \in {"revoke", "adminRevoke"} : StartRevoke(c, r, op)
        PROVE  \E y : GoodCall(y) /\ call' = [call EXCEPT ![c] = y] /\ Moves(c, y)
    <3>1. PICK op \in {"revoke", "adminRevoke", "delete", "close"},
               at \in {"remove", "commit", "unrule"} :
            call' = [call EXCEPT ![c] = [Idle EXCEPT !.op = op, !.at = at, !.router = r,
                                                     !.row = row[r]]]
      BY <1>8, <2>1
    <3> QED
      BY <1>5, <3>1
  <2>2. CASE \E t \in Tenants : StartWithdraw(c, t)
    BY <1>7, <2>2
  <2>3. ASSUME NEW r \in Routers,
               StartProvision(c, r) \/ StartResync(c, r) \/ \E s \in Sources : StartOpen(c, r, s)
        PROVE  \E y : GoodCall(y) /\ call' = [call EXCEPT ![c] = y] /\ Moves(c, y)
    BY <1>3, <1>4, <1>6, <2>3
  <2>4. \/ \E t \in Tenants : StartWithdraw(c, t)
        \/ \E r \in Routers :
             \/ StartProvision(c, r) \/ StartResync(c, r) \/ \E s \in Sources : StartOpen(c, r, s)
             \/ StartDelete(c, r) \/ StartClose(c, r)
             \/ \E op \in {"revoke", "adminRevoke"} : StartRevoke(c, r, op)
    BY DEF StartCall
  <2> QED
    BY <2>1, <2>2, <2>3, <2>4

\* The calls that go on.
LEMMA Gone ==
  ASSUME Typed, NEW c \in Slots, End(c)
  PROVE  \E y : GoodCall(y) /\ call' = [call EXCEPT ![c] = y] /\ Moves(c, y)
<1>1. Moves(c, Idle)
  BY IdleType DEF Moves
<1> QED
  BY <1>1, IdleType DEF End

LEMMA Goes ==
  ASSUME Typed, NEW c \in Slots, NEW at \in {"commit", "unrule", "rule", "next"}, Go(c, at),
         call[c].at \in {"add", "remove", "unrule", "rule", "commit"},
         call[c].op = "provision" => call[c].at = "add" /\ at = "commit"
  PROVE  \E y : GoodCall(y) /\ call' = [call EXCEPT ![c] = y] /\ Moves(c, y)
<1> DEFINE x == call[c]
           y == [x EXCEPT !.at = at]
<1>1. x \in CallRecords /\ GoodCall(x)
  BY SlotFacts
<1>2. call' = [call EXCEPT ![c] = y]
  BY DEF Go
<1>3. x.op = "provision" => x.at = "add" /\ at = "commit"
  OBVIOUS
<1>4. x.at \in {"add", "remove", "unrule", "rule", "commit"}
  OBVIOUS
<1> HIDE DEF x
<1>5. /\ y \in CallRecords /\ y.op = x.op /\ y.at = at /\ y.router = x.router
      /\ y.row = x.row /\ y.todo = x.todo /\ y.listed = x.listed /\ y.key = x.key
  BY <1>1 DEF CallRecords, Places
<1> HIDE DEF y
<1>6. GoodCall(y)
  BY <1>1, <1>3, <1>4, <1>5 DEF GoodCall
<1>7. Moves(c, y)
  BY <1>3, <1>5 DEF Moves, x
<1> QED
  BY <1>2, <1>6, <1>7

\* The first free address is one.
LEMMA FirstFree ==
  ASSUME Addresses \ Taken # {}
  PROVE  Min(Addresses \ Taken) \in Addresses \ Taken
<1>1. Addresses \ Taken \in SUBSET Nat
  BY RemoteAssumption
<1> QED
  BY <1>1, LeastNatural, Zenon

LEMMA ReadMoves ==
  ASSUME Typed, NEW c \in Slots, ProvisionRead(c)
  PROVE  CallMoves
<1> DEFINE x == call[c]
           r == x.router
           z == [x.row EXCEPT !.ip = Min(Addresses \ Taken)]
<1>1. x \in CallRecords /\ GoodCall(x) /\ x.op = "provision" /\ x.at = "read"
      /\ UNCHANGED row
  BY SlotFacts DEF ProvisionRead, At, store
<1>2. r \in Routers /\ x.row \in Rows /\ x.key \in 1..MaxCalls /\ x.todo \subseteq DOMAIN x.listed
  BY <1>1 DEF GoodCall, CallRecords
<1>3. row[r] \in Rows /\ GoodRow(row[r])
  BY <1>2 DEF Typed, GoodRows
<1>4. CASE /\ row[r] # NoRow
           /\ call' = [call EXCEPT ![c].at = "add", ![c].row = row[r]]
  <2> DEFINE y == [x EXCEPT !.at = "add", !.row = row[r]]
  <2>1. call' = [call EXCEPT ![c] = y]
    BY <1>4
  <2> HIDE DEF x
  <2>2. /\ y \in CallRecords /\ y.op = x.op /\ y.at = "add" /\ y.router = x.router
        /\ y.row = row[r] /\ y.todo = x.todo /\ y.listed = x.listed /\ y.key = x.key
    BY <1>1, <1>3 DEF CallRecords, Places
  <2> HIDE DEF y
  <2>3. GoodCall(y)
    BY <1>1, <1>2, <1>3, <1>4, <2>2, KeyTypes DEF GoodCall, GoodRow
  <2>4. Moves(c, y)
    BY <1>1, <2>2 DEF Moves, x
  <2> QED
    BY <2>1, <2>3, <2>4 DEF CallMoves
<1>5. CASE /\ row[r] = NoRow /\ Addresses \ Taken # {} /\ x.row.status = "NONE"
           /\ call' = [call EXCEPT ![c].at = "add", ![c].row.ip = Min(Addresses \ Taken)]
  <2> DEFINE y == [x EXCEPT !.at = "add", !.row = z]
  <2>1. call' = [call EXCEPT ![c] = y]
    BY <1>5
  <2>2. Min(Addresses \ Taken) \in Addresses
    BY <1>5, FirstFree
  <2>3. z \in Rows /\ z.ip \in Addresses /\ z.status = "NONE"
    BY <1>2, <1>5, <2>2 DEF Rows
  <2> HIDE DEF x, z
  <2>4. /\ y \in CallRecords /\ y.op = x.op /\ y.at = "add" /\ y.router = x.router
        /\ y.row = z /\ y.todo = x.todo /\ y.listed = x.listed /\ y.key = x.key
    BY <1>1, <2>3 DEF CallRecords, Places
  <2> HIDE DEF y
  <2>5. GoodCall(y)
    BY <1>1, <1>2, <2>3, <2>4, KeyTypes DEF GoodCall
  <2>6. Moves(c, y)
    BY <1>1, <2>3, <2>4 DEF Moves, x
  <2> QED
    BY <2>1, <2>5, <2>6 DEF CallMoves
<1>6. CASE End(c)
  BY <1>6, Gone DEF CallMoves
<1>7. x.row.status = "NONE"
  BY <1>1, NoRowType DEF GoodCall
<1>8. \/ call' = [call EXCEPT ![c].at = "add", ![c].row = row[r]] /\ row[r] # NoRow
      \/ /\ call' = [call EXCEPT ![c].at = "add", ![c].row.ip = Min(Addresses \ Taken)]
         /\ row[r] = NoRow /\ Addresses \ Taken # {}
      \/ End(c)
  BY DEF ProvisionRead
<1> QED
  BY <1>4, <1>5, <1>6, <1>7, <1>8

LEMMA AddMoves ==
  ASSUME Typed, NEW c \in Slots, CallAddPeer(c)
  PROVE  CallMoves
<1>1. call[c].at = "add"
  BY DEF CallAddPeer, At
<1>2. CASE call[c].op = "provision" /\ Go(c, "commit")
  BY <1>1, <1>2, Goes DEF CallMoves
<1>3. CASE call[c].op # "provision" /\ Go(c, "unrule")
  BY <1>1, <1>3, Goes DEF CallMoves
<1>4. CASE End(c)
  BY <1>4, Gone DEF CallMoves
<1>5. \/ call[c].op = "provision" /\ Go(c, "commit")
      \/ call[c].op # "provision" /\ Go(c, "unrule")
      \/ End(c)
  <2>1. CASE call[c].op = "provision"
    BY <2>1 DEF CallAddPeer
  <2>2. CASE call[c].op = "resync" /\ call[c].row.until > now
    BY <2>2 DEF CallAddPeer
  <2>3. CASE call[c].op # "provision" /\ ~(call[c].op = "resync" /\ call[c].row.until > now)
    BY <2>3 DEF CallAddPeer
  <2> QED
    BY <2>1, <2>2, <2>3
<1> QED
  BY <1>2, <1>3, <1>4, <1>5

\* A list of peers to revoke.
LEMMA Listed ==
  ASSUME Typed, NEW c \in Slots, NEW op \in Ops \ {"provision"}, NEW routers,
         call' = [call EXCEPT ![c] = [Idle EXCEPT !.op = op, !.at = "next",
                    !.todo = Active \cap routers,
                    !.listed = [r \in Active \cap routers |-> row[r]]]]
  PROVE  CallMoves
<1> DEFINE S == Active \cap routers
           l == [r \in S |-> row[r]]
           y == [Idle EXCEPT !.op = op, !.at = "next", !.todo = S, !.listed = l]
<1>1. S \in SUBSET Routers /\ DOMAIN l = S
  BY DEF Active
<1>2. l \in Lists
  <2>1. \A r \in S : row[r] \in Rows
    BY <1>1 DEF Typed, GoodRows
  <2> QED
    BY <1>1, <2>1, ListType
<1>3. call' = [call EXCEPT ![c] = y]
  OBVIOUS
<1> HIDE DEF S, l
<1>4. y \in CallRecords /\ y.op = op /\ y.at = "next" /\ y.todo = S /\ y.listed = l
  BY <1>1, <1>2, IdleType DEF CallRecords, Places
<1> HIDE DEF y
<1>5. GoodCall(y) /\ Moves(c, y)
  BY <1>1, <1>4 DEF GoodCall, Moves
<1> QED
  BY <1>3, <1>5 DEF CallMoves

LEMMA ListMoves ==
  ASSUME Typed, NEW c \in Slots, WithdrawList(c)
  PROVE  CallMoves
<1>1. call[c].op \in Ops \ {"provision"}
  BY SlotFacts DEF WithdrawList, At, GoodCall, CallRecords
<1> QED
  BY <1>1, Listed DEF WithdrawList, List

LEMMA CronMoves ==
  ASSUME Typed, CronLists
  PROVE  CallMoves
<1>1. "cron" \in Ops \ {"provision"} /\ Cron \in Slots
  BY DEF Ops, Slots
<1> QED
  BY <1>1, Listed DEF CronLists

LEMMA NextMoves ==
  ASSUME Typed, NEW c \in Slots, NextPeer(c)
  PROVE  CallMoves
<1>1. call[c] \in CallRecords /\ GoodCall(call[c]) /\ call[c].at = "next"
  BY SlotFacts DEF NextPeer, At
<1>2. ASSUME NEW r \in call[c].todo,
             call' = [call EXCEPT ![c].at = "remove", ![c].router = r,
                        ![c].row = call[c].listed[r], ![c].todo = @ \ {r}]
      PROVE  CallMoves
  <2> DEFINE x == call[c]
             item == x.listed[r]
             rest == x.todo \ {r}
             y == [x EXCEPT !.at = "remove", !.router = r, !.row = item, !.todo = rest]
  <2>1. call' = [call EXCEPT ![c] = y]
    BY <1>2
  <2>2. /\ x \in CallRecords /\ x.todo \subseteq DOMAIN x.listed /\ x.listed \in Lists
        /\ x.op # "provision"
    BY <1>1 DEF GoodCall, CallRecords
  <2>3. r \in Routers /\ item \in Rows /\ rest \in SUBSET Routers
        /\ rest \subseteq DOMAIN x.listed
    BY <1>1, <2>2, ListItems DEF CallRecords
  <2> HIDE DEF x, item, rest
  <2>4. /\ y \in CallRecords /\ y.op = x.op /\ y.at = "remove" /\ y.router = r
        /\ y.todo = rest /\ y.listed = x.listed
    BY <2>2, <2>3 DEF CallRecords, Places
  <2> HIDE DEF y
  <2>5. GoodCall(y) /\ Moves(c, y)
    BY <2>2, <2>3, <2>4 DEF GoodCall, Moves
  <2> QED
    BY <2>1, <2>5 DEF CallMoves
<1>3. CASE End(c)
  BY <1>3, Gone DEF CallMoves
<1> QED
  BY <1>2, <1>3 DEF NextPeer

LEMMA PlainMoves ==
  ASSUME Typed, NEW c \in Slots,
         \/ CallRemovePeer(c) \/ CallDropRule(c) \/ RevokeCommit(c) \/ DeleteCommit(c)
         \/ OpenAddRule(c) \/ OpenCommit(c) \/ CloseCommit(c)
  PROVE  CallMoves
<1>1. call[c].at \in {"add", "remove", "unrule", "rule", "commit"}
  BY DEF CallRemovePeer, CallDropRule, RevokeCommit, DeleteCommit, OpenAddRule, OpenCommit,
     CloseCommit, At
<1>2. call[c].op # "provision"
  BY SlotFacts
  DEF CallRemovePeer, CallDropRule, RevokeCommit, DeleteCommit, OpenAddRule, OpenCommit,
      CloseCommit, At, GoodCall
<1>3. End(c) \/ \E at \in {"commit", "unrule", "rule", "next"} : Go(c, at)
  BY DEF CallRemovePeer, CallDropRule, RevokeCommit, DeleteCommit, OpenAddRule, OpenCommit,
     CloseCommit
<1> QED
  BY <1>1, <1>2, <1>3, Gone, Goes DEF CallMoves

-----------------------------------------------------------------------------
(* The rows.                                                                 *)

LEMMA Amended ==
  ASSUME Typed, NEW r \in Routers, NEW y, GoodRow(y), y # NoRow, row[r] # NoRow,
         y.key = row[r].key, y.ip = row[r].ip,
         row' = [row EXCEPT ![r] = y], live' = live
  PROVE  RowsKept
<1>1. row \in [Routers -> Rows] /\ y \in Rows /\ \A q \in Routers : GoodRow(row[q])
  BY DEF Typed, GoodRows, GoodRow
<1>2. row' \in [Routers -> Rows] /\ row'[r] = y /\ \A q \in Routers : q # r => row'[q] = row[q]
  BY <1>1
<1>3. live \in [Routers -> BOOLEAN]
  BY DEF Typed
<1> QED
  BY <1>1, <1>2, <1>3 DEF RowsKept, RowKept

\* What is written into a row that exists.
LEMMA Rewritten ==
  ASSUME NEW x, GoodRow(x), x # NoRow,
         NEW y \in Rows, y.status # "NONE", y.key = x.key, y.ip = x.ip
  PROVE  GoodRow(y) /\ y # NoRow
<1>1. x.key \in Keys /\ x.ip \in Addresses
  BY DEF GoodRow
<1> QED
  BY <1>1, NoRowType DEF GoodRow

LEMMA RevokeRows ==
  ASSUME Typed, NEW c \in Slots, RevokeCommit(c)
  PROVE  RowsKept
<1> DEFINE r == call[c].router
           x == row[r]
           until == IF call[c].op = "adminRevoke" THEN x.until ELSE 0
           src == IF call[c].op = "adminRevoke" THEN x.src ELSE NoSource
           y == [x EXCEPT !.status = "REVOKED", !.until = until, !.src = src]
<1>1. r \in Routers /\ live' = live
  BY SlotFacts DEF RevokeCommit, At, GoodCall
<1>2. GoodRow(x) /\ x \in Rows
  BY <1>1 DEF Typed, GoodRows
<1>3. row' = row \/ (x # NoRow /\ row' = [row EXCEPT ![r] = y])
  BY DEF RevokeCommit
<1>4. until \in 0..(MaxTime + 1) /\ src \in Sources \cup {NoSource}
  BY <1>2, RemoteAssumption DEF Rows
<1>5. CASE x # NoRow /\ row' = [row EXCEPT ![r] = y]
  <2> HIDE DEF x, until, src
  <2>1. PICK z : z = y
    OBVIOUS
  <2>2. z \in Rows /\ z.status # "NONE" /\ z.key = x.key /\ z.ip = x.ip
    BY <1>2, <1>4, <2>1 DEF Rows
  <2>3. row' = [row EXCEPT ![r] = z] /\ x # NoRow
    BY <1>5, <2>1
  <2> HIDE DEF y
  <2> QED
    BY <1>1, <1>2, <2>2, <2>3, Amended, Rewritten DEF x
<1> QED
  BY <1>1, <1>3, <1>5, Steady

LEMMA WindowRows ==
  ASSUME Typed, NEW c \in Slots, OpenCommit(c) \/ CloseCommit(c)
  PROVE  RowsKept
<1> DEFINE r == call[c].router
           x == row[r]
<1>1. r \in Routers /\ live' = live
  BY SlotFacts DEF OpenCommit, CloseCommit, At, GoodCall
<1>2. GoodRow(x)
  BY <1>1 DEF Typed, GoodRows
<1>3. row' = row \/
      (x # NoRow /\ \E until \in 0..(MaxTime + 1), src \in Sources \cup {NoSource} :
                       row' = [row EXCEPT ![r] = [x EXCEPT !.until = until, !.src = src]])
  <2>1. call[c].until \in 0..(MaxTime + 1) /\ call[c].src \in Sources \cup {NoSource}
        /\ 0 \in 0..(MaxTime + 1)
    BY SlotFacts, RemoteAssumption DEF CallRecords
  <2>2. CASE OpenCommit(c)
    <3>1. row' = row \/ (x # NoRow /\ row' = [row EXCEPT ![r] = [x EXCEPT
                                           !.until = call[c].until, !.src = call[c].src]])
      BY <2>2 DEF OpenCommit
    <3> QED
      BY <2>1, <3>1
  <2>3. CASE CloseCommit(c)
    <3>1. row' = row \/ (x # NoRow /\ row' = [row EXCEPT ![r] = [x EXCEPT
                                           !.until = 0, !.src = NoSource]])
      BY <2>3 DEF CloseCommit
    <3> QED
      BY <2>1, <3>1
  <2> QED
    BY <2>2, <2>3
<1>4. ASSUME x # NoRow, NEW until \in 0..(MaxTime + 1), NEW src \in Sources \cup {NoSource},
             row' = [row EXCEPT ![r] = [x EXCEPT !.until = until, !.src = src]]
      PROVE  RowsKept
  <2> HIDE DEF x
  <2>1. PICK z : z = [x EXCEPT !.until = until, !.src = src]
    OBVIOUS
  <2>2. x \in Rows /\ x.status # "NONE"
    BY <1>2, <1>4 DEF GoodRow
  <2>3. z \in Rows /\ z.status # "NONE" /\ z.key = x.key /\ z.ip = x.ip
    BY <1>4, <2>1, <2>2 DEF Rows
  <2>4. row' = [row EXCEPT ![r] = z] /\ x # NoRow
    BY <1>4, <2>1
  <2> QED
    BY <1>1, <1>2, <2>3, <2>4, Amended, Rewritten DEF x
<1> QED
  BY <1>1, <1>3, <1>4, Steady

LEMMA DeleteRows ==
  ASSUME Typed, NEW c \in Slots, DeleteCommit(c)
  PROVE  RowsKept
<1> DEFINE r == call[c].router
<1>1. r \in Routers
  BY SlotFacts DEF DeleteCommit, At, GoodCall
<1>2. CASE row' = [row EXCEPT ![r] = NoRow] /\ live' = [live EXCEPT ![r] = FALSE]
  <2>1. row \in [Routers -> Rows] /\ live \in [Routers -> BOOLEAN]
        /\ \A q \in Routers : GoodRow(row[q])
    BY DEF Typed, GoodRows
  <2>2. row' \in [Routers -> Rows] /\ live' \in [Routers -> BOOLEAN]
    BY <1>2, <2>1, NoRowType
  <2>3. row'[r] = NoRow /\ live'[r] = FALSE
        /\ \A q \in Routers : q # r => row'[q] = row[q] /\ live'[q] = live[q]
    BY <1>1, <1>2, <2>1
  <2> QED
    BY <2>1, <2>2, <2>3, NoRowType DEF RowsKept, RowKept
<1>3. CASE UNCHANGED <<row, live>>
  BY <1>3, Steady
<1> QED
  BY <1>2, <1>3 DEF DeleteCommit

\* A statement that rewrites some of the rows.
LEMMA RewrittenRows ==
  ASSUME Typed, live' = live, NEW rows, row' = [r \in Routers |-> rows[r]],
         \A r \in Routers :
           \/ rows[r] = row[r]
           \/ /\ row[r] # NoRow /\ GoodRow(rows[r]) /\ rows[r] # NoRow
              /\ rows[r].key = row[r].key /\ rows[r].ip = row[r].ip
  PROVE  RowsKept
<1>1. /\ row \in [Routers -> Rows] /\ \A r \in Routers : GoodRow(row[r])
      /\ live \in [Routers -> BOOLEAN]
  BY DEF Typed, GoodRows
<1>2. \A r \in Routers : row'[r] = rows[r]
  OBVIOUS
<1>3. \A r \in Routers : row'[r] \in Rows /\ GoodRow(row'[r]) /\ RowKept(r)
  BY <1>1, <1>2 DEF RowKept, GoodRow
<1>4. row' \in [Routers -> Rows]
  BY <1>2, <1>3
<1> QED
  BY <1>1, <1>3, <1>4 DEF RowsKept

LEMMA DeactivateRows ==
  ASSUME Typed, NEW t \in Tenants, Deactivate(t)
  PROVE  RowsKept
<1> DEFINE rows == [r \in Routers |-> IF Owner[r] = t /\ r \in Active
                                      THEN [row[r] EXCEPT !.status = "REVOKED"] ELSE row[r]]
<1>1. row' = rows /\ live' = live
  BY DEF Deactivate
<1>2. ASSUME NEW r \in Routers, rows[r] # row[r]
      PROVE  /\ row[r] # NoRow /\ GoodRow(rows[r]) /\ rows[r] # NoRow
             /\ rows[r].key = row[r].key /\ rows[r].ip = row[r].ip
  <2> DEFINE x == row[r]
  <2>1. r \in Active /\ rows[r] = [x EXCEPT !.status = "REVOKED"]
    BY <1>2
  <2>2. GoodRow(x) /\ x # NoRow
    BY <2>1, NoRowType DEF Typed, GoodRows, Active
  <2>3. x.until \in 0..(MaxTime + 1) /\ x.src \in Sources \cup {NoSource}
    BY <2>2 DEF GoodRow, Rows
  <2> HIDE DEF x
  <2>4. PICK z : z = [x EXCEPT !.status = "REVOKED"]
    OBVIOUS
  <2>5. /\ z \in Rows /\ z.status # "NONE" /\ z.key = x.key /\ z.ip = x.ip
    BY <2>2, <2>4 DEF GoodRow, Rows
  <2>6. GoodRow(z) /\ z # NoRow
    BY <2>2, <2>5, Rewritten
  <2>7. rows[r] = z
    BY <2>1, <2>4
  <2> HIDE DEF rows
  <2> QED
    BY <2>2, <2>5, <2>6, <2>7 DEF x
<1>3. row' = [r \in Routers |-> rows[r]]
  BY <1>1
<1> HIDE DEF rows
<1> QED
  BY <1>1, <1>2, <1>3, RewrittenRows

LEMMA ExpireRows ==
  ASSUME Typed, NEW k \in Cycles, CycleExpire(k)
  PROVE  RowsKept
<1> DEFINE rows == [r \in Routers |-> IF row[r].until # 0 /\ row[r].until <= now
                                      THEN [row[r] EXCEPT !.until = 0, !.src = NoSource]
                                      ELSE row[r]]
<1>1. row' = rows /\ live' = live
  BY DEF CycleExpire
<1>2. ASSUME NEW r \in Routers, rows[r] # row[r]
      PROVE  /\ row[r] # NoRow /\ GoodRow(rows[r]) /\ rows[r] # NoRow
             /\ rows[r].key = row[r].key /\ rows[r].ip = row[r].ip
  <2> DEFINE x == row[r]
  <2>1. x.until # 0 /\ rows[r] = [x EXCEPT !.until = 0, !.src = NoSource]
    BY <1>2
  <2>2. GoodRow(x) /\ x # NoRow
    BY <2>1, NoRowType DEF Typed, GoodRows
  <2> HIDE DEF x
  <2>3. PICK z : z = [x EXCEPT !.until = 0, !.src = NoSource]
    OBVIOUS
  <2>4. 0 \in 0..(MaxTime + 1)
    BY RemoteAssumption
  <2>5. GoodRow(z) /\ z # NoRow /\ z.key = x.key /\ z.ip = x.ip
    <3>1. x \in Rows /\ x.status # "NONE"
      BY <2>2 DEF GoodRow
    <3>2. z \in Rows /\ z.status # "NONE" /\ z.key = x.key /\ z.ip = x.ip
      BY <2>3, <2>4, <3>1 DEF Rows
    <3> QED
      BY <2>2, <3>2, Rewritten
  <2>6. rows[r] = z
    BY <2>1, <2>3
  <2> HIDE DEF rows
  <2> QED
    BY <2>2, <2>5, <2>6 DEF x
<1>3. row' = [r \in Routers |-> rows[r]]
  BY <1>1
<1> HIDE DEF rows
<1> QED
  BY <1>1, <1>2, <1>3, RewrittenRows

LEMMA CommitGives ==
  ASSUME Typed, NEW c \in Slots, ProvisionCommit(c)
  PROVE  RowGiven(c)
<1> DEFINE r == call[c].router
           ip == call[c].row.ip
           new == Peer(call[c].key, ip)
<1>1. /\ call[c].op = "provision" /\ call[c].at = "commit"
      /\ call' = [call EXCEPT ![c] = Idle] /\ UNCHANGED <<live, made>>
  BY DEF ProvisionCommit, At, End
<1>2. \/ row' = row
      \/ /\ row' = [row EXCEPT ![r] = new]
         /\ IF call[c].row.status = "NONE" THEN live[r] /\ row[r] = NoRow /\ ip \notin Taken
            ELSE row[r] # NoRow
  BY DEF ProvisionCommit, GivenAddress
<1> QED
  BY <1>1, <1>2 DEF RowGiven

\* A step moves the calls and keeps the rows, or is the transaction of a
\* provision.
LEMMA Kinds ==
  ASSUME Typed, [Next]_vars
  PROVE  (RowsKept /\ CallMoves) \/ \E c \in Slots : RowGiven(c)
<1>1. ASSUME NEW c \in Calls, StartCall(c) PROVE RowsKept /\ CallMoves
  <2>1. UNCHANGED <<row, live>>
    BY <1>1, StartLeaves
  <2> QED
    BY <1>1, <2>1, Steady, Started, SlotFacts DEF CallMoves
<1>2. ASSUME NEW c \in Slots, ContinueCall(c)
      PROVE  (RowsKept /\ CallMoves) \/ RowGiven(c)
  <2>1. CASE ProvisionRead(c)
    BY <2>1, Steady, ReadMoves DEF ProvisionRead, store
  <2>2. CASE CallAddPeer(c)
    BY <2>2, Steady, AddMoves DEF CallAddPeer, store
  <2>3. CASE WithdrawList(c)
    BY <2>3, Steady, ListMoves DEF WithdrawList, store
  <2>4. CASE NextPeer(c)
    BY <2>4, Steady, NextMoves DEF NextPeer, store
  <2>5. CASE CallRemovePeer(c) \/ CallDropRule(c) \/ OpenAddRule(c)
    <3>1. UNCHANGED <<row, live>>
      BY <2>5 DEF CallRemovePeer, CallDropRule, OpenAddRule, store
    <3> QED
      BY <2>5, <3>1, Steady, PlainMoves
  <2> QED
    BY <1>2, <2>1, <2>2, <2>3, <2>4, <2>5, PlainMoves, RevokeRows, WindowRows, DeleteRows,
       CommitGives DEF ContinueCall
<1>3. CASE CronLists
  BY <1>3, Steady, CronMoves DEF CronLists, store
<1>4. ASSUME NEW t \in Tenants, Deactivate(t) \/ Accept(t) \/ CloseTenant(t)
      PROVE  RowsKept /\ CallMoves
  <2>1. UNCHANGED call
    BY <1>4 DEF Deactivate, Accept, CloseTenant
  <2>2. CASE Deactivate(t)
    BY <2>1, <2>2, DeactivateRows DEF CallMoves
  <2>3. CASE Accept(t) \/ CloseTenant(t)
    BY <2>1, <2>3, Steady DEF Accept, CloseTenant, CallMoves
  <2> QED
    BY <1>4, <2>2, <2>3
<1>5. CASE Tick
  BY <1>5, Steady DEF Tick, store, CallMoves
<1>6. CASE Restart
  <2>1. call' = [c \in Slots |-> Idle]
    BY <1>6, SlotFacts DEF Restart
  <2> QED
    BY <1>6, <2>1, Steady DEF Restart, store, CallMoves
<1>7. ASSUME NEW k \in Cycles, CycleStep(k) PROVE RowsKept /\ CallMoves
  <2>1. UNCHANGED call
    BY <1>7, CycleLeaves
  <2>2. CASE CycleExpire(k)
    BY <2>1, <2>2, ExpireRows DEF CallMoves
  <2>3. CASE ~CycleExpire(k)
    <3>1. UNCHANGED <<row, live>>
      BY <1>7, <2>3 DEF CycleStep, CycleRead, CycleSetPeer, CycleShow, CyclePrune, CycleFlush,
         CycleAddRule, store
    <3> QED
      BY <2>1, <3>1, Steady DEF CallMoves
  <2> QED
    BY <2>2, <2>3
<1>8. CASE UNCHANGED vars
  BY <1>8, Steady DEF vars, CallMoves
<1> QED
  BY <1>1, <1>2, <1>3, <1>4, <1>5, <1>6, <1>7, <1>8 DEF Next, OtherStep, Reconcile, Slots

LEMMA MadeSteps ==
  ASSUME Typed, [Next]_vars
  PROVE  /\ made \in 0..MaxCalls /\ made' \in 0..MaxCalls
         /\ made' = made \/ made' = made + 1
<1>1. made \in 0..MaxCalls /\ MaxCalls \in Nat
  BY RemoteAssumption DEF Typed
<1>2. made' = made \/ (made' = made + 1 /\ made < MaxCalls)
  <2>1. \A c \in Calls : StartCall(c) => made' = made + 1 /\ made < MaxCalls
    BY StartLeaves
  <2>2. \A c \in Slots : ContinueCall(c) => made' = made
    BY CallLeaves
  <2>3. \A k \in Cycles : CycleStep(k) => made' = made
    BY CycleLeaves
  <2>4. CronLists \/ Tick \/ Restart \/ UNCHANGED vars => made' = made
    BY DEF CronLists, Tick, Restart, vars
  <2>5. \A t \in Tenants : Deactivate(t) \/ Accept(t) \/ CloseTenant(t) =>
          made' = made + 1 /\ made < MaxCalls
    BY DEF Deactivate, Accept, CloseTenant
  <2> QED
    BY <2>1, <2>2, <2>3, <2>4, <2>5 DEF Next, OtherStep, Reconcile, Slots
<1> QED
  BY <1>1, <1>2

\* What the transaction of a provision writes.
LEMMA GivenFacts ==
  ASSUME IInv, NEW c \in Slots, RowGiven(c),
         row' # row
  PROVE  LET r == call[c].router
             y == row'[r] IN
         /\ r \in Routers /\ GoodRow(y) /\ y # NoRow
         /\ y.key = call[c].key /\ y.ip = call[c].row.ip /\ y.ip # 0
         /\ row' \in [Routers -> Rows] /\ \A q \in Routers : q # r => row'[q] = row[q]
         /\ \A q \in Routers : q # r => row[q].ip # y.ip
         /\ row[r] = NoRow => live[r]
         /\ row[r] # NoRow => row[r].ip = y.ip
<1> DEFINE r == call[c].router
           key == call[c].key
           ip == call[c].row.ip
           new == Peer(key, ip)
<1>1. /\ r \in Routers /\ key \in 1..MaxCalls /\ ip \in Addresses
      /\ call[c].op = "provision" /\ call[c].at = "commit"
  BY SlotFacts DEF IInv, RowGiven, GoodCall
<1>2. /\ row' = [row EXCEPT ![r] = new]
      /\ IF row[r] = NoRow THEN live[r] /\ ip \notin Taken ELSE call[c].row.status # "NONE"
  BY DEF RowGiven
<1>3. row \in [Routers -> Rows]
  BY DEF IInv, Typed, GoodRows
<1>4. key \in Keys /\ ip # 0
  BY <1>1, KeyTypes, RemoteAssumption
<1>5. row[r] # NoRow => row[r].ip = ip
  BY <1>1, <1>2 DEF IInv, Provisions
<1>6. \A q \in Routers : q # r => row[q].ip # ip
  BY <1>1, <1>2, <1>4, <1>5 DEF IInv, Typed, GoodRows, Taken
<1> HIDE DEF key, ip
<1>7. new \in Rows /\ new.status = "ACTIVE" /\ new.key = key /\ new.ip = ip
  BY <1>1, <1>4, RemoteAssumption DEF Peer, Rows
<1> HIDE DEF new
<1>8. GoodRow(new) /\ new # NoRow
  BY <1>1, <1>4, <1>7, NoRowType DEF GoodRow
<1>9. row' \in [Routers -> Rows] /\ row'[r] = new /\ \A q \in Routers : q # r => row'[q] = row[q]
  BY <1>1, <1>2, <1>3, <1>7
<1> QED
  BY <1>1, <1>2, <1>4, <1>5, <1>6, <1>7, <1>8, <1>9 DEF key, ip

-----------------------------------------------------------------------------
(* The invariant, part by part.                                              *)

LEMMA CallsStep ==
  ASSUME IInv, [Next]_vars
  PROVE  call' \in [Slots -> CallRecords] /\ \A c \in Slots : GoodCall(call'[c])
<1>1. call \in [Slots -> CallRecords] /\ \A c \in Slots : GoodCall(call[c])
  BY DEF IInv, Typed
<1>2. ASSUME NEW c \in Slots, NEW y, GoodCall(y), call' = [call EXCEPT ![c] = y]
      PROVE  call' \in [Slots -> CallRecords] /\ \A d \in Slots : GoodCall(call'[d])
  <2>1. y \in CallRecords
    BY <1>2 DEF GoodCall
  <2> QED
    BY <1>1, <1>2, <2>1
<1>3. ASSUME call' = [c \in Slots |-> Idle]
      PROVE  call' \in [Slots -> CallRecords] /\ \A d \in Slots : GoodCall(call'[d])
  BY <1>3, IdleType
<1>4. CASE CallMoves
  BY <1>1, <1>2, <1>3, <1>4 DEF CallMoves
<1>5. ASSUME NEW c \in Slots, RowGiven(c)
      PROVE  call' \in [Slots -> CallRecords] /\ \A d \in Slots : GoodCall(call'[d])
  BY <1>2, <1>5, IdleType DEF RowGiven
<1> QED
  BY <1>4, <1>5, Kinds DEF IInv

LEMMA RowsStep ==
  ASSUME IInv, [Next]_vars
  PROVE  GoodRows'
<1>1. /\ row \in [Routers -> Rows] /\ \A r \in Routers : GoodRow(row[r])
      /\ \A p, q \in Routers : row[p].ip = row[q].ip /\ row[p].ip # 0 => p = q
  BY DEF IInv, Typed, GoodRows
<1>2. CASE RowsKept
  <2>1. \A r \in Routers : row'[r].ip # 0 => row'[r].ip = row[r].ip
    BY <1>2, NoRowType DEF RowsKept, RowKept
  <2> QED
    BY <1>1, <1>2, <2>1 DEF RowsKept, GoodRows
<1>3. ASSUME NEW c \in Slots, RowGiven(c), row' # row PROVE GoodRows'
  <2>1. PICK r \in Routers :
           /\ GoodRow(row'[r]) /\ row'[r].ip # 0
           /\ row' \in [Routers -> Rows] /\ \A q \in Routers : q # r => row'[q] = row[q]
           /\ \A q \in Routers : q # r => row[q].ip # row'[r].ip
    BY <1>3, GivenFacts
  <2>2. \A q \in Routers : GoodRow(row'[q])
    BY <1>1, <2>1
  <2>3. \A p, q \in Routers : row'[p].ip = row'[q].ip /\ row'[p].ip # 0 => p = q
    BY <1>1, <2>1
  <2> QED
    BY <2>1, <2>2, <2>3 DEF GoodRows
<1>4. CASE row' = row
  BY <1>1, <1>4 DEF GoodRows
<1> QED
  BY <1>2, <1>3, <1>4, Kinds DEF IInv

LEMMA KeysStep ==
  ASSUME IInv, [Next]_vars
  PROVE  KeysOwned'
<1>1. /\ \A r \in Routers : row[r] # NoRow => row[r].key <= made \/ row[r].key > MaxCalls
      /\ \A p, q \in Routers :
           row[p] # NoRow /\ row[q] # NoRow /\ row[p].key = row[q].key => p = q
      /\ \A c \in Slots : call[c].op = "provision" =>
           /\ call[c].key <= made
           /\ \A r \in Routers : row[r] # NoRow => row[r].key # call[c].key
           /\ \A d \in Slots : call[d].op = "provision" /\ call[d].key = call[c].key => d = c
  BY DEF IInv, KeysOwned
<1>2. /\ made \in Int /\ made' \in Int /\ MaxCalls \in Int /\ made' <= MaxCalls
      /\ made' = made \/ made' = made + 1
  BY MadeSteps, RemoteAssumption DEF IInv
<1>3. \A r \in Routers : row[r] # NoRow => row[r].key \in Int
  <2>1. \A r \in Routers : row[r] # NoRow => row[r].key \in Keys
    BY DEF IInv, Typed, GoodRows, GoodRow
  <2>2. Keys \subseteq Int
    BY KeyTypes
  <2> QED
    BY <2>1, <2>2
<1>4. \A c \in Slots : call[c].op = "provision" => call[c].key \in Int
  BY SlotFacts DEF IInv, GoodCall
<1>5. CASE RowsKept /\ CallMoves
  <2>1. \A r \in Routers : row'[r] # NoRow => row[r] # NoRow /\ row'[r].key = row[r].key
    BY <1>5 DEF RowsKept, RowKept
  <2>2. ASSUME NEW c \in Slots, call'[c].op = "provision"
        PROVE  \/ call'[c].key = made + 1 /\ made' = made + 1
               \/ call[c].op = "provision" /\ call'[c].key = call[c].key
    <3>1. CASE UNCHANGED call
      BY <2>2, <3>1
    <3>2. CASE call' = [d \in Slots |-> Idle]
      BY <2>2, <3>2, IdleType
    <3>3. ASSUME NEW d \in Slots, NEW y, call' = [call EXCEPT ![d] = y], Moves(d, y)
          PROVE  \/ call'[c].key = made + 1 /\ made' = made + 1
                 \/ call[c].op = "provision" /\ call'[c].key = call[c].key
      <4>1. call'[c] = IF c = d THEN y ELSE call[c]
        BY <3>3 DEF IInv, Typed
      <4> QED
        BY <2>2, <3>3, <4>1 DEF Moves
    <3> QED
      BY <1>5, <3>1, <3>2, <3>3 DEF CallMoves
  <2>3. ASSUME NEW c \in Slots, NEW d \in Slots, c # d,
               call'[c].op = "provision", call'[d].op = "provision"
        PROVE  ~(call'[c].key = made + 1 /\ call'[d].key = made + 1)
    <3>1. call[c].op = "provision" => call[c].key <= made
      BY <1>1
    <3>2. call[d].op = "provision" => call[d].key <= made
      BY <1>1
    <3>3. CASE UNCHANGED call
      BY <1>2, <1>4, <2>3, <3>1, <3>3
    <3>4. CASE call' = [e \in Slots |-> Idle]
      BY <2>3, <3>4, IdleType
    <3>5. ASSUME NEW e \in Slots, NEW y, call' = [call EXCEPT ![e] = y]
          PROVE  ~(call'[c].key = made + 1 /\ call'[d].key = made + 1)
      <4>1. call'[c] = call[c] \/ call'[d] = call[d]
        BY <2>3, <3>5 DEF IInv, Typed
      <4> QED
        BY <1>2, <1>4, <2>3, <3>1, <3>2, <4>1
    <3> QED
      BY <1>5, <3>3, <3>4, <3>5 DEF CallMoves
  <2>4. \A r \in Routers : row'[r] # NoRow => row'[r].key <= made' \/ row'[r].key > MaxCalls
    BY <1>1, <1>2, <1>3, <2>1
  <2>5. \A p, q \in Routers :
          row'[p] # NoRow /\ row'[q] # NoRow /\ row'[p].key = row'[q].key => p = q
    BY <1>1, <2>1
  <2>6. ASSUME NEW c \in Slots, call'[c].op = "provision"
        PROVE  /\ call'[c].key <= made'
               /\ \A r \in Routers : row'[r] # NoRow => row'[r].key # call'[c].key
               /\ \A d \in Slots : call'[d].op = "provision" /\ call'[d].key = call'[c].key => d = c
    <3>1. call'[c].key <= made'
      BY <1>1, <1>2, <1>4, <2>2, <2>6
    <3>2. \A r \in Routers : row'[r] # NoRow => row'[r].key # call'[c].key
      BY <1>1, <1>2, <1>3, <2>1, <2>2, <2>6
    <3>3. ASSUME NEW d \in Slots, call'[d].op = "provision", call'[d].key = call'[c].key
          PROVE  d = c
      BY <1>1, <1>2, <1>4, <2>2, <2>3, <2>6, <3>3
    <3> QED
      BY <3>1, <3>2, <3>3
  <2> QED
    BY <2>4, <2>5, <2>6 DEF KeysOwned
<1>6. ASSUME NEW c \in Slots, RowGiven(c) PROVE KeysOwned'
  <2>1. \A d \in Slots : call'[d].op = "provision" => d # c /\ call'[d] = call[d]
    <3>1. call' = [call EXCEPT ![c] = Idle]
      BY <1>6 DEF RowGiven
    <3> QED
      BY <3>1, IdleType DEF IInv, Typed
  <2>2. made' = made /\ call[c].op = "provision"
    BY <1>6 DEF RowGiven
  <2>3. CASE row' = row
    BY <1>1, <2>1, <2>2, <2>3 DEF KeysOwned
  <2>4. CASE row' # row
    <3>1. PICK r \in Routers : row'[r].key = call[c].key
                               /\ \A q \in Routers : q # r => row'[q] = row[q]
      BY <1>6, <2>4, GivenFacts
    <3> QED
      BY <1>1, <2>1, <2>2, <3>1 DEF KeysOwned
  <2> QED
    BY <2>3, <2>4
<1> QED
  BY <1>5, <1>6, Kinds DEF IInv

LEMMA ProvisionsStep ==
  ASSUME IInv, [Next]_vars
  PROVE  Provisions'
<1>1. ASSUME NEW c \in Slots, call[c].op = "provision", call[c].at # "read",
             call[c].row.status # "NONE"
      PROVE  /\ call[c].router \in Routers /\ call[c].row.ip # 0
             /\ \/ row[call[c].router] = NoRow /\ ~live[call[c].router]
                \/ row[call[c].router].ip = call[c].row.ip
  <2>1. call[c].router \in Routers /\ call[c].row.ip \in Addresses
    BY <1>1, SlotFacts DEF IInv, GoodCall
  <2> QED
    BY <1>1, <2>1, RemoteAssumption DEF IInv, Provisions
<1>2. CASE RowsKept /\ CallMoves
  <2>1. ASSUME NEW r \in Routers, NEW ip, ip # 0,
               (row[r] = NoRow /\ ~live[r]) \/ row[r].ip = ip
        PROVE  (row'[r] = NoRow /\ ~live'[r]) \/ row'[r].ip = ip
    <3>1. RowKept(r) /\ (live'[r] => live[r])
      BY <1>2 DEF RowsKept
    <3> QED
      BY <2>1, <3>1, NoRowType DEF RowKept
  <2>2. ASSUME NEW c \in Slots, call'[c].op = "provision", call'[c].at # "read",
               call'[c].row.status # "NONE"
        PROVE  LET x == call'[c] IN
               \/ row'[x.router] = NoRow /\ ~live'[x.router]
               \/ row'[x.router].ip = x.row.ip
    <3>1. CASE call'[c] = call[c]
      <4>1. /\ call[c].router \in Routers /\ call[c].row.ip # 0
            /\ \/ row[call[c].router] = NoRow /\ ~live[call[c].router]
               \/ row[call[c].router].ip = call[c].row.ip
        BY <1>1, <2>2, <3>1
      <4>2. \/ row'[call[c].router] = NoRow /\ ~live'[call[c].router]
            \/ row'[call[c].router].ip = call[c].row.ip
        BY <2>1, <4>1
      <4> QED
        BY <3>1, <4>2
    <3>2. CASE call' = [d \in Slots |-> Idle]
      BY <2>2, <3>2, IdleType
    <3>3. ASSUME NEW y, call'[c] = y, Moves(c, y)
          PROVE  \/ row'[y.router] = NoRow /\ ~live'[y.router]
                 \/ row'[y.router].ip = y.row.ip
      <4>1. CASE call[c].op = "provision" /\ y.router = call[c].router
                 /\ call[c].at # "read" /\ y.row = call[c].row
        <5>1. /\ call[c].router \in Routers /\ call[c].row.ip # 0
              /\ \/ row[call[c].router] = NoRow /\ ~live[call[c].router]
                 \/ row[call[c].router].ip = call[c].row.ip
          BY <1>1, <2>2, <3>3, <4>1
        <5>2. \/ row'[call[c].router] = NoRow /\ ~live'[call[c].router]
              \/ row'[call[c].router].ip = call[c].row.ip
          BY <2>1, <5>1
        <5> QED
          BY <4>1, <5>2
      <4>2. CASE UNCHANGED row /\ y.row = row[y.router]
        BY <4>2
      <4> QED
        BY <2>2, <3>3, <4>1, <4>2 DEF Moves
    <3>4. ASSUME NEW d \in Slots, NEW y, call' = [call EXCEPT ![d] = y], Moves(d, y)
          PROVE  call'[c] = call[c] \/ (call'[c] = y /\ Moves(c, y))
      BY <3>4 DEF IInv, Typed
    <3> QED
      BY <1>2, <3>1, <3>2, <3>3, <3>4 DEF CallMoves
  <2> QED
    BY <2>2 DEF Provisions
<1>3. ASSUME NEW c \in Slots, RowGiven(c) PROVE Provisions'
  <2>1. \A d \in Slots : call'[d].op = "provision" => d # c /\ call'[d] = call[d]
    <3>1. call' = [call EXCEPT ![c] = Idle]
      BY <1>3 DEF RowGiven
    <3> QED
      BY <3>1, IdleType DEF IInv, Typed
  <2>2. live' = live
    BY <1>3 DEF RowGiven
  <2>3. CASE row' = row
    BY <2>1, <2>2, <2>3 DEF IInv, Provisions
  <2>4. CASE row' # row
    <3> DEFINE r == call[c].router
    <3>1. /\ r \in Routers /\ \A q \in Routers : q # r => row'[q] = row[q]
          /\ row[r] = NoRow => live[r]
          /\ row[r] # NoRow => row[r].ip = row'[r].ip
      BY <1>3, <2>4, GivenFacts
    <3>2. ASSUME NEW d \in Slots, call[d].op = "provision", call[d].at # "read",
                 call[d].row.status # "NONE"
          PROVE  LET q == call[d].router IN
                 (row'[q] = NoRow /\ ~live[q]) \/ row'[q].ip = call[d].row.ip
      <4>1. CASE call[d].router = r
        <5>1. row[r].ip = call[d].row.ip /\ call[d].row.ip # 0
          BY <1>1, <3>1, <3>2, <4>1
        <5>2. row[r] # NoRow
          BY <5>1, NoRowType
        <5> QED
          BY <3>1, <4>1, <5>1, <5>2
      <4>2. CASE call[d].router # r
        BY <1>1, <3>1, <3>2, <4>2
      <4> QED
        BY <4>1, <4>2
    <3> QED
      BY <2>1, <2>2, <3>2 DEF Provisions
  <2> QED
    BY <2>3, <2>4
<1> QED
  BY <1>2, <1>3, Kinds DEF IInv

\* What a step does to the peers of the interface.
PeersMove ==
  \/ UNCHANGED wg
  \/ wg' = [k \in {} |-> 0]
  \/ \E key \in Keys, ip \in Addresses \cup {0} : SetPeer(key, ip)
  \/ \E key : RemovePeer(key)

\* ... and to the rules.
RulesMove ==
  \/ UNCHANGED rules
  \/ rules' = [rule \in DOMAIN rules |-> 0]
  \/ \E ip, src : AddRule(ip, src) \/ DropRule(ip, src)

LEMMA VpsMoves ==
  ASSUME Typed, [Next]_vars
  PROVE  PeersMove /\ RulesMove
<1>1. ASSUME NEW c \in Calls, StartCall(c) PROVE UNCHANGED <<wg, rules>>
  BY <1>1, StartLeaves
<1>2. ASSUME NEW c \in Slots, ContinueCall(c) PROVE PeersMove /\ RulesMove
  <2>1. CASE CallAddPeer(c)
    <3>1. call[c].key \in Keys /\ call[c].row.ip \in Addresses \cup {0}
      BY <2>1, SlotFacts DEF CallAddPeer, At, GoodCall, CallRecords, Rows
    <3>2. UNCHANGED rules /\ (UNCHANGED wg \/ SetPeer(call[c].key, call[c].row.ip))
      BY <2>1 DEF CallAddPeer
    <3> QED
      BY <3>1, <3>2 DEF PeersMove, RulesMove
  <2>2. CASE CallRemovePeer(c)
    BY <2>2 DEF CallRemovePeer, PeersMove, RulesMove
  <2>3. CASE CallDropRule(c)
    BY <2>3 DEF CallDropRule, PeersMove, RulesMove
  <2>4. CASE OpenAddRule(c)
    BY <2>4 DEF OpenAddRule, PeersMove, RulesMove
  <2> QED
    BY <1>2, <2>1, <2>2, <2>3, <2>4
    DEF ContinueCall, ProvisionRead, ProvisionCommit, WithdrawList, NextPeer, RevokeCommit,
        DeleteCommit, OpenCommit, CloseCommit, PeersMove, RulesMove
<1>3. ASSUME NEW t \in Tenants, Deactivate(t) \/ Accept(t) \/ CloseTenant(t)
      PROVE  UNCHANGED <<wg, rules>>
  BY <1>3 DEF Deactivate, Accept, CloseTenant
<1>4. CASE CronLists \/ Tick \/ UNCHANGED vars
  BY <1>4 DEF CronLists, Tick, vars, PeersMove, RulesMove
<1>5. CASE Restart
  BY <1>5 DEF Restart, PeersMove, RulesMove
<1>6. ASSUME NEW k \in Cycles, CycleStep(k) PROVE PeersMove /\ RulesMove
  <2>1. CASE CycleSetPeer(k)
    <3>1. /\ cycle[k].todo \subseteq DOMAIN cycle[k].seen
          /\ \A r \in DOMAIN cycle[k].seen : /\ cycle[k].seen[r].key \in Keys
                                             /\ cycle[k].seen[r].ip \in Addresses
      BY DEF Typed, GoodCycle
    <3>2. /\ UNCHANGED rules
          /\ \/ UNCHANGED wg
             \/ \E r \in cycle[k].todo : SetPeer(cycle[k].seen[r].key, cycle[k].seen[r].ip)
      BY <2>1 DEF CycleSetPeer, SetWanted
    <3> QED
      BY <3>1, <3>2 DEF PeersMove, RulesMove
  <2>2. CASE CyclePrune(k)
    BY <2>2 DEF CyclePrune, PeersMove, RulesMove
  <2>3. CASE CycleFlush(k)
    BY <2>3 DEF CycleFlush, PeersMove, RulesMove
  <2>4. CASE CycleAddRule(k)
    BY <2>4 DEF CycleAddRule, PeersMove, RulesMove
  <2> QED
    BY <1>6, <2>1, <2>2, <2>3, <2>4
    DEF CycleStep, CycleRead, CycleShow, CycleExpire, PeersMove, RulesMove
<1> QED
  BY <1>1, <1>2, <1>3, <1>4, <1>5, <1>6
  DEF Next, OtherStep, Reconcile, Slots, PeersMove, RulesMove

LEMMA PeersStep ==
  ASSUME Typed, [Next]_vars
  PROVE  DOMAIN wg' \subseteq Keys /\ \A k \in DOMAIN wg' : wg'[k] \in Addresses \cup {0}
<1>1. DOMAIN wg \subseteq Keys /\ \A k \in DOMAIN wg : wg[k] \in Addresses \cup {0}
  BY DEF Typed
<1>2. ASSUME NEW key \in Keys, NEW ip \in Addresses \cup {0}, SetPeer(key, ip)
      PROVE  DOMAIN wg' \subseteq Keys /\ \A k \in DOMAIN wg' : wg'[k] \in Addresses \cup {0}
  BY <1>1, <1>2 DEF SetPeer
<1>3. ASSUME NEW key, RemovePeer(key)
      PROVE  DOMAIN wg' \subseteq Keys /\ \A k \in DOMAIN wg' : wg'[k] \in Addresses \cup {0}
  BY <1>1, <1>3 DEF RemovePeer
<1>4. CASE wg' = [k \in {} |-> 0]
  BY <1>4
<1> QED
  BY <1>1, <1>2, <1>3, <1>4, VpsMoves DEF PeersMove

LEMMA Recount ==
  ASSUME NEW D, NEW f \in [D -> Nat], NEW x, NEW n, x \in D => n \in Nat
  PROVE  [f EXCEPT ![x] = n] \in [D -> Nat]
  OBVIOUS

LEMMA RulesStep ==
  ASSUME Typed, [Next]_vars
  PROVE  rules' \in [Addresses \X Sources -> Nat]
<1>1. rules \in [Addresses \X Sources -> Nat]
  BY DEF Typed
<1>2. ASSUME NEW ip, NEW src, AddRule(ip, src)
      PROVE  rules' \in [Addresses \X Sources -> Nat]
  <2> DEFINE x == <<ip, src>>
  <2>1. rules' = [rules EXCEPT ![x] = rules[x] + 1]
    BY <1>2 DEF AddRule
  <2>2. x \in Addresses \X Sources => rules[x] + 1 \in Nat
    <3> HIDE DEF x
    <3> QED
      BY <1>1
  <2> HIDE DEF x
  <2> QED
    BY <1>1, <2>1, <2>2, Recount
<1>3. ASSUME NEW ip, NEW src, DropRule(ip, src)
      PROVE  rules' \in [Addresses \X Sources -> Nat]
  <2> DEFINE x == <<ip, src>>
             n == IF rules[x] = 0 THEN 0 ELSE rules[x] - 1
  <2>1. rules' = rules \/ rules' = [rules EXCEPT ![x] = n]
    BY <1>3 DEF DropRule
  <2>2. x \in Addresses \X Sources => n \in Nat
    <3> HIDE DEF x
    <3> QED
      BY <1>1
  <2> HIDE DEF x, n
  <2> QED
    BY <1>1, <2>1, <2>2, Recount
<1>4. CASE rules' = [rule \in DOMAIN rules |-> 0]
  BY <1>1, <1>4
<1> QED
  BY <1>1, <1>2, <1>3, <1>4, VpsMoves DEF RulesMove

\* A step of a cycle takes it to y: it ends, it begins, or it goes on with the
\* rows it has read.
Advance(k, y) == LET x == cycle[k] IN
  \/ y = Waiting
  \/ /\ CycleRead(k) /\ y.at = "peers" /\ y.todo = Active /\ y.seen = [r \in Active |-> row[r]]
  \/ /\ y.seen = x.seen /\ UNCHANGED <<row, now>>
     /\ \/ /\ x.at = "peers" /\ y.at = "peers" /\ UNCHANGED rules
           /\ \E r \in x.todo : y.todo = x.todo \ {r} /\ SetPeer(x.seen[r].key, x.seen[r].ip)
        \/ /\ x.at = "peers" /\ y.at = "prune" /\ UNCHANGED <<wg, rules>>
           /\ x.todo = {} /\ y.todo = {}
           /\ y.extra = DOMAIN wg \ {x.seen[r].key : r \in DOMAIN x.seen}
        \/ /\ x.at = "prune" /\ y.at = "prune" /\ UNCHANGED rules
           /\ \E key \in x.extra : y.extra = x.extra \ {key} /\ RemovePeer(key)
           /\ y.todo = x.todo
        \/ /\ x.at = "prune" /\ y.at = "rules" /\ UNCHANGED wg
           /\ x.extra = {} /\ y.todo = Windows(k)
           /\ troubles' = troubles + 1 \/ rules' = [rule \in DOMAIN rules |-> 0]
        \/ /\ x.at = "rules" /\ y.at = "rules" /\ UNCHANGED wg
           /\ \E r \in x.todo : y.todo = x.todo \ {r} /\ AddRule(x.seen[r].ip, x.seen[r].src)

LEMMA CycleFacts ==
  ASSUME Typed, NEW k \in Cycles
  PROVE  LET x == cycle[k] IN
         /\ cycle \in [Cycles -> CycleRecords] /\ x \in CycleRecords
         /\ x.todo \subseteq DOMAIN x.seen /\ DOMAIN x.seen \subseteq Routers
         /\ \A r \in DOMAIN x.seen : x.seen[r].key \in Keys /\ x.seen[r].ip \in Addresses
         /\ x.todo \in SUBSET Routers /\ x.extra \in SUBSET Keys
<1>1. cycle \in [Cycles -> CycleRecords] /\ GoodCycle(cycle[k])
  BY DEF Typed
<1>2. cycle[k].seen \in Lists
  BY <1>1 DEF GoodCycle, CycleRecords
<1> QED
  BY <1>1, <1>2, ListItems DEF GoodCycle, CycleRecords

LEMMA ReadAdvances ==
  ASSUME Typed, NEW k \in Cycles, CycleRead(k)
  PROVE  \E y \in CycleRecords : cycle' = [cycle EXCEPT ![k] = y] /\ Advance(k, y) /\ GoodCycle(y)
<1> DEFINE l == [r \in Active |-> row[r]]
           S == Active
           y == [Waiting EXCEPT !.at = "peers", !.seen = l, !.todo = S]
<1>1. cycle' = [cycle EXCEPT ![k] = y]
  BY DEF CycleRead
<1>2. S \in SUBSET Routers /\ DOMAIN l = S /\ \A r \in S : l[r] = row[r]
  BY DEF Active
<1>3. \A r \in S : row[r] \in Rows /\ row[r].key \in Keys /\ row[r].ip \in Addresses
  BY NoRowType DEF Typed, GoodRows, GoodRow, Active
<1>4. l \in Lists
  BY <1>2, <1>3, ListType
<1> HIDE DEF l, S
<1>5. y \in CycleRecords /\ y.seen = l /\ y.todo = S /\ y.at = "peers"
  BY <1>2, <1>4, WaitingType DEF CycleRecords
<1> HIDE DEF y
<1>6. GoodCycle(y)
  BY <1>2, <1>3, <1>5 DEF GoodCycle
<1>7. Advance(k, y)
  BY <1>5 DEF Advance, l, S
<1> QED
  BY <1>1, <1>5, <1>6, <1>7

LEMMA EndAdvances ==
  ASSUME Typed, NEW k \in Cycles, cycle' = [cycle EXCEPT ![k] = Waiting]
  PROVE  \E y \in CycleRecords : cycle' = [cycle EXCEPT ![k] = y] /\ Advance(k, y) /\ GoodCycle(y)
<1>1. Advance(k, Waiting)
  BY DEF Advance
<1> QED
  BY <1>1, WaitingType

LEMMA SetAdvances ==
  ASSUME Typed, NEW k \in Cycles, CycleSetPeer(k)
  PROVE  \E y \in CycleRecords : cycle' = [cycle EXCEPT ![k] = y] /\ Advance(k, y) /\ GoodCycle(y)
<1>1. PICK r \in cycle[k].todo :
        \/ /\ SetPeer(cycle[k].seen[r].key, cycle[k].seen[r].ip)
           /\ cycle' = [cycle EXCEPT ![k].todo = @ \ {r}]
        \/ cycle' = [cycle EXCEPT ![k] = Waiting]
  BY DEF CycleSetPeer, SetWanted
<1>2. cycle[k].at = "peers" /\ UNCHANGED <<row, now, rules>>
  BY DEF CycleSetPeer, store
<1>3. CASE /\ SetPeer(cycle[k].seen[r].key, cycle[k].seen[r].ip)
           /\ cycle' = [cycle EXCEPT ![k].todo = @ \ {r}]
  <2> DEFINE x == cycle[k]
             todo == x.todo \ {r}
             y == [x EXCEPT !.todo = todo]
  <2>1. /\ x \in CycleRecords /\ x.todo \subseteq DOMAIN x.seen
        /\ \A q \in DOMAIN x.seen : x.seen[q].key \in Keys /\ x.seen[q].ip \in Addresses
        /\ todo \in SUBSET Routers /\ todo \subseteq DOMAIN x.seen
    BY CycleFacts
  <2>2. cycle' = [cycle EXCEPT ![k] = y]
    BY <1>3
  <2> HIDE DEF x, todo
  <2>3. y \in CycleRecords /\ y.seen = x.seen /\ y.todo = todo /\ y.at = x.at
    BY <2>1 DEF CycleRecords
  <2> HIDE DEF y
  <2>4. GoodCycle(y)
    BY <2>1, <2>3 DEF GoodCycle
  <2>5. Advance(k, y)
    BY <1>2, <1>3, <2>3 DEF Advance, x, todo
  <2> QED
    BY <2>2, <2>3, <2>4, <2>5
<1> QED
  BY <1>1, <1>3, EndAdvances

LEMMA ShowAdvances ==
  ASSUME Typed, NEW k \in Cycles, CycleShow(k)
  PROVE  \E y \in CycleRecords : cycle' = [cycle EXCEPT ![k] = y] /\ Advance(k, y) /\ GoodCycle(y)
<1> DEFINE x == cycle[k]
           extra == DOMAIN wg \ {x.seen[r].key : r \in DOMAIN x.seen}
           y == [x EXCEPT !.at = "prune", !.extra = extra]
<1>1. /\ x \in CycleRecords /\ x.todo \subseteq DOMAIN x.seen
      /\ \A q \in DOMAIN x.seen : x.seen[q].key \in Keys /\ x.seen[q].ip \in Addresses
      /\ extra \in SUBSET Keys
  BY CycleFacts DEF Typed
<1>2. cycle' = [cycle EXCEPT ![k] = y] /\ x.at = "peers" /\ x.todo = {}
      /\ UNCHANGED <<row, now, wg, rules>>
  BY DEF CycleShow, store
<1> HIDE DEF x, extra
<1>3. y \in CycleRecords /\ y.seen = x.seen /\ y.todo = x.todo /\ y.at = "prune" /\ y.extra = extra
  BY <1>1 DEF CycleRecords
<1> HIDE DEF y
<1>4. GoodCycle(y)
  BY <1>1, <1>3 DEF GoodCycle
<1>5. Advance(k, y)
  BY <1>2, <1>3 DEF Advance, x, extra
<1> QED
  BY <1>2, <1>3, <1>4, <1>5

LEMMA PruneAdvances ==
  ASSUME Typed, NEW k \in Cycles, CyclePrune(k)
  PROVE  \E y \in CycleRecords : cycle' = [cycle EXCEPT ![k] = y] /\ Advance(k, y) /\ GoodCycle(y)
<1>1. PICK key \in cycle[k].extra :
        \/ RemovePeer(key) /\ cycle' = [cycle EXCEPT ![k].extra = @ \ {key}]
        \/ cycle' = [cycle EXCEPT ![k] = Waiting]
  BY DEF CyclePrune
<1>2. cycle[k].at = "prune" /\ UNCHANGED <<row, now, rules>>
  BY DEF CyclePrune, store
<1>3. CASE RemovePeer(key) /\ cycle' = [cycle EXCEPT ![k].extra = @ \ {key}]
  <2> DEFINE x == cycle[k]
             extra == x.extra \ {key}
             y == [x EXCEPT !.extra = extra]
  <2>1. /\ x \in CycleRecords /\ x.todo \subseteq DOMAIN x.seen
        /\ \A q \in DOMAIN x.seen : x.seen[q].key \in Keys /\ x.seen[q].ip \in Addresses
        /\ extra \in SUBSET Keys
    BY CycleFacts
  <2>2. cycle' = [cycle EXCEPT ![k] = y]
    BY <1>3
  <2> HIDE DEF x, extra
  <2>3. /\ y \in CycleRecords /\ y.seen = x.seen /\ y.todo = x.todo /\ y.at = x.at
        /\ y.extra = extra
    BY <2>1 DEF CycleRecords
  <2> HIDE DEF y
  <2>4. GoodCycle(y)
    BY <2>1, <2>3 DEF GoodCycle
  <2>5. Advance(k, y)
    BY <1>2, <1>3, <2>3 DEF Advance, x, extra
  <2> QED
    BY <2>2, <2>3, <2>4, <2>5
<1> QED
  BY <1>1, <1>3, EndAdvances

LEMMA FlushAdvances ==
  ASSUME Typed, NEW k \in Cycles, CycleFlush(k)
  PROVE  \E y \in CycleRecords : cycle' = [cycle EXCEPT ![k] = y] /\ Advance(k, y) /\ GoodCycle(y)
<1> DEFINE x == cycle[k]
           todo == Windows(k)
           y == [x EXCEPT !.at = "rules", !.todo = todo]
<1>1. /\ x \in CycleRecords
      /\ \A q \in DOMAIN x.seen : x.seen[q].key \in Keys /\ x.seen[q].ip \in Addresses
      /\ todo \in SUBSET Routers /\ todo \subseteq DOMAIN x.seen
  BY CycleFacts DEF Windows
<1>2. /\ cycle' = [cycle EXCEPT ![k] = y] /\ x.at = "prune" /\ x.extra = {}
      /\ UNCHANGED <<row, now, wg>>
      /\ troubles' = troubles + 1 \/ rules' = [rule \in DOMAIN rules |-> 0]
  BY DEF CycleFlush, store, Trouble
<1> HIDE DEF x, todo
<1>3. y \in CycleRecords /\ y.seen = x.seen /\ y.todo = todo /\ y.at = "rules"
  BY <1>1 DEF CycleRecords
<1> HIDE DEF y
<1>4. GoodCycle(y)
  BY <1>1, <1>3 DEF GoodCycle
<1>5. Advance(k, y)
  BY <1>2, <1>3 DEF Advance, x, todo
<1> QED
  BY <1>2, <1>3, <1>4, <1>5

LEMMA RuleAdvances ==
  ASSUME Typed, NEW k \in Cycles, CycleAddRule(k)
  PROVE  \E y \in CycleRecords : cycle' = [cycle EXCEPT ![k] = y] /\ Advance(k, y) /\ GoodCycle(y)
<1>1. PICK r \in cycle[k].todo :
        \/ /\ AddRule(cycle[k].seen[r].ip, cycle[k].seen[r].src)
           /\ cycle' = [cycle EXCEPT ![k].todo = @ \ {r}]
        \/ cycle' = [cycle EXCEPT ![k] = Waiting]
  BY DEF CycleAddRule
<1>2. cycle[k].at = "rules" /\ UNCHANGED <<row, now, wg>>
  BY DEF CycleAddRule, store
<1>3. CASE /\ AddRule(cycle[k].seen[r].ip, cycle[k].seen[r].src)
           /\ cycle' = [cycle EXCEPT ![k].todo = @ \ {r}]
  <2> DEFINE x == cycle[k]
             todo == x.todo \ {r}
             y == [x EXCEPT !.todo = todo]
  <2>1. /\ x \in CycleRecords /\ x.todo \subseteq DOMAIN x.seen
        /\ \A q \in DOMAIN x.seen : x.seen[q].key \in Keys /\ x.seen[q].ip \in Addresses
        /\ todo \in SUBSET Routers /\ todo \subseteq DOMAIN x.seen
    BY CycleFacts
  <2>2. cycle' = [cycle EXCEPT ![k] = y]
    BY <1>3
  <2> HIDE DEF x, todo
  <2>3. y \in CycleRecords /\ y.seen = x.seen /\ y.todo = todo /\ y.at = x.at
    BY <2>1 DEF CycleRecords
  <2> HIDE DEF y
  <2>4. GoodCycle(y)
    BY <2>1, <2>3 DEF GoodCycle
  <2>5. Advance(k, y)
    BY <1>2, <1>3, <2>3 DEF Advance, x, todo
  <2> QED
    BY <2>2, <2>3, <2>4, <2>5
<1> QED
  BY <1>1, <1>3, EndAdvances

LEMMA Advances ==
  ASSUME Typed, NEW k \in Cycles, CycleStep(k)
  PROVE  \E y \in CycleRecords : cycle' = [cycle EXCEPT ![k] = y] /\ Advance(k, y) /\ GoodCycle(y)
<1>1. CASE CycleExpire(k)
  BY <1>1, EndAdvances DEF CycleExpire
<1> QED
  BY <1>1, ReadAdvances, SetAdvances, ShowAdvances, PruneAdvances, FlushAdvances, RuleAdvances
  DEF CycleStep

LEMMA CyclesStep ==
  ASSUME Typed, [Next]_vars
  PROVE  cycle' \in [Cycles -> CycleRecords] /\ \A k \in Cycles : GoodCycle(cycle'[k])
<1>1. cycle \in [Cycles -> CycleRecords] /\ \A k \in Cycles : GoodCycle(cycle[k])
  BY DEF Typed
<1>2. ASSUME NEW k \in Cycles, CycleStep(k)
      PROVE  cycle' \in [Cycles -> CycleRecords] /\ \A j \in Cycles : GoodCycle(cycle'[j])
  <2>1. PICK y \in CycleRecords : cycle' = [cycle EXCEPT ![k] = y] /\ GoodCycle(y)
    BY <1>2, Advances
  <2> QED
    BY <1>1, <2>1
<1>3. CASE cycle' = [k \in Cycles |-> Waiting]
  BY <1>3, WaitingType
<1>4. UNCHANGED cycle \/ cycle' = [k \in Cycles |-> Waiting] \/ \E k \in Cycles : CycleStep(k)
  <2>1. \A c \in Calls : StartCall(c) => UNCHANGED cycle
    BY StartLeaves
  <2>2. \A c \in Slots : ContinueCall(c) => UNCHANGED cycle
    BY CallLeaves
  <2>3. \A t \in Tenants : Deactivate(t) \/ Accept(t) \/ CloseTenant(t) => UNCHANGED cycle
    BY DEF Deactivate, Accept, CloseTenant
  <2> QED
    BY <2>1, <2>2, <2>3
    DEF Next, OtherStep, Reconcile, Slots, CronLists, Tick, Restart, vars
<1> QED
  BY <1>1, <1>2, <1>3, <1>4

\* The flags, the clock and the history.
LEMMA RestStep ==
  ASSUME Typed, [Next]_vars
  PROVE  /\ live' \in [Routers -> BOOLEAN] /\ consent' \in [Tenants -> BOOLEAN]
         /\ paid' \in [Tenants -> BOOLEAN] /\ closed' \in [Tenants -> BOOLEAN]
         /\ now' \in 1..MaxTime /\ quiet' \subseteq Cycles /\ troubles' \in Nat
<1>1. /\ live \in [Routers -> BOOLEAN] /\ consent \in [Tenants -> BOOLEAN]
      /\ paid \in [Tenants -> BOOLEAN] /\ closed \in [Tenants -> BOOLEAN]
      /\ now \in 1..MaxTime /\ quiet \subseteq Cycles /\ troubles \in Nat /\ MaxTime \in Nat
  BY RemoteAssumption DEF Typed
<1>2. ASSUME NEW c \in Calls, StartCall(c)
      PROVE  /\ UNCHANGED <<live, paid, closed, now, troubles>>
             /\ consent' = consent \/ \E t \in Tenants : consent' = [consent EXCEPT ![t] = FALSE]
  BY <1>2, StartLeaves
<1>3. ASSUME NEW c \in Slots, ContinueCall(c)
      PROVE  /\ UNCHANGED <<consent, paid, closed, now>>
             /\ troubles' = troubles \/ troubles' = troubles + 1
  BY <1>3, CallLeaves
<1>4. ASSUME NEW t \in Tenants, Deactivate(t) \/ Accept(t) \/ CloseTenant(t)
      PROVE  /\ UNCHANGED <<live, now, troubles>>
             /\ paid' = paid \/ paid' = [paid EXCEPT ![t] = FALSE]
             /\ consent' = consent \/ consent' = [consent EXCEPT ![t] = TRUE]
             /\ closed' = closed \/ closed' = [closed EXCEPT ![t] = TRUE]
  BY <1>4 DEF Deactivate, Accept, CloseTenant
<1>5. ASSUME NEW k \in Cycles, CycleStep(k)
      PROVE  /\ UNCHANGED <<live, consent, paid, closed, now>>
             /\ troubles' = troubles \/ troubles' = troubles + 1
  BY <1>5, CycleLeaves
<1>6. live' \in [Routers -> BOOLEAN]
  <2>1. CASE \E c \in Slots : RowGiven(c)
    BY <1>1, <2>1 DEF RowGiven
  <2> QED
    BY <2>1, Kinds DEF RowsKept
<1>7. quiet' \subseteq Cycles
  BY <1>1 DEF Next, OtherStep, Observe, Reconcile, vars
<1>8. now' \in 1..MaxTime
  <2>1. now' = now \/ (now < MaxTime /\ now' = now + 1)
    BY <1>2, <1>3, <1>4, <1>5
    DEF Next, OtherStep, Reconcile, Slots, CronLists, Tick, Restart, vars, store
  <2> QED
    BY <1>1, <2>1
<1>9. troubles' \in Nat
  <2>1. troubles' = troubles \/ troubles' = troubles + 1
    BY <1>2, <1>3, <1>4, <1>5
    DEF Next, OtherStep, Reconcile, Slots, CronLists, Tick, Restart, vars, store, Trouble
  <2> QED
    BY <1>1, <2>1
<1>10. /\ consent' \in [Tenants -> BOOLEAN] /\ paid' \in [Tenants -> BOOLEAN]
       /\ closed' \in [Tenants -> BOOLEAN]
  <2>1. /\ \/ consent' = consent
           \/ \E t \in Tenants : \E b \in BOOLEAN : consent' = [consent EXCEPT ![t] = b]
        /\ paid' = paid \/ \E t \in Tenants : paid' = [paid EXCEPT ![t] = FALSE]
        /\ closed' = closed \/ \E t \in Tenants : closed' = [closed EXCEPT ![t] = TRUE]
    BY <1>2, <1>3, <1>4, <1>5
    DEF Next, OtherStep, Reconcile, Slots, CronLists, Tick, Restart, vars, store
  <2> QED
    BY <1>1, <2>1
<1> QED
  BY <1>6, <1>7, <1>8, <1>9, <1>10

LEMMA StartKeys ==
  ASSUME NEW r \in DOMAIN Start
  PROVE  /\ StartKey(r) \in Keys /\ StartKey(r) - MaxCalls = Start[r]
         /\ Start[r] \in Addresses /\ r \in Routers /\ Start[r] \in Nat \ {0}
<1>1. r \in Routers /\ Start[r] \in Addresses /\ Addresses \subseteq Nat \ {0} /\ MaxCalls \in Nat
  BY RemoteAssumption
<1>2. StartKey(r) = MaxCalls + Start[r]
  BY DEF StartKey
<1>3. Start[r] \in Nat \ {0}
  BY <1>1
<1>4. StartKey(r) - MaxCalls = Start[r]
  BY <1>1, <1>2, <1>3
<1> QED
  BY <1>1, <1>3, <1>4, KeyTypes

LEMMA InvInit ==
  ASSUME Init
  PROVE  IInv
<1>1. ASSUME NEW r \in DOMAIN Start
      PROVE  LET x == Peer(StartKey(r), Start[r]) IN
             /\ GoodRow(x) /\ x.status = "ACTIVE" /\ x.key = StartKey(r) /\ x.ip = Start[r]
             /\ StartKey(r) - MaxCalls = Start[r] /\ r \in Routers /\ Start[r] \in Nat \ {0}
  <2> DEFINE key == StartKey(r)
             ip == Start[r]
             x == Peer(key, ip)
  <2>1. /\ key \in Keys /\ ip \in Addresses /\ key - MaxCalls = ip /\ r \in Routers
        /\ ip \in Nat \ {0}
    BY StartKeys
  <2> HIDE DEF key, ip
  <2>2. x \in Rows /\ x.status = "ACTIVE" /\ x.key = key /\ x.ip = ip
    BY <2>1, RemoteAssumption DEF Peer, Rows
  <2> HIDE DEF x
  <2>3. GoodRow(x)
    BY <2>1, <2>2 DEF GoodRow
  <2> QED
    BY <2>1, <2>2, <2>3 DEF key, ip, x
<1>2. \A r \in Routers : row[r] = IF r \in DOMAIN Start THEN Peer(StartKey(r), Start[r]) ELSE NoRow
  BY DEF Init
<1>3. \A r \in Routers : GoodRow(row[r])
  BY <1>1, <1>2, NoRowType
<1>4. row \in [Routers -> Rows]
  <2>1. \A r \in Routers : row[r] \in Rows
    BY <1>3 DEF GoodRow
  <2>2. row = [r \in Routers |-> row[r]]
    BY DEF Init
  <2> QED
    BY <2>1, <2>2
<1>5. \A r \in Routers : row[r].ip # 0 => r \in DOMAIN Start /\ row[r].ip = Start[r]
  BY <1>1, <1>2, NoRowType
<1>6. \A p, q \in Routers : row[p].ip = row[q].ip /\ row[p].ip # 0 => p = q
  BY <1>5, RemoteAssumption
<1>7. \A r \in Routers : row[r] # NoRow => r \in DOMAIN Start /\ row[r].key = StartKey(r)
  BY <1>1, <1>2
<1>8. DOMAIN wg \subseteq Keys /\ \A k \in DOMAIN wg : wg[k] \in Addresses \cup {0}
  <2>1. wg = [k \in {StartKey(r) : r \in DOMAIN Start} |-> k - MaxCalls]
    BY DEF Init
  <2>2. \A r \in DOMAIN Start : StartKey(r) \in Keys /\ StartKey(r) - MaxCalls \in Addresses
    BY StartKeys
  <2> QED
    BY <2>1, <2>2
<1>9. /\ rules \in [Addresses \X Sources -> Nat]
      /\ live \in [Routers -> BOOLEAN] /\ consent \in [Tenants -> BOOLEAN]
      /\ paid \in [Tenants -> BOOLEAN] /\ closed \in [Tenants -> BOOLEAN]
      /\ quiet \subseteq Cycles /\ made = 0 /\ now = 1 /\ troubles = 0
  BY DEF Init
<1>10. /\ call \in [Slots -> CallRecords] /\ \A c \in Slots : GoodCall(call[c]) /\ call[c].op = "idle"
       /\ cycle \in [Cycles -> CycleRecords] /\ \A k \in Cycles : GoodCycle(cycle[k])
  BY IdleType, WaitingType DEF Init, Slots
<1>11. now \in 1..MaxTime /\ made \in 0..MaxCalls
  BY <1>9, RemoteAssumption
<1>12. Typed
  BY <1>3, <1>4, <1>6, <1>8, <1>9, <1>10, <1>11 DEF Typed, GoodRows
<1>13. Provisions
  BY <1>10 DEF Provisions
<1>14. KeysOwned
  BY <1>7, <1>10, KeyTypes DEF KeysOwned
<1> QED
  BY <1>12, <1>13, <1>14 DEF IInv

LEMMA InvStep ==
  ASSUME IInv, [Next]_vars
  PROVE  IInv'
<1>1. Typed'
  BY RowsStep, PeersStep, RulesStep, CallsStep, CyclesStep, RestStep, MadeSteps DEF IInv, Typed
<1> QED
  BY <1>1, ProvisionsStep, KeysStep DEF IInv

LEMMA InvAlways == Spec => []IInv
<1>1. Init => IInv
  BY InvInit
<1>2. IInv /\ [Next]_vars => IInv'
  BY InvStep
<1> QED
  BY <1>1, <1>2, PTL DEF Spec

-----------------------------------------------------------------------------

\* Every variable keeps its type, and no two peer rows share an address,
\* whatever the calls that read them and the transactions that write them.
THEOREM TypeCorrect == Spec => []TypeOK
<1>1. IInv => TypeOK
  <2> SUFFICES ASSUME IInv PROVE TypeOK
    OBVIOUS
  <2>1. \A c \in Slots : call[c].row \in Rows /\ call[c].todo \subseteq Routers
    BY SlotFacts DEF IInv, CallRecords
  <2>2. \A k \in Cycles : cycle[k].todo \subseteq Routers /\ cycle[k].extra \subseteq Keys
    BY CycleFacts DEF IInv
  <2> QED
    BY <2>1, <2>2 DEF IInv, Typed, GoodRows, TypeOK, Slots
<1> QED
  BY <1>1, InvAlways, PTL

\* Re-provisioning keeps the router's address: a provision gives back the one
\* it has read, and no transaction that came between has changed it.
THEOREM AddressCorrect == Spec => AddressIsStable
<1>1. IInv /\ [Next]_vars =>
        [\A r \in Routers : row[r].ip # 0 /\ row'[r].ip # 0 => row'[r].ip = row[r].ip]_vars
  <2> SUFFICES ASSUME IInv, [Next]_vars, NEW r \in Routers, row[r].ip # 0, row'[r].ip # 0
               PROVE  row'[r].ip = row[r].ip
    OBVIOUS
  <2>1. CASE RowsKept
    BY <2>1, NoRowType DEF RowsKept, RowKept
  <2>2. ASSUME NEW c \in Slots, RowGiven(c), row' # row PROVE row'[r].ip = row[r].ip
    <3>1. row[r] # NoRow
      BY NoRowType
    <3>2. PICK q \in Routers : /\ row[q] # NoRow => row[q].ip = row'[q].ip
                               /\ \A p \in Routers : p # q => row'[p] = row[p]
      BY <2>2, GivenFacts
    <3> QED
      BY <3>1, <3>2
  <2> QED
    BY <2>1, <2>2, Kinds DEF IInv
<1> QED
  BY <1>1, InvAlways, PTL DEF Spec, AddressIsStable

-----------------------------------------------------------------------------
(* What a cycle that nobody disturbs leaves on the VPS.                      *)

\* The interface has the peers of these routers.
PeersSet(routers) ==
  \A r \in routers : row[r].key \in DOMAIN wg /\ wg[row[r].key] = row[r].ip

\* The keys of the active rows.
Wanted == {row[r].key : r \in Active}

\* The routers whose window is open.
Open == {r \in Active : row[r].src # NoSource /\ row[r].until > now}

\* The rules are those of the windows of these routers.
RulesSet(routers) ==
  \A ip \in Addresses, s \in Sources :
    rules[<<ip, s>>] > 0 <=> \E r \in routers : row[r].ip = ip /\ row[r].src = s

\* What a cycle that nobody has disturbed has done so far.
Repaired(k) == LET x == cycle[k] IN
  /\ x.at \in {"peers", "prune", "rules"} => x.seen = [r \in Active |-> row[r]]
  /\ x.at = "peers" => x.todo \subseteq Active /\ PeersSet(Active \ x.todo)
  /\ x.at = "prune" => PeersSet(Active) /\ x.extra = DOMAIN wg \ Wanted
  /\ x.at = "rules" => /\ PeersSet(Active) /\ DOMAIN wg = Wanted
                       /\ x.todo \subseteq Open /\ RulesSet(Open \ x.todo)

AllRepaired == \A k \in quiet : Repaired(k)

LEMMA ActiveFacts ==
  ASSUME IInv
  PROVE  /\ Active \subseteq Routers
         /\ \A r \in Active : /\ row[r].key \in Keys /\ row[r].ip \in Addresses
                              /\ row[r].src \in Sources \cup {NoSource} /\ row[r].ip # 0
         /\ \A p, q \in Active : row[p].key = row[q].key => p = q
         /\ \A p, q \in Active : row[p].ip = row[q].ip => p = q
<1>1. \A r \in Active : r \in Routers /\ row[r] # NoRow /\ GoodRow(row[r])
  BY NoRowType DEF IInv, Typed, GoodRows, Active
<1>2. \A r \in Active : row[r].key \in Keys /\ row[r].ip \in Addresses
                        /\ row[r].src \in Sources \cup {NoSource}
  BY <1>1 DEF GoodRow, Rows
<1>3. 0 \notin Addresses
  BY RemoteAssumption
<1> QED
  BY <1>1, <1>2, <1>3 DEF IInv, KeysOwned, Typed, GoodRows

\* Setting a peer moves no other wanted peer: keys and addresses are its own.
LEMMA SetKeeps ==
  ASSUME IInv, NEW r \in Active, NEW S \in SUBSET Active, r \in S, PeersSet(Active \ S),
         SetPeer(row[r].key, row[r].ip), UNCHANGED row
  PROVE  PeersSet(Active \ (S \ {r}))'
<1>1. Active' = Active
  BY DEF Active
<1>2. wg' = [k \in DOMAIN wg \cup {row[r].key} |->
               IF k = row[r].key THEN row[r].ip ELSE IF wg[k] = row[r].ip THEN 0 ELSE wg[k]]
  BY DEF SetPeer
<1>3. ASSUME NEW q \in Active, q \notin S \ {r}
      PROVE  row[q].key \in DOMAIN wg' /\ wg'[row[q].key] = row[q].ip
  <2>1. CASE q = r
    BY <1>2, <2>1
  <2>2. CASE q # r
    <3>1. /\ row[q].key \in DOMAIN wg /\ wg[row[q].key] = row[q].ip
          /\ row[q].key # row[r].key /\ row[q].ip # row[r].ip
      BY <1>3, <2>2, ActiveFacts DEF PeersSet
    <3> QED
      BY <1>2, <3>1
  <2> QED
    BY <2>1, <2>2
<1>4. \A q \in Active' \ (S \ {r}) : row'[q].key \in DOMAIN wg' /\ wg'[row'[q].key] = row'[q].ip
  BY <1>1, <1>3
<1> QED
  BY <1>4 DEF PeersSet

\* Pruning a key that is not wanted.
LEMMA PruneKeeps ==
  ASSUME PeersSet(Active), NEW key, key \notin Wanted, RemovePeer(key), UNCHANGED row
  PROVE  PeersSet(Active)' /\ DOMAIN wg' = DOMAIN wg \ {key} /\ Wanted' = Wanted
<1>1. Active' = Active /\ Wanted' = Wanted
  BY DEF Active, Wanted
<1>2. \A r \in Active : row[r].key # key
  BY DEF Wanted
<1>3. wg' = [k \in DOMAIN wg \ {key} |-> wg[k]]
  BY DEF RemovePeer
<1>4. \A r \in Active' : row'[r].key \in DOMAIN wg' /\ wg'[row'[r].key] = row'[r].ip
  BY <1>1, <1>2, <1>3 DEF PeersSet
<1> QED
  BY <1>1, <1>3, <1>4 DEF PeersSet

\* Adding the rule of one more window.
LEMMA AddKeeps ==
  ASSUME IInv, NEW r \in Open, NEW S \in SUBSET Open, r \in S, RulesSet(Open \ S),
         AddRule(row[r].ip, row[r].src), UNCHANGED <<row, now>>
  PROVE  RulesSet(Open \ (S \ {r}))'
<1>1. Open' = Open /\ row' = row
  BY DEF Open, Active
<1>2. /\ rules \in [Addresses \X Sources -> Nat]
      /\ row[r].ip \in Addresses /\ row[r].src \in Sources
  BY ActiveFacts DEF IInv, Typed, Open
<1>3. ASSUME NEW ip \in Addresses, NEW s \in Sources
      PROVE  rules'[<<ip, s>>] > 0 <=>
               \E q \in Open' \ (S \ {r}) : row'[q].ip = ip /\ row'[q].src = s
  <2> DEFINE x == <<ip, s>>
             z == <<row[r].ip, row[r].src>>
  <2>1. x \in Addresses \X Sources /\ z \in Addresses \X Sources
    BY <1>2
  <2>2. x = z <=> row[r].ip = ip /\ row[r].src = s
    OBVIOUS
  <2>3. rules' = [rules EXCEPT ![z] = rules[z] + 1]
    BY DEF AddRule
  <2>4. rules[x] > 0 <=> \E q \in Open \ S : row[q].ip = ip /\ row[q].src = s
    BY DEF RulesSet
  <2> HIDE DEF x, z
  <2>5. rules[x] \in Nat /\ rules'[x] = IF x = z THEN rules[x] + 1 ELSE rules[x]
    BY <1>2, <2>1, <2>3
  <2>6. CASE x = z
    BY <1>1, <2>2, <2>5, <2>6 DEF x
  <2>7. CASE x # z
    BY <1>1, <2>2, <2>4, <2>5, <2>7 DEF x
  <2> QED
    BY <2>6, <2>7
<1> QED
  BY <1>3, Zenon DEF RulesSet

\* A step of the cycle itself.
LEMMA OwnStep ==
  ASSUME IInv, NEW k \in Cycles, CycleStep(k), cycle[k] = Waiting \/ Repaired(k),
         cycle[k] = Waiting \/ troubles' = troubles
  PROVE  Repaired(k)'
<1> DEFINE x == cycle[k]
<1>1. PICK y \in CycleRecords : cycle' = [cycle EXCEPT ![k] = y] /\ Advance(k, y)
  BY Advances DEF IInv
<1>2. cycle'[k] = y
  BY <1>1 DEF IInv, Typed
<1>3. CASE y = Waiting
  BY <1>2, <1>3, WaitingType DEF Repaired
<1>4. CASE /\ CycleRead(k) /\ y.at = "peers" /\ y.todo = Active
           /\ y.seen = [r \in Active |-> row[r]]
  <2>1. row' = row /\ Active' = Active
    BY <1>4 DEF CycleRead, store, Active
  <2>2. PeersSet({})'
    BY DEF PeersSet
  <2>3. Active' \ y.todo = {}
    BY <1>4, <2>1
  <2> QED
    BY <1>2, <1>4, <2>1, <2>2, <2>3 DEF Repaired
<1>5. CASE /\ y.seen = x.seen /\ UNCHANGED <<row, now>> /\ x.at \in {"peers", "prune", "rules"}
           /\ x # Waiting
  <2>1. /\ Active' = Active /\ Wanted' = Wanted /\ Open' = Open /\ row' = row
        /\ Open \subseteq Active
    BY <1>5 DEF Active, Wanted, Open
  <2>2. x.seen = [r \in Active |-> row[r]] /\ Repaired(k) /\ troubles' = troubles
    BY <1>5 DEF Repaired
  <2>3. y.seen = [r \in Active' |-> row'[r]]
    BY <1>5, <2>1, <2>2
  <2>4. ASSUME x.at = "peers", y.at = "peers", NEW r \in x.todo, y.todo = x.todo \ {r},
               SetPeer(x.seen[r].key, x.seen[r].ip)
        PROVE  Repaired(k)'
    <3>1. PICK S : S = x.todo
      OBVIOUS
    <3>2. S \subseteq Active /\ PeersSet(Active \ S) /\ r \in Active /\ r \in S
      BY <2>2, <2>4, <3>1 DEF Repaired
    <3>3. SetPeer(row[r].key, row[r].ip)
      BY <2>2, <2>4, <3>2
    <3>4. PeersSet(Active \ (S \ {r}))' /\ y.todo = S \ {r} /\ y.todo \subseteq Active
      BY <1>5, <2>4, <3>1, <3>2, <3>3, SetKeeps
    <3> QED
      BY <1>2, <2>1, <2>3, <2>4, <3>4 DEF Repaired
  <2>5. CASE /\ x.at = "peers" /\ y.at = "prune" /\ UNCHANGED <<wg, rules>> /\ x.todo = {}
             /\ y.extra = DOMAIN wg \ {x.seen[r].key : r \in DOMAIN x.seen}
    <3>1. {x.seen[r].key : r \in DOMAIN x.seen} = Wanted
      BY <2>2 DEF Wanted
    <3>2. PeersSet(Active)
      <4>1. PeersSet(Active \ {})
        BY <2>2, <2>5 DEF Repaired
      <4> QED
        BY <4>1 DEF PeersSet
    <3>3. PeersSet(Active)'
      BY <2>1, <2>5, <3>2 DEF PeersSet
    <3> QED
      BY <1>2, <2>1, <2>3, <2>5, <3>1, <3>3 DEF Repaired
  <2>6. ASSUME x.at = "prune", y.at = "prune", NEW key \in x.extra, y.extra = x.extra \ {key},
               RemovePeer(key)
        PROVE  Repaired(k)'
    <3>1. PeersSet(Active) /\ x.extra = DOMAIN wg \ Wanted
      BY <2>2, <2>6 DEF Repaired
    <3>2. PeersSet(Active)' /\ DOMAIN wg' = DOMAIN wg \ {key} /\ Wanted' = Wanted
      BY <1>5, <2>6, <3>1, PruneKeeps
    <3>3. y.extra = DOMAIN wg' \ Wanted'
      BY <2>6, <3>1, <3>2
    <3> QED
      BY <1>2, <2>3, <2>6, <3>2, <3>3 DEF Repaired
  <2>7. CASE /\ x.at = "prune" /\ y.at = "rules" /\ UNCHANGED wg /\ x.extra = {}
             /\ y.todo = Windows(k) /\ rules' = [rule \in DOMAIN rules |-> 0]
    <3>1. PeersSet(Active) /\ DOMAIN wg \ Wanted = {}
      BY <2>2, <2>7 DEF Repaired
    <3>2. DOMAIN wg' = Wanted'
      <4>1. Wanted \subseteq DOMAIN wg
        BY <3>1 DEF PeersSet, Wanted
      <4> QED
        BY <2>1, <2>7, <3>1, <4>1
    <3>3. PeersSet(Active)'
      BY <2>1, <2>7, <3>1 DEF PeersSet
    <3>4. Windows(k) = Open
      BY <2>2 DEF Windows, Open
    <3>5. RulesSet({})'
      BY <2>7 DEF IInv, Typed, RulesSet
    <3>6. Open' \ y.todo = {}
      BY <2>1, <2>7, <3>4
    <3> QED
      BY <1>2, <2>1, <2>3, <2>7, <3>2, <3>3, <3>4, <3>5, <3>6 DEF Repaired
  <2>8. ASSUME x.at = "rules", y.at = "rules", UNCHANGED wg, NEW r \in x.todo,
               y.todo = x.todo \ {r}, AddRule(x.seen[r].ip, x.seen[r].src)
        PROVE  Repaired(k)'
    <3>1. PICK S : S = x.todo
      OBVIOUS
    <3>2. /\ S \subseteq Open /\ RulesSet(Open \ S) /\ r \in Open /\ r \in S
          /\ PeersSet(Active) /\ DOMAIN wg = Wanted
      BY <2>2, <2>8, <3>1 DEF Repaired
    <3>3. AddRule(row[r].ip, row[r].src)
      BY <2>1, <2>2, <2>8, <3>2
    <3>4. RulesSet(Open \ (S \ {r}))' /\ y.todo = S \ {r}
      BY <1>5, <2>8, <3>1, <3>2, <3>3, AddKeeps
    <3>5. PeersSet(Active)' /\ DOMAIN wg' = Wanted'
      BY <2>1, <2>8, <3>2 DEF PeersSet
    <3>6. y.todo \subseteq Open'
      BY <2>1, <3>2, <3>4
    <3> QED
      BY <1>2, <2>1, <2>3, <2>8, <3>4, <3>5, <3>6 DEF Repaired
  <2>9. troubles' # troubles + 1
    BY <2>2 DEF IInv, Typed
  <2> QED
    BY <1>1, <1>3, <1>4, <2>4, <2>5, <2>6, <2>7, <2>8, <2>9 DEF Advance
<1>6. x.at \in {"peers", "prune", "rules"} => x # Waiting
  BY WaitingType
<1> QED
  BY <1>1, <1>3, <1>4, <1>5, <1>6 DEF Advance

\* A cycle that has been read is at its end or in the middle.
LEMMA CycleUnder ==
  ASSUME Typed, NEW k \in Cycles, CycleStep(k)
  PROVE  /\ now' = now
         /\ \A j \in Cycles : j # k => cycle'[j] = cycle[j]
         /\ cycle[k] = Waiting => UNCHANGED <<row, wg, rules>>
<1>1. now' = now
  BY CycleLeaves
<1>2. \A j \in Cycles : j # k => cycle'[j] = cycle[j]
  BY Advances DEF Typed
<1>3. ASSUME cycle[k] = Waiting PROVE UNCHANGED <<row, wg, rules>>
  <2>1. cycle[k].at = "idle"
    BY <1>3, WaitingType
  <2>2. CycleRead(k)
    BY <2>1 DEF CycleStep, CycleSetPeer, CycleShow, CyclePrune, CycleFlush, CycleAddRule,
       CycleExpire
  <2> QED
    BY <2>2 DEF CycleRead, store
<1> QED
  BY <1>1, <1>2, <1>3

\* Nothing of what a cycle works on has changed.
LEMMA Undisturbed ==
  ASSUME NEW k, Repaired(k), UNCHANGED <<row, wg, rules, now>>, cycle'[k] = cycle[k]
  PROVE  Repaired(k)'
<1>1. /\ Active' = Active /\ Wanted' = Wanted /\ Open' = Open
      /\ row' = row /\ wg' = wg /\ rules' = rules
  BY DEF Active, Wanted, Open
<1>2. \A S : PeersSet(S) => PeersSet(S)'
  BY <1>1 DEF PeersSet
<1>3. ASSUME NEW S, RulesSet(S) PROVE RulesSet(S)'
  <2>1. ASSUME NEW ip \in Addresses, NEW s \in Sources
        PROVE  rules'[<<ip, s>>] > 0 <=> \E r \in S : row'[r].ip = ip /\ row'[r].src = s
    <3>1. rules[<<ip, s>>] > 0 <=> \E r \in S : row[r].ip = ip /\ row[r].src = s
      BY <1>3 DEF RulesSet
    <3>2. row' = row /\ rules' = rules
      BY <1>1
    <3> QED
      BY <3>1, <3>2
  <2> QED
    BY <2>1, Zenon DEF RulesSet
<1>4. Active' \ cycle'[k].todo = Active \ cycle[k].todo
      /\ Open' \ cycle'[k].todo = Open \ cycle[k].todo
  BY <1>1
<1> QED
  BY <1>1, <1>2, <1>3, <1>4 DEF Repaired

LEMMA RepairStep ==
  ASSUME IInv, AllRepaired, [Next]_vars
  PROVE  AllRepaired'
<1>1. ASSUME NEW k \in Cycles, Reconcile(k), NEW j \in quiet'
      PROVE  Repaired(j)'
  <2>1. CycleStep(k) /\ j \in Cycles
    BY <1>1, RestStep DEF Reconcile, IInv
  <2>2. CASE j = k
    <3>1. \/ cycle[k] = Waiting
          \/ troubles' = troubles /\ k \in quiet
      BY <1>1, <2>2 DEF Reconcile
    <3>2. cycle[k] = Waiting \/ Repaired(k)
      BY <3>1 DEF AllRepaired
    <3> QED
      BY <2>1, <2>2, <3>1, <3>2, OwnStep
  <2>3. CASE j # k
    <3>1. j \in quiet /\ UNCHANGED <<row, wg, rules>>
      BY <1>1, <2>1, <2>3, CycleUnder DEF Reconcile, IInv
    <3>2. now' = now /\ cycle'[j] = cycle[j]
      BY <2>1, <2>3, CycleUnder DEF IInv
    <3> QED
      BY <3>1, <3>2, Undisturbed DEF AllRepaired
  <2> QED
    BY <2>2, <2>3
<1>2. ASSUME OtherStep, NEW j \in quiet'
      PROVE  Repaired(j)'
  <2>1. j \in quiet /\ UNCHANGED <<row, wg, rules, now, troubles>>
    BY <1>2 DEF OtherStep, Observe
  <2>2. UNCHANGED cycle
    <3>1. ~Restart
      BY <2>1 DEF Restart, Trouble, IInv, Typed
    <3>2. \A c \in Calls : StartCall(c) => UNCHANGED cycle
      BY StartLeaves
    <3>3. \A c \in Slots : ContinueCall(c) => UNCHANGED cycle
      BY CallLeaves
    <3> QED
      BY <1>2, <3>1, <3>2, <3>3
      DEF OtherStep, Slots, CronLists, Deactivate, Accept, CloseTenant, Tick
  <2> QED
    BY <2>1, <2>2, Undisturbed DEF AllRepaired
<1>3. ASSUME UNCHANGED vars, NEW j \in quiet'
      PROVE  Repaired(j)'
  BY <1>3, Undisturbed DEF vars, AllRepaired
<1> QED
  BY <1>1, <1>2, <1>3 DEF Next, AllRepaired

\* "La base est la source de verite" (wireguard.reconciler.ts): whatever calls,
\* restarts and failed commands came before, a cycle during which nothing else
\* changes leaves the interface and the rules as the rows have them.
THEOREM RepairCorrect == Spec => []UndisturbedCycleRepairs
<1>1. Init => AllRepaired
  BY DEF Init, AllRepaired
<1>2. IInv /\ AllRepaired /\ [Next]_vars => AllRepaired'
  BY RepairStep
<1>3. IInv /\ AllRepaired => UndisturbedCycleRepairs
  <2> SUFFICES ASSUME IInv, AllRepaired, NEW k \in quiet, cycle[k].at = "rules",
                      cycle[k].todo = {}
               PROVE  PeersAgree /\ RulesAgree
    BY DEF UndisturbedCycleRepairs
  <2>1. PeersSet(Active) /\ DOMAIN wg = Wanted /\ RulesSet(Open \ {})
    BY DEF AllRepaired, Repaired
  <2>2. PeersAgree
    BY <2>1 DEF PeersAgree, PeersSet, Wanted
  <2>3. ASSUME NEW ip \in Addresses, NEW s \in Sources
        PROVE  rules[ip, s] > 0 <=> \E r \in Active : /\ row[r].ip = ip /\ row[r].src = s
                                                       /\ row[r].until > now
    <3>1. s # NoSource
      BY RemoteAssumption
    <3>2. rules[<<ip, s>>] > 0 <=> \E r \in Open : row[r].ip = ip /\ row[r].src = s
      BY <2>1 DEF RulesSet
    <3> QED
      BY <3>1, <3>2 DEF Open
  <2> QED
    BY <2>2, <2>3 DEF RulesAgree
<1> QED
  BY <1>1, <1>2, <1>3, InvAlways, PTL DEF Spec
=============================================================================
