-------------------------- MODULE MobileSessionProofs --------------------------
(* Theorems about MobileSession, for any number of requests, calls and        *)
(* tokens.                                                                    *)
EXTENDS MobileSession, AccountsProofs

\* The tokens an answer can hold.
Held == Ids \cup {None}

RequestRecords ==
  [at : {"idle", "sent", "waiting", "clear access", "clear refresh"},
   access : Held, retry : BOOLEAN, wrong : BOOLEAN]
Flights ==
  [at : {"none", "posted", "served", "ok", "refused", "failed", "keep access",
         "keep refresh", "drop access", "drop refresh"},
   first : Slots, token : Held, call : Calls \cup {None}]
People ==
  [at : {"idle", "asked", "welcome", "keep access", "keep refresh", "bye",
         "drop access", "drop refresh"},
   token : Held, call : Calls \cup {None}]

Typed ==
  /\ mem \in [access : Held, refresh : Held] /\ disk \in [access : Held, refresh : Held]
  /\ up \in BOOLEAN /\ screen \in {"login", "app"} /\ cause \in BOOLEAN
  /\ req \in [Slots -> RequestRecords] /\ refresh \in Flights /\ person \in People
  /\ expired \in 0..Len(tokens) /\ sent \in 0..MaxRequests
  /\ troubles \in 0..MaxTroubles /\ shown \subseteq Ids

\* Requests wait for a refresh in flight; an app that does not run waits for
\* nothing.
Waits ==
  /\ Waiting # {} <=> refresh # NoRefresh
  /\ up \/ (req = [q \in Slots |-> Still] /\ refresh = NoRefresh /\ person = Nobody)

\* The server knows one account, and answers each call to the one who made it.
OneAccount ==
  /\ status[Owner] = "ACTIVE" /\ tenant = "ACTIVE"
  /\ \A t \in Ids : tokens[t].user = Owner
  /\ \A c \in Calls : call[c].op \in {"idle", "login", "rotate"} /\ call[c].user = Owner
  /\ refresh.call # None => call[refresh.call].op = "rotate"
  /\ person.call # None => call[person.call].op = "login"

\* The token in memory was posted only when its refresh is under way; the ones
\* that answers bring were not.
Fresh ==
  /\ mem.refresh \in shown => refresh.at \in {"posted", "served", "ok", "refused", "failed"}
  /\ refresh.at = "ok" => refresh.token \notin shown
  /\ person.at = "welcome" =>
       /\ person.token \notin shown
       /\ person.token # None => person.token # mem.refresh
       /\ refresh.at = "ok" /\ person.token # None => refresh.token # person.token

\* The rotation of a refresh, while nothing that may end the session happened.
Rotation(x) ==
  /\ x.op = "rotate" /\ x.token = refresh.token /\ x.at \in {"claim", "issue"}
  /\ x.at = "claim" => tokens[x.token].live

\* The session, while nothing that may end it happened: the app is signed in, a
\* retried request has an access token that lives, the one call of the server is
\* the rotation that the phone waits for, and the newest token of the session is
\* with the phone, on its way to it or about to be issued.
SignedIn == up /\ screen = "app" /\ person = Nobody /\ mem.refresh # None
RetriesPass ==
  \A q \in Slots : /\ req[q].at \in {"idle", "sent", "waiting"}
                   /\ req[q].at = "sent" /\ req[q].retry => req[q].access > expired
OneCall == \A c \in Calls : call[c] # Idle => refresh.at = "served" /\ refresh.call = c
Renewal ==
  /\ refresh.at \in {"none", "posted", "served", "ok", "keep access", "keep refresh"}
  /\ refresh.at = "served" => refresh.call \in Calls /\ Rotation(call[refresh.call])
  /\ refresh.at \in {"posted", "keep access", "keep refresh"} => refresh.token = mem.refresh
  /\ refresh.at \in {"ok", "keep access", "keep refresh"} =>
       refresh.token > expired /\ tokens[refresh.token].live
  /\ refresh.at \in {"none", "posted"} => tokens[mem.refresh].live
Signed == SignedIn /\ RetriesPass /\ OneCall /\ Renewal

MInv == TypeInv /\ Typed /\ Waits /\ OneAccount /\ Fresh /\ (~cause => Signed)

-----------------------------------------------------------------------------
(* The server.                                                               *)

\* What the phone and its troubles make the server do is a step of Accounts.
LEMMA ServerSteps ==
  ASSUME MobileNext
  PROVE  \/ UNCHANGED vars
         \/ \E c \in Calls : Start(c) \/ Continue(c) \/ Fails(c)
         \/ (\E t \in Ids : Logout(t)) \/ (\E u \in Users : RevokeAllSessions(u))
<1>1. Owner \in Users
  BY DEF Users
<1>2. CASE Progress
  <2>1. ASSUME NEW c \in Calls, Serve(c) \/ ReachServer(c) PROVE Start(c) \/ Continue(c)
    BY <2>1 DEF Serve, ReachServer, Start, StartRotate
  <2> QED
    BY <1>2, <2>1
    DEF Progress, AnswerOk, JoinRefresh, GiveUp, ClearAccess, ClearRefresh, TakeTokens,
        KeepAccess, KeepRefresh, TakeRefusal, DropAccess, DropRefresh, TakeFailure, Welcome,
        PersonKeepsAccess, PersonKeepsRefresh, Leave, PersonDropsAccess, PersonDropsRefresh
<1>3. CASE Environment
  <2>1. ASSUME NEW c \in Calls, ServerFails(c) \/ SignIn(c) PROVE Start(c) \/ Fails(c)
    BY <1>1, <2>1 DEF ServerFails, SignIn, Start
  <2>2. CASE SignOut
    BY <2>2 DEF SignOut, Logout
  <2> QED
    BY <1>1, <1>3, <2>1, <2>2
    DEF Environment, Send, SendWrong, Request, Timeout, EndSessions, LoseAnswer, Kill, BootApp,
        Expire
<1> QED
  BY <1>2, <1>3 DEF MobileNext

LEMMA ServerStep == MobileNext => [Next]_vars
  BY ServerSteps DEF Next

\* The phone and its troubles are an environment of Accounts: all that holds of
\* the server's accounts holds here.
THEOREM UsesAccounts == MobileSpec => Spec
<1>1. MobileInit => Init
  BY DEF MobileInit
<1>2. [MobileNext]_allVars => [Next]_vars
  BY ServerStep DEF allVars, vars
<1> QED
  BY <1>1, <1>2, PTL DEF MobileSpec, Spec

LEMMA Numbered ==
  ASSUME TokensOK
  PROVE  /\ Len(tokens) \in Nat /\ Ids = 1..Len(tokens) /\ Held = 0..Len(tokens)
         /\ None \in Held /\ None \notin Ids
<1>1. Len(tokens) \in Nat /\ Ids = 1..Len(tokens)
  BY TokensShape
<1> QED
  BY <1>1 DEF Held, None

\* Tokens are added, one at a time, and keep their user.
LEMMA Grows ==
  ASSUME TypeInv, MobileNext
  PROVE  /\ TypeInv' /\ Held \subseteq Held' /\ Ids \subseteq Ids'
         /\ Len(tokens) \in Nat /\ Len(tokens') \in Nat
         /\ Len(tokens') = Len(tokens) \/ Len(tokens') = Len(tokens) + 1
         /\ Ids = 1..Len(tokens) /\ Ids' = 1..Len(tokens')
         /\ Held = 0..Len(tokens) /\ Held' = 0..Len(tokens')
         /\ \A t \in Ids : tokens'[t].user = tokens[t].user
<1>1. TypeInv' /\ TokensOK /\ TokensOK'
  BY ServerStep, TypeStep DEF TypeInv
<1>2. /\ Len(tokens) \in Nat /\ Ids = 1..Len(tokens) /\ Held = 0..Len(tokens)
  BY <1>1, Numbered
<1>3. Len(tokens') \in Nat /\ Ids' = 1..Len(tokens') /\ Held' = 0..Len(tokens')
  <2>1. Len(tokens') \in Nat /\ Ids' = 1..Len(tokens')
    BY <1>1, LenProperties DEF TokensOK, Ids
  <2> QED
    BY <2>1 DEF Held, None
<1>4. /\ Len(tokens') = Len(tokens) \/ Len(tokens') = Len(tokens) + 1
      /\ \A t \in Ids : tokens'[t].user = tokens[t].user
  <2>1. CASE TokensKeep
    BY <2>1 DEF TokensKeep
  <2>2. ASSUME NEW c \in Calls, Issues(c)
        PROVE  /\ Len(tokens') = Len(tokens) + 1
               /\ \A t \in Ids : tokens'[t].user = tokens[t].user
    <3>1. Ids' = Ids \cup {Len(tokens) + 1} /\ \A t \in Ids : tokens'[t] = tokens[t]
      BY <2>2, IssueEffect
    <3>2. Len(tokens) + 1 \in 1..Len(tokens')
      BY <1>2, <1>3, <3>1
    <3>3. Len(tokens') \in Ids'
      BY <1>2, <1>3, <3>2
    <3>4. Len(tokens') <= Len(tokens) + 1
      BY <1>2, <1>3, <3>1, <3>3
    <3>5. Len(tokens') = Len(tokens) + 1
      BY <1>2, <1>3, <3>2, <3>4
    <3> QED
      BY <3>1, <3>5
  <2> QED
    BY <2>1, <2>2, ServerStep, StepKinds, WinEffect DEF Weakens
<1>5. Held \subseteq Held' /\ Ids \subseteq Ids'
  BY <1>2, <1>3, <1>4
<1> QED
  BY <1>1, <1>2, <1>3, <1>4, <1>5

-----------------------------------------------------------------------------
(* What a step does to the phone.                                            *)

\* A pair of tokens with one of them rewritten.
Kept(pair, new, t) == new = [pair EXCEPT !.access = t] \/ new = [pair EXCEPT !.refresh = t]

LEMMA ProgressMoves ==
  ASSUME Progress, cause \in BOOLEAN
  PROVE  /\ mem' \in {mem, NoTokens, Pair(refresh.token), Pair(person.token)}
         /\ disk' = disk \/ \E t \in {None, refresh.token, person.token} : Kept(disk, disk', t)
         /\ screen' \in {screen, "login", "app"}
         /\ UNCHANGED <<up, expired, sent, troubles>>
         /\ shown' = shown \/ shown' = shown \cup {mem.refresh}
         /\ cause' \in BOOLEAN /\ (cause => cause')
<1>1. ASSUME NEW c \in Calls, Serve(c) \/ ReachServer(c)
      PROVE  UNCHANGED <<mem, disk, screen, up, expired, sent, troubles, shown>>
             /\ cause' \in BOOLEAN /\ (cause => cause')
  BY <1>1 DEF Serve, ReachServer, device, history
<1>2. ASSUME NEW q \in Slots, \/ AnswerOk(q) \/ JoinRefresh(q) \/ GiveUp(q)
                              \/ ClearAccess(q) \/ ClearRefresh(q)
      PROVE  /\ mem' \in {mem, NoTokens}
             /\ disk' = disk \/ Kept(disk, disk', None)
             /\ screen' \in {screen, "login", "app"}
             /\ UNCHANGED <<up, expired, sent, troubles>>
             /\ shown' = shown \/ shown' = shown \cup {mem.refresh}
             /\ cause' \in BOOLEAN /\ (cause => cause')
  BY <1>2 DEF AnswerOk, JoinRefresh, GiveUp, ClearAccess, ClearRefresh, device, history, Kept
<1>3. CASE TakeTokens \/ KeepAccess \/ KeepRefresh \/ TakeRefusal \/ DropAccess \/ DropRefresh
           \/ TakeFailure
  BY <1>3 DEF TakeTokens, KeepAccess, KeepRefresh, TakeRefusal, DropAccess, DropRefresh,
     TakeFailure, Reject, device, history, Kept
<1>4. CASE Welcome \/ PersonKeepsAccess \/ PersonKeepsRefresh \/ Leave \/ PersonDropsAccess
           \/ PersonDropsRefresh
  BY <1>4 DEF Welcome, PersonKeepsAccess, PersonKeepsRefresh, Leave, PersonDropsAccess,
     PersonDropsRefresh, device, history, Kept
<1> QED
  BY <1>1, <1>2, <1>3, <1>4 DEF Progress

LEMMA EnvironmentMoves ==
  ASSUME Environment, cause \in BOOLEAN
  PROVE  /\ mem' \in {mem, NoTokens, disk} /\ disk' = disk
         /\ screen' \in {screen, "login", "app"} /\ up' \in {up, TRUE, FALSE}
         /\ expired' = expired \/ (expired < Len(tokens) /\ expired' = expired + 1)
         /\ sent' = sent \/ (sent < MaxRequests /\ sent' = sent + 1)
         /\ troubles' = troubles \/ (troubles < MaxTroubles /\ troubles' = troubles + 1)
         /\ shown' \in {shown, {}}
         /\ cause' \in BOOLEAN /\ (cause => cause')
<1>1. ASSUME NEW c \in Calls, ServerFails(c) \/ SignIn(c)
      PROVE  /\ UNCHANGED <<mem, disk, screen, up, expired, shown>>
             /\ sent' = sent \/ (sent < MaxRequests /\ sent' = sent + 1)
             /\ troubles' = troubles \/ (troubles < MaxTroubles /\ troubles' = troubles + 1)
             /\ cause' \in BOOLEAN /\ (cause => cause')
  BY <1>1 DEF ServerFails, SignIn, Trouble, device, history
<1>2. ASSUME NEW q \in Slots, Send(q) \/ SendWrong(q) \/ Timeout(q)
      PROVE  /\ mem' \in {mem, NoTokens} /\ UNCHANGED <<disk, screen, up, expired, shown>>
             /\ sent' = sent \/ (sent < MaxRequests /\ sent' = sent + 1)
             /\ troubles' = troubles \/ (troubles < MaxTroubles /\ troubles' = troubles + 1)
             /\ cause' \in BOOLEAN /\ (cause => cause')
  BY <1>2 DEF Send, SendWrong, Request, Timeout, Trouble, device, history
<1>3. CASE EndSessions \/ LoseAnswer \/ SignOut
  BY <1>3 DEF EndSessions, LoseAnswer, SignOut, Reject, Trouble, device, history
<1>4. CASE Kill \/ BootApp \/ Expire
  BY <1>4 DEF Kill, BootApp, Expire, Trouble, device, history
<1> QED
  BY <1>1, <1>2, <1>3, <1>4 DEF Environment, Slots

\* A request stays, ends, moves to another place or is sent with a token.
RequestMoves(q) ==
  \/ req'[q] = req[q] \/ req'[q] = Still
  \/ \E a \in {"waiting", "clear access", "clear refresh"} : req'[q] = [req[q] EXCEPT !.at = a]
  \/ \E t \in {mem.access, disk.access, refresh.token}, b, w \in BOOLEAN :
       req'[q] = Sent(t, b, w)

RequestsMove == DOMAIN req' = Slots /\ req' = [q \in Slots |-> req'[q]]
                /\ \A q \in Slots : RequestMoves(q)

\* The refresh in flight, with the place it has come to, a token or a call.
FlightMoves ==
  \/ refresh' = refresh \/ refresh' = NoRefresh
  \/ \E a \in {"keep access", "keep refresh", "refused", "drop access", "drop refresh"} :
       refresh' = [refresh EXCEPT !.at = a]
  \/ \E a \in {"ok", "refused"}, t \in {None, Len(tokens')} :
       refresh' = [refresh EXCEPT !.at = a, !.token = t, !.call = None]
  \/ \E c \in Calls : refresh' = [refresh EXCEPT !.at = "served", !.call = c]
  \/ refresh' = [refresh EXCEPT !.at = "failed", !.call = None]
  \/ \E q \in Slots :
       /\ refresh = NoRefresh
       /\ refresh' = [at |-> "posted", first |-> q, token |-> mem.refresh, call |-> None]

PersonMoves ==
  \/ person' = person \/ person' = Nobody
  \/ \E a \in {"keep access", "keep refresh", "drop access", "drop refresh"} :
       person' = [person EXCEPT !.at = a]
  \/ \E t \in {None, Len(tokens')} : person' = [at |-> "welcome", token |-> t, call |-> None]
  \/ \E c \in Calls : person' = [Nobody EXCEPT !.at = "asked", !.call = c]
  \/ person' = [Nobody EXCEPT !.at = "bye"]

LEMMA RejectMoves ==
  ASSUME req \in [Slots -> RequestRecords], Reject
  PROVE  RequestsMove /\ refresh' = NoRefresh /\ mem' = NoTokens
  BY DEF Reject, RequestsMove, RequestMoves

LEMMA OneRequestMoves ==
  ASSUME req \in [Slots -> RequestRecords], NEW q \in Slots, NEW y, req' = [req EXCEPT ![q] = y],
         \/ y = Still
         \/ \E a \in {"waiting", "clear access", "clear refresh"} : y = [req[q] EXCEPT !.at = a]
         \/ \E t \in {mem.access, disk.access, refresh.token}, b, w \in BOOLEAN : y = Sent(t, b, w)
  PROVE  RequestsMove
<1>1. req'[q] = y /\ \A p \in Slots : p # q => req'[p] = req[p]
  OBVIOUS
<1> QED
  BY <1>1 DEF RequestsMove, RequestMoves

LEMMA RequestsSteps ==
  ASSUME req \in [Slots -> RequestRecords], MobileNext
  PROVE  RequestsMove
<1>0. ASSUME UNCHANGED req PROVE RequestsMove
  BY <1>0 DEF RequestsMove, RequestMoves
<1>1. ASSUME NEW c \in Calls, Serve(c) \/ ReachServer(c) \/ ServerFails(c) \/ SignIn(c)
      PROVE  UNCHANGED req
  BY <1>1 DEF Serve, ReachServer, ServerFails, SignIn
<1>2. ASSUME NEW q \in Slots, AnswerOk(q) \/ ClearRefresh(q) PROVE RequestsMove
  BY <1>2, OneRequestMoves DEF AnswerOk, ClearRefresh
<1>3. ASSUME NEW q \in Slots, JoinRefresh(q) \/ GiveUp(q) \/ ClearAccess(q)
      PROVE  RequestsMove
  <2> DEFINE x == req[q]
  <2>1. PICK a \in {"waiting", "clear access", "clear refresh"} :
          req' = [req EXCEPT ![q] = [x EXCEPT !.at = a]]
    BY <1>3 DEF JoinRefresh, GiveUp, ClearAccess
  <2> QED
    BY <2>1, OneRequestMoves
<1>4. ASSUME NEW q \in Slots, Timeout(q) PROVE RequestsMove
  <2> DEFINE x == req[q]
  <2>1. req' = [req EXCEPT ![q] = Still]
        \/ req' = [req EXCEPT ![q] = [x EXCEPT !.at = "clear access"]]
    BY <1>4 DEF Timeout
  <2> QED
    BY <2>1, OneRequestMoves
<1>5. ASSUME NEW q \in Requests, Send(q) \/ SendWrong(q) PROVE RequestsMove
  BY <1>5, OneRequestMoves DEF Send, SendWrong, Request, Slots
<1>6. CASE TakeTokens \/ KeepAccess \/ TakeRefusal \/ DropAccess \/ Welcome \/ PersonKeepsAccess
           \/ PersonKeepsRefresh \/ Leave \/ PersonDropsAccess \/ PersonDropsRefresh
           \/ EndSessions \/ SignOut \/ Expire
  BY <1>0, <1>6
  DEF TakeTokens, KeepAccess, TakeRefusal, DropAccess, Welcome, PersonKeepsAccess,
      PersonKeepsRefresh, Leave, PersonDropsAccess, PersonDropsRefresh, EndSessions, SignOut,
      Expire
<1>7. CASE KeepRefresh
  <2>1. req' = [q \in Slots |-> IF q \in Waiting THEN Sent(refresh.token, TRUE, req[q].wrong)
                               ELSE req[q]]
    BY <1>7 DEF KeepRefresh, NewAccess
  <2>2. ASSUME NEW q \in Slots PROVE req[q].wrong \in BOOLEAN
    BY <2>2 DEF RequestRecords
  <2>3. ASSUME NEW q \in Slots PROVE RequestMoves(q)
    <3>1. req'[q] = Sent(refresh.token, TRUE, req[q].wrong) \/ req'[q] = req[q]
      BY <2>1, <2>3
    <3> QED
      BY <2>2, <2>3, <3>1 DEF RequestMoves
  <2> QED
    BY <2>1, <2>3 DEF RequestsMove
<1>8. CASE DropRefresh \/ TakeFailure \/ LoseAnswer
  BY <1>8, RejectMoves DEF DropRefresh, TakeFailure, LoseAnswer
<1>9. CASE Kill
  BY <1>9 DEF Kill, RequestsMove, RequestMoves
<1>10. CASE BootApp
  <2>1. Boot \in Slots
    BY DEF Slots
  <2>2. UNCHANGED req \/ req' = [req EXCEPT ![Boot] = Sent(disk.access, FALSE, FALSE)]
    BY <1>10 DEF BootApp
  <2> QED
    BY <1>0, <2>1, <2>2, OneRequestMoves
<1> QED
  BY <1>0, <1>1, <1>2, <1>3, <1>4, <1>5, <1>6, <1>7, <1>8, <1>9, <1>10
  DEF MobileNext, Progress, Environment

LEMMA FlightSteps ==
  ASSUME MobileNext
  PROVE  FlightMoves
<1>1. ASSUME NEW c \in Calls, Serve(c) PROVE FlightMoves
  BY <1>1 DEF Serve, Answered, FlightMoves
<1>2. ASSUME NEW c \in Calls, ReachServer(c) \/ ServerFails(c) \/ SignIn(c) PROVE FlightMoves
  BY <1>2 DEF ReachServer, ServerFails, SignIn, FlightMoves
<1>3. ASSUME NEW q \in Slots, JoinRefresh(q) PROVE FlightMoves
  BY <1>3 DEF JoinRefresh, FlightMoves
<1>4. ASSUME NEW q \in Slots, \/ AnswerOk(q) \/ GiveUp(q) \/ ClearAccess(q) \/ ClearRefresh(q)
                              \/ Timeout(q) \/ Send(q) \/ SendWrong(q)
      PROVE  FlightMoves
  BY <1>4 DEF AnswerOk, GiveUp, ClearAccess, ClearRefresh, Timeout, Send, SendWrong, Request,
     FlightMoves
<1>5. CASE TakeTokens \/ KeepAccess \/ KeepRefresh \/ TakeRefusal \/ DropAccess \/ DropRefresh
           \/ TakeFailure \/ LoseAnswer \/ Kill
  BY <1>5 DEF TakeTokens, KeepAccess, KeepRefresh, TakeRefusal, DropAccess, DropRefresh,
     TakeFailure, LoseAnswer, Kill, Reject, FlightMoves
<1>6. CASE Welcome \/ PersonKeepsAccess \/ PersonKeepsRefresh \/ Leave \/ PersonDropsAccess
           \/ PersonDropsRefresh \/ EndSessions \/ SignOut \/ BootApp \/ Expire
  BY <1>6 DEF Welcome, PersonKeepsAccess, PersonKeepsRefresh, Leave, PersonDropsAccess,
     PersonDropsRefresh, EndSessions, SignOut, BootApp, Expire, FlightMoves
<1> QED
  BY <1>1, <1>2, <1>3, <1>4, <1>5, <1>6 DEF MobileNext, Progress, Environment, Slots

LEMMA PersonSteps ==
  ASSUME MobileNext
  PROVE  PersonMoves
<1>1. ASSUME NEW c \in Calls, Serve(c) PROVE PersonMoves
  BY <1>1 DEF Serve, Answered, PersonMoves
<1>2. ASSUME NEW c \in Calls, ReachServer(c) \/ ServerFails(c) \/ SignIn(c) PROVE PersonMoves
  BY <1>2 DEF ReachServer, ServerFails, SignIn, PersonMoves
<1>3. ASSUME NEW q \in Slots, \/ AnswerOk(q) \/ JoinRefresh(q) \/ GiveUp(q) \/ ClearAccess(q)
                              \/ ClearRefresh(q) \/ Timeout(q) \/ Send(q) \/ SendWrong(q)
      PROVE  PersonMoves
  BY <1>3 DEF AnswerOk, JoinRefresh, GiveUp, ClearAccess, ClearRefresh, Timeout, Send,
     SendWrong, Request, PersonMoves
<1>4. CASE TakeTokens \/ KeepAccess \/ KeepRefresh \/ TakeRefusal \/ DropAccess \/ DropRefresh
           \/ TakeFailure \/ LoseAnswer \/ Kill \/ EndSessions \/ BootApp \/ Expire
  BY <1>4 DEF TakeTokens, KeepAccess, KeepRefresh, TakeRefusal, DropAccess, DropRefresh,
     TakeFailure, LoseAnswer, Kill, EndSessions, BootApp, Expire, PersonMoves
<1>5. CASE Welcome \/ PersonKeepsAccess \/ PersonKeepsRefresh \/ Leave \/ PersonDropsAccess
           \/ PersonDropsRefresh \/ SignOut
  BY <1>5 DEF Welcome, PersonKeepsAccess, PersonKeepsRefresh, Leave, PersonDropsAccess,
     PersonDropsRefresh, SignOut, PersonMoves
<1> QED
  BY <1>1, <1>2, <1>3, <1>4, <1>5 DEF MobileNext, Progress, Environment, Slots

-----------------------------------------------------------------------------
(* Every variable keeps its type.                                            *)

LEMMA PairsWiden ==
  ASSUME Held \subseteq Held', NEW p \in [access : Held, refresh : Held]
  PROVE  /\ p \in [access : Held', refresh : Held']
         /\ \A t \in Held : \A n : Kept(p, n, t) => n \in [access : Held', refresh : Held']
  BY DEF Kept

LEMMA DeviceTyped ==
  ASSUME TypeInv, Typed, MobileNext
  PROVE  mem' \in [access : Held', refresh : Held'] /\ disk' \in [access : Held', refresh : Held']
<1>1. Held \subseteq Held' /\ None \in Held /\ None \in Held'
  BY Grows DEF Held
<1>2. refresh.token \in Held /\ person.token \in Held
  BY DEF Typed, Flights, People
<1>3. mem \in [access : Held', refresh : Held'] /\ disk \in [access : Held', refresh : Held']
  BY <1>1, PairsWiden DEF Typed
<1>4. NoTokens \in [access : Held', refresh : Held']
      /\ \A t \in Held : Pair(t) \in [access : Held', refresh : Held']
  BY <1>1 DEF NoTokens, Pair
<1>5. mem' \in {mem, NoTokens, disk, Pair(refresh.token), Pair(person.token)}
  BY ProgressMoves, EnvironmentMoves DEF MobileNext, Typed
<1>6. disk' = disk \/ \E t \in {None, refresh.token, person.token} : Kept(disk, disk', t)
  BY ProgressMoves, EnvironmentMoves DEF MobileNext, Typed
<1>7. disk' \in [access : Held', refresh : Held']
  <2>1. ASSUME NEW t \in {None, refresh.token, person.token}, Kept(disk, disk', t)
        PROVE  disk' \in [access : Held', refresh : Held']
    <3>1. t \in Held /\ disk \in [access : Held, refresh : Held]
      BY <1>1, <1>2 DEF Typed
    <3> QED
      BY <1>1, <2>1, <3>1, PairsWiden
  <2> QED
    BY <1>3, <1>6, <2>1
<1> QED
  BY <1>2, <1>3, <1>4, <1>5, <1>7

LEMMA RequestsTyped ==
  ASSUME TypeInv, Typed, MobileNext
  PROVE  req' \in [Slots -> RequestRecords']
<1>1. Held \subseteq Held' /\ None \in Held'
  BY Grows DEF Held
<1>2. RequestsMove /\ req \in [Slots -> RequestRecords]
  BY RequestsSteps DEF Typed
<1>3. {mem.access, disk.access, refresh.token} \subseteq Held'
  BY <1>1 DEF Typed, Flights
<1>4. ASSUME NEW q \in Slots PROVE req'[q] \in RequestRecords'
  <2> DEFINE x == req[q]
             y == req'[q]
  <2>1. x \in [at : {"idle", "sent", "waiting", "clear access", "clear refresh"},
               access : Held', retry : BOOLEAN, wrong : BOOLEAN]
    BY <1>1, <1>2, <1>4 DEF RequestRecords
  <2>2. \/ y = x \/ y = Still
        \/ \E a \in {"waiting", "clear access", "clear refresh"} : y = [x EXCEPT !.at = a]
        \/ \E t \in Held', b, w \in BOOLEAN : y = Sent(t, b, w)
    BY <1>2, <1>3, <1>4 DEF RequestsMove, RequestMoves
  <2> HIDE DEF x, y
  <2>3. y \in [at : {"idle", "sent", "waiting", "clear access", "clear refresh"},
               access : Held', retry : BOOLEAN, wrong : BOOLEAN]
    <3>1. ASSUME NEW a \in {"waiting", "clear access", "clear refresh"},
                 y = [x EXCEPT !.at = a]
          PROVE  y \in [at : {"idle", "sent", "waiting", "clear access", "clear refresh"},
                        access : Held', retry : BOOLEAN, wrong : BOOLEAN]
      BY <2>1, <3>1
    <3>2. ASSUME NEW t \in Held', NEW b \in BOOLEAN, NEW w \in BOOLEAN, y = Sent(t, b, w)
          PROVE  y \in [at : {"idle", "sent", "waiting", "clear access", "clear refresh"},
                        access : Held', retry : BOOLEAN, wrong : BOOLEAN]
      BY <3>2 DEF Sent
    <3>3. ASSUME y = Still
          PROVE  y \in [at : {"idle", "sent", "waiting", "clear access", "clear refresh"},
                        access : Held', retry : BOOLEAN, wrong : BOOLEAN]
      BY <1>1, <3>3 DEF Still
    <3> QED
      BY <2>1, <2>2, <3>1, <3>2, <3>3
  <2> QED
    BY <2>3 DEF y, RequestRecords
<1> QED
  BY <1>2, <1>4 DEF RequestsMove

LEMMA FlightTyped ==
  ASSUME TypeInv, Typed, MobileNext
  PROVE  refresh' \in Flights'
<1>1. Held \subseteq Held' /\ None \in Held' /\ Len(tokens') \in Held'
  BY Grows DEF Held, None
<1>2. refresh \in Flights /\ mem.refresh \in Held
  BY DEF Typed
<1>3. Boot \in Slots
  BY DEF Slots
<1>4. refresh \in Flights'
  BY <1>1, <1>2 DEF Flights
<1>5. NoRefresh \in Flights'
  BY <1>1, <1>3 DEF Flights, NoRefresh
<1>6. ASSUME NEW a \in {"keep access", "keep refresh", "refused", "drop access", "drop refresh"},
             refresh' = [refresh EXCEPT !.at = a]
      PROVE  refresh' \in Flights'
  BY <1>4, <1>6 DEF Flights
<1>7. ASSUME NEW a \in {"ok", "refused"}, NEW t \in {None, Len(tokens')},
             refresh' = [refresh EXCEPT !.at = a, !.token = t, !.call = None]
      PROVE  refresh' \in Flights'
  BY <1>1, <1>4, <1>7 DEF Flights
<1>8. ASSUME NEW c \in Calls, refresh' = [refresh EXCEPT !.at = "served", !.call = c]
      PROVE  refresh' \in Flights'
  BY <1>4, <1>8 DEF Flights
<1>9. ASSUME refresh' = [refresh EXCEPT !.at = "failed", !.call = None]
      PROVE  refresh' \in Flights'
  BY <1>4, <1>9 DEF Flights
<1>10. ASSUME NEW q \in Slots,
             refresh' = [at |-> "posted", first |-> q, token |-> mem.refresh, call |-> None]
      PROVE  refresh' \in Flights'
  BY <1>1, <1>2, <1>10 DEF Flights
<1> QED
  BY <1>4, <1>5, <1>6, <1>7, <1>8, <1>9, <1>10, FlightSteps DEF FlightMoves

LEMMA PersonTyped ==
  ASSUME TypeInv, Typed, MobileNext
  PROVE  person' \in People'
<1>1. Held \subseteq Held' /\ None \in Held' /\ Len(tokens') \in Held'
  BY Grows DEF Held, None
<1>2. person \in People
  BY DEF Typed
<1>3. person \in People' /\ Nobody \in People'
  BY <1>1, <1>2 DEF People, Nobody
<1>4. ASSUME NEW a \in {"keep access", "keep refresh", "drop access", "drop refresh"},
             person' = [person EXCEPT !.at = a]
      PROVE  person' \in People'
  BY <1>3, <1>4 DEF People
<1>5. ASSUME NEW t \in {None, Len(tokens')},
             person' = [at |-> "welcome", token |-> t, call |-> None]
      PROVE  person' \in People'
  BY <1>1, <1>5 DEF People
<1>6. ASSUME NEW c \in Calls, person' = [Nobody EXCEPT !.at = "asked", !.call = c]
      PROVE  person' \in People'
  BY <1>3, <1>6 DEF People
<1>7. ASSUME person' = [Nobody EXCEPT !.at = "bye"] PROVE person' \in People'
  BY <1>3, <1>7 DEF People
<1> QED
  BY <1>3, <1>4, <1>5, <1>6, <1>7, PersonSteps DEF PersonMoves

LEMMA TypedStep ==
  ASSUME TypeInv, Typed, MobileNext
  PROVE  Typed'
<1>1. /\ Len(tokens) \in Nat /\ Len(tokens') \in Nat /\ Len(tokens') >= Len(tokens)
      /\ Ids \subseteq Ids' /\ Held = Ids \cup {None} /\ None \notin Ids
  BY Grows DEF Held, None
<1>2. cause \in BOOLEAN /\ cause' \in BOOLEAN /\ up' \in BOOLEAN /\ screen' \in {"login", "app"}
  BY ProgressMoves, EnvironmentMoves DEF MobileNext, Typed
<1>3. expired' \in 0..Len(tokens')
  <2>1. expired \in 0..Len(tokens)
    BY DEF Typed
  <2>2. expired' = expired \/ (expired < Len(tokens) /\ expired' = expired + 1)
    BY <1>2, ProgressMoves, EnvironmentMoves DEF MobileNext
  <2> QED
    BY <1>1, <2>1, <2>2
<1>4. sent' \in 0..MaxRequests
  <2>1. sent \in 0..MaxRequests /\ MaxRequests \in Nat
    BY MobileAssumption DEF Typed
  <2>2. sent' = sent \/ (sent < MaxRequests /\ sent' = sent + 1)
    BY <1>2, ProgressMoves, EnvironmentMoves DEF MobileNext
  <2> QED
    BY <2>1, <2>2
<1>5. troubles' \in 0..MaxTroubles
  <2>1. troubles \in 0..MaxTroubles /\ MaxTroubles \in Nat
    BY MobileAssumption DEF Typed
  <2>2. troubles' = troubles \/ (troubles < MaxTroubles /\ troubles' = troubles + 1)
    BY <1>2, ProgressMoves, EnvironmentMoves DEF MobileNext
  <2> QED
    BY <2>1, <2>2
<1>6. shown' \subseteq Ids'
  <2>1. ASSUME NEW q \in Slots, JoinRefresh(q) PROVE shown' = shown \/ mem.refresh \in Ids
    BY <1>1, <2>1 DEF JoinRefresh, Typed
  <2>2. (\E q \in Slots : JoinRefresh(q)) \/ shown' \in {shown, {}}
    <3>1. ASSUME NEW c \in Calls, Serve(c) \/ ReachServer(c) PROVE shown' = shown
      BY <3>1 DEF Serve, ReachServer, history
    <3>2. ASSUME NEW q \in Slots, AnswerOk(q) \/ GiveUp(q) \/ ClearAccess(q) \/ ClearRefresh(q)
          PROVE  shown' = shown
      BY <3>2 DEF AnswerOk, GiveUp, ClearAccess, ClearRefresh, history
    <3>3. CASE \/ TakeTokens \/ KeepAccess \/ KeepRefresh \/ TakeRefusal \/ DropAccess
               \/ DropRefresh \/ TakeFailure \/ Welcome \/ PersonKeepsAccess
               \/ PersonKeepsRefresh \/ Leave \/ PersonDropsAccess \/ PersonDropsRefresh
      BY <3>3 DEF TakeTokens, KeepAccess, KeepRefresh, TakeRefusal, DropAccess, DropRefresh,
         TakeFailure, Welcome, PersonKeepsAccess, PersonKeepsRefresh, Leave, PersonDropsAccess,
         PersonDropsRefresh, history
    <3>4. CASE Environment
      BY <1>2, <3>4, EnvironmentMoves
    <3> QED
      BY <3>1, <3>2, <3>3, <3>4 DEF MobileNext, Progress
  <2>3. shown' = shown \/ shown' = shown \cup {mem.refresh} \/ shown' = {}
    BY <1>2, ProgressMoves, EnvironmentMoves DEF MobileNext
  <2> QED
    BY <1>1, <2>1, <2>2, <2>3 DEF Typed
<1> QED
  BY <1>2, <1>3, <1>4, <1>5, <1>6, DeviceTyped, RequestsTyped, FlightTyped, PersonTyped
  DEF Typed

-----------------------------------------------------------------------------
(* Who waits.                                                                *)

LEMMA CallsNumbered == None \notin Calls
  BY AccountsAssumption, FS_CardinalityType DEF None

\* Steps after which the same requests wait for the same flight.
SameWait ==
  /\ \A q \in Slots : req'[q].at = "waiting" <=> req[q].at = "waiting"
  /\ refresh' = NoRefresh <=> refresh = NoRefresh

LEMMA SameWaitKeeps ==
  ASSUME SameWait, Waiting # {} <=> refresh # NoRefresh
  PROVE  Waiting' # {} <=> refresh' # NoRefresh
  BY DEF SameWait, Waiting

\* One request that did not wait goes on to something else.
LEMMA OneMoves ==
  ASSUME req \in [Slots -> RequestRecords], NEW q \in Slots, NEW y, req' = [req EXCEPT ![q] = y],
         req[q].at # "waiting", y.at # "waiting"
  PROVE  \A p \in Slots : req'[p].at = "waiting" <=> req[p].at = "waiting"
<1>1. req'[q] = y /\ \A p \in Slots : p # q => req'[p] = req[p]
  OBVIOUS
<1> QED
  BY <1>1

LEMMA OneRequestWaits ==
  ASSUME req \in [Slots -> RequestRecords], NEW q \in Slots,
         \/ AnswerOk(q) \/ GiveUp(q) \/ ClearAccess(q) \/ ClearRefresh(q) \/ Timeout(q)
         \/ q \in Requests /\ (Send(q) \/ SendWrong(q))
  PROVE  SameWait /\ UNCHANGED <<up, person>>
<1> DEFINE x == req[q]
<1>1. x \in [at : {"idle", "sent", "waiting", "clear access", "clear refresh"},
             access : Held, retry : BOOLEAN, wrong : BOOLEAN]
  BY DEF RequestRecords
<1>2. /\ x.at # "waiting" /\ UNCHANGED <<up, refresh, person>>
      /\ \/ req' = [req EXCEPT ![q] = Still]
         \/ req' = [req EXCEPT ![q] = [x EXCEPT !.at = "clear access"]]
         \/ req' = [req EXCEPT ![q] = [x EXCEPT !.at = "clear refresh"]]
         \/ \E w \in BOOLEAN : req' = [req EXCEPT ![q] = Sent(mem.access, FALSE, w)]
  <2>1. CASE AnswerOk(q) \/ GiveUp(q)
    BY <2>1 DEF AnswerOk, GiveUp
  <2>2. CASE ClearAccess(q) \/ ClearRefresh(q)
    BY <2>2 DEF ClearAccess, ClearRefresh
  <2>3. CASE Timeout(q)
    BY <2>3 DEF Timeout
  <2>4. CASE Send(q) \/ SendWrong(q)
    <3>1. PICK w \in BOOLEAN : Request(q, w)
      BY <2>4 DEF Send, SendWrong
    <3>2. x.at # "waiting" /\ UNCHANGED <<up, refresh, person>>
      BY <3>1 DEF Request, device, Still
    <3>3. req' = [req EXCEPT ![q] = Sent(mem.access, FALSE, w)]
      BY <3>1 DEF Request
    <3> QED
      BY <3>2, <3>3
  <2> QED
    BY <2>1, <2>2, <2>3, <2>4
<1>3. PICK y : req' = [req EXCEPT ![q] = y] /\ y.at # "waiting"
  <2>1. /\ Still.at # "waiting" /\ \A w : Sent(mem.access, FALSE, w).at # "waiting"
        /\ [x EXCEPT !.at = "clear access"].at # "waiting"
        /\ [x EXCEPT !.at = "clear refresh"].at # "waiting"
    BY <1>1 DEF Still, Sent
  <2> HIDE DEF x
  <2> QED
    BY <1>2, <2>1
<1>4. \A p \in Slots : req'[p].at = "waiting" <=> req[p].at = "waiting"
  BY <1>2, <1>3, OneMoves
<1> QED
  BY <1>2, <1>4 DEF SameWait

\* The flight goes on and the requests stay.
LEMMA FlightGoesOn ==
  ASSUME refresh \in Flights,
         \/ TakeTokens \/ KeepAccess \/ TakeRefusal \/ DropAccess \/ Expire \/ EndSessions
         \/ \E c \in Calls : Serve(c) \/ ReachServer(c) \/ ServerFails(c) \/ SignIn(c)
  PROVE  SameWait /\ UNCHANGED up
<1>1. ASSUME UNCHANGED <<req, up>>,
             UNCHANGED refresh \/ (refresh.at # "none" /\ refresh'.at # "none")
               \/ (refresh.call # None /\ refresh'.at # "none")
      PROVE  SameWait /\ UNCHANGED up
  BY <1>1 DEF SameWait, NoRefresh
<1>2. \A a \in {"keep access", "keep refresh", "drop access", "drop refresh", "refused"} :
        [refresh EXCEPT !.at = a].at # "none"
  BY DEF Flights
<1>3. CASE TakeTokens \/ KeepAccess \/ TakeRefusal \/ DropAccess
  BY <1>1, <1>2, <1>3 DEF TakeTokens, KeepAccess, TakeRefusal, DropAccess
<1>4. CASE Expire \/ EndSessions
  BY <1>1, <1>4 DEF Expire, EndSessions, device
<1>5. ASSUME NEW c \in Calls, Serve(c) PROVE SameWait /\ UNCHANGED up
  <2>1. UNCHANGED refresh \/ (refresh.call = c /\ refresh'.at \in {"refused", "ok"})
    BY <1>5 DEF Serve, Answered, Flights
  <2>2. UNCHANGED <<req, up>>
    BY <1>5 DEF Serve, device
  <2> QED
    BY <1>1, <2>1, <2>2, CallsNumbered
<1>6. ASSUME NEW c \in Calls, ReachServer(c) PROVE SameWait /\ UNCHANGED up
  <2>1. refresh.at = "posted" /\ refresh'.at \in {"refused", "served"}
    BY <1>6 DEF ReachServer, Flights
  <2>2. UNCHANGED <<req, up>>
    BY <1>6 DEF ReachServer, device
  <2> QED
    BY <1>1, <2>1, <2>2
<1>7. ASSUME NEW c \in Calls, ServerFails(c) PROVE SameWait /\ UNCHANGED up
  <2>1. UNCHANGED refresh \/ (refresh.call = c /\ refresh'.at = "failed")
    BY <1>7 DEF ServerFails, Flights
  <2>2. UNCHANGED <<req, up>>
    BY <1>7 DEF ServerFails, device
  <2> QED
    BY <1>1, <2>1, <2>2, CallsNumbered
<1>8. ASSUME NEW c \in Calls, SignIn(c) PROVE SameWait /\ UNCHANGED up
  BY <1>1, <1>8 DEF SignIn, device
<1> QED
  BY <1>3, <1>4, <1>5, <1>6, <1>7, <1>8

LEMMA PersonWaits ==
  ASSUME \/ Welcome \/ PersonKeepsAccess \/ PersonKeepsRefresh \/ Leave \/ PersonDropsAccess
         \/ PersonDropsRefresh \/ SignOut
  PROVE  SameWait /\ UNCHANGED up
  BY DEF Welcome, PersonKeepsAccess, PersonKeepsRefresh, Leave, PersonDropsAccess,
     PersonDropsRefresh, SignOut, SameWait, device

\* The flight ends, and with it the wait.
LEMMA FlightEnds ==
  ASSUME req \in [Slots -> RequestRecords],
         KeepRefresh \/ DropRefresh \/ TakeFailure \/ LoseAnswer \/ Kill
  PROVE  Waiting' = {} /\ refresh' = NoRefresh /\ (Kill \/ UNCHANGED up)
<1>1. ASSUME NEW q \in Slots, Reject PROVE req'[q].at # "waiting"
  <2> DEFINE x == req[q]
  <2>1. x \in [at : {"idle", "sent", "waiting", "clear access", "clear refresh"},
               access : Held, retry : BOOLEAN, wrong : BOOLEAN]
    BY DEF RequestRecords
  <2>2. (req'[q] = x /\ x.at # "waiting") \/ req'[q] = Still
        \/ req'[q] = [x EXCEPT !.at = "clear access"]
    BY <1>1 DEF Reject, Waiting
  <2>3. [x EXCEPT !.at = "clear access"].at # "waiting" /\ Still.at # "waiting"
    BY <2>1 DEF Still
  <2> HIDE DEF x
  <2> QED
    BY <2>2, <2>3
<1>2. CASE DropRefresh \/ TakeFailure \/ LoseAnswer
  <2>1. Reject /\ UNCHANGED up
    BY <1>2 DEF DropRefresh, TakeFailure, LoseAnswer
  <2>2. Waiting' = {}
    BY <1>1, <2>1 DEF Waiting
  <2>3. refresh' = NoRefresh
    BY <2>1 DEF Reject
  <2> QED
    BY <2>1, <2>2, <2>3
<1>3. CASE KeepRefresh
  BY <1>3 DEF KeepRefresh, Waiting, Sent
<1>4. CASE Kill
  BY <1>4 DEF Kill, Waiting, Still
<1> QED
  BY <1>2, <1>3, <1>4

LEMMA JoinWaits ==
  ASSUME req \in [Slots -> RequestRecords], NEW q \in Slots, JoinRefresh(q)
  PROVE  Waiting' # {} /\ refresh' # NoRefresh /\ UNCHANGED up
<1>1. req'[q].at = "waiting"
  BY DEF JoinRefresh, RequestRecords
<1>2. refresh' # NoRefresh /\ UNCHANGED up
  BY DEF JoinRefresh, NoRefresh, device
<1> QED
  BY <1>1, <1>2 DEF Waiting

\* An app that boots waits for nothing.
LEMMA BootWaits ==
  ASSUME Typed, Waits, BootApp
  PROVE  SameWait /\ up'
<1>1. up' /\ UNCHANGED refresh /\ req = [q \in Slots |-> Still] /\ Boot \in Slots
  BY DEF BootApp, Waits, Slots
<1>2. UNCHANGED req \/ req' = [req EXCEPT ![Boot] = Sent(disk.access, FALSE, FALSE)]
  BY DEF BootApp
<1>3. req[Boot].at # "waiting" /\ Sent(disk.access, FALSE, FALSE).at # "waiting"
  BY <1>1 DEF Still, Sent
<1> QED
  BY <1>1, <1>2, <1>3, OneMoves DEF SameWait, Typed

\* An app that does not run does nothing until it boots.
LEMMA AsleepStep ==
  ASSUME Typed, Waits, MobileNext, ~up
  PROVE  up' \/ UNCHANGED <<up, req, refresh, person>>
<1>1. /\ \A q \in Slots : req[q] = Still
      /\ refresh = NoRefresh /\ person = Nobody
  BY DEF Waits
<1>2. ASSUME NEW c \in Calls, Serve(c) \/ ServerFails(c)
      PROVE  UNCHANGED <<up, req, refresh, person>>
  BY <1>1, <1>2, CallsNumbered DEF Serve, Answered, ServerFails, NoRefresh, Nobody, device
<1>3. ASSUME NEW c \in Calls PROVE ~ReachServer(c) /\ ~SignIn(c)
  BY <1>1 DEF ReachServer, SignIn, NoRefresh
<1>4. ASSUME NEW q \in Slots
      PROVE  /\ ~AnswerOk(q) /\ ~JoinRefresh(q) /\ ~GiveUp(q) /\ ~ClearAccess(q)
             /\ ~ClearRefresh(q) /\ ~Timeout(q) /\ ~Send(q) /\ ~SendWrong(q)
  <2>1. req[q].at = "idle"
    BY <1>1 DEF Still
  <2> QED
    BY <2>1 DEF AnswerOk, JoinRefresh, GiveUp, ClearAccess, ClearRefresh, Timeout, Send,
       SendWrong, Request
<1>5. /\ ~TakeTokens /\ ~KeepAccess /\ ~KeepRefresh /\ ~TakeRefusal /\ ~DropAccess
      /\ ~DropRefresh /\ ~TakeFailure /\ ~LoseAnswer
  BY <1>1 DEF TakeTokens, KeepAccess, KeepRefresh, TakeRefusal, DropAccess, DropRefresh,
     TakeFailure, LoseAnswer, NoRefresh
<1>6. /\ ~Welcome /\ ~PersonKeepsAccess /\ ~PersonKeepsRefresh /\ ~Leave /\ ~PersonDropsAccess
      /\ ~PersonDropsRefresh /\ ~SignOut /\ ~Kill
  BY <1>1 DEF Welcome, PersonKeepsAccess, PersonKeepsRefresh, Leave, PersonDropsAccess,
     PersonDropsRefresh, SignOut, Kill, Nobody
<1>7. CASE EndSessions \/ Expire \/ BootApp
  BY <1>7 DEF EndSessions, Expire, BootApp, device
<1> QED
  BY <1>2, <1>3, <1>4, <1>5, <1>6, <1>7 DEF MobileNext, Progress, Environment, Slots

LEMMA WaitsStep ==
  ASSUME Typed, Waits, MobileNext
  PROVE  Waits'
<1>1. req \in [Slots -> RequestRecords] /\ refresh \in Flights /\ up \in BOOLEAN
  BY DEF Typed
<1>2. \/ SameWait
      \/ Waiting' = {} /\ refresh' = NoRefresh
      \/ Waiting' # {} /\ refresh' # NoRefresh
  BY <1>1, OneRequestWaits, FlightGoesOn, PersonWaits, FlightEnds, JoinWaits, BootWaits
  DEF MobileNext, Progress, Environment, Slots
<1>3. Kill \/ up' \/ UNCHANGED up
  BY <1>1, OneRequestWaits, FlightGoesOn, PersonWaits, FlightEnds, JoinWaits, BootWaits
  DEF MobileNext, Progress, Environment, Slots
<1>4. Waiting' # {} <=> refresh' # NoRefresh
  BY <1>2, SameWaitKeeps DEF Waits
<1>5. up' \/ (req' = [q \in Slots |-> Still] /\ refresh' = NoRefresh /\ person' = Nobody)
  <2>1. CASE Kill
    BY <2>1 DEF Kill
  <2>2. CASE ~up
    BY <2>2, AsleepStep DEF Waits
  <2> QED
    BY <1>3, <2>1, <2>2
<1> QED
  BY <1>4, <1>5 DEF Waits, Waiting

-----------------------------------------------------------------------------
(* One account, and who waits for which call.                                *)

\* A call under way is a sign-in or a rotation.
LEMMA Continues ==
  ASSUME NEW c \in Calls, call[c].op \in {"idle", "login", "rotate"}, Continue(c)
  PROVE  LinkIdentity(c) \/ IssueSession(c) \/ Claim(c) \/ BurnFamily(c) \/ IssueNext(c)
  BY DEF Continue, Is, SetUserStatus, RevokeSuspended, SetTenantStatus, RevokeTenant, Create,
     Assign, Unassign, SetStatus, SoftDelete, DeleteAccount

LEMMA IdleFields == Idle.op = "idle" /\ Idle.user = Owner
  BY DEF Idle

LEMMA ServedCall ==
  ASSUME TypeInv, NEW c \in Calls, call[c].op \in {"idle", "login", "rotate"}, Continue(c)
  PROVE  /\ UNCHANGED <<status, tenant>> /\ call[c] # Idle /\ call[c].op \in {"login", "rotate"}
         /\ \A d \in Calls : d # c => call'[d] = call[d]
         /\ \/ call'[c] = Idle
            \/ /\ call'[c].op = call[c].op /\ call'[c].user = call[c].user
               /\ call'[c].token = call[c].token /\ call'[c].at \in {"issue", "burn"}
         /\ Issues(c) \/ TokensKeep
<1>1. call \in [Calls -> CallRecords]
  BY DEF TypeInv, CallsOK
<1>2. /\ UNCHANGED <<status, tenant>> /\ call[c].op \in {"login", "rotate"}
      /\ End(c) \/ Go(c, "issue") \/ Go(c, "burn")
  BY Continues DEF LinkIdentity, IssueSession, Claim, BurnFamily, IssueNext, accounts, Is
<1>3. call[c] # Idle
  BY <1>2, IdleFields
<1>4. ASSUME End(c) PROVE call'[c] = Idle /\ \A d \in Calls : d # c => call'[d] = call[d]
  BY <1>1, <1>4 DEF End
<1>5. ASSUME NEW a \in {"issue", "burn"}, Go(c, a)
      PROVE  /\ \A d \in Calls : d # c => call'[d] = call[d]
             /\ call'[c].op = call[c].op /\ call'[c].user = call[c].user
             /\ call'[c].token = call[c].token /\ call'[c].at = a
  BY <1>1, <1>5 DEF Go, CallRecords
<1>6. Issues(c) \/ TokensKeep
  BY ContinueSplit, PlainEffect, WinEffect DEF Weakens
<1> QED
  BY <1>2, <1>3, <1>4, <1>5, <1>6

\* The tokens are the account's.
LEMMA TokensOwned ==
  ASSUME TypeInv, OneAccount, MobileNext
  PROVE  \A t \in Ids' : tokens'[t].user = Owner
<1>1. CASE TokensKeep
  BY <1>1 DEF TokensKeep, OneAccount
<1>2. ASSUME NEW c \in Calls, Issues(c) PROVE \A t \in Ids' : tokens'[t].user = Owner
  <2>1. call[c].user = Owner /\ \A t \in Ids : tokens[t].user = Owner
    BY DEF OneAccount
  <2> DEFINE n == Len(tokens) + 1
  <2>2. /\ Ids' = Ids \cup {n} /\ tokens'[n].user = call[c].user
        /\ \A t \in Ids : tokens'[t] = tokens[t]
    BY <1>2, IssueEffect
  <2> QED
    BY <2>1, <2>2
<1> QED
  BY <1>1, <1>2, ServerStep, StepKinds, WinEffect DEF Weakens

\* The calls of one account and those who wait for them.
CallsOwned ==
  /\ status[Owner] = "ACTIVE" /\ tenant = "ACTIVE"
  /\ \A c \in Calls : call[c].op \in {"idle", "login", "rotate"} /\ call[c].user = Owner
  /\ refresh.call # None => call[refresh.call].op = "rotate"
  /\ person.call # None => call[person.call].op = "login"

\* The phone alone.
LEMMA PhoneCalls ==
  ASSUME CallsOwned, UNCHANGED <<status, tenant, call>>,
         refresh'.call \in {refresh.call, None}, person'.call \in {person.call, None}
  PROVE  CallsOwned'
  BY DEF CallsOwned

\* One call changes, to a record of the account.
LEMMA OneCallOwned ==
  ASSUME CallsOwned, UNCHANGED <<status, tenant>>, NEW c \in Calls,
         refresh.call \in Calls \cup {None}, person.call \in Calls \cup {None},
         \A d \in Calls : d # c => call'[d] = call[d],
         call'[c].op \in {"idle", "login", "rotate"}, call'[c].user = Owner,
         \/ refresh'.call = None
         \/ (refresh'.call = refresh.call /\ refresh.call # c)
         \/ refresh'.call = c /\ call'[c].op = "rotate",
         \/ person'.call = None
         \/ (person'.call = person.call /\ person.call # c)
         \/ person'.call = c /\ call'[c].op = "login"
  PROVE  CallsOwned'
  BY DEF CallsOwned

LEMMA ServeOwned ==
  ASSUME TypeInv, Typed, CallsOwned, NEW c \in Calls, Serve(c)
  PROVE  CallsOwned'
<1>1. /\ call[c].op \in {"idle", "login", "rotate"} /\ call[c].user = Owner
      /\ Continue(c) /\ Answered(c)
  BY DEF CallsOwned, Serve
<1>2. /\ UNCHANGED <<status, tenant>> /\ call[c] # Idle
      /\ \A d \in Calls : d # c => call'[d] = call[d]
      /\ \/ call'[c] = Idle
         \/ call'[c].op = call[c].op /\ call'[c].user = call[c].user
  BY <1>1, ServedCall
<1>3. refresh.call \in Calls \cup {None} /\ person.call \in Calls \cup {None}
  BY DEF Typed, Flights, People
<1>4. call'[c].op \in {"idle", "login", "rotate"} /\ call'[c].user = Owner
  BY <1>1, <1>2, IdleFields
<1>5. \/ refresh'.call = None
      \/ (refresh'.call = refresh.call /\ refresh.call # c)
      \/ refresh'.call = c /\ call'[c].op = "rotate"
  <2>1. CASE refresh.call = c /\ call'[c] = Idle
    <3>1. PICK a, t :
            refresh' = [refresh EXCEPT !.at = a, !.token = t, !.call = None]
      BY <1>1, <2>1 DEF Answered
    <3>2. refresh'.call = None
      BY <3>1 DEF Typed, Flights
    <3> QED
      BY <3>2
  <2>2. CASE refresh.call = c /\ call'[c] # Idle
    <3>1. refresh' = refresh
      BY <1>1, <2>2 DEF Answered
    <3>2. call[c].op = "rotate"
      BY <2>2, CallsNumbered DEF CallsOwned
    <3> QED
      BY <1>2, <2>2, <3>1, <3>2
  <2>3. CASE refresh.call # c
    BY <1>1, <2>3 DEF Answered
  <2> QED
    BY <2>1, <2>2, <2>3
<1>6. \/ person'.call = None
      \/ (person'.call = person.call /\ person.call # c)
      \/ person'.call = c /\ call'[c].op = "login"
  <2>1. CASE person.call = c /\ call'[c] = Idle
    <3>1. \E t : person' = [at |-> "welcome", token |-> t, call |-> None]
      BY <1>1, <2>1 DEF Answered
    <3> QED
      BY <3>1
  <2>2. CASE person.call = c /\ call'[c] # Idle
    <3>1. person' = person
      BY <1>1, <2>2 DEF Answered
    <3>2. call[c].op = "login"
      BY <2>2, CallsNumbered DEF CallsOwned
    <3> QED
      BY <1>2, <2>2, <3>1, <3>2
  <2>3. CASE person.call # c
    BY <1>1, <2>3 DEF Answered
  <2> QED
    BY <2>1, <2>2, <2>3
<1> QED
  BY <1>2, <1>3, <1>4, <1>5, <1>6, OneCallOwned

\* A call that begins is in a slot that nobody waits for.
LEMMA FreeSlot ==
  ASSUME CallsOwned, NEW c \in Calls, call[c] = Idle
  PROVE  refresh.call # c /\ person.call # c
  BY CallsNumbered, IdleFields DEF CallsOwned

LEMMA ReachOwned ==
  ASSUME TypeInv, Typed, CallsOwned, \A t \in Ids : tokens[t].user = Owner,
         NEW c \in Calls, ReachServer(c)
  PROVE  CallsOwned'
<1>1. /\ StartRotate(c, refresh.token) /\ UNCHANGED <<status, tenant, person>> /\ call[c] = Idle
      /\ refresh.token \in Ids
  BY DEF ReachServer, StartRotate, accounts, Begin
<1>2. CASE call' = call
  <2>1. refresh' = [refresh EXCEPT !.at = "refused"]
    BY <1>2 DEF ReachServer
  <2>2. refresh'.call = refresh.call
    BY <2>1 DEF Typed, Flights
  <2> QED
    BY <1>1, <1>2, <2>2, PhoneCalls
<1>3. CASE call' # call
  <2> DEFINE t == refresh.token
             r == [Idle EXCEPT !.op = "rotate", !.user = tokens[t].user, !.token = t,
                     !.at = IF tokens[t].live /\ MayRenew(tokens[t].user) THEN "claim" ELSE "burn"]
  <2>1. call' = [call EXCEPT ![c] = r]
    BY <1>1, <1>3, Zenon DEF StartRotate
  <2>2. r.op = "rotate" /\ r.user = Owner
    BY <1>1 DEF Idle
  <2> HIDE DEF r
  <2>3. call'[c] = r /\ \A d \in Calls : d # c => call'[d] = call[d]
    BY <2>1 DEF TypeInv, CallsOK
  <2>4. refresh'.call = c
    BY <1>3 DEF ReachServer, Typed, Flights
  <2>5. refresh.call \in Calls \cup {None} /\ person.call \in Calls \cup {None}
    BY DEF Typed, Flights, People
  <2>6. person.call # c /\ person'.call = person.call
    BY <1>1, FreeSlot
  <2> QED
    BY <1>1, <2>2, <2>3, <2>4, <2>5, <2>6, OneCallOwned
<1> QED
  BY <1>2, <1>3

LEMMA SignInOwned ==
  ASSUME TypeInv, Typed, CallsOwned, NEW c \in Calls, SignIn(c)
  PROVE  CallsOwned'
<1>1. /\ StartLogin(c, Owner) /\ UNCHANGED <<status, tenant, refresh>> /\ call[c] = Idle
      /\ person' = [Nobody EXCEPT !.at = "asked", !.call = c]
  BY DEF SignIn, StartLogin, accounts, Begin
<1>2. PICK at \in {"link", "issue"} : Opened(c, "login", at, Owner)
  BY <1>1 DEF StartLogin
<1> DEFINE r == [Idle EXCEPT !.op = "login", !.at = at, !.user = Owner]
<1>3. call' = [call EXCEPT ![c] = r] /\ r.op = "login" /\ r.user = Owner
  BY <1>2 DEF Opened, Idle
<1> HIDE DEF r
<1>4. call'[c] = r /\ \A d \in Calls : d # c => call'[d] = call[d]
  BY <1>3 DEF TypeInv, CallsOK
<1>5. person'.call = c /\ refresh.call # c /\ refresh'.call = refresh.call
  BY <1>1, FreeSlot DEF Nobody
<1>6. refresh.call \in Calls \cup {None} /\ person.call \in Calls \cup {None}
  BY DEF Typed, Flights, People
<1> QED
  BY <1>1, <1>3, <1>4, <1>5, <1>6, OneCallOwned

LEMMA FailsOwned ==
  ASSUME TypeInv, Typed, CallsOwned, NEW c \in Calls, ServerFails(c)
  PROVE  CallsOwned'
<1>1. /\ UNCHANGED <<status, tenant>> /\ call'[c] = Idle
      /\ \A d \in Calls : d # c => call'[d] = call[d]
  BY DEF ServerFails, Fails, End, accounts, TypeInv, CallsOK
<1>2. refresh'.call = None \/ (refresh'.call = refresh.call /\ refresh.call # c)
  <2>1. CASE refresh.call = c
    BY <2>1 DEF ServerFails, Typed, Flights
  <2>2. CASE refresh.call # c
    BY <2>2 DEF ServerFails
  <2> QED
    BY <2>1, <2>2
<1>3. person'.call = None \/ (person'.call = person.call /\ person.call # c)
  <2>1. CASE person.call = c
    BY <2>1 DEF ServerFails, Nobody
  <2>2. CASE person.call # c
    BY <2>2 DEF ServerFails
  <2> QED
    BY <2>1, <2>2
<1>4. refresh.call \in Calls \cup {None} /\ person.call \in Calls \cup {None}
  BY DEF Typed, Flights, People
<1>5. call'[c].op = "idle" /\ call'[c].user = Owner
  BY <1>1, IdleFields
<1> QED
  BY <1>1, <1>2, <1>3, <1>4, <1>5, OneCallOwned

LEMMA OneAccountStep ==
  ASSUME TypeInv, Typed, OneAccount, MobileNext
  PROVE  OneAccount'
<1>1. CallsOwned /\ \A t \in Ids : tokens[t].user = Owner
  BY DEF OneAccount, CallsOwned
<1>2. \A t \in Ids' : tokens'[t].user = Owner
  BY TokensOwned
<1>3. ASSUME UNCHANGED <<status, tenant, call>>, refresh'.call \in {refresh.call, None},
             person'.call \in {person.call, None}
      PROVE  CallsOwned'
  BY <1>1, <1>3, PhoneCalls
<1>4. ASSUME \/ EndSessions \/ SignOut \/ Expire \/ BootApp
             \/ \E q \in Slots : \/ AnswerOk(q) \/ GiveUp(q) \/ ClearAccess(q) \/ ClearRefresh(q)
                                 \/ Timeout(q) \/ Send(q) \/ SendWrong(q)
      PROVE  CallsOwned'
  BY <1>3, <1>4
  DEF EndSessions, SignOut, Expire, BootApp, AnswerOk, GiveUp, ClearAccess, ClearRefresh,
      Timeout, Send, SendWrong, Request, RevokeAllSessions, Logout, accounts, vars, Nobody
<1>5. ASSUME \/ DropRefresh \/ TakeFailure \/ LoseAnswer \/ KeepRefresh \/ Kill
             \/ \E q \in Slots : JoinRefresh(q)
      PROVE  CallsOwned'
  <2>1. UNCHANGED vars /\ (UNCHANGED person \/ person' = Nobody)
    BY <1>5 DEF DropRefresh, TakeFailure, LoseAnswer, KeepRefresh, Kill, JoinRefresh, Reject
  <2>2. \/ refresh' = NoRefresh \/ UNCHANGED refresh
        \/ \E q : refresh' = [at |-> "posted", first |-> q, token |-> mem.refresh, call |-> None]
    BY <1>5 DEF DropRefresh, TakeFailure, LoseAnswer, KeepRefresh, Kill, JoinRefresh, Reject
  <2>3. refresh'.call \in {refresh.call, None}
    BY <2>2 DEF NoRefresh
  <2> QED
    BY <1>3, <2>1, <2>3 DEF vars, Nobody
<1>6. ASSUME TakeTokens \/ KeepAccess \/ TakeRefusal \/ DropAccess
      PROVE  CallsOwned'
  <2>1. \A a \in {"keep access", "keep refresh", "drop access", "drop refresh"} :
          [refresh EXCEPT !.at = a].call = refresh.call
    BY DEF Typed, Flights
  <2> QED
    BY <1>3, <1>6, <2>1 DEF TakeTokens, KeepAccess, TakeRefusal, DropAccess, vars
<1>7. ASSUME \/ Welcome \/ PersonKeepsAccess \/ PersonKeepsRefresh \/ Leave
             \/ PersonDropsAccess \/ PersonDropsRefresh
      PROVE  CallsOwned'
  <2>1. \A a \in {"keep access", "keep refresh", "drop access", "drop refresh"} :
          [person EXCEPT !.at = a].call = person.call
    BY DEF Typed, People
  <2>2. /\ UNCHANGED <<vars, refresh>>
        /\ \/ person' = Nobody
           \/ \E a \in {"keep access", "keep refresh", "drop access", "drop refresh"} :
                person' = [person EXCEPT !.at = a]
    BY <1>7 DEF Welcome, PersonKeepsAccess, PersonKeepsRefresh, Leave, PersonDropsAccess,
       PersonDropsRefresh
  <2>3. person'.call \in {person.call, None}
    <3>1. CASE person' = Nobody
      BY <3>1 DEF Nobody
    <3>2. ASSUME NEW a \in {"keep access", "keep refresh", "drop access", "drop refresh"},
                 person' = [person EXCEPT !.at = a]
          PROVE  person'.call = person.call
      BY <2>1, <3>2
    <3> QED
      BY <2>2, <3>1, <3>2
  <2> QED
    BY <1>3, <2>2, <2>3 DEF vars
<1>8. CallsOwned'
  BY <1>1, <1>4, <1>5, <1>6, <1>7, ServeOwned, ReachOwned, SignInOwned, FailsOwned
  DEF MobileNext, Progress, Environment, Slots
<1> QED
  BY <1>2, <1>8 DEF OneAccount, CallsOwned

-----------------------------------------------------------------------------
(* Each refresh token is posted once.                                        *)

InFlight == {"posted", "served", "ok", "refused", "failed"}

\* Steps that bring no token: they keep the one in memory while its refresh is
\* under way, drop it, or put there the one that an answer has brought.
LEMMA FreshStays ==
  ASSUME Fresh, shown' = shown, None \notin shown,
         \/ mem'.refresh = mem.refresh /\ (refresh.at \in InFlight => refresh'.at \in InFlight)
         \/ mem'.refresh = None
         \/ /\ mem'.refresh \notin shown
            /\ person'.at = "welcome" /\ person.token # None => person.token # mem'.refresh,
         refresh'.at = "ok" => refresh.at = "ok" /\ refresh'.token = refresh.token,
         person'.at = "welcome" => person' = person
  PROVE  Fresh'
<1>1. mem'.refresh \in shown' => refresh'.at \in InFlight
  BY DEF Fresh, InFlight
<1>2. refresh'.at = "ok" => refresh'.token \notin shown'
  BY DEF Fresh
<1>3. person'.at = "welcome" =>
        /\ person'.token \notin shown'
        /\ person'.token # None => person'.token # mem'.refresh
        /\ refresh'.at = "ok" /\ person'.token # None => refresh'.token # person'.token
  BY DEF Fresh
<1> QED
  BY <1>1, <1>2, <1>3 DEF Fresh, InFlight

\* The flight moves on to another place.
LEMMA FlightPlaces ==
  ASSUME refresh \in Flights
  PROVE  /\ \A a \in {"posted", "served", "ok", "refused", "failed", "keep access",
                      "keep refresh", "drop access", "drop refresh"} :
              /\ [refresh EXCEPT !.at = a].at = a
              /\ [refresh EXCEPT !.at = a].token = refresh.token
              /\ [refresh EXCEPT !.at = a].call = refresh.call
         /\ NoRefresh.at = "none" /\ NoRefresh.call = None /\ NoRefresh.token = None
<1>1. \A a : [refresh EXCEPT !.at = a].at = a /\ [refresh EXCEPT !.at = a].token = refresh.token
             /\ [refresh EXCEPT !.at = a].call = refresh.call
  BY DEF Flights
<1> QED
  BY <1>1 DEF NoRefresh

LEMMA PersonPlaces ==
  ASSUME person \in People
  PROVE  /\ \A a : /\ [person EXCEPT !.at = a].at = a
                   /\ [person EXCEPT !.at = a].token = person.token
                   /\ [person EXCEPT !.at = a].call = person.call
         /\ Nobody.at = "idle" /\ Nobody.call = None /\ Nobody.token = None
<1>1. \A a : [person EXCEPT !.at = a].at = a /\ [person EXCEPT !.at = a].token = person.token
             /\ [person EXCEPT !.at = a].call = person.call
  BY DEF People
<1> QED
  BY <1>1 DEF Nobody

LEMMA ServeFresh ==
  ASSUME TypeInv, Typed, OneAccount, Fresh, MobileNext, NEW c \in Calls, Serve(c)
  PROVE  Fresh'
<1> DEFINE n == Len(tokens')
           t == IF n > Len(tokens) THEN n ELSE None
<1>1. /\ UNCHANGED <<mem, shown>> /\ Answered(c)
  BY DEF Serve, device, history
<1>2. /\ None \notin Ids /\ None \in Held /\ shown \subseteq Ids /\ mem.refresh \in Held
      /\ refresh.token \in Held /\ person.token \in Held
      /\ t = None \/ (t \notin Held /\ t \notin Ids)
  <2>1. /\ Len(tokens) \in Nat /\ n \in Nat /\ Ids = 1..Len(tokens) /\ Held = 0..Len(tokens)
    BY Grows
  <2>2. t = None \/ (t \notin Held /\ t \notin Ids)
    BY <2>1
  <2>3. None \notin Ids /\ None \in Held
    BY Numbered DEF TypeInv
  <2>4. /\ shown \subseteq Ids /\ mem.refresh \in Held /\ refresh.token \in Held
        /\ person.token \in Held
    BY DEF Typed, Flights, People
  <2> QED
    BY <2>2, <2>3, <2>4
<1>3. ~(refresh.call = c /\ person.call = c)
  BY CallsNumbered DEF OneAccount
<1>4. \/ UNCHANGED refresh
      \/ /\ refresh.call = c /\ refresh'.token = t
         /\ refresh'.at = IF t = None THEN "refused" ELSE "ok"
  <2>1. CASE refresh.call # c \/ call'[c] # Idle
    BY <1>1, <2>1 DEF Answered
  <2>2. CASE refresh.call = c /\ call'[c] = Idle
    <3> DEFINE a == IF t = None THEN "refused" ELSE "ok"
    <3>1. refresh' = [refresh EXCEPT !.at = a, !.token = t, !.call = None]
      BY <1>1, <2>2 DEF Answered
    <3> HIDE DEF a, t
    <3>2. refresh'.token = t /\ refresh'.at = a
      BY <3>1 DEF Typed, Flights
    <3> QED
      BY <2>2, <3>2 DEF a
  <2> QED
    BY <2>1, <2>2
<1>5. \/ UNCHANGED person
      \/ person.call = c /\ person'.token = t /\ person'.at = "welcome"
  <2>1. CASE person.call # c \/ call'[c] # Idle
    BY <1>1, <2>1 DEF Answered
  <2>2. CASE person.call = c /\ call'[c] = Idle
    <3>1. person' = [at |-> "welcome", token |-> t, call |-> None]
      BY <1>1, <2>2 DEF Answered
    <3> HIDE DEF t
    <3> QED
      BY <2>2, <3>1
  <2> QED
    BY <2>1, <2>2
<1> HIDE DEF t, n
<1>6. mem'.refresh \in shown' => refresh'.at \in InFlight
  BY <1>1, <1>4 DEF Fresh, InFlight
<1>7. refresh'.at = "ok" => refresh'.token \notin shown'
  BY <1>1, <1>2, <1>4 DEF Fresh
<1>8. person'.at = "welcome" =>
        /\ person'.token \notin shown'
        /\ person'.token # None => person'.token # mem'.refresh
        /\ refresh'.at = "ok" /\ person'.token # None => refresh'.token # person'.token
  BY <1>1, <1>2, <1>3, <1>4, <1>5 DEF Fresh
<1> QED
  BY <1>6, <1>7, <1>8 DEF Fresh, InFlight

LEMMA JoinFresh ==
  ASSUME Typed, Fresh, NEW q \in Slots, JoinRefresh(q), None \notin shown
  PROVE  Fresh'
<1>1. UNCHANGED <<mem, person>> /\ mem.refresh # None
  BY DEF JoinRefresh, device
<1>2. CASE refresh # NoRefresh
  BY <1>1, <1>2, FreshStays DEF JoinRefresh
<1>3. CASE refresh = NoRefresh
  <2>1. refresh'.at = "posted" /\ shown' = shown \cup {mem.refresh}
    BY <1>3 DEF JoinRefresh
  <2> QED
    BY <1>1, <2>1 DEF Fresh
<1> QED
  BY <1>2, <1>3

LEMMA BootFresh ==
  ASSUME Waits, Fresh, BootApp
  PROVE  Fresh'
<1>1. shown' = {} /\ person' = Nobody /\ refresh' = NoRefresh
  BY DEF BootApp, Waits
<1> QED
  BY <1>1 DEF Fresh, Nobody, NoRefresh

LEMMA FreshStep ==
  ASSUME TypeInv, Typed, Waits, OneAccount, Fresh, MobileNext
  PROVE  Fresh'
<1>1. None \notin shown /\ mem.refresh \in Held /\ refresh \in Flights /\ person \in People
  BY Numbered DEF TypeInv, Typed
<1>2. NoTokens.refresh = None /\ \A t : Pair(t).refresh = t
  BY DEF NoTokens, Pair
<1>3. CASE \/ EndSessions \/ SignOut \/ Expire
           \/ \E q \in Slots : \/ AnswerOk(q) \/ GiveUp(q) \/ ClearAccess(q) \/ ClearRefresh(q)
                               \/ Timeout(q) \/ Send(q) \/ SendWrong(q)
  <2>1. /\ shown' = shown /\ UNCHANGED refresh
        /\ mem' = mem \/ mem' = NoTokens
        /\ person' = person \/ person'.at = "bye"
    BY <1>3 DEF EndSessions, SignOut, Expire, AnswerOk, GiveUp, ClearAccess, ClearRefresh,
       Timeout, Send, SendWrong, Request, Trouble, device, history, Nobody
  <2> QED
    BY <1>1, <1>2, <2>1, FreshStays
<1>4. CASE TakeRefusal \/ DropRefresh \/ TakeFailure \/ LoseAnswer \/ Kill
  <2>1. /\ shown' = shown /\ mem' = NoTokens
        /\ person' = person \/ person' = Nobody
        /\ refresh' = NoRefresh \/ refresh' = [refresh EXCEPT !.at = "drop access"]
    BY <1>4 DEF TakeRefusal, DropRefresh, TakeFailure, LoseAnswer, Kill, Reject, Trouble,
       history
  <2>2. refresh'.at # "ok" /\ (person'.at = "welcome" => person' = person)
    BY <1>1, <2>1, FlightPlaces, PersonPlaces
  <2> QED
    BY <1>1, <1>2, <2>1, <2>2, FreshStays
<1>5. CASE KeepAccess \/ DropAccess \/ KeepRefresh
  <2>1. /\ shown' = shown /\ UNCHANGED <<mem, person>>
        /\ refresh.at \in {"keep access", "drop access", "keep refresh"}
        /\ \/ refresh' = NoRefresh
           \/ \E a \in {"keep refresh", "drop refresh"} : refresh' = [refresh EXCEPT !.at = a]
    BY <1>5 DEF KeepAccess, DropAccess, KeepRefresh, history
  <2>2. refresh'.at # "ok"
    BY <1>1, <2>1, FlightPlaces
  <2> QED
    BY <1>1, <2>1, <2>2, FreshStays DEF InFlight
<1>6. CASE TakeTokens
  <2>1. /\ shown' = shown /\ UNCHANGED person /\ mem'.refresh = refresh.token
        /\ refresh.at = "ok" /\ refresh' = [refresh EXCEPT !.at = "keep access"]
    BY <1>2, <1>6 DEF TakeTokens, history
  <2>2. refresh'.at = "keep access"
    BY <1>1, <2>1, FlightPlaces
  <2>3. /\ refresh.token \notin shown
        /\ person.at = "welcome" /\ person.token # None => refresh.token # person.token
    BY <2>1 DEF Fresh
  <2> QED
    BY <1>1, <2>1, <2>2, <2>3, FreshStays
<1>7. CASE PersonKeepsAccess \/ PersonKeepsRefresh \/ Leave \/ PersonDropsAccess
           \/ PersonDropsRefresh
  <2>1. /\ shown' = shown /\ UNCHANGED refresh /\ (mem' = mem \/ mem' = NoTokens)
        /\ \/ person' = Nobody
           \/ \E a \in {"keep refresh", "drop access", "drop refresh"} :
                person' = [person EXCEPT !.at = a]
    BY <1>7 DEF PersonKeepsAccess, PersonKeepsRefresh, Leave, PersonDropsAccess,
       PersonDropsRefresh, history
  <2>2. person'.at # "welcome"
    BY <1>1, <2>1, PersonPlaces
  <2> QED
    BY <1>1, <1>2, <2>1, <2>2, FreshStays
<1>8. CASE Welcome
  <2>1. /\ shown' = shown /\ UNCHANGED refresh /\ mem'.refresh = person.token
        /\ person.at = "welcome" /\ person' = [person EXCEPT !.at = "keep access"]
    BY <1>2, <1>8 DEF Welcome, history
  <2>2. person'.at = "keep access"
    BY <1>1, <2>1, PersonPlaces
  <2>3. person.token \notin shown
    BY <2>1 DEF Fresh
  <2> QED
    BY <1>1, <2>1, <2>2, <2>3, FreshStays
<1>9. ASSUME NEW c \in Calls, SignIn(c) PROVE Fresh'
  <2>1. /\ shown' = shown /\ UNCHANGED <<mem, refresh>> /\ person'.at = "asked"
    BY <1>9 DEF SignIn, device, history, Nobody
  <2> QED
    BY <1>1, <2>1, FreshStays
<1>10. ASSUME NEW c \in Calls, ReachServer(c) PROVE Fresh'
  <2>1. /\ shown' = shown /\ UNCHANGED <<mem, person>> /\ refresh.at = "posted"
        /\ \/ refresh' = [refresh EXCEPT !.at = "refused"]
           \/ refresh' = [refresh EXCEPT !.at = "served", !.call = c]
    BY <1>10 DEF ReachServer, device
  <2>2. refresh'.at \in {"refused", "served"}
    BY <2>1 DEF Typed, Flights
  <2> QED
    BY <1>1, <2>1, <2>2, FreshStays DEF InFlight
<1>11. ASSUME NEW c \in Calls, ServerFails(c) PROVE Fresh'
  <2>1. /\ shown' = shown /\ UNCHANGED mem /\ (person' = person \/ person' = Nobody)
        /\ \/ refresh' = refresh
           \/ refresh' = [refresh EXCEPT !.at = "failed", !.call = None]
    BY <1>11 DEF ServerFails, Trouble, device
  <2>2. /\ refresh' = refresh \/ refresh'.at = "failed"
        /\ (person'.at = "welcome" => person' = person)
    BY <2>1, PersonPlaces DEF Typed, Flights
  <2> QED
    BY <1>1, <2>1, <2>2, FreshStays DEF InFlight
<1> QED
  BY <1>1, <1>3, <1>4, <1>5, <1>6, <1>7, <1>8, <1>9, <1>10, <1>11, ServeFresh, JoinFresh, BootFresh
  DEF MobileNext, Progress, Environment, Slots

-----------------------------------------------------------------------------
(* The session lasts.                                                        *)

\* What a signed-in phone may do while nothing ends its session.
LEMMA SignedSteps ==
  ASSUME Signed, Typed, MobileNext, ~cause'
  PROVE  \/ \E c \in Calls : Serve(c) \/ (ReachServer(c) /\ call' # call)
         \/ \E q \in Slots : AnswerOk(q) \/ JoinRefresh(q)
         \/ \E q \in Requests : \/ Send(q) \/ SendWrong(q)
                                \/ Timeout(q) /\ req' = [req EXCEPT ![q] = Still]
         \/ TakeTokens \/ KeepAccess \/ KeepRefresh \/ Expire
<1>1. ASSUME NEW c \in Calls PROVE ~ServerFails(c) /\ ~SignIn(c) /\ (ReachServer(c) => call' # call)
  BY DEF ServerFails, SignIn, ReachServer, Trouble, Signed, SignedIn
<1>2. ASSUME NEW q \in Slots PROVE ~GiveUp(q) /\ ~ClearAccess(q) /\ ~ClearRefresh(q)
  BY DEF GiveUp, ClearAccess, ClearRefresh, Signed, SignedIn, RetriesPass, Valid, Denied
<1>3. ASSUME NEW q \in Slots, Timeout(q)
      PROVE  q \in Requests /\ req' = [req EXCEPT ![q] = Still]
  BY <1>3 DEF Timeout, Trouble, Slots
<1>4. ~TakeRefusal /\ ~DropAccess /\ ~DropRefresh /\ ~TakeFailure /\ ~LoseAnswer
  BY DEF TakeRefusal, DropAccess, DropRefresh, TakeFailure, LoseAnswer, Trouble, Signed, Renewal
<1>5. /\ ~Welcome /\ ~PersonKeepsAccess /\ ~PersonKeepsRefresh /\ ~Leave /\ ~PersonDropsAccess
      /\ ~PersonDropsRefresh
  <2>1. person.at = "idle"
    BY DEF Signed, SignedIn, Nobody
  <2> QED
    BY <2>1 DEF Welcome, PersonKeepsAccess, PersonKeepsRefresh, Leave, PersonDropsAccess,
       PersonDropsRefresh
<1>6. ~EndSessions /\ ~SignOut /\ ~Kill /\ ~BootApp
  BY DEF EndSessions, SignOut, Kill, BootApp, Trouble, Signed, SignedIn
<1> QED
  BY <1>1, <1>2, <1>3, <1>4, <1>5, <1>6 DEF MobileNext, Progress, Environment

\* Requests come and go.
LEMMA RequestSigned ==
  ASSUME Signed, Typed, NEW q \in Slots,
         \/ AnswerOk(q) \/ (q \in Requests /\ (Send(q) \/ SendWrong(q)))
         \/ (Timeout(q) /\ q \in Requests /\ req' = [req EXCEPT ![q] = Still])
  PROVE  Signed'
<1>1. /\ UNCHANGED <<vars, up, refresh, person, expired>> /\ screen' = "app" /\ mem' = mem
      /\ \/ req' = [req EXCEPT ![q] = Still]
         \/ \E w \in BOOLEAN : req' = [req EXCEPT ![q] = Sent(mem.access, FALSE, w)]
  <2>1. screen = "app"
    BY DEF Signed, SignedIn
  <2>2. q \in Requests => q # Boot
    BY MobileAssumption, FS_CardinalityType DEF Boot
  <2>3. CASE AnswerOk(q)
    BY <2>1, <2>3 DEF AnswerOk
  <2>4. CASE q \in Requests /\ (Send(q) \/ SendWrong(q))
    BY <2>1, <2>4 DEF Send, SendWrong, Request, device
  <2>5. CASE Timeout(q) /\ q \in Requests /\ req' = [req EXCEPT ![q] = Still]
    BY <2>1, <2>2, <2>5 DEF Timeout
  <2> QED
    BY <2>3, <2>4, <2>5
<1>2. /\ Still.at = "idle"
      /\ \A w : Sent(mem.access, FALSE, w).at = "sent" /\ ~Sent(mem.access, FALSE, w).retry
  BY DEF Still, Sent
<1>3. RetriesPass'
  <2>1. PICK y : /\ req' = [req EXCEPT ![q] = y]
                 /\ y.at = "idle" \/ (y.at = "sent" /\ ~y.retry)
    BY <1>1, <1>2
  <2>2. req'[q] = y /\ \A p \in Slots : p # q => req'[p] = req[p]
    BY <2>1 DEF Typed
  <2> QED
    BY <1>1, <2>1, <2>2 DEF Signed, RetriesPass
<1> QED
  BY <1>1, <1>3 DEF Signed, SignedIn, OneCall, Renewal, Rotation, vars

LEMMA JoinSigned ==
  ASSUME Signed, Typed, NEW q \in Slots, JoinRefresh(q)
  PROVE  Signed'
<1>1. UNCHANGED <<vars, up, mem, screen, person, expired>>
  BY DEF JoinRefresh, device
<1>2. RetriesPass'
  <2> DEFINE x == req[q]
             y == [x EXCEPT !.at = "waiting"]
  <2>1. y.at = "waiting"
    BY DEF Typed, RequestRecords
  <2>2. req' = [req EXCEPT ![q] = y]
    BY DEF JoinRefresh
  <2> HIDE DEF y
  <2>3. req'[q] = y /\ \A p \in Slots : p # q => req'[p] = req[p]
    BY <2>2 DEF Typed
  <2> QED
    BY <1>1, <2>1, <2>3 DEF Signed, RetriesPass
<1>3. CASE refresh # NoRefresh
  <2>1. UNCHANGED refresh
    BY <1>3 DEF JoinRefresh
  <2> QED
    BY <1>1, <1>2, <2>1 DEF Signed, SignedIn, OneCall, Renewal, Rotation, vars
<1>4. CASE refresh = NoRefresh
  <2>1. refresh'.at = "posted" /\ refresh'.token = mem.refresh /\ refresh.at = "none"
    BY <1>4 DEF JoinRefresh, NoRefresh
  <2>2. OneCall' /\ Renewal'
    BY <1>1, <2>1 DEF Signed, OneCall, Renewal, vars
  <2> QED
    BY <1>1, <1>2, <2>2 DEF Signed, SignedIn
<1> QED
  BY <1>3, <1>4

\* The new tokens reach the phone, and the requests that waited for them.
LEMMA TakeSigned ==
  ASSUME Signed, Typed, TakeTokens, Len(tokens) \in Nat
  PROVE  Signed'
<1>1. /\ UNCHANGED <<vars, up, screen, req, person, expired>> /\ refresh.at = "ok"
      /\ mem' = Pair(refresh.token) /\ refresh' = [refresh EXCEPT !.at = "keep access"]
  BY DEF TakeTokens
<1>2. refresh'.at = "keep access" /\ refresh'.token = refresh.token /\ mem'.refresh = refresh.token
  BY <1>1, FlightPlaces DEF Typed, Pair
<1>3. refresh.token > expired /\ tokens[refresh.token].live
  BY <1>1 DEF Signed, Renewal
<1>4. mem'.refresh # None
  <2>1. expired \in 0..Len(tokens)
    BY DEF Typed
  <2>2. ~(0 > expired)
    BY <2>1
  <2> QED
    BY <1>2, <1>3, <2>2 DEF None
<1>5. OneCall' /\ Renewal'
  BY <1>1, <1>2, <1>3 DEF Signed, OneCall, Renewal, vars
<1> QED
  BY <1>1, <1>4, <1>5 DEF Signed, SignedIn, RetriesPass

LEMMA KeepSigned ==
  ASSUME Signed, Typed, KeepAccess \/ KeepRefresh
  PROVE  Signed'
<1>1. UNCHANGED <<vars, up, screen, mem, person, expired>>
      /\ refresh.at \in {"keep access", "keep refresh"}
  BY DEF KeepAccess, KeepRefresh
<1>2. refresh.token = mem.refresh /\ refresh.token > expired /\ tokens[refresh.token].live
  BY <1>1 DEF Signed, Renewal
<1>3. CASE KeepAccess
  <2>1. refresh'.at = "keep refresh" /\ refresh'.token = refresh.token /\ UNCHANGED req
    BY <1>3, FlightPlaces DEF KeepAccess, Typed
  <2>2. OneCall' /\ Renewal'
    BY <1>1, <1>2, <2>1 DEF Signed, OneCall, Renewal, vars
  <2> QED
    BY <1>1, <2>1, <2>2 DEF Signed, SignedIn, RetriesPass
<1>4. CASE KeepRefresh
  <2>1. refresh'.at = "none"
    BY <1>4 DEF KeepRefresh, NoRefresh
  <2>2. OneCall' /\ Renewal'
    BY <1>1, <1>2, <2>1 DEF Signed, OneCall, Renewal, vars
  <2>3. \A w : /\ Sent(refresh.token, TRUE, w).at = "sent"
               /\ Sent(refresh.token, TRUE, w).access = refresh.token
    BY DEF Sent
  <2>4. \A p \in Slots : req'[p] = req[p] \/ \E w : req'[p] = Sent(refresh.token, TRUE, w)
    BY <1>4 DEF KeepRefresh, NewAccess
  <2>5. RetriesPass'
    BY <1>1, <1>2, <2>3, <2>4 DEF Signed, RetriesPass
  <2> QED
    BY <1>1, <2>2, <2>5 DEF Signed, SignedIn
<1> QED
  BY <1>3, <1>4

\* Time passes, never between a refresh and the answers to its retries.
LEMMA ExpireSigned ==
  ASSUME Signed, Typed, Expire, Len(tokens) \in Nat, Held = 0..Len(tokens)
  PROVE  Signed'
<1>1. UNCHANGED <<vars, up, mem, screen, req, refresh, person>>
      /\ expired' = expired + 1
  BY DEF Expire, device
<1>0. expired \in Nat
  <2>1. expired \in 0..Len(tokens)
    BY DEF Typed
  <2> QED
    BY <2>1
<1>2. RetriesPass'
  <2> SUFFICES ASSUME NEW q \in Slots
               PROVE  /\ req[q].at \in {"idle", "sent", "waiting"}
                      /\ req[q].at = "sent" /\ req[q].retry => req[q].access > expired'
    BY <1>1 DEF RetriesPass
  <2>1. req[q].access \in Int
    <3>1. req[q].access \in Held
      BY DEF Typed, RequestRecords
    <3> QED
      BY <3>1
  <2>2. req[q].at = "sent" => req[q].access # expired'
    BY DEF Expire
  <2>3. /\ req[q].at \in {"idle", "sent", "waiting"}
        /\ req[q].at = "sent" /\ req[q].retry => req[q].access > expired
    BY DEF Signed, RetriesPass
  <2> QED
    BY <1>0, <1>1, <2>1, <2>2, <2>3
<1>3. refresh.at \in {"ok", "keep access", "keep refresh"} => refresh.token > expired'
  <2>1. refresh.token \in Int
    <3>1. refresh.token \in Held
      BY DEF Typed, Flights
    <3> QED
      BY <3>1
  <2>2. refresh.token # expired' \/ refresh.at \notin {"ok", "keep access", "keep refresh"}
    BY DEF Expire
  <2>3. refresh.at \in {"ok", "keep access", "keep refresh"} => refresh.token > expired
    BY DEF Signed, Renewal
  <2>4. refresh.token > expired /\ refresh.token # expired' => refresh.token > expired'
    BY <1>0, <1>1, <2>1
  <2> QED
    BY <2>2, <2>3, <2>4
<1>4. Renewal'
  BY <1>1, <1>3 DEF Signed, Renewal, Rotation, vars
<1> QED
  BY <1>1, <1>2, <1>4 DEF Signed, SignedIn, OneCall, vars

\* The refresh reaches the server, which takes its token: it lives.
LEMMA ReachSigned ==
  ASSUME TypeInv, Typed, OneAccount, Signed, NEW c \in Calls, ReachServer(c), call' # call
  PROVE  Signed'
<1>1. /\ StartRotate(c, refresh.token)
      /\ UNCHANGED <<accounts, tokens, device, req, person, expired>>
      /\ refresh.at = "posted" /\ refresh' = [refresh EXCEPT !.at = "served", !.call = c]
  BY DEF ReachServer, StartRotate
<1> DEFINE t == refresh.token
<1>2. /\ t \in Ids /\ tokens[t].live /\ tokens[t].user = Owner /\ MayRenew(Owner)
  BY <1>1 DEF StartRotate, Signed, Renewal, OneAccount, MayRenew
<1>3. refresh'.at = "served" /\ refresh'.token = t /\ refresh'.call = c
  BY <1>1 DEF Typed, Flights
<1>4. call'[c].op = "rotate" /\ call'[c].token = t /\ call'[c].at = "claim"
      /\ \A d \in Calls : d # c => call'[d] = call[d]
  <2> DEFINE r == [Idle EXCEPT !.op = "rotate", !.user = tokens[t].user, !.token = t,
                     !.at = IF tokens[t].live /\ MayRenew(tokens[t].user) THEN "claim" ELSE "burn"]
  <2>1. call' = [call EXCEPT ![c] = r]
    BY <1>1, Zenon DEF StartRotate
  <2>2. r.op = "rotate" /\ r.token = t /\ r.at = "claim"
    BY <1>2 DEF Idle
  <2> HIDE DEF r
  <2> QED
    BY <2>1, <2>2 DEF TypeInv, CallsOK
<1>5. OneCall'
  BY <1>1, <1>3, <1>4 DEF Signed, OneCall
<1>6. Renewal'
  BY <1>1, <1>2, <1>3, <1>4 DEF Renewal, Rotation
<1> QED
  BY <1>1, <1>5, <1>6 DEF Signed, SignedIn, RetriesPass, device

\* The rotation claims its token, then issues the next one.
LEMMA ServeSigned ==
  ASSUME TypeInv, Typed, OneAccount, Signed, NEW c \in Calls, Serve(c)
  PROVE  Signed'
<1>1. /\ Continue(c) /\ Answered(c) /\ UNCHANGED <<up, mem, screen, req, expired>>
      /\ person.call = None /\ person = Nobody /\ c # None
  BY CallsNumbered DEF Serve, device, Signed, SignedIn, Nobody
<1>2. /\ call[c] # Idle /\ \A d \in Calls : d # c => call'[d] = call[d]
      /\ \/ call'[c] = Idle
         \/ /\ call'[c].op = call[c].op /\ call'[c].token = call[c].token
  BY <1>1, ServedCall DEF OneAccount
<1>3. refresh.at = "served" /\ refresh.call = c /\ Rotation(call[c])
  BY <1>2 DEF Signed, OneCall, Renewal
<1>4. UNCHANGED person
  BY <1>1 DEF Answered
<1>5. SignedIn' /\ RetriesPass'
  BY <1>1, <1>4 DEF Signed, SignedIn, RetriesPass
<1>6. Claim(c) \/ IssueNext(c)
  BY <1>1, <1>3, Continues
  DEF OneAccount, Rotation, LinkIdentity, IssueSession, BurnFamily, Is
<1>7. CASE Claim(c)
  <2>1. tokens[call[c].token].live
    BY <1>3, <1>7 DEF Rotation, Claim, Is
  <2>2. Go(c, "issue")
    BY <1>7, <2>1 DEF Claim
  <2>3. call'[c].at = "issue" /\ call'[c].op = "rotate" /\ call'[c].token = call[c].token
    BY <1>3, <2>2 DEF Go, TypeInv, CallsOK, CallRecords, Rotation
  <2>4. call'[c] # Idle
    BY <2>3, IdleFields
  <2>5. UNCHANGED refresh
    BY <1>1, <2>4 DEF Answered
  <2>6. OneCall' /\ Renewal'
    BY <1>2, <1>3, <2>3, <2>5 DEF Signed, OneCall, Renewal, Rotation
  <2> QED
    BY <1>5, <2>6 DEF Signed
<1>8. CASE IssueNext(c)
  <2> DEFINE n == Len(tokens')
  <2>1. /\ call'[c] = Idle /\ n = Len(tokens) + 1 /\ Len(tokens) \in Nat /\ tokens'[n].live
    <3>1. call'[c] = Idle /\ Len(tokens) \in Nat
      BY <1>8, IssueEffect, TokensShape DEF Issues, TypeInv
    <3> DEFINE r == [user |-> call[c].user, family |-> Family(call[c].token), live |-> TRUE]
    <3>2. tokens' = Append(tokens, r) /\ tokens \in Seq(TokenRecords) /\ r.live
      BY <1>8 DEF IssueNext, Issue, TypeInv, TokensOK
    <3>3. r \in TokenRecords
      <4>1. call[c].user \in Users /\ Family(call[c].token) \in 1..MaxTokens
        BY <1>3, RotationToken DEF Rotation, TypeInv, CallsOK, CallRecords
      <4> QED
        BY <4>1 DEF TokenRecords
    <3> HIDE DEF r
    <3> QED
      BY <3>1, <3>2, <3>3, AppendProperties
  <2>2. refresh' = [refresh EXCEPT !.at = "ok", !.token = n, !.call = None]
    <3>1. n > Len(tokens) /\ n # None
      BY <2>1 DEF None
    <3> QED
      BY <1>1, <1>3, <2>1, <3>1 DEF Answered
  <2>3. refresh'.at = "ok" /\ refresh'.token = n
    BY <2>2 DEF Typed, Flights
  <2>4. n > expired'
    BY <1>1, <2>1 DEF Typed
  <2>5. Renewal'
    BY <2>1, <2>3, <2>4 DEF Renewal
  <2>6. OneCall'
    BY <1>2, <1>3, <2>1 DEF Signed, OneCall
  <2> QED
    BY <1>5, <2>5, <2>6 DEF Signed
<1> QED
  BY <1>6, <1>7, <1>8

LEMMA SignedStep ==
  ASSUME TypeInv, Typed, OneAccount, MobileNext, ~cause => Signed, ~cause'
  PROVE  Signed'
<1>1. Signed
  BY ProgressMoves, EnvironmentMoves DEF MobileNext, Typed
<1>2. Len(tokens) \in Nat /\ Held = 0..Len(tokens)
  BY Numbered DEF TypeInv
<1> QED
  BY <1>1, <1>2, SignedSteps, RequestSigned, JoinSigned, TakeSigned, KeepSigned, ExpireSigned,
     ReachSigned, ServeSigned DEF Slots

-----------------------------------------------------------------------------
(* The theorems.                                                             *)

LEMMA MInvInit == MobileInit => MInv
<1> SUFFICES ASSUME MobileInit PROVE MInv
  OBVIOUS
<1>1. TypeInv
  BY TypeInit DEF MobileInit
<1>2. Ids = {1} /\ tokens[1].live /\ tokens[1].user = Owner /\ Len(tokens) = 1 /\ 1 \in Held
  BY DEF MobileInit, Init, Ids, Held
<1>3. call = [c \in Calls |-> Idle] /\ status[Owner] = "ACTIVE" /\ tenant = "ACTIVE"
  BY DEF MobileInit, Init, Users
<1>4. Typed
  <2>1. MaxRequests \in Nat /\ MaxTroubles \in Nat /\ Boot \in Slots /\ None \in Held
    BY MobileAssumption DEF Slots, Held
  <2>2. mem \in [access : Held, refresh : Held] /\ disk \in [access : Held, refresh : Held]
    BY <1>2 DEF MobileInit, Pair
  <2>3. req \in [Slots -> RequestRecords]
    BY <2>1 DEF MobileInit, Still, RequestRecords
  <2>4. refresh \in Flights /\ person \in People
    BY <2>1 DEF MobileInit, NoRefresh, Nobody, Flights, People
  <2>5. expired \in 0..Len(tokens) /\ sent \in 0..MaxRequests /\ troubles \in 0..MaxTroubles
    BY <1>2, <2>1 DEF MobileInit
  <2> QED
    BY <2>2, <2>3, <2>4, <2>5 DEF MobileInit, Typed
<1>5. Waits
  BY DEF MobileInit, Waits, Waiting, Still
<1>6. OneAccount
  BY <1>2, <1>3, IdleFields DEF MobileInit, OneAccount, NoRefresh, Nobody
<1>7. Fresh
  BY DEF MobileInit, Fresh, NoRefresh, Nobody
<1>8. Signed
  <2>1. mem.refresh = 1 /\ SignedIn
    BY DEF MobileInit, SignedIn, Pair, None
  <2>2. refresh.at = "none"
    BY DEF MobileInit, NoRefresh
  <2> QED
    BY <1>2, <1>3, <2>1, <2>2 DEF MobileInit, Signed, RetriesPass, OneCall, Renewal, Still
<1> QED
  BY <1>1, <1>4, <1>5, <1>6, <1>7, <1>8 DEF MInv

LEMMA MInvStep == MInv /\ [MobileNext]_allVars => MInv'
<1> SUFFICES ASSUME MInv, [MobileNext]_allVars PROVE MInv'
  OBVIOUS
<1>1. CASE MobileNext
  BY <1>1, Grows, TypedStep, WaitsStep, OneAccountStep, FreshStep, SignedStep DEF MInv
<1>2. CASE UNCHANGED allVars
  <2>1. UNCHANGED <<status, tenant, assigned, tokens, call, made, ended>>
    BY <1>2 DEF allVars, vars
  <2>2. UNCHANGED <<up, mem, disk, screen, req, refresh, person, expired, sent,
                   troubles, shown, cause>>
    BY <1>2 DEF allVars, mobile, device, history
  <2>3. TypeInv'
    BY <2>1, TypeStep DEF MInv, vars
  <2>4. Waits' /\ Ids' = Ids /\ Held' = Held
    BY <2>1, <2>2 DEF MInv, Waits, Waiting, Held, Ids
  <2>7. RequestRecords' = RequestRecords /\ Flights' = Flights /\ People' = People
    BY <2>4 DEF RequestRecords, Flights, People
  <2>8. Typed'
    BY <2>1, <2>2, <2>4, <2>7 DEF MInv, Typed
  <2>5. OneAccount' /\ Fresh'
    BY <2>1, <2>2 DEF MInv, OneAccount, Fresh, Ids
  <2>6. ~cause' => Signed'
    BY <2>1, <2>2 DEF MInv, Signed, SignedIn, RetriesPass, OneCall, Renewal, Rotation
  <2> QED
    BY <2>3, <2>4, <2>5, <2>6, <2>8 DEF MInv
<1> QED
  BY <1>1, <1>2

LEMMA MInvAlways == MobileSpec => []MInv
  BY MInvInit, MInvStep, PTL DEF MobileSpec

\* Every variable of the phone keeps its type, and a request waits only for a
\* refresh in flight (ensureAuthTokensFromRefresh, the queue of the 401s).
THEOREM MobileTypeCorrect == MobileSpec => []MobileTypeOK
<1>1. MInv => MobileTypeOK
  BY DEF MInv, Typed, Waits, MobileTypeOK, Held, RequestRecords, Flights, People
<1> QED
  BY <1>1, MInvAlways, PTL

\* Expired access tokens, concurrent 401s and lost requests never sign the phone
\* out, for any number of requests, tokens and troubles: one of the listed
\* causes, a wrong password among them, happened first.
THEOREM SignedOutCorrect == MobileSpec => []SignedOutForCause
<1>1. MInv => SignedOutForCause
  BY DEF MInv, Signed, SignedIn, SignedOutForCause
<1> QED
  BY <1>1, MInvAlways, PTL

\* A running app never posts a refresh token twice: each refresh that starts
\* takes the token in memory, which no earlier refresh has posted.
THEOREM PostedOnceCorrect == MobileSpec => NeverPostedTwice
<1>1. ASSUME MInv, [MobileNext]_allVars, refresh' # refresh, refresh'.at = "posted"
      PROVE  refresh'.token \notin shown
  <2>1. refresh \in Flights
    BY <1>1 DEF MInv, Typed
  <2>2. PICK q \in Slots :
          /\ refresh = NoRefresh
          /\ refresh' = [at |-> "posted", first |-> q, token |-> mem.refresh, call |-> None]
    <3>1. FlightMoves
      BY <1>1, FlightSteps DEF allVars, mobile
    <3>2. ASSUME NEW a \in {"ok", "refused"}, NEW t,
                 refresh' = [refresh EXCEPT !.at = a, !.token = t, !.call = None]
          PROVE  FALSE
      BY <1>1, <2>1, <3>2 DEF Flights
    <3>3. ASSUME NEW c, refresh' = [refresh EXCEPT !.at = "served", !.call = c] PROVE FALSE
      BY <1>1, <2>1, <3>3 DEF Flights
    <3>4. refresh' # [refresh EXCEPT !.at = "failed", !.call = None]
      BY <1>1, <2>1 DEF Flights
    <3>5. refresh' # NoRefresh
      BY <1>1 DEF NoRefresh
    <3>6. ASSUME NEW a \in {"keep access", "keep refresh", "refused", "drop access",
                         "drop refresh"},
                 refresh' = [refresh EXCEPT !.at = a]
          PROVE  FALSE
      BY <1>1, <2>1, <3>6, FlightPlaces
    <3> QED
      BY <1>1, <3>1, <3>2, <3>3, <3>4, <3>5, <3>6 DEF FlightMoves
  <2>3. refresh'.token = mem.refresh /\ refresh.at = "none"
    BY <2>2 DEF NoRefresh
  <2> QED
    BY <1>1, <2>3 DEF MInv, Fresh
<1> QED
  BY <1>1, MInvAlways, PTL DEF MobileSpec, NeverPostedTwice
=============================================================================
