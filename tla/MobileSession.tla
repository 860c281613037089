---------------------------- MODULE MobileSession ----------------------------
(***************************************************************************)
(* The session of one phone against Accounts: the tokens in memory and in  *)
(* the secure store (lib/api.ts), the requests that a 401 makes wait for   *)
(* one shared refresh, and the sign-in, sign-out and boot of               *)
(* auth-provider.tsx.  The network loses answers, a call of the server     *)
(* fails, the app is killed, the account's sessions are revoked, the user  *)
(* types a wrong password: troubles.                                       *)
(* An access token is named by the refresh token issued with it.           *)
(***************************************************************************)
EXTENDS Accounts

CONSTANTS Requests,                \* requests under way at a time
          MaxRequests, MaxTroubles \* bounds

Boot == 0    \* the slot of the request of boot(): GET /auth/me
Slots == Requests \cup {Boot}
None == 0    \* no token, no server call

ASSUME MobileAssumption ==
  /\ Requests = 1..Cardinality(Requests) /\ IsFiniteSet(Requests)
  /\ MaxRequests \in Nat /\ MaxTroubles \in Nat

VARIABLES
  up,        \* the app runs
  mem,       \* accessToken, refreshToken
  disk,      \* the two keys of the secure store
  screen,    \* "login" or "app"
  req,       \* the requests, with the 401 handler of each
  refresh,   \* refreshInFlight
  person,    \* the sign-in or sign-out under way
  expired,   \* access tokens up to this one have expired
  sent,      \* requests made
  troubles,
  shown,     \* history: refresh tokens posted since the last boot
  cause      \* history: something that may end a session happened

device == <<up, mem, disk, screen>>
history == <<troubles, shown, cause>>
mobile == <<device, req, refresh, person, expired, sent, history>>

NoTokens == [access |-> None, refresh |-> None]
Pair(t) == [access |-> t, refresh |-> t]
Still == [at |-> "idle", access |-> None, retry |-> FALSE, wrong |-> FALSE]
NoRefresh == [at |-> "none", first |-> Boot, token |-> None, call |-> None]
Nobody == [at |-> "idle", token |-> None, call |-> None]

\* The app starts signed in.
MobileInit ==
  /\ Init
  /\ up = TRUE /\ mem = Pair(1) /\ disk = Pair(1) /\ screen = "app"
  /\ req = [q \in Slots |-> Still] /\ refresh = NoRefresh /\ person = Nobody
  /\ expired = 0 /\ sent = 0 /\ troubles = 0 /\ shown = {} /\ cause = FALSE

Trouble(ends) ==
  /\ troubles < MaxTroubles /\ troubles' = troubles + 1
  /\ cause' = (cause \/ ends) /\ UNCHANGED shown

-----------------------------------------------------------------------------
(* The server's side of the refresh and of the sign-in.                     *)

\* A call that ends answers the one who waits for it: with the tokens it has
\* just issued or with a 401.
Answered(c) ==
  LET t == IF Len(tokens') > Len(tokens) THEN Len(tokens') ELSE None IN
  /\ refresh' = IF refresh.call # c \/ call'[c] # Idle THEN refresh
                ELSE [refresh EXCEPT !.at = IF t = None THEN "refused" ELSE "ok",
                                     !.token = t, !.call = None]
  /\ person' = IF person.call # c \/ call'[c] # Idle THEN person
               ELSE [at |-> "welcome", token |-> t, call |-> None]

Serve(c) ==
  /\ Continue(c) /\ Answered(c)
  /\ UNCHANGED <<device, req, expired, sent, history>>

\* The POST reaches rotate; the token may have expired there, after 30 days.
ReachServer(c) ==
  /\ refresh.at = "posted" /\ StartRotate(c, refresh.token)
  /\ refresh' = IF call' = call THEN [refresh EXCEPT !.at = "refused"]
                ELSE [refresh EXCEPT !.at = "served", !.call = c]
  /\ cause' = (cause \/ call' = call)
  /\ UNCHANGED <<device, req, person, expired, sent, troubles, shown>>

\* The query of a call fails, and the call with it: a 500.
ServerFails(c) ==
  /\ Fails(c) /\ Trouble(TRUE)
  /\ refresh' = IF refresh.call = c THEN [refresh EXCEPT !.at = "failed", !.call = None]
                ELSE refresh
  /\ person' = IF person.call = c THEN Nobody ELSE person
  /\ UNCHANGED <<device, req, expired, sent>>

\* Another device or the administration ends the sessions of the account.
EndSessions ==
  /\ RevokeAllSessions(Owner) /\ Trouble(TRUE)
  /\ UNCHANGED <<device, req, refresh, person, expired, sent>>

-----------------------------------------------------------------------------
(* Requests: the interceptors of apiClient.                                 *)

Sent(access, retry, wrong) ==
  [at |-> "sent", access |-> access, retry |-> retry, wrong |-> wrong]

Request(q, wrong) ==
  /\ up /\ screen = "app" /\ sent < MaxRequests /\ req[q] = Still
  /\ \A p \in 1..(q - 1) : req[p] # Still
  /\ req' = [req EXCEPT ![q] = Sent(mem.access, FALSE, wrong)] /\ sent' = sent + 1
  /\ UNCHANGED <<vars, device, refresh, person, expired>>

Send(q) == Request(q, FALSE) /\ UNCHANGED history

\* changePassword or deleteAccount with a wrong or missing proof of identity:
\* the server answers 401 however valid the access token is.
SendWrong(q) == Request(q, TRUE) /\ Trouble(FALSE)

Valid(q) == req[q].access > expired

\* What the server answers with a 401.
Denied(q) == ~Valid(q) \/ req[q].wrong

AnswerOk(q) ==
  /\ req[q].at = "sent" /\ ~Denied(q)
  /\ req' = [req EXCEPT ![q] = Still]
  /\ screen' = IF q = Boot THEN "app" ELSE screen
  /\ UNCHANGED <<vars, up, mem, disk, refresh, person, expired, sent, history>>

\* The first 401 of a request joins the refresh in flight, or starts it.
JoinRefresh(q) ==
  /\ req[q].at = "sent" /\ Denied(q) /\ ~req[q].retry /\ mem.refresh # None
  /\ req' = [req EXCEPT ![q].at = "waiting"]
  /\ IF refresh # NoRefresh THEN UNCHANGED <<refresh, shown>>
     ELSE /\ refresh' = [at |-> "posted", first |-> q, token |-> mem.refresh, call |-> None]
          /\ shown' = shown \cup {mem.refresh}
  /\ UNCHANGED <<vars, device, person, expired, sent, troubles, cause>>

\* A second 401, or one without a refresh token, clears the tokens: so does a
\* wrong password, twice refused.
GiveUp(q) ==
  /\ req[q].at = "sent" /\ Denied(q) /\ (req[q].retry \/ mem.refresh = None)
  /\ mem' = NoTokens /\ req' = [req EXCEPT ![q].at = "clear access"]
  /\ cause' = (cause \/ req[q].wrong)
  /\ UNCHANGED <<vars, up, disk, screen, refresh, person, expired, sent, troubles, shown>>

\* No answer within 15 s: the request is rejected, and boot() clears.
Timeout(q) ==
  /\ req[q].at = "sent" /\ Trouble(q = Boot)
  /\ IF q = Boot THEN mem' = NoTokens /\ req' = [req EXCEPT ![q].at = "clear access"]
     ELSE req' = [req EXCEPT ![q] = Still] /\ UNCHANGED mem
  /\ UNCHANGED <<vars, up, disk, screen, refresh, person, expired, sent>>

\* persistTokens(null), key by key, then the login screen.
ClearAccess(q) ==
  /\ req[q].at = "clear access"
  /\ disk' = [disk EXCEPT !.access = None] /\ req' = [req EXCEPT ![q].at = "clear refresh"]
  /\ UNCHANGED <<vars, up, mem, screen, refresh, person, expired, sent, history>>

ClearRefresh(q) ==
  /\ req[q].at = "clear refresh"
  /\ disk' = [disk EXCEPT !.refresh = None] /\ req' = [req EXCEPT ![q] = Still]
  /\ screen' = "login"
  /\ UNCHANGED <<vars, up, mem, refresh, person, expired, sent, history>>

-----------------------------------------------------------------------------
(* refreshTokens: the answer, the tokens in memory and then on disk, the    *)
(* end of the flight and the requests that waited for it.                   *)

TakeTokens ==
  /\ refresh.at = "ok" /\ refresh' = [refresh EXCEPT !.at = "keep access"]
  /\ mem' = Pair(refresh.token)
  /\ UNCHANGED <<vars, up, disk, screen, req, person, expired, sent, history>>

KeepAccess ==
  /\ refresh.at = "keep access" /\ refresh' = [refresh EXCEPT !.at = "keep refresh"]
  /\ disk' = [disk EXCEPT !.access = refresh.token]
  /\ UNCHANGED <<vars, up, mem, screen, req, person, expired, sent, history>>

Waiting == {q \in Slots : req[q].at = "waiting"}

\* Mutant: the retried request carries the token of the first try.
OldAccess(q) == req[q].access
NewAccess(q) == refresh.token

KeepRefresh ==
  /\ refresh.at = "keep refresh" /\ refresh' = NoRefresh
  /\ disk' = [disk EXCEPT !.refresh = refresh.token]
  /\ req' = [q \in Slots |-> IF q \in Waiting THEN Sent(NewAccess(q), TRUE, req[q].wrong)
                          ELSE req[q]]
  /\ UNCHANGED <<vars, up, mem, screen, person, expired, sent, history>>

\* A 401 or 403: refreshTokens clears the tokens.
TakeRefusal ==
  /\ refresh.at = "refused" /\ refresh' = [refresh EXCEPT !.at = "drop access"]
  /\ mem' = NoTokens
  /\ UNCHANGED <<vars, up, disk, screen, req, person, expired, sent, history>>

DropAccess ==
  /\ refresh.at = "drop access" /\ refresh' = [refresh EXCEPT !.at = "drop refresh"]
  /\ disk' = [disk EXCEPT !.access = None]
  /\ UNCHANGED <<vars, up, mem, screen, req, person, expired, sent, history>>

\* Mutants: the failed refresh keeps the session; it wakes its initiator alone.
RejectGently ==
  /\ refresh' = NoRefresh /\ mem' = mem
  /\ req' = [q \in Slots |-> IF q \in Waiting THEN Still ELSE req[q]]
RejectFirst ==
  /\ refresh' = NoRefresh /\ mem' = NoTokens
  /\ req' = [req EXCEPT ![refresh.first].at = "clear access"]

\* The flight ends without tokens.  Its initiator clears them, whatever the
\* failure; the others are rejected, and boot() clears when its request is one
\* of them.  (What boot() clears after an initiator that just did is left out.)
Reject ==
  /\ refresh' = NoRefresh /\ mem' = NoTokens
  /\ req' = [q \in Slots |->
       IF q \notin Waiting THEN req[q]
       ELSE IF q \in {refresh.first, Boot} THEN [req[q] EXCEPT !.at = "clear access"]
       ELSE Still]

DropRefresh ==
  /\ refresh.at = "drop refresh" /\ Reject
  /\ disk' = [disk EXCEPT !.refresh = None] /\ screen' = "login"
  /\ UNCHANGED <<vars, up, person, expired, sent, history>>

\* A 5xx, or no answer within 15 s while the call may still go on.
TakeFailure ==
  /\ refresh.at = "failed" /\ Reject
  /\ UNCHANGED <<vars, up, disk, screen, person, expired, sent, history>>

LoseAnswer ==
  /\ refresh.at \in {"posted", "served", "ok", "refused"} /\ Trouble(TRUE) /\ Reject
  /\ UNCHANGED <<vars, up, disk, screen, person, expired, sent>>

-----------------------------------------------------------------------------
(* Signing in and out.                                                      *)

SignIn(c) ==
  /\ up /\ screen = "login" /\ person = Nobody
  /\ sent < MaxRequests /\ sent' = sent + 1
  /\ StartLogin(c, Owner) /\ person' = [Nobody EXCEPT !.at = "asked", !.call = c]
  /\ UNCHANGED <<device, req, refresh, expired, history>>

Welcome ==
  /\ person.at = "welcome" /\ person' = [person EXCEPT !.at = "keep access"]
  /\ mem' = Pair(person.token)
  /\ UNCHANGED <<vars, up, disk, screen, req, refresh, expired, sent, history>>

PersonKeepsAccess ==
  /\ person.at = "keep access" /\ person' = [person EXCEPT !.at = "keep refresh"]
  /\ disk' = [disk EXCEPT !.access = person.token]
  /\ UNCHANGED <<vars, up, mem, screen, req, refresh, expired, sent, history>>

PersonKeepsRefresh ==
  /\ person.at = "keep refresh" /\ person' = Nobody
  /\ disk' = [disk EXCEPT !.refresh = person.token] /\ screen' = "app"
  /\ UNCHANGED <<vars, up, mem, req, refresh, expired, sent, history>>

\* logout: the server revokes the token in memory, unless there is none or the
\* call is lost; then clearAuthTokens.
SignOut ==
  /\ up /\ screen = "app" /\ person = Nobody
  /\ person' = [Nobody EXCEPT !.at = "bye"]
  /\ UNCHANGED vars \/ (mem.refresh # None /\ Logout(mem.refresh))
  /\ Trouble(TRUE)
  /\ UNCHANGED <<device, req, refresh, expired, sent>>

Leave ==
  /\ person.at = "bye" /\ person' = [person EXCEPT !.at = "drop access"]
  /\ mem' = NoTokens
  /\ UNCHANGED <<vars, up, disk, screen, req, refresh, expired, sent, history>>

PersonDropsAccess ==
  /\ person.at = "drop access" /\ person' = [person EXCEPT !.at = "drop refresh"]
  /\ disk' = [disk EXCEPT !.access = None]
  /\ UNCHANGED <<vars, up, mem, screen, req, refresh, expired, sent, history>>

PersonDropsRefresh ==
  /\ person.at = "drop refresh" /\ person' = Nobody
  /\ disk' = [disk EXCEPT !.refresh = None] /\ screen' = "login"
  /\ UNCHANGED <<vars, up, mem, req, refresh, expired, sent, history>>

-----------------------------------------------------------------------------
(* The app is killed at any moment, and boots from what the store holds.    *)

Kill ==
  /\ up /\ up' = FALSE /\ Trouble(TRUE)
  /\ mem' = NoTokens /\ screen' = "login"
  /\ req' = [q \in Slots |-> Still] /\ refresh' = NoRefresh /\ person' = Nobody
  /\ UNCHANGED <<vars, disk, expired, sent>>

BootApp ==
  /\ ~up /\ up' = TRUE /\ mem' = disk /\ shown' = {}
  /\ req' = IF None \in {disk.access, disk.refresh} THEN req
            ELSE [req EXCEPT ![Boot] = Sent(disk.access, FALSE, FALSE)]
  /\ UNCHANGED <<vars, disk, screen, refresh, person, expired, sent, troubles, cause>>

\* 900 s pass: never between a refresh and the answers to its retries, which
\* take 15 s at most.
Expire ==
  /\ expired < Len(tokens) /\ expired' = expired + 1
  /\ \A q \in Slots : req[q].at = "sent" => req[q].access # expired'
  /\ refresh.token # expired' \/ refresh.at \notin {"ok", "keep access", "keep refresh"}
  /\ UNCHANGED <<vars, device, req, refresh, person, sent, history>>

-----------------------------------------------------------------------------
Progress ==
  \/ \E c \in Calls : Serve(c) \/ ReachServer(c)
  \/ \E q \in Slots : \/ AnswerOk(q) \/ JoinRefresh(q) \/ GiveUp(q)
                      \/ ClearAccess(q) \/ ClearRefresh(q)
  \/ TakeTokens \/ KeepAccess \/ KeepRefresh
  \/ TakeRefusal \/ DropAccess \/ DropRefresh \/ TakeFailure
  \/ Welcome \/ PersonKeepsAccess \/ PersonKeepsRefresh
  \/ Leave \/ PersonDropsAccess \/ PersonDropsRefresh

Environment ==
  \/ \E c \in Calls : ServerFails(c) \/ SignIn(c)
  \/ \E q \in Requests : Send(q) \/ SendWrong(q)
  \/ \E q \in Slots : Timeout(q)
  \/ EndSessions \/ LoseAnswer \/ SignOut \/ Kill \/ BootApp \/ Expire

MobileNext == Progress \/ Environment
allVars == <<vars, mobile>>

\* The server answers what reaches it and the app handles what it is answered.
\* Nothing says that anyone signs in, that time passes or that a trouble comes.
MobileSpec == MobileInit /\ [][MobileNext]_allVars /\ WF_allVars(Progress)

-----------------------------------------------------------------------------
(* Properties.                                                              *)

\* Every variable keeps its type; a request waits only for a refresh in flight.
MobileTypeOK ==
  /\ {mem.access, mem.refresh, disk.access, disk.refresh} \subseteq Ids \cup {None}
  /\ up \in BOOLEAN /\ screen \in {"login", "app"} /\ cause \in BOOLEAN
  /\ \A q \in Slots : /\ req[q].access \in Ids \cup {None}
                      /\ req[q].retry \in BOOLEAN /\ req[q].wrong \in BOOLEAN
                      /\ req[q].at \in {"idle", "sent", "waiting", "clear access",
                                        "clear refresh"}
  /\ Waiting # {} <=> refresh # NoRefresh
  /\ refresh.token \in Ids \cup {None} /\ person.token \in Ids \cup {None}
  /\ expired \in 0..Len(tokens) /\ sent \in 0..MaxRequests
  /\ troubles \in 0..MaxTroubles /\ shown \subseteq Ids

\* A running app never posts a refresh token twice, whatever answers are lost
\* and whichever requests fail together: what the server takes for reuse can
\* only come from an app killed during a rotation.
NeverPostedTwice ==
  [][refresh' # refresh /\ refresh'.at = "posted" => refresh'.token \notin shown]_allVars

\* Expired access tokens, concurrent 401s and lost requests never end a
\* session: only a lost or failed refresh, a kill, a sign-out, the server's
\* refusal of the account or a wrong password given to an account call does.
SignedOutForCause == ~cause => screen = "app" /\ mem.refresh # None

\* Every request is answered, retried or rejected: none waits for a refresh
\* that ended without it.
EveryRequestSettles == \A q \in Slots : req[q].at # "idle" ~> req[q].at = "idle"

=============================================================================
