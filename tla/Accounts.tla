------------------------------- MODULE Accounts -------------------------------
(***************************************************************************)
(* The accounts of one tenant: its users, the routers its ticket verifiers *)
(* are assigned to and the refresh tokens they hold, with the calls that   *)
(* sign users in, renew, revoke, suspend, assign and delete.  One action   *)
(* is one query or transaction; what a call has read stays in its record.  *)
(* Access tokens are checked by signature alone and are no state here.     *)
(***************************************************************************)
EXTENDS Integers, Sequences, FiniteSets

CONSTANTS Owner,      \* the user of role OWNER
          Verifiers,  \* the users of role TICKET_VERIFIER, created later
          Routers,    \* routers of the tenant
          Calls,      \* calls under way at a time
          OpKinds,    \* the calls made
          UserLimit,  \* Entitlement.userLimit
          MaxCalls, MaxTokens  \* bounds

NoRouter == "no router"
Users == Verifiers \cup {Owner}

ASSUME AccountsAssumption ==
  /\ Owner \notin Verifiers /\ IsFiniteSet(Verifiers) /\ NoRouter \notin Routers
  /\ Calls = 1..Cardinality(Calls) /\ IsFiniteSet(Calls)
  /\ UserLimit \in Nat \ {0} /\ MaxCalls \in Nat /\ MaxTokens \in Nat \ {0}

VARIABLES
  status,    \* User.status, NONE before the row exists
  tenant,    \* Tenant.status
  assigned,  \* the TicketVerifierAssignment of each verifier
  tokens,    \* the RefreshToken rows; a family is named by its first token
  call,
  made,      \* calls made
  ended      \* history: families ended by a rotation that nothing raced

accounts == <<status, tenant, assigned>>
vars == <<status, tenant, assigned, tokens, call, made, ended>>

Idle == [op |-> "idle", at |-> "", user |-> Owner, token |-> 0,
         next |-> "", router |-> NoRouter, others |-> FALSE]

Ids == DOMAIN tokens
Family(t) == tokens[t].family
Live(f) == {t \in Ids : Family(t) = f /\ tokens[t].live}

Init ==
  /\ status = [u \in Users |-> IF u = Owner THEN "ACTIVE" ELSE "NONE"]
  /\ tenant = "ACTIVE"
  /\ assigned = [v \in Verifiers |-> NoRouter]
  /\ tokens = <<[user |-> Owner, family |-> 1, live |-> TRUE]>>  \* signup
  /\ call = [c \in Calls |-> Idle]
  /\ made = 0 /\ ended = {}

-----------------------------------------------------------------------------
(* Steps shared by the calls.                                               *)

\* In the first free slot of Calls.
Begin(c, op) ==
  /\ op \in OpKinds /\ call[c] = Idle /\ made < MaxCalls
  /\ \A d \in 1..(c - 1) : call[d] # Idle
  /\ made' = made + 1

Opened(c, op, at, u) ==
  call' = [call EXCEPT ![c] = [Idle EXCEPT !.op = op, !.at = at, !.user = u]]

Is(c, op, at) == call[c].op = op /\ call[c].at = at
Go(c, at) == call' = [call EXCEPT ![c].at = at]
End(c) == call' = [call EXCEPT ![c] = Idle]

\* refreshToken.updateMany({where: ..., revoked: false}, {revoked: true})
Revoked(S) == [t \in Ids |-> IF t \in S THEN [tokens[t] EXCEPT !.live = FALSE]
                             ELSE tokens[t]]
OfUser(u) == {t \in Ids : tokens[t].user = u}

\* Mutant: a reused token revokes itself only.
OfToken(t) == {t}
OfFamily(t) == {s \in Ids : Family(s) = Family(t)}

\* issueTokens
Issue(u, family) ==
  /\ Len(tokens) < MaxTokens
  /\ tokens' = Append(tokens, [user |-> u, family |-> family, live |-> TRUE])

-----------------------------------------------------------------------------
(* Signing in: login, googleLogin, appleLogin.  The status is checked, and  *)
(* the tokens are issued after the awaits that follow.  An OAuth identity   *)
(* linked to an account with a password ends its sessions first.            *)

StartLogin(c, u) ==
  /\ Begin(c, "login") /\ status[u] = "ACTIVE"
  /\ \E at \in {"link", "issue"} : Opened(c, "login", at, u)
  /\ UNCHANGED <<accounts, tokens, ended>>

LinkIdentity(c) ==
  /\ Is(c, "login", "link")
  /\ tokens' = Revoked(OfUser(call[c].user)) /\ Go(c, "issue")
  /\ UNCHANGED <<accounts, made, ended>>

\* Mutant: the sessions of the process share one family.
IssueInSharedFamily(c) ==
  /\ Is(c, "login", "issue")
  /\ Issue(call[c].user, 1) /\ End(c)
  /\ UNCHANGED <<accounts, made, ended>>

IssueSession(c) ==
  /\ Is(c, "login", "issue")
  /\ Issue(call[c].user, Len(tokens) + 1) /\ End(c)
  /\ UNCHANGED <<accounts, made, ended>>

-----------------------------------------------------------------------------
(* rotate: the token is read with its user and tenant.  An expired one is   *)
(* refused; a reused one, or one of a disabled account, ends its family.    *)

\* Mutant: the status of the tenant alone is checked.
TenantAlive(u) == tenant # "DELETED"
MayRenew(u) == status[u] = "ACTIVE" /\ tenant # "DELETED"

StartRotate(c, t) ==
  /\ Begin(c, "rotate") /\ t \in Ids
  /\ \/ call' = [call EXCEPT ![c] = [Idle EXCEPT
          !.op = "rotate", !.user = tokens[t].user, !.token = t,
          !.at = IF tokens[t].live /\ MayRenew(tokens[t].user)
                   THEN "claim" ELSE "burn"]]
     \/ tokens[t].live /\ UNCHANGED call  \* expired
  /\ UNCHANGED <<accounts, tokens, ended>>

\* Mutant: the token is claimed without revoked: false.
ClaimAnyway(c) ==
  /\ Is(c, "rotate", "claim")
  /\ tokens' = Revoked({call[c].token}) /\ Go(c, "issue")
  /\ UNCHANGED <<accounts, made, ended>>

\* "Consommation atomique : un seul appel concurrent peut gagner".
Claim(c) ==
  /\ Is(c, "rotate", "claim")
  /\ tokens' = Revoked({call[c].token})
  /\ Go(c, IF tokens[call[c].token].live THEN "issue" ELSE "burn")
  /\ UNCHANGED <<accounts, made, ended>>

\* The rotations of a family that have claimed its token and not yet issued.
Claimed(f) == {c \in Calls : Is(c, "rotate", "issue") /\ Family(call[c].token) = f}

BurnFamily(c) ==
  LET f == Family(call[c].token) IN
  /\ Is(c, "rotate", "burn")
  /\ tokens' = Revoked(OfFamily(call[c].token)) /\ End(c)
  /\ ended' = ended \cup {g \in {f} : Claimed(g) = {}}
  /\ UNCHANGED <<accounts, made>>

\* Mutant: the new token replaces a claim without ending it.
IssueTwice(c) ==
  /\ Is(c, "rotate", "issue")
  /\ Issue(call[c].user, Family(call[c].token))
  /\ \/ End(c)
     \/ UNCHANGED call
  /\ UNCHANGED <<accounts, made, ended>>

IssueNext(c) ==
  /\ Is(c, "rotate", "issue")
  /\ Issue(call[c].user, Family(call[c].token)) /\ End(c)
  /\ UNCHANGED <<accounts, made, ended>>

-----------------------------------------------------------------------------
(* Revocations of one statement: logout by its token; logout-all,           *)
(* change-password, password-reset/confirm, mfa/enable, and the verifier's  *)
(* reset-password and revoke-sessions by user.                              *)

Logout(t) ==
  /\ "logout" \in OpKinds /\ t \in Ids /\ made < MaxCalls
  /\ tokens' = Revoked({t}) /\ made' = made + 1
  /\ UNCHANGED <<accounts, call, ended>>

RevokeAllSessions(u) ==
  /\ "revokeAll" \in OpKinds /\ status[u] # "NONE" /\ made < MaxCalls
  /\ tokens' = Revoked(OfUser(u)) /\ made' = made + 1
  /\ UNCHANGED <<accounts, call, ended>>

-----------------------------------------------------------------------------
(* The platform administrator: setUserStatus and setTenantStatus read the   *)
(* status, write the new one, and revoke in a statement of its own.         *)

Statuses == {"ACTIVE", "SUSPENDED"}

StartSetUserStatus(c, u, next) ==
  /\ Begin(c, "setUserStatus") /\ status[u] \in Statuses
  /\ call' = [call EXCEPT ![c] = [Idle EXCEPT
                !.op = "setUserStatus", !.at = "write", !.user = u, !.next = next]]
  /\ UNCHANGED <<accounts, tokens, ended>>

SetUserStatus(c) ==
  /\ Is(c, "setUserStatus", "write")
  /\ status' = [status EXCEPT ![call[c].user] = call[c].next]
  /\ IF call[c].next = "SUSPENDED" THEN Go(c, "revoke") ELSE End(c)
  /\ UNCHANGED <<tenant, assigned, tokens, made, ended>>

RevokeSuspended(c) ==
  /\ Is(c, "setUserStatus", "revoke")
  /\ tokens' = Revoked(OfUser(call[c].user)) /\ End(c)
  /\ UNCHANGED <<accounts, made, ended>>

StartSetTenantStatus(c, next) ==
  /\ Begin(c, "setTenantStatus") /\ tenant \in Statuses
  /\ call' = [call EXCEPT ![c] = [Idle EXCEPT
                !.op = "setTenantStatus", !.at = "write", !.next = next]]
  /\ UNCHANGED <<accounts, tokens, ended>>

SetTenantStatus(c) ==
  /\ Is(c, "setTenantStatus", "write")
  /\ tenant' = call[c].next
  /\ IF call[c].next = "SUSPENDED" THEN Go(c, "revoke") ELSE End(c)
  /\ UNCHANGED <<status, assigned, tokens, made, ended>>

RevokeTenant(c) ==
  /\ Is(c, "setTenantStatus", "revoke")
  /\ tokens' = Revoked(Ids) /\ End(c)
  /\ UNCHANGED <<accounts, made, ended>>

-----------------------------------------------------------------------------
(* Ticket verifiers: the row is loaded, then one transaction writes by id   *)
(* and revokes the verifier's tokens.                                       *)

\* create: assertUserLimit counts the active users.
StartCreate(c, v) ==
  /\ Begin(c, "create") /\ status[v] = "NONE"
  /\ Cardinality({u \in Users : status[u] = "ACTIVE"}) < UserLimit
  /\ \E r \in Routers \cup {NoRouter} :
       call' = [call EXCEPT ![c] = [Idle EXCEPT
                  !.op = "create", !.at = "write", !.user = v, !.router = r]]
  /\ UNCHANGED <<accounts, tokens, ended>>

\* The email is unique: the second creation fails.
Create(c) ==
  LET v == call[c].user IN
  /\ Is(c, "create", "write")
  /\ IF status[v] # "NONE" THEN UNCHANGED accounts
     ELSE /\ status' = [status EXCEPT ![v] = "ACTIVE"]
          /\ assigned' = [assigned EXCEPT ![v] = call[c].router]
          /\ UNCHANGED tenant
  /\ End(c) /\ UNCHANGED <<tokens, made, ended>>

\* upsertAssignment, removeAssignment and softDelete, with what the load saw.
StartAssign(c, v, r) ==
  /\ Begin(c, "assign") /\ status[v] \in Statuses
  /\ call' = [call EXCEPT ![c] = [Idle EXCEPT
                !.op = "assign", !.at = "write", !.user = v, !.router = r]]
  /\ UNCHANGED <<accounts, tokens, ended>>

Assign(c) ==
  LET v == call[c].user IN
  /\ Is(c, "assign", "write")
  /\ assigned' = [assigned EXCEPT ![v] = call[c].router]
  /\ tokens' = Revoked(OfUser(v)) /\ End(c)
  /\ UNCHANGED <<status, tenant, made, ended>>

StartUnassign(c, v) ==
  /\ Begin(c, "unassign") /\ assigned[v] # NoRouter
  /\ Opened(c, "unassign", "write", v)
  /\ UNCHANGED <<accounts, tokens, ended>>

\* Under a tenant context the tenant middleware makes the delete of the row a
\* deleteMany: a row that is gone by then is no error, here and in softDelete.
Unassign(c) ==
  LET v == call[c].user IN
  /\ Is(c, "unassign", "write")
  /\ assigned' = [assigned EXCEPT ![v] = NoRouter]
  /\ tokens' = Revoked(OfUser(v)) /\ End(c)
  /\ UNCHANGED <<status, tenant, made, ended>>

StartSetStatus(c, v, next) ==
  /\ Begin(c, "setStatus") /\ status[v] \in Statuses \ {next}
  /\ call' = [call EXCEPT ![c] = [Idle EXCEPT
                !.op = "setStatus", !.at = "write", !.user = v, !.next = next]]
  /\ UNCHANGED <<accounts, tokens, ended>>

SetStatus(c) ==
  LET v == call[c].user IN
  /\ Is(c, "setStatus", "write")
  /\ status' = [status EXCEPT ![v] = call[c].next]
  /\ tokens' = IF call[c].next = "SUSPENDED" THEN Revoked(OfUser(v)) ELSE tokens
  /\ End(c) /\ UNCHANGED <<tenant, assigned, made, ended>>

StartSoftDelete(c, v) ==
  /\ Begin(c, "softDelete") /\ status[v] \in Statuses
  /\ call' = [call EXCEPT ![c] = [Idle EXCEPT
                !.op = "softDelete", !.at = "write", !.user = v, !.router = assigned[v]]]
  /\ UNCHANGED <<accounts, tokens, ended>>

\* The assignment goes if the load saw one, whatever became of it since.
SoftDelete(c) ==
  LET v == call[c].user IN
  /\ Is(c, "softDelete", "write")
  /\ status' = [status EXCEPT ![v] = "DELETED"]
  /\ assigned' = IF call[c].router = NoRouter THEN assigned
                 ELSE [assigned EXCEPT ![v] = NoRouter]
  /\ tokens' = Revoked(OfUser(v)) /\ End(c)
  /\ UNCHANGED <<tenant, made, ended>>

-----------------------------------------------------------------------------
(* deleteAccount: in its transaction the other users are counted (read      *)
(* committed), then the account, its tokens and, for the last user, the     *)
(* tenant are written at once.                                              *)

StartDeleteAccount(c, u) ==
  LET others == \E o \in Users \ {u} : status[o] \in Statuses IN
  /\ Begin(c, "deleteAccount") /\ status[u] # "NONE"
  /\ IF u = Owner /\ others THEN UNCHANGED call  \* OWNER_TRANSFER_REQUIRED
     ELSE call' = [call EXCEPT ![c] = [Idle EXCEPT
            !.op = "deleteAccount", !.at = "write", !.user = u, !.others = others]]
  /\ UNCHANGED <<accounts, tokens, ended>>

DeleteAccount(c) ==
  /\ Is(c, "deleteAccount", "write")
  /\ status' = [status EXCEPT ![call[c].user] = "DELETED"]
  /\ tenant' = IF call[c].others THEN tenant ELSE "DELETED"
  /\ tokens' = Revoked(OfUser(call[c].user)) /\ End(c)
  /\ UNCHANGED <<assigned, made, ended>>

-----------------------------------------------------------------------------
Start(c) ==
  \/ \E u \in Users : StartLogin(c, u) \/ StartDeleteAccount(c, u)
  \/ \E t \in Ids : StartRotate(c, t)
  \/ \E u \in Users, next \in Statuses : StartSetUserStatus(c, u, next)
  \/ \E next \in Statuses : StartSetTenantStatus(c, next)
  \/ \E v \in Verifiers : StartCreate(c, v) \/ StartUnassign(c, v) \/ StartSoftDelete(c, v)
  \/ \E v \in Verifiers, r \in Routers : StartAssign(c, v, r)
  \/ \E v \in Verifiers, next \in Statuses : StartSetStatus(c, v, next)

Continue(c) ==
  \/ LinkIdentity(c) \/ IssueSession(c)
  \/ Claim(c) \/ BurnFamily(c) \/ IssueNext(c)
  \/ SetUserStatus(c) \/ RevokeSuspended(c) \/ SetTenantStatus(c) \/ RevokeTenant(c)
  \/ Create(c) \/ Assign(c) \/ Unassign(c) \/ SetStatus(c) \/ SoftDelete(c)
  \/ DeleteAccount(c)

\* A query throws, or the server restarts: the call is over where it was.
Fails(c) ==
  /\ call[c] # Idle /\ End(c)
  /\ UNCHANGED <<accounts, tokens, made, ended>>

Next ==
  \/ \E c \in Calls : Start(c) \/ Continue(c) \/ Fails(c)
  \/ \E t \in Ids : Logout(t)
  \/ \E u \in Users : RevokeAllSessions(u)

Spec == Init /\ [][Next]_vars

-----------------------------------------------------------------------------
(* Properties.                                                              *)

UserStatuses == Statuses \cup {"NONE", "DELETED"}
CallRecords ==
  [op : {"idle", "login", "rotate", "setUserStatus", "setTenantStatus", "create",
         "assign", "unassign", "setStatus", "softDelete", "deleteAccount"},
   at : {"", "link", "issue", "claim", "burn", "write", "revoke"},
   user : Users, token : 0..MaxTokens, next : Statuses \cup {""},
   router : Routers \cup {NoRouter}, others : BOOLEAN]

\* Every variable keeps its type, the tokens of a family belong to one user, and
\* a rotation under way names a token.
TypeOK ==
  /\ status \in [Users -> UserStatuses] /\ tenant \in Statuses \cup {"DELETED"}
  /\ assigned \in [Verifiers -> Routers \cup {NoRouter}]
  /\ tokens \in Seq([user : Users, family : 1..MaxTokens, live : BOOLEAN])
  /\ Len(tokens) \in 1..MaxTokens
  /\ \A t \in Ids : Family(t) \in Ids /\ tokens[Family(t)].user = tokens[t].user
  /\ call \in [Calls -> CallRecords] /\ made \in 0..MaxCalls
  /\ \A c \in Calls : call[c].op = "rotate" =>
       /\ call[c].token \in Ids /\ call[c].user = tokens[call[c].token].user
       /\ call[c].at \in {"claim", "burn", "issue"}
  /\ ended \subseteq 1..MaxTokens

\* "Un seul appel concurrent peut gagner la rotation": whatever is replayed,
\* raced or revoked, a family has one heir, a live token or a rotation about to
\* issue it.  (token.service.ts, rotate)
OneHeirPerFamily ==
  \A f \in {Family(t) : t \in Ids} :
    /\ Cardinality(Live(f)) + Cardinality(Claimed(f)) <= 1

\* A family without heir is over: reuse, logout, suspension, deletion and a
\* change of password are final for every session with no rotation under way,
\* and no replay, retry or late rotation brings one back.
DeadFamilyStaysDead ==
  [][\A f \in {Family(t) : t \in Ids} :
       Live(f) = {} /\ Claimed(f) = {} => Live(f)' = {} /\ Claimed(f)' = {}]_vars

\* "Reuse of an already-rotated token -> compromise: revoke the whole family":
\* a family whose reuse was answered while no rotation of it was issuing has
\* no heir ever after, however many of its tokens are presented again.
ReuseIsFatal == \A f \in ended : Live(f) = {} /\ Claimed(f) = {}

\* A user whose status is not ACTIVE and for whom no call past its check is
\* under way gets no token, by any sequence of renewals and sign-ins, until
\* someone makes the account active again.
Disabled(u) ==
  /\ status[u] # "ACTIVE"
  /\ \A c \in Calls : call[c].user = u => ~(call[c].op \in {"login", "rotate"}
                                            /\ call[c].at \in {"link", "claim", "issue"})
DisabledIsCutOff ==
  [][\A u \in Users : Disabled(u) =>
       /\ OfUser(u)' = OfUser(u)
       /\ (status[u] = "ACTIVE")' \/ Disabled(u)']_vars

=============================================================================
