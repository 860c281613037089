---------------------------- MODULE AccountsProofs ----------------------------
(* Theorems about Accounts, for any number of verifiers, routers, calls and  *)
(* tokens.                                                                   *)
EXTENDS Accounts, SequenceTheorems, FiniteSetTheorems, TLAPS

TokenRecords == [user : Users, family : 1..MaxTokens, live : BOOLEAN]

\* The token table of TypeOK.
TokensOK ==
  /\ tokens \in Seq(TokenRecords) /\ Len(tokens) \in 1..MaxTokens
  /\ \A t \in Ids : Family(t) \in Ids /\ tokens[Family(t)].user = tokens[t].user

\* The calls of TypeOK, and what it leaves out: a call that writes a status has
\* one to write.
GoodCall(r, table) ==
  /\ r \in CallRecords
  /\ r.op = "rotate" => /\ r.token \in DOMAIN table /\ r.user = table[r.token].user
                        /\ r.at \in {"claim", "burn", "issue"}
  /\ r.op \in {"setUserStatus", "setTenantStatus", "setStatus"} => r.next \in Statuses
CallsOK ==
  /\ call \in [Calls -> CallRecords]
  /\ \A c \in Calls : GoodCall(call[c], tokens)

\* The rest of TypeOK.
DataOK ==
  /\ status \in [Users -> UserStatuses] /\ tenant \in Statuses \cup {"DELETED"}
  /\ assigned \in [Verifiers -> Routers \cup {NoRouter}]
  /\ made \in 0..MaxCalls /\ ended \subseteq 1..MaxTokens

TypeInv == DataOK /\ TokensOK /\ CallsOK

-----------------------------------------------------------------------------
(* The token table.                                                          *)

LEMMA TokensShape ==
  ASSUME TokensOK
  PROVE  /\ Len(tokens) \in Nat /\ Ids = 1..Len(tokens) /\ Ids \subseteq 1..MaxTokens
         /\ \A t \in Ids : tokens[t] \in TokenRecords
<1>1. /\ Len(tokens) \in Nat /\ Ids = 1..Len(tokens)
      /\ \A t \in Ids : tokens[t] \in TokenRecords
  BY LenProperties, ElementOfSeq DEF TokensOK, Ids
<1>2. Ids \subseteq 1..MaxTokens
  BY <1>1, AccountsAssumption DEF TokensOK
<1> QED
  BY <1>1, <1>2

\* A revocation keeps the table but for the revoked tokens.
LEMMA RevokedShape ==
  ASSUME TokensOK, NEW S, tokens' = Revoked(S)
  PROVE  /\ TokensOK' /\ Ids' = Ids /\ Len(tokens') = Len(tokens)
         /\ \A t \in Ids : /\ tokens'[t].user = tokens[t].user
                           /\ tokens'[t].family = tokens[t].family
                           /\ tokens'[t].live = (tokens[t].live /\ t \notin S)
<1>1. /\ Len(tokens) \in Nat /\ Ids = 1..Len(tokens)
      /\ \A t \in Ids : tokens[t] \in TokenRecords
  BY TokensShape
<1>2. tokens' \in [1..Len(tokens) -> TokenRecords]
  BY <1>1 DEF Revoked, TokenRecords
<1>3. tokens' \in Seq(TokenRecords)
  BY <1>1, <1>2, SeqDef
<1>4. Ids' = Ids
  BY <1>1, <1>2 DEF Ids
<1>5. Len(tokens') = Len(tokens)
  <2>1. Len(tokens') \in Nat /\ DOMAIN tokens' = 1..Len(tokens')
    BY <1>3, LenProperties
  <2>2. 1..Len(tokens') = 1..Len(tokens)
    BY <2>1, <1>2
  <2> QED
    BY <2>1, <2>2, <1>1
<1>6. \A t \in Ids : /\ tokens'[t].user = tokens[t].user
                     /\ tokens'[t].family = tokens[t].family
                     /\ tokens'[t].live = (tokens[t].live /\ t \notin S)
  <2> SUFFICES ASSUME NEW t \in Ids
               PROVE  /\ tokens'[t].user = tokens[t].user
                      /\ tokens'[t].family = tokens[t].family
                      /\ tokens'[t].live = (tokens[t].live /\ t \notin S)
    OBVIOUS
  <2>1. tokens'[t] = IF t \in S THEN [tokens[t] EXCEPT !.live = FALSE] ELSE tokens[t]
    BY DEF Revoked
  <2>2. tokens[t] \in [user : Users, family : 1..MaxTokens, live : BOOLEAN]
    BY <1>1 DEF TokenRecords
  <2>3. CASE t \in S
    BY <2>1, <2>2, <2>3
  <2>4. CASE t \notin S
    BY <2>1, <2>2, <2>4
  <2> QED
    BY <2>3, <2>4
<1>7. \A t \in Ids : tokens'[t].family \in Ids
                     /\ tokens'[tokens'[t].family].user = tokens'[t].user
  BY <1>6 DEF TokensOK, Family
<1> QED
  BY <1>3, <1>4, <1>5, <1>6, <1>7 DEF TokensOK, Family

\* A sign-in opens a family and a rotation carries one on.
LEMMA IssueShape ==
  ASSUME TokensOK, NEW u \in Users, NEW f \in 1..(Len(tokens) + 1), Issue(u, f),
         f \in Ids => tokens[f].user = u
  PROVE  /\ TokensOK' /\ Len(tokens') = Len(tokens) + 1
         /\ Ids' = Ids \cup {Len(tokens) + 1}
         /\ \A t \in Ids : tokens'[t] = tokens[t]
         /\ tokens'[Len(tokens) + 1] = [user |-> u, family |-> f, live |-> TRUE]
<1> DEFINE n == Len(tokens)
           r == [user |-> u, family |-> f, live |-> TRUE]
<1>1. /\ n \in Nat /\ Ids = 1..n /\ n < MaxTokens /\ MaxTokens \in Nat
      /\ tokens \in Seq(TokenRecords) /\ tokens' = Append(tokens, r)
  BY TokensShape, AccountsAssumption DEF Issue, TokensOK
<1>2. r \in TokenRecords
  BY <1>1 DEF TokenRecords
<1>3. /\ tokens' \in Seq(TokenRecords) /\ Len(tokens') = n + 1
      /\ \A t \in 1..n : tokens'[t] = tokens[t]
      /\ tokens'[n + 1] = r
  BY <1>1, <1>2, AppendProperties
<1>4. Ids' = 1..(n + 1)
  BY <1>3, LenProperties DEF Ids
<1>5. Ids' = Ids \cup {n + 1}
  BY <1>1, <1>4
<1>6. ASSUME NEW t \in Ids'
      PROVE  tokens'[t].family \in Ids' /\ tokens'[tokens'[t].family].user = tokens'[t].user
  <2>1. CASE t \in Ids
    <3>1. tokens[t].family \in Ids /\ tokens[tokens[t].family].user = tokens[t].user
      BY <2>1 DEF TokensOK, Family
    <3> QED
      BY <2>1, <3>1, <1>1, <1>3, <1>5
  <2>2. CASE t = n + 1
    <3>1. tokens'[t].family = f /\ tokens'[t].user = u /\ f \in Ids'
      BY <2>2, <1>3, <1>4
    <3>2. CASE f = n + 1
      BY <3>1, <3>2, <2>2
    <3>3. CASE f \in Ids
      BY <3>1, <3>3, <1>1, <1>3
    <3> QED
      BY <3>1, <3>2, <3>3, <1>5
  <2> QED
    BY <1>5, <1>6, <2>1, <2>2
<1> HIDE DEF r
<1>7. Len(tokens') \in 1..MaxTokens
  BY <1>1, <1>3
<1>8. TokensOK'
  BY <1>3, <1>6, <1>7 DEF TokensOK, Family
<1> QED
  BY <1>1, <1>3, <1>5, <1>8 DEF r

-----------------------------------------------------------------------------
(* What a step does to the tokens and to the calls past their check.         *)

\* No token appears, none comes back to life.
TokensKeep ==
  /\ Ids' = Ids /\ Len(tokens') = Len(tokens)
  /\ \A t \in Ids : /\ tokens'[t].user = tokens[t].user
                    /\ tokens'[t].family = tokens[t].family
                    /\ tokens'[t].live => tokens[t].live

\* No rotation wins its claim.
NoNewClaim ==
  \A d \in Calls : call'[d].op = "rotate" /\ call'[d].at = "issue" => call'[d] = call[d]

\* A sign-in or a rotation past its check of the status.
PastCheck(r) == r.op \in {"login", "rotate"} /\ r.at \in {"link", "claim", "issue"}

\* Whoever gets past the check is active at that moment.
Checked(r, s) ==
  PastCheck(s) => \/ PastCheck(r) /\ r.user = s.user
                  \/ status[s.user] = "ACTIVE" /\ UNCHANGED status
CheckHolds == \A d \in Calls : Checked(call[d], call'[d])

\* The steps other than the issue of a token and the claim of one.
Weakens == TokensKeep /\ NoNewClaim

LEMMA RevocationKeeps ==
  ASSUME TokensOK, NEW S, tokens' = Revoked(S)
  PROVE  TokensOK' /\ TokensKeep
  BY RevokedShape DEF TokensKeep

LEMMA UnchangedKeeps ==
  ASSUME TokensOK, UNCHANGED tokens
  PROVE  TokensOK' /\ TokensKeep
  BY DEF TokensOK, TokensKeep, Ids, Family

\* One call is rewritten, its record being r.
LEMMA CallStep ==
  ASSUME CallsOK, NEW c \in Calls, NEW r, GoodCall(r, tokens),
         call' = [call EXCEPT ![c] = r],
         Ids \subseteq Ids', \A t \in Ids : tokens'[t].user = tokens[t].user
  PROVE  /\ CallsOK'
         /\ Checked(call[c], r) => CheckHolds
         /\ ~(r.op = "rotate" /\ r.at = "issue") => NoNewClaim
<1>1. \A d \in Calls : call'[d] = IF d = c THEN r ELSE call[d]
  BY DEF CallsOK
<1>2. call' \in [Calls -> CallRecords]
  BY DEF CallsOK, GoodCall
<1>3. ASSUME NEW s, GoodCall(s, tokens) PROVE GoodCall(s, tokens')
  BY <1>3 DEF GoodCall, Ids
<1>4. CallsOK'
  BY <1>1, <1>2, <1>3 DEF CallsOK
<1>5. \A s : Checked(s, s)
  BY DEF Checked
<1> QED
  BY <1>1, <1>4, <1>5 DEF CheckHolds, NoNewClaim

LEMMA CallKept ==
  ASSUME CallsOK, UNCHANGED call,
         Ids \subseteq Ids', \A t \in Ids : tokens'[t].user = tokens[t].user
  PROVE  CallsOK' /\ CheckHolds /\ NoNewClaim
<1>1. \A s : Checked(s, s)
  BY DEF Checked
<1>2. ASSUME NEW s, GoodCall(s, tokens) PROVE GoodCall(s, tokens')
  BY <1>2 DEF GoodCall, Ids
<1> QED
  BY <1>1, <1>2 DEF CallsOK, CheckHolds, NoNewClaim

\* The slot of a call that ends.
LEMMA IdleGood == GoodCall(Idle, tokens) /\ ~PastCheck(Idle)
  BY AccountsAssumption DEF GoodCall, Idle, CallRecords, PastCheck, Users

\* A call that goes on to another of its steps.
LEMMA GoGood ==
  ASSUME CallsOK, NEW c \in Calls,
         NEW a \in {"", "link", "issue", "claim", "burn", "write", "revoke"},
         call[c].op = "rotate" => a \in {"claim", "burn", "issue"},
         Go(c, a)
  PROVE  /\ call' = [call EXCEPT ![c] = [call[c] EXCEPT !.at = a]]
         /\ GoodCall([call[c] EXCEPT !.at = a], tokens)
<1>1. call[c] \in CallRecords /\ GoodCall(call[c], tokens)
  BY DEF CallsOK
<1> DEFINE r == [call[c] EXCEPT !.at = a]
<1>2. r \in CallRecords
  BY <1>1 DEF CallRecords
<1>3. r.op = call[c].op /\ r.at = a /\ r.token = call[c].token /\ r.user = call[c].user
      /\ r.next = call[c].next
  BY <1>1 DEF CallRecords
<1>4. call' = [call EXCEPT ![c] = r]
  BY DEF Go
<1> HIDE DEF r
<1>5. GoodCall(r, tokens)
  BY <1>1, <1>2, <1>3 DEF GoodCall
<1> QED
  BY <1>4, <1>5 DEF r

\* Ends, and steps that revoke and go on, weaken.
LEMMA EndStep ==
  ASSUME CallsOK, NEW c \in Calls, End(c),
         Ids \subseteq Ids', \A t \in Ids : tokens'[t].user = tokens[t].user
  PROVE  CallsOK' /\ CheckHolds /\ NoNewClaim
<1>1. Checked(call[c], Idle) /\ ~(Idle.op = "rotate" /\ Idle.at = "issue")
  BY IdleGood DEF Checked, Idle
<1>2. call' = [call EXCEPT ![c] = Idle]
  BY DEF End
<1> QED
  BY <1>1, <1>2, IdleGood, CallStep

-----------------------------------------------------------------------------
(* The steps that open a call.                                               *)

\* A call opened with the record r.
Opens(c, r) ==
  /\ call' = [call EXCEPT ![c] = r] /\ GoodCall(r, tokens)
  /\ Checked(call[c], r) /\ ~(r.op = "rotate" /\ r.at = "issue")

LEMMA StartOpens ==
  ASSUME TypeInv, NEW c \in Calls, Start(c)
  PROVE  UNCHANGED call \/ \E r : Opens(c, r)
<1> USE DEF Opens, Statuses
<1>i. /\ Owner \in Users /\ Verifiers \subseteq Users /\ MaxTokens \in Nat \ {0}
      /\ Idle \in CallRecords /\ Idle.router = NoRouter
  BY AccountsAssumption, IdleGood DEF Users, GoodCall, Idle
<1>1. ASSUME NEW u \in Users, StartLogin(c, u) PROVE \E r : Opens(c, r)
  <2>1. PICK at \in {"link", "issue"} : Opened(c, "login", at, u)
    BY <1>1 DEF StartLogin
  <2> DEFINE r == [Idle EXCEPT !.op = "login", !.at = at, !.user = u]
  <2>2. GoodCall(r, tokens) /\ r.user = u /\ r.op = "login"
    BY <1>i DEF GoodCall, CallRecords
  <2>3. call' = [call EXCEPT ![c] = r]
    BY <2>1 DEF Opened
  <2>4. status[u] = "ACTIVE" /\ UNCHANGED status
    BY <1>1 DEF StartLogin, accounts
  <2> QED
    BY <2>2, <2>3, <2>4 DEF Checked
<1>2. ASSUME NEW u \in Users, StartDeleteAccount(c, u)
      PROVE UNCHANGED call \/ \E r : Opens(c, r)
  <2> DEFINE others == \E o \in Users \ {u} : status[o] \in Statuses
             r == [Idle EXCEPT !.op = "deleteAccount", !.at = "write", !.user = u,
                               !.others = others]
  <2>1. GoodCall(r, tokens) /\ ~PastCheck(r)
    BY <1>i DEF GoodCall, CallRecords, PastCheck
  <2>2. UNCHANGED call \/ call' = [call EXCEPT ![c] = r]
    BY <1>2, Zenon DEF StartDeleteAccount
  <2>3. r.op = "deleteAccount"
    BY <1>i DEF CallRecords
  <2> HIDE DEF r
  <2> QED
    BY <2>1, <2>2, <2>3 DEF Checked
<1>3. ASSUME NEW t \in Ids, StartRotate(c, t)
      PROVE UNCHANGED call \/ \E r : Opens(c, r)
  <2> DEFINE at == IF tokens[t].live /\ MayRenew(tokens[t].user) THEN "claim" ELSE "burn"
             r == [Idle EXCEPT !.op = "rotate", !.user = tokens[t].user, !.token = t,
                               !.at = at]
  <2>1. t \in 0..MaxTokens /\ tokens[t].user \in Users
    BY TokensShape, <1>i DEF TypeInv, TokenRecords
  <2>2. GoodCall(r, tokens)
    BY <2>1, <1>i DEF GoodCall, CallRecords, Ids
  <2>3. r.op = "rotate" /\ r.at = at /\ r.user = tokens[t].user
    BY <1>i DEF CallRecords
  <2>4. UNCHANGED call \/ call' = [call EXCEPT ![c] = r]
    BY <1>3, Zenon DEF StartRotate
  <2>5. UNCHANGED status
    BY <1>3 DEF StartRotate, accounts
  <2> HIDE DEF r
  <2>6. Checked(call[c], r)
    BY <2>3, <2>5 DEF Checked, PastCheck, MayRenew
  <2> QED
    BY <2>2, <2>3, <2>4, <2>6
<1>4. ASSUME NEW u \in Users, NEW next \in Statuses,
             \/ StartSetUserStatus(c, u, next)
             \/ u \in Verifiers /\ StartSetStatus(c, u, next)
      PROVE \E r : Opens(c, r)
  <2>1. PICK op \in {"setUserStatus", "setStatus"} :
          call' = [call EXCEPT ![c] = [Idle EXCEPT !.op = op, !.at = "write",
                                                   !.user = u, !.next = next]]
    BY <1>4 DEF StartSetUserStatus, StartSetStatus
  <2> DEFINE r == [Idle EXCEPT !.op = op, !.at = "write", !.user = u, !.next = next]
  <2>2. GoodCall(r, tokens) /\ ~PastCheck(r) /\ r.op # "rotate"
    BY <1>i DEF GoodCall, CallRecords, PastCheck
  <2> QED
    BY <2>1, <2>2 DEF Checked
<1>5. ASSUME NEW next \in Statuses, StartSetTenantStatus(c, next)
      PROVE \E r : Opens(c, r)
  <2> DEFINE r == [Idle EXCEPT !.op = "setTenantStatus", !.at = "write", !.next = next]
  <2>1. GoodCall(r, tokens) /\ ~PastCheck(r) /\ r.op # "rotate"
    BY <1>i DEF GoodCall, CallRecords, PastCheck
  <2> QED
    BY <1>5, <2>1 DEF StartSetTenantStatus, Checked
<1>6. ASSUME NEW v \in Verifiers,
             \/ StartCreate(c, v) \/ StartUnassign(c, v) \/ StartSoftDelete(c, v)
             \/ \E router \in Routers : StartAssign(c, v, router)
      PROVE \E r : Opens(c, r)
  <2>1. assigned[v] \in Routers \cup {NoRouter}
    BY DEF TypeInv, DataOK
  <2>2. PICK op \in {"create", "assign", "unassign", "softDelete"},
             router \in Routers \cup {NoRouter} :
          call' = [call EXCEPT ![c] = [Idle EXCEPT !.op = op, !.at = "write",
                                                   !.user = v, !.router = router]]
    <3>1. CASE StartCreate(c, v)
      BY <3>1 DEF StartCreate
    <3>2. CASE StartUnassign(c, v)
      <4>1. [Idle EXCEPT !.op = "unassign", !.at = "write", !.user = v] =
            [Idle EXCEPT !.op = "unassign", !.at = "write", !.user = v, !.router = NoRouter]
        BY <1>i DEF CallRecords
      <4> QED
        BY <3>2, <4>1 DEF StartUnassign, Opened
    <3>3. CASE StartSoftDelete(c, v)
      BY <3>3, <2>1 DEF StartSoftDelete
    <3>4. CASE \E router \in Routers : StartAssign(c, v, router)
      BY <3>4 DEF StartAssign
    <3> QED
      BY <1>6, <3>1, <3>2, <3>3, <3>4
  <2> DEFINE r == [Idle EXCEPT !.op = op, !.at = "write", !.user = v, !.router = router]
  <2>3. GoodCall(r, tokens) /\ ~PastCheck(r) /\ r.op # "rotate"
    BY <1>i DEF GoodCall, CallRecords, PastCheck
  <2> QED
    BY <2>2, <2>3 DEF Checked
<1> QED
  BY <1>1, <1>2, <1>3, <1>4, <1>5, <1>6, <1>i DEF Start

LEMMA StartEffect ==
  ASSUME TypeInv, NEW c \in Calls, Start(c)
  PROVE  TypeInv' /\ CheckHolds /\ Weakens /\ ended' = ended
<1>1. UNCHANGED <<accounts, tokens, ended>>
  BY DEF Start, StartLogin, StartDeleteAccount, StartRotate, StartSetUserStatus,
     StartSetTenantStatus, StartCreate, StartUnassign, StartSoftDelete, StartAssign,
     StartSetStatus
<1>2. made' \in 0..MaxCalls
  <2>1. made < MaxCalls /\ made' = made + 1
    BY DEF Start, StartLogin, StartDeleteAccount, StartRotate, StartSetUserStatus,
       StartSetTenantStatus, StartCreate, StartUnassign, StartSoftDelete, StartAssign,
       StartSetStatus, Begin
  <2> QED
    BY <2>1, AccountsAssumption DEF TypeInv, DataOK
<1>3. DataOK'
  BY <1>1, <1>2 DEF TypeInv, DataOK, accounts
<1>4. TokensOK' /\ TokensKeep
  BY <1>1, UnchangedKeeps DEF TypeInv
<1>5. CallsOK' /\ CheckHolds /\ NoNewClaim
  <2>1. Ids \subseteq Ids' /\ \A t \in Ids : tokens'[t].user = tokens[t].user
    BY <1>4 DEF TokensKeep
  <2>2. CASE UNCHANGED call
    BY <2>1, <2>2, CallKept DEF TypeInv
  <2>3. ASSUME NEW r, Opens(c, r) PROVE CallsOK' /\ CheckHolds /\ NoNewClaim
    BY <2>1, <2>3, CallStep DEF TypeInv, Opens
  <2> QED
    BY <2>2, <2>3, StartOpens
<1> QED
  BY <1>1, <1>3, <1>4, <1>5 DEF TypeInv, Weakens

-----------------------------------------------------------------------------
(* The steps of a call under way.                                            *)

\* The steps that issue no token and win no claim.
Plain(c) ==
  \/ LinkIdentity(c) \/ (Claim(c) /\ ~tokens[call[c].token].live) \/ BurnFamily(c)
  \/ SetUserStatus(c) \/ RevokeSuspended(c) \/ SetTenantStatus(c) \/ RevokeTenant(c)
  \/ Create(c) \/ Assign(c) \/ Unassign(c) \/ SetStatus(c) \/ SoftDelete(c)
  \/ DeleteAccount(c)
Wins(c) == Claim(c) /\ tokens[call[c].token].live
Issues(c) == IssueSession(c) \/ IssueNext(c)

LEMMA ContinueSplit ==
  ASSUME NEW c \in Calls
  PROVE  Continue(c) <=> Plain(c) \/ Wins(c) \/ Issues(c)
  BY DEF Continue, Plain, Wins, Issues

LEMMA RotationToken ==
  ASSUME TypeInv, NEW c \in Calls, call[c].op = "rotate"
  PROVE  /\ call[c].token \in Ids /\ call[c].user = tokens[call[c].token].user
         /\ Family(call[c].token) \in Ids /\ Ids \subseteq 1..MaxTokens
         /\ tokens[Family(call[c].token)].user = call[c].user
  BY TokensShape DEF TypeInv, TokensOK, CallsOK, GoodCall, Ids

LEMMA PlainTokens ==
  ASSUME NEW c \in Calls, Plain(c)
  PROVE  UNCHANGED tokens \/ \E S : tokens' = Revoked(S)
<1>1. CASE LinkIdentity(c)
  BY <1>1 DEF LinkIdentity
<1>2. CASE Claim(c)
  BY <1>2 DEF Claim
<1>3. CASE BurnFamily(c)
  BY <1>3 DEF BurnFamily
<1>4. CASE SetUserStatus(c) \/ SetTenantStatus(c) \/ Create(c)
  BY <1>4 DEF SetUserStatus, SetTenantStatus, Create
<1>5. CASE RevokeSuspended(c) \/ RevokeTenant(c) \/ Assign(c) \/ DeleteAccount(c)
  BY <1>5 DEF RevokeSuspended, RevokeTenant, Assign, DeleteAccount
<1>6. CASE Unassign(c)
  BY <1>6 DEF Unassign
<1>7. CASE SetStatus(c)
  BY <1>7 DEF SetStatus
<1>8. CASE SoftDelete(c)
  BY <1>8 DEF SoftDelete
<1> QED
  BY <1>1, <1>2, <1>3, <1>4, <1>5, <1>6, <1>7, <1>8 DEF Plain

LEMMA PlainData ==
  ASSUME TypeInv, NEW c \in Calls, Plain(c)
  PROVE  DataOK'
<1>1. /\ status \in [Users -> UserStatuses] /\ tenant \in Statuses \cup {"DELETED"}
      /\ assigned \in [Verifiers -> Routers \cup {NoRouter}]
      /\ made \in 0..MaxCalls /\ ended \subseteq 1..MaxTokens
  BY DEF TypeInv, DataOK
<1>2. call[c] \in CallRecords /\ GoodCall(call[c], tokens)
  BY DEF TypeInv, CallsOK
<1>3. call[c].user \in Users /\ call[c].router \in Routers \cup {NoRouter}
  BY <1>2 DEF CallRecords
<1>4. call[c].op \in {"setUserStatus", "setTenantStatus", "setStatus"}
         => call[c].next \in Statuses
  BY <1>2 DEF GoodCall
<1>5. "ACTIVE" \in UserStatuses /\ "DELETED" \in UserStatuses /\ Statuses \subseteq UserStatuses
  BY DEF UserStatuses, Statuses
<1>6. made' = made
  BY DEF Plain, LinkIdentity, Claim, BurnFamily, SetUserStatus, RevokeSuspended,
     SetTenantStatus, RevokeTenant, Create, Assign, Unassign, SetStatus, SoftDelete,
     DeleteAccount
<1>7. ended' \subseteq 1..MaxTokens
  <2>1. CASE BurnFamily(c)
    <3>1. Family(call[c].token) \in 1..MaxTokens
      BY <2>1, RotationToken DEF BurnFamily, Is
    <3> QED
      BY <2>1, <3>1, <1>1 DEF BurnFamily
  <2>2. CASE ~BurnFamily(c)
    BY <2>2, <1>1 DEF Plain, LinkIdentity, Claim, SetUserStatus, RevokeSuspended,
       SetTenantStatus, RevokeTenant, Create, Assign, Unassign, SetStatus, SoftDelete,
       DeleteAccount
  <2> QED
    BY <2>1, <2>2
<1>8. tenant' \in Statuses \cup {"DELETED"}
  BY <1>1, <1>4 DEF Plain, LinkIdentity, Claim, BurnFamily, SetUserStatus,
     RevokeSuspended, SetTenantStatus, RevokeTenant, Create, Assign, Unassign,
     SetStatus, SoftDelete, DeleteAccount, accounts, Is
<1>9. status' \in [Users -> UserStatuses]
  <2>1. CASE SetUserStatus(c) \/ SetStatus(c)
    BY <2>1, <1>1, <1>3, <1>4, <1>5 DEF SetUserStatus, SetStatus, Is
  <2>2. CASE Create(c)
    BY <2>2, <1>1, <1>3, <1>5 DEF Create, accounts
  <2>3. CASE SoftDelete(c) \/ DeleteAccount(c)
    BY <2>3, <1>1, <1>3, <1>5 DEF SoftDelete, DeleteAccount
  <2>4. CASE UNCHANGED status
    BY <2>4, <1>1
  <2> QED
    BY <2>1, <2>2, <2>3, <2>4 DEF Plain, LinkIdentity, Claim, BurnFamily,
       RevokeSuspended, SetTenantStatus, RevokeTenant, Assign, Unassign, accounts
<1>10. assigned' \in [Verifiers -> Routers \cup {NoRouter}]
  <2>1. CASE Create(c)
    BY <2>1, <1>1, <1>3 DEF Create, accounts
  <2>2. CASE Assign(c) \/ Unassign(c) \/ SoftDelete(c)
    BY <2>2, <1>1, <1>3 DEF Assign, Unassign, SoftDelete
  <2>3. CASE UNCHANGED assigned
    BY <2>3, <1>1
  <2> QED
    BY <2>1, <2>2, <2>3 DEF Plain, LinkIdentity, Claim, BurnFamily, SetUserStatus,
       RevokeSuspended, SetTenantStatus, RevokeTenant, SetStatus, DeleteAccount, accounts
<1> QED
  BY <1>1, <1>6, <1>7, <1>8, <1>9, <1>10 DEF DataOK

\* A plain step ends its call or takes it on, past no check.
LEMMA PlainCall ==
  ASSUME TypeInv, NEW c \in Calls, Plain(c)
  PROVE  \/ End(c)
         \/ Go(c, "burn") /\ call[c].op = "rotate"
         \/ Go(c, "revoke") /\ call[c].op \notin {"login", "rotate"}
         \/ Go(c, "issue") /\ call[c].op = "login" /\ call[c].at = "link"
  BY Zenon DEF Plain, LinkIdentity, Claim, BurnFamily, SetUserStatus, RevokeSuspended,
     SetTenantStatus, RevokeTenant, Create, Assign, Unassign, SetStatus, SoftDelete,
     DeleteAccount, Is

LEMMA PlainEffect ==
  ASSUME TypeInv, NEW c \in Calls, Plain(c)
  PROVE  TypeInv' /\ CheckHolds /\ Weakens
<1>1. TokensOK' /\ TokensKeep
  BY PlainTokens, RevocationKeeps, UnchangedKeeps DEF TypeInv
<1>2. Ids \subseteq Ids' /\ \A t \in Ids : tokens'[t].user = tokens[t].user
  BY <1>1 DEF TokensKeep
<1>3. CallsOK
  BY DEF TypeInv
<1>4. CallsOK' /\ CheckHolds /\ NoNewClaim
  <2>1. CASE End(c)
    BY <2>1, <1>2, <1>3, EndStep
  <2>2. ASSUME NEW a \in {"burn", "revoke", "issue"}, Go(c, a),
               a = "burn" => call[c].op = "rotate",
               a = "revoke" => call[c].op \notin {"login", "rotate"},
               a = "issue" => call[c].op = "login" /\ call[c].at = "link"
        PROVE  CallsOK' /\ CheckHolds /\ NoNewClaim
    <3> DEFINE r == [call[c] EXCEPT !.at = a]
    <3>1. call' = [call EXCEPT ![c] = r] /\ GoodCall(r, tokens)
      BY <2>2, <1>3, GoGood
    <3>2. call[c] \in CallRecords
      BY <1>3 DEF CallsOK
    <3>3. r.op = call[c].op /\ r.at = a /\ r.user = call[c].user
      BY <3>2 DEF CallRecords
    <3> HIDE DEF r
    <3>4. Checked(call[c], r) /\ ~(r.op = "rotate" /\ r.at = "issue")
      BY <2>2, <3>3 DEF Checked, PastCheck
    <3> QED
      BY <3>1, <3>4, <1>2, <1>3, CallStep
  <2> QED
    BY <2>1, <2>2, PlainCall
<1> QED
  BY <1>1, <1>4, PlainData DEF TypeInv, Weakens

\* The winner of a claim: its token is spent and it is about to issue another.
LEMMA WinEffect ==
  ASSUME TypeInv, NEW c \in Calls, Wins(c)
  PROVE  /\ TypeInv' /\ CheckHolds /\ TokensKeep /\ ended' = ended
         /\ call[c].op = "rotate" /\ call[c].at = "claim"
         /\ tokens[call[c].token].live /\ ~tokens'[call[c].token].live
         /\ call'[c].token = call[c].token
         /\ \A d \in Calls \ {c} : call'[d] = call[d]
<1>1. /\ call[c].op = "rotate" /\ call[c].at = "claim" /\ tokens[call[c].token].live
      /\ tokens' = Revoked({call[c].token}) /\ Go(c, "issue")
      /\ UNCHANGED <<accounts, made, ended>>
  BY DEF Wins, Claim, Is
<1>2. CallsOK /\ TokensOK /\ DataOK
  BY DEF TypeInv
<1>3. TokensOK' /\ TokensKeep
  BY <1>1, <1>2, RevocationKeeps
<1>4. call[c].token \in Ids /\ ~tokens'[call[c].token].live
  BY <1>1, <1>2, RotationToken, RevokedShape
<1> DEFINE r == [call[c] EXCEPT !.at = "issue"]
<1>5. call' = [call EXCEPT ![c] = r] /\ GoodCall(r, tokens)
  BY <1>1, <1>2, GoGood
<1>6. call[c] \in CallRecords
  BY <1>2 DEF CallsOK
<1>7. r.op = "rotate" /\ r.user = call[c].user /\ r.token = call[c].token
  BY <1>1, <1>6 DEF CallRecords
<1>8. \A d \in Calls : call'[d] = IF d = c THEN r ELSE call[d]
  BY <1>2, <1>5 DEF CallsOK
<1> HIDE DEF r
<1>9. Checked(call[c], r)
  BY <1>1, <1>7 DEF Checked, PastCheck
<1>10. CallsOK' /\ CheckHolds
  BY <1>2, <1>3, <1>5, <1>9, CallStep DEF TokensKeep
<1>11. DataOK'
  BY <1>1, <1>2 DEF DataOK, accounts
<1> QED
  BY <1>1, <1>3, <1>4, <1>7, <1>8, <1>10, <1>11 DEF TypeInv

\* A call past its check ends and leaves a token: of a new family after a
\* sign-in, of the claimed token's family after a rotation.
LEMMA IssueEffect ==
  ASSUME TypeInv, NEW c \in Calls, Issues(c)
  PROVE  LET n == Len(tokens) + 1 IN
         /\ TypeInv' /\ CheckHolds /\ NoNewClaim /\ ended' = ended /\ call'[c] = Idle
         /\ UNCHANGED status /\ PastCheck(call[c]) /\ call[c].at = "issue"
         /\ Ids' = Ids \cup {n} /\ n \notin Ids /\ n \in Nat
         /\ \A t \in Ids : tokens'[t] = tokens[t]
         /\ tokens'[n].user = call[c].user
         /\ \/ call[c].op = "login" /\ tokens'[n].family = n
            \/ call[c].op = "rotate" /\ tokens'[n].family = Family(call[c].token)
<1> DEFINE n == Len(tokens) + 1
           u == call[c].user
<1>1. CallsOK /\ TokensOK /\ DataOK
  BY DEF TypeInv
<1>2. /\ Len(tokens) \in Nat /\ Ids = 1..Len(tokens) /\ n \notin Ids
      /\ u \in Users
  <2>1. Len(tokens) \in Nat /\ Ids = 1..Len(tokens)
    BY <1>1, TokensShape
  <2>2. n \notin Ids
    BY <2>1
  <2>3. u \in Users
    BY <1>1 DEF CallsOK, CallRecords
  <2> QED
    BY <2>1, <2>2, <2>3
<1>3. PICK f \in 1..n :
        /\ Issue(u, f) /\ (f \in Ids => tokens[f].user = u)
        /\ \/ call[c].op = "login" /\ f = n
           \/ call[c].op = "rotate" /\ f = Family(call[c].token)
  <2>1. CASE IssueSession(c)
    <3>1. n \in 1..n /\ n \notin Ids /\ Issue(u, n) /\ call[c].op = "login"
      BY <2>1, <1>2 DEF IssueSession, Is
    <3> QED
      BY <3>1
  <2>2. CASE IssueNext(c)
    <3>1. /\ Issue(u, Family(call[c].token)) /\ call[c].op = "rotate"
          /\ Family(call[c].token) \in Ids
          /\ tokens[Family(call[c].token)].user = u
      BY <2>2, RotationToken DEF IssueNext, Is
    <3>2. Family(call[c].token) \in 1..n
      BY <3>1, <1>2
    <3> QED
      BY <3>1, <3>2
  <2> QED
    BY <2>1, <2>2 DEF Issues
<1>4. End(c) /\ UNCHANGED <<accounts, made, ended>> /\ call[c].at = "issue"
  BY DEF Issues, IssueSession, IssueNext, Is
<1>5. /\ TokensOK' /\ Ids' = Ids \cup {n} /\ \A t \in Ids : tokens'[t] = tokens[t]
      /\ tokens'[n] = [user |-> u, family |-> f, live |-> TRUE]
  <2>1. Issue(u, f) /\ (f \in Ids => tokens[f].user = u)
    BY <1>3
  <2>2. f \in 1..(Len(tokens) + 1)
    OBVIOUS
  <2> QED
    BY <1>1, <1>2, <2>1, <2>2, IssueShape
<1>6. CallsOK' /\ CheckHolds /\ NoNewClaim
  BY <1>1, <1>4, <1>5, EndStep
<1>7. call'[c] = Idle
  BY <1>1, <1>4 DEF End, CallsOK
<1>8. DataOK'
  BY <1>1, <1>4 DEF DataOK, accounts
<1>9. tokens'[n].user = u /\ tokens'[n].family = f
  BY <1>5
<1> QED
  BY <1>2, <1>3, <1>4, <1>5, <1>6, <1>7, <1>8, <1>9 DEF TypeInv, accounts, PastCheck

\* Logout and the revocation of all the sessions of a user.
LEMMA StatementEffect ==
  ASSUME TypeInv,
         (\E t \in Ids : Logout(t)) \/ (\E u \in Users : RevokeAllSessions(u))
  PROVE  TypeInv' /\ CheckHolds /\ Weakens /\ ended' = ended
<1>1. PICK S : tokens' = Revoked(S)
  BY DEF Logout, RevokeAllSessions
<1>2. UNCHANGED <<accounts, call, ended>> /\ made < MaxCalls /\ made' = made + 1
  BY DEF Logout, RevokeAllSessions
<1>3. TokensOK' /\ TokensKeep
  BY <1>1, RevocationKeeps DEF TypeInv
<1>4. CallsOK' /\ CheckHolds /\ NoNewClaim
  BY <1>2, <1>3, CallKept DEF TypeInv, TokensKeep
<1>5. DataOK'
  BY <1>2, AccountsAssumption DEF TypeInv, DataOK, accounts
<1> QED
  BY <1>2, <1>3, <1>4, <1>5 DEF TypeInv, Weakens

LEMMA FailureEffect ==
  ASSUME TypeInv, NEW c \in Calls, Fails(c)
  PROVE  TypeInv' /\ CheckHolds /\ Weakens /\ ended' = ended
<1>1. UNCHANGED <<accounts, tokens, made, ended>> /\ End(c)
  BY DEF Fails
<1>2. TokensOK' /\ TokensKeep
  BY <1>1, UnchangedKeeps DEF TypeInv
<1>3. CallsOK' /\ CheckHolds /\ NoNewClaim
  BY <1>1, <1>2, EndStep DEF TypeInv, TokensKeep
<1>4. DataOK'
  BY <1>1 DEF TypeInv, DataOK, accounts
<1> QED
  BY <1>1, <1>2, <1>3, <1>4 DEF TypeInv, Weakens

LEMMA StutterEffect ==
  ASSUME TypeInv, UNCHANGED vars
  PROVE  TypeInv' /\ CheckHolds /\ Weakens /\ ended' = ended
<1>1. TokensOK' /\ TokensKeep
  BY UnchangedKeeps DEF TypeInv, vars
<1>2. CallsOK' /\ CheckHolds /\ NoNewClaim
  BY <1>1, CallKept DEF TypeInv, TokensKeep, vars
<1>3. DataOK'
  BY DEF TypeInv, DataOK, vars, accounts
<1> QED
  BY <1>1, <1>2, <1>3 DEF TypeInv, Weakens, vars

\* Every step weakens, wins a claim or issues a token.
LEMMA StepKinds ==
  ASSUME TypeInv, [Next]_vars
  PROVE  \/ TypeInv' /\ CheckHolds /\ Weakens
         \/ \E c \in Calls : Wins(c)
         \/ \E c \in Calls : Issues(c)
<1>1. ASSUME NEW c \in Calls, Continue(c)
      PROVE  \/ TypeInv' /\ CheckHolds /\ Weakens
             \/ Wins(c) \/ Issues(c)
  BY <1>1, ContinueSplit, PlainEffect
<1> QED
  BY <1>1, StartEffect, FailureEffect, StatementEffect, StutterEffect DEF Next

-----------------------------------------------------------------------------
(* Types.                                                                    *)

LEMMA TypeParts == TypeInv => TypeOK
<1> SUFFICES ASSUME TypeInv PROVE TypeOK
  OBVIOUS
<1>1. ASSUME NEW c \in Calls, call[c].op = "rotate"
      PROVE  /\ call[c].token \in Ids /\ call[c].user = tokens[call[c].token].user
             /\ call[c].at \in {"claim", "burn", "issue"}
  BY <1>1 DEF TypeInv, CallsOK, GoodCall, Ids
<1> QED
  BY <1>1 DEF TypeInv, DataOK, TokensOK, CallsOK, TypeOK, TokenRecords

LEMMA TypeInit == Init => TypeInv
<1> SUFFICES ASSUME Init PROVE TypeInv
  OBVIOUS
<1>1. DataOK
  BY AccountsAssumption DEF Init, DataOK, UserStatuses, Statuses
<1>2. TokensOK
  <2> DEFINE r == [user |-> Owner, family |-> 1, live |-> TRUE]
  <2>1. r \in TokenRecords /\ 1 \in 1..MaxTokens
    BY AccountsAssumption DEF TokenRecords, Users
  <2>2. tokens = <<r>>
    BY DEF Init
  <2>3. tokens \in Seq(TokenRecords) /\ Len(tokens) = 1 /\ Ids = {1} /\ tokens[1] = r
    BY <2>1, <2>2 DEF Ids
  <2> QED
    BY <2>1, <2>3 DEF TokensOK, Family
<1>3. CallsOK
  BY IdleGood DEF Init, CallsOK, GoodCall
<1> QED
  BY <1>1, <1>2, <1>3 DEF TypeInv

LEMMA TypeStep == TypeInv /\ [Next]_vars => TypeInv'
  BY StepKinds, WinEffect, IssueEffect

LEMMA TypeAlways == Spec => []TypeInv
  BY TypeInit, TypeStep, PTL DEF Spec

\* Types are kept, the tokens of a family belong to one user and a rotation
\* names a token of its user.
THEOREM TypeCorrect == Spec => []TypeOK
<1>1. TypeInv => TypeOK
  BY TypeParts
<1> QED
  BY <1>1, TypeAlways, PTL

-----------------------------------------------------------------------------
(* Heirs.                                                                    *)

Holds(c) == call[c].op = "rotate" /\ call[c].at = "issue"
FamilyOf(c) == Family(call[c].token)

\* A family has one live token or one rotation about to issue, not both.
SoleHeir ==
  /\ \A t, u \in Ids :
       tokens[t].live /\ tokens[u].live /\ Family(t) = Family(u) => t = u
  /\ \A c, d \in Calls : Holds(c) /\ Holds(d) /\ FamilyOf(c) = FamilyOf(d) => c = d
  /\ \A t \in Ids, c \in Calls : tokens[t].live /\ Holds(c) => Family(t) # FamilyOf(c)

LEMMA SoleHeirInit == Init => SoleHeir
<1> SUFFICES ASSUME Init PROVE SoleHeir
  OBVIOUS
<1>1. Ids = {1}
  <2>1. tokens = <<[user |-> Owner, family |-> 1, live |-> TRUE]>>
    BY DEF Init
  <2> QED
    BY <2>1 DEF Ids
<1>2. \A c \in Calls : ~Holds(c)
  BY DEF Init, Holds, Idle
<1> QED
  BY <1>1, <1>2 DEF SoleHeir

\* The tokens and the rotations of a weakening step are some of those before it.
LEMMA WeakensHeirs ==
  ASSUME TypeInv, Weakens
  PROVE  /\ \A t \in Ids' : /\ t \in Ids /\ Family(t)' = Family(t)
                            /\ tokens'[t].live => tokens[t].live
         /\ \A c \in Calls : Holds(c)' => Holds(c) /\ FamilyOf(c)' = FamilyOf(c)
<1>1. \A t \in Ids' : /\ t \in Ids /\ Family(t)' = Family(t)
                      /\ tokens'[t].live => tokens[t].live
  BY DEF Weakens, TokensKeep, Family
<1>2. ASSUME NEW c \in Calls, Holds(c)' PROVE Holds(c) /\ FamilyOf(c)' = FamilyOf(c)
  <2>1. call'[c] = call[c] /\ Holds(c)
    BY <1>2 DEF Weakens, NoNewClaim, Holds
  <2>2. call[c].token \in Ids
    BY <2>1, RotationToken DEF Holds
  <2> QED
    BY <2>1, <2>2 DEF Weakens, TokensKeep, Family, FamilyOf
<1> QED
  BY <1>1, <1>2

\* The winner of a claim takes over from its token.
LEMMA WinsHeirs ==
  ASSUME TypeInv, NEW c \in Calls, Wins(c)
  PROVE  /\ call[c].token \in Ids /\ tokens[call[c].token].live
         /\ FamilyOf(c)' = FamilyOf(c) /\ FamilyOf(c) = Family(call[c].token)
         /\ ~tokens'[call[c].token].live
         /\ \A t \in Ids' : /\ t \in Ids /\ Family(t)' = Family(t)
                            /\ tokens'[t].live => tokens[t].live
         /\ \A d \in Calls \ {c} :
              Holds(d)' => Holds(d) /\ FamilyOf(d)' = FamilyOf(d)
<1>1. /\ TokensKeep /\ call[c].op = "rotate"
      /\ tokens[call[c].token].live /\ ~tokens'[call[c].token].live
      /\ call'[c].token = call[c].token
      /\ \A d \in Calls \ {c} : call'[d] = call[d]
  BY WinEffect
<1>2. call[c].token \in Ids
  BY <1>1, RotationToken
<1>3. \A t \in Ids' : /\ t \in Ids /\ Family(t)' = Family(t)
                      /\ tokens'[t].live => tokens[t].live
  BY <1>1 DEF TokensKeep, Family
<1>4. ASSUME NEW d \in Calls \ {c}, Holds(d)'
      PROVE  Holds(d) /\ FamilyOf(d)' = FamilyOf(d)
  <2>1. call'[d] = call[d] /\ Holds(d)
    BY <1>1, <1>4 DEF Holds
  <2>2. call[d].token \in Ids
    BY <2>1, RotationToken DEF Holds
  <2> QED
    BY <1>1, <2>1, <2>2 DEF TokensKeep, Family, FamilyOf
<1> QED
  BY <1>1, <1>2, <1>3, <1>4 DEF FamilyOf, TokensKeep, Family

\* The token issued by a rotation takes over from it, and a new one is alone in
\* its family.
LEMMA IssuesHeirs ==
  ASSUME TypeInv, NEW c \in Calls, Issues(c)
  PROVE  LET n == Len(tokens) + 1 IN
         /\ Ids' = Ids \cup {n} /\ n \notin Ids
         /\ \A t \in Ids : Family(t)' = Family(t) /\ tokens'[t].live = tokens[t].live
         /\ ~Holds(c)'
         /\ \A d \in Calls :
              Holds(d)' => Holds(d) /\ FamilyOf(d)' = FamilyOf(d) /\ FamilyOf(d) \in Ids
         /\ \/ tokens'[n].family = n
            \/ Holds(c) /\ tokens'[n].family = FamilyOf(c)
<1> DEFINE n == Len(tokens) + 1
<1>1. /\ NoNewClaim /\ call'[c] = Idle /\ call[c].at = "issue"
      /\ Ids' = Ids \cup {n} /\ n \notin Ids
      /\ \A t \in Ids : tokens'[t] = tokens[t]
      /\ \/ call[c].op = "login" /\ tokens'[n].family = n
         \/ call[c].op = "rotate" /\ tokens'[n].family = Family(call[c].token)
  BY IssueEffect
<1>2. ~Holds(c)'
  <2>1. call'[c] = Idle /\ Idle.op = "idle"
    BY <1>1 DEF Idle
  <2> QED
    BY <2>1 DEF Holds
<1>3. ASSUME NEW d \in Calls, Holds(d)'
      PROVE  Holds(d) /\ FamilyOf(d)' = FamilyOf(d) /\ FamilyOf(d) \in Ids
  <2>1. call'[d] = call[d] /\ Holds(d)
    BY <1>1, <1>3 DEF NoNewClaim, Holds
  <2>2. call[d].token \in Ids /\ FamilyOf(d) \in Ids
    BY <2>1, RotationToken DEF Holds, FamilyOf
  <2> QED
    BY <1>1, <2>1, <2>2 DEF Family, FamilyOf
<1>4. \A t \in Ids : Family(t)' = Family(t) /\ tokens'[t].live = tokens[t].live
  BY <1>1 DEF Family
<1>5. tokens'[n].family = n \/ (Holds(c) /\ tokens'[n].family = FamilyOf(c))
  BY <1>1 DEF Holds, FamilyOf
<1> QED
  BY <1>1, <1>2, <1>3, <1>4, <1>5

LEMMA SoleHeirStep == TypeInv /\ SoleHeir /\ [Next]_vars => SoleHeir'
<1> SUFFICES ASSUME TypeInv, SoleHeir, [Next]_vars PROVE SoleHeir'
  OBVIOUS
<1>1. CASE Weakens
  BY <1>1, WeakensHeirs DEF SoleHeir
<1>2. ASSUME NEW c \in Calls, Wins(c) PROVE SoleHeir'
  BY <1>2, WinsHeirs DEF SoleHeir
<1>3. ASSUME NEW c \in Calls, Issues(c) PROVE SoleHeir'
  <2> DEFINE n == Len(tokens) + 1
  <2>1. /\ Ids' = Ids \cup {n} /\ n \notin Ids
        /\ \A t \in Ids : Family(t)' = Family(t) /\ tokens'[t].live = tokens[t].live
        /\ ~Holds(c)'
        /\ \A d \in Calls :
             Holds(d)' => Holds(d) /\ FamilyOf(d)' = FamilyOf(d) /\ FamilyOf(d) \in Ids
        /\ \/ tokens'[n].family = n
           \/ Holds(c) /\ tokens'[n].family = FamilyOf(c)
    BY <1>3, IssuesHeirs
  <2>2. \A t \in Ids : Family(t) \in Ids
    BY DEF TypeInv, TokensOK
  <2> HIDE DEF n
  <2>3. \A t \in Ids : tokens[t].live => Family(t)' # tokens'[n].family
    BY <2>1, <2>2 DEF SoleHeir
  <2>4. \A d \in Calls : Holds(d)' => FamilyOf(d)' # tokens'[n].family
    BY <2>1 DEF SoleHeir
  <2>5. ASSUME NEW t \in Ids', NEW u \in Ids', tokens'[t].live, tokens'[u].live,
               Family(t)' = Family(u)'
        PROVE  t = u
    <3>1. CASE t \in Ids /\ u \in Ids
      BY <3>1, <2>1, <2>5 DEF SoleHeir
    <3>2. CASE t = n \/ u = n
      BY <3>2, <2>1, <2>3, <2>5 DEF Family
    <3> QED
      BY <3>1, <3>2, <2>1
  <2>6. ASSUME NEW d \in Calls, NEW e \in Calls, Holds(d)', Holds(e)',
               FamilyOf(d)' = FamilyOf(e)'
        PROVE  d = e
    BY <2>1, <2>6 DEF SoleHeir
  <2>7. ASSUME NEW t \in Ids', NEW d \in Calls, tokens'[t].live, Holds(d)'
        PROVE  Family(t)' # FamilyOf(d)'
    <3>1. CASE t \in Ids
      BY <3>1, <2>1, <2>7 DEF SoleHeir
    <3>2. CASE t = n
      BY <3>2, <2>4, <2>7 DEF Family
    <3> QED
      BY <3>1, <3>2, <2>1
  <2> QED
    BY <2>5, <2>6, <2>7 DEF SoleHeir
<1> QED
  BY <1>1, <1>2, <1>3, StepKinds

LEMMA SoleHeirAlways == Spec => [](TypeInv /\ SoleHeir)
<1>1. Init => TypeInv /\ SoleHeir
  BY TypeInit, SoleHeirInit
<1>2. TypeInv /\ SoleHeir /\ [Next]_vars => (TypeInv /\ SoleHeir)'
  BY TypeStep, SoleHeirStep
<1> QED
  BY <1>1, <1>2, PTL DEF Spec

\* A set whose elements are all equal has one at most.
LEMMA AtMostOne ==
  ASSUME NEW S, \A x, y \in S : x = y
  PROVE  (S = {} /\ Cardinality(S) = 0) \/ Cardinality(S) = 1
<1>1. CASE S = {}
  BY <1>1, FS_EmptySet
<1>2. ASSUME NEW x \in S PROVE Cardinality(S) = 1
  <2>1. S = {x}
    BY <1>2
  <2> QED
    BY <2>1, FS_Singleton
<1> QED
  BY <1>1, <1>2

\* Whatever is replayed, raced or revoked, a family has one heir: a live token
\* or a rotation about to issue it.  (token.service.ts, rotate)
THEOREM OneHeirCorrect == Spec => []OneHeirPerFamily
<1>1. SoleHeir => OneHeirPerFamily
  <2> SUFFICES ASSUME SoleHeir, NEW f
               PROVE  Cardinality(Live(f)) + Cardinality(Claimed(f)) <= 1
    BY DEF OneHeirPerFamily
  <2>1. \A x, y \in Live(f) : x = y
    BY DEF Live, SoleHeir
  <2>2. \A x, y \in Claimed(f) : x = y
    BY DEF Claimed, Is, SoleHeir, Holds, FamilyOf
  <2>3. Live(f) = {} \/ Claimed(f) = {}
    BY DEF Live, Claimed, Is, SoleHeir, Holds, FamilyOf
  <2>4. Cardinality(Live(f)) \in {0, 1} /\ (Live(f) = {} => Cardinality(Live(f)) = 0)
    BY <2>1, AtMostOne, FS_EmptySet
  <2>5. /\ Cardinality(Claimed(f)) \in {0, 1}
        /\ Claimed(f) = {} => Cardinality(Claimed(f)) = 0
    BY <2>2, AtMostOne, FS_EmptySet
  <2> QED
    BY <2>3, <2>4, <2>5
<1> QED
  BY <1>1, SoleHeirAlways, PTL

-----------------------------------------------------------------------------
(* The end of a family.                                                      *)

Families == {Family(t) : t \in Ids}
Over(f) == Live(f) = {} /\ Claimed(f) = {}

LEMMA OverMeans ==
  ASSUME NEW f
  PROVE  Over(f) <=> /\ \A t \in Ids : Family(t) = f => ~tokens[t].live
                     /\ \A c \in Calls : Holds(c) => FamilyOf(c) # f
  BY DEF Over, Live, Claimed, Is, Holds, FamilyOf

LEMMA OverMeansNext ==
  ASSUME NEW f
  PROVE  Over(f)' <=> /\ \A t \in Ids' : Family(t)' = f => ~tokens'[t].live
                      /\ \A c \in Calls : Holds(c)' => FamilyOf(c)' # f
  BY DEF Over, Live, Claimed, Is, Holds, FamilyOf

LEMMA OverStays ==
  ASSUME TypeInv, [Next]_vars, NEW f \in Families, Over(f)
  PROVE  Over(f)' /\ f \in Families'
<1>1. /\ \A t \in Ids : Family(t) = f => ~tokens[t].live
      /\ \A c \in Calls : Holds(c) => FamilyOf(c) # f
  BY OverMeans
<1>2. PICK s \in Ids : Family(s) = f
  BY DEF Families
<1>3. CASE Weakens
  <2>1. f \in Families'
    BY <1>2, <1>3 DEF Families, Weakens, TokensKeep, Family
  <2>2. Over(f)'
    BY <1>1, <1>3, WeakensHeirs, OverMeansNext
  <2> QED
    BY <2>1, <2>2
<1>4. ASSUME NEW c \in Calls, Wins(c) PROVE Over(f)' /\ f \in Families'
  <2>1. f \in Families'
    BY <1>2, <1>4, WinEffect DEF Families, TokensKeep, Family
  <2>2. FamilyOf(c) # f
    BY <1>1, <1>4, WinsHeirs
  <2>3. Over(f)'
    BY <1>1, <1>4, <2>2, WinsHeirs, OverMeansNext
  <2> QED
    BY <2>1, <2>3
<1>5. ASSUME NEW c \in Calls, Issues(c) PROVE Over(f)' /\ f \in Families'
  <2> DEFINE n == Len(tokens) + 1
  <2>1. /\ Ids' = Ids \cup {n} /\ n \notin Ids
        /\ \A t \in Ids : Family(t)' = Family(t) /\ tokens'[t].live = tokens[t].live
        /\ \A d \in Calls :
             Holds(d)' => Holds(d) /\ FamilyOf(d)' = FamilyOf(d) /\ FamilyOf(d) \in Ids
        /\ \/ tokens'[n].family = n
           \/ Holds(c) /\ tokens'[n].family = FamilyOf(c)
    BY <1>5, IssuesHeirs
  <2>2. f \in Ids
    BY <1>2 DEF TypeInv, TokensOK
  <2> HIDE DEF n
  <2>3. tokens'[n].family # f
    BY <1>1, <2>1, <2>2
  <2>4. ASSUME NEW t \in Ids', Family(t)' = f PROVE ~tokens'[t].live
    BY <1>1, <2>1, <2>3, <2>4 DEF Family
  <2>5. Over(f)'
    BY <1>1, <2>1, <2>4, OverMeansNext
  <2>6. f \in Families'
    BY <1>2, <2>1 DEF Families
  <2> QED
    BY <2>5, <2>6
<1> QED
  BY <1>3, <1>4, <1>5, StepKinds

\* A family without heir is over: reuse, logout, suspension, deletion and a
\* change of password are final for every session with no rotation under way.
THEOREM DeadFamilyCorrect == Spec => DeadFamilyStaysDead
<1>1. TypeInv /\ [Next]_vars =>
        [\A f \in {Family(t) : t \in Ids} :
           Live(f) = {} /\ Claimed(f) = {} => Live(f)' = {} /\ Claimed(f)' = {}]_vars
  BY OverStays DEF Families, Over
<1> QED
  BY <1>1, TypeAlways, PTL DEF Spec, DeadFamilyStaysDead

\* What is recorded as ended is a family, and it is over.
EndedInv == \A f \in ended : f \in Families /\ Over(f)

LEMMA EndedStep ==
  ASSUME TypeInv, [Next]_vars
  PROVE  ended' = ended \/ \E c \in Calls : BurnFamily(c)
<1>1. ASSUME NEW c \in Calls, Plain(c), ~BurnFamily(c) PROVE ended' = ended
  BY <1>1 DEF Plain, LinkIdentity, Claim, SetUserStatus, RevokeSuspended,
     SetTenantStatus, RevokeTenant, Create, Assign, Unassign, SetStatus, SoftDelete,
     DeleteAccount
<1>2. ASSUME NEW c \in Calls, Continue(c), ~BurnFamily(c) PROVE ended' = ended
  BY <1>1, <1>2, ContinueSplit, WinEffect, IssueEffect
<1> QED
  BY <1>2, StartEffect, FailureEffect, StatementEffect, StutterEffect DEF Next

LEMMA EndedInvStep == TypeInv /\ EndedInv /\ [Next]_vars => EndedInv'
<1> SUFFICES ASSUME TypeInv, EndedInv, [Next]_vars, NEW f \in ended'
             PROVE  f \in Families' /\ Over(f)'
  BY DEF EndedInv
<1>1. CASE f \in ended
  BY <1>1, OverStays DEF EndedInv
<1>2. CASE f \notin ended
  <2>1. PICK c \in Calls : BurnFamily(c)
    BY <1>2, EndedStep
  <2>2. f = FamilyOf(c) /\ Claimed(f) = {} /\ tokens' = Revoked(OfFamily(call[c].token))
    BY <1>2, <2>1 DEF BurnFamily, FamilyOf
  <2>3. Weakens
    BY <2>1, PlainEffect DEF Plain
  <2>4. call[c].token \in Ids
    BY <2>1, RotationToken DEF BurnFamily, Is
  <2>5. f \in Families'
    BY <2>2, <2>3, <2>4 DEF Families, FamilyOf, Weakens, TokensKeep, Family
  <2>6. ASSUME NEW t \in Ids', Family(t)' = f PROVE ~tokens'[t].live
    <3>1. t \in Ids /\ Family(t) = f
      BY <2>3, <2>6, WeakensHeirs
    <3>2. t \in OfFamily(call[c].token)
      BY <2>2, <3>1 DEF OfFamily, FamilyOf
    <3> QED
      BY <2>2, <3>1, <3>2, RevokedShape DEF TypeInv
  <2>7. \A d \in Calls : Holds(d) => FamilyOf(d) # f
    BY <2>2 DEF Claimed, Is, Holds, FamilyOf
  <2>8. Over(f)'
    BY <2>3, <2>6, <2>7, WeakensHeirs, OverMeansNext
  <2> QED
    BY <2>5, <2>8
<1> QED
  BY <1>1, <1>2

\* A family whose reuse was answered while no rotation of it was issuing has no
\* heir ever after, however many of its tokens are presented again.
THEOREM ReuseCorrect == Spec => []ReuseIsFatal
<1>1. Init => EndedInv
  BY DEF Init, EndedInv
<1>2. EndedInv => ReuseIsFatal
  BY DEF EndedInv, Over, ReuseIsFatal
<1> QED
  BY <1>1, <1>2, EndedInvStep, TypeAlways, PTL DEF Spec

-----------------------------------------------------------------------------
(* Disabled accounts.                                                        *)

LEMMA DisabledMeans ==
  ASSUME NEW u
  PROVE  Disabled(u) <=> /\ status[u] # "ACTIVE"
                         /\ \A c \in Calls : call[c].user = u => ~PastCheck(call[c])
  BY DEF Disabled, PastCheck

LEMMA DisabledMeansNext ==
  ASSUME NEW u
  PROVE  Disabled(u)' <=> /\ status'[u] # "ACTIVE"
                          /\ \A c \in Calls : call'[c].user = u => ~PastCheck(call'[c])
  BY DEF Disabled, PastCheck

LEMMA DisabledStep ==
  ASSUME TypeInv, [Next]_vars, NEW u \in Users, Disabled(u)
  PROVE  /\ OfUser(u)' = OfUser(u)
         /\ status'[u] = "ACTIVE" \/ Disabled(u)'
<1>1. /\ status[u] # "ACTIVE"
      /\ \A c \in Calls : call[c].user = u => ~PastCheck(call[c])
  BY DisabledMeans
<1>2. ASSUME CheckHolds PROVE status'[u] = "ACTIVE" \/ Disabled(u)'
  <2>1. ASSUME NEW c \in Calls, call'[c].user = u, PastCheck(call'[c]) PROVE FALSE
    BY <1>1, <1>2, <2>1 DEF CheckHolds, Checked
  <2> QED
    BY <2>1, DisabledMeansNext
<1>3. ASSUME TokensKeep PROVE OfUser(u)' = OfUser(u)
  BY <1>3 DEF TokensKeep, OfUser
<1>4. ASSUME NEW c \in Calls, Issues(c) PROVE CheckHolds /\ OfUser(u)' = OfUser(u)
  <2> DEFINE n == Len(tokens) + 1
  <2>1. /\ CheckHolds /\ PastCheck(call[c]) /\ Ids' = Ids \cup {n} /\ n \notin Ids
        /\ \A t \in Ids : tokens'[t] = tokens[t]
        /\ tokens'[n].user = call[c].user
    BY <1>4, IssueEffect
  <2> HIDE DEF n
  <2>2. tokens'[n].user # u
    BY <1>1, <2>1
  <2> QED
    BY <2>1, <2>2 DEF OfUser
<1> QED
  BY <1>2, <1>3, <1>4, StepKinds, WinEffect DEF Weakens

\* A user who is not active and for whom no call past its check is under way
\* gets no token until someone makes the account active again.
THEOREM DisabledCorrect == Spec => DisabledIsCutOff
<1>1. TypeInv /\ [Next]_vars =>
        [\A u \in Users : Disabled(u) =>
           /\ OfUser(u)' = OfUser(u)
           /\ (status[u] = "ACTIVE")' \/ Disabled(u)']_vars
  BY DisabledStep
<1> QED
  BY <1>1, TypeAlways, PTL DEF Spec, DisabledIsCutOff

=============================================================================
