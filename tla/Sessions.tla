------------------------------ MODULE Sessions ------------------------------
(***************************************************************************)
(* Sessions of the identity service: the request handlers of AuthService   *)
(* that open, renew, check and end a session, or change the password it    *)
(* was opened with.  Each await of a handler is a step of its own, so that *)
(* the requests of several clients interleave where the event loop and the *)
(* database let them.                                                      *)
(*                                                                         *)
(* login_history and last_login_at are written by the handlers and read by *)
(* none of them; they are left out.                                        *)
(*                                                                         *)
(* Definitions whose name ends in "Slip" are no part of the model: each is *)
(* the definition below it with one plausible mistake, and a property is   *)
(* shown to notice it.                                                     *)
(***************************************************************************)
EXTENDS IdentityStore, FiniteSets

CONSTANTS
    Kinds,                     \* the kinds of request clients send
    Mistypes,                  \* whether they also send wrong passwords
    RequireEmailVerification,  \* config.requireEmailVerification
    None,                      \* no token presented
    MaxTime,                   \* bound on the clock
    MaxFaults                  \* bound on statements that fail

ASSUME SessionsAssumption ==
    /\ RequireEmailVerification \in BOOLEAN /\ Mistypes \in BOOLEAN
    /\ None \notin Requests
    /\ MaxTime \in Nat /\ MaxFaults \in Nat

VARIABLE req                   \* the calls: arguments, position, outcome

vars == <<now, tables, req>>

(* Kinds of request that answer with an access and a refresh token. *)
Openers == {"login", "refresh", "redeemSsoTicket"}

AllKinds == Openers \cup
    {"validateToken", "logout", "changePassword", "forgotPassword",
     "resetPassword", "revokeAllSessions", "createSsoTicket", "me", "ban",
     "changeEmail", "verifyEmail"}

Outcomes == {"ok", "refused"}

(* The statement a request is about to execute. *)
Steps == {"recordFailedLogin", "clearFailedLogins", "sign", "create",
          "revoke", "findById", "isTokenRevoked", "checkAccount",
          "revokeToken", "updatePassword", "revokeRefresh", "setCutoff",
          "invalidate", "insertReset", "consumeReset", "insertTicket",
          "consumeTicket"}

Call == [kind : AllKinds,
         pc : {"idle"} \cup Steps \cup Outcomes,
         failed : BOOLEAN,               \* a statement of the call failed
         user : Users,
         token : Requests \cup {None},   \* refresh, reset or SSO token presented
         access : Requests \cup {None},  \* access token presented
         target : Targets,
         time : Nat,                     \* iat of the token it signs, or when it answered
         before : SUBSET Requests]       \* calls over when it began

TypeOK == StoreTypeOK /\ req \in [Requests -> Call]

Init ==
    /\ StoreInit
    /\ \E u \in Users :
         req = [r \in Requests |-> [kind |-> "login", pc |-> "idle",
                                    failed |-> FALSE, user |-> u,
                                    token |-> None, access |-> None,
                                    target |-> "seffro", time |-> 0,
                                    before |-> {}]]

-----------------------------------------------------------------------------
(* Tokens clients hold.  A session is named by the request that opened it. *)

Answers(kind) == {s \in Requests : req[s].kind = kind /\ req[s].pc = "ok"}
Opened   == {s \in Requests : req[s].kind \in Openers /\ req[s].pc = "ok"}
Mailed   == Answers("forgotPassword")
Tickets  == Answers("createSsoTicket")

exp(s) == req[s].time + AccessTtl

(* verifyAccessToken: the signature holds and exp is in the future. *)
verifies(s) == now < exp(s)

blocked(u) == RequireEmailVerification /\ ~users[u].email_verified

-----------------------------------------------------------------------------
(* Control: a request begins with its first statement, then moves from one *)
(* statement to the next until it is answered.                             *)

(* The client has its answer: a result, or the error of a failed statement. *)
Over(r) == req[r].pc \in Outcomes \/ req[r].failed

Begin(r, kind, u, token, access, target, next) ==
    /\ kind \in Kinds
    /\ req[r].pc = "idle"
    /\ req' = [req EXCEPT ![r] =
         [kind |-> kind, pc |-> next, failed |-> FALSE, user |-> u,
          token |-> token, access |-> access, target |-> target, time |-> 0,
          before |-> {q \in Requests : Over(q)}]]

At(r, kinds, step) ==
    req[r].kind \in kinds /\ req[r].pc = step /\ ~req[r].failed

Goto(r, next) == req' = [req EXCEPT ![r].pc = next]

-----------------------------------------------------------------------------
(* login *)

LoginWrongPassword(r) == \E u \in Users, p \in Passwords :
    /\ ~isLocked(u)
    /\ Mistypes /\ p # users[u].password
    /\ Begin(r, "login", u, None, None, "seffro", "recordFailedLogin")
    /\ UNCHANGED <<now, tables>>

LoginRefused(r) == \E u \in Users :
    /\ isLocked(u) \/ users[u].status # "active" \/ blocked(u)
    /\ Begin(r, "login", u, None, None, "seffro", "refused")
    /\ UNCHANGED <<now, tables>>

(* The lock is not looked at. *)
LoginAdmittedSlip(r) == \E u \in Users, p \in Passwords :
    /\ p = users[u].password
    /\ users[u].status = "active"
    /\ ~blocked(u)
    /\ Begin(r, "login", u, None, None, "seffro", "clearFailedLogins")
    /\ UNCHANGED <<now, tables>>

LoginAdmitted(r) == \E u \in Users, p \in Passwords :
    /\ ~isLocked(u)
    /\ p = users[u].password
    /\ users[u].status = "active"
    /\ ~blocked(u)
    /\ Begin(r, "login", u, None, None, "seffro", "clearFailedLogins")
    /\ UNCHANGED <<now, tables>>

RecordFailedLogin(r) ==
    /\ At(r, {"login"}, "recordFailedLogin")
    /\ recordFailedLogin(req[r].user)
    /\ Goto(r, "refused")
    /\ UNCHANGED <<now, refresh_tokens, revoked_tokens, sso_tickets,
                   password_reset_tokens>>

ClearFailedLogins(r) ==
    /\ At(r, {"login"}, "clearFailedLogins")
    /\ clearFailedLogins(req[r].user)
    /\ Goto(r, "sign")
    /\ UNCHANGED <<now, refresh_tokens, revoked_tokens, sso_tickets,
                   password_reset_tokens>>

(* issueTokens: sign the access token, then insert the refresh token. *)
Sign(r) ==
    /\ At(r, Openers, "sign")
    /\ req' = [req EXCEPT ![r].pc = "create", ![r].time = now]
    /\ UNCHANGED <<now, tables>>

Create(r) ==
    /\ At(r, Openers, "create")
    /\ createRefresh(r, req[r].user)
    /\ Goto(r, "ok")
    /\ UNCHANGED <<now, users, revoked_tokens, sso_tickets,
                   password_reset_tokens>>

-----------------------------------------------------------------------------
(* refresh *)

RefreshFound(r) == \E s \in Opened :
    /\ refreshable(s)
    /\ Begin(r, "refresh", refresh_tokens[s].user_id, s, None, "seffro", "revoke")
    /\ UNCHANGED <<now, tables>>

RefreshRefused(r) == \E s \in Opened :
    /\ ~refreshable(s)
    /\ Begin(r, "refresh", req[s].user, s, None, "seffro", "refused")
    /\ UNCHANGED <<now, tables>>

(* Shared with logout.  The row count of the UPDATE is not looked at. *)
RevokeThen(r, next) ==
    /\ revokeRefresh(req[r].token)
    /\ Goto(r, next)
    /\ UNCHANGED <<now, users, revoked_tokens, sso_tickets,
                   password_reset_tokens>>

(* The rotation is forgotten. *)
RefreshRevokeSlip(r) ==
    /\ At(r, {"refresh"}, "revoke")
    /\ Goto(r, "findById")
    /\ UNCHANGED <<now, tables>>

RefreshRevoke(r) == At(r, {"refresh"}, "revoke") /\ RevokeThen(r, "findById")

(* The status is not looked at. *)
RefreshAccountSlip(r) ==
    /\ At(r, {"refresh"}, "findById")
    /\ Goto(r, "sign")
    /\ UNCHANGED <<now, tables>>

RefreshAccount(r) ==
    /\ At(r, {"refresh"}, "findById")
    /\ Goto(r, IF users[req[r].user].status = "active" THEN "sign" ELSE "refused")
    /\ UNCHANGED <<now, tables>>

-----------------------------------------------------------------------------
(* validateToken *)

ValidateBegin(r) == \E s \in Opened :
    /\ Begin(r, "validateToken", req[s].user, None, s, "seffro",
             IF verifies(s) THEN "isTokenRevoked" ELSE "refused")
    /\ UNCHANGED <<now, tables>>

ValidateDenyList(r) ==
    /\ At(r, {"validateToken"}, "isTokenRevoked")
    /\ Goto(r, IF isTokenRevoked(req[r].access) THEN "refused" ELSE "checkAccount")
    /\ UNCHANGED <<now, tables>>

accepts(s) ==
    LET u == req[s].user
    IN  /\ users[u].status = "active"
        /\ ~issuedBeforeCutoff(req[s].time, u)
        /\ ~blocked(u)

ValidateAccount(r) ==
    /\ At(r, {"validateToken"}, "checkAccount")
    /\ req' = [req EXCEPT ![r].pc = IF accepts(req[r].access) THEN "ok" ELSE "refused",
                          ![r].time = now]
    /\ UNCHANGED <<now, tables>>

-----------------------------------------------------------------------------
(* me: neither the deny list nor the cutoff is consulted. *)

Me(r) == \E s \in Opened :
    /\ Begin(r, "me", req[s].user, None, s, "seffro",
             IF verifies(s) /\ users[req[s].user].status = "active"
             THEN "ok" ELSE "refused")
    /\ UNCHANGED <<now, tables>>

-----------------------------------------------------------------------------
(* logout *)

LogoutBegin(r) == \E s \in Opened, a \in Opened \cup {None} :
    /\ Begin(r, "logout", req[s].user, s, a, "seffro", "revoke")
    /\ UNCHANGED <<now, tables>>

(* The access token is forgotten. *)
LogoutRevokeSlip(r) == At(r, {"logout"}, "revoke") /\ RevokeThen(r, "ok")

LogoutRevoke(r) ==
    /\ At(r, {"logout"}, "revoke")
    /\ RevokeThen(r, IF req[r].access # None /\ verifies(req[r].access)
                     THEN "revokeToken" ELSE "ok")

LogoutDeny(r) ==
    /\ At(r, {"logout"}, "revokeToken")
    /\ revokeToken(req[r].access, exp(req[r].access))
    /\ Goto(r, "ok")
    /\ UNCHANGED <<now, users, refresh_tokens, sso_tickets,
                   password_reset_tokens>>

-----------------------------------------------------------------------------
(* changePassword, resetPassword and revokeAllSessions end in the same two *)
(* statements.  The first two write the password before them.              *)

ChangePassword(r) == \E s \in Opened, p \in Passwords :
    /\ verifies(s)
    /\ Mistypes \/ p = users[req[s].user].password
    /\ Begin(r, "changePassword", req[s].user, None, s, "seffro",
             IF p = users[req[s].user].password THEN "updatePassword" ELSE "refused")
    /\ UNCHANGED <<now, tables>>

RevokeAllSessions(r) == \E u \in Users :
    /\ Begin(r, "revokeAllSessions", u, None, None, "seffro", "revokeRefresh")
    /\ UNCHANGED <<now, tables>>

ResetPeek(r) == \E t \in Mailed :
    /\ Begin(r, "resetPassword", req[t].user, t, None, "seffro",
             IF redeemable(password_reset_tokens, t) THEN "consumeReset" ELSE "refused")
    /\ UNCHANGED <<now, tables>>

(* The row count of the UPDATE is not looked at. *)
ResetConsumedSlip(r) ==
    /\ At(r, {"resetPassword"}, "consumeReset")
    /\ consumeReset(req[r].token)
    /\ Goto(r, "updatePassword")
    /\ UNCHANGED <<now, users, refresh_tokens, revoked_tokens, sso_tickets>>

ResetConsumed(r) ==
    /\ At(r, {"resetPassword"}, "consumeReset")
    /\ redeemable(password_reset_tokens, req[r].token)
    /\ consumeReset(req[r].token)
    /\ Goto(r, "updatePassword")
    /\ UNCHANGED <<now, users, refresh_tokens, revoked_tokens, sso_tickets>>

ResetTooLate(r) ==
    /\ At(r, {"resetPassword"}, "consumeReset")
    /\ ~redeemable(password_reset_tokens, req[r].token)
    /\ Goto(r, "refused")
    /\ UNCHANGED <<now, tables>>

UpdatePassword(r) ==
    /\ At(r, {"changePassword", "resetPassword"}, "updatePassword")
    /\ updatePassword(req[r].user, r)
    /\ Goto(r, "revokeRefresh")
    /\ UNCHANGED <<now, refresh_tokens, revoked_tokens, sso_tickets,
                   password_reset_tokens>>

Cutters == {"changePassword", "resetPassword", "revokeAllSessions"}

RevokeRefreshOfUser(r) ==
    /\ At(r, Cutters, "revokeRefresh")
    /\ revokeRefreshOfUser(req[r].user)
    /\ Goto(r, "setCutoff")
    /\ UNCHANGED <<now, users, revoked_tokens, sso_tickets,
                   password_reset_tokens>>

SetCutoff(r) ==
    /\ At(r, Cutters, "setCutoff")
    /\ setCutoff(req[r].user)
    /\ Goto(r, "ok")
    /\ UNCHANGED <<now, refresh_tokens, revoked_tokens, sso_tickets,
                   password_reset_tokens>>

-----------------------------------------------------------------------------
(* forgotPassword: the mail with the token leaves after the INSERT. *)

ForgotPassword(r) == \E u \in Users :
    /\ Begin(r, "forgotPassword", u, None, None, "seffro",
             IF users[u].status = "active" THEN "invalidate" ELSE "refused")
    /\ UNCHANGED <<now, tables>>

InvalidateOutstanding(r) ==
    /\ At(r, {"forgotPassword"}, "invalidate")
    /\ invalidateOutstanding(req[r].user)
    /\ Goto(r, "insertReset")
    /\ UNCHANGED <<now, users, refresh_tokens, revoked_tokens, sso_tickets>>

InsertReset(r) ==
    /\ At(r, {"forgotPassword"}, "insertReset")
    /\ insertReset(r, req[r].user)
    /\ Goto(r, "ok")
    /\ UNCHANGED <<now, users, refresh_tokens, revoked_tokens, sso_tickets>>

-----------------------------------------------------------------------------
(* createSsoTicket, behind the authenticate middleware, and redeemSsoTicket *)

CreateTicket(r) == \E s \in Opened, target \in Targets :
    /\ verifies(s)
    /\ Begin(r, "createSsoTicket", req[s].user, None, s, target,
             IF users[req[s].user].status = "active" THEN "insertTicket" ELSE "refused")
    /\ UNCHANGED <<now, tables>>

InsertTicket(r) ==
    /\ At(r, {"createSsoTicket"}, "insertTicket")
    /\ insertTicket(r, req[r].user, req[r].target)
    /\ Goto(r, "ok")
    /\ UNCHANGED <<now, users, refresh_tokens, revoked_tokens,
                   password_reset_tokens>>

(* The target is not compared. *)
RedeemPeekSlip(r) == \E t \in Tickets, app \in Targets :
    /\ Begin(r, "redeemSsoTicket", req[t].user, t, None, app,
             IF redeemable(sso_tickets, t) THEN "findById" ELSE "refused")
    /\ UNCHANGED <<now, tables>>

RedeemPeek(r) == \E t \in Tickets, app \in Targets :
    /\ Begin(r, "redeemSsoTicket", req[t].user, t, None, app,
             IF redeemable(sso_tickets, t) /\ sso_tickets[t].target = app
             THEN "findById" ELSE "refused")
    /\ UNCHANGED <<now, tables>>

(* The verification gate is forgotten. *)
RedeemAccountSlip(r) ==
    /\ At(r, {"redeemSsoTicket"}, "findById")
    /\ Goto(r, IF users[req[r].user].status = "active" THEN "consumeTicket" ELSE "refused")
    /\ UNCHANGED <<now, tables>>

RedeemAccount(r) ==
    /\ At(r, {"redeemSsoTicket"}, "findById")
    /\ Goto(r, IF users[req[r].user].status = "active" /\ ~blocked(req[r].user)
               THEN "consumeTicket" ELSE "refused")
    /\ UNCHANGED <<now, tables>>

(* The row count of the UPDATE is not looked at. *)
RedeemConsumedSlip(r) ==
    /\ At(r, {"redeemSsoTicket"}, "consumeTicket")
    /\ consumeTicket(req[r].token)
    /\ Goto(r, "sign")
    /\ UNCHANGED <<now, users, refresh_tokens, revoked_tokens,
                   password_reset_tokens>>

RedeemConsumed(r) ==
    /\ At(r, {"redeemSsoTicket"}, "consumeTicket")
    /\ redeemable(sso_tickets, req[r].token)
    /\ consumeTicket(req[r].token)
    /\ Goto(r, "sign")
    /\ UNCHANGED <<now, users, refresh_tokens, revoked_tokens,
                   password_reset_tokens>>

RedeemTooLate(r) ==
    /\ At(r, {"redeemSsoTicket"}, "consumeTicket")
    /\ ~redeemable(sso_tickets, req[r].token)
    /\ Goto(r, "refused")
    /\ UNCHANGED <<now, tables>>

-----------------------------------------------------------------------------
(* Single statements other parts of the service run against the same rows: *)
(* updateProfile with a new address, verifyEmail, and a ban, which is an   *)
(* UPDATE by an operator since no handler writes the status.               *)

Ban(r) == \E u \in Users :
    /\ Begin(r, "ban", u, None, None, "seffro", "ok")
    /\ setStatus(u, "suspended")
    /\ UNCHANGED <<now, refresh_tokens, revoked_tokens, sso_tickets,
                   password_reset_tokens>>

ChangeEmail(r) == \E u \in Users :
    /\ Begin(r, "changeEmail", u, None, None, "seffro", "ok")
    /\ setEmailVerified(u, FALSE)
    /\ UNCHANGED <<now, refresh_tokens, revoked_tokens, sso_tickets,
                   password_reset_tokens>>

VerifyEmail(r) == \E u \in Users :
    /\ Begin(r, "verifyEmail", u, None, None, "seffro", "ok")
    /\ setEmailVerified(u, TRUE)
    /\ UNCHANGED <<now, refresh_tokens, revoked_tokens, sso_tickets,
                   password_reset_tokens>>

-----------------------------------------------------------------------------
(* Faults.  A statement fails, or the process dies, and the call answers   *)
(* with an error, keeping what it has already written.                     *)

faultsLeft == Cardinality({r \in Requests : req[r].failed}) < MaxFaults

Fail(r) ==
    /\ faultsLeft
    /\ req[r].pc \in Steps /\ ~req[r].failed
    /\ req' = [req EXCEPT ![r].failed = TRUE]
    /\ UNCHANGED <<now, tables>>

(* The catch in logout is meant for a bad token and swallows this as well. *)
LogoutDenyFails(r) ==
    /\ faultsLeft
    /\ At(r, {"logout"}, "revokeToken")
    /\ req' = [req EXCEPT ![r].pc = "ok", ![r].failed = TRUE]
    /\ UNCHANGED <<now, tables>>

-----------------------------------------------------------------------------
(* Housekeeping, run by the operator whenever there is something to delete. *)

PurgeRevoked ==
    /\ \E j \in DOMAIN revoked_tokens : revoked_tokens[j] < now
    /\ purgeRevoked
    /\ UNCHANGED <<now, users, refresh_tokens, sso_tickets,
                   password_reset_tokens, req>>

PurgeResets ==
    /\ Unexpired(password_reset_tokens) # DOMAIN password_reset_tokens
    /\ purgeResets
    /\ UNCHANGED <<now, users, refresh_tokens, revoked_tokens, sso_tickets, req>>

PurgeTickets ==
    /\ Unexpired(sso_tickets) # DOMAIN sso_tickets
    /\ purgeTickets
    /\ UNCHANGED <<now, users, refresh_tokens, revoked_tokens,
                   password_reset_tokens, req>>

Tick ==
    /\ now < MaxTime
    /\ now' = now + 1
    /\ UNCHANGED <<tables, req>>

(* Nothing is in flight: the server waits. *)
Quiet ==
    /\ \A r \in Requests : req[r].pc = "idle" \/ Over(r)
    /\ UNCHANGED vars

Arrive(r) ==
    \/ LoginWrongPassword(r) \/ LoginRefused(r) \/ LoginAdmitted(r)
    \/ RefreshFound(r) \/ RefreshRefused(r)
    \/ ValidateBegin(r) \/ Me(r) \/ LogoutBegin(r)
    \/ ChangePassword(r) \/ RevokeAllSessions(r) \/ ResetPeek(r)
    \/ ForgotPassword(r) \/ CreateTicket(r) \/ RedeemPeek(r)
    \/ Ban(r) \/ ChangeEmail(r) \/ VerifyEmail(r)

Continue(r) ==
    \/ RecordFailedLogin(r) \/ ClearFailedLogins(r) \/ Sign(r) \/ Create(r)
    \/ RefreshRevoke(r) \/ RefreshAccount(r)
    \/ ValidateDenyList(r) \/ ValidateAccount(r)
    \/ LogoutRevoke(r) \/ LogoutDeny(r)
    \/ ResetConsumed(r) \/ ResetTooLate(r) \/ UpdatePassword(r)
    \/ RevokeRefreshOfUser(r) \/ SetCutoff(r)
    \/ InvalidateOutstanding(r) \/ InsertReset(r)
    \/ InsertTicket(r)
    \/ RedeemAccount(r) \/ RedeemConsumed(r) \/ RedeemTooLate(r)

Next ==
    \/ \E r \in Requests : Arrive(r) \/ Continue(r) \/ Fail(r) \/ LogoutDenyFails(r)
    \/ PurgeRevoked \/ PurgeResets \/ PurgeTickets
    \/ Tick \/ Quiet

Spec == Init /\ [][Next]_vars

(* The event loop resumes every call whose statement has returned. *)
FairSpec == Spec /\ \A r \in Requests : WF_vars(Continue(r))

-----------------------------------------------------------------------------

(* r began after w had answered "ok". *)
Follows(r, w) == w \in req[r].before /\ req[w].pc = "ok" /\ ~req[w].failed

(* r asks the service to honour session s. *)
Presents(r, s) ==
    \/ req[r].kind = "refresh" /\ req[r].token = s
    \/ req[r].kind = "validateToken" /\ req[r].access = s

(* w cut all sessions of the owner of s, and s was open when w began. *)
Cuts(w, s) ==
    /\ req[w].kind \in Cutters
    /\ s \in Opened /\ s \in req[w].before
    /\ req[s].user = req[w].user

(* A session open when a password change, a reset or a forced sign-out     *)
(* began is honoured by no call that begins after it has answered: neither *)
(* renewed nor validated, whatever the second its token was signed in      *)
(* (AuthService.resetPassword, changePassword, revokeAllSessions).         *)
CutSessionsStayOut ==
    \A r, w, s \in Requests :
        Cuts(w, s) /\ Follows(r, w) /\ Presents(r, s) => req[r].pc # "ok"

(* After a logout has answered, its refresh token renews nothing, and its  *)
(* access token is validated by no call, unless that call answers when the *)
(* token has expired (AuthService.logout, validateToken; the deny list row *)
(* may be purged by then).                                                 *)
LogoutIsFinal ==
    \A r, w \in Requests :
        /\ req[w].kind = "logout" /\ Follows(r, w) /\ req[r].pc = "ok"
        => /\ ~(req[r].kind = "refresh" /\ req[r].token = req[w].token)
           /\ req[r].kind = "validateToken" /\ req[r].access = req[w].access
                => req[r].time >= exp(req[w].access)

(* A call that, once begun, may end session s: s is named by it, or all    *)
(* the sessions of its owner are.                                          *)
MayEnd(w, s) ==
    \/ req[w].kind = "refresh" /\ req[w].token = s
    \/ req[w].kind = "logout" /\ s \in {req[w].token, req[w].access}
    \/ req[w].kind \in Cutters \cup {"ban", "changeEmail"} /\ req[w].user = req[s].user

(* Nobody is signed out by somebody else's call: a session is refused only *)
(* when its token has expired or another call may have ended that session  *)
(* (the WHERE clauses of TokenRepository and RevocationRepository).        *)
RefusedForCause ==
    \A r, s \in Requests :
        /\ s \in Opened /\ Presents(r, s) /\ req[r].pc = "refused"
        => \/ now >= exp(s)
           \/ \E w \in Requests \ {r} : req[w].pc # "idle" /\ MayEnd(w, s)

(* A refresh token spent by one call, whether or not that call went on to  *)
(* succeed, buys nothing from a call that begins after the first is over   *)
(* (AuthService.refresh).                                                  *)
SpentTokenBuysNothing ==
    \A r, w \in Requests :
        /\ req[w].kind = "refresh" /\ req[w].pc \notin {"idle", "revoke"}
        /\ req[r].kind = "refresh" /\ w \in req[r].before
        /\ req[r].token = req[w].token
        => req[r].pc # "ok"

(* Calls that hold the account a one-time token names: they have consumed  *)
(* it, even if a later statement failed.                                   *)
HasRedeemed(r) ==
    /\ req[r].kind = "redeemSsoTicket"
    /\ req[r].pc \in {"sign", "create", "ok"}

HasReset(r) ==
    /\ req[r].kind = "resetPassword"
    /\ req[r].pc \in {"updatePassword", "revokeRefresh", "setCutoff", "ok"}

(* Of all the calls that present one SSO ticket, however they interleave,  *)
(* at most one opens a session, and for the application and the user the   *)
(* ticket was minted for (SsoTicketRepository.consume).                    *)
TicketRedeemedOnce ==
    /\ \A r, q \in Requests :
         HasRedeemed(r) /\ HasRedeemed(q) /\ req[r].token = req[q].token => r = q
    /\ \A r \in Requests :
         HasRedeemed(r) => /\ req[r].target = req[req[r].token].target
                           /\ req[r].user = req[req[r].token].user

(* Both kinds of token, with all the calls that present them, implement the *)
(* abstract promise.                                                       *)
TicketPromise == INSTANCE SingleUse WITH
    Tokens <- Requests, Takers <- Requests,
    offered <- Tickets,
    open <- {t \in Requests : redeemable(sso_tickets, t)},
    taken <- {p \in Requests \X Requests : HasRedeemed(p[2]) /\ req[p[2]].token = p[1]}

ResetPromise == INSTANCE SingleUse WITH
    Tokens <- Requests, Takers <- Requests,
    offered <- Mailed,
    open <- {t \in Requests : redeemable(password_reset_tokens, t)},
    taken <- {p \in Requests \X Requests : HasReset(p[2]) /\ req[p[2]].token = p[1]}

(* SSO tickets implement SingleUse (SsoTicketRepository, createSsoTicket,  *)
(* redeemSsoTicket).                                                       *)
TicketsAreSingleUse == TicketPromise!Spec

(* Reset tokens implement SingleUse (AuthTokenRepository, forgotPassword,  *)
(* resetPassword).                                                         *)
ResetTokensAreSingleUse == ResetPromise!Spec

(* Once a second request for a reset mail, begun after the first was       *)
(* answered, has itself been answered, the older mail resets nothing       *)
(* (AuthTokenRepository.issueWithToken).                                   *)
NewerMailSupersedes ==
    \A r, f, g \in Requests :
        /\ req[f].kind = "forgotPassword" /\ req[g].kind = "forgotPassword"
        /\ req[f].user = req[g].user
        /\ Follows(g, f) /\ Follows(r, g)
        /\ req[r].kind = "resetPassword" /\ req[r].token = f
        => ~HasReset(r)

(* An account banned before a call begins opens, renews and validates no   *)
(* session in that call, mints no ticket, is mailed no reset token and is  *)
(* shown no profile (the status checks of AuthService).                    *)
BannedGetsNothing ==
    \A r, w \in Requests :
        /\ req[w].kind = "ban" /\ Follows(r, w) /\ req[r].user = req[w].user
        /\ req[r].kind \in Openers \cup {"validateToken", "me", "createSsoTicket",
                                         "forgotPassword"}
        => req[r].pc # "ok"

(* With verification required, an account whose address was changed, and   *)
(* not verified since, opens no session by password or by ticket, and none *)
(* of its tokens validates, in a call that begins after the change.        *)
UnverifiedGetsNoLogin ==
    \A r, w \in Requests :
        /\ RequireEmailVerification
        /\ req[w].kind = "changeEmail" /\ Follows(r, w)
        /\ req[r].user = req[w].user
        /\ ~\E v \in Requests : req[v].kind = "verifyEmail"
        /\ req[r].kind \in {"login", "redeemSsoTicket", "validateToken"}
        => req[r].pc # "ok"

(* The counter and the lock of an account agree: at the threshold there is *)
(* a lock (expired or not), and a lock was earned by failures that no      *)
(* successful login has forgiven (recordFailedLogin, clearFailedLogins).   *)
LockMatchesCounter ==
    \A u \in Users :
        /\ users[u].failed_login_attempts >= LockoutThreshold
             => users[u].locked_until # 0
        /\ users[u].locked_until # 0
             => users[u].failed_login_attempts + 1 >= LockoutThreshold

(* A lock in force stops every login, the right password included, except  *)
(* one already past the check when a failure it overlapped set the lock    *)
(* (AuthService.login, which clears the lock of a row it read earlier).    *)
LockOpenedByRaceOnly ==
    \A r \in Requests :
        At(r, {"login"}, "clearFailedLogins") /\ isLocked(req[r].user) =>
            \E q \in Requests \ req[r].before :
                /\ req[q].kind = "login" /\ req[q].pc = "refused"
                /\ req[q].user = req[r].user

(* What has been denied stays denied: no step revives a refresh token, a   *)
(* reset token or a ticket, moves a cutoff back, or forgets a logged-out   *)
(* access token that has not expired.                                      *)
DenialsAreForever ==
    [][/\ \A s \in DOMAIN refresh_tokens :
            refresh_tokens[s].revoked => refresh_tokens'[s].revoked
       /\ \A t \in DOMAIN sso_tickets :
            sso_tickets[t].used /\ t \in DOMAIN sso_tickets' => sso_tickets'[t].used
       /\ \A t \in DOMAIN password_reset_tokens :
            /\ password_reset_tokens[t].used
            /\ t \in DOMAIN password_reset_tokens'
            => password_reset_tokens'[t].used
       /\ \A u \in Users :
            users'[u].tokens_valid_from >= users[u].tokens_valid_from
       /\ \A j \in DOMAIN revoked_tokens \ DOMAIN revoked_tokens' :
            revoked_tokens[j] < now]_vars

(* Neither the refresh token nor the access token of s would be accepted.  *)
Dead(s) == ~refreshable(s) /\ issuedBeforeCutoff(req[s].time, req[s].user)

(* When no statement fails, a password change, a reset or a forced sign-out *)
(* that has begun to revoke ends every session that was open before it.    *)
CutTakesHold ==
    \A w \in Requests :
        At(w, Cutters, "revokeRefresh") ~> \A s \in Requests : Cuts(w, s) => Dead(s)

-----------------------------------------------------------------------------
(* What the repository says and the code does not do. *)

(* smoke-auth.js:118 "old refresh token cannot be replayed": a refresh     *)
(* token yields at most one new pair.                                      *)
RefreshTokenSpentOnce ==
    \A r, q \in Requests :
        /\ req[r].kind = "refresh" /\ req[q].kind = "refresh"
        /\ req[r].token = req[q].token
        /\ req[r].pc = "ok" /\ req[q].pc = "ok"
        => r = q

(* AuthService.ts:441 "cut every existing session so a thief who still     *)
(* holds a token is evicted": after a reset, no session renewed from one   *)
(* that was open before the reset can itself be renewed.                   *)
ResetEvictsRenewals ==
    \A w, r \in Requests :
        /\ req[w].kind = "resetPassword" /\ req[w].pc = "ok"
        /\ req[r].kind = "refresh" /\ req[r].pc = "ok"
        /\ Cuts(w, req[r].token)
        => ~refreshable(r)

(* README.md:94, LOCKOUT_THRESHOLD is "Failed logins before the account    *)
(* locks": a lock takes that many failures.                                *)
LockTakesThresholdFailures ==
    \A u \in Users :
        users[u].locked_until # 0 => users[u].failed_login_attempts >= LockoutThreshold
=============================================================================
