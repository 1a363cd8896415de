--------------------------- MODULE SessionsProof ---------------------------
(***************************************************************************)
(* Types of the session tables and calls, and the facts every proof about  *)
(* sessions rests on: what a step does to a call (CallStep: it begins, it  *)
(* follows an edge of its handler, or it fails), that a call that is over  *)
(* moves no more, which statement writes which table, and what a step      *)
(* leaves of one row.                                                      *)
(*                                                                         *)
(* On these rest the theorems at the end, that denials are for ever and    *)
(* what a lock means, and the module TokensProof.                          *)
(***************************************************************************)
EXTENDS Sessions, TLAPS

(* A logout denies an access token only if one was presented. *)
LogoutHasAccess ==
    \A r \in Requests :
        req[r].kind = "logout" /\ req[r].pc = "revokeToken" => req[r].access \in Requests

TypeInv == TypeOK /\ LogoutHasAccess

-----------------------------------------------------------------------------
(* What Begin, Goto and the statements on the tables preserve. *)

LEMMA BeginTyped ==
    ASSUME req \in [Requests -> Call], NEW r \in Requests,
           NEW kind \in AllKinds, NEW u \in Users,
           NEW token \in Requests \cup {None}, NEW access \in Requests \cup {None},
           NEW target \in Targets, NEW next \in Steps \cup Outcomes,
           next # "revokeToken",
           Begin(r, kind, u, token, access, target, next)
    PROVE  /\ req' \in [Requests -> Call]
           /\ LogoutHasAccess => LogoutHasAccess'
  <1>1. {q \in Requests : Over(q)} \in SUBSET Requests
    OBVIOUS
  <1>2. req' \in [Requests -> Call]
    BY <1>1 DEF Begin, Call
  <1>3. req'[r].pc = next /\ \A q \in Requests : q # r => req'[q] = req[q]
    BY DEF Begin
  <1> QED
    BY <1>2, <1>3 DEF LogoutHasAccess

LEMMA GotoTyped ==
    ASSUME req \in [Requests -> Call], NEW r \in Requests,
           NEW next \in Steps \cup Outcomes, Goto(r, next),
           next = "revokeToken" => req[r].access \in Requests
    PROVE  /\ req' \in [Requests -> Call]
           /\ LogoutHasAccess => LogoutHasAccess'
  BY DEF Goto, Call, LogoutHasAccess

LEMMA CallUpdateTyped ==
    ASSUME NEW call \in Call, NEW step \in Steps \cup Outcomes, NEW n \in Nat
    PROVE  /\ [call EXCEPT !.pc = step, !.time = n] \in Call
           /\ [call EXCEPT !.failed = TRUE] \in Call
           /\ [call EXCEPT !.pc = step, !.failed = TRUE] \in Call
  BY DEF Call

LEMMA SetVerifiedTyped ==
    ASSUME users \in [Users -> UserRow], NEW u \in Users, NEW flag \in BOOLEAN,
           setEmailVerified(u, flag)
    PROVE  users' \in [Users -> UserRow]
  <1>1. [users[u] EXCEPT !.email_verified = flag] \in UserRow
    BY DEF UserRow
  <1> QED
    BY <1>1 DEF setEmailVerified

LEMMA InsertTyped ==
    ASSUME NEW table, NEW Row, IsTable(table, Row), NEW k \in Requests, NEW row \in Row
    PROVE  IsTable(Insert(table, k, row), Row)
  BY DEF IsTable, Insert

LEMMA RestrictTyped ==
    ASSUME NEW table, NEW Row, IsTable(table, Row), NEW K \in SUBSET (DOMAIN table)
    PROVE  IsTable([k \in K |-> table[k]], Row)
  BY DEF IsTable

LEMMA StepsDiffer == "revokeToken" \in Steps /\ Steps \cap Outcomes = {}
  BY DEF Steps, Outcomes

-----------------------------------------------------------------------------
LEMMA TypeInit == Init => TypeInv
  <1> SUFFICES ASSUME Init PROVE TypeInv
    OBVIOUS
  <1>1. /\ now = 0
        /\ IsTable(refresh_tokens, RefreshRow) /\ IsTable(revoked_tokens, Nat)
        /\ IsTable(sso_tickets, TicketRow) /\ IsTable(password_reset_tokens, ResetRow)
    BY DEF Init, StoreInit, EmptyTable, IsTable
  <1>2. users \in [Users -> UserRow]
    BY DEF Init, StoreInit, UserRow, Passwords
  <1>3. PICK u \in Users :
          req = [r \in Requests |-> [kind |-> "login", pc |-> "idle",
                                     failed |-> FALSE, user |-> u,
                                     token |-> None, access |-> None,
                                     target |-> "seffro", time |-> 0,
                                     before |-> {}]]
    BY DEF Init
  <1>4. req \in [Requests -> Call]
    BY <1>3 DEF Call, AllKinds, Openers, Targets
  <1>5. LogoutHasAccess
    BY <1>3 DEF LogoutHasAccess
  <1> QED
    BY <1>1, <1>2, <1>4, <1>5 DEF TypeInv, TypeOK, StoreTypeOK

LEMMA ArriveTyped ==
    ASSUME TypeInv, NEW r \in Requests, Arrive(r)
    PROVE  TypeInv'
  <1> USE DEF TypeInv, TypeOK
  <1>0. /\ req \in [Requests -> Call] /\ StoreTypeOK
        /\ \A s \in Opened : s \in Requests /\ req[s].user \in Users
        /\ \A s \in Mailed \cup Tickets : s \in Requests /\ req[s].user \in Users
    BY DEF Opened, Mailed, Tickets, Answers, Call
  <1>t. "seffro" \in Targets
    BY DEF Targets
  <1>k. \A k \in {"login", "refresh", "redeemSsoTicket", "validateToken", "logout",
                  "changePassword", "forgotPassword", "resetPassword",
                  "revokeAllSessions", "createSsoTicket", "me", "ban", "changeEmail",
                  "verifyEmail"} : k \in AllKinds
    BY DEF AllKinds, Openers
  <1>s. \A p \in {"recordFailedLogin", "refused", "clearFailedLogins", "revoke",
                  "isTokenRevoked", "updatePassword", "revokeRefresh",
                  "consumeReset", "invalidate", "insertTicket", "findById", "ok"} :
          p \in Steps \cup Outcomes /\ p # "revokeToken"
    BY DEF Steps, Outcomes
  <1>1. CASE LoginWrongPassword(r)
    BY <1>1, <1>0, <1>t, <1>k, <1>s, BeginTyped DEF LoginWrongPassword, StoreTypeOK, tables
  <1>2. CASE LoginRefused(r)
    BY <1>2, <1>0, <1>t, <1>k, <1>s, BeginTyped DEF LoginRefused, StoreTypeOK, tables
  <1>3. CASE LoginAdmitted(r)
    BY <1>3, <1>0, <1>t, <1>k, <1>s, BeginTyped DEF LoginAdmitted, StoreTypeOK, tables
  <1>4. CASE RefreshFound(r)
    BY <1>4, <1>0, <1>t, <1>k, <1>s, BeginTyped
       DEF RefreshFound, refreshable, StoreTypeOK, tables, IsTable, RefreshRow
  <1>5. CASE RefreshRefused(r)
    BY <1>5, <1>0, <1>t, <1>k, <1>s, BeginTyped DEF RefreshRefused, StoreTypeOK, tables
  <1>6. CASE ValidateBegin(r)
    BY <1>6, <1>0, <1>t, <1>k, <1>s, BeginTyped DEF ValidateBegin, StoreTypeOK, tables
  <1>7. CASE LogoutBegin(r)
    BY <1>7, <1>0, <1>t, <1>k, <1>s, BeginTyped DEF LogoutBegin, StoreTypeOK, tables
  <1>8. CASE ChangePassword(r)
    BY <1>8, <1>0, <1>t, <1>k, <1>s, BeginTyped DEF ChangePassword, StoreTypeOK, tables
  <1>9. CASE RevokeAllSessions(r)
    BY <1>9, <1>0, <1>t, <1>k, <1>s, BeginTyped DEF RevokeAllSessions, StoreTypeOK, tables
  <1>10. CASE ResetPeek(r)
    BY <1>10, <1>0, <1>t, <1>k, <1>s, BeginTyped DEF ResetPeek, StoreTypeOK, tables
  <1>11. CASE ForgotPassword(r)
    BY <1>11, <1>0, <1>t, <1>k, <1>s, BeginTyped DEF ForgotPassword, StoreTypeOK, tables
  <1>12. CASE CreateTicket(r)
    BY <1>12, <1>0, <1>k, <1>s, BeginTyped DEF CreateTicket, StoreTypeOK, tables
  <1>13. CASE RedeemPeek(r)
    BY <1>13, <1>0, <1>k, <1>s, BeginTyped DEF RedeemPeek, StoreTypeOK, tables
  <1>14. CASE Ban(r) \/ ChangeEmail(r) \/ VerifyEmail(r)
    <2>1. users' \in [Users -> UserRow]
      <3>1. CASE Ban(r)
        BY <3>1, <1>0 DEF Ban, setStatus, StoreTypeOK, UserRow
      <3>2. CASE ChangeEmail(r)
        BY <3>2, <1>0, SetVerifiedTyped DEF ChangeEmail, StoreTypeOK
      <3>3. CASE VerifyEmail(r)
        BY <3>3, <1>0, SetVerifiedTyped DEF VerifyEmail, StoreTypeOK
      <3> QED
        BY <1>14, <3>1, <3>2, <3>3
    <2>2. req' \in [Requests -> Call] /\ LogoutHasAccess'
      BY <1>14, <1>0, <1>t, <1>k, <1>s, BeginTyped DEF Ban, ChangeEmail, VerifyEmail
    <2> QED
      BY <1>14, <2>1, <2>2 DEF Ban, ChangeEmail, VerifyEmail, StoreTypeOK
  <1>15. CASE Me(r)
    BY <1>15, <1>0, <1>t, <1>k, <1>s, BeginTyped DEF Me, StoreTypeOK, tables
  <1> QED
    BY <1>1, <1>2, <1>3, <1>4, <1>5, <1>6, <1>7, <1>8, <1>9, <1>10, <1>11, <1>12,
       <1>13, <1>14, <1>15 DEF Arrive

LEMMA ContinueTyped ==
    ASSUME TypeInv, NEW r \in Requests, Continue(r)
    PROVE  TypeInv'
  <1> USE DEF TypeInv, TypeOK
  <1>0. /\ req \in [Requests -> Call] /\ StoreTypeOK /\ LogoutHasAccess
        /\ req[r].user \in Users /\ req[r].target \in Targets
        /\ \A s \in Requests : exp(s) \in Nat
    BY ConfigurationIsNumeric DEF Call, exp
  <1>s. \A p \in {"recordFailedLogin", "refused", "clearFailedLogins", "revoke",
                  "isTokenRevoked", "updatePassword", "revokeRefresh", "sign",
                  "checkAccount", "setCutoff", "insertReset", "consumeTicket",
                  "consumeReset", "invalidate", "insertTicket", "findById", "ok"} :
          p \in Steps \cup Outcomes /\ p # "revokeToken"
    BY DEF Steps, Outcomes
  (* Steps that leave the tables alone. *)
  <1>1. CASE RefreshAccount(r) \/ ValidateDenyList(r) \/ ResetTooLate(r)
             \/ RedeemAccount(r) \/ RedeemTooLate(r)
    <2>1. PICK next \in {"sign", "refused", "checkAccount", "consumeTicket"} : Goto(r, next)
      BY <1>1 DEF RefreshAccount, ValidateDenyList, ResetTooLate, RedeemAccount,
                  RedeemTooLate
    <2>2. UNCHANGED <<now, tables>>
      BY <1>1 DEF RefreshAccount, ValidateDenyList, ResetTooLate, RedeemAccount,
                  RedeemTooLate
    <2> QED
      BY <1>0, <1>s, <2>1, <2>2, GotoTyped DEF StoreTypeOK, tables
  <1>2. CASE Sign(r)
    <2>1. req' \in [Requests -> Call]
      <3>1. req' = [req EXCEPT ![r] = [req[r] EXCEPT !.pc = "create", !.time = now]]
        BY <1>2 DEF Sign
      <3>2. [req[r] EXCEPT !.pc = "create", !.time = now] \in Call
        BY <1>0, CallUpdateTyped DEF Steps, StoreTypeOK
      <3> QED
        BY <1>0, <3>1, <3>2
    <2>2. LogoutHasAccess'
      BY <1>2, <1>0 DEF Sign, Call, LogoutHasAccess
    <2> QED
      BY <1>2, <1>0, <2>1, <2>2 DEF Sign, StoreTypeOK, tables
  <1>3. CASE ValidateAccount(r)
    <2>1. req' \in [Requests -> Call]
      <3>1. PICK answer \in Outcomes :
              req' = [req EXCEPT ![r] = [req[r] EXCEPT !.pc = answer, !.time = now]]
        BY <1>3 DEF ValidateAccount, Outcomes
      <3>2. [req[r] EXCEPT !.pc = answer, !.time = now] \in Call
        BY <1>0, CallUpdateTyped DEF StoreTypeOK
      <3> QED
        BY <1>0, <3>1, <3>2
    <2>2. LogoutHasAccess'
      BY <1>3, <1>0 DEF ValidateAccount, Call, LogoutHasAccess
    <2> QED
      BY <1>3, <1>0, <2>1, <2>2 DEF ValidateAccount, StoreTypeOK, tables
  (* Steps that write central_users. *)
  <1>4. CASE RecordFailedLogin(r)
    <2>1. users' \in [Users -> UserRow]
      BY <1>4, <1>0, ConfigurationIsNumeric
         DEF RecordFailedLogin, recordFailedLogin, StoreTypeOK, UserRow
    <2> QED
      BY <1>4, <1>0, <1>s, <2>1, GotoTyped DEF RecordFailedLogin, StoreTypeOK
  <1>5. CASE ClearFailedLogins(r)
    <2>1. users' \in [Users -> UserRow]
      BY <1>5, <1>0 DEF ClearFailedLogins, clearFailedLogins, StoreTypeOK, UserRow
    <2> QED
      BY <1>5, <1>0, <1>s, <2>1, GotoTyped DEF ClearFailedLogins, StoreTypeOK
  <1>6. CASE UpdatePassword(r)
    <2>1. users' \in [Users -> UserRow]
      BY <1>6, <1>0 DEF UpdatePassword, updatePassword, StoreTypeOK, UserRow, Passwords
    <2> QED
      BY <1>6, <1>0, <1>s, <2>1, GotoTyped DEF UpdatePassword, StoreTypeOK
  <1>7. CASE SetCutoff(r)
    <2>1. users' \in [Users -> UserRow]
      BY <1>7, <1>0 DEF SetCutoff, setCutoff, StoreTypeOK, UserRow
    <2> QED
      BY <1>7, <1>0, <1>s, <2>1, GotoTyped DEF SetCutoff, StoreTypeOK
  (* Steps that insert a row. *)
  <1>8. CASE Create(r)
    <2>1. IsTable(refresh_tokens', RefreshRow)
      <3>1. [user_id |-> req[r].user, expires_at |-> now + RefreshTtl,
             revoked |-> FALSE] \in RefreshRow
        BY <1>0, ConfigurationIsNumeric DEF StoreTypeOK, RefreshRow
      <3> QED
        BY <1>8, <1>0, <3>1, InsertTyped DEF Create, createRefresh, StoreTypeOK
    <2> QED
      BY <1>8, <1>0, <1>s, <2>1, GotoTyped DEF Create, StoreTypeOK
  <1>9. CASE LogoutDeny(r)
    <2>1. req[r].access \in Requests
      BY <1>9, <1>0 DEF LogoutDeny, At, LogoutHasAccess
    <2>2. IsTable(revoked_tokens', Nat)
      BY <1>9, <1>0, <2>1, InsertTyped DEF LogoutDeny, revokeToken, StoreTypeOK
    <2> QED
      BY <1>9, <1>0, <1>s, <2>2, GotoTyped DEF LogoutDeny, StoreTypeOK
  <1>10. CASE InsertReset(r)
    <2>1. [user_id |-> req[r].user, expires_at |-> now + ResetTtl,
           used |-> FALSE] \in ResetRow
      BY <1>0, ConfigurationIsNumeric DEF StoreTypeOK, ResetRow
    <2>2. IsTable(password_reset_tokens', ResetRow)
      BY <1>10, <1>0, <2>1, InsertTyped DEF InsertReset, insertReset, StoreTypeOK
    <2> QED
      BY <1>10, <1>0, <1>s, <2>2, GotoTyped DEF InsertReset, StoreTypeOK
  <1>11. CASE InsertTicket(r)
    <2>1. [user_id |-> req[r].user, target |-> req[r].target,
           expires_at |-> now + SsoTtl, used |-> FALSE] \in TicketRow
      BY <1>0, ConfigurationIsNumeric DEF StoreTypeOK, TicketRow
    <2>2. IsTable(sso_tickets', TicketRow)
      BY <1>11, <1>0, <2>1, InsertTyped DEF InsertTicket, insertTicket, StoreTypeOK
    <2> QED
      BY <1>11, <1>0, <1>s, <2>2, GotoTyped DEF InsertTicket, StoreTypeOK
  (* Steps that mark rows. *)
  <1>12. CASE RefreshRevoke(r) \/ LogoutRevoke(r)
    <2>1. IsTable(refresh_tokens', RefreshRow)
      <3>1. revokeRefresh(req[r].token)
        BY <1>12 DEF RefreshRevoke, LogoutRevoke, RevokeThen
      <3> QED
        BY <3>1, <1>0 DEF revokeRefresh, StoreTypeOK, IsTable, RefreshRow
    <2>2. req' \in [Requests -> Call] /\ LogoutHasAccess'
      <3>1. CASE RefreshRevoke(r)
        BY <3>1, <1>0, <1>s, GotoTyped DEF RefreshRevoke, RevokeThen
      <3>2. CASE LogoutRevoke(r)
        <4>1. CASE req[r].access # None /\ verifies(req[r].access)
          <5>1. Goto(r, "revokeToken")
            BY <3>2, <4>1 DEF LogoutRevoke, RevokeThen
          <5>2. req[r].access \in Requests
            BY <1>0, <4>1 DEF Call
          <5> QED
            BY <1>0, <5>1, <5>2, GotoTyped, StepsDiffer
        <4>2. CASE ~(req[r].access # None /\ verifies(req[r].access))
          BY <3>2, <4>2, <1>0, <1>s, GotoTyped DEF LogoutRevoke, RevokeThen
        <4> QED
          BY <4>1, <4>2
      <3> QED
        BY <1>12, <3>1, <3>2
    <2> QED
      BY <1>12, <1>0, <2>1, <2>2 DEF RefreshRevoke, LogoutRevoke, RevokeThen, StoreTypeOK
  <1>13. CASE RevokeRefreshOfUser(r)
    <2>1. IsTable(refresh_tokens', RefreshRow)
      BY <1>13, <1>0 DEF RevokeRefreshOfUser, revokeRefreshOfUser, StoreTypeOK,
                         IsTable, RefreshRow
    <2> QED
      BY <1>13, <1>0, <1>s, <2>1, GotoTyped DEF RevokeRefreshOfUser, StoreTypeOK
  <1>14. CASE InvalidateOutstanding(r)
    <2>1. IsTable(password_reset_tokens', ResetRow)
      BY <1>14, <1>0 DEF InvalidateOutstanding, invalidateOutstanding, StoreTypeOK,
                         IsTable, ResetRow
    <2> QED
      BY <1>14, <1>0, <1>s, <2>1, GotoTyped DEF InvalidateOutstanding, StoreTypeOK
  <1>15. CASE ResetConsumed(r)
    <2>1. IsTable(password_reset_tokens', ResetRow)
      BY <1>15, <1>0 DEF ResetConsumed, consumeReset, StoreTypeOK, IsTable, ResetRow
    <2> QED
      BY <1>15, <1>0, <1>s, <2>1, GotoTyped DEF ResetConsumed, StoreTypeOK
  <1>16. CASE RedeemConsumed(r)
    <2>1. IsTable(sso_tickets', TicketRow)
      BY <1>16, <1>0 DEF RedeemConsumed, consumeTicket, StoreTypeOK, IsTable, TicketRow
    <2> QED
      BY <1>16, <1>0, <1>s, <2>1, GotoTyped DEF RedeemConsumed, StoreTypeOK
  <1> QED
    BY <1>1, <1>2, <1>3, <1>4, <1>5, <1>6, <1>7, <1>8, <1>9, <1>10, <1>11, <1>12,
       <1>13, <1>14, <1>15, <1>16 DEF Continue

LEMMA TypeStep == TypeInv /\ [Next]_vars => TypeInv'
  <1> SUFFICES ASSUME TypeInv, [Next]_vars PROVE TypeInv'
    OBVIOUS
  <1>0. req \in [Requests -> Call] /\ StoreTypeOK /\ LogoutHasAccess
    BY DEF TypeInv, TypeOK
  <1>1. CASE \E r \in Requests : Arrive(r) \/ Continue(r)
    BY <1>1, ArriveTyped, ContinueTyped
  <1>2. CASE \E r \in Requests : Fail(r) \/ LogoutDenyFails(r)
    <2>1. req' \in [Requests -> Call]
      <3>1. CASE \E r \in Requests : Fail(r)
        BY <3>1, <1>0, CallUpdateTyped DEF Fail
      <3>2. CASE \E r \in Requests : LogoutDenyFails(r)
        <4>1. PICK r \in Requests :
                req' = [req EXCEPT ![r] = [req[r] EXCEPT !.pc = "ok", !.failed = TRUE]]
          BY <3>2 DEF LogoutDenyFails
        <4>2. [req[r] EXCEPT !.pc = "ok", !.failed = TRUE] \in Call
          BY <1>0, CallUpdateTyped DEF Outcomes
        <4> QED
          BY <1>0, <4>1, <4>2
      <3> QED
        BY <1>2, <3>1, <3>2
    <2>2. LogoutHasAccess'
      BY <1>2, <1>0 DEF Fail, LogoutDenyFails, Call, LogoutHasAccess
    <2> QED
      BY <1>2, <1>0, <2>1, <2>2 DEF Fail, LogoutDenyFails, TypeInv, TypeOK, StoreTypeOK,
                                    tables
  <1>3. CASE PurgeRevoked
    <2>1. IsTable(revoked_tokens', Nat)
      BY <1>3, <1>0 DEF PurgeRevoked, purgeRevoked, StoreTypeOK, IsTable
    <2> QED
      BY <1>3, <1>0, <2>1 DEF PurgeRevoked, TypeInv, TypeOK, StoreTypeOK, LogoutHasAccess
  <1>4. CASE PurgeResets
    <2>1. IsTable(password_reset_tokens', ResetRow)
      BY <1>4, <1>0 DEF PurgeResets, purgeResets, Unexpired, StoreTypeOK, IsTable
    <2> QED
      BY <1>4, <1>0, <2>1 DEF PurgeResets, TypeInv, TypeOK, StoreTypeOK, LogoutHasAccess
  <1>5. CASE PurgeTickets
    <2>1. IsTable(sso_tickets', TicketRow)
      BY <1>5, <1>0 DEF PurgeTickets, purgeTickets, Unexpired, StoreTypeOK, IsTable
    <2> QED
      BY <1>5, <1>0, <2>1 DEF PurgeTickets, TypeInv, TypeOK, StoreTypeOK, LogoutHasAccess
  <1>6. CASE Tick \/ Quiet \/ UNCHANGED vars
    BY <1>6, <1>0 DEF Tick, Quiet, vars, tables, TypeInv, TypeOK, StoreTypeOK,
                      LogoutHasAccess
  <1> QED
    BY <1>1, <1>2, <1>3, <1>4, <1>5, <1>6 DEF Next

(* The tables and the calls have the shapes the code gives them            *)
(* (src/repositories, AuthService).                                        *)
THEOREM TypeCorrect == Spec => []TypeOK
  <1>1. TypeInv => TypeOK
    BY DEF TypeInv
  <1> QED
    BY <1>1, TypeInit, TypeStep, PTL DEF Spec

-----------------------------------------------------------------------------
(* The step of a call: what it starts from, and what it does to its rows.  *)

Keeps(r) ==
    /\ req'[r].kind = req[r].kind /\ req'[r].user = req[r].user
    /\ req'[r].token = req[r].token /\ req'[r].access = req[r].access
    /\ req'[r].target = req[r].target /\ req'[r].before = req[r].before

OthersStay(r) == \A q \in Requests : q # r => req'[q] = req[q]

active(u) == users[u].status = "active"

(* What a call of this kind, with these arguments, is admitted to when it   *)
(* has read what it reads first.                                           *)
Arrival(kind, u, t, s, target, next) ==
    \/ kind = "login" /\ next = "refused"
    \/ kind = "login" /\ next = "recordFailedLogin" /\ ~isLocked(u)
    \/ /\ kind = "login" /\ next = "clearFailedLogins"
       /\ ~isLocked(u) /\ active(u) /\ ~blocked(u)
    \/ /\ kind = "refresh" /\ next = "revoke" /\ t \in Opened
       /\ refreshable(t) /\ u = refresh_tokens[t].user_id
    \/ /\ kind = "refresh" /\ next = "refused" /\ t \in Opened
       /\ ~refreshable(t) /\ u = req[t].user
    \/ /\ kind = "validateToken" /\ s \in Opened /\ u = req[s].user
       /\ next = IF verifies(s) THEN "isTokenRevoked" ELSE "refused"
    \/ /\ kind = "me" /\ s \in Opened /\ u = req[s].user
       /\ next # "refused" => next = "ok" /\ active(u)
    \/ /\ kind = "logout" /\ next = "revoke" /\ t \in Opened /\ u = req[t].user
       /\ s \in Opened \cup {None}
    \/ /\ kind = "changePassword" /\ next \in {"updatePassword", "refused"}
       /\ s \in Opened /\ u = req[s].user
    \/ kind = "revokeAllSessions" /\ next = "revokeRefresh"
    \/ /\ kind = "resetPassword" /\ t \in Mailed /\ u = req[t].user
       /\ next = IF redeemable(password_reset_tokens, t)
                 THEN "consumeReset" ELSE "refused"
    \/ /\ kind = "forgotPassword"
       /\ next # "refused" => next = "invalidate" /\ active(u)
    \/ /\ kind = "createSsoTicket" /\ s \in Opened /\ u = req[s].user
       /\ next # "refused" => next = "insertTicket" /\ active(u)
    \/ /\ kind = "redeemSsoTicket" /\ t \in Tickets /\ u = req[t].user
       /\ next # "refused" => /\ next = "findById" /\ redeemable(sso_tickets, t)
                             /\ sso_tickets[t].target = target
    \/ kind = "ban" /\ next = "ok" /\ users'[u].status = "suspended"
    \/ kind = "changeEmail" /\ next = "ok" /\ users'[u].email_verified = FALSE
    \/ kind = "verifyEmail" /\ next = "ok"

Begins(r) ==
    /\ req[r].pc = "idle" /\ req'[r].failed = FALSE /\ req'[r].time = 0
    /\ req'[r].before = {q \in Requests : Over(q)}
    /\ OthersStay(r)
    /\ Arrival(req'[r].kind, req'[r].user, req'[r].token, req'[r].access, req'[r].target,
               req'[r].pc)

Edge(r, kinds, from, to) ==
    req[r].kind \in kinds /\ req[r].pc = from /\ req'[r].pc = to

(* The graph of the handlers: each edge with its condition and its effect. *)
Path(r) ==
    LET u == req[r].user
        t == req[r].token
        s == req[r].access
        resets == password_reset_tokens
    IN  \/ Edge(r, {"login"}, "recordFailedLogin", "refused")
        \/ Edge(r, {"login"}, "clearFailedLogins", "sign")
        \/ Edge(r, Openers, "sign", "create")
        \/ /\ Edge(r, Openers, "create", "ok")
           /\ refresh_tokens' = Insert(refresh_tokens, r,
                [user_id |-> u, expires_at |-> now + RefreshTtl, revoked |-> FALSE])
        \/ Edge(r, {"refresh"}, "revoke", "findById") /\ revokeRefresh(t)
        \/ Edge(r, {"refresh"}, "findById", "sign") /\ active(u)
        \/ Edge(r, {"refresh"}, "findById", "refused") /\ ~active(u)
        \/ Edge(r, {"validateToken"}, "isTokenRevoked", "refused") /\ isTokenRevoked(s)
        \/ Edge(r, {"validateToken"}, "isTokenRevoked", "checkAccount") /\ ~isTokenRevoked(s)
        \/ Edge(r, {"validateToken"}, "checkAccount", "ok") /\ accepts(s)
        \/ Edge(r, {"validateToken"}, "checkAccount", "refused") /\ ~accepts(s)
        \/ /\ Edge(r, {"logout"}, "revoke", "revokeToken") /\ revokeRefresh(t)
           /\ s # None /\ verifies(s)
        \/ /\ Edge(r, {"logout"}, "revoke", "ok") /\ revokeRefresh(t)
           /\ ~(s # None /\ verifies(s))
        \/ Edge(r, {"logout"}, "revokeToken", "ok") /\ revokeToken(s, exp(s))
        \/ /\ Edge(r, {"resetPassword"}, "consumeReset", "updatePassword")
           /\ redeemable(resets, t) /\ consumeReset(t)
        \/ Edge(r, {"resetPassword"}, "consumeReset", "refused")
        \/ Edge(r, {"changePassword", "resetPassword"}, "updatePassword", "revokeRefresh")
        \/ Edge(r, Cutters, "revokeRefresh", "setCutoff") /\ revokeRefreshOfUser(u)
        \/ Edge(r, Cutters, "setCutoff", "ok") /\ setCutoff(u)
        \/ Edge(r, {"forgotPassword"}, "invalidate", "insertReset") /\ invalidateOutstanding(u)
        \/ Edge(r, {"forgotPassword"}, "insertReset", "ok") /\ insertReset(r, u)
        \/ /\ Edge(r, {"createSsoTicket"}, "insertTicket", "ok")
           /\ insertTicket(r, u, req[r].target)
        \/ Edge(r, {"redeemSsoTicket"}, "findById", "consumeTicket") /\ active(u) /\ ~blocked(u)
        \/ Edge(r, {"redeemSsoTicket"}, "findById", "refused")
        \/ /\ Edge(r, {"redeemSsoTicket"}, "consumeTicket", "sign")
           /\ redeemable(sso_tickets, t) /\ consumeTicket(t)
        \/ Edge(r, {"redeemSsoTicket"}, "consumeTicket", "refused")

Goes(r) ==
    /\ Keeps(r) /\ OthersStay(r)
    /\ req[r].pc \in Steps /\ ~req[r].failed /\ ~req'[r].failed
    /\ req'[r].time = IF req[r].pc \in {"sign", "checkAccount"} THEN now ELSE req[r].time
    /\ Path(r)

Fails(r) ==
    /\ Keeps(r) /\ OthersStay(r)
    /\ req[r].pc \in Steps /\ ~req[r].failed /\ req'[r].failed
    /\ req'[r].time = req[r].time
    /\ req'[r].pc = req[r].pc \/ Edge(r, {"logout"}, "revokeToken", "ok")
    /\ UNCHANGED tables

LEMMA BeginBegins ==
    ASSUME req \in [Requests -> Call], NEW r \in Requests,
           NEW kind, NEW u, NEW token, NEW access, NEW target, NEW next,
           Begin(r, kind, u, token, access, target, next)
    PROVE  /\ req[r].pc = "idle" /\ req'[r].failed = FALSE /\ req'[r].time = 0
           /\ req'[r].before = {q \in Requests : Over(q)}
           /\ OthersStay(r)
           /\ req'[r].kind = kind /\ req'[r].user = u /\ req'[r].token = token
           /\ req'[r].access = access /\ req'[r].target = target /\ req'[r].pc = next
  BY DEF Begin, OthersStay

LEMMA GotoMoves ==
    ASSUME req \in [Requests -> Call], NEW r \in Requests, NEW next, Goto(r, next)
    PROVE  /\ Keeps(r) /\ OthersStay(r) /\ req'[r].pc = next
           /\ req'[r].failed = req[r].failed /\ req'[r].time = req[r].time
  BY DEF Goto, Call, Keeps, OthersStay

LEMMA ArriveBegins ==
    ASSUME TypeInv, NEW r \in Requests, Arrive(r)
    PROVE  Begins(r)
  <1>0. req \in [Requests -> Call] /\ users \in [Users -> UserRow]
    BY DEF TypeInv, TypeOK, StoreTypeOK
  <1>1. PICK kind, u, t, s, target, next :
          Begin(r, kind, u, t, s, target, next) /\ Arrival(kind, u, t, s, target, next)
    <2>1. CASE LoginWrongPassword(r)
      BY <2>1 DEF LoginWrongPassword, Arrival
    <2>2. CASE LoginRefused(r)
      BY <2>2 DEF LoginRefused, Arrival
    <2>3. CASE LoginAdmitted(r)
      BY <2>3 DEF LoginAdmitted, Arrival, active
    <2>4. CASE RefreshFound(r)
      BY <2>4 DEF RefreshFound, Arrival
    <2>5. CASE RefreshRefused(r)
      BY <2>5 DEF RefreshRefused, Arrival
    <2>6. CASE ValidateBegin(r)
      BY <2>6 DEF ValidateBegin, Arrival
    <2>7. CASE Me(r)
      BY <2>7 DEF Me, Arrival, active
    <2>8. CASE LogoutBegin(r)
      BY <2>8 DEF LogoutBegin, Arrival
    <2>9. CASE ChangePassword(r)
      BY <2>9 DEF ChangePassword, Arrival
    <2>10. CASE RevokeAllSessions(r)
      BY <2>10 DEF RevokeAllSessions, Arrival
    <2>11. CASE ResetPeek(r)
      BY <2>11 DEF ResetPeek, Arrival
    <2>12. CASE ForgotPassword(r)
      BY <2>12 DEF ForgotPassword, Arrival, active
    <2>13. CASE CreateTicket(r)
      BY <2>13 DEF CreateTicket, Arrival, active
    <2>14. CASE RedeemPeek(r)
      BY <2>14 DEF RedeemPeek, Arrival
    <2>15. CASE Ban(r)
      BY <1>0, <2>15 DEF Ban, Arrival, setStatus, UserRow
    <2>16. CASE ChangeEmail(r)
      BY <1>0, <2>16 DEF ChangeEmail, Arrival, setEmailVerified, UserRow
    <2>17. CASE VerifyEmail(r)
      BY <2>17 DEF VerifyEmail, Arrival
    <2> QED
      BY <2>1, <2>2, <2>3, <2>4, <2>5, <2>6, <2>7, <2>8, <2>9, <2>10, <2>11, <2>12, <2>13, <2>14, <2>15, <2>16, <2>17 DEF Arrive
  <1> QED
    BY <1>0, <1>1, BeginBegins DEF Begins

LEMMA ContinueGoes ==
    ASSUME TypeInv, NEW r \in Requests, Continue(r)
    PROVE  Goes(r)
  <1>0. req \in [Requests -> Call]
    BY DEF TypeInv, TypeOK
  <1>1. CASE RecordFailedLogin(r)
    BY <1>0, <1>1, GotoMoves DEF RecordFailedLogin, At, Goes, Path, Edge, Steps
  <1>2. CASE ClearFailedLogins(r)
    BY <1>0, <1>2, GotoMoves DEF ClearFailedLogins, At, Goes, Path, Edge, Steps
  <1>3. CASE Create(r)
    BY <1>0, <1>3, GotoMoves DEF Create, At, Goes, Path, Edge, Steps, createRefresh
  <1>4. CASE RefreshRevoke(r)
    BY <1>0, <1>4, GotoMoves DEF RefreshRevoke, At, Goes, Path, Edge, Steps, RevokeThen
  <1>5. CASE RefreshAccount(r)
    BY <1>0, <1>5, GotoMoves DEF RefreshAccount, At, Goes, Path, Edge, Steps, active
  <1>6. CASE ValidateDenyList(r)
    BY <1>0, <1>6, GotoMoves DEF ValidateDenyList, At, Goes, Path, Edge, Steps
  <1>7. CASE LogoutRevoke(r)
    BY <1>0, <1>7, GotoMoves DEF LogoutRevoke, At, Goes, Path, Edge, Steps, RevokeThen
  <1>8. CASE LogoutDeny(r)
    BY <1>0, <1>8, GotoMoves DEF LogoutDeny, At, Goes, Path, Edge, Steps
  <1>9. CASE ResetConsumed(r)
    BY <1>0, <1>9, GotoMoves DEF ResetConsumed, At, Goes, Path, Edge, Steps
  <1>10. CASE ResetTooLate(r)
    BY <1>0, <1>10, GotoMoves DEF ResetTooLate, At, Goes, Path, Edge, Steps
  <1>11. CASE UpdatePassword(r)
    BY <1>0, <1>11, GotoMoves DEF UpdatePassword, At, Goes, Path, Edge, Steps
  <1>12. CASE RevokeRefreshOfUser(r)
    BY <1>0, <1>12, GotoMoves DEF RevokeRefreshOfUser, At, Goes, Path, Edge, Steps
  <1>13. CASE SetCutoff(r)
    BY <1>0, <1>13, GotoMoves DEF SetCutoff, At, Goes, Path, Edge, Steps
  <1>14. CASE InvalidateOutstanding(r)
    BY <1>0, <1>14, GotoMoves DEF InvalidateOutstanding, At, Goes, Path, Edge, Steps
  <1>15. CASE InsertReset(r)
    BY <1>0, <1>15, GotoMoves DEF InsertReset, At, Goes, Path, Edge, Steps
  <1>16. CASE InsertTicket(r)
    BY <1>0, <1>16, GotoMoves DEF InsertTicket, At, Goes, Path, Edge, Steps
  <1>17. CASE RedeemAccount(r)
    BY <1>0, <1>17, GotoMoves DEF RedeemAccount, At, Goes, Path, Edge, Steps, active
  <1>18. CASE RedeemConsumed(r)
    BY <1>0, <1>18, GotoMoves DEF RedeemConsumed, At, Goes, Path, Edge, Steps
  <1>19. CASE RedeemTooLate(r)
    BY <1>0, <1>19, GotoMoves DEF RedeemTooLate, At, Goes, Path, Edge, Steps
  <1>20. CASE Sign(r)
    BY <1>0, <1>20 DEF Sign, At, Goes, Path, Edge, Steps, Keeps, OthersStay, Call
  <1>21. CASE ValidateAccount(r)
    BY <1>0, <1>21 DEF ValidateAccount, At, Goes, Path, Edge, Steps, Keeps, OthersStay, Call
  <1> QED
    BY <1>1, <1>2, <1>3, <1>4, <1>5, <1>6, <1>7, <1>8, <1>9, <1>10, <1>11, <1>12, <1>13, <1>14, <1>15, <1>16, <1>17, <1>18, <1>19, <1>20, <1>21 DEF Continue

LEMMA FailFails ==
    ASSUME TypeInv, NEW r \in Requests, Fail(r) \/ LogoutDenyFails(r)
    PROVE  Fails(r)
  BY DEF TypeInv, TypeOK, Fail, LogoutDenyFails, At, Fails, Edge, Keeps, OthersStay, Call,
         Steps

(* Every step is the step of one call, or of none. *)
LEMMA CallStep ==
    ASSUME TypeInv, [Next]_vars, NEW q \in Requests
    PROVE  req'[q] = req[q] \/ Begins(q) \/ Goes(q) \/ Fails(q)
  <1>1. CASE \E r \in Requests : Arrive(r) \/ Continue(r) \/ Fail(r) \/ LogoutDenyFails(r)
    <2>1. PICK r \in Requests : Begins(r) \/ Goes(r) \/ Fails(r)
      BY <1>1, ArriveBegins, ContinueGoes, FailFails
    <2> QED
      BY <2>1 DEF Begins, Goes, Fails, OthersStay
  <1>2. CASE PurgeRevoked \/ PurgeResets \/ PurgeTickets \/ Tick \/ Quiet \/ UNCHANGED vars
    BY <1>2 DEF PurgeRevoked, PurgeResets, PurgeTickets, Tick, Quiet, vars
  <1> QED
    BY <1>1, <1>2 DEF Next

-----------------------------------------------------------------------------
(* A call that has begun keeps what it was given, and once it is over it   *)
(* changes no more.                                                        *)
Steady(q) ==
    /\ req[q].pc # "idle" => Keeps(q) /\ req'[q].pc # "idle"
    /\ Over(q) => req'[q] = req[q]

(* No call has failed, or is of any kind but the first, before it began. *)
Rested == \A q \in Requests : req[q].pc = "idle" => ~req[q].failed /\ req[q].kind = "login"

(* What was over when a call began is over for good. *)
BeforeOver == \A q \in Requests : \A p \in req[q].before : Over(p)

CallInv == TypeInv /\ Rested /\ BeforeOver

LEMMA CallsAreSteady ==
    ASSUME CallInv, [Next]_vars, NEW q \in Requests
    PROVE  Steady(q)
  <1>1. req'[q] = req[q] \/ Begins(q) \/ Goes(q) \/ Fails(q)
    BY CallStep DEF CallInv
  <1>2. CASE req'[q] = req[q]
    BY <1>2 DEF Steady, Keeps
  <1>3. CASE Begins(q)
    BY <1>3 DEF Steady, Begins, Over, Outcomes, CallInv, Rested
  <1>4. CASE Goes(q)
    BY <1>4 DEF Steady, Goes, Path, Edge, Over, Outcomes, Steps
  <1>5. CASE Fails(q)
    BY <1>5 DEF Steady, Fails, Edge, Over, Outcomes, Steps
  <1> QED
    BY <1>1, <1>2, <1>3, <1>4, <1>5

(* What was opened, mailed or minted stays so. *)
LEMMA AnswersStay ==
    ASSUME CallInv, [Next]_vars
    PROVE  /\ \A s \in Opened : s \in Opened' /\ req'[s] = req[s]
           /\ \A s \in Mailed : s \in Mailed' /\ req'[s] = req[s]
           /\ \A s \in Tickets : s \in Tickets' /\ req'[s] = req[s]
  BY CallsAreSteady DEF Steady, Over, Outcomes, Opened, Mailed, Tickets, Answers

LEMMA CallInit == Init => CallInv
  <1> SUFFICES ASSUME Init PROVE CallInv
    OBVIOUS
  <1>1. \A q \in Requests :
          req[q].failed = FALSE /\ req[q].kind = "login" /\ req[q].before = {}
    BY DEF Init
  <1> QED
    BY <1>1, TypeInit DEF CallInv, Rested, BeforeOver

LEMMA CallNext == CallInv /\ [Next]_vars => CallInv'
  <1> SUFFICES ASSUME CallInv, [Next]_vars PROVE CallInv'
    OBVIOUS
  <1>0. TypeInv /\ TypeInv' /\ req \in [Requests -> Call]
    BY TypeStep DEF CallInv, TypeInv, TypeOK
  <1>1. \A q \in Requests : req'[q] = req[q] \/ Begins(q) \/ Goes(q) \/ Fails(q)
    BY <1>0, CallStep
  <1>2. Rested'
    BY <1>1, CallsAreSteady DEF Steady, CallInv, Rested, Begins, Arrival, Goes, Fails, Edge, Steps
  <1>3. BeforeOver'
    <2> SUFFICES ASSUME NEW q \in Requests, NEW p \in req'[q].before
                 PROVE  Over(p)'
      BY DEF BeforeOver
    <2>1. p \in Requests /\ Over(p)
      <3>1. req[q].before \in SUBSET Requests
        BY <1>0 DEF Call
      <3> QED
        BY <1>1, <3>1 DEF CallInv, BeforeOver, Begins, Goes, Fails, Keeps
    <2> QED
      BY <2>1, CallsAreSteady DEF Steady, Over
  <1> QED
    BY <1>0, <1>2, <1>3 DEF CallInv

-----------------------------------------------------------------------------
(* Which statements write which table. *)

LEMMA UsersWriters ==
    ASSUME [Next]_vars
    PROVE  \/ UNCHANGED users
           \/ \E r \in Requests :
                \/ RecordFailedLogin(r) \/ ClearFailedLogins(r) \/ UpdatePassword(r)
                \/ SetCutoff(r) \/ Ban(r) \/ ChangeEmail(r) \/ VerifyEmail(r)
  <1>1. ASSUME NEW r \in Requests, Arrive(r)
        PROVE  Ban(r) \/ ChangeEmail(r) \/ VerifyEmail(r) \/ UNCHANGED users
    BY <1>1 DEF Arrive, LoginWrongPassword, LoginRefused, LoginAdmitted, RefreshFound,
         RefreshRefused, ValidateBegin, Me, LogoutBegin, ChangePassword, RevokeAllSessions,
         ResetPeek, ForgotPassword, CreateTicket, RedeemPeek, tables
  <1>2. ASSUME NEW r \in Requests, Continue(r)
        PROVE  \/ RecordFailedLogin(r) \/ ClearFailedLogins(r) \/ UpdatePassword(r)
               \/ SetCutoff(r) \/ UNCHANGED users
    BY <1>2 DEF Continue, Sign, Create, RefreshRevoke, LogoutRevoke, RevokeThen,
         RefreshAccount, ValidateDenyList, ValidateAccount, LogoutDeny, ResetConsumed,
         ResetTooLate, RevokeRefreshOfUser, InvalidateOutstanding, InsertReset,
         InsertTicket, RedeemAccount, RedeemConsumed, RedeemTooLate, tables
  <1>3. CASE \/ \E r \in Requests : Fail(r) \/ LogoutDenyFails(r)
             \/ PurgeRevoked \/ PurgeResets \/ PurgeTickets \/ Tick \/ Quiet
             \/ UNCHANGED vars
    BY <1>3 DEF Fail, LogoutDenyFails, PurgeRevoked, PurgeResets, PurgeTickets, Tick, Quiet,
         vars, tables
  <1> QED
    BY <1>1, <1>2, <1>3 DEF Next

(* No call that arrives writes a row of a token. *)
LEMMA ArrivalsWriteNoToken ==
    ASSUME NEW r \in Requests, Arrive(r)
    PROVE  UNCHANGED <<now, refresh_tokens, revoked_tokens, sso_tickets,
                       password_reset_tokens>>
  BY DEF Arrive, LoginWrongPassword, LoginRefused, LoginAdmitted, RefreshFound,
       RefreshRefused, ValidateBegin, Me, LogoutBegin, ChangePassword, RevokeAllSessions,
       ResetPeek, ForgotPassword, CreateTicket, RedeemPeek, Ban, ChangeEmail, VerifyEmail,
       tables

LEMMA RefreshWriters ==
    ASSUME [Next]_vars
    PROVE  \/ UNCHANGED refresh_tokens
           \/ \E r \in Requests :
                Create(r) \/ RefreshRevoke(r) \/ LogoutRevoke(r) \/ RevokeRefreshOfUser(r)
  <1>1. ASSUME NEW r \in Requests, Continue(r)
        PROVE  \/ Create(r) \/ RefreshRevoke(r) \/ LogoutRevoke(r) \/ RevokeRefreshOfUser(r)
               \/ UNCHANGED refresh_tokens
    BY <1>1 DEF Continue, RecordFailedLogin, ClearFailedLogins, UpdatePassword, SetCutoff,
         Sign, RefreshAccount, ValidateDenyList, ValidateAccount, LogoutDeny, ResetConsumed,
         ResetTooLate, InvalidateOutstanding, InsertReset,
         InsertTicket, RedeemAccount, RedeemConsumed, RedeemTooLate, tables
  <1>2. CASE \/ \E r \in Requests : Fail(r) \/ LogoutDenyFails(r)
             \/ PurgeRevoked \/ PurgeResets \/ PurgeTickets \/ Tick \/ Quiet
             \/ UNCHANGED vars
    BY <1>2 DEF Fail, LogoutDenyFails, PurgeRevoked, PurgeResets, PurgeTickets, Tick, Quiet,
         vars, tables
  <1> QED
    BY <1>1, <1>2, ArrivalsWriteNoToken DEF Next

LEMMA DenyWriters ==
    ASSUME [Next]_vars
    PROVE  \/ UNCHANGED revoked_tokens \/ PurgeRevoked
           \/ \E r \in Requests : LogoutDeny(r)
  <1>1. ASSUME NEW r \in Requests, Continue(r)
        PROVE  LogoutDeny(r) \/ UNCHANGED revoked_tokens
    BY <1>1 DEF Continue, RecordFailedLogin, ClearFailedLogins, UpdatePassword, SetCutoff,
         Sign, Create, RefreshRevoke, LogoutRevoke, RevokeThen, RevokeRefreshOfUser,
         RefreshAccount, ValidateDenyList, ValidateAccount, ResetConsumed, ResetTooLate,
         InvalidateOutstanding, InsertReset,
         InsertTicket, RedeemAccount, RedeemConsumed, RedeemTooLate, tables
  <1>2. CASE \/ \E r \in Requests : Fail(r) \/ LogoutDenyFails(r)
             \/ PurgeResets \/ PurgeTickets \/ Tick \/ Quiet \/ UNCHANGED vars
    BY <1>2 DEF Fail, LogoutDenyFails, PurgeResets, PurgeTickets, Tick, Quiet, vars, tables
  <1> QED
    BY <1>1, <1>2, ArrivalsWriteNoToken DEF Next

LEMMA ResetWriters ==
    ASSUME [Next]_vars
    PROVE  \/ UNCHANGED password_reset_tokens \/ PurgeResets
           \/ \E r \in Requests :
                InvalidateOutstanding(r) \/ InsertReset(r) \/ ResetConsumed(r)
  <1>1. ASSUME NEW r \in Requests, Continue(r)
        PROVE  \/ InvalidateOutstanding(r) \/ InsertReset(r) \/ ResetConsumed(r)
               \/ UNCHANGED password_reset_tokens
    BY <1>1 DEF Continue, RecordFailedLogin, ClearFailedLogins, UpdatePassword, SetCutoff,
         Sign, Create, RefreshRevoke, LogoutRevoke, RevokeThen, RevokeRefreshOfUser,
         RefreshAccount, ValidateDenyList, ValidateAccount, LogoutDeny, ResetTooLate,
         InsertTicket, RedeemAccount, RedeemConsumed, RedeemTooLate, tables
  <1>2. CASE \/ \E r \in Requests : Fail(r) \/ LogoutDenyFails(r)
             \/ PurgeRevoked \/ PurgeTickets \/ Tick \/ Quiet \/ UNCHANGED vars
    BY <1>2 DEF Fail, LogoutDenyFails, PurgeRevoked, PurgeTickets, Tick, Quiet, vars, tables
  <1> QED
    BY <1>1, <1>2, ArrivalsWriteNoToken DEF Next

LEMMA TicketWriters ==
    ASSUME [Next]_vars
    PROVE  \/ UNCHANGED sso_tickets \/ PurgeTickets
           \/ \E r \in Requests : InsertTicket(r) \/ RedeemConsumed(r)
  <1>1. ASSUME NEW r \in Requests, Continue(r)
        PROVE  InsertTicket(r) \/ RedeemConsumed(r) \/ UNCHANGED sso_tickets
    BY <1>1 DEF Continue, RecordFailedLogin, ClearFailedLogins, UpdatePassword, SetCutoff,
         Sign, Create, RefreshRevoke, LogoutRevoke, RevokeThen, RevokeRefreshOfUser,
         RefreshAccount, ValidateDenyList, ValidateAccount, LogoutDeny, ResetConsumed,
         ResetTooLate, InvalidateOutstanding, InsertReset, RedeemAccount, RedeemTooLate,
         tables
  <1>2. CASE \/ \E r \in Requests : Fail(r) \/ LogoutDenyFails(r)
             \/ PurgeRevoked \/ PurgeResets \/ Tick \/ Quiet \/ UNCHANGED vars
    BY <1>2 DEF Fail, LogoutDenyFails, PurgeRevoked, PurgeResets, Tick, Quiet, vars, tables
  <1> QED
    BY <1>1, <1>2, ArrivalsWriteNoToken DEF Next

LEMMA ClockAdvances ==
    ASSUME TypeInv, [Next]_vars
    PROVE  now' \in Nat /\ now' >= now /\ (now' # now => UNCHANGED <<tables, req>>)
  <1>0. now \in Nat
    BY DEF TypeInv, TypeOK, StoreTypeOK
  <1>1. ASSUME NEW r \in Requests, Continue(r)
        PROVE  UNCHANGED now
    BY <1>1 DEF Continue, RecordFailedLogin, ClearFailedLogins, UpdatePassword, SetCutoff,
         Sign, Create, RefreshRevoke, LogoutRevoke, RevokeThen, RevokeRefreshOfUser,
         RefreshAccount, ValidateDenyList, ValidateAccount, LogoutDeny, ResetConsumed,
         ResetTooLate, InvalidateOutstanding, InsertReset,
         InsertTicket, RedeemAccount, RedeemConsumed, RedeemTooLate
  <1>2. CASE \/ \E r \in Requests : Fail(r) \/ LogoutDenyFails(r)
             \/ PurgeRevoked \/ PurgeResets \/ PurgeTickets \/ Quiet \/ UNCHANGED vars
    <2>1. UNCHANGED now
      BY <1>2 DEF Fail, LogoutDenyFails, PurgeRevoked, PurgeResets, PurgeTickets, Quiet, vars
    <2> QED
      BY <1>0, <2>1
  <1>3. CASE Tick
    BY <1>0, <1>3 DEF Tick
  <1>4. CASE \E r \in Requests : Arrive(r) \/ Continue(r)
    <2>1. UNCHANGED now
      BY <1>1, <1>4, ArrivalsWriteNoToken
    <2> QED
      BY <1>0, <2>1
  <1> QED
    BY <1>2, <1>3, <1>4 DEF Next

-----------------------------------------------------------------------------
(* A row of a token belongs to the call that was answered with that token. *)

RefreshRows ==
    /\ DOMAIN refresh_tokens = Opened
    /\ \A s \in Opened : /\ refresh_tokens[s].user_id = req[s].user
                         /\ refresh_tokens[s].expires_at >= req[s].time + RefreshTtl

OneTimeRows ==
    /\ DOMAIN sso_tickets \subseteq Tickets
    /\ DOMAIN password_reset_tokens \subseteq Mailed
    /\ \A t \in DOMAIN password_reset_tokens :
         password_reset_tokens[t].user_id = req[t].user

(* No time is noted before it comes, but for the second a cutoff adds. *)
TimesPast ==
    /\ \A q \in Requests : req[q].time <= now
    /\ \A u \in Users : users[u].tokens_valid_from <= now + 1

RowInv == CallInv /\ RefreshRows /\ OneTimeRows /\ TimesPast

LEMMA RowInit == Init => RowInv
  <1> SUFFICES ASSUME Init PROVE RowInv
    OBVIOUS
  <1>1. \A q \in Requests : req[q].pc = "idle" /\ req[q].time = 0
    BY DEF Init
  <1>2. Opened = {} /\ Mailed = {} /\ Tickets = {}
    BY <1>1 DEF Opened, Mailed, Tickets, Answers
  <1>3. /\ now = 0 /\ DOMAIN refresh_tokens = {} /\ DOMAIN sso_tickets = {}
        /\ DOMAIN password_reset_tokens = {}
        /\ \A u \in Users : users[u].tokens_valid_from = 0
    BY DEF Init, StoreInit, EmptyTable
  <1> QED
    BY <1>1, <1>2, <1>3, CallInit DEF RowInv, RefreshRows, OneTimeRows, TimesPast

(* Sessions are opened one at a time, and by inserting a row. *)
LEMMA OpenedStep ==
    ASSUME CallInv, [Next]_vars
    PROVE  \/ Opened' = Opened
           \/ \E r \in Requests : Goes(r) /\ Edge(r, Openers, "create", "ok")
                                  /\ r \notin Opened /\ Opened' = Opened \cup {r}
  <1>1. \A q \in Requests : req'[q] = req[q] \/ Begins(q) \/ Goes(q) \/ Fails(q)
    BY CallStep DEF CallInv
  <1>2. \A q \in Opened : q \in Opened'
    BY AnswersStay
  <1>3. ASSUME NEW r \in Requests, r \in Opened', r \notin Opened
        PROVE  Goes(r) /\ Edge(r, Openers, "create", "ok")
    <2>1. CASE Begins(r)
      BY <1>3, <2>1 DEF Begins, Arrival, Opened, Openers
    <2>2. CASE Goes(r)
      BY <1>3, <2>2 DEF Goes, Keeps, Path, Edge, Opened, Openers, Cutters
    <2>3. CASE Fails(r)
      BY <1>3, <2>3 DEF Fails, Keeps, Edge, Opened, Openers
    <2> QED
      BY <1>1, <1>3, <2>1, <2>2, <2>3 DEF Opened
  <1>4. CASE \E r \in Requests : r \in Opened' /\ r \notin Opened
    <2>1. PICK r \in Requests : r \in Opened' /\ r \notin Opened
      BY <1>4
    <2>2. Goes(r) /\ Edge(r, Openers, "create", "ok")
      BY <1>3, <2>1
    <2>3. \A q \in Requests : q # r => req'[q] = req[q]
      BY <2>2 DEF Goes, OthersStay
    <2>4. Opened' = Opened \cup {r}
      BY <1>2, <2>1, <2>3 DEF Opened
    <2> QED
      BY <2>1, <2>2, <2>4
  <1>5. CASE \A r \in Requests : r \in Opened' => r \in Opened
    BY <1>2, <1>5 DEF Opened
  <1> QED
    BY <1>4, <1>5

(* A step inserts the row of the session it opens, marks the row a refresh *)
(* or a logout presents, marks those of a user whose sessions are cut, or  *)
(* leaves the rows alone.                                                  *)
LEMMA RefreshStep ==
    ASSUME CallInv, [Next]_vars
    PROVE  \/ UNCHANGED refresh_tokens /\ Opened' = Opened
           \/ \E r \in Requests :
                /\ r \notin Opened /\ Opened' = Opened \cup {r}
                /\ req'[r].user = req[r].user /\ req'[r].time = req[r].time
                /\ refresh_tokens' = Insert(refresh_tokens, r,
                     [user_id |-> req[r].user, expires_at |-> now + RefreshTtl,
                      revoked |-> FALSE])
           \/ \E r \in Requests :
                /\ Goes(r) /\ Opened' = Opened
                /\ req[r].kind \in {"refresh", "logout"} /\ req[r].pc = "revoke"
                /\ revokeRefresh(req[r].token)
           \/ \E r \in Requests :
                /\ Goes(r) /\ Opened' = Opened
                /\ Edge(r, Cutters, "revokeRefresh", "setCutoff")
                /\ revokeRefreshOfUser(req[r].user)
  <1>1. CASE \E r \in Requests : r \notin Opened /\ r \in Opened'
    <2>1. PICK r \in Requests : /\ Goes(r) /\ Edge(r, Openers, "create", "ok")
                                /\ r \notin Opened /\ Opened' = Opened \cup {r}
      BY <1>1, OpenedStep
    <2>2. /\ req'[r].user = req[r].user /\ req'[r].time = req[r].time
          /\ refresh_tokens' = Insert(refresh_tokens, r,
               [user_id |-> req[r].user, expires_at |-> now + RefreshTtl,
                revoked |-> FALSE])
      BY <2>1 DEF Goes, Keeps, Path, Edge
    <2> QED
      BY <2>1, <2>2
  <1>2. CASE Opened' = Opened
    <2>1. CASE \E r \in Requests : Create(r)
      <3>1. PICK r \in Requests : Create(r)
        BY <2>1
      <3>2. /\ At(r, Openers, "create") /\ req \in [Requests -> Call] /\ Goto(r, "ok")
        BY <3>1 DEF Create, CallInv, TypeInv, TypeOK
      <3>3. r \in Opened' /\ r \notin Opened
        BY <3>2, GotoMoves DEF Keeps, At, Opened
      <3> QED
        BY <1>2, <3>3
    <2>2. CASE \E r \in Requests : RefreshRevoke(r) \/ LogoutRevoke(r)
      <3>1. PICK r \in Requests : RefreshRevoke(r) \/ LogoutRevoke(r)
        BY <2>2
      <3>2. Goes(r)
        BY <3>1, ContinueGoes DEF Continue, CallInv
      <3>3. /\ req[r].kind \in {"refresh", "logout"} /\ req[r].pc = "revoke"
            /\ revokeRefresh(req[r].token)
        BY <3>1 DEF RefreshRevoke, LogoutRevoke, RevokeThen, At
      <3> QED
        BY <1>2, <3>2, <3>3
    <2>3. CASE \E r \in Requests : RevokeRefreshOfUser(r)
      <3>1. PICK r \in Requests : RevokeRefreshOfUser(r)
        BY <2>3
      <3>2. Goes(r) /\ req[r].kind \in Cutters /\ req[r].pc = "revokeRefresh"
        BY <3>1, ContinueGoes DEF Continue, CallInv, RevokeRefreshOfUser, At
      <3>3. Edge(r, Cutters, "revokeRefresh", "setCutoff") /\ revokeRefreshOfUser(req[r].user)
        BY <3>2 DEF Goes, Path, Edge
      <3> QED
        BY <1>2, <3>2, <3>3
    <2> QED
      BY <1>2, <2>1, <2>2, <2>3, RefreshWriters
  <1> QED
    BY <1>1, <1>2, OpenedStep

(* What a step does to the row of one session. *)
LEMMA SessionRowStep ==
    ASSUME RowInv, [Next]_vars, NEW s \in Opened
    PROVE  /\ s \in DOMAIN refresh_tokens /\ s \in DOMAIN refresh_tokens'
           /\ refresh_tokens'[s].user_id = refresh_tokens[s].user_id
           /\ refresh_tokens'[s].expires_at = refresh_tokens[s].expires_at
           /\ refresh_tokens[s].revoked => refresh_tokens'[s].revoked
           /\ refresh_tokens'[s].revoked =>
                \/ refresh_tokens[s].revoked
                \/ \E r \in Requests :
                     /\ Goes(r) /\ req[r].pc \in {"revoke", "revokeRefresh"}
                     /\ \/ req[r].kind \in {"refresh", "logout"} /\ req[r].token = s
                        \/ req[r].kind \in Cutters /\ req[r].user = req[s].user
  <1>0. /\ CallInv /\ DOMAIN refresh_tokens = Opened
        /\ refresh_tokens[s].user_id = req[s].user
        /\ refresh_tokens[s] \in RefreshRow
    BY DEF RowInv, RefreshRows, CallInv, TypeInv, TypeOK, StoreTypeOK, IsTable
  <1>1. CASE UNCHANGED refresh_tokens
    BY <1>0, <1>1
  <1>2. CASE \E r \in Requests : \E row :
               r \notin Opened /\ refresh_tokens' = Insert(refresh_tokens, r, row)
    BY <1>0, <1>2 DEF Insert
  <1>3. CASE \E r \in Requests :
                /\ Goes(r) /\ req[r].kind \in {"refresh", "logout"} /\ req[r].pc = "revoke"
                /\ revokeRefresh(req[r].token)
    BY <1>0, <1>3 DEF revokeRefresh, RefreshRow
  <1>4. CASE \E r \in Requests :
                Goes(r) /\ Edge(r, Cutters, "revokeRefresh", "setCutoff")
                        /\ revokeRefreshOfUser(req[r].user)
    BY <1>0, <1>4 DEF revokeRefreshOfUser, RefreshRow, Edge
  <1> QED
    BY <1>0, <1>1, <1>2, <1>3, <1>4, RefreshStep

(* A session that renews nothing never does again. *)
LEMMA GoneForGood ==
    ASSUME RowInv, [Next]_vars, NEW s \in Opened, ~refreshable(s)
    PROVE  ~refreshable(s)'
  <1>1. now' \in Nat /\ now \in Nat /\ now' >= now
    BY ClockAdvances DEF RowInv, CallInv, TypeInv, TypeOK, StoreTypeOK
  <1>2. refresh_tokens[s].expires_at \in Nat
    BY SessionRowStep
       DEF RowInv, CallInv, TypeInv, TypeOK, StoreTypeOK, IsTable, RefreshRow
  <1> QED
    BY <1>1, <1>2, SessionRowStep DEF refreshable

(* What a step does to the row of one user, as far as sessions go. *)
LEMMA UserRowStep ==
    ASSUME CallInv, [Next]_vars, NEW u \in Users
    PROVE  /\ \/ users'[u].tokens_valid_from = users[u].tokens_valid_from
              \/ /\ users'[u].tokens_valid_from = now + 1
                 /\ \E r \in Requests : /\ Goes(r) /\ req[r].user = u
                                        /\ Edge(r, Cutters, "setCutoff", "ok")
           /\ \/ users'[u].status = users[u].status
              \/ /\ users'[u].status = "suspended"
                 /\ \E r \in Requests :
                      Begins(r) /\ req'[r].kind = "ban" /\ req'[r].user = u
           /\ \/ users'[u].email_verified = users[u].email_verified
              \/ \E r \in Requests :
                   /\ Begins(r) /\ req'[r].kind = "changeEmail" /\ req'[r].user = u
                   /\ users'[u].email_verified = FALSE
              \/ /\ users'[u].email_verified = TRUE
                 /\ \E r \in Requests : Begins(r) /\ req'[r].kind = "verifyEmail"
  <1>0. req \in [Requests -> Call] /\ users \in [Users -> UserRow] /\ TypeInv
    BY DEF CallInv, TypeInv, TypeOK, StoreTypeOK
  <1>1. CASE UNCHANGED users
    BY <1>1
  <1>2. ASSUME NEW r \in Requests, RecordFailedLogin(r) \/ ClearFailedLogins(r)
                                   \/ UpdatePassword(r)
        PROVE  /\ users'[u].tokens_valid_from = users[u].tokens_valid_from
               /\ users'[u].status = users[u].status
               /\ users'[u].email_verified = users[u].email_verified
    BY <1>0, <1>2 DEF RecordFailedLogin, ClearFailedLogins, UpdatePassword,
         recordFailedLogin, clearFailedLogins, updatePassword, UserRow
  <1>3. ASSUME NEW r \in Requests, SetCutoff(r)
        PROVE  /\ \/ users'[u].tokens_valid_from = users[u].tokens_valid_from
                  \/ /\ users'[u].tokens_valid_from = now + 1 /\ req[r].user = u
                     /\ Goes(r) /\ Edge(r, Cutters, "setCutoff", "ok")
               /\ users'[u].status = users[u].status
               /\ users'[u].email_verified = users[u].email_verified
    <2>1. Goes(r)
      BY <1>0, <1>3, ContinueGoes DEF Continue
    <2>2. Edge(r, Cutters, "setCutoff", "ok")
      BY <1>0, <1>3, GotoMoves DEF SetCutoff, At, Edge
    <2> QED
      BY <1>0, <1>3, <2>1, <2>2 DEF SetCutoff, setCutoff, UserRow
  <1>4. ASSUME NEW r \in Requests, Ban(r)
        PROVE  /\ users'[u].tokens_valid_from = users[u].tokens_valid_from
               /\ users'[u].email_verified = users[u].email_verified
               /\ \/ users'[u].status = users[u].status
                  \/ /\ users'[u].status = "suspended" /\ Begins(r)
                     /\ req'[r].kind = "ban" /\ req'[r].user = u
    <2>1. PICK v \in Users : Begin(r, "ban", v, None, None, "seffro", "ok")
                             /\ setStatus(v, "suspended")
      BY <1>4 DEF Ban
    <2>2. Begins(r) /\ req'[r].kind = "ban" /\ req'[r].user = v
      BY <1>0, <1>4, <2>1, ArriveBegins, BeginBegins DEF Arrive
    <2> QED
      BY <1>0, <2>1, <2>2 DEF setStatus, UserRow
  <1>5. ASSUME NEW r \in Requests, ChangeEmail(r)
        PROVE  /\ users'[u].tokens_valid_from = users[u].tokens_valid_from
               /\ users'[u].status = users[u].status
               /\ \/ users'[u].email_verified = users[u].email_verified
                  \/ /\ users'[u].email_verified = FALSE /\ Begins(r)
                     /\ req'[r].kind = "changeEmail" /\ req'[r].user = u
    <2>1. PICK v \in Users : Begin(r, "changeEmail", v, None, None, "seffro", "ok")
                             /\ setEmailVerified(v, FALSE)
      BY <1>5 DEF ChangeEmail
    <2>2. Begins(r) /\ req'[r].kind = "changeEmail" /\ req'[r].user = v
      BY <1>0, <1>5, <2>1, ArriveBegins, BeginBegins DEF Arrive
    <2> QED
      BY <1>0, <2>1, <2>2 DEF setEmailVerified, UserRow
  <1>6. ASSUME NEW r \in Requests, VerifyEmail(r)
        PROVE  /\ users'[u].tokens_valid_from = users[u].tokens_valid_from
               /\ users'[u].status = users[u].status
               /\ \/ users'[u].email_verified = users[u].email_verified
                  \/ /\ users'[u].email_verified = TRUE /\ Begins(r)
                     /\ req'[r].kind = "verifyEmail"
    <2>1. PICK v \in Users : Begin(r, "verifyEmail", v, None, None, "seffro", "ok")
                             /\ setEmailVerified(v, TRUE)
      BY <1>6 DEF VerifyEmail
    <2>2. Begins(r) /\ req'[r].kind = "verifyEmail"
      BY <1>0, <1>6, <2>1, ArriveBegins, BeginBegins DEF Arrive
    <2> QED
      BY <1>0, <2>1, <2>2 DEF setEmailVerified, UserRow
  <1> QED
    BY <1>1, <1>2, <1>3, <1>4, <1>5, <1>6, UsersWriters

LEMMA RefreshRowsNext ==
    ASSUME RowInv, [Next]_vars
    PROVE  RefreshRows'
  <1>0. /\ CallInv /\ RefreshRows /\ now \in Nat
        /\ \A q \in Requests : req[q].time \in Nat /\ req[q].time <= now
        /\ \A s \in DOMAIN refresh_tokens : refresh_tokens[s] \in RefreshRow
    BY DEF RowInv, TimesPast, CallInv, TypeInv, TypeOK, StoreTypeOK, IsTable, Call
  <1>1. DOMAIN refresh_tokens' = Opened'
    BY <1>0, RefreshStep DEF RefreshRows, Insert, revokeRefresh, revokeRefreshOfUser
  <1>2. ASSUME NEW s \in Opened', s \notin Opened
        PROVE  /\ refresh_tokens'[s].user_id = req'[s].user
               /\ refresh_tokens'[s].expires_at >= req'[s].time + RefreshTtl
    <2>1. /\ req'[s].user = req[s].user /\ req'[s].time = req[s].time
          /\ refresh_tokens' = Insert(refresh_tokens, s,
                     [user_id |-> req[s].user, expires_at |-> now + RefreshTtl,
                      revoked |-> FALSE])
      BY <1>0, <1>2, RefreshStep
    <2>2. s \in Requests
      BY <1>2 DEF Opened
    <2> QED
      BY <1>0, <2>1, <2>2, ConfigurationIsNumeric DEF Insert
  <1>3. ASSUME NEW s \in Opened
        PROVE  /\ refresh_tokens'[s].user_id = req'[s].user
               /\ refresh_tokens'[s].expires_at >= req'[s].time + RefreshTtl
    BY <1>0, <1>3, SessionRowStep, AnswersStay DEF RefreshRows
  <1> QED
    BY <1>1, <1>2, <1>3 DEF RefreshRows

LEMMA TicketStep ==
    ASSUME CallInv, [Next]_vars
    PROVE  \/ UNCHANGED sso_tickets
           \/ PurgeTickets
           \/ \E r \in Requests :
                /\ Goes(r) /\ Edge(r, {"createSsoTicket"}, "insertTicket", "ok")
                /\ insertTicket(r, req[r].user, req[r].target)
           \/ \E r \in Requests :
                /\ Goes(r) /\ Edge(r, {"redeemSsoTicket"}, "consumeTicket", "sign")
                /\ redeemable(sso_tickets, req[r].token) /\ consumeTicket(req[r].token)
  <1>0. req \in [Requests -> Call]
    BY DEF CallInv, TypeInv, TypeOK
  <1>1. ASSUME NEW r \in Requests, InsertTicket(r)
        PROVE  /\ Goes(r) /\ Edge(r, {"createSsoTicket"}, "insertTicket", "ok")
               /\ insertTicket(r, req[r].user, req[r].target)
    BY <1>0, <1>1, ContinueGoes, GotoMoves DEF Continue, CallInv, InsertTicket, At, Edge
  <1>2. ASSUME NEW r \in Requests, RedeemConsumed(r)
        PROVE  /\ Goes(r) /\ Edge(r, {"redeemSsoTicket"}, "consumeTicket", "sign")
               /\ redeemable(sso_tickets, req[r].token) /\ consumeTicket(req[r].token)
    BY <1>0, <1>2, ContinueGoes, GotoMoves DEF Continue, CallInv, RedeemConsumed, At, Edge
  <1> QED
    BY <1>1, <1>2, TicketWriters

LEMMA ResetStep ==
    ASSUME CallInv, [Next]_vars
    PROVE  \/ UNCHANGED password_reset_tokens
           \/ PurgeResets
           \/ \E r \in Requests :
                /\ Goes(r) /\ Edge(r, {"forgotPassword"}, "invalidate", "insertReset")
                /\ invalidateOutstanding(req[r].user)
           \/ \E r \in Requests :
                /\ Goes(r) /\ Edge(r, {"forgotPassword"}, "insertReset", "ok")
                /\ insertReset(r, req[r].user)
           \/ \E r \in Requests :
                /\ Goes(r) /\ Edge(r, {"resetPassword"}, "consumeReset", "updatePassword")
                /\ redeemable(password_reset_tokens, req[r].token)
                /\ consumeReset(req[r].token)
  <1>0. req \in [Requests -> Call]
    BY DEF CallInv, TypeInv, TypeOK
  <1>1. ASSUME NEW r \in Requests, InvalidateOutstanding(r)
        PROVE  /\ Goes(r) /\ Edge(r, {"forgotPassword"}, "invalidate", "insertReset")
               /\ invalidateOutstanding(req[r].user)
    BY <1>0, <1>1, ContinueGoes, GotoMoves
       DEF Continue, CallInv, InvalidateOutstanding, At, Edge
  <1>2. ASSUME NEW r \in Requests, InsertReset(r)
        PROVE  /\ Goes(r) /\ Edge(r, {"forgotPassword"}, "insertReset", "ok")
               /\ insertReset(r, req[r].user)
    BY <1>0, <1>2, ContinueGoes, GotoMoves DEF Continue, CallInv, InsertReset, At, Edge
  <1>3. ASSUME NEW r \in Requests, ResetConsumed(r)
        PROVE  /\ Goes(r) /\ Edge(r, {"resetPassword"}, "consumeReset", "updatePassword")
               /\ redeemable(password_reset_tokens, req[r].token)
               /\ consumeReset(req[r].token)
    BY <1>0, <1>3, ContinueGoes, GotoMoves DEF Continue, CallInv, ResetConsumed, At, Edge
  <1> QED
    BY <1>1, <1>2, <1>3, ResetWriters

(* What a step leaves of a row of a one-time token. *)
LEMMA TicketRowStep ==
    ASSUME RowInv, [Next]_vars, NEW t \in DOMAIN sso_tickets, t \in DOMAIN sso_tickets'
    PROVE  /\ sso_tickets'[t].user_id = sso_tickets[t].user_id
           /\ sso_tickets'[t].target = sso_tickets[t].target
           /\ sso_tickets'[t].expires_at = sso_tickets[t].expires_at
           /\ sso_tickets[t].used => sso_tickets'[t].used
  <1>0. /\ CallInv /\ DOMAIN sso_tickets \subseteq Tickets /\ sso_tickets[t] \in TicketRow
    BY DEF RowInv, OneTimeRows, CallInv, TypeInv, TypeOK, StoreTypeOK, IsTable
  <1>1. CASE UNCHANGED sso_tickets \/ PurgeTickets
    BY <1>1 DEF PurgeTickets, purgeTickets
  <1>2. ASSUME NEW r \in Requests, Goes(r), Edge(r, {"createSsoTicket"}, "insertTicket", "ok"),
               insertTicket(r, req[r].user, req[r].target)
        PROVE  sso_tickets'[t] = sso_tickets[t]
    <2>1. r # t
      BY <1>0, <1>2 DEF Edge, Tickets, Answers
    <2> QED
      BY <1>2, <2>1 DEF insertTicket, Insert
  <1>3. CASE \E r \in Requests : consumeTicket(req[r].token)
    BY <1>0, <1>3 DEF consumeTicket, TicketRow
  <1> QED
    BY <1>0, <1>1, <1>2, <1>3, TicketStep

LEMMA ResetRowStep ==
    ASSUME RowInv, [Next]_vars,
           NEW t \in DOMAIN password_reset_tokens, t \in DOMAIN password_reset_tokens'
    PROVE  /\ password_reset_tokens'[t].user_id = password_reset_tokens[t].user_id
           /\ password_reset_tokens'[t].expires_at = password_reset_tokens[t].expires_at
           /\ password_reset_tokens[t].used => password_reset_tokens'[t].used
  <1>0. /\ CallInv /\ DOMAIN password_reset_tokens \subseteq Mailed
        /\ password_reset_tokens[t] \in ResetRow
    BY DEF RowInv, OneTimeRows, CallInv, TypeInv, TypeOK, StoreTypeOK, IsTable
  <1>1. CASE UNCHANGED password_reset_tokens \/ PurgeResets
    BY <1>1 DEF PurgeResets, purgeResets
  <1>2. CASE \E r \in Requests : invalidateOutstanding(req[r].user)
    BY <1>0, <1>2 DEF invalidateOutstanding, ResetRow
  <1>3. ASSUME NEW r \in Requests, Goes(r), Edge(r, {"forgotPassword"}, "insertReset", "ok"),
               insertReset(r, req[r].user)
        PROVE  password_reset_tokens'[t] = password_reset_tokens[t]
    <2>1. r # t
      BY <1>0, <1>3 DEF Edge, Mailed, Answers
    <2> QED
      BY <1>3, <2>1 DEF insertReset, Insert
  <1>4. CASE \E r \in Requests : consumeReset(req[r].token)
    BY <1>0, <1>4 DEF consumeReset, ResetRow
  <1> QED
    BY <1>0, <1>1, <1>2, <1>3, <1>4, ResetStep

LEMMA OneTimeRowsNext ==
    ASSUME RowInv, [Next]_vars
    PROVE  OneTimeRows'
  <1>0. CallInv /\ OneTimeRows
    BY DEF RowInv
  <1>1. DOMAIN sso_tickets' \subseteq Tickets'
    <2>1. CASE UNCHANGED sso_tickets
      BY <1>0, <2>1, AnswersStay DEF OneTimeRows
    <2>2. CASE PurgeTickets
      BY <1>0, <2>2, AnswersStay DEF OneTimeRows, PurgeTickets, purgeTickets, Unexpired
    <2>3. ASSUME NEW r \in Requests, Goes(r),
                 Edge(r, {"createSsoTicket"}, "insertTicket", "ok"),
                 insertTicket(r, req[r].user, req[r].target)
          PROVE  DOMAIN sso_tickets' \subseteq Tickets'
      <3>1. r \in Tickets'
        BY <2>3 DEF Goes, Keeps, Edge, Tickets, Answers
      <3> QED
        BY <1>0, <2>3, <3>1, AnswersStay DEF OneTimeRows, insertTicket, Insert
    <2>4. CASE \E r \in Requests : consumeTicket(req[r].token)
      BY <1>0, <2>4, AnswersStay DEF OneTimeRows, consumeTicket
    <2> QED
      BY <1>0, <2>1, <2>2, <2>3, <2>4, TicketStep
  <1>2. ASSUME NEW t \in DOMAIN password_reset_tokens'
        PROVE  \/ t \in DOMAIN password_reset_tokens
               \/ /\ t \in Mailed'
                  /\ password_reset_tokens'[t].user_id = req'[t].user
    <2>1. ASSUME NEW r \in Requests, Goes(r),
                 Edge(r, {"forgotPassword"}, "insertReset", "ok"),
                 insertReset(r, req[r].user)
          PROVE  /\ DOMAIN password_reset_tokens' = DOMAIN password_reset_tokens \cup {r}
                 /\ password_reset_tokens'[r].user_id = req'[r].user
                 /\ r \in Mailed'
      BY <2>1 DEF Goes, Keeps, Edge, Mailed, Answers, insertReset, Insert
    <2>2. CASE \/ UNCHANGED password_reset_tokens \/ PurgeResets
               \/ \E r \in Requests : \/ invalidateOutstanding(req[r].user)
                                      \/ consumeReset(req[r].token)
      BY <2>2 DEF PurgeResets, purgeResets, Unexpired, invalidateOutstanding, consumeReset
    <2> QED
      BY <1>0, <2>1, <2>2, ResetStep
  <1>3. ASSUME NEW t \in DOMAIN password_reset_tokens', t \in DOMAIN password_reset_tokens
        PROVE  t \in Mailed' /\ password_reset_tokens'[t].user_id = req'[t].user
    BY <1>0, <1>3, AnswersStay, ResetRowStep DEF OneTimeRows
  <1> QED
    BY <1>1, <1>2, <1>3 DEF OneTimeRows

LEMMA TimesPastNext ==
    ASSUME RowInv, [Next]_vars
    PROVE  TimesPast'
  <1>0. /\ CallInv /\ TypeInv /\ TimesPast /\ now \in Nat /\ now' \in Nat /\ now' >= now
        /\ \A q \in Requests : req[q].time \in Nat
        /\ \A u \in Users : users[u].tokens_valid_from \in Nat
    BY ClockAdvances DEF RowInv, CallInv, TypeInv, TypeOK, StoreTypeOK, Call, UserRow
  <1>1. ASSUME NEW q \in Requests
        PROVE  req'[q].time <= now'
    <2>1. req'[q] = req[q] \/ Begins(q) \/ Goes(q) \/ Fails(q)
      BY <1>0, CallStep
    <2>2. req'[q].time \in {req[q].time, 0, now}
      BY <2>1 DEF Begins, Goes, Fails
    <2> QED
      BY <1>0, <2>2 DEF TimesPast
  <1>2. ASSUME NEW u \in Users
        PROVE  users'[u].tokens_valid_from <= now' + 1
    <2>1. users'[u].tokens_valid_from \in {users[u].tokens_valid_from, now + 1}
      BY <1>0, UserRowStep
    <2>2. users[u].tokens_valid_from \in Nat /\ users[u].tokens_valid_from <= now + 1
      BY <1>0 DEF TimesPast
    <2> QED
      BY <1>0, <2>1, <2>2
  <1> QED
    BY <1>1, <1>2 DEF TimesPast

LEMMA RowNext == RowInv /\ [Next]_vars => RowInv'
  BY CallNext, RefreshRowsNext, OneTimeRowsNext, TimesPastNext DEF RowInv

-----------------------------------------------------------------------------
(* A call names the session, mail or ticket it was sent with, and acts for *)
(* the user of it.                                                         *)
Presented(q) ==
    LET kind == req[q].kind
        u == req[q].user
        t == req[q].token
        s == req[q].access
    IN  req[q].pc # "idle" =>
        /\ kind \in {"refresh", "logout"} => t \in Opened /\ u = req[t].user
        /\ kind \in {"validateToken", "me"} => s \in Opened /\ u = req[s].user
        /\ kind = "logout" => s \in Opened \cup {None}
        /\ kind = "resetPassword" => t \in Mailed /\ u = req[t].user
        /\ kind = "redeemSsoTicket" => t \in Tickets /\ u = req[t].user

AllPresented == \A q \in Requests : Presented(q)

FlowInv == RowInv /\ AllPresented

-----------------------------------------------------------------------------
(* A call that was over when another began has not moved since.            *)
LEMMA BeforeStep ==
    ASSUME CallInv, [Next]_vars, NEW r \in Requests, NEW w \in req'[r].before
    PROVE  /\ w \in Requests /\ Over(w) /\ req'[w] = req[w]
           /\ ~Begins(r) => w \in req[r].before /\ Keeps(r)
  <1>1. req'[r] = req[r] \/ Begins(r) \/ Goes(r) \/ Fails(r)
    BY CallStep DEF CallInv
  <1>2. req[r].before \in SUBSET Requests
    BY DEF CallInv, TypeInv, TypeOK, Call
  <1>3. w \in Requests /\ Over(w)
    BY <1>1, <1>2 DEF Begins, Goes, Fails, Keeps, CallInv, BeforeOver
  <1>4. req'[w] = req[w]
    BY <1>3, CallsAreSteady DEF Steady
  <1> QED
    BY <1>1, <1>3, <1>4 DEF Goes, Fails, Keeps

(* A session that was open when a call over by now began is open. *)
LEMMA OpenedBack ==
    ASSUME CallInv, [Next]_vars, NEW w \in Requests, NEW s \in req[w].before,
           s \in Opened'
    PROVE  s \in Opened /\ req'[s] = req[s]
  <1>1. Over(s) /\ s \in Requests
    BY DEF CallInv, BeforeOver, Opened
  <1>2. req'[s] = req[s]
    BY <1>1, CallsAreSteady DEF Steady
  <1> QED
    BY <1>1, <1>2 DEF Opened

LEMMA PresentedNext ==
    ASSUME FlowInv, [Next]_vars
    PROVE  AllPresented'
  <1> SUFFICES ASSUME NEW q \in Requests PROVE Presented(q)'
    BY DEF AllPresented
  <1>0. CallInv /\ Presented(q)
    BY DEF FlowInv, RowInv, AllPresented
  <1>1. req'[q] = req[q] \/ Begins(q) \/ Goes(q) \/ Fails(q)
    BY <1>0, CallStep DEF CallInv
  <1>2. /\ \A s \in Opened : s \in Opened' /\ req'[s] = req[s]
        /\ \A s \in Mailed : s \in Mailed' /\ req'[s] = req[s]
        /\ \A s \in Tickets : s \in Tickets' /\ req'[s] = req[s]
    BY <1>0, AnswersStay
  <1>3. CASE Begins(q)
    <2>1. \A s \in Opened : refresh_tokens[s].user_id = req[s].user
      BY DEF FlowInv, RowInv, RefreshRows
    <2> QED
      BY <1>2, <1>3, <2>1 DEF Begins, Arrival, Presented
  <1>4. CASE req'[q] = req[q] \/ Goes(q) \/ Fails(q)
    <2>1. Keeps(q) /\ (req[q].pc = "idle" => req'[q].pc = "idle")
      BY <1>4 DEF Goes, Fails, Steps, Keeps
    <2> QED
      BY <1>0, <1>2, <2>1 DEF Presented, Keeps
  <1> QED
    BY <1>1, <1>3, <1>4

LEMMA FlowInit == Init => FlowInv
  <1> SUFFICES ASSUME Init PROVE FlowInv
    OBVIOUS
  <1>1. \A q \in Requests : req[q].pc = "idle"
    BY DEF Init
  <1> QED
    BY <1>1, RowInit DEF FlowInv, AllPresented, Presented

LEMMA FlowNext == FlowInv /\ [Next]_vars => FlowInv'
  BY RowNext, PresentedNext DEF FlowInv

-----------------------------------------------------------------------------
(* What the tables forget. *)

LEMMA DenialsStep ==
    ASSUME RowInv, [Next]_vars
    PROVE  /\ \A s \in DOMAIN refresh_tokens :
                refresh_tokens[s].revoked => refresh_tokens'[s].revoked
           /\ \A t \in DOMAIN sso_tickets :
                sso_tickets[t].used /\ t \in DOMAIN sso_tickets' => sso_tickets'[t].used
           /\ \A t \in DOMAIN password_reset_tokens :
                /\ password_reset_tokens[t].used
                /\ t \in DOMAIN password_reset_tokens'
                => password_reset_tokens'[t].used
           /\ \A u \in Users :
                users'[u].tokens_valid_from >= users[u].tokens_valid_from
           /\ \A j \in DOMAIN revoked_tokens \ DOMAIN revoked_tokens' :
                revoked_tokens[j] < now
  <1>0. /\ CallInv /\ DOMAIN refresh_tokens = Opened /\ now \in Nat
        /\ \A u \in Users : /\ users[u].tokens_valid_from \in Nat
                            /\ users[u].tokens_valid_from <= now + 1
        /\ \A j \in DOMAIN revoked_tokens : revoked_tokens[j] \in Nat
    BY DEF RowInv, RefreshRows, TimesPast, CallInv, TypeInv, TypeOK, StoreTypeOK, UserRow,
           IsTable
  <1>1. \A u \in Users : users'[u].tokens_valid_from \in {users[u].tokens_valid_from, now + 1}
    BY <1>0, UserRowStep
  <1>2. \A u \in Users : users'[u].tokens_valid_from >= users[u].tokens_valid_from
    BY <1>0, <1>1
  <1>3. ASSUME NEW j \in DOMAIN revoked_tokens, j \notin DOMAIN revoked_tokens'
        PROVE  revoked_tokens[j] < now
    <2>1. ~\E r \in Requests : LogoutDeny(r)
      BY <1>3 DEF LogoutDeny, revokeToken, Insert
    <2>2. PurgeRevoked
      BY <1>3, <2>1, DenyWriters
    <2> QED
      BY <1>0, <1>3, <2>2 DEF PurgeRevoked, purgeRevoked
  <1> QED
    BY <1>0, <1>2, <1>3, SessionRowStep, TicketRowStep, ResetRowStep

(* What has been denied stays denied, for ever: a revoked refresh token, a *)
(* used ticket or reset token, a cutoff, and a logged-out access token     *)
(* until it has expired (the UPDATE, INSERT and purge statements of        *)
(* src/repositories).                                                      *)
THEOREM DenialsHold == Spec => DenialsAreForever
  <1>1. RowInv /\ [Next]_vars =>
          [/\ \A s \in DOMAIN refresh_tokens :
                refresh_tokens[s].revoked => refresh_tokens'[s].revoked
           /\ \A t \in DOMAIN sso_tickets :
                sso_tickets[t].used /\ t \in DOMAIN sso_tickets' => sso_tickets'[t].used
           /\ \A t \in DOMAIN password_reset_tokens :
                /\ password_reset_tokens[t].used
                /\ t \in DOMAIN password_reset_tokens'
                => password_reset_tokens'[t].used
           /\ \A u \in Users :
                users'[u].tokens_valid_from >= users[u].tokens_valid_from
           /\ \A j \in DOMAIN revoked_tokens \ DOMAIN revoked_tokens' :
                revoked_tokens[j] < now]_vars
    BY DenialsStep
  <1> QED
    BY <1>1, RowInit, RowNext, PTL DEF Spec, DenialsAreForever

-----------------------------------------------------------------------------
(* The lockout counter. *)

(* What a step does to the counter and the lock of a user. *)
LEMMA LockStep ==
    ASSUME CallInv, [Next]_vars, NEW u \in Users
    PROVE  \/ /\ users'[u].failed_login_attempts = users[u].failed_login_attempts
              /\ users'[u].locked_until = users[u].locked_until
           \/ /\ users'[u].failed_login_attempts = 0
              /\ users'[u].locked_until = 0
           \/ /\ users'[u].failed_login_attempts = users[u].failed_login_attempts + 1
              /\ users'[u].locked_until =
                   IF users[u].failed_login_attempts + 2 >= LockoutThreshold
                   THEN now + LockoutDuration ELSE users[u].locked_until
              /\ \E q \in Requests : /\ req[q].user = u /\ ~Over(q) /\ Goes(q)
                                     /\ Edge(q, {"login"}, "recordFailedLogin", "refused")
  <1>0. /\ TypeInv /\ req \in [Requests -> Call] /\ users \in [Users -> UserRow]
        /\ users[u].failed_login_attempts \in Nat
        /\ users[u].failed_login_attempts + 1 + 1 = users[u].failed_login_attempts + 2
    BY DEF CallInv, TypeInv, TypeOK, StoreTypeOK, UserRow
  <1>1. CASE UNCHANGED users
    BY <1>1
  <1>2. ASSUME NEW r \in Requests, UpdatePassword(r) \/ SetCutoff(r)
        PROVE  /\ users'[u].failed_login_attempts = users[u].failed_login_attempts
               /\ users'[u].locked_until = users[u].locked_until
    BY <1>0, <1>2 DEF UpdatePassword, SetCutoff, updatePassword, setCutoff, UserRow
  <1>3. ASSUME NEW r \in Requests, Ban(r) \/ ChangeEmail(r) \/ VerifyEmail(r)
        PROVE  /\ users'[u].failed_login_attempts = users[u].failed_login_attempts
               /\ users'[u].locked_until = users[u].locked_until
    BY <1>0, <1>3 DEF Ban, ChangeEmail, VerifyEmail, setStatus, setEmailVerified, UserRow
  <1>4. ASSUME NEW r \in Requests, ClearFailedLogins(r)
        PROVE  \/ /\ users'[u].failed_login_attempts = users[u].failed_login_attempts
                  /\ users'[u].locked_until = users[u].locked_until
               \/ /\ users'[u].failed_login_attempts = 0
                  /\ users'[u].locked_until = 0
    BY <1>0, <1>4 DEF ClearFailedLogins, clearFailedLogins, UserRow
  <1>5. ASSUME NEW r \in Requests, RecordFailedLogin(r)
        PROVE  \/ /\ users'[u].failed_login_attempts = users[u].failed_login_attempts
                  /\ users'[u].locked_until = users[u].locked_until
               \/ /\ users'[u].failed_login_attempts = users[u].failed_login_attempts + 1
                  /\ users'[u].locked_until =
                       IF users[u].failed_login_attempts + 2 >= LockoutThreshold
                       THEN now + LockoutDuration ELSE users[u].locked_until
                  /\ req[r].user = u /\ ~Over(r) /\ Goes(r)
                  /\ Edge(r, {"login"}, "recordFailedLogin", "refused")
    <2>1. /\ Goes(r) /\ Edge(r, {"login"}, "recordFailedLogin", "refused")
          /\ ~Over(r)
      BY <1>0, <1>5, ContinueGoes, GotoMoves
         DEF Continue, RecordFailedLogin, At, Edge, Over, Outcomes
    <2>2. CASE req[r].user = u
      <3>1. recordFailedLogin(u)
        BY <1>5, <2>2 DEF RecordFailedLogin
      <3>2. /\ users'[u].failed_login_attempts = users[u].failed_login_attempts + 1
            /\ users'[u].locked_until =
                 IF users[u].failed_login_attempts + 1 + 1 >= LockoutThreshold
                 THEN now + LockoutDuration ELSE users[u].locked_until
        BY <1>0, <3>1 DEF recordFailedLogin, UserRow
      <3> QED
        BY <1>0, <2>1, <2>2, <3>2
    <2>3. CASE req[r].user # u
      BY <1>0, <1>5, <2>3 DEF RecordFailedLogin, recordFailedLogin
    <2> QED
      BY <2>2, <2>3
  <1> QED
    BY <1>1, <1>2, <1>3, <1>4, <1>5, UsersWriters

(* With a threshold and a duration of at least one, as any configuration   *)
(* that locks has them, the counter and the lock agree: at the threshold   *)
(* there is a lock, and a lock was earned by failures no login has         *)
(* forgiven (UserRepository.recordFailedLogin, clearFailedLogins).         *)
THEOREM CounterAndLock ==
    ASSUME LockoutThreshold >= 1, LockoutDuration >= 1
    PROVE  Spec => []LockMatchesCounter
  <1>1. Init => LockMatchesCounter
    <2>1. Init => \A u \in Users : /\ users[u].failed_login_attempts = 0
                                   /\ users[u].locked_until = 0
      <3> SUFFICES ASSUME StoreInit, NEW u \in Users
                   PROVE  /\ users[u].failed_login_attempts = 0
                          /\ users[u].locked_until = 0
        BY DEF Init
      <3> QED
        BY DEF StoreInit
    <2>2. LockoutThreshold \in Nat /\ ~(0 >= LockoutThreshold)
      BY ConfigurationIsNumeric
    <2> QED
      BY <2>1, <2>2 DEF LockMatchesCounter
  <1>2. CallInv /\ LockMatchesCounter /\ [Next]_vars => LockMatchesCounter'
    <2> SUFFICES ASSUME CallInv, LockMatchesCounter, [Next]_vars, NEW u \in Users
                 PROVE  /\ users'[u].failed_login_attempts >= LockoutThreshold
                             => users'[u].locked_until # 0
                        /\ users'[u].locked_until # 0
                             => users'[u].failed_login_attempts + 1 >= LockoutThreshold
      BY DEF LockMatchesCounter
    <2>0. /\ users[u].failed_login_attempts \in Nat /\ users[u].locked_until \in Nat
          /\ now \in Nat /\ LockoutThreshold \in Nat /\ LockoutDuration \in Nat
      BY ConfigurationIsNumeric DEF CallInv, TypeInv, TypeOK, StoreTypeOK, UserRow
    <2>1. /\ users[u].failed_login_attempts >= LockoutThreshold => users[u].locked_until # 0
          /\ users[u].locked_until # 0
               => users[u].failed_login_attempts + 1 >= LockoutThreshold
      BY DEF LockMatchesCounter
    <2> QED
      BY <2>0, <2>1, LockStep
  <1> QED
    BY <1>1, <1>2, CallInit, CallNext, PTL DEF Spec

(* A login about to clear a lock that is in force passed the check before  *)
(* a failure that it overlapped set the lock (AuthService.login).          *)
THEOREM LockOpensInARace == Spec => []LockOpenedByRaceOnly
  <1>1. Init => LockOpenedByRaceOnly
    BY DEF Init, LockOpenedByRaceOnly, At
  <1>2. CallInv /\ LockOpenedByRaceOnly /\ [Next]_vars => LockOpenedByRaceOnly'
    <2> SUFFICES ASSUME CallInv, LockOpenedByRaceOnly, [Next]_vars, NEW r \in Requests,
                        At(r, {"login"}, "clearFailedLogins")', isLocked(req[r].user)'
                 PROVE  \E q \in Requests \ req'[r].before :
                          /\ req'[q].kind = "login" /\ req'[q].pc = "refused"
                          /\ req'[q].user = req'[r].user
      BY DEF LockOpenedByRaceOnly
    <2> DEFINE u == req'[r].user
    <2>0. /\ TypeInv /\ now \in Nat /\ now' \in Nat /\ now' >= now /\ u \in Users
          /\ users[u].locked_until \in Nat /\ LockoutDuration \in Nat
      BY TypeStep, ClockAdvances, ConfigurationIsNumeric
         DEF CallInv, TypeInv, TypeOK, StoreTypeOK, UserRow, Call
    <2>1. CASE \E q \in Requests : /\ req[q].user = u /\ ~Over(q) /\ Goes(q)
                                   /\ Edge(q, {"login"}, "recordFailedLogin", "refused")
      <3>1. PICK q \in Requests : /\ req[q].user = u /\ ~Over(q) /\ Goes(q)
                                  /\ Edge(q, {"login"}, "recordFailedLogin", "refused")
        BY <2>1
      <3>2. q # r /\ req'[r] = req[r]
        BY <3>1 DEF Goes, OthersStay, Edge, At
      <3>3. q \notin req[r].before
        BY <3>1 DEF CallInv, BeforeOver
      <3> QED
        BY <3>1, <3>2, <3>3 DEF Goes, Keeps, Edge
    <2>2. CASE users'[u].locked_until = users[u].locked_until \/ users'[u].locked_until = 0
      <3>1. isLocked(u)
        BY <2>0, <2>2 DEF isLocked
      <3>2. req'[r] = req[r] \/ Begins(r) \/ Goes(r) \/ Fails(r)
        BY <2>0, CallStep
      <3>3. CASE Begins(r)
        BY <3>1, <3>3 DEF Begins, Arrival, At, Openers, Cutters
      <3>4. CASE Goes(r)
        BY <3>4 DEF Goes, Keeps, Path, Edge, At, Openers, Cutters
      <3>5. CASE req'[r] = req[r] \/ Fails(r)
        <4>1. req'[r] = req[r]
          BY <3>5 DEF Fails, At
        <4>2. PICK q \in Requests \ req[r].before :
                /\ req[q].kind = "login" /\ req[q].pc = "refused"
                /\ req[q].user = req[r].user
          BY <3>1, <4>1 DEF LockOpenedByRaceOnly, At
        <4>3. req'[q] = req[q]
          BY <4>2, CallsAreSteady DEF Steady, Over, Outcomes
        <4> QED
          BY <4>1, <4>2, <4>3
      <3> QED
        BY <3>2, <3>3, <3>4, <3>5
    <2> QED
      BY <2>0, <2>1, <2>2, LockStep
  <1> QED
    BY <1>1, <1>2, CallInit, CallNext, PTL DEF Spec
=============================================================================
