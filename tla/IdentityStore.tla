--------------------------- MODULE IdentityStore ---------------------------
(***************************************************************************)
(* The MySQL tables behind the identity service, and the SQL statements of *)
(* src/repositories as operators.  The service opens no transaction: each  *)
(* statement is atomic by itself, and everything between two statements of *)
(* a request is a window in which any other request may run.               *)
(*                                                                         *)
(* A row's key is the request that inserted it: every random token, hash   *)
(* and jti is unique to the call that generated it.  A nullable time that  *)
(* the code only compares is a number, with 0 for NULL; a nullable time    *)
(* that the code only tests for NULL is a Boolean.                         *)
(*                                                                         *)
(* Definitions whose name ends in "Slip" are no part of the model: each is *)
(* the definition below it with one plausible mistake.                     *)
(***************************************************************************)
EXTENDS Naturals

CONSTANTS
    Users,                 \* the accounts
    Requests,              \* the calls the service receives, each one once
    FirstPassword,         \* the password chosen at registration
    LockoutThreshold, LockoutDuration,          \* config.lockout
    AccessTtl, RefreshTtl, SsoTtl, ResetTtl     \* config.jwt, config.tokens

ASSUME PasswordsAreDistinct == FirstPassword \notin Requests

ASSUME ConfigurationIsNumeric ==
    /\ LockoutThreshold \in Nat /\ LockoutDuration \in Nat
    /\ AccessTtl \in Nat /\ RefreshTtl \in Nat
    /\ SsoTtl \in Nat /\ ResetTtl \in Nat

VARIABLES
    now,                   \* NOW() and Date.now(), in seconds
    users,                 \* central_users
    refresh_tokens,
    revoked_tokens,        \* deny list: jti -> expires_at
    sso_tickets,
    password_reset_tokens

tables == <<users, refresh_tokens, revoked_tokens, sso_tickets,
            password_reset_tokens>>

(* A password is named by the request that set it. *)
Passwords == Requests \cup {FirstPassword}
Targets   == {"seffro", "helppu"}

UserRow == [password : Passwords,
            status : {"active", "suspended"},
            email_verified : BOOLEAN,
            tokens_valid_from : Nat,
            failed_login_attempts : Nat,
            locked_until : Nat]

RefreshRow == [user_id : Users, expires_at : Nat, revoked : BOOLEAN]
ResetRow   == [user_id : Users, expires_at : Nat, used : BOOLEAN]
TicketRow  == [user_id : Users, target : Targets, expires_at : Nat,
               used : BOOLEAN]

(* A table: some of the requests have inserted a row. *)
IsTable(table, Row) ==
    /\ DOMAIN table \subseteq Requests
    /\ table \in [DOMAIN table -> Row]

StoreTypeOK ==
    /\ now \in Nat
    /\ users \in [Users -> UserRow]
    /\ IsTable(refresh_tokens, RefreshRow)
    /\ IsTable(revoked_tokens, Nat)
    /\ IsTable(sso_tickets, TicketRow)
    /\ IsTable(password_reset_tokens, ResetRow)

EmptyTable == [key \in {} |-> 0]

Insert(table, key, row) ==
    [k \in DOMAIN table \cup {key} |-> IF k = key THEN row ELSE table[k]]

(* The rows whose expires_at is not yet past: what purgeExpired keeps. *)
Unexpired(table) == {k \in DOMAIN table : table[k].expires_at >= now}

StoreInit ==
    /\ now = 0
    /\ users = [u \in Users |-> [password |-> FirstPassword,
                                 status |-> "active",
                                 email_verified |-> TRUE,
                                 tokens_valid_from |-> 0,
                                 failed_login_attempts |-> 0,
                                 locked_until |-> 0]]
    /\ refresh_tokens = EmptyTable
    /\ revoked_tokens = EmptyTable
    /\ sso_tickets = EmptyTable
    /\ password_reset_tokens = EmptyTable

-----------------------------------------------------------------------------
(* UserRepository *)

isLocked(u) == users[u].locked_until > now

(* MySQL evaluates the assignments of an UPDATE from left to right: the    *)
(* second one reads the counter that the first has already incremented.    *)
recordFailedLogin(u) ==
    LET attempts == users[u].failed_login_attempts + 1
    IN  users' = [users EXCEPT
            ![u].failed_login_attempts = attempts,
            ![u].locked_until = IF attempts + 1 >= LockoutThreshold
                                THEN now + LockoutDuration ELSE @]

(* The lock survives the login that resets the counter. *)
clearFailedLoginsSlip(u) ==
    users' = [users EXCEPT ![u].failed_login_attempts = 0]

clearFailedLogins(u) ==
    users' = [users EXCEPT ![u].failed_login_attempts = 0,
                           ![u].locked_until = 0]

updatePassword(u, p) == users' = [users EXCEPT ![u].password = p]

setEmailVerified(u, flag) == users' = [users EXCEPT ![u].email_verified = flag]

setStatus(u, status) == users' = [users EXCEPT ![u].status = status]

-----------------------------------------------------------------------------
(* TokenRepository *)

(* DATE_SUB for DATE_ADD. *)
createRefreshSlip(s, u) ==
    refresh_tokens' = Insert(refresh_tokens, s,
        [user_id |-> u, expires_at |-> now - RefreshTtl, revoked |-> FALSE])

createRefresh(s, u) ==
    refresh_tokens' = Insert(refresh_tokens, s,
        [user_id |-> u, expires_at |-> now + RefreshTtl, revoked |-> FALSE])

(* What findByHash can return. *)
refreshable(s) ==
    /\ s \in DOMAIN refresh_tokens
    /\ ~refresh_tokens[s].revoked
    /\ refresh_tokens[s].expires_at > now

(* The flag of every other row is overwritten. *)
revokeRefreshSlip(s) ==
    refresh_tokens' = [k \in DOMAIN refresh_tokens |->
        [refresh_tokens[k] EXCEPT !.revoked = (k = s)]]

revokeRefresh(s) ==
    refresh_tokens' = [k \in DOMAIN refresh_tokens |->
        [refresh_tokens[k] EXCEPT !.revoked = @ \/ k = s]]

(* No WHERE clause. *)
revokeRefreshOfUserSlip(u) ==
    refresh_tokens' = [k \in DOMAIN refresh_tokens |->
        [refresh_tokens[k] EXCEPT !.revoked = TRUE]]

revokeRefreshOfUser(u) ==
    refresh_tokens' = [k \in DOMAIN refresh_tokens |->
        [refresh_tokens[k] EXCEPT !.revoked = @ \/ refresh_tokens[k].user_id = u]]

-----------------------------------------------------------------------------
(* RevocationRepository *)

revokeToken(jti, expiry) == revoked_tokens' = Insert(revoked_tokens, jti, expiry)

isTokenRevoked(jti) == jti \in DOMAIN revoked_tokens

(* The cutoff is the present second. *)
setCutoffSlip(u) == users' = [users EXCEPT ![u].tokens_valid_from = now]

(* One second is added because iat has a resolution of one second. *)
setCutoff(u) == users' = [users EXCEPT ![u].tokens_valid_from = now + 1]

issuedBeforeCutoff(iat, u) == iat < users[u].tokens_valid_from

purgeRevoked ==
    revoked_tokens' = [k \in {j \in DOMAIN revoked_tokens : revoked_tokens[j] >= now}
                         |-> revoked_tokens[k]]

-----------------------------------------------------------------------------
(* AuthTokenRepository (password_reset) and SsoTicketRepository *)

(* A used row is found again. *)
redeemableSlip(table, t) ==
    /\ t \in DOMAIN table
    /\ table[t].expires_at > now

redeemable(table, t) ==
    /\ t \in DOMAIN table
    /\ ~table[t].used
    /\ table[t].expires_at > now

(* Only what has already expired is superseded. *)
invalidateOutstandingSlip(u) ==
    password_reset_tokens' = [k \in DOMAIN password_reset_tokens |->
        [password_reset_tokens[k] EXCEPT
            !.used = @ \/ /\ password_reset_tokens[k].user_id = u
                          /\ password_reset_tokens[k].expires_at <= now]]

invalidateOutstanding(u) ==
    password_reset_tokens' = [k \in DOMAIN password_reset_tokens |->
        [password_reset_tokens[k] EXCEPT
            !.used = @ \/ password_reset_tokens[k].user_id = u]]

insertReset(t, u) ==
    password_reset_tokens' = Insert(password_reset_tokens, t,
        [user_id |-> u, expires_at |-> now + ResetTtl, used |-> FALSE])

consumeReset(t) ==
    password_reset_tokens' = [password_reset_tokens EXCEPT ![t].used = TRUE]

insertTicket(t, u, target) ==
    sso_tickets' = Insert(sso_tickets, t,
        [user_id |-> u, target |-> target, expires_at |-> now + SsoTtl,
         used |-> FALSE])

consumeTicket(t) == sso_tickets' = [sso_tickets EXCEPT ![t].used = TRUE]

purgeResets ==
    password_reset_tokens' = [k \in Unexpired(password_reset_tokens) |->
                                password_reset_tokens[k]]

purgeTickets ==
    sso_tickets' = [k \in Unexpired(sso_tickets) |-> sso_tickets[k]]
=============================================================================
