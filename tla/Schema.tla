------------------------------- MODULE Schema -------------------------------
(***************************************************************************)
(* The files of migrations/ as sequences of SQL statements, and what the   *)
(* service's own SQL expects to find.  A schema is a set of things: tables,*)
(* the columns and keys that some file changes after the table is made,    *)
(* and the values of login_history.event.  Columns that live and die with  *)
(* their table are not listed, nor is USE central_auth.                    *)
(*                                                                         *)
(* Definitions whose name ends in "Slip" are no part of the model: each is *)
(* the definition below it with one plausible mistake.                     *)
(***************************************************************************)
EXTENDS Sequences, SequencesExt

Table(t) == <<t, "table">>
Of(t, names) == {<<t, n>> : n \in names}

(* What a statement is: without effect if one of "unless" is there; an     *)
(* error if one of "needs" is missing or one of "forbids" is there; and    *)
(* what it does to the rows of central_users.                              *)
Plain == [unless |-> {}, needs |-> {}, forbids |-> {}, gives |-> {},
          takes |-> {}, rows |-> "kept"]

CreateIfNotExists(t, columns) ==
    [Plain EXCEPT !.unless = {Table(t)}, !.gives = {Table(t)} \cup Of(t, columns)]

DropIfExists(t) == [Plain EXCEPT !.takes = {Table(t)}]

Alter(t, old, new) ==
    [Plain EXCEPT !.needs = {Table(t)} \cup Of(t, old), !.forbids = Of(t, new),
                  !.gives = Of(t, new), !.takes = Of(t, old)]

Update(t, columns, effect) ==
    [Plain EXCEPT !.needs = {Table(t)} \cup Of(t, columns), !.rows = effect]

-----------------------------------------------------------------------------
(* Each file that changes the ENUM lists every value again. *)

Events001 == {"login", "login_failed", "logout", "refresh", "password_change"}
Events003 == Events001 \cup {"password_reset", "password_reset_requested",
                             "register", "email_verified"}
Events005 == Events003 \cup {"profile_updated", "email_changed", "tokens_revoked"}
Events008 == Events005 \cup {"account_locked"}

Events009 == Events008 \cup {"sso_ticket_issued", "sso_redeem"}

LoginEvent == {"login", "login_failed", "logout", "refresh", "password_change",
               "password_reset", "password_reset_requested", "register",
               "email_verified", "profile_updated", "email_changed",
               "tokens_revoked", "account_locked", "sso_ticket_issued",
               "sso_redeem"}

(* The values that are not listed go. *)
ListEvents(events) ==
    [Plain EXCEPT !.needs = {Table("login_history")},
                  !.gives = Of("event", events),
                  !.takes = Of("event", LoginEvent \ events),
                  !.rows = "events listed"]

-----------------------------------------------------------------------------
initial_schema == <<
    CreateIfNotExists("central_users", {"email_verified"}),
    CreateIfNotExists("refresh_tokens", {"device", "revoked"}),
    CreateIfNotExists("sessions", {}),
    CreateIfNotExists("oauth_clients", {}),
    CreateIfNotExists("oauth_authorization_codes", {}),
    [CreateIfNotExists("login_history", {}) EXCEPT !.gives = @ \cup Of("event", Events001)]>>

(* For the databases of the applications, which have these tables. *)
add_central_user_id_apps == <<
    Alter("users", {}, {"central_user_id"}),
    Alter("vendors", {}, {"central_user_id"}),
    Alter("agents", {}, {"central_user_id"})>>

auth_tokens == <<
    CreateIfNotExists("password_reset_tokens", {}),
    CreateIfNotExists("email_verification_tokens", {}),
    ListEvents(Events003),
    Alter("login_history", {}, {"idx_user_event_created"})>>

drop_oauth == <<DropIfExists("oauth_authorization_codes"),
                DropIfExists("oauth_clients"), DropIfExists("sessions")>>

service_clients_and_revocation == <<
    CreateIfNotExists("service_clients", {"name", "secret_hash", "active"}),
    CreateIfNotExists("revoked_tokens", {}),
    Alter("central_users", {}, {"tokens_valid_from"}),
    ListEvents(Events005)>>

(* The old flag is dropped before it is read. *)
verificationSlip == <<
    Alter("central_users", {}, {"email_verified_at"}),
    [Alter("central_users", {"email_verified"}, {}) EXCEPT !.rows = "flag dropped"],
    Update("central_users", {}, "flag copied")>>

verification == <<
    Alter("central_users", {}, {"email_verified_at"}),
    Update("central_users", {"email_verified"}, "flag copied"),
    [Alter("central_users", {"email_verified"}, {}) EXCEPT !.rows = "flag dropped"]>>

(* uq_uuid stands for the key and for NOT NULL, which come together. *)
schema_to_spec ==
    <<Alter("central_users", {}, {"uuid"}),
      Update("central_users", {"uuid"}, "uuid filled"),
      [Alter("central_users", {}, {"uq_uuid"}) EXCEPT !.rows = "uuid required"],
      Alter("central_users", {}, {"avatar"})>>
    \o verification
    \o <<Alter("central_users", {}, {"failed_login_attempts", "locked_until"}),
         Alter("refresh_tokens", {"device"}, {"device_name", "ip_address"}),
         Alter("refresh_tokens", {}, {"revoked_at"}),
         Update("refresh_tokens", {"revoked", "revoked_at"}, "kept"),
         Alter("refresh_tokens", {"revoked"}, {}),
         Alter("login_history", {}, {"device", "browser"}),
         Alter("service_clients", {"name", "secret_hash"},
               {"client_name", "client_secret_hash"}),
         Alter("service_clients", {}, {"allowed_origin"}),
         Alter("service_clients", {}, {"status"}),
         Update("service_clients", {"active", "status"}, "kept"),
         Alter("service_clients", {"active"}, {})>>

add_role == <<
    Alter("central_users", {}, {"role"}),
    Update("central_users", {"role"}, "kept"),
    Alter("central_users", {}, {"idx_role"}),
    ListEvents(Events008)>>

sso_tickets == <<CreateIfNotExists("sso_tickets", {}), ListEvents(Events009)>>

(* migrations/*.sql in the order of their names, and what each contains;   *)
(* 006 repeats 004.                                                        *)
Names == <<"001", "002", "003", "004", "005", "006", "007", "008", "009">>
Contents == <<initial_schema, add_central_user_id_apps, auth_tokens, drop_oauth,
              service_clients_and_revocation, drop_oauth, schema_to_spec,
              add_role, sso_tickets>>

Files == [f \in ToSet(Names) |-> Contents[CHOOSE i \in DOMAIN Names : Names[i] = f]]

AllThings ==
    UNION {UNION {s.needs \cup s.gives \cup s.takes : s \in ToSet(Files[f])} :
           f \in ToSet(Names)}

-----------------------------------------------------------------------------
(* What the service names, file by file of its source. *)
NamedByUsers ==
    Of("central_users", {"uuid", "avatar", "email_verified_at", "role",
       "failed_login_attempts", "locked_until", "tokens_valid_from"})

NamedByTokens == Of("refresh_tokens", {"device_name", "ip_address", "revoked_at"})

NamedByHistory == Of("login_history", {"device", "browser"}) \cup Of("event", LoginEvent)

NamedByClients ==
    Of("service_clients", {"client_name", "client_secret_hash", "allowed_origin", "status"})

(* Every repository names its tables. *)
NamedByService ==
    {Table(t) : t \in {"central_users", "refresh_tokens", "login_history",
                       "password_reset_tokens", "email_verification_tokens",
                       "revoked_tokens", "service_clients", "sso_tickets"}}
    \cup NamedByUsers \cup NamedByTokens \cup NamedByHistory \cup NamedByClients
=============================================================================
