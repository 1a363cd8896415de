----------------------------- MODULE ServiceGate -----------------------------
(***************************************************************************)
(* What every call passes before its handler runs: the secret of the       *)
(* calling application (serviceAuth), the quota of that application and    *)
(* the quota of the account it names (rateLimiter, over the counters of    *)
(* rate-limiter-flexible).  Credentials are rows of service_clients, which *)
(* create-client and the operator change at any time.  The counters live   *)
(* in the memory of the process and are lost when it dies.                 *)
(*                                                                         *)
(* Definitions whose name ends in "Slip" are no part of the model: each is *)
(* the definition below it with one plausible mistake.                     *)
(***************************************************************************)
EXTENDS Naturals, FiniteSets

CONSTANTS
    Calls,
    Clients,           \* names of applications
    Env,               \* the name given to callers known by SERVICE_SECRET only
    Accounts,          \* an address, a number, or the IP a body without them is from
    Routes,            \* routes called
    SharedSecret,      \* whether SERVICE_SECRET is set
    Production,        \* NODE_ENV
    ClientPoints, ClientDuration,    \* clientLimiter
    Points, Duration, BlockDuration, \* limiters, by type
    MaxSecrets, MaxTime, MaxLives, MaxFaults

LimitTypes == {"login", "sendMail"}
AllRoutes  == {"login", "forgotPassword", "refresh"}

ASSUME ServiceGateAssumption ==
    /\ Routes \subseteq AllRoutes
    /\ SharedSecret \in BOOLEAN /\ Production \in BOOLEAN
    /\ ClientPoints \in Nat /\ ClientDuration \in Nat \ {0}
    /\ Points \in [LimitTypes -> Nat]
    /\ Duration \in [LimitTypes -> Nat \ {0}]
    /\ BlockDuration \in [LimitTypes -> Nat]
    /\ MaxSecrets \in Nat /\ MaxTime \in Nat /\ MaxLives \in Nat /\ MaxFaults \in Nat

VARIABLES
    now,
    service_clients,   \* name -> secret and status
    generated,         \* secrets generated so far
    process,           \* the service: where it is, and which life it is in
    buckets,           \* counters in its memory
    req

vars == <<now, service_clients, generated, process, buckets, req>>

(* Secrets are numbered as they are drawn; SERVICE_SECRET is number 0.     *)
EnvSecret == 0
Secrets   == Nat

ClientKeys  == {"client"} \X (Clients \cup {Env})
AccountKeys == LimitTypes \X Accounts
Keys == ClientKeys \cup AccountKeys

Outcomes == {"handler", "unauthorized", "unavailable", "clientLimited", "limited"}

Call == [pc : {"idle", "lookup", "clientQuota", "accountQuota", "lost"} \cup Outcomes,
         route : AllRoutes, secret : Secrets, account : Accounts,
         client : Clients \cup {Env},      \* req.serviceClient
         life : Nat,                       \* the life of the process it reached
         time : Nat,                       \* when the last limiter counted it
         live : BOOLEAN]                   \* history: its secret was in force when
                                           \* it began, or between then and look-up

TypeOK ==
    /\ now \in Nat /\ generated \in Nat
    /\ DOMAIN service_clients \subseteq Clients
    /\ service_clients \in [DOMAIN service_clients ->
                              [secret : Secrets, status : {"active", "disabled"}]]
    /\ process \in [pc : {"down", "counted", "up"}, life : Nat]
    /\ DOMAIN buckets \subseteq Keys
    /\ buckets \in [DOMAIN buckets -> [value : Nat, expiresAt : Nat]]
    /\ req \in [Calls -> Call]

Insert(f, key, row) ==
    [k \in DOMAIN f \cup {key} |-> IF k = key THEN row ELSE f[k]]

NoBuckets == [k \in {} |-> 0]

Init ==
    /\ now = 0 /\ generated = 0
    /\ service_clients = [c \in {} |-> 0]
    /\ process = [pc |-> "down", life |-> 0]
    /\ buckets = NoBuckets
    /\ \E a \in Accounts :
         req = [r \in Calls |-> [pc |-> "idle", route |-> "refresh", secret |-> EnvSecret,
                                 account |-> a, client |-> Env, life |-> 0, time |-> 0,
                                 live |-> FALSE]]

-----------------------------------------------------------------------------
(* ServiceClientRepository and create-client *)

active == {c \in DOMAIN service_clients : service_clients[c].status = "active"}

(* The status of the row is not looked at. *)
findBySecretSlip(secret) ==
    {c \in DOMAIN service_clients : service_clients[c].secret = secret}

findBySecret(secret) == {c \in active : service_clients[c].secret = secret}

create(name) ==
    /\ generated < MaxSecrets
    /\ generated' = generated + 1
    /\ service_clients' = Insert(service_clients, name,
                                 [secret |-> generated + 1, status |-> "active"])
    /\ UNCHANGED <<now, process, buckets, req>>

(* A status the column does not have. *)
disableSlip(name) ==
    /\ name \in active
    /\ service_clients' = [service_clients EXCEPT ![name].status = "inactive"]
    /\ UNCHANGED <<now, generated, process, buckets, req>>

(* The operator's UPDATE, and the one that takes it back: the secret is    *)
(* the same.                                                               *)
disable(name) ==
    /\ name \in active
    /\ service_clients' = [service_clients EXCEPT ![name].status = "disabled"]
    /\ UNCHANGED <<now, generated, process, buckets, req>>

Revive(call, secret) ==
    IF call.pc = "lookup" /\ call.secret = secret THEN [call EXCEPT !.live = TRUE] ELSE call

enable(name) ==
    /\ name \in DOMAIN service_clients \ active
    /\ service_clients' = [service_clients EXCEPT ![name].status = "active"]
    /\ req' = [r \in Calls |-> Revive(req[r], service_clients[name].secret)]
    /\ UNCHANGED <<now, generated, process, buckets>>

-----------------------------------------------------------------------------
(* index.ts: count the credentials, then listen.  A service that finds     *)
(* none, or cannot count, exits: it stays down.                            *)

CountCredentials ==
    /\ process.pc = "down"
    /\ Production => SharedSecret \/ active # {}
    /\ process' = [process EXCEPT !.pc = "counted"]
    /\ UNCHANGED <<now, service_clients, generated, buckets, req>>

Listen ==
    /\ process.pc = "counted"
    /\ process' = [process EXCEPT !.pc = "up"]
    /\ UNCHANGED <<now, service_clients, generated, buckets, req>>

InFlight(r) == req[r].pc \in {"lookup", "clientQuota", "accountQuota"}

Die ==
    /\ process.pc = "up" /\ process.life < MaxLives
    /\ process' = [pc |-> "down", life |-> process.life + 1]
    /\ buckets' = NoBuckets
    /\ req' = [r \in Calls |-> IF InFlight(r) THEN [req[r] EXCEPT !.pc = "lost"] ELSE req[r]]
    /\ UNCHANGED <<now, service_clients, generated>>

-----------------------------------------------------------------------------
(* serviceAuth *)

LiveSecrets ==
    {service_clients[c].secret : c \in active} \cup (IF SharedSecret THEN {EnvSecret} ELSE {})

Arrive(r) == \E route \in Routes, secret \in 0 .. generated, a \in Accounts :
    /\ process.pc = "up" /\ req[r].pc = "idle"
    /\ req' = [req EXCEPT ![r] =
         [pc |-> "lookup", route |-> route, secret |-> secret, account |-> a,
          client |-> Env, life |-> process.life, time |-> now,
          live |-> secret \in LiveSecrets]]
    /\ UNCHANGED <<now, service_clients, generated, process, buckets>>

Found(r) == \E c \in findBySecret(req[r].secret) :
    /\ req[r].pc = "lookup"
    /\ req' = [req EXCEPT ![r].pc = "clientQuota", ![r].client = c]
    /\ UNCHANGED <<now, service_clients, generated, process, buckets>>

(* The fallback is for a table that has no client yet. *)
FallbackSlip(r) ==
    /\ req[r].pc = "lookup" /\ findBySecret(req[r].secret) = {}
    /\ req' = [req EXCEPT ![r].pc =
         IF SharedSecret /\ req[r].secret = EnvSecret /\ service_clients = [c \in {} |-> 0]
         THEN "clientQuota" ELSE "unauthorized"]
    /\ UNCHANGED <<now, service_clients, generated, process, buckets>>

Fallback(r) ==
    /\ req[r].pc = "lookup" /\ findBySecret(req[r].secret) = {}
    /\ req' = [req EXCEPT ![r].pc =
         IF SharedSecret /\ req[r].secret = EnvSecret THEN "clientQuota" ELSE "unauthorized"]
    /\ UNCHANGED <<now, service_clients, generated, process, buckets>>

(* The SELECT fails. *)
LookupFails(r) ==
    /\ req[r].pc = "lookup"
    /\ Cardinality({q \in Calls : req[q].pc = "unavailable"}) < MaxFaults
    /\ req' = [req EXCEPT ![r].pc = "unavailable"]
    /\ UNCHANGED <<now, service_clients, generated, process, buckets>>

-----------------------------------------------------------------------------
(* RateLimiterMemory.consume.  A record that has expired, and whose timer  *)
(* is late, is counted on, unless this is the very instant it expires.     *)

counted(key, duration) ==
    IF key \in DOMAIN buckets /\ buckets[key].expiresAt # now
    THEN [buckets[key] EXCEPT !.value = @ + 1]
    ELSE [value |-> 1, expiresAt |-> now + duration]

(* The caller's next step is pass if the points suffice, and else excess.  *)
(* The first call in excess starts the block, if there is one.             *)
consume(r, key, points, duration, block, pass, excess) ==
    LET b == counted(key, duration)
    IN  /\ buckets' = Insert(buckets, key,
             IF b.value = points + 1 /\ block > 0
             THEN [b EXCEPT !.expiresAt = now + block] ELSE b)
        /\ req' = [req EXCEPT ![r].pc = IF b.value <= points THEN pass ELSE excess,
                              ![r].time = now]
        /\ UNCHANGED <<now, service_clients, generated, process>>

Limited == {"login", "forgotPassword"}
type(route) == IF route = "login" THEN "login" ELSE "sendMail"

(* All applications share one counter. *)
ClientQuotaSlip(r) ==
    /\ req[r].pc = "clientQuota"
    /\ consume(r, <<"client", Env>>, ClientPoints, ClientDuration, 0,
               IF req[r].route \in Limited THEN "accountQuota" ELSE "handler",
               "clientLimited")

ClientQuota(r) ==
    /\ req[r].pc = "clientQuota"
    /\ consume(r, <<"client", req[r].client>>, ClientPoints, ClientDuration, 0,
               IF req[r].route \in Limited THEN "accountQuota" ELSE "handler",
               "clientLimited")

keyFor(r) == <<type(req[r].route), req[r].account>>

(* One point too many. *)
AccountQuotaSlip(r) ==
    /\ req[r].pc = "accountQuota"
    /\ LET t == type(req[r].route)
       IN  consume(r, keyFor(r), Points[t] + 1, Duration[t], BlockDuration[t],
                   "handler", "limited")

(* The block is forgotten. *)
AccountQuotaUnblockedSlip(r) ==
    /\ req[r].pc = "accountQuota"
    /\ LET t == type(req[r].route)
       IN  consume(r, keyFor(r), Points[t], Duration[t], 0, "handler", "limited")

AccountQuota(r) ==
    /\ req[r].pc = "accountQuota"
    /\ LET t == type(req[r].route)
       IN  consume(r, keyFor(r), Points[t], Duration[t], BlockDuration[t],
                   "handler", "limited")

(* The timer of a record may be late, and never early. *)
Timer(key) ==
    /\ key \in DOMAIN buckets /\ buckets[key].expiresAt <= now
    /\ buckets' = [k \in DOMAIN buckets \ {key} |-> buckets[k]]
    /\ UNCHANGED <<now, service_clients, generated, process, req>>

Tick ==
    /\ now < MaxTime
    /\ now' = now + 1
    /\ UNCHANGED <<service_clients, generated, process, buckets, req>>

(* Nothing is in flight: the server waits. *)
Quiet ==
    /\ \A r \in Calls : ~InFlight(r)
    /\ UNCHANGED vars

Next ==
    \/ \E c \in Clients : create(c) \/ disable(c) \/ enable(c)
    \/ CountCredentials \/ Listen \/ Die
    \/ \E r \in Calls :
        \/ Arrive(r) \/ Found(r) \/ Fallback(r) \/ LookupFails(r)
        \/ ClientQuota(r) \/ AccountQuota(r)
    \/ \E key \in Keys : Timer(key)
    \/ Tick \/ Quiet

Spec == Init /\ [][Next]_vars

-----------------------------------------------------------------------------
(* Calls the quota of an account has decided on. *)
Decided(pc) == {r \in Calls : req[r].pc = pc /\ req[r].route \in Limited}

SameKey(r, q) == req[r].life = req[q].life /\ keyFor(r) = keyFor(q)

(* The limiters count in fixed windows, so in a window that lies anyhow at *)
(* most twice the points reach a handler, of one key and in one life of    *)
(* the process (rateLimiter.ts, RateLimiterMemory.consume).                *)
QuotaHolds ==
    \A r \in Decided("handler") :
        LET t == type(req[r].route)
        IN  Cardinality({q \in Decided("handler") :
                            /\ SameKey(q, r)
                            /\ req[q].time \in req[r].time .. req[r].time + Duration[t] - 1})
              <= 2 * Points[t]

(* An account that has been refused gets through again only after a block  *)
(* has lasted its full time, unless the process has restarted; calls       *)
(* refused meanwhile do not prolong it (limiters.login).                   *)
BlockHolds ==
    \A r \in Decided("limited"), p \in Decided("handler") :
        SameKey(r, p) /\ req[r].time < req[p].time =>
            \E q \in Decided("limited") :
                /\ SameKey(q, r) /\ req[q].time <= req[r].time
                /\ req[q].time + BlockDuration[type(req[q].route)] <= req[p].time

(* A call is refused for a quota that its own application, or its own      *)
(* account, has used up in this life of the process: nobody's calls count  *)
(* against somebody else, and a call refused earlier in the chain counts   *)
(* against no account (rateLimitClient, rateLimit, keyFor).                *)
OwnQuotaOnly ==
    /\ \A r \in Calls : req[r].pc = "clientLimited" =>
         Cardinality({q \in Calls \ {r} :
                        /\ req[q].pc \notin {"idle", "lookup", "unauthorized", "unavailable"}
                        /\ req[q].life = req[r].life /\ req[q].client = req[r].client})
           >= ClientPoints
    /\ \A r \in Decided("limited") :
         Cardinality({q \in Decided("limited") \cup Decided("handler") :
                        q # r /\ SameKey(q, r)})
           >= Points[type(req[r].route)]

(* A secret that was rotated or disabled before a call began, and not      *)
(* enabled again by the time it is looked up, does not get the call past   *)
(* the gate (DEPLOYMENT.md, rotating a client secret).                     *)
DeadSecretOpensNothing ==
    \A r \in Calls :
        req[r].pc \in {"clientQuota", "accountQuota", "clientLimited", "limited", "handler"}
          => req[r].live

(* A call is refused as unauthorized only while the secret it presents is  *)
(* not in force: provisioning, rotating, disabling or enabling one         *)
(* application disturbs no other, and the shared secret works beside the   *)
(* table (serviceAuth).                                                    *)
LiveSecretIsNotRefused ==
    [][\A r \in Calls :
         req'[r].pc = "unauthorized" /\ req[r].pc # "unauthorized"
           => req[r].secret \notin LiveSecrets]_vars
=============================================================================
