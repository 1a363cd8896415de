-------------------------- MODULE ServiceGateProof --------------------------
(***************************************************************************)
(* ServiceGate keeps its types, and lets a call pass if and only if its    *)
(* secret is in force, whatever is provisioned, rotated, disabled or       *)
(* enabled while the call is under way.  Its quotas are each application's and each      *)
(* account's own, its blocks last, and its windows hold, for every quota.  *)
(***************************************************************************)
EXTENDS ServiceGate, FiniteSetTheorems, TLAPS

Pcs == {"idle", "lookup", "clientQuota", "accountQuota", "lost"} \cup Outcomes

-----------------------------------------------------------------------------
(* Updates of a call. *)
LEMMA CallUpdateTyped ==
    ASSUME NEW call \in Call, NEW pc \in Pcs, NEW n \in Nat, NEW c \in Clients \cup {Env}
    PROVE  /\ [call EXCEPT !.pc = pc] \in Call
           /\ [call EXCEPT !.pc = pc, !.time = n] \in Call
           /\ [call EXCEPT !.pc = pc, !.client = c] \in Call
BY DEF Call, Pcs

(* What a limiter writes is a record of a counter. *)
LEMMA CountedTyped ==
    ASSUME TypeOK, NEW key, NEW duration \in Nat
    PROVE  counted(key, duration) \in [value : Nat, expiresAt : Nat]
<1>1. CASE key \in DOMAIN buckets /\ buckets[key].expiresAt # now
  <2>1. buckets[key] \in [value : Nat, expiresAt : Nat]
    BY <1>1 DEF TypeOK
  <2> QED
    BY <1>1, <2>1 DEF counted
<1>2. CASE ~(key \in DOMAIN buckets /\ buckets[key].expiresAt # now)
  BY <1>2 DEF counted, TypeOK
<1> QED
  BY <1>1, <1>2

(* A step of a limiter keeps the types. *)
LEMMA ConsumeTyped ==
    ASSUME TypeOK, NEW r \in Calls, NEW key \in Keys,
           NEW points \in Nat, NEW duration \in Nat, NEW block \in Nat,
           NEW pass \in {"accountQuota", "handler"},
           NEW excess \in {"clientLimited", "limited"},
           consume(r, key, points, duration, block, pass, excess)
    PROVE  TypeOK'
<1> DEFINE b == counted(key, duration)
           row == IF b.value = points + 1 /\ block > 0
                  THEN [b EXCEPT !.expiresAt = now + block] ELSE b
<1>1. b \in [value : Nat, expiresAt : Nat]
  BY CountedTyped
<1>2. now \in Nat /\ now + block \in Nat
  BY DEF TypeOK
<1>3. row \in [value : Nat, expiresAt : Nat]
  <2> HIDE DEF b
  <2> QED
    BY <1>1, <1>2
<1>4. buckets' = Insert(buckets, key, row)
  BY DEF consume
<1>5. /\ DOMAIN buckets' \subseteq Keys
      /\ buckets' \in [DOMAIN buckets' -> [value : Nat, expiresAt : Nat]]
  <2> HIDE DEF row
  <2> QED
    BY <1>3, <1>4 DEF TypeOK, Insert
<1>6. PICK pc \in Pcs : req' = [req EXCEPT ![r].pc = pc, ![r].time = now]
  BY DEF consume, Pcs, Outcomes
<1>7. req' \in [Calls -> Call]
  <2>1. [req[r] EXCEPT !.pc = pc, !.time = now] \in Call
    BY <1>2, CallUpdateTyped DEF TypeOK
  <2>2. req' = [req EXCEPT ![r] = [req[r] EXCEPT !.pc = pc, !.time = now]]
    BY <1>6 DEF TypeOK
  <2> QED
    BY <2>1, <2>2 DEF TypeOK
<1> QED
  BY <1>5, <1>7 DEF TypeOK, consume

-----------------------------------------------------------------------------
(* Every secret that is stored or presented has been drawn. *)
SecretsDrawn ==
    /\ \A c \in DOMAIN service_clients : service_clients[c].secret <= generated
    /\ \A r \in Calls : req[r].secret <= generated

Passed == {"clientQuota", "accountQuota", "clientLimited", "limited", "handler"}

(* A secret out of force stays so unless it is enabled: one that is in     *)
(* force when it is looked up was so when the call began or has been       *)
(* enabled since.                                                          *)
Judged(call) ==
    /\ call.pc = "lookup" /\ call.secret \in LiveSecrets => call.live
    /\ call.pc \in Passed => call.live

NoneRevives == \A r \in Calls : Judged(req[r])

GateInv == TypeOK /\ SecretsDrawn /\ NoneRevives

LEMMA InitGate ==
    ASSUME ServiceGateAssumption, Init
    PROVE  GateInv
<1>1. PICK a \in Accounts :
        req = [r \in Calls |-> [pc |-> "idle", route |-> "refresh", secret |-> EnvSecret,
                                account |-> a, client |-> Env, life |-> 0, time |-> 0,
                                live |-> FALSE]]
  BY DEF Init
<1>2. req \in [Calls -> Call]
  BY <1>1 DEF Call, AllRoutes, Secrets, EnvSecret, Outcomes
<1>3. TypeOK
  BY <1>2 DEF Init, TypeOK, NoBuckets
<1>4. SecretsDrawn /\ NoneRevives
  BY <1>1 DEF Init, SecretsDrawn, NoneRevives, Judged, EnvSecret, Passed
<1> QED
  BY <1>3, <1>4 DEF GateInv

-----------------------------------------------------------------------------
(* What the table goes through.  A step that brings no drawn secret into   *)
(* force and leaves the calls alone changes no judgement.                  *)
LEMMA TableStep ==
    ASSUME GateInv, TypeOK', UNCHANGED req, generated <= generated',
           \A c \in DOMAIN service_clients' : service_clients'[c].secret <= generated',
           \A s \in LiveSecrets' : s <= generated => s \in LiveSecrets
    PROVE  GateInv'
<1>1. \A r \in Calls : req[r].secret \in Nat /\ req[r].secret <= generated
  BY DEF GateInv, TypeOK, SecretsDrawn, Call, Secrets
<1>2. SecretsDrawn'
  BY <1>1 DEF SecretsDrawn, GateInv, TypeOK
<1>3. NoneRevives'
  BY <1>1 DEF NoneRevives, Judged, GateInv
<1> QED
  BY <1>2, <1>3 DEF GateInv

LEMMA CreateStep ==
    ASSUME GateInv, NEW c \in Clients, create(c)
    PROVE  GateInv'
<1> DEFINE row == [secret |-> generated + 1, status |-> "active"]
<1>1. /\ generated \in Nat /\ generated' = generated + 1 /\ UNCHANGED req
      /\ service_clients' = [k \in DOMAIN service_clients \cup {c} |->
                               IF k = c THEN row ELSE service_clients[k]]
  BY DEF create, Insert, GateInv, TypeOK
<1>2. row \in [secret : Secrets, status : {"active", "disabled"}]
  BY <1>1 DEF Secrets
<1>3. TypeOK'
  <2>1. /\ DOMAIN service_clients' \subseteq Clients
        /\ service_clients' \in [DOMAIN service_clients' ->
                                   [secret : Secrets, status : {"active", "disabled"}]]
    <3> HIDE DEF row
    <3> QED
      BY <1>1, <1>2 DEF GateInv, TypeOK
  <2> QED
    BY <1>1, <2>1 DEF create, GateInv, TypeOK
<1>4. \A k \in DOMAIN service_clients' : service_clients'[k].secret <= generated'
  <2>1. \A k \in DOMAIN service_clients : service_clients[k].secret \in Nat
    BY DEF GateInv, TypeOK, Secrets
  <2> QED
    BY <1>1, <2>1 DEF GateInv, SecretsDrawn
<1>5. \A s \in LiveSecrets' : s <= generated => s \in LiveSecrets
  <2>1. row.secret = generated + 1 /\ ~(row.secret <= generated)
    BY <1>1
  <2> HIDE DEF row
  <2>2. ASSUME NEW k \in active', service_clients'[k].secret <= generated
        PROVE  k \in active /\ service_clients'[k].secret = service_clients[k].secret
    <3>1. k \in DOMAIN service_clients \cup {c} /\ service_clients'[k].status = "active"
      BY <1>1 DEF active
    <3>2. k # c
      BY <1>1, <2>1, <2>2, <3>1
    <3> QED
      BY <1>1, <3>1, <3>2 DEF active
  <2> QED
    BY <2>2 DEF LiveSecrets
<1> QED
  BY <1>1, <1>3, <1>4, <1>5, TableStep

LEMMA DisableStep ==
    ASSUME GateInv, NEW c \in Clients, disable(c)
    PROVE  GateInv'
<1>1. c \in DOMAIN service_clients
  BY DEF disable, active
<1>2. /\ service_clients' = [service_clients EXCEPT ![c].status = "disabled"]
      /\ UNCHANGED <<generated, req>>
  BY DEF disable
<1>3. TypeOK'
  BY <1>1, <1>2 DEF disable, GateInv, TypeOK
<1>4. \A k \in DOMAIN service_clients' : service_clients'[k].secret <= generated'
  BY <1>1, <1>2 DEF GateInv, SecretsDrawn, TypeOK
<1>5. \A s \in LiveSecrets' : s \in LiveSecrets
  BY <1>1, <1>2 DEF LiveSecrets, active, GateInv, TypeOK
<1> QED
  BY <1>2, <1>3, <1>4, <1>5, TableStep DEF GateInv, TypeOK

(* Enabling a row brings its secret into force, and the calls that are     *)
(* about to look it up remember so.                                        *)
LEMMA EnableCalls ==
    ASSUME GateInv, NEW c \in Clients, enable(c)
    PROVE  /\ UNCHANGED <<now, generated, process, buckets>> /\ req' \in [Calls -> Call]
           /\ \A q \in Calls :
                \/ /\ req'[q] = req[q]
                   /\ req[q].pc = "lookup" => req[q].secret # service_clients[c].secret
                \/ /\ req[q].pc = "lookup" /\ req'[q].pc = "lookup" /\ req'[q].live
                   /\ req'[q].secret = req[q].secret /\ req'[q].life = req[q].life
                   /\ req'[q].time = req[q].time /\ req'[q].route = req[q].route
<1>1. req' = [q \in Calls |-> Revive(req[q], service_clients[c].secret)]
  BY DEF enable
<1>2. ASSUME NEW q \in Calls
      PROVE  /\ req'[q] \in Call
             /\ \/ /\ req'[q] = req[q]
                   /\ req[q].pc = "lookup" => req[q].secret # service_clients[c].secret
                \/ /\ req[q].pc = "lookup" /\ req'[q].pc = "lookup" /\ req'[q].live
                   /\ req'[q].secret = req[q].secret /\ req'[q].life = req[q].life
                   /\ req'[q].time = req[q].time /\ req'[q].route = req[q].route
  <2>1. req[q] \in Call /\ req'[q] = Revive(req[q], service_clients[c].secret)
    BY <1>1 DEF GateInv, TypeOK
  <2>2. CASE req[q].pc = "lookup" /\ req[q].secret = service_clients[c].secret
    <3>1. req'[q] = [req[q] EXCEPT !.live = TRUE]
      BY <2>1, <2>2 DEF Revive
    <3> QED
      BY <2>1, <2>2, <3>1 DEF Call
  <2>3. CASE ~(req[q].pc = "lookup" /\ req[q].secret = service_clients[c].secret)
    BY <2>1, <2>3 DEF Revive
  <2> QED
    BY <2>2, <2>3
<1> QED
  BY <1>1, <1>2 DEF enable

LEMMA EnableStep ==
    ASSUME GateInv, NEW c \in Clients, enable(c)
    PROVE  GateInv'
<1>1. /\ c \in DOMAIN service_clients
      /\ service_clients' = [service_clients EXCEPT ![c].status = "active"]
  BY DEF enable
<1>2. TypeOK'
  BY <1>1, EnableCalls DEF GateInv, TypeOK
<1>3. SecretsDrawn'
  <2>1. \A k \in DOMAIN service_clients' :
          k \in DOMAIN service_clients /\ service_clients'[k].secret = service_clients[k].secret
    BY <1>1 DEF GateInv, TypeOK
  <2>2. \A q \in Calls : req'[q].secret = req[q].secret
    BY EnableCalls
  <2> QED
    BY <2>1, <2>2, EnableCalls DEF GateInv, SecretsDrawn
<1>4. \A s \in LiveSecrets' : s \in LiveSecrets \/ s = service_clients[c].secret
  BY <1>1 DEF LiveSecrets, active, GateInv, TypeOK
<1>5. NoneRevives'
  <2> SUFFICES ASSUME NEW q \in Calls PROVE Judged(req[q])'
    BY DEF NoneRevives
  <2>1. Judged(req[q])
    BY DEF GateInv, NoneRevives
  <2>2. CASE req'[q] = req[q] /\ (req[q].pc = "lookup" => req[q].secret # service_clients[c].secret)
    BY <1>4, <2>1, <2>2 DEF Judged
  <2>3. CASE req'[q].pc = "lookup" /\ req'[q].live
    BY <2>3 DEF Judged, Passed
  <2> QED
    BY <2>2, <2>3, EnableCalls
<1> QED
  BY <1>2, <1>3, <1>5 DEF GateInv

-----------------------------------------------------------------------------
(* A step of one call: its secret stays the one it presented, and it is    *)
(* judged by what it finds.                                                *)
LEMMA CallStep ==
    ASSUME GateInv, NEW r \in Calls, NEW call \in Call,
           TypeOK', req' = [req EXCEPT ![r] = call],
           UNCHANGED <<service_clients, generated>>,
           call.secret <= generated, Judged(call)
    PROVE  GateInv'
<1>1. LiveSecrets' = LiveSecrets
  BY DEF LiveSecrets, active
<1>2. req'[r] = call /\ \A q \in Calls \ {r} : req'[q] = req[q]
  BY DEF GateInv, TypeOK
<1>3. SecretsDrawn'
  BY <1>2 DEF SecretsDrawn, GateInv
<1>4. NoneRevives'
  BY <1>1, <1>2 DEF NoneRevives, Judged, GateInv
<1> QED
  BY <1>3, <1>4 DEF GateInv

LEMMA ArriveStep ==
    ASSUME ServiceGateAssumption, GateInv, NEW r \in Calls, Arrive(r)
    PROVE  GateInv'
<1>1. PICK route \in Routes, secret \in 0 .. generated, a \in Accounts :
        /\ req' = [req EXCEPT ![r] =
             [pc |-> "lookup", route |-> route, secret |-> secret, account |-> a,
              client |-> Env, life |-> process.life, time |-> now,
              live |-> secret \in LiveSecrets]]
        /\ UNCHANGED <<now, service_clients, generated, process, buckets>>
  BY DEF Arrive
<1> DEFINE call == [pc |-> "lookup", route |-> route, secret |-> secret, account |-> a,
                    client |-> Env, life |-> process.life, time |-> now,
                    live |-> secret \in LiveSecrets]
<1>2. now \in Nat /\ generated \in Nat /\ process.life \in Nat /\ route \in AllRoutes
  BY DEF GateInv, TypeOK, ServiceGateAssumption
<1>3. ASSUME NEW flag \in BOOLEAN
      PROVE  [pc |-> "lookup", route |-> route, secret |-> secret, account |-> a,
              client |-> Env, life |-> process.life, time |-> now, live |-> flag] \in Call
  BY <1>2 DEF Call, Secrets
<1>4. (secret \in LiveSecrets) \in BOOLEAN
  OBVIOUS
<1>5. call \in Call
  BY <1>3, <1>4, Zenon
<1>6. TypeOK'
  <2> HIDE DEF call
  <2> QED
    BY <1>1, <1>5 DEF GateInv, TypeOK, call
<1>7. Judged(call)
  BY DEF Judged, Passed
<1>8. call.secret <= generated
  BY <1>2
<1> QED
  <2>1. req' = [req EXCEPT ![r] = call]
    BY <1>1
  <2> HIDE DEF call
  <2> QED
    BY <1>1, <1>5, <1>6, <1>7, <1>8, <2>1, CallStep

(* serviceAuth finds the row, falls back, refuses, or cannot tell. *)
LEMMA LookupStep ==
    ASSUME ServiceGateAssumption, GateInv, NEW r \in Calls,
           Found(r) \/ Fallback(r) \/ LookupFails(r)
    PROVE  GateInv'
<1> DEFINE secret == req[r].secret
<1>1. req[r] \in Call /\ secret <= generated /\ Judged(req[r])
  BY DEF GateInv, TypeOK, SecretsDrawn, NoneRevives
<1>2. /\ req[r].pc = "lookup"
      /\ UNCHANGED <<now, service_clients, generated, process, buckets>>
  BY DEF Found, Fallback, LookupFails
<1>3. PICK call \in Call :
        /\ req' = [req EXCEPT ![r] = call]
        /\ call.secret = secret /\ Judged(call)
  <2>1. CASE Found(r)
    <3>1. PICK c \in findBySecret(secret) :
            req' = [req EXCEPT ![r].pc = "clientQuota", ![r].client = c]
      BY <2>1 DEF Found
    <3>2. c \in Clients /\ secret \in LiveSecrets
      BY DEF findBySecret, active, LiveSecrets, GateInv, TypeOK
    <3> DEFINE call == [req[r] EXCEPT !.pc = "clientQuota", !.client = c]
    <3>3. call \in Call
      BY <1>1, <3>2, CallUpdateTyped DEF Pcs, Call
    <3>4. /\ req' = [req EXCEPT ![r] = call]
          /\ call.secret = secret /\ call.pc = "clientQuota" /\ call.live = req[r].live
      BY <1>1, <3>1 DEF GateInv, TypeOK, Call
    <3>5. req[r].live
      BY <1>1, <1>2, <3>2 DEF Judged
    <3> HIDE DEF call
    <3> QED
      BY <3>3, <3>4, <3>5 DEF Judged, Passed
  <2>2. CASE Fallback(r)
    <3> DEFINE pass == SharedSecret /\ secret = EnvSecret
               next == IF pass THEN "clientQuota" ELSE "unauthorized"
               call == [req[r] EXCEPT !.pc = next]
    <3>1. findBySecret(secret) = {} /\ req' = [req EXCEPT ![r].pc = next]
      BY <2>2 DEF Fallback
    <3>2. pass <=> secret \in LiveSecrets
      BY <3>1 DEF findBySecret, LiveSecrets, active
    <3>3. next \in Pcs
      BY DEF Pcs, Outcomes
    <3> HIDE DEF pass
    <3>4. /\ call \in Call /\ req' = [req EXCEPT ![r] = call]
          /\ call.secret = secret /\ call.pc = next /\ call.live = req[r].live
      <4> HIDE DEF next
      <4> QED
        BY <1>1, <3>1, <3>3, CallUpdateTyped DEF GateInv, TypeOK, Call
    <3>5. secret \in LiveSecrets => req[r].live
      BY <1>1, <1>2 DEF Judged
    <3>6. Judged(call)
      <4>1. CASE pass
        BY <3>2, <3>4, <3>5, <4>1 DEF Judged, Passed
      <4>2. CASE ~pass
        BY <3>2, <3>4, <4>2 DEF Judged, Passed
      <4> QED
        BY <4>1, <4>2
    <3> QED
      BY <3>4, <3>6
  <2>3. CASE LookupFails(r)
    <3> DEFINE call == [req[r] EXCEPT !.pc = "unavailable"]
    <3>1. /\ call \in Call /\ req' = [req EXCEPT ![r] = call]
          /\ call.secret = secret /\ call.pc = "unavailable"
      BY <1>1, <2>3, CallUpdateTyped DEF LookupFails, Pcs, Outcomes, GateInv, TypeOK, Call
    <3> HIDE DEF call
    <3> QED
      BY <3>1 DEF Judged, Passed
  <2> QED
    BY <2>1, <2>2, <2>3
<1>4. TypeOK'
  BY <1>2, <1>3 DEF GateInv, TypeOK
<1> QED
  BY <1>1, <1>2, <1>3, <1>4, CallStep

(* A limiter judges a call that has passed serviceAuth already. *)
LEMMA QuotaStep ==
    ASSUME ServiceGateAssumption, GateInv, NEW r \in Calls,
           ClientQuota(r) \/ AccountQuota(r)
    PROVE  GateInv'
<1>1. req[r] \in Call /\ req[r].secret <= generated /\ Judged(req[r]) /\ now \in Nat
  BY DEF GateInv, TypeOK, SecretsDrawn, NoneRevives
<1>2. TypeOK'
  <2>1. CASE ClientQuota(r)
    <3>1. <<"client", req[r].client>> \in Keys
      BY <1>1 DEF Keys, ClientKeys, Call
    <3> DEFINE pass == IF req[r].route \in Limited THEN "accountQuota" ELSE "handler"
    <3>2. pass \in {"accountQuota", "handler"}
      OBVIOUS
    <3>3. consume(r, <<"client", req[r].client>>, ClientPoints, ClientDuration, 0,
                  pass, "clientLimited")
      BY <2>1 DEF ClientQuota
    <3> HIDE DEF pass
    <3> QED
      BY <3>1, <3>2, <3>3, ConsumeTyped DEF GateInv, ServiceGateAssumption
  <2>2. CASE AccountQuota(r)
    <3> DEFINE t == type(req[r].route)
    <3>1. t \in LimitTypes
      BY DEF type, LimitTypes
    <3>2. keyFor(r) \in Keys
      BY <1>1, <3>1 DEF keyFor, Keys, AccountKeys, Call
    <3>3. Points[t] \in Nat /\ Duration[t] \in Nat /\ BlockDuration[t] \in Nat
      BY <3>1 DEF ServiceGateAssumption
    <3>4. consume(r, keyFor(r), Points[t], Duration[t], BlockDuration[t], "handler", "limited")
      BY <2>2 DEF AccountQuota
    <3> HIDE DEF t
    <3> QED
      BY <3>2, <3>3, <3>4, ConsumeTyped DEF GateInv
  <2> QED
    BY <2>1, <2>2
<1>3. /\ req[r].pc \in {"clientQuota", "accountQuota"}
      /\ UNCHANGED <<service_clients, generated>>
      /\ \E pc \in Passed : req' = [req EXCEPT ![r].pc = pc, ![r].time = now]
  BY DEF ClientQuota, AccountQuota, consume, Passed
<1>4. PICK pc \in Passed : req' = [req EXCEPT ![r].pc = pc, ![r].time = now]
  BY <1>3
<1> DEFINE call == [req[r] EXCEPT !.pc = pc, !.time = now]
<1>5. call \in Call
  BY <1>1, CallUpdateTyped DEF Passed, Pcs, Outcomes
<1>6. /\ req' = [req EXCEPT ![r] = call]
      /\ call.secret = req[r].secret /\ call.pc = pc /\ call.live = req[r].live
  BY <1>1, <1>4 DEF GateInv, TypeOK, Call
<1>7. req[r].live
  BY <1>1, <1>3 DEF Judged, Passed
<1>8. Judged(call)
  <2> HIDE DEF call
  <2> QED
    BY <1>6, <1>7 DEF Judged, Passed
<1> HIDE DEF call
<1> QED
  BY <1>1, <1>2, <1>3, <1>5, <1>6, <1>8, CallStep

(* The process dies: calls are lost, and none is let through. *)
LEMMA DieStep ==
    ASSUME GateInv, Die
    PROVE  GateInv'
<1>1. /\ req' = [r \in Calls |-> IF InFlight(r) THEN [req[r] EXCEPT !.pc = "lost"] ELSE req[r]]
      /\ buckets' = NoBuckets
      /\ process' = [pc |-> "down", life |-> process.life + 1]
      /\ UNCHANGED <<now, service_clients, generated>>
  BY DEF Die
<1>2. \A r \in Calls : [req[r] EXCEPT !.pc = "lost"] \in Call
  BY CallUpdateTyped DEF GateInv, TypeOK, Pcs, Call
<1>3. req' \in [Calls -> Call]
  BY <1>1, <1>2 DEF GateInv, TypeOK
<1>4. TypeOK'
  BY <1>1, <1>3 DEF GateInv, TypeOK, NoBuckets
<1>5. \A r \in Calls : /\ req'[r].secret = req[r].secret
                       /\ req'[r].live = req[r].live
                       /\ req'[r].pc \in {"lost", req[r].pc}
  BY <1>1 DEF GateInv, TypeOK, Call
<1>6. LiveSecrets' = LiveSecrets
  BY <1>1 DEF LiveSecrets, active
<1>7. SecretsDrawn' /\ NoneRevives'
  BY <1>1, <1>5, <1>6 DEF SecretsDrawn, NoneRevives, Judged, Passed, GateInv
<1> QED
  BY <1>4, <1>7 DEF GateInv

(* Steps that touch neither calls nor credentials. *)
LEMMA OtherStep ==
    ASSUME GateInv,
           \/ CountCredentials \/ Listen \/ Tick \/ Quiet \/ UNCHANGED vars
           \/ \E key \in Keys : Timer(key)
    PROVE  GateInv'
<1>1. UNCHANGED <<service_clients, generated, req>>
  BY DEF CountCredentials, Listen, Tick, Quiet, Timer, vars
<1>2. TypeOK'
  <2>1. CASE CountCredentials \/ Listen
    BY <2>1 DEF CountCredentials, Listen, GateInv, TypeOK
  <2>2. CASE Tick
    BY <2>2 DEF Tick, GateInv, TypeOK
  <2>3. CASE Quiet \/ UNCHANGED vars
    BY <2>3 DEF Quiet, vars, GateInv, TypeOK
  <2>4. CASE \E key \in Keys : Timer(key)
    BY <2>4 DEF Timer, GateInv, TypeOK
  <2> QED
    BY <2>1, <2>2, <2>3, <2>4
<1>3. SecretsDrawn' /\ NoneRevives'
  BY <1>1 DEF SecretsDrawn, NoneRevives, Judged, LiveSecrets, active, GateInv
<1> QED
  BY <1>2, <1>3 DEF GateInv

LEMMA NextGate ==
    ASSUME ServiceGateAssumption, GateInv, [Next]_vars
    PROVE  GateInv'
<1>1. CASE \E c \in Clients : create(c) \/ disable(c) \/ enable(c)
  BY <1>1, CreateStep, DisableStep, EnableStep
<1>2. CASE CountCredentials \/ Listen \/ Tick \/ Quiet \/ UNCHANGED vars
           \/ \E key \in Keys : Timer(key)
  BY <1>2, OtherStep
<1>3. CASE Die
  BY <1>3, DieStep
<1>4. ASSUME NEW r \in Calls,
             Arrive(r) \/ Found(r) \/ Fallback(r) \/ LookupFails(r)
             \/ ClientQuota(r) \/ AccountQuota(r)
      PROVE  GateInv'
  BY <1>4, ArriveStep, LookupStep, QuotaStep
<1> QED
  BY <1>1, <1>2, <1>3, <1>4 DEF Next

LEMMA GateInvariant == Spec => []GateInv
<1>1. Init => GateInv
  BY InitGate, ServiceGateAssumption
<1>2. GateInv /\ [Next]_vars => GateInv'
  BY NextGate, ServiceGateAssumption
<1> QED
  BY <1>1, <1>2, PTL DEF Spec

(* The table of clients, the counters and the calls keep their shapes      *)
(* (ServiceClientRepository, RateLimiterMemory).                           *)
THEOREM TypeCorrect == Spec => []TypeOK
<1>1. GateInv => TypeOK
  BY DEF GateInv
<1> QED
  BY <1>1, GateInvariant, PTL

(* However many applications there are, and whenever they are provisioned, *)
(* rotated, disabled or enabled, no call passes serviceAuth with a secret  *)
(* that was out of force from when the call began until it was looked up.  *)
THEOREM RotationTakesHold == Spec => []DeadSecretOpensNothing
<1>1. GateInv => DeadSecretOpensNothing
  BY DEF GateInv, NoneRevives, Judged, Passed, DeadSecretOpensNothing
<1> QED
  BY <1>1, GateInvariant, PTL

(* A call becomes unauthorized in one way only. *)
LEMMA RefusedByFallback ==
    ASSUME GateInv, [Next]_vars, NEW r \in Calls,
           req'[r].pc = "unauthorized", req[r].pc # "unauthorized"
    PROVE  Fallback(r)
<1>1. CASE \E c \in Clients : create(c) \/ disable(c)
  BY <1>1 DEF create, disable
<1>2. ASSUME NEW c \in Clients, enable(c)
      PROVE  FALSE
  <2>1. req'[r] = req[r] \/ req'[r].pc = "lookup"
    BY <1>2, EnableCalls
  <2> QED
    BY <2>1
<1>3. CASE \/ CountCredentials \/ Listen \/ Tick \/ Quiet \/ UNCHANGED vars
           \/ \E key \in Keys : Timer(key)
  BY <1>3 DEF CountCredentials, Listen, Tick, Quiet, Timer, vars
<1>4. CASE Die
  <2>1. req'[r].pc \in {"lost", req[r].pc}
    BY <1>4 DEF Die, GateInv, TypeOK, Call
  <2> QED
    BY <2>1
<1>5. ASSUME NEW q \in Calls,
             Arrive(q) \/ Found(q) \/ LookupFails(q) \/ ClientQuota(q) \/ AccountQuota(q)
      PROVE  FALSE
  <2>1. CASE q # r
    <3>1. req'[r] = req[r]
      BY <1>5, <2>1 DEF Arrive, Found, LookupFails, ClientQuota, AccountQuota, consume,
                        GateInv, TypeOK
    <3> QED
      BY <3>1
  <2>2. CASE q = r
    <3>1. req'[r].pc # "unauthorized"
      BY <1>5, <2>2 DEF Arrive, Found, LookupFails, ClientQuota, AccountQuota, consume,
                        GateInv, TypeOK, Call
    <3> QED
      BY <3>1
  <2> QED
    BY <2>1, <2>2
<1>6. ASSUME NEW q \in Calls, Fallback(q)
      PROVE  Fallback(r)
  BY <1>6 DEF Fallback, GateInv, TypeOK
<1> QED
  BY <1>1, <1>2, <1>3, <1>4, <1>5, <1>6 DEF Next

LEMMA FallbackRefuses ==
    ASSUME GateInv, NEW r \in Calls, Fallback(r), req'[r].pc = "unauthorized"
    PROVE  req[r].secret \notin LiveSecrets
<1>1. ~(SharedSecret /\ req[r].secret = EnvSecret)
  BY DEF Fallback, GateInv, TypeOK, Call
<1>2. findBySecret(req[r].secret) = {}
  BY DEF Fallback
<1> QED
  BY <1>1, <1>2 DEF findBySecret, LiveSecrets, active

(* Nor is one refused whose secret is in force: an application is never    *)
(* disturbed by what is done to another one.                               *)
THEOREM RotationDisturbsNobody == Spec => LiveSecretIsNotRefused
<1>1. GateInv /\ [Next]_vars =>
        [\A r \in Calls :
           req'[r].pc = "unauthorized" /\ req[r].pc # "unauthorized"
             => req[r].secret \notin LiveSecrets]_vars
  BY RefusedByFallback, FallbackRefuses
<1> QED
  BY <1>1, GateInvariant, PTL DEF Spec, LiveSecretIsNotRefused

-----------------------------------------------------------------------------
(* The counters.  What is said of a key is said of the calls that were     *)
(* counted on it in this life of the process.                              *)

(* Calls the quota of their application has counted. *)
Counted == {"accountQuota", "clientLimited", "handler", "limited"}

ChargedTo(c) ==
    {q \in Calls : req[q].pc \in Counted /\ req[q].life = process.life /\ req[q].client = c}

OnKey(pc, k) == {q \in Decided(pc) : keyFor(q) = k /\ req[q].life = process.life}

LetBy(k)     == OnKey("handler", k)
RefusedBy(k) == OnKey("limited", k)

Begun == {q \in Calls : req[q].pc # "idle"}

(* A call in flight is of this life, and was counted in the past. *)
Timely ==
    /\ IsFiniteSet(Begun)
    /\ \A q \in Calls :
         /\ req[q].life <= process.life
         /\ InFlight(q) => req[q].life = process.life
         /\ req[q].time <= now
         /\ req[q].pc \in {"accountQuota", "limited"} => req[q].route \in Limited

(* A counter stands for as many calls as it says. *)
ClientCounts ==
    \A c \in Clients \cup {Env} : <<"client", c>> \in DOMAIN buckets =>
        buckets[<<"client", c>>].value <= Cardinality(ChargedTo(c))

AccountCount(k) ==
    k \in DOMAIN buckets => buckets[k].value <= Cardinality(LetBy(k) \cup RefusedBy(k))

(* The counter of a key is in excess. *)
Exceeded(k) == k \in DOMAIN buckets /\ buckets[k].value > Points[k[1]]

(* While the counter is in excess some refusal began its block, and every  *)
(* refusal lies behind such a beginning, until the block has run out.      *)
Blocked(k) ==
    /\ Exceeded(k) => RefusedBy(k) # {}
    /\ \A r \in RefusedBy(k) : \E q \in RefusedBy(k) :
         /\ req[q].time <= req[r].time
         /\ \/ req[q].time + BlockDuration[k[1]] <= now
            \/ Exceeded(k) /\ req[q].time + BlockDuration[k[1]] <= buckets[k].expiresAt

(* Calls of a set whose window, of the key's length, reaches beyond s. *)
Reaching(set, k, s) == {q \in set : req[q].time + Duration[k[1]] > s}

(* A counter began at some s.  The calls let through before it, if their   *)
(* windows reach beyond s, and the calls let through on it: each are at    *)
(* most the points.                                                        *)
Began(k, s, old) ==
    /\ s <= now /\ s + Duration[k[1]] <= buckets[k].expiresAt
    /\ \A q \in old : req[q].time <= s
    /\ \A q \in LetBy(k) \ old : req[q].time >= s
    /\ Cardinality(Reaching(old, k, s)) <= Points[k[1]]
    /\ Cardinality(LetBy(k) \ old) <= buckets[k].value
    /\ Cardinality(LetBy(k) \ old) <= Points[k[1]]

Windowed(k) ==
    IF k \in DOMAIN buckets
    THEN \E s \in Nat, old \in SUBSET LetBy(k) : Began(k, s, old)
    ELSE Cardinality(Reaching(LetBy(k), k, now)) <= Points[k[1]]

(* At most twice the points in any window. *)
InWindow(pc, k, life, s) ==
    {q \in Decided(pc) : /\ keyFor(q) = k /\ req[q].life = life
                         /\ req[q].time \in s .. s + Duration[k[1]] - 1}

AnyWindow ==
    \A k \in AccountKeys, life, s \in Nat :
        Cardinality(InWindow("handler", k, life, s)) <= 2 * Points[k[1]]

QuotaInv ==
    /\ GateInv /\ Timely
    /\ ClientCounts /\ (\A k \in AccountKeys : AccountCount(k))
    /\ OwnQuotaOnly

BlockInv == QuotaInv /\ BlockHolds /\ \A k \in AccountKeys : Blocked(k)

WindowInv == QuotaInv /\ AnyWindow /\ \A k \in AccountKeys : Windowed(k)

-----------------------------------------------------------------------------
(* What a step does to the calls. *)

(* Calls that have not reached the counters. *)
Early == {"idle", "lookup", "unauthorized", "unavailable", "clientQuota", "lost"}

(* Steps before the counters: they leave the calls counted as they are. *)
Before ==
    /\ UNCHANGED <<now, buckets>> /\ process'.life = process.life
    /\ \A q \in Calls : req'[q] = req[q]
         \/ /\ req[q].pc \in {"idle", "lookup"}
            /\ req'[q].pc \in {"lookup", "clientQuota", "unauthorized", "unavailable"}
            /\ req'[q].life = process.life /\ req'[q].time <= now

(* The limiter counts call r on key k, and lets it pass or not. *)
Counts(r, k, points, duration, block, pass, excess) ==
    /\ k \in Keys /\ req[r].pc \in {"clientQuota", "accountQuota"}
    /\ UNCHANGED <<now, process>>
    /\ DOMAIN buckets' = DOMAIN buckets \cup {k}
    /\ \A j \in DOMAIN buckets \ {k} : buckets'[j] = buckets[j]
    /\ \/ /\ k \notin DOMAIN buckets \/ buckets[k].expiresAt = now
          /\ buckets'[k].value = 1
       \/ /\ k \in DOMAIN buckets /\ buckets[k].expiresAt # now
          /\ buckets'[k].value = buckets[k].value + 1
    /\ \A q \in Calls \ {r} : req'[q] = req[q]
    /\ req'[r].pc = IF buckets'[k].value <= points THEN pass ELSE excess
    /\ req'[r].time = now /\ req'[r].route = req[r].route
    /\ req'[r].account = req[r].account /\ req'[r].client = req[r].client
    /\ req'[r].life = req[r].life
    /\ buckets'[k].expiresAt =
         IF buckets'[k].value = points + 1 /\ block > 0 THEN now + block
         ELSE IF k \notin DOMAIN buckets \/ buckets[k].expiresAt = now
              THEN now + duration ELSE buckets[k].expiresAt

LEMMA ConsumeCounts ==
    ASSUME GateInv, NEW r \in Calls, NEW k \in Keys,
           NEW points \in Nat, NEW duration \in Nat, NEW block \in Nat,
           NEW pass \in {"accountQuota", "handler"},
           NEW excess \in {"clientLimited", "limited"},
           req[r].pc \in {"clientQuota", "accountQuota"},
           consume(r, k, points, duration, block, pass, excess)
    PROVE  Counts(r, k, points, duration, block, pass, excess)
<1> DEFINE b == counted(k, duration)
           row == IF b.value = points + 1 /\ block > 0
                  THEN [b EXCEPT !.expiresAt = now + block] ELSE b
           next == IF b.value <= points THEN pass ELSE excess
<1>1. /\ buckets' = [j \in DOMAIN buckets \cup {k} |-> IF j = k THEN row ELSE buckets[j]]
      /\ req' = [req EXCEPT ![r].pc = next, ![r].time = now]
      /\ UNCHANGED <<now, process>>
  BY DEF consume, Insert
<1>2. b \in [value : Nat, expiresAt : Nat] /\ req[r] \in Call /\ now \in Nat
  BY CountedTyped DEF GateInv, TypeOK
<1>3. \/ /\ k \notin DOMAIN buckets \/ buckets[k].expiresAt = now
         /\ b = [value |-> 1, expiresAt |-> now + duration]
      \/ /\ k \in DOMAIN buckets /\ buckets[k].expiresAt # now
         /\ b.value = buckets[k].value + 1 /\ b.expiresAt = buckets[k].expiresAt
  <2>1. CASE k \in DOMAIN buckets /\ buckets[k].expiresAt # now
    <3>1. buckets[k] \in [value : Nat, expiresAt : Nat]
      BY <2>1 DEF GateInv, TypeOK
    <3> QED
      BY <2>1, <3>1 DEF counted
  <2>2. CASE ~(k \in DOMAIN buckets /\ buckets[k].expiresAt # now)
    BY <2>2 DEF counted
  <2> QED
    BY <2>1, <2>2
<1>4. /\ row.value = b.value
      /\ row.expiresAt = IF b.value = points + 1 /\ block > 0 THEN now + block
                         ELSE b.expiresAt
  <2> HIDE DEF b
  <2> QED
    BY <1>2
<1>5. /\ \A q \in Calls \ {r} : req'[q] = req[q]
      /\ req'[r].pc = next /\ req'[r].time = now /\ req'[r].route = req[r].route
      /\ req'[r].account = req[r].account /\ req'[r].client = req[r].client
      /\ req'[r].life = req[r].life
  <2> HIDE DEF next
  <2> QED
    BY <1>1, <1>2 DEF GateInv, TypeOK, Call
<1>6. /\ buckets'[k] = row /\ DOMAIN buckets' = DOMAIN buckets \cup {k}
      /\ \A j \in DOMAIN buckets \ {k} : buckets'[j] = buckets[j]
  <2> HIDE DEF row
  <2> QED
    BY <1>1
<1> HIDE DEF b, row
<1> QED
  <2>1. buckets'[k].value = b.value
    BY <1>4, <1>6
  <2>2. buckets'[k].expiresAt = IF b.value = points + 1 /\ block > 0 THEN now + block
                                ELSE b.expiresAt
    BY <1>4, <1>6
  <2>3. b.expiresAt = IF k \notin DOMAIN buckets \/ buckets[k].expiresAt = now
                      THEN now + duration ELSE buckets[k].expiresAt
    BY <1>3
  <2>4. req'[r].pc = IF buckets'[k].value <= points THEN pass ELSE excess
    BY <1>5, <2>1
  <2>5. \/ /\ k \notin DOMAIN buckets \/ buckets[k].expiresAt = now
           /\ buckets'[k].value = 1
        \/ /\ k \in DOMAIN buckets /\ buckets[k].expiresAt # now
           /\ buckets'[k].value = buckets[k].value + 1
    BY <1>3, <2>1
  <2>6. buckets'[k].expiresAt =
         IF buckets'[k].value = points + 1 /\ block > 0 THEN now + block
         ELSE IF k \notin DOMAIN buckets \/ buckets[k].expiresAt = now
              THEN now + duration ELSE buckets[k].expiresAt
    BY <2>1, <2>2, <2>3
  <2> QED
    BY <1>1, <1>5, <1>6, <2>4, <2>5, <2>6 DEF Counts

LEMMA ClientCounted ==
    ASSUME ServiceGateAssumption, GateInv, NEW r \in Calls, ClientQuota(r)
    PROVE  /\ req[r].pc = "clientQuota" /\ req[r].client \in Clients \cup {Env}
           /\ UNCHANGED <<service_clients, generated>>
           /\ Counts(r, <<"client", req[r].client>>, ClientPoints, ClientDuration, 0,
                     IF req[r].route \in Limited THEN "accountQuota" ELSE "handler",
                     "clientLimited")
<1> DEFINE pass == IF req[r].route \in Limited THEN "accountQuota" ELSE "handler"
<1>1. req[r].client \in Clients \cup {Env}
  BY DEF GateInv, TypeOK, Call
<1>2. <<"client", req[r].client>> \in Keys
  BY <1>1 DEF Keys, ClientKeys
<1>3. /\ pass \in {"accountQuota", "handler"}
      /\ ClientPoints \in Nat /\ ClientDuration \in Nat
      /\ consume(r, <<"client", req[r].client>>, ClientPoints, ClientDuration, 0, pass,
                 "clientLimited")
      /\ req[r].pc = "clientQuota"
  BY DEF ClientQuota, ServiceGateAssumption
<1> HIDE DEF pass
<1>4. Counts(r, <<"client", req[r].client>>, ClientPoints, ClientDuration, 0, pass,
             "clientLimited")
  BY <1>2, <1>3, ConsumeCounts
<1>5. UNCHANGED <<service_clients, generated>>
  BY DEF ClientQuota, consume
<1> QED
  BY <1>1, <1>3, <1>4, <1>5 DEF pass

LEMMA AccountCounted ==
    ASSUME ServiceGateAssumption, GateInv, NEW r \in Calls, AccountQuota(r)
    PROVE  /\ req[r].pc = "accountQuota"
           /\ keyFor(r) \in AccountKeys /\ keyFor(r)[1] = type(req[r].route)
           /\ UNCHANGED <<service_clients, generated>>
           /\ Counts(r, keyFor(r), Points[keyFor(r)[1]], Duration[keyFor(r)[1]],
                     BlockDuration[keyFor(r)[1]], "handler", "limited")
<1> DEFINE t == type(req[r].route)
<1>1. t \in LimitTypes /\ req[r].account \in Accounts
  BY DEF type, LimitTypes, GateInv, TypeOK, Call
<1>2. keyFor(r) \in AccountKeys /\ keyFor(r) \in Keys /\ keyFor(r)[1] = t
  BY <1>1 DEF keyFor, Keys, AccountKeys
<1>3. Points[t] \in Nat /\ Duration[t] \in Nat /\ BlockDuration[t] \in Nat
  BY <1>1 DEF ServiceGateAssumption
<1>4. /\ req[r].pc = "accountQuota"
      /\ consume(r, keyFor(r), Points[t], Duration[t], BlockDuration[t], "handler", "limited")
  BY DEF AccountQuota
<1>5. UNCHANGED <<service_clients, generated>>
  BY <1>4 DEF consume
<1> HIDE DEF t
<1>6. Counts(r, keyFor(r), Points[t], Duration[t], BlockDuration[t], "handler", "limited")
  BY <1>2, <1>3, <1>4, ConsumeCounts
<1> QED
  BY <1>2, <1>4, <1>5, <1>6 DEF t

LEMMA ClientElsewhere ==
    ASSUME ServiceGateAssumption, GateInv, NEW r \in Calls, ClientQuota(r),
           NEW j \in DOMAIN buckets', j # <<"client", req[r].client>>
    PROVE  j \in DOMAIN buckets /\ buckets'[j] = buckets[j]
<1>1. PICK k : k = <<"client", req[r].client>>
  OBVIOUS
<1>2. /\ DOMAIN buckets' = DOMAIN buckets \cup {k}
      /\ \A i \in DOMAIN buckets \ {k} : buckets'[i] = buckets[i]
  BY <1>1, ClientCounted DEF Counts
<1> QED
  BY <1>1, <1>2

LEMMA AccountElsewhere ==
    ASSUME ServiceGateAssumption, GateInv, NEW r \in Calls, AccountQuota(r),
           NEW j \in DOMAIN buckets', j # keyFor(r)
    PROVE  j \in DOMAIN buckets /\ buckets'[j] = buckets[j]
<1>1. PICK k : k = keyFor(r)
  OBVIOUS
<1>2. /\ DOMAIN buckets' = DOMAIN buckets \cup {k}
      /\ \A i \in DOMAIN buckets \ {k} : buckets'[i] = buckets[i]
  BY <1>1, AccountCounted DEF Counts
<1> QED
  BY <1>1, <1>2

(* The counter of the key itself. *)
Starts(k) == k \notin DOMAIN buckets \/ buckets[k].expiresAt = now

LEMMA AccountHere ==
    ASSUME ServiceGateAssumption, GateInv, NEW r \in Calls, AccountQuota(r),
           NEW k, k = keyFor(r)
    PROVE  /\ k \in AccountKeys /\ k[1] = type(req[r].route) /\ req'[r].route = req[r].route
           /\ k \in DOMAIN buckets' /\ now' = now /\ req'[r].time = now
           /\ \/ Starts(k) /\ buckets'[k].value = 1
              \/ ~Starts(k) /\ buckets'[k].value = buckets[k].value + 1
           /\ buckets'[k].expiresAt =
                IF buckets'[k].value = Points[k[1]] + 1 /\ BlockDuration[k[1]] > 0
                THEN now + BlockDuration[k[1]]
                ELSE IF Starts(k) THEN now + Duration[k[1]] ELSE buckets[k].expiresAt
           /\ \A q \in Calls \ {r} : req'[q] = req[q]
BY AccountCounted DEF Counts, Starts

(* Every other step happens before the counters, lets time pass, drops a   *)
(* counter, or ends this life of the process.                              *)
LEMMA OtherwiseBefore ==
    ASSUME ServiceGateAssumption, GateInv, Timely, [Next]_vars
    PROVE  \/ Before \/ Die \/ Tick
           \/ \E k \in Keys : Timer(k)
           \/ \E r \in Calls : ClientQuota(r) \/ AccountQuota(r)
<1>1. CASE \/ \E c \in Clients : create(c) \/ disable(c)
           \/ CountCredentials \/ Listen \/ Quiet \/ UNCHANGED vars
  <2>1. UNCHANGED <<now, buckets, req>> /\ process'.life = process.life
    BY <1>1 DEF create, disable, CountCredentials, Listen, Quiet, vars, GateInv, TypeOK
  <2> QED
    BY <2>1 DEF Before
<1>1a. ASSUME NEW c \in Clients, enable(c)
       PROVE  Before
  BY <1>1a, EnableCalls DEF Before, Timely, InFlight
<1>2. ASSUME NEW r \in Calls, Arrive(r)
      PROVE  Before
  <2>1. /\ UNCHANGED <<now, buckets, process>> /\ req[r].pc = "idle"
        /\ \A q \in Calls \ {r} : req'[q] = req[q]
        /\ req'[r].pc = "lookup" /\ req'[r].life = process.life /\ req'[r].time = now
    BY <1>2 DEF Arrive, GateInv, TypeOK
  <2> QED
    BY <2>1 DEF Before, GateInv, TypeOK
<1>3. ASSUME NEW r \in Calls, Found(r) \/ Fallback(r) \/ LookupFails(r)
      PROVE  Before
  <2>1. /\ UNCHANGED <<now, buckets, process>> /\ req[r].pc = "lookup"
        /\ \A q \in Calls \ {r} : req'[q] = req[q]
        /\ req'[r].pc \in {"clientQuota", "unauthorized", "unavailable"}
        /\ req'[r].life = req[r].life /\ req'[r].time = req[r].time
    BY <1>3 DEF Found, Fallback, LookupFails, GateInv, TypeOK, Call
  <2> QED
    BY <2>1 DEF Before, Timely, InFlight
<1> QED
  BY <1>1, <1>1a, <1>2, <1>3 DEF Next

-----------------------------------------------------------------------------
(* Which calls a counter stands for. *)

Unmoved ==
    /\ process'.life = process.life
    /\ \A q \in Calls : req'[q] = req[q] \/ (req[q].pc \notin Counted /\ req'[q].pc \notin Counted)

LEMMA UnmovedSets ==
    ASSUME Unmoved
    PROVE  /\ \A c : ChargedTo(c)' = ChargedTo(c)
           /\ \A k : LetBy(k)' = LetBy(k) /\ RefusedBy(k)' = RefusedBy(k)
           /\ \A pc \in {"handler", "limited"} :
                /\ Decided(pc)' = Decided(pc)
                /\ \A q \in Decided(pc) : req'[q] = req[q]
<1>1. \A q \in Calls : req[q].pc \in Counted \/ req'[q].pc \in Counted => req'[q] = req[q]
  BY DEF Unmoved
<1>2. \A c : ChargedTo(c)' = ChargedTo(c)
  BY <1>1 DEF Unmoved, ChargedTo
<1>3. \A pc \in {"handler", "limited"} :
        /\ Decided(pc)' = Decided(pc)
        /\ \A q \in Decided(pc) : req'[q] = req[q]
  BY <1>1 DEF Decided, Counted
<1>4. \A k : LetBy(k)' = LetBy(k) /\ RefusedBy(k)' = RefusedBy(k)
  BY <1>3 DEF LetBy, RefusedBy, OnKey, keyFor, Unmoved
<1> QED
  BY <1>2, <1>3, <1>4

LEMMA QuietlyUnmoved ==
    ASSUME GateInv, Before \/ Tick \/ \E k \in Keys : Timer(k)
    PROVE  Unmoved
<1>1. CASE Before
  BY <1>1 DEF Before, Unmoved, Counted
<1>2. CASE Tick \/ \E k \in Keys : Timer(k)
  BY <1>2 DEF Tick, Timer, Unmoved
<1> QED
  BY <1>1, <1>2

(* A life of the process starts with no counter and no call counted.       *)
LEMMA NewLife ==
    ASSUME GateInv, Timely, Die
    PROVE  /\ DOMAIN buckets' = {} /\ now' = now /\ process'.life = process.life + 1
           /\ \A q \in Calls : \/ req'[q] = req[q]
                               \/ /\ InFlight(q) /\ req'[q].pc = "lost"
                                  /\ req'[q].life = req[q].life /\ req'[q].time = req[q].time
                                  /\ req'[q].client = req[q].client
           /\ \A q \in Calls : req'[q].life <= process.life
           /\ \A k : LetBy(k)' = {} /\ RefusedBy(k)' = {}
           /\ \A pc \in {"handler", "limited"} :
                /\ Decided(pc)' = Decided(pc)
                /\ \A q \in Decided(pc) : req'[q] = req[q]
<1>1. /\ DOMAIN buckets' = {} /\ now' = now /\ process'.life = process.life + 1
      /\ \A q \in Calls : req'[q] = IF InFlight(q) THEN [req[q] EXCEPT !.pc = "lost"] ELSE req[q]
  BY DEF Die, NoBuckets
<1>2. \A q \in Calls : \/ ~InFlight(q) /\ req'[q] = req[q]
                       \/ /\ InFlight(q) /\ req'[q].pc = "lost"
                          /\ req'[q].life = req[q].life /\ req'[q].time = req[q].time
                          /\ req'[q].client = req[q].client
  BY <1>1 DEF GateInv, TypeOK, Call
<1>3. \A q \in Calls : req'[q].life <= process.life
  BY <1>2 DEF Timely
<1>4. \A pc \in {"handler", "limited"} :
        /\ Decided(pc)' = Decided(pc)
        /\ \A q \in Decided(pc) : req'[q] = req[q]
  BY <1>2 DEF Decided, InFlight
<1>5. process.life \in Nat /\ \A q \in Calls : req'[q].life # process'.life
  <2>1. process.life \in Nat /\ \A q \in Calls : req[q].life \in Nat
    BY DEF GateInv, TypeOK, Call
  <2>2. \A q \in Calls : req'[q].life = req[q].life
    BY <1>2
  <2> QED
    BY <1>1, <1>3, <2>1, <2>2
<1>6. \A k : LetBy(k)' = {} /\ RefusedBy(k)' = {}
  BY <1>5 DEF LetBy, RefusedBy, OnKey, Decided
<1> QED
  BY <1>1, <1>2, <1>3, <1>4, <1>6

(* A call counted for its application is charged to it.                    *)
LEMMA ClientCharged ==
    ASSUME ServiceGateAssumption, GateInv, Timely, NEW r \in Calls, ClientQuota(r),
           NEW c, c = req[r].client
    PROVE  /\ r \notin ChargedTo(c) /\ ChargedTo(c)' = ChargedTo(c) \cup {r}
           /\ \A d : d # c => ChargedTo(d)' = ChargedTo(d)
           /\ \A k : LetBy(k)' = LetBy(k) /\ RefusedBy(k)' = RefusedBy(k)
           /\ \A pc \in {"handler", "limited"} :
                /\ Decided(pc)' = Decided(pc)
                /\ \A q \in Decided(pc) : req'[q] = req[q]
<1>1. /\ req[r].pc = "clientQuota" /\ UNCHANGED process
      /\ \A q \in Calls \ {r} : req'[q] = req[q]
      /\ req'[r].pc \in {"accountQuota", "handler", "clientLimited"}
      /\ req'[r].pc = "handler" => req'[r].route \notin Limited
      /\ req'[r].client = req[r].client /\ req'[r].life = req[r].life
  BY ClientCounted DEF Counts
<1>2. req[r].life = process.life
  BY <1>1 DEF Timely, InFlight
<1>3. \A pc \in {"handler", "limited"} :
        /\ Decided(pc)' = Decided(pc)
        /\ \A q \in Decided(pc) : req'[q] = req[q]
  BY <1>1 DEF Decided
<1>4. \A k : LetBy(k)' = LetBy(k) /\ RefusedBy(k)' = RefusedBy(k)
  BY <1>1, <1>3 DEF LetBy, RefusedBy, OnKey, keyFor
<1> QED
  BY <1>1, <1>2, <1>3, <1>4 DEF ChargedTo, Counted

(* A call counted for its account is let through or refused on its key.    *)
LEMMA AccountCharged ==
    ASSUME ServiceGateAssumption, GateInv, Timely, NEW r \in Calls, AccountQuota(r),
           NEW k, k = keyFor(r)
    PROVE  /\ \A c : ChargedTo(c)' = ChargedTo(c)
           /\ \A j : j # k => LetBy(j)' = LetBy(j) /\ RefusedBy(j)' = RefusedBy(j)
           /\ r \notin LetBy(k) \cup RefusedBy(k)
           /\ keyFor(r)' = k /\ req'[r].life = process.life
           /\ \/ /\ req'[r].pc = "handler"
                 /\ buckets'[k].value <= Points[k[1]]
                 /\ LetBy(k)' = LetBy(k) \cup {r}
                 /\ RefusedBy(k)' = RefusedBy(k)
                 /\ Decided("handler")' = Decided("handler") \cup {r}
                 /\ Decided("limited")' = Decided("limited")
              \/ /\ req'[r].pc = "limited"
                 /\ ~(buckets'[k].value <= Points[k[1]])
                 /\ LetBy(k)' = LetBy(k)
                 /\ RefusedBy(k)' = RefusedBy(k) \cup {r}
                 /\ Decided("handler")' = Decided("handler")
                 /\ Decided("limited")' = Decided("limited") \cup {r}
           /\ \A pc \in {"handler", "limited"} : \A q \in Decided(pc) : req'[q] = req[q]
<1>1. /\ req[r].pc = "accountQuota" /\ UNCHANGED process
      /\ \A q \in Calls \ {r} : req'[q] = req[q]
      /\ req'[r].route = req[r].route /\ req'[r].account = req[r].account
      /\ req'[r].client = req[r].client /\ req'[r].life = req[r].life
      /\ \/ req'[r].pc = "handler" /\ buckets'[k].value <= Points[k[1]]
         \/ req'[r].pc = "limited" /\ ~(buckets'[k].value <= Points[k[1]])
  BY AccountCounted DEF Counts
<1>2. req[r].life = process.life /\ req[r].route \in Limited
  BY <1>1 DEF Timely, InFlight
<1>3. \A c : ChargedTo(c)' = ChargedTo(c)
  BY <1>1 DEF ChargedTo, Counted
<1>4. \A q \in Calls : keyFor(q)' = keyFor(q)
  BY <1>1 DEF keyFor
<1>5. \A q \in Calls : req'[q].life = req[q].life /\ req'[q].route = req[q].route
  BY <1>1
<1>6. \A pc \in {"handler", "limited"} :
        /\ \A q \in Decided(pc) : q # r /\ req'[q] = req[q]
        /\ Decided(pc)' = IF req'[r].pc = pc THEN Decided(pc) \cup {r} ELSE Decided(pc)
  BY <1>1, <1>2 DEF Decided
<1>7. \A pc \in {"handler", "limited"} : \A j :
        OnKey(pc, j)' = IF req'[r].pc = pc /\ j = k
                        THEN OnKey(pc, j) \cup {r} ELSE OnKey(pc, j)
  <2> SUFFICES ASSUME NEW pc \in {"handler", "limited"}, NEW j
               PROVE  OnKey(pc, j)' = IF req'[r].pc = pc /\ j = k
                                      THEN OnKey(pc, j) \cup {r} ELSE OnKey(pc, j)
    OBVIOUS
  <2>1. OnKey(pc, j)' = {q \in Decided(pc)' : keyFor(q)' = j /\ req'[q].life = process'.life}
    BY DEF OnKey
  <2>2. \A q \in Decided(pc)' : /\ q \in Calls /\ keyFor(q)' = keyFor(q)
                                /\ req'[q].life = req[q].life /\ process'.life = process.life
    BY <1>1, <1>4, <1>5 DEF Decided
  <2> QED
    BY <1>2, <1>6, <2>1, <2>2 DEF OnKey
<1>8. r \notin LetBy(k) \cup RefusedBy(k)
  BY <1>6 DEF LetBy, RefusedBy, OnKey
<1> QED
  BY <1>1, <1>2, <1>3, <1>4, <1>6, <1>7, <1>8 DEF LetBy, RefusedBy

-----------------------------------------------------------------------------
(* A quota that refuses has been used up by its own calls. *)

(* The calls an application, or an account, has made besides r. *)
Admitted(r) ==
    {q \in Calls \ {r} : /\ req[q].pc \notin {"idle", "lookup", "unauthorized", "unavailable"}
                         /\ req[q].life = req[r].life /\ req[q].client = req[r].client}

Tried(r) == {q \in Decided("limited") \cup Decided("handler") : q # r /\ SameKey(q, r)}

LEMMA BegunFinite ==
    ASSUME IsFiniteSet(Begun), NEW S \in SUBSET Begun
    PROVE  IsFiniteSet(S) /\ Cardinality(S) \in Nat
BY FS_Subset, FS_CardinalityType

LEMMA CountedBegun ==
    /\ \A c : ChargedTo(c) \subseteq Begun
    /\ \A k : LetBy(k) \subseteq Begun /\ RefusedBy(k) \subseteq Begun
    /\ \A pc \in {"handler", "limited"} : Decided(pc) \subseteq Begun
    /\ \A r : Admitted(r) \subseteq Begun /\ Tried(r) \subseteq Begun
BY DEF ChargedTo, Counted, LetBy, RefusedBy, OnKey, Decided, Begun, Admitted, Tried

(* One call at a time begins. *)
LEMMA BegunStep ==
    ASSUME GateInv, [Next]_vars, IsFiniteSet(Begun)
    PROVE  IsFiniteSet(Begun')
<1>1. CASE UNCHANGED req \/ Die
  <2>1. Begun' \subseteq Begun
    BY <1>1 DEF Begun, Die, InFlight, GateInv, TypeOK
  <2> QED
    BY <2>1, FS_Subset
<1>2. ASSUME NEW r \in Calls, \A q \in Calls \ {r} : req'[q] = req[q]
      PROVE  IsFiniteSet(Begun')
  <2>1. Begun' \subseteq Begun \cup {r}
    BY <1>2 DEF Begun
  <2> QED
    BY <2>1, FS_AddElement, FS_Subset
<1>3. ASSUME NEW r \in Calls,
             Arrive(r) \/ Found(r) \/ Fallback(r) \/ LookupFails(r)
             \/ ClientQuota(r) \/ AccountQuota(r)
      PROVE  IsFiniteSet(Begun')
  <2>1. \A q \in Calls \ {r} : req'[q] = req[q]
    BY <1>3 DEF Arrive, Found, Fallback, LookupFails, ClientQuota, AccountQuota, consume,
                GateInv, TypeOK
  <2> QED
    BY <1>2, <2>1
<1>4. CASE \/ \E c \in Clients : create(c) \/ disable(c)
           \/ CountCredentials \/ Listen \/ Tick \/ Quiet \/ UNCHANGED vars
           \/ \E key \in Keys : Timer(key)
  BY <1>1, <1>4 DEF create, disable, CountCredentials, Listen, Tick, Quiet, Timer, vars
<1>5. ASSUME NEW c \in Clients, enable(c)
      PROVE  IsFiniteSet(Begun')
  <2>1. Begun' = Begun
    BY <1>5, EnableCalls DEF Begun
  <2> QED
    BY <2>1
<1> QED
  BY <1>1, <1>3, <1>4, <1>5 DEF Next

LEMMA TimelyStep ==
    ASSUME ServiceGateAssumption, GateInv, Timely, [Next]_vars
    PROVE  Timely'
<1> DEFINE Kept(q) == /\ req[q].life <= process.life
                      /\ InFlight(q) => req[q].life = process.life
                      /\ req[q].time <= now
                      /\ req[q].pc \in {"accountQuota", "limited"} => req[q].route \in Limited
<1>1. IsFiniteSet(Begun')
  BY BegunStep DEF Timely
<1>2. \A q \in Calls : Kept(q)
  BY DEF Timely
<1>3. \A q \in Calls : Kept(q)'
  <2> SUFFICES ASSUME NEW q \in Calls PROVE Kept(q)'
    OBVIOUS
  <2>1. /\ now \in Nat /\ process.life \in Nat /\ req[q].time \in Nat
        /\ req[q].life \in Nat
    BY DEF GateInv, TypeOK, Call
  <2>2. CASE Before
    BY <1>2, <2>1, <2>2 DEF Before, InFlight
  <2>3. CASE Tick \/ \E k \in Keys : Timer(k)
    <3>1. /\ req' = req /\ process' = process /\ now' \in {now, now + 1}
      BY <2>3 DEF Tick, Timer
    <3> QED
      BY <1>2, <2>1, <3>1 DEF InFlight
  <2>4. CASE Die
    <3>1. /\ now' = now /\ process'.life = process.life + 1
          /\ req'[q].life <= process.life
          /\ \/ req'[q] = req[q] /\ ~InFlight(q)
             \/ /\ req'[q].pc = "lost" /\ req'[q].life = req[q].life
                /\ req'[q].time = req[q].time
      BY <2>4, NewLife DEF InFlight, Die, GateInv, TypeOK
    <3>2. req'[q].life \in Nat
      BY <2>1, <3>1
    <3> QED
      BY <1>2, <2>1, <3>1, <3>2 DEF InFlight
  <2>5. ASSUME NEW r \in Calls, ClientQuota(r)
        PROVE  Kept(q)'
    <3>1. /\ req[r].pc = "clientQuota" /\ UNCHANGED <<now, process>>
          /\ q # r => req'[q] = req[q]
          /\ req'[r].pc \in {"accountQuota", "handler", "clientLimited"}
          /\ req'[r].pc = "accountQuota" => req'[r].route \in Limited
          /\ req'[r].time = now /\ req'[r].life = req[r].life
      BY <2>5, ClientCounted DEF Counts
    <3>2. req[r].life = process.life
      BY <1>2, <3>1 DEF InFlight
    <3> QED
      BY <1>2, <2>1, <3>1, <3>2 DEF InFlight
  <2>6. ASSUME NEW r \in Calls, AccountQuota(r)
        PROVE  Kept(q)'
    <3>1. /\ req[r].pc = "accountQuota" /\ UNCHANGED <<now, process>>
          /\ q # r => req'[q] = req[q]
          /\ req'[r].pc \in {"handler", "limited"} /\ req'[r].route = req[r].route
          /\ req'[r].time = now /\ req'[r].life = req[r].life
      BY <2>6, AccountCounted DEF Counts
    <3>2. req[r].life = process.life /\ req[r].route \in Limited
      BY <1>2, <3>1 DEF InFlight
    <3> QED
      BY <1>2, <2>1, <3>1, <3>2 DEF InFlight
  <2> QED
    BY <2>2, <2>3, <2>4, <2>5, <2>6, OtherwiseBefore
<1> QED
  BY <1>1, <1>3 DEF Timely

(* A call that has passed the gate stays on the books of its application,  *)
(* and one that has been decided on stays on the books of its account.     *)
LEMMA BooksGrow ==
    ASSUME ServiceGateAssumption, GateInv, Timely, [Next]_vars
    PROVE  /\ \A q \in Calls :
                req[q].pc \in {"clientLimited", "limited", "handler"} => req'[q] = req[q]
           /\ \A r \in Calls : req'[r].life = req[r].life /\ req'[r].client = req[r].client
                => Admitted(r) \subseteq Admitted(r)'
           /\ \A r \in Calls : req'[r].life = req[r].life /\ keyFor(r)' = keyFor(r)
                => Tried(r) \subseteq Tried(r)'
<1> DEFINE Outside == {"idle", "lookup", "unauthorized", "unavailable"}
           Kept(q) == /\ req[q].pc \in {"clientLimited", "limited", "handler"} => req'[q] = req[q]
                      /\ req[q].pc \notin Outside =>
                           /\ req'[q].pc \notin Outside
                           /\ req'[q].life = req[q].life /\ req'[q].client = req[q].client
<1>1. \A q \in Calls : Kept(q)
  <2> SUFFICES ASSUME NEW q \in Calls PROVE Kept(q)
    OBVIOUS
  <2>1. CASE Before
    BY <2>1 DEF Before
  <2>2. CASE Tick \/ \E k \in Keys : Timer(k)
    BY <2>2 DEF Tick, Timer
  <2>3. CASE Die
    BY <2>3, NewLife DEF InFlight
  <2>4. ASSUME NEW r \in Calls, ClientQuota(r)
        PROVE  Kept(q)
    BY <2>4, ClientCounted DEF Counts
  <2>5. ASSUME NEW r \in Calls, AccountQuota(r)
        PROVE  Kept(q)
    BY <2>5, AccountCounted DEF Counts
  <2> QED
    BY <2>1, <2>2, <2>3, <2>4, <2>5, OtherwiseBefore
<1>2. \A r \in Calls : req'[r].life = req[r].life /\ req'[r].client = req[r].client
        => Admitted(r) \subseteq Admitted(r)'
  BY <1>1 DEF Admitted
<1>3. \A pc \in {"handler", "limited"} : \A q \in Decided(pc) :
        q \in Calls /\ q \in Decided(pc)' /\ req'[q] = req[q]
  BY <1>1 DEF Decided
<1>4. \A r \in Calls : req'[r].life = req[r].life /\ keyFor(r)' = keyFor(r)
        => Tried(r) \subseteq Tried(r)'
  <2> SUFFICES ASSUME NEW r \in Calls, req'[r].life = req[r].life, keyFor(r)' = keyFor(r),
                      NEW q \in Tried(r)
               PROVE  q \in Tried(r)'
    OBVIOUS
  <2>1. PICK pc \in {"handler", "limited"} : q \in Decided(pc)
    BY DEF Tried
  <2>2. q \in Decided(pc)' /\ req'[q] = req[q]
    BY <1>3, <2>1
  <2>3. keyFor(q)' = keyFor(q)
    BY <2>2 DEF keyFor
  <2> QED
    BY <2>2, <2>3 DEF Tried, SameKey
<1> QED
  BY <1>1, <1>2, <1>4

LEMMA ClientCountsStep ==
    ASSUME ServiceGateAssumption, QuotaInv, GateInv', Timely', [Next]_vars
    PROVE  ClientCounts'
<1> SUFFICES ASSUME NEW c \in Clients \cup {Env}, <<"client", c>> \in DOMAIN buckets'
             PROVE  buckets'[<<"client", c>>].value <= Cardinality(ChargedTo(c)')
  BY DEF ClientCounts
<1> DEFINE k == <<"client", c>>
<1>1. GateInv /\ Timely /\ ClientCounts
  BY DEF QuotaInv
<1>2. IsFiniteSet(ChargedTo(c)) /\ Cardinality(ChargedTo(c)) \in Nat
  BY <1>1, CountedBegun, BegunFinite DEF Timely
<1>3. k \in DOMAIN buckets => /\ buckets[k].value \in Nat
                              /\ buckets[k].value <= Cardinality(ChargedTo(c))
  BY <1>1 DEF ClientCounts, GateInv, TypeOK
<1>4. CASE Before \/ Tick \/ \E j \in Keys : Timer(j)
  <2>1. ChargedTo(c)' = ChargedTo(c)
    BY <1>1, <1>4, QuietlyUnmoved, UnmovedSets
  <2>2. k \in DOMAIN buckets /\ buckets'[k] = buckets[k]
    BY <1>4 DEF Before, Tick, Timer
  <2> QED
    BY <1>3, <2>1, <2>2
<1>5. CASE Die
  BY <1>1, <1>5, NewLife
<1>6. ASSUME NEW r \in Calls, ClientQuota(r), req[r].client # c
      PROVE  buckets'[k].value <= Cardinality(ChargedTo(c)')
  <2>1. ChargedTo(c)' = ChargedTo(c)
    BY <1>1, <1>6, ClientCharged
  <2>2. k \in DOMAIN buckets /\ buckets'[k] = buckets[k]
    BY <1>1, <1>6, ClientElsewhere
  <2> QED
    BY <1>3, <2>1, <2>2
<1>7. ASSUME NEW r \in Calls, ClientQuota(r), req[r].client = c
      PROVE  buckets'[k].value <= Cardinality(ChargedTo(c)')
  <2>1. r \notin ChargedTo(c) /\ ChargedTo(c)' = ChargedTo(c) \cup {r}
    BY <1>1, <1>7, ClientCharged
  <2>2. Cardinality(ChargedTo(c)') = Cardinality(ChargedTo(c)) + 1
    BY <1>2, <2>1, FS_AddElement
  <2>3. buckets'[k].value = 1 \/ (k \in DOMAIN buckets /\ buckets'[k].value = buckets[k].value + 1)
    BY <1>1, <1>7, ClientCounted DEF Counts
  <2> QED
    BY <1>2, <1>3, <2>2, <2>3
<1>8. ASSUME NEW r \in Calls, AccountQuota(r)
      PROVE  buckets'[k].value <= Cardinality(ChargedTo(c)')
  <2>1. ChargedTo(c)' = ChargedTo(c)
    BY <1>1, <1>8, AccountCharged
  <2>2. k \notin AccountKeys
    BY DEF AccountKeys, LimitTypes
  <2>3. k \in DOMAIN buckets /\ buckets'[k] = buckets[k]
    BY <1>1, <1>8, <2>2, AccountCounted, AccountElsewhere
  <2> QED
    BY <1>3, <2>1, <2>3
<1> QED
  BY <1>1, <1>4, <1>5, <1>6, <1>7, <1>8, OtherwiseBefore

LEMMA AccountCountStep ==
    ASSUME ServiceGateAssumption, QuotaInv, GateInv', Timely', [Next]_vars,
           NEW k \in AccountKeys
    PROVE  AccountCount(k)'
<1> SUFFICES ASSUME k \in DOMAIN buckets'
             PROVE  buckets'[k].value <= Cardinality((LetBy(k) \cup RefusedBy(k))')
  BY DEF AccountCount
<1> DEFINE tried == LetBy(k) \cup RefusedBy(k)
<1>1. GateInv /\ Timely /\ AccountCount(k)
  BY DEF QuotaInv
<1>2. IsFiniteSet(tried) /\ Cardinality(tried) \in Nat
  BY <1>1, CountedBegun, BegunFinite DEF Timely
<1>3. k \in DOMAIN buckets => /\ buckets[k].value \in Nat
                              /\ buckets[k].value <= Cardinality(tried)
  BY <1>1 DEF AccountCount, GateInv, TypeOK
<1>4. CASE Before \/ Tick \/ \E j \in Keys : Timer(j)
  <2>1. tried' = tried
    BY <1>1, <1>4, QuietlyUnmoved, UnmovedSets
  <2>2. k \in DOMAIN buckets /\ buckets'[k] = buckets[k]
    BY <1>4 DEF Before, Tick, Timer
  <2> QED
    BY <1>3, <2>1, <2>2
<1>5. CASE Die
  BY <1>1, <1>5, NewLife
<1>6. ASSUME NEW r \in Calls, ClientQuota(r)
      PROVE  buckets'[k].value <= Cardinality(tried')
  <2>1. tried' = tried
    BY <1>1, <1>6, ClientCharged
  <2>2. k # <<"client", req[r].client>>
    BY DEF AccountKeys, LimitTypes
  <2>3. k \in DOMAIN buckets /\ buckets'[k] = buckets[k]
    BY <1>1, <1>6, <2>2, ClientElsewhere
  <2> QED
    BY <1>3, <2>1, <2>3
<1>7. ASSUME NEW r \in Calls, AccountQuota(r), keyFor(r) # k
      PROVE  buckets'[k].value <= Cardinality(tried')
  <2>1. tried' = tried
    BY <1>1, <1>7, AccountCharged
  <2>2. k \in DOMAIN buckets /\ buckets'[k] = buckets[k]
    BY <1>1, <1>7, AccountElsewhere
  <2> QED
    BY <1>3, <2>1, <2>2
<1>8. ASSUME NEW r \in Calls, AccountQuota(r), keyFor(r) = k
      PROVE  buckets'[k].value <= Cardinality(tried')
  <2>1. r \notin tried /\ tried' = tried \cup {r}
    BY <1>1, <1>8, AccountCharged
  <2>2. Cardinality(tried') = Cardinality(tried) + 1
    BY <1>2, <2>1, FS_AddElement
  <2>3. buckets'[k].value = 1 \/ (k \in DOMAIN buckets /\ buckets'[k].value = buckets[k].value + 1)
    BY <1>1, <1>8, AccountHere DEF Starts
  <2> QED
    BY <1>2, <1>3, <2>2, <2>3
<1> QED
  BY <1>1, <1>4, <1>5, <1>6, <1>7, <1>8, OtherwiseBefore

(* Whoever is refused finds a counter that its own calls have used up.     *)
LEMMA OwnQuotaStep ==
    ASSUME ServiceGateAssumption, QuotaInv, GateInv', Timely', [Next]_vars
    PROVE  OwnQuotaOnly'
<1>1. GateInv /\ Timely /\ ClientCounts /\ OwnQuotaOnly /\ \A k \in AccountKeys : AccountCount(k)
  BY DEF QuotaInv
<1>2. \A r : /\ IsFiniteSet(Admitted(r)') /\ Cardinality(Admitted(r)') \in Nat
             /\ IsFiniteSet(Tried(r)') /\ Cardinality(Tried(r)') \in Nat
             /\ Cardinality(Admitted(r)) \in Nat /\ Cardinality(Tried(r)) \in Nat
  <2>1. IsFiniteSet(Begun) /\ IsFiniteSet(Begun')
    BY <1>1 DEF Timely
  <2>2. \A r : /\ Admitted(r)' \subseteq Begun' /\ Tried(r)' \subseteq Begun'
               /\ Admitted(r) \subseteq Begun /\ Tried(r) \subseteq Begun
    BY DEF Admitted, Tried, Decided, Begun
  <2> QED
    BY <2>1, <2>2, FS_Subset, FS_CardinalityType
<1>3. ClientPoints \in Nat /\ \A r \in Calls : Points[type(req[r].route)] \in Nat
  BY DEF ServiceGateAssumption, type, LimitTypes
<1>4. ASSUME NEW r \in Calls, req'[r].pc = "clientLimited"
      PROVE  Cardinality(Admitted(r)') >= ClientPoints
  <2>1. CASE req[r].pc = "clientLimited"
    <3>1. Cardinality(Admitted(r)) >= ClientPoints
      BY <1>1, <2>1 DEF OwnQuotaOnly, Admitted
    <3>2. Admitted(r) \subseteq Admitted(r)'
      BY <1>1, <2>1, BooksGrow
    <3> QED
      BY <1>2, <1>3, <3>1, <3>2, FS_Subset
  <2>2. CASE req[r].pc # "clientLimited"
    <3>1. ClientQuota(r)
      <4>1. ~Before
        BY <1>4, <2>2 DEF Before
      <4>2. ~Tick /\ ~\E k \in Keys : Timer(k)
        BY <1>4, <2>2 DEF Tick, Timer
      <4>3. ~Die
        BY <1>1, <1>4, <2>2, NewLife
      <4>4. \A q \in Calls \ {r} : ~ClientQuota(q)
        BY <1>1, <1>4, <2>2, ClientCounted DEF Counts
      <4>5. \A q \in Calls : ~AccountQuota(q)
        BY <1>1, <1>4, <2>2, AccountCounted DEF Counts
      <4> QED
        BY <1>1, <4>1, <4>2, <4>3, <4>4, <4>5, OtherwiseBefore
    <3> DEFINE c == req[r].client
               k == <<"client", c>>
    <3>2. /\ \A q \in Calls \ {r} : req'[q] = req[q]
          /\ req'[r].client = c /\ req'[r].life = req[r].life /\ req[r].pc = "clientQuota"
          /\ ~(buckets'[k].value <= ClientPoints)
          /\ c \in Clients \cup {Env}
          /\ buckets'[k].value = 1 \/ (k \in DOMAIN buckets /\ buckets'[k].value = buckets[k].value + 1)
      BY <1>1, <1>4, <3>1, ClientCounted DEF Counts
    <3>3. req[r].life = process.life
      BY <1>1, <3>2 DEF Timely, InFlight
    <3>4. ChargedTo(c) \subseteq Admitted(r)'
      BY <3>2, <3>3 DEF ChargedTo, Counted, Admitted
    <3>5. IsFiniteSet(ChargedTo(c)) /\ Cardinality(ChargedTo(c)) \in Nat
      BY <1>1, CountedBegun, BegunFinite DEF Timely
    <3>6. Cardinality(ChargedTo(c)) <= Cardinality(Admitted(r)')
      BY <1>2, <3>4, FS_Subset
    <3>7. k \in DOMAIN buckets => /\ buckets[k].value \in Nat
                                  /\ buckets[k].value <= Cardinality(ChargedTo(c))
      BY <1>1, <3>2 DEF ClientCounts, GateInv, TypeOK
    <3> HIDE DEF k, c
    <3> QED
      BY <1>2, <1>3, <3>2, <3>5, <3>6, <3>7
  <2> QED
    BY <2>1, <2>2
<1>5. ASSUME NEW r \in Decided("limited")'
      PROVE  Cardinality(Tried(r)') >= Points[type(req'[r].route)]
  <2>0. r \in Calls /\ req'[r].pc = "limited" /\ req'[r].route \in Limited
    BY <1>5 DEF Decided
  <2>1. CASE r \in Decided("limited")
    <3>1. Cardinality(Tried(r)) >= Points[type(req[r].route)]
      BY <1>1, <2>1 DEF OwnQuotaOnly, Tried
    <3>2. req'[r] = req[r]
      BY <1>1, <2>1, BooksGrow DEF Decided
    <3>3. Tried(r) \subseteq Tried(r)'
      BY <1>1, <2>0, <3>2, BooksGrow DEF keyFor
    <3>4. Cardinality(Tried(r)) <= Cardinality(Tried(r)')
      BY <1>2, <3>3, FS_Subset
    <3>5. Points[type(req'[r].route)] \in Nat /\ type(req'[r].route) = type(req[r].route)
      BY <1>3, <2>0, <3>2
    <3> QED
      BY <1>2, <3>1, <3>4, <3>5
  <2>2. CASE r \notin Decided("limited")
    <3>1. AccountQuota(r)
      <4>1. ~Before
        BY <2>0, <2>2 DEF Before, Decided
      <4>2. ~Tick /\ ~\E k \in Keys : Timer(k)
        BY <2>0, <2>2 DEF Tick, Timer, Decided
      <4>3. ~Die
        BY <1>1, <1>5, <2>2, NewLife
      <4>4. \A q \in Calls : ~ClientQuota(q)
        BY <1>1, <1>5, <2>2, ClientCharged
      <4>5. \A q \in Calls \ {r} : ~AccountQuota(q)
        BY <1>1, <1>5, <2>2, AccountCharged
      <4> QED
        BY <1>1, <4>1, <4>2, <4>3, <4>4, <4>5, OtherwiseBefore
    <3>2. PICK k : k = keyFor(r)
      OBVIOUS
    <3> DEFINE tried == LetBy(k) \cup RefusedBy(k)
    <3>3. /\ k \in AccountKeys /\ k[1] = type(req[r].route)
          /\ req'[r].route = req[r].route
      BY <1>1, <2>0, <3>2, <3>1, AccountHere
    <3>4. /\ r \notin tried /\ keyFor(r)' = k /\ req'[r].life = process.life
          /\ ~(buckets'[k].value <= Points[k[1]])
          /\ \A pc \in {"handler", "limited"} : \A q \in Decided(pc) : req'[q] = req[q]
      BY <1>1, <2>0, <3>2, <3>1, AccountCharged
    <3>5. buckets'[k].value = 1 \/ (k \in DOMAIN buckets /\ buckets'[k].value = buckets[k].value + 1)
      BY <1>1, <2>0, <3>2, <3>1, AccountHere DEF Starts
    <3>6. tried \subseteq Tried(r)'
      <4> SUFFICES ASSUME NEW q \in tried PROVE q \in Tried(r)'
        OBVIOUS
      <4>1. PICK pc \in {"handler", "limited"} : q \in Decided(pc)
        BY DEF LetBy, RefusedBy, OnKey
      <4>2. req'[q] = req[q] /\ q # r /\ req[q].life = process.life /\ keyFor(q) = k
        BY <3>4, <4>1 DEF LetBy, RefusedBy, OnKey
      <4>3. keyFor(q)' = keyFor(q) /\ q \in Decided(pc)'
        BY <4>1, <4>2 DEF keyFor, Decided
      <4> QED
        BY <3>4, <4>2, <4>3 DEF Tried, SameKey
    <3>7. IsFiniteSet(tried) /\ Cardinality(tried) \in Nat
      BY <1>1, CountedBegun, BegunFinite DEF Timely
    <3>8. Cardinality(tried) <= Cardinality(Tried(r)')
      BY <1>2, <3>6, FS_Subset
    <3>9. k \in DOMAIN buckets => /\ buckets[k].value \in Nat
                                          /\ buckets[k].value <= Cardinality(tried)
      BY <1>1, <3>3 DEF AccountCount, GateInv, TypeOK
    <3>10. Points[k[1]] \in Nat /\ Points[type(req'[r].route)] = Points[k[1]]
      BY <1>3, <2>0, <3>3
    <3> HIDE DEF tried
    <3> QED
      BY <1>2, <3>3, <3>4, <3>7, <3>8, <3>9, <3>10, <3>5
  <2> QED
    BY <2>1, <2>2
<1> QED
  BY <1>4, <1>5 DEF OwnQuotaOnly, Admitted, Tried

LEMMA InitQuota ==
    ASSUME ServiceGateAssumption, Init
    PROVE  QuotaInv
<1>1. DOMAIN buckets = {} /\ process.life = 0 /\ now = 0
  BY DEF Init, NoBuckets
<1>2. \A r \in Calls : req[r].pc = "idle" /\ req[r].life = 0 /\ req[r].time = 0
  BY DEF Init
<1>3. Begun = {}
  BY <1>2 DEF Begun
<1>4. Timely
  BY <1>1, <1>2, <1>3, FS_EmptySet DEF Timely, InFlight
<1>5. OwnQuotaOnly
  BY <1>2 DEF OwnQuotaOnly, Decided
<1> QED
  BY <1>1, <1>4, <1>5, InitGate DEF QuotaInv, ClientCounts, AccountCount

LEMMA NextQuota ==
    ASSUME ServiceGateAssumption, QuotaInv, [Next]_vars
    PROVE  QuotaInv'
<1>1. GateInv' /\ Timely'
  BY NextGate, TimelyStep DEF QuotaInv
<1>2. ClientCounts' /\ OwnQuotaOnly' /\ \A k \in AccountKeys : AccountCount(k)'
  BY <1>1, ClientCountsStep, AccountCountStep, OwnQuotaStep
<1> QED
  BY <1>1, <1>2 DEF QuotaInv

(* However many applications, accounts and calls there are, and whatever   *)
(* the quotas: a call is refused only for a quota that its own application *)
(* or its own account has used up (rateLimitClient, rateLimit, keyFor).    *)
THEOREM QuotasAreOnesOwn == Spec => []OwnQuotaOnly
<1>1. Init => QuotaInv
  BY InitQuota, ServiceGateAssumption
<1>2. QuotaInv /\ [Next]_vars => QuotaInv'
  BY NextQuota, ServiceGateAssumption
<1>3. QuotaInv => OwnQuotaOnly
  BY DEF QuotaInv
<1> QED
  BY <1>1, <1>2, <1>3, PTL DEF Spec

-----------------------------------------------------------------------------
(* A block lasts. *)

LEMMA BlockedStays ==
    ASSUME ServiceGateAssumption, GateInv, NEW k \in AccountKeys, Blocked(k),
           RefusedBy(k)' = RefusedBy(k), \A q \in RefusedBy(k) : req'[q] = req[q],
           now <= now', now' \in Nat,
           \/ k \in DOMAIN buckets /\ k \in DOMAIN buckets' /\ buckets'[k] = buckets[k]
           \/ k \notin DOMAIN buckets /\ k \notin DOMAIN buckets'
           \/ /\ k \in DOMAIN buckets /\ buckets[k].expiresAt <= now
              /\ k \notin DOMAIN buckets'
    PROVE  Blocked(k)'
<1>1. BlockDuration[k[1]] \in Nat /\ Points[k[1]] \in Nat
  BY DEF AccountKeys, ServiceGateAssumption
<1>2. k \in DOMAIN buckets => buckets[k].value \in Nat /\ buckets[k].expiresAt \in Nat
  BY DEF GateInv, TypeOK
<1>3. now \in Nat /\ \A q \in RefusedBy(k) : req[q].time \in Nat
  BY DEF GateInv, TypeOK, Call, RefusedBy, OnKey, Decided
<1>4. Exceeded(k)' => Exceeded(k) /\ buckets'[k] = buckets[k]
  BY <1>1 DEF Exceeded
<1>5. ASSUME NEW r \in RefusedBy(k)
      PROVE  \E q \in RefusedBy(k) :
               /\ req'[q].time <= req'[r].time
               /\ \/ req'[q].time + BlockDuration[k[1]] <= now'
                  \/ Exceeded(k)' /\ req'[q].time + BlockDuration[k[1]] <= buckets'[k].expiresAt
  <2>1. PICK q \in RefusedBy(k) :
          /\ req[q].time <= req[r].time
          /\ \/ req[q].time + BlockDuration[k[1]] <= now
             \/ Exceeded(k) /\ req[q].time + BlockDuration[k[1]] <= buckets[k].expiresAt
    BY DEF Blocked
  <2>2. req'[q] = req[q] /\ req'[r] = req[r] /\ req[q].time \in Nat /\ req[r].time \in Nat
    BY <1>3
  <2>3. CASE req[q].time + BlockDuration[k[1]] <= now
    BY <1>1, <1>3, <2>1, <2>2, <2>3
  <2>4. CASE Exceeded(k) /\ req[q].time + BlockDuration[k[1]] <= buckets[k].expiresAt
    <3>1. CASE k \in DOMAIN buckets' /\ buckets'[k] = buckets[k]
      BY <2>1, <2>2, <2>4, <3>1 DEF Exceeded
    <3>2. CASE buckets[k].expiresAt <= now
      <4>1. req[q].time + BlockDuration[k[1]] <= now'
        BY <1>1, <1>2, <1>3, <2>2, <2>4, <3>2 DEF Exceeded
      <4> QED
        BY <2>1, <2>2, <4>1
    <3> QED
      BY <2>4, <3>1, <3>2 DEF Exceeded
  <2> QED
    BY <2>1, <2>3, <2>4
<1>6. Exceeded(k)' => RefusedBy(k)' # {}
  BY <1>4 DEF Blocked
<1> QED
  BY <1>5, <1>6 DEF Blocked

LEMMA BlockedStep ==
    ASSUME ServiceGateAssumption, BlockInv, QuotaInv', [Next]_vars,
           NEW k \in AccountKeys
    PROVE  Blocked(k)'
<1>1. GateInv /\ Timely /\ Blocked(k)
  BY DEF BlockInv, QuotaInv
<1>2. now \in Nat /\ now' \in Nat /\ Points[k[1]] \in Nat /\ BlockDuration[k[1]] \in Nat
  BY DEF AccountKeys, ServiceGateAssumption, BlockInv, QuotaInv, GateInv, TypeOK
<1>3. \A q \in RefusedBy(k) : q \in Decided("limited") /\ q \in Calls
  BY DEF RefusedBy, OnKey, Decided
<1>4. CASE Before \/ Tick \/ \E j \in Keys : Timer(j)
  <2>1. RefusedBy(k)' = RefusedBy(k) /\ \A q \in RefusedBy(k) : req'[q] = req[q]
    BY <1>1, <1>3, <1>4, QuietlyUnmoved, UnmovedSets
  <2>2. now <= now'
    <3>1. now' = now \/ now' = now + 1
      BY <1>4 DEF Before, Tick, Timer
    <3> QED
      BY <1>2, <3>1
  <2>3. \/ k \in DOMAIN buckets /\ k \in DOMAIN buckets' /\ buckets'[k] = buckets[k]
        \/ k \notin DOMAIN buckets /\ k \notin DOMAIN buckets'
        \/ /\ k \in DOMAIN buckets /\ buckets[k].expiresAt <= now
           /\ k \notin DOMAIN buckets'
    BY <1>4 DEF Before, Tick, Timer
  <2> QED
    BY <1>1, <1>2, <2>1, <2>2, <2>3, BlockedStays
<1>5. CASE Die
  <2>1. RefusedBy(k)' = {} /\ DOMAIN buckets' = {}
    BY <1>1, <1>5, NewLife
  <2> QED
    BY <2>1 DEF Blocked, Exceeded
<1>6. ASSUME NEW r \in Calls, ClientQuota(r)
      PROVE  Blocked(k)'
  <2>1. RefusedBy(k)' = RefusedBy(k) /\ \A q \in RefusedBy(k) : req'[q] = req[q]
    BY <1>1, <1>3, <1>6, ClientCharged
  <2>2. k # <<"client", req[r].client>> /\ now' = now
    <3>1. k # <<"client", req[r].client>>
      BY DEF AccountKeys, LimitTypes
    <3>2. now' = now
      BY <1>6 DEF ClientQuota, consume
    <3> QED
      BY <3>1, <3>2
  <2>3. \/ k \in DOMAIN buckets /\ k \in DOMAIN buckets' /\ buckets'[k] = buckets[k]
        \/ k \notin DOMAIN buckets /\ k \notin DOMAIN buckets'
    <3>1. DOMAIN buckets \subseteq DOMAIN buckets'
      BY <1>1, <1>6, ClientCounted DEF Counts
    <3> QED
      BY <1>1, <1>6, <2>2, <3>1, ClientElsewhere
  <2> QED
    BY <1>1, <1>2, <2>1, <2>2, <2>3, BlockedStays
<1>7. ASSUME NEW r \in Calls, AccountQuota(r), k # keyFor(r)
      PROVE  Blocked(k)'
  <2>1. RefusedBy(k)' = RefusedBy(k) /\ \A q \in RefusedBy(k) : req'[q] = req[q]
    BY <1>1, <1>3, <1>7, AccountCharged
  <2>2. now' = now /\ DOMAIN buckets \subseteq DOMAIN buckets'
    BY <1>1, <1>7, AccountCounted DEF Counts
  <2>3. \/ k \in DOMAIN buckets /\ k \in DOMAIN buckets' /\ buckets'[k] = buckets[k]
        \/ k \notin DOMAIN buckets /\ k \notin DOMAIN buckets'
    BY <1>1, <1>7, <2>2, AccountElsewhere
  <2> QED
    BY <1>1, <1>2, <2>1, <2>2, <2>3, BlockedStays
<1>8. ASSUME NEW r \in Calls, AccountQuota(r), k = keyFor(r)
      PROVE  Blocked(k)'
  <2>1. /\ k \in DOMAIN buckets' /\ now' = now /\ req'[r].time = now
        /\ \/ Starts(k) /\ buckets'[k].value = 1
           \/ ~Starts(k) /\ buckets'[k].value = buckets[k].value + 1
        /\ buckets'[k].expiresAt =
             IF buckets'[k].value = Points[k[1]] + 1 /\ BlockDuration[k[1]] > 0
             THEN now + BlockDuration[k[1]]
             ELSE IF Starts(k) THEN now + Duration[k[1]] ELSE buckets[k].expiresAt
    BY <1>1, <1>8, AccountHere
  <2>2. \A q \in RefusedBy(k) : req'[q] = req[q] /\ req[q].time \in Nat /\ req[q].time <= now
    BY <1>1, <1>3, <1>8, AccountCharged DEF Timely, GateInv, TypeOK, Call
  <2>3. k \in DOMAIN buckets => buckets[k].value \in Nat /\ buckets[k].expiresAt \in Nat
    BY <1>1 DEF GateInv, TypeOK
  <2>4. CASE buckets'[k].value <= Points[k[1]]
    <3>1. RefusedBy(k)' = RefusedBy(k)
      BY <1>1, <1>8, <2>4, AccountCharged
    <3>2. ~Exceeded(k)'
      BY <1>2, <2>1, <2>3, <2>4 DEF Exceeded, Starts
    <3>3. ASSUME NEW p \in RefusedBy(k)
          PROVE  \E q \in RefusedBy(k) :
                   /\ req'[q].time <= req'[p].time
                   /\ req'[q].time + BlockDuration[k[1]] <= now'
      <4>1. PICK q \in RefusedBy(k) :
              /\ req[q].time <= req[p].time
              /\ \/ req[q].time + BlockDuration[k[1]] <= now
                 \/ Exceeded(k) /\ req[q].time + BlockDuration[k[1]] <= buckets[k].expiresAt
        BY <1>1 DEF Blocked
      <4>2. Exceeded(k) => buckets[k].expiresAt = now
        BY <1>2, <2>1, <2>3, <2>4 DEF Exceeded, Starts
      <4>3. req[q].time + BlockDuration[k[1]] <= now
        BY <4>1, <4>2
      <4> QED
        BY <2>1, <2>2, <4>1, <4>3
    <3> QED
      BY <3>1, <3>2, <3>3 DEF Blocked
  <2>5. CASE ~(buckets'[k].value <= Points[k[1]])
    <3>1. RefusedBy(k)' = RefusedBy(k) \cup {r}
      BY <1>1, <1>8, <2>5, AccountCharged
    <3>2. Exceeded(k)'
      BY <1>2, <2>1, <2>3, <2>5 DEF Exceeded, Starts
    <3> DEFINE Behind(q, p) ==
                 /\ req'[q].time <= req'[p].time
                 /\ \/ req'[q].time + BlockDuration[k[1]] <= now'
                    \/ req'[q].time + BlockDuration[k[1]] <= buckets'[k].expiresAt
    <3>3. ASSUME NEW p \in RefusedBy(k)
          PROVE  \E q \in RefusedBy(k) : Behind(q, p)
      <4>1. PICK q \in RefusedBy(k) :
              /\ req[q].time <= req[p].time
              /\ \/ req[q].time + BlockDuration[k[1]] <= now
                 \/ Exceeded(k) /\ req[q].time + BlockDuration[k[1]] <= buckets[k].expiresAt
        BY <1>1 DEF Blocked
      <4>2. CASE req[q].time + BlockDuration[k[1]] <= now
        BY <2>1, <2>2, <4>1, <4>2
      <4>3. CASE Exceeded(k) /\ req[q].time + BlockDuration[k[1]] <= buckets[k].expiresAt
        <5>1. Starts(k) => buckets[k].expiresAt = now
          BY <4>3 DEF Starts, Exceeded
        <5>2. ~Starts(k) => buckets'[k].expiresAt = buckets[k].expiresAt
          BY <1>2, <2>1, <2>3, <4>3 DEF Exceeded
        <5>3. req'[q] = req[q] /\ req'[p] = req[p]
          BY <2>2
        <5> QED
          BY <2>1, <4>1, <4>3, <5>1, <5>2, <5>3
      <4> QED
        BY <4>1, <4>2, <4>3
    <3>4. \E q \in RefusedBy(k) \cup {r} : Behind(q, r)
      <4>1. CASE RefusedBy(k) # {}
        <5>1. PICK p \in RefusedBy(k) : TRUE
          BY <4>1
        <5>2. PICK q \in RefusedBy(k) : Behind(q, p)
          BY <3>3
        <5>3. req'[q] = req[q] /\ req[q].time <= now
          BY <2>2
        <5> QED
          BY <2>1, <5>2, <5>3
      <4>2. CASE RefusedBy(k) = {}
        <5>1. ~Exceeded(k)
          BY <1>1, <4>2 DEF Blocked
        <5>2. buckets'[k].value = Points[k[1]] + 1
          BY <1>2, <2>1, <2>3, <2>5, <5>1 DEF Exceeded, Starts
        <5>3. BlockDuration[k[1]] > 0 => buckets'[k].expiresAt = now + BlockDuration[k[1]]
          BY <2>1, <5>2
        <5>4. Behind(r, r)
          BY <1>2, <2>1, <5>3
        <5> QED
          BY <5>4
      <4> QED
        BY <4>1, <4>2
    <3> HIDE DEF Behind
    <3>5. \A p \in RefusedBy(k)' : \E q \in RefusedBy(k)' : Behind(q, p)
      BY <3>1, <3>3, <3>4
    <3>6. RefusedBy(k)' # {}
      BY <3>1
    <3> QED
      BY <3>2, <3>5, <3>6 DEF Blocked, Behind
  <2> QED
    BY <2>4, <2>5
<1> QED
  BY <1>1, <1>4, <1>5, <1>6, <1>7, <1>8, OtherwiseBefore

(* A call let through finds the counter fresh, or not in excess: behind    *)
(* every refusal of its key lies a block that has run out.                 *)
LEMMA BlockHoldsStep ==
    ASSUME ServiceGateAssumption, BlockInv, QuotaInv', [Next]_vars
    PROVE  BlockHolds'
<1> DEFINE Served(r, p) ==
             \E q \in Decided("limited") :
                /\ SameKey(q, r) /\ req[q].time <= req[r].time
                /\ req[q].time + BlockDuration[type(req[q].route)] <= req[p].time
<1> SUFFICES ASSUME NEW r \in Decided("limited")', NEW p \in Decided("handler")',
                    SameKey(r, p)', req'[r].time < req'[p].time
             PROVE  Served(r, p)'
  BY DEF BlockHolds
<1>1. GateInv /\ Timely /\ BlockHolds
  BY DEF BlockInv, QuotaInv
<1>2. r \in Calls /\ p \in Calls /\ r # p
  BY DEF Decided
<1>3. now \in Nat /\ now' \in Nat /\ req'[r].time \in Nat /\ req'[p].time \in Nat
      /\ req'[r].time <= now' /\ req'[p].time <= now'
  <2>1. TypeOK /\ TypeOK' /\ Timely'
    BY <1>1 DEF QuotaInv, GateInv
  <2>2. now \in Nat /\ now' \in Nat /\ req'[r] \in Call /\ req'[p] \in Call
    BY <1>2, <2>1 DEF TypeOK
  <2> QED
    BY <1>2, <2>1, <2>2 DEF Call, Timely
<1>4. CASE r \in Decided("limited") /\ p \in Decided("handler")
  <2>1. \A q \in Decided("limited") \cup Decided("handler") :
          req'[q] = req[q] /\ keyFor(q)' = keyFor(q)
    BY <1>1, BooksGrow DEF Decided, keyFor
  <2>2. SameKey(r, p) /\ req[r].time < req[p].time
    BY <1>4, <2>1 DEF SameKey
  <2>3. PICK q \in Decided("limited") :
          /\ SameKey(q, r) /\ req[q].time <= req[r].time
          /\ req[q].time + BlockDuration[type(req[q].route)] <= req[p].time
    BY <1>1, <1>4, <2>2 DEF BlockHolds
  <2>4. q \in Decided("limited")'
    BY <2>1 DEF Decided
  <2> QED
    BY <1>4, <2>1, <2>3, <2>4 DEF SameKey
<1>5. CASE ~(r \in Decided("limited") /\ p \in Decided("handler"))
  <2>1. PICK w \in Calls : AccountQuota(w)
    <3>1. ~(Before \/ Tick \/ \E j \in Keys : Timer(j))
      BY <1>1, <1>5, QuietlyUnmoved, UnmovedSets
    <3>2. ~Die /\ \A q \in Calls : ~ClientQuota(q)
      BY <1>1, <1>5, NewLife, ClientCharged
    <3> QED
      BY <1>1, <3>1, <3>2, OtherwiseBefore
  <2>2. PICK k : k = keyFor(w)
    OBVIOUS
  <2>3. /\ k \in AccountKeys /\ now' = now /\ req'[w].time = now
        /\ \/ Starts(k) /\ buckets'[k].value = 1
           \/ ~Starts(k) /\ buckets'[k].value = buckets[k].value + 1
        /\ \A q \in Calls \ {w} : req'[q] = req[q]
    BY <1>1, <2>1, <2>2, AccountHere
  <2>4. r # w /\ p = w
    <3>1. r # w
      BY <1>3, <2>3
    <3>2. r \in Decided("limited")
      BY <1>2, <2>3, <3>1 DEF Decided
    <3>3. p \notin Decided("handler")
      BY <1>5, <3>2
    <3> QED
      BY <1>2, <2>3, <3>1, <3>3 DEF Decided
  <2>5. /\ buckets'[k].value <= Points[k[1]] /\ keyFor(w)' = k /\ req'[w].life = process.life
        /\ \A q \in Decided("limited") : req'[q] = req[q]
    BY <1>1, <2>1, <2>2, <2>4, AccountCharged DEF Decided
  <2>6. r \in RefusedBy(k)
    <3>1. r \in Decided("limited") /\ req'[r] = req[r]
      BY <1>2, <2>3, <2>4 DEF Decided
    <3>2. keyFor(r)' = keyFor(r)
      BY <3>1 DEF keyFor
    <3> QED
      BY <2>4, <2>5, <3>1, <3>2 DEF SameKey, RefusedBy, OnKey
  <2>7. PICK q \in RefusedBy(k) :
          /\ req[q].time <= req[r].time
          /\ \/ req[q].time + BlockDuration[k[1]] <= now
             \/ Exceeded(k) /\ req[q].time + BlockDuration[k[1]] <= buckets[k].expiresAt
    BY <2>3, <2>6 DEF BlockInv, Blocked
  <2>8. Exceeded(k) => buckets[k].expiresAt = now
    <3>1. Points[k[1]] \in Nat
      BY <2>3 DEF AccountKeys, ServiceGateAssumption
    <3>2. k \in DOMAIN buckets => buckets[k].value \in Nat
      BY <1>1 DEF GateInv, TypeOK
    <3> QED
      BY <2>3, <2>5, <3>1, <3>2 DEF Exceeded, Starts
  <2>9. req[q].time + BlockDuration[k[1]] <= now
    BY <2>7, <2>8
  <2>10. /\ q \in Decided("limited") /\ keyFor(q) = k /\ req[q].life = process.life
         /\ req'[q] = req[q] /\ req'[r] = req[r]
    BY <1>2, <2>3, <2>4, <2>5 DEF RefusedBy, OnKey
  <2>11. q \in Decided("limited")' /\ keyFor(q)' = k /\ k[1] = type(req'[q].route)
    BY <2>10 DEF Decided, keyFor
  <2>12. SameKey(q, r)'
    BY <2>4, <2>5, <2>10, <2>11 DEF SameKey
  <2> QED
    BY <2>3, <2>4, <2>7, <2>9, <2>10, <2>11, <2>12
<1> QED
  BY <1>4, <1>5

(* However long the block, and whether or not there is one: an account     *)
(* that has been refused is let through again only after a block has run   *)
(* out, or after a restart (limiters, RateLimiterMemory.consume).          *)
THEOREM BlocksLast == Spec => []BlockHolds
<1>1. Init => BlockInv
  <2>1. ASSUME Init PROVE BlockInv
    <3>1. DOMAIN buckets = {} /\ \A r \in Calls : req[r].pc = "idle"
      BY <2>1 DEF Init, NoBuckets
    <3>2. BlockHolds
      BY <3>1 DEF BlockHolds, Decided
    <3> QED
      BY <2>1, <3>1, <3>2, InitQuota, ServiceGateAssumption
        DEF BlockInv, Blocked, Exceeded, RefusedBy, OnKey, Decided
  <2> QED
    BY <2>1
<1>2. BlockInv /\ [Next]_vars => BlockInv'
  <2>1. ASSUME BlockInv, [Next]_vars PROVE BlockInv'
    <3>1. QuotaInv'
      BY <2>1, NextQuota, ServiceGateAssumption DEF BlockInv
    <3> QED
      BY <2>1, <3>1, BlockedStep, BlockHoldsStep, ServiceGateAssumption DEF BlockInv
  <2> QED
    BY <2>1
<1>3. BlockInv => BlockHolds
  BY DEF BlockInv
<1> QED
  BY <1>1, <1>2, <1>3, PTL DEF Spec

-----------------------------------------------------------------------------
(* Windows.  A counter that blocks does not expire before its window ends: *)
(* a block lasts at least as long as the window, if there is one (login:   *)
(* 300 and 60 seconds; mails: no block).                                   *)
BlocksOutlastWindows ==
    \A t \in LimitTypes : BlockDuration[t] = 0 \/ BlockDuration[t] >= Duration[t]

LEMMA KeyNumbers ==
    ASSUME ServiceGateAssumption, GateInv, NEW k \in AccountKeys
    PROVE  /\ Points[k[1]] \in Nat /\ Duration[k[1]] \in Nat /\ Duration[k[1]] > 0
           /\ BlockDuration[k[1]] \in Nat /\ k[1] \in LimitTypes
           /\ k \in DOMAIN buckets => buckets[k].value \in Nat /\ buckets[k].expiresAt \in Nat
           /\ now \in Nat
           /\ LetBy(k) \subseteq Calls /\ \A q \in LetBy(k) : req[q].time \in Nat
<1>1. k[1] \in LimitTypes
  BY DEF AccountKeys
<1>2. k \in DOMAIN buckets => buckets[k].value \in Nat /\ buckets[k].expiresAt \in Nat
  BY DEF GateInv, TypeOK
<1>3. now \in Nat /\ LetBy(k) \subseteq Calls /\ \A q \in LetBy(k) : req[q].time \in Nat
  BY DEF GateInv, TypeOK, Call, LetBy, OnKey, Decided
<1> QED
  BY <1>1, <1>2, <1>3 DEF ServiceGateAssumption

LEMMA LetByFinite ==
    ASSUME Timely, NEW k, NEW S \in SUBSET LetBy(k)
    PROVE  IsFiniteSet(S) /\ Cardinality(S) \in Nat
BY CountedBegun, BegunFinite DEF Timely

(* When a counter has run out, what was let through before it reaches no   *)
(* further.                                                                *)
LEMMA RunOut ==
    ASSUME ServiceGateAssumption, WindowInv, NEW k \in AccountKeys,
           k \in DOMAIN buckets => buckets[k].expiresAt <= now
    PROVE  Cardinality(Reaching(LetBy(k), k, now)) <= Points[k[1]]
<1>1. GateInv /\ Timely /\ Windowed(k)
  BY DEF WindowInv, QuotaInv
<1>2. CASE k \notin DOMAIN buckets
  BY <1>1, <1>2 DEF Windowed
<1>3. CASE k \in DOMAIN buckets
  <2>1. PICK s \in Nat, old \in SUBSET LetBy(k) : Began(k, s, old)
    BY <1>1, <1>3 DEF Windowed
  <2>2. \A q \in old : ~(req[q].time + Duration[k[1]] > now)
    <3> SUFFICES ASSUME NEW q \in old PROVE ~(req[q].time + Duration[k[1]] > now)
      OBVIOUS
    <3>1. req[q].time <= s /\ s + Duration[k[1]] <= buckets[k].expiresAt
      BY <2>1 DEF Began
    <3> QED
      BY <1>1, <1>3, <2>1, <3>1, KeyNumbers
  <2>3. Reaching(LetBy(k), k, now) \subseteq LetBy(k) \ old
    BY <2>2 DEF Reaching
  <2>4. Cardinality(Reaching(LetBy(k), k, now)) <= Cardinality(LetBy(k) \ old)
    BY <1>1, <2>3, LetByFinite, FS_Subset
  <2>5. Cardinality(LetBy(k) \ old) <= Points[k[1]]
    BY <2>1 DEF Began
  <2>6. /\ Cardinality(Reaching(LetBy(k), k, now)) \in Nat
        /\ Cardinality(LetBy(k) \ old) \in Nat /\ Points[k[1]] \in Nat
    BY <1>1, <2>3, LetByFinite, KeyNumbers
  <2> QED
    BY <2>4, <2>5, <2>6
<1> QED
  BY <1>2, <1>3

LEMMA WindowedStays ==
    ASSUME ServiceGateAssumption, WindowInv, GateInv', NEW k \in AccountKeys,
           LetBy(k)' = LetBy(k), \A q \in LetBy(k) : req'[q] = req[q],
           now <= now',
           \/ k \in DOMAIN buckets /\ k \in DOMAIN buckets' /\ buckets'[k] = buckets[k]
           \/ k \notin DOMAIN buckets /\ k \notin DOMAIN buckets'
           \/ /\ k \in DOMAIN buckets /\ buckets[k].expiresAt <= now
              /\ k \notin DOMAIN buckets'
    PROVE  Windowed(k)'
<1>1. GateInv /\ Timely /\ Windowed(k)
  BY DEF WindowInv, QuotaInv
<1>2. now' \in Nat
  BY DEF GateInv, TypeOK
<1>3. \A set \in SUBSET LetBy(k) : \A s : Reaching(set, k, s)' = Reaching(set, k, s)
  BY DEF Reaching
<1>4. CASE k \in DOMAIN buckets /\ k \in DOMAIN buckets' /\ buckets'[k] = buckets[k]
  <2>1. PICK s \in Nat, old \in SUBSET LetBy(k) : Began(k, s, old)
    BY <1>1, <1>4 DEF Windowed
  <2>2. s <= now'
    BY <1>1, <1>2, <2>1, KeyNumbers DEF Began
  <2>3. \A q \in old : req'[q].time <= s
    BY <2>1 DEF Began
  <2>4. \A q \in LetBy(k) \ old : req'[q].time >= s
    BY <2>1 DEF Began
  <2>5. Reaching(old, k, s)' = Reaching(old, k, s)
    BY <1>3
  <2>6. Began(k, s, old)'
    BY <1>4, <2>1, <2>2, <2>3, <2>4, <2>5 DEF Began
  <2> QED
    BY <1>4, <2>6 DEF Windowed
<1>5. CASE k \notin DOMAIN buckets'
  <2>1. Cardinality(Reaching(LetBy(k), k, now)) <= Points[k[1]]
    BY <1>5, RunOut
  <2>2. Reaching(LetBy(k), k, now)' \subseteq Reaching(LetBy(k), k, now)
    <3>1. \A q \in LetBy(k) : req'[q].time + Duration[k[1]] > now' =>
                              req[q].time + Duration[k[1]] > now
      BY <1>1, <1>2, KeyNumbers
    <3> QED
      BY <3>1 DEF Reaching
  <2>3. /\ IsFiniteSet(Reaching(LetBy(k), k, now))
        /\ Cardinality(Reaching(LetBy(k), k, now)) \in Nat /\ Points[k[1]] \in Nat
    BY <1>1, LetByFinite, KeyNumbers DEF Reaching
  <2>4. /\ Cardinality(Reaching(LetBy(k), k, now)') <= Cardinality(Reaching(LetBy(k), k, now))
        /\ Cardinality(Reaching(LetBy(k), k, now)') \in Nat
    BY <2>2, <2>3, FS_Subset, FS_CardinalityType
  <2> QED
    BY <1>5, <2>1, <2>3, <2>4 DEF Windowed
<1> QED
  BY <1>4, <1>5

(* A call counted on its key starts a counter, or is one more on it.       *)
LEMMA WindowedCounts ==
    ASSUME ServiceGateAssumption, BlocksOutlastWindows, WindowInv, GateInv', Timely',
           NEW r \in Calls, AccountQuota(r), NEW k, k = keyFor(r)
    PROVE  k \in DOMAIN buckets' /\ \E s \in Nat, old \in SUBSET LetBy(k)' : Began(k, s, old)'
<1>1. GateInv /\ Timely /\ Windowed(k) /\ k \in AccountKeys
  BY AccountHere DEF WindowInv, QuotaInv
<1>2. /\ k \in DOMAIN buckets' /\ now' = now /\ req'[r].time = now
      /\ \/ Starts(k) /\ buckets'[k].value = 1
         \/ ~Starts(k) /\ buckets'[k].value = buckets[k].value + 1
      /\ buckets'[k].expiresAt =
           IF buckets'[k].value = Points[k[1]] + 1 /\ BlockDuration[k[1]] > 0
           THEN now + BlockDuration[k[1]]
           ELSE IF Starts(k) THEN now + Duration[k[1]] ELSE buckets[k].expiresAt
  BY <1>1, AccountHere
<1>3. \/ /\ buckets'[k].value <= Points[k[1]] /\ LetBy(k)' = LetBy(k) \cup {r}
      \/ LetBy(k)' = LetBy(k)
  BY <1>1, AccountCharged
<1>4. /\ r \notin LetBy(k) /\ \A q \in LetBy(k) : req'[q] = req[q]
  BY <1>1, AccountCharged DEF LetBy, OnKey
<1>5. \A set \in SUBSET LetBy(k) : \A s : Reaching(set, k, s)' = Reaching(set, k, s)
  BY <1>4 DEF Reaching
<1>6. /\ Points[k[1]] \in Nat /\ Duration[k[1]] \in Nat /\ BlockDuration[k[1]] \in Nat
      /\ now \in Nat /\ (BlockDuration[k[1]] = 0 \/ BlockDuration[k[1]] >= Duration[k[1]])
      /\ k \in DOMAIN buckets => buckets[k].value \in Nat /\ buckets[k].expiresAt \in Nat
      /\ \A q \in LetBy(k) : req[q].time \in Nat /\ req[q].time <= now
  <2>1. \A q \in LetBy(k) : req[q].time <= now
    BY <1>1, KeyNumbers DEF Timely
  <2> QED
    BY <1>1, <2>1, KeyNumbers DEF BlocksOutlastWindows
<1>7. ASSUME NEW s \in Nat, NEW old \in SUBSET LetBy(k),
             s <= now, s + Duration[k[1]] <= buckets'[k].expiresAt,
             \A q \in old : req[q].time <= s,
             \A q \in LetBy(k) \ old : req[q].time >= s,
             Cardinality(Reaching(old, k, s)) <= Points[k[1]],
             Cardinality(LetBy(k) \ old) + 1 <= buckets'[k].value,
             Cardinality(LetBy(k) \ old) <= Points[k[1]]
      PROVE  old \in SUBSET LetBy(k)' /\ Began(k, s, old)'
  <2>1. old \in SUBSET LetBy(k)'
    BY <1>3
  <2>2. \A q \in old : req'[q].time <= s
    BY <1>4, <1>7
  <2>3. \A q \in LetBy(k)' \ old : req'[q].time >= s
    BY <1>2, <1>3, <1>4, <1>6, <1>7
  <2>4. Reaching(old, k, s)' = Reaching(old, k, s)
    BY <1>5
  <2>5. /\ Cardinality(LetBy(k)' \ old) <= buckets'[k].value
        /\ Cardinality(LetBy(k)' \ old) <= Points[k[1]]
    <3>1. IsFiniteSet(LetBy(k) \ old) /\ Cardinality(LetBy(k) \ old) \in Nat
      BY <1>1, LetByFinite
    <3>2. buckets'[k].value \in Nat
      BY <1>2 DEF GateInv, TypeOK
    <3>3. CASE LetBy(k)' = LetBy(k)
      BY <1>6, <1>7, <3>1, <3>2, <3>3
    <3>4. CASE buckets'[k].value <= Points[k[1]] /\ LetBy(k)' = LetBy(k) \cup {r}
      <4>1. LetBy(k)' \ old = (LetBy(k) \ old) \cup {r}
        BY <1>4, <3>4
      <4>2. Cardinality(LetBy(k)' \ old) = Cardinality(LetBy(k) \ old) + 1
        BY <1>4, <3>1, <4>1, FS_AddElement
      <4> QED
        BY <1>6, <1>7, <3>1, <3>2, <3>4, <4>2
    <3> QED
      BY <1>3, <3>3, <3>4
  <2> QED
    BY <1>2, <1>7, <2>1, <2>2, <2>3, <2>4, <2>5 DEF Began
<1>8. CASE Starts(k)
  <2>1. now + Duration[k[1]] <= buckets'[k].expiresAt
    BY <1>2, <1>6, <1>8
  <2>2. Cardinality(Reaching(LetBy(k), k, now)) <= Points[k[1]]
    BY <1>1, <1>6, <1>8, RunOut DEF Starts
  <2>3. LetBy(k) \ LetBy(k) = {} /\ Cardinality({}) = 0
    BY FS_EmptySet
  <2>4. PICK s, old : s = now /\ old = LetBy(k)
    OBVIOUS
  <2>5. old \in SUBSET LetBy(k)' /\ Began(k, s, old)'
    BY <1>2, <1>6, <1>7, <1>8, <2>1, <2>2, <2>3, <2>4
  <2>6. s \in Nat
    BY <1>6, <2>4
  <2> QED
    BY <1>2, <2>5, <2>6
<1>9. CASE ~Starts(k)
  <2>1. PICK s \in Nat, old \in SUBSET LetBy(k) : Began(k, s, old)
    BY <1>1, <1>9 DEF Windowed, Starts
  <2>2. s + Duration[k[1]] <= buckets'[k].expiresAt
    BY <1>2, <1>6, <1>9, <2>1 DEF Began, Starts
  <2>3. IsFiniteSet(LetBy(k) \ old) /\ Cardinality(LetBy(k) \ old) \in Nat
    BY <1>1, LetByFinite
  <2>4. Cardinality(LetBy(k) \ old) + 1 <= buckets'[k].value
    BY <1>2, <1>6, <1>9, <2>1, <2>3 DEF Began, Starts
  <2>5. old \in SUBSET LetBy(k)' /\ Began(k, s, old)'
    BY <1>7, <2>1, <2>2, <2>4 DEF Began
  <2> QED
    BY <1>2, <2>5
<1> QED
  BY <1>8, <1>9

LEMMA WindowedStep ==
    ASSUME ServiceGateAssumption, BlocksOutlastWindows, WindowInv, QuotaInv', [Next]_vars,
           NEW k \in AccountKeys
    PROVE  Windowed(k)'
<1>1. GateInv /\ Timely /\ GateInv' /\ Timely'
  BY DEF WindowInv, QuotaInv
<1>2. now \in Nat /\ now' \in Nat /\ Points[k[1]] \in Nat
  BY <1>1, KeyNumbers DEF GateInv, TypeOK
<1>3. \A q \in LetBy(k) : q \in Decided("handler") /\ q \in Calls
  BY DEF LetBy, OnKey, Decided
<1>4. CASE Before \/ Tick \/ \E j \in Keys : Timer(j)
  <2>1. LetBy(k)' = LetBy(k) /\ \A q \in LetBy(k) : req'[q] = req[q]
    BY <1>1, <1>3, <1>4, QuietlyUnmoved, UnmovedSets
  <2>2. now <= now'
    <3>1. now' = now \/ now' = now + 1
      BY <1>4 DEF Before, Tick, Timer
    <3> QED
      BY <1>2, <3>1
  <2>3. \/ k \in DOMAIN buckets /\ k \in DOMAIN buckets' /\ buckets'[k] = buckets[k]
        \/ k \notin DOMAIN buckets /\ k \notin DOMAIN buckets'
        \/ /\ k \in DOMAIN buckets /\ buckets[k].expiresAt <= now
           /\ k \notin DOMAIN buckets'
    BY <1>4 DEF Before, Tick, Timer
  <2> QED
    BY <1>1, <2>1, <2>2, <2>3, WindowedStays
<1>5. CASE Die
  <2>1. LetBy(k)' = {} /\ DOMAIN buckets' = {}
    BY <1>1, <1>5, NewLife
  <2>2. Reaching(LetBy(k), k, now)' = {}
    BY <2>1 DEF Reaching
  <2>3. Cardinality(Reaching(LetBy(k), k, now)') <= Points[k[1]]
    BY <1>2, <2>2, FS_EmptySet
  <2> QED
    BY <2>1, <2>3 DEF Windowed
<1>6. ASSUME NEW r \in Calls, ClientQuota(r)
      PROVE  Windowed(k)'
  <2>1. LetBy(k)' = LetBy(k) /\ \A q \in LetBy(k) : req'[q] = req[q]
    BY <1>1, <1>3, <1>6, ClientCharged
  <2>2. k # <<"client", req[r].client>>
    BY DEF AccountKeys, LimitTypes
  <2>3. now' = now
    BY <1>6 DEF ClientQuota, consume
  <2>4. \/ k \in DOMAIN buckets /\ k \in DOMAIN buckets' /\ buckets'[k] = buckets[k]
        \/ k \notin DOMAIN buckets /\ k \notin DOMAIN buckets'
    <3>1. DOMAIN buckets \subseteq DOMAIN buckets'
      BY <1>1, <1>6, ClientCounted DEF Counts
    <3> QED
      BY <1>1, <1>6, <2>2, <3>1, ClientElsewhere
  <2> QED
    BY <1>1, <1>2, <2>1, <2>3, <2>4, WindowedStays
<1>7. ASSUME NEW r \in Calls, AccountQuota(r), k # keyFor(r)
      PROVE  Windowed(k)'
  <2>1. LetBy(k)' = LetBy(k) /\ \A q \in LetBy(k) : req'[q] = req[q]
    BY <1>1, <1>3, <1>7, AccountCharged
  <2>2. now' = now /\ DOMAIN buckets \subseteq DOMAIN buckets'
    BY <1>1, <1>7, AccountCounted DEF Counts
  <2>3. \/ k \in DOMAIN buckets /\ k \in DOMAIN buckets' /\ buckets'[k] = buckets[k]
        \/ k \notin DOMAIN buckets /\ k \notin DOMAIN buckets'
    BY <1>1, <1>7, <2>2, AccountElsewhere
  <2> QED
    BY <1>1, <1>2, <2>1, <2>2, <2>3, WindowedStays
<1>8. ASSUME NEW r \in Calls, AccountQuota(r), k = keyFor(r)
      PROVE  Windowed(k)'
  BY <1>1, <1>8, WindowedCounts DEF Windowed
<1> QED
  BY <1>1, <1>4, <1>5, <1>6, <1>7, <1>8, OtherwiseBefore

(* A window meets at most two counters: the one that counts the latest     *)
(* call, and what its predecessors let through within reach of its start.  *)
LEMMA AnyWindowStep ==
    ASSUME ServiceGateAssumption, BlocksOutlastWindows, WindowInv, QuotaInv', [Next]_vars
    PROVE  AnyWindow'
<1>1. GateInv /\ Timely /\ AnyWindow /\ GateInv' /\ Timely'
  BY DEF WindowInv, QuotaInv
<1> SUFFICES ASSUME NEW k \in AccountKeys, NEW life \in Nat, NEW w \in Nat
             PROVE  Cardinality(InWindow("handler", k, life, w)') <= 2 * Points[k[1]]
  BY DEF AnyWindow
<1>2. \A q \in Decided("handler") : req'[q] = req[q] /\ keyFor(q)' = keyFor(q)
  BY <1>1, BooksGrow DEF Decided, keyFor
<1>3. CASE Decided("handler")' = Decided("handler")
  <2>1. InWindow("handler", k, life, w)' = InWindow("handler", k, life, w)
    BY <1>2, <1>3 DEF InWindow
  <2> QED
    BY <1>1, <2>1 DEF AnyWindow
<1>4. CASE Decided("handler")' # Decided("handler")
  <2>1. PICK r \in Calls : AccountQuota(r)
    <3>1. ~(Before \/ Tick \/ \E j \in Keys : Timer(j))
      BY <1>1, <1>4, QuietlyUnmoved, UnmovedSets
    <3>2. ~Die /\ \A q \in Calls : ~ClientQuota(q)
      BY <1>1, <1>4, NewLife, ClientCharged
    <3> QED
      BY <1>1, <3>1, <3>2, OtherwiseBefore
  <2>2. PICK j : j = keyFor(r)
    OBVIOUS
  <2>3. /\ Decided("handler")' = Decided("handler") \cup {r}
        /\ keyFor(r)' = j /\ req'[r].life = process.life
    BY <1>1, <1>4, <2>1, <2>2, AccountCharged
  <2>4. CASE r \notin InWindow("handler", k, life, w)'
    <3>1. \A q \in InWindow("handler", k, life, w)' : q \in Decided("handler")
      BY <2>3, <2>4 DEF InWindow
    <3>2. InWindow("handler", k, life, w)' = InWindow("handler", k, life, w)
      BY <1>2, <2>3, <3>1 DEF InWindow
    <3> QED
      BY <1>1, <3>2 DEF AnyWindow
  <2>5. CASE r \in InWindow("handler", k, life, w)'
    <3>1. /\ j = k /\ life = process.life
          /\ req'[r].time \in w .. w + Duration[k[1]] - 1
      BY <2>3, <2>5 DEF InWindow
    <3>2. process' = process /\ req'[r].time = now /\ now' = now /\ k = keyFor(r)
      BY <1>1, <2>1, <2>2, <3>1, AccountCounted DEF Counts
    <3>3. PICK s \in Nat, old \in SUBSET LetBy(k)' : Began(k, s, old)'
      BY <1>1, <2>1, <3>2, WindowedCounts
    <3>4. /\ s <= now /\ Cardinality(Reaching(old, k, s)') <= Points[k[1]]
          /\ Cardinality(LetBy(k)' \ old) <= Points[k[1]]
      BY <3>2, <3>3 DEF Began
    <3>5. /\ Points[k[1]] \in Nat /\ Duration[k[1]] \in Nat /\ now \in Nat
      BY <1>1, KeyNumbers
    <3>6. InWindow("handler", k, life, w)' \subseteq (LetBy(k)' \ old) \cup Reaching(old, k, s)'
      <4> SUFFICES ASSUME NEW q \in InWindow("handler", k, life, w)', q \in old
                   PROVE  q \in Reaching(old, k, s)'
        BY <3>1, <3>2 DEF InWindow, LetBy, OnKey
      <4>1. req'[q].time \in w .. w + Duration[k[1]] - 1
        BY DEF InWindow
      <4>2. req'[q].time + Duration[k[1]] > s
        BY <3>1, <3>2, <3>4, <3>5, <4>1
      <4> QED
        BY <4>2 DEF Reaching
    <3>7. /\ IsFiniteSet(LetBy(k)' \ old) /\ Cardinality(LetBy(k)' \ old) \in Nat
          /\ IsFiniteSet(Reaching(old, k, s)') /\ Cardinality(Reaching(old, k, s)') \in Nat
      <4>1. IsFiniteSet(Begun') /\ LetBy(k)' \subseteq Begun'
        BY <1>1 DEF Timely, LetBy, OnKey, Decided, Begun
      <4>2. Reaching(old, k, s)' \subseteq Begun'
        BY <3>3, <4>1 DEF Reaching
      <4> QED
        BY <4>1, <4>2, FS_Subset, FS_CardinalityType
    <3> DEFINE both == (LetBy(k)' \ old) \cup Reaching(old, k, s)'
               met == (LetBy(k)' \ old) \cap Reaching(old, k, s)'
    <3>8. IsFiniteSet(both) /\ Cardinality(both) \in Nat /\ Cardinality(met) \in Nat
      BY <3>7, FS_Union, FS_Subset, FS_CardinalityType
    <3>9. Cardinality(both) =
            Cardinality(LetBy(k)' \ old) + Cardinality(Reaching(old, k, s)') - Cardinality(met)
      BY <3>7, FS_Union
    <3>10. /\ Cardinality(InWindow("handler", k, life, w)') <= Cardinality(both)
           /\ Cardinality(InWindow("handler", k, life, w)') \in Nat
      BY <3>6, <3>8, FS_Subset, FS_CardinalityType
    <3> HIDE DEF both, met
    <3> QED
      BY <3>4, <3>5, <3>7, <3>8, <3>9, <3>10
  <2> QED
    BY <2>4, <2>5
<1> QED
  BY <1>3, <1>4

LEMMA InitWindow ==
    ASSUME ServiceGateAssumption, Init
    PROVE  WindowInv
<1>1. DOMAIN buckets = {} /\ \A r \in Calls : req[r].pc = "idle"
  BY DEF Init, NoBuckets
<1>2. Decided("handler") = {}
  BY <1>1 DEF Decided
<1>3. QuotaInv /\ GateInv
  BY InitQuota DEF QuotaInv
<1>4. ASSUME NEW k \in AccountKeys
      PROVE  /\ Windowed(k)
             /\ \A life, s \in Nat :
                  Cardinality(InWindow("handler", k, life, s)) <= 2 * Points[k[1]]
  <2>1. Reaching(LetBy(k), k, now) = {} /\ \A life, s \in Nat : InWindow("handler", k, life, s) = {}
    BY <1>2 DEF Reaching, LetBy, OnKey, InWindow
  <2>2. Points[k[1]] \in Nat
    BY <1>3, <1>4, KeyNumbers
  <2>3. /\ Cardinality(Reaching(LetBy(k), k, now)) <= Points[k[1]]
        /\ \A life, s \in Nat :
             Cardinality(InWindow("handler", k, life, s)) <= 2 * Points[k[1]]
    BY <2>1, <2>2, FS_EmptySet
  <2> QED
    BY <1>1, <2>3 DEF Windowed
<1> QED
  BY <1>3, <1>4 DEF WindowInv, AnyWindow

(* If blocks outlast windows, as the limiters are set up: in a window that *)
(* lies anyhow at most twice the points of a key reach the handler, for    *)
(* every number of points and every length of window and block.            *)
THEOREM QuotasHold == BlocksOutlastWindows => (Spec => []QuotaHolds)
<1> SUFFICES ASSUME BlocksOutlastWindows PROVE Spec => []QuotaHolds
  OBVIOUS
<1>1. Init => WindowInv
  BY InitWindow, ServiceGateAssumption
<1>2. WindowInv /\ [Next]_vars => WindowInv'
  <2>1. ASSUME WindowInv, [Next]_vars PROVE WindowInv'
    <3>1. QuotaInv'
      BY <2>1, NextQuota, ServiceGateAssumption DEF WindowInv
    <3> QED
      BY <2>1, <3>1, WindowedStep, AnyWindowStep, ServiceGateAssumption DEF WindowInv
  <2> QED
    BY <2>1
<1>3. WindowInv => QuotaHolds
  <2> SUFFICES ASSUME WindowInv, NEW r \in Decided("handler")
               PROVE  Cardinality({q \in Decided("handler") :
                            /\ SameKey(q, r)
                            /\ req[q].time \in req[r].time ..
                                 req[r].time + Duration[type(req[r].route)] - 1})
                        <= 2 * Points[type(req[r].route)]
    BY DEF QuotaHolds
  <2>1. r \in Calls /\ req[r].account \in Accounts /\ req[r].life \in Nat /\ req[r].time \in Nat
    BY DEF Decided, WindowInv, QuotaInv, GateInv, TypeOK, Call
  <2>2. keyFor(r) \in AccountKeys /\ keyFor(r)[1] = type(req[r].route)
    BY <2>1 DEF keyFor, AccountKeys, type, LimitTypes
  <2>3. Cardinality(InWindow("handler", keyFor(r), req[r].life, req[r].time))
          <= 2 * Points[keyFor(r)[1]]
    BY <2>1, <2>2 DEF WindowInv, AnyWindow
  <2>4. InWindow("handler", keyFor(r), req[r].life, req[r].time) =
          {q \in Decided("handler") :
             /\ SameKey(q, r)
             /\ req[q].time \in req[r].time .. req[r].time + Duration[type(req[r].route)] - 1}
    BY <2>2 DEF InWindow, SameKey
  <2> QED
    BY <2>2, <2>3, <2>4
<1> QED
  BY <1>1, <1>2, <1>3, PTL DEF Spec
=============================================================================
