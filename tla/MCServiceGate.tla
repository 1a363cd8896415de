--------------------------- MODULE MCServiceGate ---------------------------
(* ServiceGate with small quotas: one login, blocked for longer than the   *)
(* window, and one mail, without a block; and the identifiers of accounts  *)
(* over short texts.                                                       *)
EXTENDS ServiceGate, Identifiers, TLC

OnePoint == [t \in LimitTypes |-> 1]
Windows  == [t \in LimitTypes |-> 2]
Blocks   == [t \in LimitTypes |-> IF t = "login" THEN 3 ELSE 0]

Lowered == [c \in {"A"} |-> "a"]

Written == {<<" ">>, <<" ", "0", "9", "+", "9", "0">>, <<"9", "9", "0">>,
            <<"a", " ">>, <<"@", "A">>}

Symmetry == Permutations(Calls) \cup Permutations(Clients) \cup Permutations(Accounts)

(* A behaviour stays within one of three scenarios. *)
Present == {r \in Calls : req[r].pc # "idle"}
RoutesTaken(routes) == \A r \in Present : req[r].route \in routes
OneAccount == \E a \in Accounts : \A r \in Present : req[r].account = a

(* Secrets change under the calls that present them. *)
Provisioning ==
    /\ now = 0 /\ Cardinality(Present) <= 3
    /\ RoutesTaken({"refresh"}) /\ OneAccount

(* Time passes over the counters of an account; one application calls. *)
Throttling ==
    /\ generated = 0
    /\ \A r \in Calls : req[r].pc \notin {"unauthorized", "unavailable"}
    /\ RoutesTaken({"login"}) \/ RoutesTaken({"forgotPassword"})
    /\ OneAccount

(* Two applications and two accounts share the service. *)
Crowding ==
    /\ now <= 1 /\ process.life = 0
    /\ generated <= 1 /\ active = DOMAIN service_clients
    /\ \A r \in Calls : req[r].pc \notin {"unauthorized", "unavailable"}
    /\ RoutesTaken({"login"}) \/ (RoutesTaken({"refresh"}) /\ OneAccount)

GateScenarios == Provisioning \/ Throttling \/ Crowding

(* What people type, before anything else happens. *)
GateInit == Init /\ TextInit
GateNext ==
    \/ Next /\ text = <<>> /\ UNCHANGED text
    \/ Type /\ Init /\ UNCHANGED vars
    \/ Len(text) = MaxLength /\ UNCHANGED <<vars, text>>

GateSpec == GateInit /\ [][GateNext]_<<vars, text>>
=============================================================================
