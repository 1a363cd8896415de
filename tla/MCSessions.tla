----------------------------- MODULE MCSessions -----------------------------
(* Sessions on small instances.  Requests and users are interchangeable.   *)
(* A run explores several scenarios, each a set of kinds of call that may  *)
(* meet, with its own bounds on the clock and on faults; a behaviour stays *)
(* within one of them.                                                     *)
EXTENDS Sessions, TLC

Symmetry == Permutations(Requests) \cup Permutations(Users)

Scenario(kinds, time, faults) ==
    /\ now <= time
    /\ \A r \in Requests : req[r].pc # "idle" => req[r].kind \in kinds
    /\ Cardinality({r \in Requests : req[r].failed}) <= faults

Renewing == Scenario({"login", "refresh", "logout", "validateToken"}, 2, 0)
Failing  == Scenario({"login", "refresh", "logout", "validateToken"}, 0, 1)
Changing == Scenario({"login", "refresh", "validateToken", "changePassword",
                      "revokeAllSessions"}, 1, 0)
Resetting == Scenario({"login", "refresh", "validateToken", "forgotPassword",
                       "resetPassword"}, 1, 0)
Banning == Scenario({"login", "refresh", "validateToken", "me", "createSsoTicket",
                     "redeemSsoTicket", "forgotPassword", "ban"}, 0, 0)
Verifying == Scenario({"login", "refresh", "validateToken", "createSsoTicket",
                       "redeemSsoTicket", "changeEmail", "verifyEmail"}, 0, 0)

SessionScenarios ==
    Renewing \/ Failing \/ Changing \/ Resetting \/ Banning \/ Verifying

Mailing == Scenario({"forgotPassword", "resetPassword"}, 2, 1)
Signing ==
    /\ Scenario({"login", "createSsoTicket", "redeemSsoTicket"}, 2, 1)
    /\ \A r \in Requests : req[r].pc # "recordFailedLogin"
    /\ \A u \in Users : users[u].failed_login_attempts = 0
Mistyping == Scenario({"login"}, 2, 1)

CredentialScenarios == Mailing \/ Signing \/ Mistyping
=============================================================================
