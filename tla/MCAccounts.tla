----------------------------- MODULE MCAccounts -----------------------------
(* Accounts on small instances.  Requests, addresses and codes are         *)
(* interchangeable, but for the address of the founder.                    *)
EXTENDS Accounts, TLC

Symmetry == Permutations(Requests) \cup Permutations(Codes) \cup Permutations(Phones)
            \cup Permutations(Emails \ {FounderEmail})

(* A behaviour stays within one of three scenarios: accounts that are made *)
(* and changed, where every call draws the same code, no code lapses and   *)
(* no mail arrives; and one account that changes its address and not its   *)
(* number, among codes or among resets.                                    *)
Sharing ==
    /\ \A r \in Requests : req[r].pc # "idle" => req[r].kind \in {"register", "updateProfile"}
    /\ \E c \in Codes : \A k \in DOMAIN codes : codes[k].code = c /\ ~codes[k].expired
    /\ mails = [k \in {} |-> None]
Verifying ==
    \A r \in Requests : req[r].pc # "idle" =>
        /\ req[r].kind \in {"updateProfile", "resendVerification", "verifyEmail"}
        /\ req[r].phone = None
Resetting ==
    /\ \A r \in Requests : req[r].pc # "idle" =>
        /\ req[r].kind \in {"updateProfile", "forgotPassword", "resetPassword"}
        /\ req[r].phone = None
    /\ \E c \in Codes : \A k \in DOMAIN codes : codes[k].code \in {c, k}

AccountScenarios == Sharing \/ Verifying \/ Resetting
=============================================================================
