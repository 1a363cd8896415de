----------------------------- MODULE SingleUse -----------------------------
(***************************************************************************)
(* What the service promises of an emailed token or an SSO ticket: it can  *)
(* be redeemed until it lapses or is withdrawn, and by one call only.      *)
(***************************************************************************)
CONSTANTS Tokens, Takers

VARIABLES
    offered,     \* tokens issued so far
    open,        \* those that can still be redeemed
    taken        \* who redeemed what: pairs of a token and a taker

vars == <<offered, open, taken>>

Init == offered = {} /\ open = {} /\ taken = {}

Offer(t) ==
    /\ t \notin offered
    /\ offered' = offered \cup {t}
    /\ open' = open \cup {t}
    /\ UNCHANGED taken

Take(t, c) ==
    /\ t \in open
    /\ open' = open \ {t}
    /\ taken' = taken \cup {<<t, c>>}
    /\ UNCHANGED offered

(* Tokens lapse, or are superseded. *)
Withdraw ==
    /\ open' \in SUBSET open
    /\ UNCHANGED <<offered, taken>>

Next ==
    \/ \E t \in Tokens : Offer(t)
    \/ \E t \in Tokens, c \in Takers : Take(t, c)
    \/ Withdraw

Spec == Init /\ [][Next]_vars

-----------------------------------------------------------------------------
(* A token has at most one taker, and nobody takes what was not offered.   *)
TakenOnce ==
    /\ \A p, q \in taken : p[1] = q[1] => p = q
    /\ \A p \in taken : p[1] \in offered \ open
=============================================================================
