--------------------------- MODULE AccountsProof ---------------------------
(***************************************************************************)
(* Accounts keeps its types, and two accounts share a number only by a     *)
(* race.  A mailed code is spent by one call, and by none that began after *)
(* a later mail; a reset is accepted with the address its code was mailed  *)
(* to, and a verified address is one whose mailbox was read, while         *)
(* accounts change theirs: for all calls, accounts, addresses, numbers and *)
(* codes.                                                                  *)
(***************************************************************************)
EXTENDS Accounts, TLAPS

-----------------------------------------------------------------------------
(* What a step does to the calls. *)

PCs == {"idle"} \cup Steps \cup Outcomes
OthersStay(r) == \A q \in Requests : q # r => req'[q] = req[q]

(* Call r, begun before, goes on to next. *)
Moves(r, next) ==
    /\ req' \in [Requests -> Call]
    /\ OthersStay(r)
    /\ req'[r].kind = req[r].kind /\ req'[r].pc = next /\ req'[r].failed = req[r].failed
    /\ req'[r].phone = req[r].phone /\ req'[r].code = req[r].code
    /\ req'[r].changed = req[r].changed /\ req'[r].before = req[r].before

Stands(r) == req'[r].user = req[r].user /\ req'[r].email = req[r].email

(* Call r begins, with the fields of call. *)
Begins(r, call) ==
    /\ req' \in [Requests -> Call]
    /\ OthersStay(r)
    /\ req[r].pc = "idle"
    /\ req'[r].kind = call.kind /\ req'[r].pc = call.pc
    /\ req'[r].failed = call.failed
    /\ req'[r].user = call.user /\ req'[r].email = call.email
    /\ req'[r].phone = call.phone /\ req'[r].code = call.code
    /\ req'[r].changed = call.changed
    /\ req'[r].before = {q \in Requests : Over(q)}

LEMMA BeginMoves ==
    ASSUME req \in [Requests -> Call], NEW r \in Requests, NEW call \in Call,
           Begin(r, call)
    PROVE  Begins(r, call)
<1>1. [call EXCEPT !.before = {q \in Requests : Over(q)}] \in Call
  BY DEF Call
<1>2. /\ req'[r] = [call EXCEPT !.before = {q \in Requests : Over(q)}]
      /\ OthersStay(r) /\ req[r].pc = "idle"
  BY DEF Begin, OthersStay
<1>3. req' \in [Requests -> Call]
  BY <1>1 DEF Begin
<1> QED
  BY <1>1, <1>2, <1>3 DEF Begins, Call

LEMMA GotoMoves ==
    ASSUME req \in [Requests -> Call], NEW r \in Requests, NEW next \in PCs,
           Goto(r, next)
    PROVE  Moves(r, next) /\ Stands(r)
<1>1. [req[r] EXCEPT !.pc = next] \in Call
  BY DEF Call, PCs
<1>2. req'[r] = [req[r] EXCEPT !.pc = next] /\ OthersStay(r)
  BY DEF Goto, OthersStay
<1>3. req' \in [Requests -> Call]
  BY <1>1 DEF Goto
<1> QED
  BY <1>1, <1>2, <1>3 DEF Moves, Stands, Call

(* A call that throws stays where it is. *)
Fails(r) ==
    /\ req' \in [Requests -> Call]
    /\ OthersStay(r)
    /\ req'[r].kind = req[r].kind /\ req'[r].pc = req[r].pc /\ req'[r].failed = TRUE
    /\ req'[r].phone = req[r].phone /\ req'[r].code = req[r].code
    /\ req'[r].changed = req[r].changed /\ req'[r].before = req[r].before
    /\ Stands(r)

LEMMA FailedTyped ==
    ASSUME NEW row \in Call, NEW b \in BOOLEAN
    PROVE  [row EXCEPT !.failed = b] \in Call
  BY DEF Call

LEMMA ThrowMoves ==
    ASSUME req \in [Requests -> Call], NEW r \in Requests, Throw(r)
    PROVE  Fails(r)
<1>1. [req[r] EXCEPT !.failed = TRUE] \in Call
  BY FailedTyped
<1>2. req'[r] = [req[r] EXCEPT !.failed = TRUE] /\ OthersStay(r)
  BY DEF Throw, OthersStay
<1>3. req' \in [Requests -> Call]
  BY <1>1 DEF Throw
<1> QED
  BY <1>1, <1>2, <1>3 DEF Fails, Stands, Call

(* Call r begins, as a call of kind "kind", at its first statement. *)
Fresh(r, kind, first) ==
    /\ req' \in [Requests -> Call]
    /\ OthersStay(r)
    /\ req[r].pc = "idle"
    /\ req'[r].kind = kind /\ req'[r].pc = first /\ req'[r].failed = req[r].failed
    /\ req'[r].before = {q \in Requests : Over(q)}

LEMMA ArrivalTyped ==
    ASSUME req \in [Requests -> Call], NEW r \in Requests,
           NEW kind \in AllKinds, NEW first \in PCs
    PROVE  /\ Arrival(r, kind, first) \in Call
           /\ Arrival(r, kind, first).kind = kind /\ Arrival(r, kind, first).pc = first
           /\ Arrival(r, kind, first).failed = req[r].failed
           /\ Arrival(r, kind, first).user = req[r].user
           /\ Arrival(r, kind, first).changed = req[r].changed
<1>1. req[r] \in Call
  OBVIOUS
<1>2. Arrival(r, kind, first) \in Call
  BY <1>1 DEF Arrival, Call, PCs
<1> QED
  BY <1>1, <1>2 DEF Arrival, Call

LEMMA RegisterFresh ==
    ASSUME req \in [Requests -> Call], NEW r \in Requests, NEW first \in PCs,
           NEW e \in Emails, NEW p \in Phones \cup {None},
           Begin(r, [Arrival(r, "register", first) EXCEPT !.email = e, !.phone = p])
    PROVE  /\ Fresh(r, "register", first)
           /\ req'[r].user = req[r].user /\ req'[r].email = e /\ req'[r].phone = p
<1> DEFINE row == Arrival(r, "register", first)
           call == [row EXCEPT !.email = e, !.phone = p]
<1>1. row \in Call /\ row.kind = "register" /\ row.pc = first
      /\ row.failed = req[r].failed /\ row.user = req[r].user
  BY ArrivalTyped DEF AllKinds
<1> HIDE DEF row
<1>2. call \in Call
  BY <1>1 DEF Call
<1>3. /\ call.kind = "register" /\ call.pc = first /\ call.failed = req[r].failed
      /\ call.user = req[r].user /\ call.email = e /\ call.phone = p
  BY <1>1 DEF Call
<1>4. Begin(r, call)
  BY DEF row
<1> HIDE DEF call
<1>5. Begins(r, call)
  BY <1>2, <1>4, BeginMoves
<1> QED
  BY <1>3, <1>5 DEF Begins, Fresh

LEMMA MailFresh ==
    ASSUME req \in [Requests -> Call], NEW r \in Requests, NEW first \in PCs,
           NEW kind \in {"resendVerification", "forgotPassword"}, NEW e \in Emails,
           Begin(r, [Arrival(r, kind, first) EXCEPT !.email = e])
    PROVE  /\ Fresh(r, kind, first)
           /\ req'[r].user = req[r].user /\ req'[r].email = e
<1> DEFINE row == Arrival(r, kind, first)
           call == [row EXCEPT !.email = e]
<1>1. row \in Call /\ row.kind = kind /\ row.pc = first
      /\ row.failed = req[r].failed /\ row.user = req[r].user
  BY ArrivalTyped DEF AllKinds
<1> HIDE DEF row
<1>2. call \in Call
  BY <1>1 DEF Call
<1>3. /\ call.kind = kind /\ call.pc = first /\ call.failed = req[r].failed
      /\ call.user = req[r].user /\ call.email = e
  BY <1>1 DEF Call
<1>4. Begin(r, call)
  BY DEF row
<1> HIDE DEF call
<1>5. Begins(r, call)
  BY <1>2, <1>4, BeginMoves
<1> QED
  BY <1>3, <1>5 DEF Begins, Fresh

LEMMA MailFreshFor ==
    ASSUME req \in [Requests -> Call], NEW r \in Requests, NEW first \in PCs,
           NEW kind \in {"resendVerification", "forgotPassword"}, NEW e \in Emails,
           NEW a \in Accounts,
           Begin(r, [Arrival(r, kind, first) EXCEPT !.email = e, !.user = a])
    PROVE  /\ Fresh(r, kind, first)
           /\ req'[r].user = a /\ req'[r].email = e
<1> DEFINE row == Arrival(r, kind, first)
           call == [row EXCEPT !.email = e, !.user = a]
<1>1. row \in Call /\ row.kind = kind /\ row.pc = first /\ row.failed = req[r].failed
  BY ArrivalTyped DEF AllKinds
<1> HIDE DEF row
<1>2. call \in Call
  BY <1>1 DEF Call
<1>3. /\ call.kind = kind /\ call.pc = first /\ call.failed = req[r].failed
      /\ call.user = a /\ call.email = e
  BY <1>1 DEF Call
<1>4. Begin(r, call)
  BY DEF row
<1> HIDE DEF call
<1>5. Begins(r, call)
  BY <1>2, <1>4, BeginMoves
<1> QED
  BY <1>3, <1>5 DEF Begins, Fresh

LEMMA PeekFresh ==
    ASSUME req \in [Requests -> Call], NEW r \in Requests, NEW first \in PCs,
           NEW kind \in Redeemers, NEW e \in Emails,
           NEW c \in Codes \cup Requests, NEW a \in Accounts,
           Begin(r, [Arrival(r, kind, first) EXCEPT !.email = e, !.code = c, !.user = a])
    PROVE  /\ Fresh(r, kind, first)
           /\ req'[r].user = a /\ req'[r].email = e /\ req'[r].code = c
<1> DEFINE row == Arrival(r, kind, first)
           call == [row EXCEPT !.email = e, !.code = c, !.user = a]
<1>1. row \in Call /\ row.kind = kind /\ row.pc = first /\ row.failed = req[r].failed
  BY ArrivalTyped DEF AllKinds, Redeemers
<1> HIDE DEF row
<1>2. call \in Call
  BY <1>1 DEF Call
<1>3. /\ call.kind = kind /\ call.pc = first /\ call.failed = req[r].failed
      /\ call.user = a /\ call.email = e /\ call.code = c
  BY <1>1 DEF Call
<1>4. Begin(r, call)
  BY DEF row
<1> HIDE DEF call
<1>5. Begins(r, call)
  BY <1>2, <1>4, BeginMoves
<1> QED
  BY <1>3, <1>5 DEF Begins, Fresh

(* The calls that begin. *)
LEMMA RegisterStep ==
    ASSUME TypeOK, NEW r \in Requests, Register(r)
    PROVE  \E e \in Emails, p \in Phones \cup {None}, first \in PCs :
              /\ Fresh(r, "register", first)
              /\ req'[r].user = req[r].user /\ req'[r].email = e /\ req'[r].phone = p
              /\ \/ first \in {"ok", "findPhone"}
                 \/ first = "create" /\ p = None
<1>1. PICK e \in Emails, p \in Phones \cup {None} :
        Begin(r, [Arrival(r, "register",
                          IF Holders(e) # {} THEN "ok"
                          ELSE IF p # None THEN "findPhone" ELSE "create")
                  EXCEPT !.email = e, !.phone = p])
  BY DEF Register
<1>2. PICK first \in PCs :
        first = IF Holders(e) # {} THEN "ok"
                ELSE IF p # None THEN "findPhone" ELSE "create"
  BY DEF PCs, Steps, Outcomes
<1>3. Begin(r, [Arrival(r, "register", first) EXCEPT !.email = e, !.phone = p])
  BY <1>1, <1>2
<1>4. /\ Fresh(r, "register", first)
      /\ req'[r].user = req[r].user /\ req'[r].email = e /\ req'[r].phone = p
  BY <1>3, RegisterFresh DEF TypeOK
<1> QED
  BY <1>2, <1>4

LEMMA ResendStep ==
    ASSUME TypeOK, NEW r \in Requests, Resend(r)
    PROVE  \E e \in Emails :
              /\ req'[r].email = e
              /\ \/ Fresh(r, "resendVerification", "ok") /\ req'[r].user = req[r].user
                 \/ \E a \in Holders(e) :
                      Fresh(r, "resendVerification", "invalidate") /\ req'[r].user = a
<1>1. PICK e \in Emails :
        \/ Begin(r, [Arrival(r, "resendVerification", "ok") EXCEPT !.email = e])
        \/ \E a \in Holders(e) :
              Begin(r, [Arrival(r, "resendVerification", "invalidate")
                        EXCEPT !.email = e, !.user = a])
  BY DEF Resend
<1>2. "ok" \in PCs /\ "invalidate" \in PCs
  BY DEF PCs, Steps, Outcomes
<1>3. Holders(e) \subseteq Accounts /\ req \in [Requests -> Call]
  BY DEF Holders, TypeOK, IsTable
<1>4. CASE Begin(r, [Arrival(r, "resendVerification", "ok") EXCEPT !.email = e])
  BY <1>2, <1>3, <1>4, MailFresh
<1>5. ASSUME NEW a \in Holders(e),
             Begin(r, [Arrival(r, "resendVerification", "invalidate")
                       EXCEPT !.email = e, !.user = a])
      PROVE  /\ Fresh(r, "resendVerification", "invalidate")
             /\ req'[r].user = a /\ req'[r].email = e
  BY <1>2, <1>3, <1>5, MailFreshFor
<1> QED
  BY <1>1, <1>4, <1>5

LEMMA ForgotStep ==
    ASSUME TypeOK, NEW r \in Requests, Forgot(r)
    PROVE  \E e \in Emails :
              /\ req'[r].email = e
              /\ \/ Fresh(r, "forgotPassword", "ok") /\ req'[r].user = req[r].user
                 \/ \E a \in Holders(e) :
                      Fresh(r, "forgotPassword", "invalidate") /\ req'[r].user = a
<1>1. PICK e \in Emails :
        \/ Begin(r, [Arrival(r, "forgotPassword", "ok") EXCEPT !.email = e])
        \/ \E a \in Holders(e) :
              Begin(r, [Arrival(r, "forgotPassword", "invalidate")
                        EXCEPT !.email = e, !.user = a])
  BY DEF Forgot
<1>2. "ok" \in PCs /\ "invalidate" \in PCs
  BY DEF PCs, Steps, Outcomes
<1>3. Holders(e) \subseteq Accounts /\ req \in [Requests -> Call]
  BY DEF Holders, TypeOK, IsTable
<1>4. CASE Begin(r, [Arrival(r, "forgotPassword", "ok") EXCEPT !.email = e])
  BY <1>2, <1>3, <1>4, MailFresh
<1>5. ASSUME NEW a \in Holders(e),
             Begin(r, [Arrival(r, "forgotPassword", "invalidate")
                       EXCEPT !.email = e, !.user = a])
      PROVE  /\ Fresh(r, "forgotPassword", "invalidate")
             /\ req'[r].user = a /\ req'[r].email = e
  BY <1>2, <1>3, <1>5, MailFreshFor
<1> QED
  BY <1>1, <1>4, <1>5

LEMMA ProfileStep ==
    ASSUME TypeOK, NEW r \in Requests, Profile(r)
    PROVE  \E a \in DOMAIN users, first \in {"findEmail", "findPhone", "update"} :
              /\ Fresh(r, "updateProfile", first)
              /\ req'[r].user = a
              /\ req'[r].changed = (req'[r].email # None /\ req'[r].email # users[a].email)
              /\ first = "findEmail" <=> req'[r].changed
              /\ first = "update" => req'[r].phone \notin Phones
<1>1. PICK a \in DOMAIN users, e \in Emails \cup {None}, p \in Phones \cup {NoPhone, None} :
        Begin(r, [Arrival(r, "updateProfile",
                          IF e # None /\ e # users[a].email THEN "findEmail"
                          ELSE IF p \in Phones THEN "findPhone" ELSE "update")
                  EXCEPT !.user = a, !.email = e, !.phone = p,
                         !.changed = e # None /\ e # users[a].email])
  BY DEF Profile
<1>2. PICK x : x = users[a].email
  OBVIOUS
<1>3. PICK first \in {"findEmail", "findPhone", "update"} :
        first = IF e # None /\ e # x THEN "findEmail"
                ELSE IF p \in Phones THEN "findPhone" ELSE "update"
  OBVIOUS
<1> DEFINE row == Arrival(r, "updateProfile", first)
           call == [row EXCEPT !.user = a, !.email = e, !.phone = p,
                               !.changed = e # None /\ e # x]
<1>4. Begin(r, call)
  BY <1>1, <1>2, <1>3
<1>5. a \in Accounts /\ req \in [Requests -> Call] /\ first \in PCs
  BY DEF TypeOK, IsTable, PCs, Steps
<1>6. row \in Call /\ row.kind = "updateProfile" /\ row.pc = first
      /\ row.failed = req[r].failed
  BY <1>5, ArrivalTyped DEF AllKinds
<1> HIDE DEF row
<1>7. call \in Call
  BY <1>5, <1>6 DEF Call
<1>8. /\ call.kind = "updateProfile" /\ call.pc = first /\ call.failed = req[r].failed
      /\ call.user = a /\ call.email = e /\ call.phone = p
      /\ call.changed = (e # None /\ e # x)
  BY <1>6 DEF Call
<1> HIDE DEF call
<1>9. Begins(r, call)
  BY <1>4, <1>5, <1>7, BeginMoves
<1> QED
  BY <1>2, <1>3, <1>8, <1>9 DEF Begins, Fresh

LEMMA PeekStep ==
    ASSUME TypeOK, NEW r \in Requests, Peek(r)
    PROVE  \E k \in DOMAIN codes \cap DOMAIN mails :
              /\ \/ Fresh(r, "resetPassword", req'[r].pc) /\ purpose(k) = "password_reset"
                 \/ Fresh(r, "verifyEmail", req'[r].pc) /\ purpose(k) # "password_reset"
              /\ req'[r].pc = IF Redeemable(k) THEN "checkEmail" ELSE "refused"
              /\ req'[r].user = codes[k].user_id /\ req'[r].code = codes[k].code
<1>1. PICK e \in Emails, k \in DOMAIN codes \cap DOMAIN mails :
        Begin(r, [Arrival(r, IF purpose(k) = "password_reset"
                             THEN "resetPassword" ELSE "verifyEmail",
                          IF Redeemable(k) THEN "checkEmail" ELSE "refused")
                  EXCEPT !.email = e, !.code = codes[k].code, !.user = codes[k].user_id])
  BY DEF Peek
<1>2. PICK kind \in Redeemers :
        kind = IF purpose(k) = "password_reset" THEN "resetPassword" ELSE "verifyEmail"
  BY DEF Redeemers
<1>3. PICK first \in PCs : first = IF Redeemable(k) THEN "checkEmail" ELSE "refused"
  BY DEF PCs, Steps, Outcomes
<1>4. codes[k] \in CodeRow /\ req \in [Requests -> Call]
  BY DEF TypeOK, IsTable
<1>5. PICK c \in Codes \cup Requests, a \in Accounts :
        c = codes[k].code /\ a = codes[k].user_id
  BY <1>4 DEF CodeRow
<1>6. Begin(r, [Arrival(r, kind, first) EXCEPT !.email = e, !.code = c, !.user = a])
  BY <1>1, <1>2, <1>3, <1>5
<1>7. /\ Fresh(r, kind, first)
      /\ req'[r].user = a /\ req'[r].email = e /\ req'[r].code = c
  BY <1>4, <1>6, PeekFresh
<1>8. req'[r].pc = first
  BY <1>7 DEF Fresh
<1> QED
  BY <1>2, <1>3, <1>5, <1>7, <1>8

(* The two steps that change more of a call than where it is. *)
LEMMA CreateMoves ==
    ASSUME TypeOK, NEW r \in Requests, RegisterCreate(r)
    PROVE  /\ Moves(r, "invalidate")
           /\ req'[r].user = r /\ req'[r].email = req[r].email
<1>0. req[r] \in Call /\ "invalidate" \in PCs /\ r \in Accounts
  BY DEF TypeOK, PCs, Steps, Accounts
<1>1. [req[r] EXCEPT !.pc = "invalidate", !.user = r] \in Call
  BY <1>0 DEF Call, PCs
<1>2. /\ req' = [req EXCEPT ![r] = [req[r] EXCEPT !.pc = "invalidate", !.user = r]]
      /\ req \in [Requests -> Call]
  BY DEF RegisterCreate, TypeOK
<1>3. req'[r] = [req[r] EXCEPT !.pc = "invalidate", !.user = r] /\ OthersStay(r)
  BY <1>2 DEF OthersStay
<1>4. req' \in [Requests -> Call] /\ req[r] \in Call
  BY <1>1, <1>2
<1> QED
  BY <1>3, <1>4 DEF Moves, Call

LEMMA RereadMoves ==
    ASSUME TypeOK, NEW r \in Requests, req[r].user \in DOMAIN users, ProfileReread(r)
    PROVE  /\ Moves(r, "invalidate")
           /\ req'[r].user = req[r].user /\ req'[r].email = users[req[r].user].email
<1> DEFINE e == users[req[r].user].email
<1>0. e \in Emails /\ req[r] \in Call /\ "invalidate" \in PCs
  BY DEF TypeOK, IsTable, UserRow, PCs, Steps
<1> HIDE DEF e
<1>1. [req[r] EXCEPT !.pc = "invalidate", !.email = e] \in Call
  BY <1>0 DEF Call, PCs
<1>2. /\ req' = [req EXCEPT ![r] = [req[r] EXCEPT !.pc = "invalidate", !.email = e]]
      /\ req \in [Requests -> Call]
  BY DEF ProfileReread, TypeOK, e
<1>3. req'[r] = [req[r] EXCEPT !.pc = "invalidate", !.email = e] /\ OthersStay(r)
  BY <1>2 DEF OthersStay
<1>4. req' \in [Requests -> Call] /\ req[r] \in Call
  BY <1>1, <1>2
<1> QED
  BY <1>3, <1>4 DEF Moves, Call, e

-----------------------------------------------------------------------------
(* Types, and whose rows are whose. *)

Mailing == {"invalidate", "insertCode", "send"}

UsersKnown == \A r \in Requests : req[r].user \in DOMAIN users

Addressed ==
    \A r \in Requests :
        \/ req[r].kind = "register" /\ req[r].pc # "idle"
        \/ req[r].pc \in Mailing
        => req[r].email \in Emails

Registered ==
    \A r \in Requests : r \in DOMAIN users =>
        req[r].kind = "register" /\ req[r].pc \in Mailing \cup {"ok"} /\ req[r].user = r

RowsBelong ==
    /\ \A k \in DOMAIN codes :
         /\ req[k].kind \in Mailers /\ req[k].pc \in {"send", "ok"} /\ ~req[k].failed
         /\ codes[k].user_id = req[k].user
    /\ \A r \in Requests :
         req[r].kind \in Mailers /\ req[r].pc = "send" => r \in DOMAIN codes
    /\ \A k \in DOMAIN mails :
         k \in DOMAIN codes /\ req[k].pc = "ok" /\ mails[k] = req[k].email

TypeInv == TypeOK /\ UsersKnown /\ Addressed /\ Registered /\ RowsBelong

LEMMA TypeInit == Init => TypeInv
<1> SUFFICES ASSUME Init PROVE TypeInv
  OBVIOUS
<1>1. PICK c \in Codes :
        req = [r \in Requests |->
            [kind |-> "register", pc |-> "idle", failed |-> FALSE, user |-> Founder,
             email |-> None, phone |-> None, code |-> c, changed |-> FALSE,
             before |-> {}]]
  BY DEF Init
<1>2. req \in [Requests -> Call]
  BY <1>1 DEF Call, AllKinds, Accounts
<1>3. IsTable(users, Accounts, UserRow)
  BY AccountsAssumption DEF Init, IsTable, Accounts, UserRow
<1>4. IsTable(codes, Requests, CodeRow) /\ IsTable(mails, Requests, Emails)
  BY DEF Init, IsTable
<1>5. TypeOK
  BY <1>2, <1>3, <1>4 DEF TypeOK, Init
<1>6. DOMAIN users = {Founder} /\ DOMAIN codes = {} /\ DOMAIN mails = {}
  BY DEF Init
<1>7. \A r \in Requests :
        req[r].pc = "idle" /\ req[r].user = Founder /\ req[r].kind = "register"
  BY <1>1
<1> QED
  BY <1>5, <1>6, <1>7, AccountsAssumption
     DEF TypeInv, UsersKnown, Addressed, Registered, RowsBelong, Mailing

(* A step that changes no table. *)
LEMMA CallKeepsType ==
    ASSUME TypeInv, NEW r \in Requests,
           req' \in [Requests -> Call], OthersStay(r),
           UNCHANGED <<users, codes, mails, proven>>,
           req'[r].user \in DOMAIN users,
           req'[r].kind = "register" \/ req'[r].pc \in Mailing
             => req'[r].email \in Emails,
           \/ req[r].pc \notin Mailing \cup {"ok"}
           \/ /\ req'[r].kind = req[r].kind /\ req'[r].user = req[r].user
              /\ req'[r].pc \in Mailing \cup {"ok"},
           \/ req[r].pc \notin {"send", "ok"}
           \/ /\ req'[r].kind = req[r].kind /\ req'[r].user = req[r].user
              /\ req'[r].pc = "ok" /\ req'[r].failed = req[r].failed
              /\ req'[r].email = req[r].email,
           req'[r].pc = "send" => r \in DOMAIN codes
    PROVE  TypeInv'
<1>0. TypeOK
  BY DEF TypeInv
<1>1. TypeOK'
  BY <1>0 DEF TypeOK
<1>2. UsersKnown'
  BY DEF TypeInv, UsersKnown, OthersStay
<1>3. Addressed'
  BY DEF TypeInv, Addressed, OthersStay
<1>4. Registered'
  BY DEF TypeInv, Registered, OthersStay, Mailing
<1>5. RowsBelong'
  BY <1>0 DEF TypeInv, TypeOK, IsTable, RowsBelong, OthersStay
<1> QED
  BY <1>1, <1>2, <1>3, <1>4, <1>5 DEF TypeInv

(* The steps of Next that change no table. *)
Quietly(r) ==
    \/ Register(r) \/ RegisterPhone(r) \/ RegisterDuplicate(r) \/ Resend(r) \/ Forgot(r)
    \/ InsertCollides(r) \/ SendFails(r) \/ Profile(r) \/ ProfileEmail(r)
    \/ ProfilePhone(r) \/ ProfileDuplicate(r) \/ ProfileReread(r) \/ Peek(r)
    \/ CheckEmail(r) \/ TooLate(r)

LEMMA QuietlyKeepsType ==
    ASSUME TypeInv, NEW r \in Requests, Quietly(r)
    PROVE  TypeInv'
<1>0. /\ TypeOK /\ req \in [Requests -> Call]
      /\ req[r].user \in DOMAIN users
      /\ {"ok", "refused", "create", "findPhone", "update", "consume"} \subseteq PCs
  BY DEF TypeInv, TypeOK, UsersKnown, PCs, Steps, Outcomes
<1>1. CASE Register(r)
  <2>1. UNCHANGED <<users, codes, mails, proven>>
    BY <1>1 DEF Register
  <2> QED
    BY <1>0, <1>1, <2>1, RegisterStep, CallKeepsType DEF Fresh, Mailing
<1>2. CASE Resend(r) \/ Forgot(r)
  <2>1. UNCHANGED <<users, codes, mails, proven>>
    BY <1>2 DEF Resend, Forgot
  <2> QED
    BY <1>0, <1>2, <2>1, ResendStep, ForgotStep, CallKeepsType DEF Fresh, Holders, Mailing
<1>3. CASE Profile(r)
  <2>1. UNCHANGED <<users, codes, mails, proven>>
    BY <1>3 DEF Profile
  <2> QED
    BY <1>0, <1>3, <2>1, ProfileStep, CallKeepsType DEF Fresh, Mailing
<1>4. CASE Peek(r)
  <2>1. UNCHANGED <<users, codes, mails, proven>>
    BY <1>4 DEF Peek
  <2>2. \A k \in DOMAIN codes : codes[k].user_id \in DOMAIN users
    BY DEF TypeInv, TypeOK, IsTable, UsersKnown, RowsBelong
  <2> QED
    BY <1>0, <1>4, <2>1, <2>2, PeekStep, CallKeepsType DEF Fresh, Mailing
<1>5. CASE RegisterDuplicate(r) \/ InsertCollides(r) \/ ProfileDuplicate(r)
  <2>1. /\ UNCHANGED <<users, codes, mails, proven>> /\ Throw(r)
        /\ req[r].pc \in {"create", "insertCode", "update"}
        /\ req[r].kind = "register" \/ req[r].pc \in Mailing => req[r].email \in Emails
    BY <1>5 DEF RegisterDuplicate, InsertCollides, ProfileDuplicate, At,
                TypeInv, Addressed
  <2>2. Fails(r)
    BY <1>0, <2>1, ThrowMoves
  <2> QED
    BY <1>0, <2>1, <2>2, CallKeepsType DEF Fails, Stands, Mailing
<1>6. CASE \/ RegisterPhone(r) \/ ProfileEmail(r) \/ ProfilePhone(r)
           \/ CheckEmail(r) \/ TooLate(r)
  <2>1. PICK next \in {"ok", "refused", "create", "findPhone", "update", "consume"} : Goto(r, next)
    BY <1>6 DEF RegisterPhone, ProfileEmail, ProfilePhone, CheckEmail, TooLate
  <2>2. /\ UNCHANGED <<users, codes, mails, proven>>
        /\ req[r].pc \in {"findPhone", "findEmail", "checkEmail", "consume"}
        /\ req[r].kind = "register" => req[r].email \in Emails
    BY <1>6 DEF RegisterPhone, ProfileEmail, ProfilePhone, CheckEmail, TooLate, At,
                TypeInv, Addressed
  <2>3. Moves(r, next) /\ Stands(r)
    BY <1>0, <2>1, GotoMoves
  <2> QED
    BY <1>0, <2>2, <2>3, CallKeepsType DEF Moves, Stands, Mailing
<1>7. CASE SendFails(r)
  <2>1. /\ UNCHANGED <<users, codes, mails, proven>> /\ Goto(r, "ok")
        /\ req[r].pc = "send" /\ req[r].email \in Emails
    BY <1>7 DEF SendFails, At, TypeInv, Addressed, Mailing
  <2>2. Moves(r, "ok") /\ Stands(r)
    BY <1>0, <2>1, GotoMoves
  <2> QED
    BY <1>0, <2>1, <2>2, CallKeepsType DEF Moves, Stands, Mailing
<1>8. CASE ProfileReread(r)
  <2>1. /\ UNCHANGED <<users, codes, mails, proven>>
        /\ req[r].pc = "reread"
        /\ users[req[r].user].email \in Emails
    BY <1>0, <1>8 DEF ProfileReread, At, TypeOK, IsTable, UserRow
  <2>2. /\ Moves(r, "invalidate")
        /\ req'[r].user = req[r].user /\ req'[r].email = users[req[r].user].email
    BY <1>0, <1>8, RereadMoves
  <2> QED
    BY <1>0, <2>1, <2>2, CallKeepsType DEF Moves, Mailing
<1> QED
  BY <1>1, <1>2, <1>3, <1>4, <1>5, <1>6, <1>7, <1>8 DEF Quietly

(* The steps that change a row, or insert one: what they do to the table.  *)
LEMMA CreateUsers ==
    ASSUME TypeInv, NEW r \in Requests, RegisterCreate(r)
    PROVE  /\ IsTable(users', Accounts, UserRow)
           /\ DOMAIN users' = DOMAIN users \cup {r} /\ r \notin DOMAIN users
           /\ users'[r].email = req[r].email /\ users'[r].verified = FALSE
           /\ users'[r].phone = IF req[r].phone = None THEN NoPhone ELSE req[r].phone
           /\ \A a \in DOMAIN users : users'[a] = users[a]
<1>1. /\ IsTable(users, Accounts, UserRow) /\ req[r] \in Call /\ r \in Accounts
      /\ req[r].email \in Emails /\ r \notin DOMAIN users
  BY DEF TypeInv, TypeOK, Accounts, Addressed, Registered, RegisterCreate, At, Mailing
<1> DEFINE row == [email |-> req[r].email, verified |-> FALSE,
                   phone |-> IF req[r].phone = None THEN NoPhone ELSE req[r].phone]
<1>2. row \in UserRow
  BY <1>1 DEF UserRow, Call
<1>3. users' = Insert(users, r, row)
  BY DEF RegisterCreate
<1>4. /\ row.email = req[r].email /\ row.verified = FALSE
      /\ row.phone = IF req[r].phone = None THEN NoPhone ELSE req[r].phone
  OBVIOUS
<1> HIDE DEF row
<1>5. /\ IsTable(users', Accounts, UserRow)
      /\ DOMAIN users' = DOMAIN users \cup {r} /\ users'[r] = row
      /\ \A a \in DOMAIN users : a # r => users'[a] = users[a]
  BY <1>1, <1>2, <1>3 DEF IsTable, Insert
<1> QED
  BY <1>1, <1>4, <1>5

LEMMA ProfileUsers ==
    ASSUME TypeInv, NEW r \in Requests, ProfileUpdate(r)
    PROVE  /\ IsTable(users', Accounts, UserRow)
           /\ DOMAIN users' = DOMAIN users
           /\ LET a == req[r].user
              IN  /\ a \in DOMAIN users
                  /\ users'[a].email =
                        IF req[r].email = None THEN users[a].email ELSE req[r].email
                  /\ users'[a].phone =
                        IF req[r].phone = None THEN users[a].phone ELSE req[r].phone
                  /\ users'[a].verified <=> users[a].verified /\ ~req[r].changed
                  /\ \A b \in DOMAIN users : b # a => users'[b] = users[b]
<1> DEFINE a == req[r].user
           row == Updated(a, req[r].email, req[r].phone, req[r].changed)
<1>1. /\ users \in [DOMAIN users -> UserRow] /\ DOMAIN users \subseteq Accounts
      /\ req[r] \in Call /\ a \in DOMAIN users /\ users[a] \in UserRow
  BY DEF TypeInv, TypeOK, IsTable, UsersKnown
<1>2. row \in UserRow
  BY <1>1 DEF UserRow, Call, Updated
<1>3. users' = [users EXCEPT ![a] = row]
  BY DEF ProfileUpdate
<1>4. /\ row.email = IF req[r].email = None THEN users[a].email ELSE req[r].email
      /\ row.phone = IF req[r].phone = None THEN users[a].phone ELSE req[r].phone
      /\ row.verified <=> users[a].verified /\ ~req[r].changed
  BY DEF Updated
<1> HIDE DEF row, a
<1>5. /\ users' \in [DOMAIN users -> UserRow] /\ DOMAIN users' = DOMAIN users
      /\ users'[a] = row
      /\ \A b \in DOMAIN users : b # a => users'[b] = users[b]
  BY <1>1, <1>2, <1>3
<1> QED
  BY <1>1, <1>4, <1>5 DEF a, IsTable

LEMMA VerifiedTyped ==
    ASSUME NEW row \in UserRow, NEW b \in BOOLEAN
    PROVE  [row EXCEPT !.verified = b] \in UserRow
  BY DEF UserRow

LEMMA VerifyUsers ==
    ASSUME TypeInv, NEW r \in Requests, Verify(r)
    PROVE  /\ IsTable(users', Accounts, UserRow)
           /\ DOMAIN users' = DOMAIN users
           /\ req[r].user \in DOMAIN users
           /\ \A a \in DOMAIN users :
                /\ users'[a].email = users[a].email /\ users'[a].phone = users[a].phone
                /\ a # req[r].user => users'[a] = users[a]
<1> DEFINE a == req[r].user
           row == [users[a] EXCEPT !.verified = TRUE]
<1>1. /\ users \in [DOMAIN users -> UserRow] /\ DOMAIN users \subseteq Accounts
      /\ a \in DOMAIN users /\ users[a] \in UserRow
  BY DEF TypeInv, TypeOK, IsTable, UsersKnown
<1>2. row \in UserRow
  BY <1>1, VerifiedTyped
<1>3. row.email = users[a].email /\ row.phone = users[a].phone
  BY <1>1 DEF UserRow
<1>4. users' = [users EXCEPT ![a] = row]
  BY DEF Verify
<1> HIDE DEF row, a
<1>5. /\ users' \in [DOMAIN users -> UserRow] /\ DOMAIN users' = DOMAIN users
      /\ users'[a] = row
      /\ \A b \in DOMAIN users : b # a => users'[b] = users[b]
  BY <1>1, <1>2, <1>4
<1> QED
  BY <1>1, <1>3, <1>5 DEF a, IsTable

(* The rows of codes: which are inserted, and which are marked. *)
LEMMA InvalidateCodes ==
    ASSUME TypeInv, NEW r \in Requests, Invalidate(r)
    PROVE  /\ IsTable(codes', Requests, CodeRow)
           /\ DOMAIN codes' = DOMAIN codes
           /\ \A k \in DOMAIN codes :
                /\ codes'[k].user_id = codes[k].user_id /\ codes'[k].code = codes[k].code
                /\ codes'[k].used <=> \/ codes[k].used
                                     \/ /\ purpose(k) = purpose(r)
                                        /\ codes[k].user_id = req[r].user
<1> DEFINE hit(k) == codes[k].used \/ /\ purpose(k) = purpose(r)
                                      /\ codes[k].user_id = req[r].user
<1>1. codes \in [DOMAIN codes -> CodeRow] /\ DOMAIN codes \subseteq Requests
  BY DEF TypeInv, TypeOK, IsTable
<1>2. codes' = [k \in DOMAIN codes |-> [codes[k] EXCEPT !.used = hit(k)]]
  BY DEF Invalidate
<1>3. \A k \in DOMAIN codes : hit(k) \in BOOLEAN
  BY <1>1 DEF CodeRow
<1> HIDE DEF hit
<1>4. \A k \in DOMAIN codes :
        /\ [codes[k] EXCEPT !.used = hit(k)] \in CodeRow
        /\ codes'[k].user_id = codes[k].user_id /\ codes'[k].code = codes[k].code
        /\ codes'[k].used = hit(k)
  BY <1>1, <1>2, <1>3 DEF CodeRow
<1>5. DOMAIN codes' = DOMAIN codes /\ codes' \in [DOMAIN codes -> CodeRow]
  BY <1>2, <1>4
<1> QED
  BY <1>1, <1>4, <1>5 DEF IsTable, hit

LEMMA InsertCodes ==
    ASSUME TypeInv, NEW r \in Requests, InsertCode(r)
    PROVE  /\ IsTable(codes', Requests, CodeRow)
           /\ DOMAIN codes' = DOMAIN codes \cup {r} /\ r \notin DOMAIN codes
           /\ codes'[r].user_id = req[r].user
           /\ \A k \in DOMAIN codes : codes'[k] = codes[k] /\ codes'[r].code # codes[k].code
           /\ ~codes'[r].used
<1>1. PICK c \in IF purpose(r) = "password_reset" THEN {r} ELSE Codes :
        /\ ~Collides(c)
        /\ codes' = Insert(codes, r, [user_id |-> req[r].user, code |-> c,
                                      used |-> FALSE, expired |-> FALSE])
  BY DEF InsertCode
<1> DEFINE row == [user_id |-> req[r].user, code |-> c, used |-> FALSE, expired |-> FALSE]
<1>2. /\ IsTable(codes, Requests, CodeRow) /\ req[r] \in Call
      /\ r \notin DOMAIN codes /\ c \in Codes \cup Requests
  BY <1>1 DEF TypeInv, TypeOK, RowsBelong, InsertCode, At
<1>3. row \in CodeRow
  BY <1>2 DEF CodeRow, Call
<1>4. row.user_id = req[r].user /\ row.code = c /\ row.used = FALSE
  OBVIOUS
<1>5. codes' = Insert(codes, r, row)
  BY <1>1
<1> HIDE DEF row
<1>6. /\ IsTable(codes', Requests, CodeRow)
      /\ DOMAIN codes' = DOMAIN codes \cup {r} /\ codes'[r] = row
      /\ \A k \in DOMAIN codes : k # r => codes'[k] = codes[k]
  BY <1>2, <1>3, <1>5 DEF IsTable, Insert
<1> QED
  BY <1>1, <1>2, <1>4, <1>6 DEF Collides

LEMMA UsedTyped ==
    ASSUME NEW row \in CodeRow, NEW b \in BOOLEAN
    PROVE  [row EXCEPT !.used = b] \in CodeRow
  BY DEF CodeRow

LEMMA ExpiredTyped ==
    ASSUME NEW row \in CodeRow, NEW b \in BOOLEAN
    PROVE  [row EXCEPT !.expired = b] \in CodeRow
  BY DEF CodeRow

(* The row that call r consumes. *)
LEMMA ConsumeCodes ==
    ASSUME TypeInv, NEW r \in Requests, Consume(r)
    PROVE  \E k \in DOMAIN codes :
             /\ codes[k].code = req[r].code /\ ~codes[k].used
             /\ IsTable(codes', Requests, CodeRow)
             /\ DOMAIN codes' = DOMAIN codes
             /\ codes'[k].user_id = codes[k].user_id /\ codes'[k].code = codes[k].code
             /\ codes'[k].used = TRUE
             /\ \A j \in DOMAIN codes : j # k => codes'[j] = codes[j]
             /\ proven' = Shown({k})
<1>1. PICK k \in Matching(req[r].code) :
        codes' = [codes EXCEPT ![k].used = TRUE] /\ proven' = Shown({k})
  BY DEF Consume
<1>2. /\ codes \in [DOMAIN codes -> CodeRow] /\ DOMAIN codes \subseteq Requests
      /\ k \in DOMAIN codes /\ codes[k].code = req[r].code /\ ~codes[k].used
  BY <1>1 DEF TypeInv, TypeOK, IsTable, Matching, Redeemable
<1> DEFINE row == [codes[k] EXCEPT !.used = TRUE]
<1>3. /\ row.user_id = codes[k].user_id /\ row.code = codes[k].code /\ row.used = TRUE
  BY <1>2 DEF CodeRow
<1>4. row \in CodeRow
  BY <1>2, UsedTyped
<1>5. codes' = [codes EXCEPT ![k] = row]
  BY <1>1
<1> HIDE DEF row
<1>6. /\ codes' \in [DOMAIN codes -> CodeRow] /\ DOMAIN codes' = DOMAIN codes
      /\ codes'[k] = row /\ \A j \in DOMAIN codes : j # k => codes'[j] = codes[j]
  BY <1>2, <1>4, <1>5
<1> QED
  BY <1>1, <1>2, <1>3, <1>6 DEF IsTable

LEMMA LapseCodes ==
    ASSUME TypeInv, NEW k, Lapse(k)
    PROVE  /\ IsTable(codes', Requests, CodeRow)
           /\ DOMAIN codes' = DOMAIN codes
           /\ \A j \in DOMAIN codes :
                /\ codes'[j].user_id = codes[j].user_id /\ codes'[j].code = codes[j].code
                /\ codes'[j].used = codes[j].used
<1>1. /\ codes \in [DOMAIN codes -> CodeRow] /\ DOMAIN codes \subseteq Requests
      /\ k \in DOMAIN codes /\ codes' = [codes EXCEPT ![k].expired = TRUE]
  BY DEF TypeInv, TypeOK, IsTable, Lapse
<1> DEFINE row == [codes[k] EXCEPT !.expired = TRUE]
<1>2. /\ row.user_id = codes[k].user_id /\ row.code = codes[k].code
      /\ row.used = codes[k].used
  BY <1>1 DEF CodeRow
<1>3. row \in CodeRow
  BY <1>1, ExpiredTyped
<1>4. codes' = [codes EXCEPT ![k] = row]
  BY <1>1
<1> HIDE DEF row
<1>5. /\ codes' \in [DOMAIN codes -> CodeRow] /\ DOMAIN codes' = DOMAIN codes
      /\ codes'[k] = row /\ \A j \in DOMAIN codes : j # k => codes'[j] = codes[j]
  BY <1>1, <1>3, <1>4
<1> QED
  BY <1>1, <1>2, <1>5 DEF IsTable

(* The moves that go with those changes. *)
LEMMA TableMoves ==
    ASSUME TypeInv, NEW r \in Requests
    PROVE  /\ ProfileUpdate(r) \/ Verify(r) \/ Consume(r) =>
                \E next \in {"reread", "ok", "verify"} :
                   /\ Moves(r, next) /\ Stands(r)
                   /\ next = "verify" => Consume(r) /\ req[r].kind = "verifyEmail"
                   /\ next = "reread" => ProfileUpdate(r) /\ req[r].changed
                   /\ next = "ok" /\ ProfileUpdate(r) => ~req[r].changed
                   /\ next = "ok" /\ Consume(r) => req[r].kind # "verifyEmail"
           /\ Invalidate(r) => Moves(r, "insertCode") /\ Stands(r)
           /\ InsertCode(r) => Moves(r, "send") /\ Stands(r)
           /\ Send(r) => Moves(r, "ok") /\ Stands(r)
<1>1. /\ req \in [Requests -> Call] /\ {"reread", "ok", "verify", "insertCode", "send"} \subseteq PCs
  BY DEF TypeInv, TypeOK, PCs, Steps, Outcomes
<1>2. ASSUME ProfileUpdate(r)
      PROVE  Goto(r, IF req[r].changed THEN "reread" ELSE "ok") /\ req[r].kind = "updateProfile"
                /\ req[r].pc = "update"
  BY <1>2 DEF ProfileUpdate, At
<1>3. ASSUME Verify(r)
      PROVE  Goto(r, "ok") /\ req[r].pc = "verify"
  BY <1>3 DEF Verify, At
<1>4. ASSUME Consume(r)
      PROVE  Goto(r, IF req[r].kind = "verifyEmail" THEN "verify" ELSE "ok")
                /\ req[r].pc = "consume"
  BY <1>4 DEF Consume, Consumed, At
<1>5. ASSUME Invalidate(r) PROVE Goto(r, "insertCode")
  BY <1>5 DEF Invalidate
<1>6. ASSUME InsertCode(r) PROVE Goto(r, "send")
  BY <1>6 DEF InsertCode
<1>7. ASSUME Send(r) PROVE Goto(r, "ok")
  BY <1>7 DEF Send
<1> QED
  BY <1>1, <1>2, <1>3, <1>4, <1>5, <1>6, <1>7, GotoMoves

LEMMA TypeNext == TypeInv /\ [Next]_vars => TypeInv'
<1> SUFFICES ASSUME TypeInv, [Next]_vars PROVE TypeInv'
  OBVIOUS
<1>0. /\ TypeOK /\ req \in [Requests -> Call]
      /\ IsTable(users, Accounts, UserRow) /\ IsTable(codes, Requests, CodeRow)
      /\ IsTable(mails, Requests, Emails) /\ proven \subseteq Accounts \X Emails
      /\ DOMAIN codes \subseteq Requests /\ DOMAIN mails \subseteq Requests
  BY DEF TypeInv, TypeOK, IsTable
<1>1. ASSUME NEW r \in Requests, RegisterCreate(r)
      PROVE  TypeInv'
  <2>1. Moves(r, "invalidate") /\ req'[r].user = r /\ req'[r].email = req[r].email
    BY <1>0, <1>1, CreateMoves
  <2>2. /\ IsTable(users', Accounts, UserRow) /\ DOMAIN users' = DOMAIN users \cup {r}
    BY <1>1, CreateUsers
  <2>3. /\ UNCHANGED <<codes, mails, proven>> /\ req[r].pc = "create"
        /\ req[r].kind = "register" /\ req[r].email \in Emails
    BY <1>1 DEF RegisterCreate, At, TypeInv, Addressed
  <2>4. TypeOK'
    BY <1>0, <2>1, <2>2, <2>3 DEF TypeOK, Moves
  <2>5. UsersKnown'
    BY <2>1, <2>2 DEF TypeInv, UsersKnown, Moves, OthersStay
  <2>6. Addressed'
    BY <2>1, <2>3 DEF TypeInv, Addressed, Moves, OthersStay
  <2>7. Registered'
    BY <2>1, <2>2, <2>3 DEF TypeInv, Registered, Moves, OthersStay, Mailing
  <2>8. RowsBelong'
    BY <1>0, <2>1, <2>3 DEF TypeInv, RowsBelong, Moves, OthersStay
  <2> QED
    BY <2>4, <2>5, <2>6, <2>7, <2>8 DEF TypeInv
<1>2. ASSUME NEW r \in Requests, ProfileUpdate(r) \/ Verify(r)
      PROVE  TypeInv'
  <2>1. PICK next \in {"reread", "ok"} : Moves(r, next) /\ Stands(r)
    BY <1>2, TableMoves DEF ProfileUpdate, Verify, Consume, At
  <2>2. /\ IsTable(users', Accounts, UserRow) /\ DOMAIN users' = DOMAIN users
    BY <1>2, ProfileUsers, VerifyUsers
  <2>3. /\ UNCHANGED <<codes, mails, proven>> /\ req[r].pc \in {"update", "verify"}
    BY <1>2 DEF ProfileUpdate, Verify, At
  <2>4. TypeOK'
    BY <1>0, <2>1, <2>2, <2>3 DEF TypeOK, Moves
  <2>5. UsersKnown'
    BY <2>1, <2>2 DEF TypeInv, UsersKnown, Moves, Stands, OthersStay
  <2>6. Addressed'
    BY <2>1, <2>3 DEF TypeInv, Addressed, Moves, Stands, OthersStay, Mailing
  <2>7. Registered'
    BY <2>1, <2>2, <2>3 DEF TypeInv, Registered, Moves, Stands, OthersStay, Mailing
  <2>8. RowsBelong'
    BY <1>0, <2>1, <2>3 DEF TypeInv, RowsBelong, Moves, Stands, OthersStay
  <2> QED
    BY <2>4, <2>5, <2>6, <2>7, <2>8 DEF TypeInv
<1>3. ASSUME NEW r \in Requests, Invalidate(r)
      PROVE  TypeInv'
  <2>1. Moves(r, "insertCode") /\ Stands(r)
    BY <1>3, TableMoves
  <2>2. /\ IsTable(codes', Requests, CodeRow) /\ DOMAIN codes' = DOMAIN codes
        /\ \A k \in DOMAIN codes : codes'[k].user_id = codes[k].user_id
    BY <1>3, InvalidateCodes
  <2>3. /\ UNCHANGED <<users, mails, proven>> /\ req[r].pc = "invalidate"
    BY <1>3 DEF Invalidate, At
  <2>4. TypeOK'
    BY <1>0, <2>1, <2>2, <2>3 DEF TypeOK, Moves
  <2>5. UsersKnown'
    BY <2>1, <2>3 DEF TypeInv, UsersKnown, Moves, Stands, OthersStay
  <2>6. Addressed'
    BY <2>1, <2>3 DEF TypeInv, Addressed, Moves, Stands, OthersStay, Mailing
  <2>7. Registered'
    BY <2>1, <2>3 DEF TypeInv, Registered, Moves, Stands, OthersStay, Mailing
  <2>8. RowsBelong'
    BY <1>0, <2>1, <2>2, <2>3 DEF TypeInv, RowsBelong, Moves, Stands, OthersStay
  <2> QED
    BY <2>4, <2>5, <2>6, <2>7, <2>8 DEF TypeInv
<1>4. ASSUME NEW r \in Requests, InsertCode(r)
      PROVE  TypeInv'
  <2>1. Moves(r, "send") /\ Stands(r)
    BY <1>4, TableMoves
  <2>2. /\ IsTable(codes', Requests, CodeRow) /\ DOMAIN codes' = DOMAIN codes \cup {r}
        /\ codes'[r].user_id = req[r].user
        /\ \A k \in DOMAIN codes : codes'[k].user_id = codes[k].user_id
    BY <1>4, InsertCodes
  <2>3. /\ UNCHANGED <<users, mails, proven>> /\ req[r].pc = "insertCode"
        /\ req[r].kind \in Mailers /\ ~req[r].failed
    BY <1>4 DEF InsertCode, At
  <2>4. TypeOK'
    BY <1>0, <2>1, <2>2, <2>3 DEF TypeOK, Moves
  <2>5. UsersKnown'
    BY <2>1, <2>3 DEF TypeInv, UsersKnown, Moves, Stands, OthersStay
  <2>6. Addressed'
    BY <2>1, <2>3 DEF TypeInv, Addressed, Moves, Stands, OthersStay, Mailing
  <2>7. Registered'
    BY <2>1, <2>3 DEF TypeInv, Registered, Moves, Stands, OthersStay, Mailing
  <2>8. RowsBelong'
    BY <1>0, <2>1, <2>2, <2>3 DEF TypeInv, RowsBelong, Moves, Stands, OthersStay
  <2> QED
    BY <2>4, <2>5, <2>6, <2>7, <2>8 DEF TypeInv
<1>5. ASSUME NEW r \in Requests, Send(r)
      PROVE  TypeInv'
  <2>1. Moves(r, "ok") /\ Stands(r)
    BY <1>5, TableMoves
  <2>2. /\ UNCHANGED <<users, codes, proven>> /\ req[r].pc = "send"
        /\ r \in DOMAIN codes /\ req[r].email \in Emails
        /\ mails' = Insert(mails, r, req[r].email)
    BY <1>5 DEF Send, At, TypeInv, Addressed, RowsBelong, Mailing
  <2>3. /\ IsTable(mails', Requests, Emails) /\ DOMAIN mails' = DOMAIN mails \cup {r}
        /\ mails'[r] = req[r].email
        /\ \A k \in DOMAIN mails : k # r => mails'[k] = mails[k]
    BY <1>0, <2>2 DEF IsTable, Insert
  <2>4. TypeOK'
    BY <1>0, <2>1, <2>2, <2>3 DEF TypeOK, Moves
  <2>5. UsersKnown'
    BY <2>1, <2>2 DEF TypeInv, UsersKnown, Moves, Stands, OthersStay
  <2>6. Addressed'
    BY <2>1, <2>2 DEF TypeInv, Addressed, Moves, Stands, OthersStay, Mailing
  <2>7. Registered'
    BY <2>1, <2>2 DEF TypeInv, Registered, Moves, Stands, OthersStay, Mailing
  <2>8. RowsBelong'
    BY <1>0, <2>1, <2>2, <2>3 DEF TypeInv, RowsBelong, Moves, Stands, OthersStay
  <2> QED
    BY <2>4, <2>5, <2>6, <2>7, <2>8 DEF TypeInv
<1>6. ASSUME NEW r \in Requests, Consume(r)
      PROVE  TypeInv'
  <2>1. PICK next \in {"verify", "ok"} : Moves(r, next) /\ Stands(r)
    BY <1>6, TableMoves DEF ProfileUpdate, Consume, At
  <2>2. PICK k \in DOMAIN codes :
          /\ IsTable(codes', Requests, CodeRow) /\ DOMAIN codes' = DOMAIN codes
          /\ codes'[k].user_id = codes[k].user_id
          /\ \A j \in DOMAIN codes : j # k => codes'[j] = codes[j]
          /\ proven' = Shown({k})
    BY <1>6, ConsumeCodes
  <2>3. /\ UNCHANGED <<users, mails>> /\ req[r].pc = "consume"
    BY <1>6 DEF Consume, At
  <2>4. proven' \subseteq Accounts \X Emails
    BY <1>0, <2>2 DEF Shown, IsTable, CodeRow
  <2>5. TypeOK'
    BY <1>0, <2>1, <2>2, <2>3, <2>4 DEF TypeOK, Moves
  <2>6. UsersKnown'
    BY <2>1, <2>3 DEF TypeInv, UsersKnown, Moves, Stands, OthersStay
  <2>7. Addressed'
    BY <2>1, <2>3 DEF TypeInv, Addressed, Moves, Stands, OthersStay, Mailing
  <2>8. Registered'
    BY <2>1, <2>3 DEF TypeInv, Registered, Moves, Stands, OthersStay, Mailing
  <2>9. RowsBelong'
    BY <1>0, <2>1, <2>2, <2>3 DEF TypeInv, RowsBelong, Moves, Stands, OthersStay
  <2> QED
    BY <2>5, <2>6, <2>7, <2>8, <2>9 DEF TypeInv
<1>7. ASSUME NEW r \in Requests, Lapse(r)
      PROVE  TypeInv'
  <2>1. /\ IsTable(codes', Requests, CodeRow) /\ DOMAIN codes' = DOMAIN codes
        /\ \A k \in DOMAIN codes : codes'[k].user_id = codes[k].user_id
    BY <1>7, LapseCodes
  <2>2. UNCHANGED <<users, mails, proven, req>>
    BY <1>7 DEF Lapse
  <2>3. TypeOK'
    BY <1>0, <2>1, <2>2 DEF TypeOK
  <2> QED
    BY <2>1, <2>2, <2>3 DEF TypeInv, UsersKnown, Addressed, Registered, RowsBelong
<1>8. CASE UNCHANGED vars
  BY <1>8 DEF vars, TypeInv, TypeOK, UsersKnown, Addressed, Registered, RowsBelong
<1> QED
  BY <1>1, <1>2, <1>3, <1>4, <1>5, <1>6, <1>7, <1>8, QuietlyKeepsType
     DEF Next, Quiet, Quietly

(* No call leaves a row of another shape, whatever the requests, accounts, *)
(* addresses, numbers and codes (the tables of module Accounts).           *)
THEOREM TypeCorrect == Spec => []TypeOK
<1>1. TypeInv => TypeOK
  BY DEF TypeInv
<1> QED
  BY <1>1, TypeInit, TypeNext, PTL DEF Spec

-----------------------------------------------------------------------------
(* What a call keeps from its beginning on. *)

Steady(q) ==
    /\ Over(q) => Over(q)'
    /\ req[q].pc # "idle" =>
         /\ req'[q].pc # "idle"
         /\ req'[q].kind = req[q].kind /\ req'[q].before = req[q].before
         /\ req'[q].phone = req[q].phone /\ req'[q].code = req[q].code
         /\ req'[q].changed = req[q].changed
         /\ \/ req'[q].user = req[q].user
            \/ req[q].kind = "register" /\ req[q].pc = "create"
         /\ req'[q].email = req[q].email \/ req[q].pc = "reread"
         /\ req[q].failed => req'[q].failed
         /\ Over(q) => req'[q] = req[q]
    /\ req[q].pc = "idle" =>
         \/ req'[q] = req[q]
         \/ req'[q].pc # "idle" /\ req'[q].before = {p \in Requests : Over(p)}

LEMMA OthersSteady ==
    ASSUME NEW q \in Requests, req'[q] = req[q]
    PROVE  Steady(q)
  BY DEF Steady, Over

LEMMA FreshSteady ==
    ASSUME NEW r \in Requests, NEW kind, NEW first, first # "idle", Fresh(r, kind, first)
    PROVE  \A q \in Requests : Steady(q)
<1>1. Steady(r)
  BY DEF Fresh, Steady, Over, Outcomes
<1> QED
  BY <1>1, OthersSteady DEF Fresh, OthersStay

LEMMA MovesSteady ==
    ASSUME NEW r \in Requests, NEW next, next # "idle", Moves(r, next), ~Over(r),
           req[r].pc # "idle",
           \/ req'[r].user = req[r].user
           \/ req[r].kind = "register" /\ req[r].pc = "create",
           req'[r].email = req[r].email \/ req[r].pc = "reread"
    PROVE  \A q \in Requests : Steady(q)
<1>1. Steady(r)
  BY DEF Moves, Steady
<1> QED
  BY <1>1, OthersSteady DEF Moves, OthersStay

LEMMA FailsSteady ==
    ASSUME NEW r \in Requests, Fails(r), ~Over(r), req[r].pc # "idle"
    PROVE  \A q \in Requests : Steady(q)
<1>1. Steady(r)
  BY DEF Fails, Stands, Steady
<1> QED
  BY <1>1, OthersSteady DEF Fails, OthersStay

LEMMA CallsAreSteady ==
    ASSUME TypeInv, [Next]_vars
    PROVE  \A q \in Requests : Steady(q)
<1>0. /\ TypeOK /\ req \in [Requests -> Call]
      /\ \A r \in Requests : req[r].user \in DOMAIN users
      /\ {"ok", "refused", "create", "findPhone", "update", "consume"} \subseteq PCs \ {"idle"}
      /\ "idle" \notin Steps \cup Outcomes /\ Steps \cap Outcomes = {}
  BY DEF TypeInv, TypeOK, UsersKnown, PCs, Steps, Outcomes
<1>1. ASSUME NEW r \in Requests,
             Register(r) \/ Resend(r) \/ Forgot(r) \/ Profile(r) \/ Peek(r)
      PROVE  \A q \in Requests : Steady(q)
  <2>1. PICK kind \in AllKinds,
             first \in {"ok", "findPhone", "create", "invalidate", "findEmail",
                       "update", "checkEmail", "refused"} :
          Fresh(r, kind, first)
    <3>1. CASE Register(r)
      BY <1>0, <3>1, RegisterStep DEF AllKinds
    <3>2. CASE Resend(r) \/ Forgot(r)
      BY <1>0, <3>2, ResendStep, ForgotStep DEF AllKinds
    <3>3. CASE Profile(r)
      BY <1>0, <3>3, ProfileStep DEF AllKinds
    <3>4. CASE Peek(r)
      BY <1>0, <3>4, PeekStep DEF AllKinds
    <3> QED
      BY <1>1, <3>1, <3>2, <3>3, <3>4
  <2> QED
    BY <2>1, FreshSteady
<1>2. ASSUME NEW r \in Requests,
             RegisterDuplicate(r) \/ InsertCollides(r) \/ ProfileDuplicate(r)
      PROVE  \A q \in Requests : Steady(q)
  <2>1. Throw(r) /\ ~Over(r) /\ req[r].pc # "idle"
    BY <1>2 DEF RegisterDuplicate, InsertCollides, ProfileDuplicate, At, Over, Outcomes
  <2> QED
    BY <1>0, <2>1, ThrowMoves, FailsSteady
<1>3. ASSUME NEW r \in Requests,
             \/ RegisterPhone(r) \/ ProfileEmail(r) \/ ProfilePhone(r)
             \/ CheckEmail(r) \/ TooLate(r) \/ SendFails(r)
      PROVE  \A q \in Requests : Steady(q)
  <2>1. PICK next \in {"ok", "refused", "create", "findPhone", "update", "consume"} : Goto(r, next)
    BY <1>3 DEF RegisterPhone, ProfileEmail, ProfilePhone, CheckEmail, TooLate, SendFails
  <2>2. ~Over(r) /\ req[r].pc # "idle"
    BY <1>3 DEF RegisterPhone, ProfileEmail, ProfilePhone, CheckEmail, TooLate, SendFails,
                At, Over, Outcomes
  <2>3. Moves(r, next) /\ Stands(r)
    BY <1>0, <2>1, GotoMoves
  <2> QED
    BY <1>0, <2>2, <2>3, MovesSteady DEF Stands
<1>4. ASSUME NEW r \in Requests,
             \/ ProfileUpdate(r) \/ Verify(r) \/ Consume(r)
             \/ Invalidate(r) \/ InsertCode(r) \/ Send(r)
      PROVE  \A q \in Requests : Steady(q)
  <2>1. PICK next \in {"reread", "ok", "verify", "insertCode", "send"} :
          Moves(r, next) /\ Stands(r)
    BY <1>4, TableMoves
  <2>2. ~Over(r) /\ req[r].pc # "idle"
    BY <1>4 DEF ProfileUpdate, Verify, Consume, Invalidate, InsertCode, Send,
                At, Over, Outcomes
  <2> QED
    BY <2>1, <2>2, MovesSteady DEF Stands
<1>5. ASSUME NEW r \in Requests, RegisterCreate(r)
      PROVE  \A q \in Requests : Steady(q)
  <2>1. ~Over(r) /\ req[r].kind = "register" /\ req[r].pc = "create"
    BY <1>5 DEF RegisterCreate, At, Over, Outcomes
  <2> QED
    BY <1>0, <1>5, <2>1, CreateMoves, MovesSteady
<1>6. ASSUME NEW r \in Requests, ProfileReread(r)
      PROVE  \A q \in Requests : Steady(q)
  <2>1. ~Over(r) /\ req[r].pc = "reread"
    BY <1>6 DEF ProfileReread, At, Over, Outcomes
  <2> QED
    BY <1>0, <1>6, <2>1, RereadMoves, MovesSteady
<1>7. CASE UNCHANGED req
  BY <1>7, OthersSteady
<1> QED
  BY <1>1, <1>2, <1>3, <1>4, <1>5, <1>6, <1>7 DEF Next, Quiet, Lapse, vars

(* What was over when a call began still is. *)
BeforeOver == \A q \in Requests : \A p \in req[q].before : Over(p)

LEMMA BeforeNext ==
    ASSUME TypeInv, BeforeOver, [Next]_vars
    PROVE  BeforeOver'
<1> SUFFICES ASSUME NEW q \in Requests, NEW p \in req'[q].before PROVE Over(p)'
  BY DEF BeforeOver
<1>1. Steady(q)
  BY CallsAreSteady
<1>2. p \in Requests /\ Over(p)
  BY <1>1 DEF Steady, BeforeOver, TypeInv, TypeOK, Call
<1> QED
  BY <1>2, CallsAreSteady DEF Steady

-----------------------------------------------------------------------------
(* Numbers.  A call has checked its number once it has found nobody else   *)
(* with it, and has stored it once the account it is about has the row.    *)

Target(q) == IF req[q].kind = "register" THEN q ELSE req[q].user

HasStored(q) ==
    \/ req[q].kind = "register" /\ q \in DOMAIN users
    \/ /\ req[q].kind = "updateProfile"
       /\ req[q].pc \notin {"idle", "findEmail", "findPhone", "update", "refused"}

Checked(q) ==
    \/ HasStored(q)
    \/ req[q].kind = "register" /\ req[q].pc = "create"
    \/ req[q].kind = "updateProfile" /\ req[q].pc = "update"

(* A number was stored by a call that was not over when any other holder's *)
(* call began.                                                             *)
Stored ==
    \A a \in DOMAIN users : users[a].phone # NoPhone =>
        \E p \in Requests :
            /\ HasStored(p) /\ Target(p) = a /\ req[p].phone = users[a].phone
            /\ \A q \in Requests :
                 Checked(q) /\ Target(q) # a /\ req[q].phone = users[a].phone
                 => p \notin req[q].before

(* Call q has just looked for its number, and nobody else had it. *)
JustChecked(q) ==
    /\ users' = users
    /\ \A a \in DOMAIN users :
         users[a].phone = req'[q].phone /\ users[a].phone # NoPhone => a = Target(q)'

(* Call r has just stored its number. *)
JustStored(r, a) ==
    /\ HasStored(r)' /\ Target(r)' = a /\ req'[r].phone = users'[a].phone
    /\ req[r].pc # "idle" /\ ~Over(r)

PhoneStep(r) ==
    /\ OthersStay(r)
    /\ DOMAIN users' \subseteq DOMAIN users \cup {r} /\ DOMAIN users \subseteq DOMAIN users'
    /\ HasStored(r) => HasStored(r)' /\ Target(r)' = Target(r)
    /\ Checked(r)' => \/ Checked(r) /\ Target(r)' = Target(r)
                      \/ JustChecked(r)
    /\ \A a \in DOMAIN users' :
         \/ a \in DOMAIN users /\ users'[a].phone = users[a].phone
         \/ users'[a].phone = NoPhone
         \/ JustStored(r, a)

LEMMA PhoneSteps ==
    ASSUME TypeInv, NEW r \in Requests,
           \/ Quietly(r) \/ RegisterCreate(r) \/ Invalidate(r) \/ InsertCode(r) \/ Send(r)
           \/ ProfileUpdate(r) \/ Consume(r) \/ Verify(r)
    PROVE  PhoneStep(r)
<1>0. /\ TypeOK /\ req \in [Requests -> Call] /\ req[r] \in Call
      /\ req[r].user \in DOMAIN users
      /\ users \in [DOMAIN users -> UserRow]
      /\ r \in DOMAIN users => req[r].kind = "register" /\ req[r].pc \in Mailing \cup {"ok"}
      /\ {"ok", "refused", "create", "findPhone", "update", "consume"} \subseteq PCs
  BY DEF TypeInv, TypeOK, IsTable, UsersKnown, Registered, PCs, Steps, Outcomes
<1>1. CASE Register(r)
  <2>1. UNCHANGED users
    BY <1>1 DEF Register
  <2>2. PICK p \in Phones \cup {None}, first \in {"ok", "findPhone", "create"} :
          /\ Fresh(r, "register", first) /\ req'[r].phone = p
          /\ first = "create" => p = None
    BY <1>0, <1>1, RegisterStep
  <2>3. Checked(r)' => JustChecked(r)
    BY <1>0, <2>1, <2>2, AccountsAssumption
       DEF Fresh, Checked, HasStored, JustChecked, UserRow, Mailing
  <2> QED
    BY <1>0, <2>1, <2>2, <2>3 DEF PhoneStep, Fresh, HasStored, Mailing
<1>2. CASE Resend(r) \/ Forgot(r) \/ Peek(r)
  <2>1. UNCHANGED users
    BY <1>2 DEF Resend, Forgot, Peek
  <2>2. PICK kind \in AllKinds \ {"register", "updateProfile"}, first \in PCs :
          Fresh(r, kind, first)
    <3>1. {"invalidate", "checkEmail", "refused", "ok"} \subseteq PCs
      BY DEF PCs, Steps, Outcomes
    <3>2. CASE Resend(r)
      BY <1>0, <3>1, <3>2, ResendStep DEF AllKinds
    <3>3. CASE Forgot(r)
      BY <1>0, <3>1, <3>3, ForgotStep DEF AllKinds
    <3>4. CASE Peek(r)
      BY <1>0, <3>1, <3>4, PeekStep DEF AllKinds
    <3> QED
      BY <1>2, <3>2, <3>3, <3>4
  <2> QED
    BY <1>0, <2>1, <2>2 DEF PhoneStep, Fresh, HasStored, Checked, Mailing
<1>3. CASE Profile(r)
  <2>1. UNCHANGED users
    BY <1>3 DEF Profile
  <2>2. PICK first \in {"findEmail", "findPhone", "update"} :
          /\ Fresh(r, "updateProfile", first)
          /\ first = "update" => req'[r].phone \notin Phones
    BY <1>0, <1>3, ProfileStep
  <2>3. Checked(r)' => JustChecked(r)
    BY <1>0, <2>1, <2>2 DEF Fresh, Checked, HasStored, JustChecked, UserRow
  <2> QED
    BY <1>0, <2>1, <2>2, <2>3 DEF PhoneStep, Fresh, HasStored, Mailing
<1>4. CASE RegisterPhone(r)
  <2>1. /\ UNCHANGED users /\ req[r].kind = "register" /\ req[r].pc = "findPhone"
        /\ Goto(r, IF findAllByPhone(req[r].phone) # {} THEN "refused" ELSE "create")
    BY <1>4 DEF RegisterPhone, At
  <2>2. PICK next \in {"refused", "create"} :
          Moves(r, next) /\ (next = "create" => findAllByPhone(req[r].phone) = {})
    BY <1>0, <2>1, GotoMoves
  <2>3. Checked(r)' => JustChecked(r)
    BY <1>0, <2>1, <2>2
       DEF Moves, Checked, HasStored, JustChecked, Mailing, findAllByPhone
  <2> QED
    BY <1>0, <2>1, <2>2, <2>3 DEF PhoneStep, Moves, HasStored, Mailing
<1>5. CASE ProfileEmail(r) \/ ProfilePhone(r)
  <2>1. /\ UNCHANGED users /\ req[r].kind = "updateProfile"
        /\ req[r].pc \in {"findEmail", "findPhone"}
    BY <1>5 DEF ProfileEmail, ProfilePhone, At
  <2>2. PICK next \in {"refused", "findPhone", "update"} :
          /\ Goto(r, next)
          /\ next = "update" => \/ req[r].phone \notin Phones
                               \/ findAllByPhone(req[r].phone) \subseteq {req[r].user}
    BY <1>5 DEF ProfileEmail, ProfilePhone
  <2>3. Moves(r, next) /\ Stands(r)
    BY <1>0, <2>2, GotoMoves
  <2>4. Checked(r)' => JustChecked(r)
    BY <1>0, <2>1, <2>2, <2>3
       DEF Moves, Stands, Checked, HasStored, JustChecked, Target, UserRow, findAllByPhone
  <2> QED
    BY <1>0, <2>1, <2>3, <2>4 DEF PhoneStep, Moves, HasStored
<1>6. CASE RegisterDuplicate(r) \/ InsertCollides(r) \/ ProfileDuplicate(r)
  <2>1. UNCHANGED users /\ Fails(r)
    BY <1>0, <1>6, ThrowMoves DEF RegisterDuplicate, InsertCollides, ProfileDuplicate
  <2> QED
    BY <1>0, <2>1 DEF PhoneStep, Fails, Stands, HasStored, Checked, Target
<1>7. CASE RegisterCreate(r)
  <2>1. /\ Moves(r, "invalidate") /\ req[r].kind = "register" /\ req[r].pc = "create"
        /\ ~Over(r)
    BY <1>0, <1>7, CreateMoves DEF RegisterCreate, At, Over, Outcomes
  <2>2. /\ DOMAIN users' = DOMAIN users \cup {r} /\ r \notin DOMAIN users
        /\ users'[r].phone = IF req[r].phone = None THEN NoPhone ELSE req[r].phone
        /\ \A a \in DOMAIN users : users'[a] = users[a]
    BY <1>7, CreateUsers
  <2> QED
    BY <1>0, <2>1, <2>2 DEF PhoneStep, JustStored, Moves, HasStored, Checked, Target
<1>8. CASE ProfileUpdate(r)
  <2>1. req[r].kind = "updateProfile" /\ req[r].pc = "update" /\ ~Over(r)
    BY <1>8 DEF ProfileUpdate, At, Over, Outcomes
  <2>2. PICK next \in {"reread", "ok"} : Moves(r, next) /\ Stands(r)
    BY <1>8, <2>1, TableMoves DEF Consume, Redeemers, At
  <2>3. /\ DOMAIN users' = DOMAIN users
        /\ users'[req[r].user].phone =
              IF req[r].phone = None THEN users[req[r].user].phone ELSE req[r].phone
        /\ \A b \in DOMAIN users : b # req[r].user => users'[b] = users[b]
    BY <1>8, ProfileUsers
  <2> QED
    BY <1>0, <2>1, <2>2, <2>3
       DEF PhoneStep, JustStored, Moves, Stands, HasStored, Checked, Target
<1>9. CASE \/ CheckEmail(r) \/ TooLate(r) \/ SendFails(r) \/ Invalidate(r) \/ InsertCode(r)
           \/ Send(r) \/ Consume(r) \/ Verify(r)
  <2>1. PICK next \in {"ok", "refused", "consume", "verify", "insertCode", "send"} : Goto(r, next)
    BY <1>9 DEF CheckEmail, TooLate, SendFails, Invalidate, InsertCode, Send, Consume,
                Consumed, Verify
  <2>2. Moves(r, next) /\ Stands(r)
    BY <2>1, <1>0, GotoMoves DEF PCs, Steps, Outcomes
  <2>3. \/ req[r].kind \in Redeemers
        \/ /\ req[r].kind \in Mailers /\ req[r].pc \in Mailing
           /\ next \in {"ok", "insertCode", "send"}
    <3>1. CASE CheckEmail(r) \/ TooLate(r) \/ Consume(r) \/ Verify(r)
      BY <3>1 DEF CheckEmail, TooLate, Consume, Verify, At, Redeemers
    <3>2. CASE SendFails(r) \/ Send(r)
      BY <3>2, <1>0, GotoMoves, <2>2 DEF SendFails, Send, At, Mailing, Moves, PCs, Outcomes
    <3>3. CASE Invalidate(r) \/ InsertCode(r)
      BY <3>3, <2>2, TableMoves DEF Invalidate, InsertCode, At, Mailing, Moves
    <3> QED
      BY <1>9, <3>1, <3>2, <3>3
  <2>4. /\ DOMAIN users' = DOMAIN users
        /\ \A a \in DOMAIN users : users'[a].phone = users[a].phone
    <3>1. CASE Verify(r)
      BY <3>1, VerifyUsers
    <3>2. CASE ~Verify(r)
      BY <1>9, <3>2 DEF CheckEmail, TooLate, SendFails, Invalidate, InsertCode, Send, Consume
    <3> QED
      BY <3>1, <3>2
  <2> QED
    BY <1>0, <2>2, <2>3, <2>4
       DEF PhoneStep, Moves, Stands, HasStored, Checked, Target, Mailing, Redeemers
<1>10. CASE ProfileReread(r)
  <2>1. /\ Moves(r, "invalidate") /\ req'[r].user = req[r].user
        /\ req[r].pc = "reread" /\ req[r].kind = "updateProfile" /\ UNCHANGED users
    BY <1>0, <1>10, RereadMoves DEF ProfileReread, At
  <2> QED
    BY <1>0, <2>1 DEF PhoneStep, Moves, HasStored, Checked, Target
<1> QED
  BY <1>1, <1>2, <1>3, <1>4, <1>5, <1>6, <1>7, <1>8, <1>9, <1>10 DEF Quietly

LEMMA StoredNext ==
    ASSUME TypeInv, BeforeOver, Stored, [Next]_vars
    PROVE  Stored'
<1>0. \A q \in Requests : Steady(q)
  BY CallsAreSteady
<1>1. ASSUME NEW r \in Requests, PhoneStep(r)
      PROVE  Stored'
  <2> SUFFICES ASSUME NEW a \in DOMAIN users', users'[a].phone # NoPhone
               PROVE  \E p \in Requests :
                        /\ HasStored(p)' /\ Target(p)' = a /\ req'[p].phone = users'[a].phone
                        /\ \A q \in Requests :
                             Checked(q)' /\ Target(q)' # a /\ req'[q].phone = users'[a].phone
                             => p \notin req'[q].before
    BY DEF Stored
  <2>1. \A q \in Requests \ {r} :
          /\ HasStored(q)' <=> HasStored(q)
          /\ Checked(q)' <=> Checked(q)
          /\ Target(q)' = Target(q)
    BY <1>1 DEF PhoneStep, OthersStay, HasStored, Checked, Target
  <2>2. \A q \in Requests : Checked(q) => req[q].pc # "idle"
    BY DEF Checked, HasStored, TypeInv, Registered, Mailing
  <2>3. CASE JustStored(r, a)
    <3>1. \A q \in Requests : r \notin req'[q].before
      <4> SUFFICES ASSUME NEW q \in Requests, r \in req'[q].before PROVE FALSE
        OBVIOUS
      <4>1. r \in req[q].before \/ r \in {p \in Requests : Over(p)}
        BY <1>0 DEF Steady
      <4> QED
        BY <2>3, <4>1 DEF BeforeOver, JustStored
    <3> QED
      BY <2>3, <3>1 DEF JustStored
  <2>4. CASE a \in DOMAIN users /\ users'[a].phone = users[a].phone
    <3>1. PICK p \in Requests :
            /\ HasStored(p) /\ Target(p) = a /\ req[p].phone = users[a].phone
            /\ \A q \in Requests :
                 Checked(q) /\ Target(q) # a /\ req[q].phone = users[a].phone
                 => p \notin req[q].before
      BY <2>4 DEF Stored
    <3>2. req[p].pc # "idle"
      BY <2>2, <3>1 DEF Checked
    <3>3. HasStored(p)' /\ Target(p)' = a /\ req'[p].phone = users'[a].phone
      BY <1>0, <1>1, <2>1, <2>4, <3>1, <3>2 DEF PhoneStep, Steady
    <3>4. ASSUME NEW q \in Requests,
                 Checked(q)', Target(q)' # a, req'[q].phone = users'[a].phone
          PROVE  p \notin req'[q].before
      <4>1. Checked(q) /\ Target(q)' = Target(q)
        BY <1>1, <2>1, <2>4, <3>4 DEF PhoneStep, JustChecked
      <4>2. req'[q].before = req[q].before /\ req'[q].phone = req[q].phone
        BY <1>0, <2>2, <4>1 DEF Steady
      <4> QED
        BY <2>4, <3>1, <3>4, <4>1, <4>2
    <3> QED
      BY <3>3, <3>4
  <2> QED
    BY <1>1, <2>3, <2>4 DEF PhoneStep
<1>2. CASE UNCHANGED <<users, req>>
  BY <1>2 DEF Stored, HasStored, Checked, Target
<1> QED
  BY <1>1, <1>2, PhoneSteps DEF Next, Quiet, Quietly, Lapse, vars

LEMMA StoredInit == Init => BeforeOver /\ Stored
<1> SUFFICES ASSUME Init PROVE BeforeOver /\ Stored
  OBVIOUS
<1>1. \A r \in Requests : req[r].before = {}
  BY DEF Init
<1>2. DOMAIN users = {Founder} /\ users[Founder].phone = NoPhone
  BY DEF Init
<1> QED
  BY <1>1, <1>2 DEF BeforeOver, Stored

LEMMA StoredIsRace == TypeInv /\ Stored => PhonesAreSharedByRacesOnly
<1> SUFFICES ASSUME TypeInv, Stored, NEW a \in DOMAIN users, NEW b \in DOMAIN users,
                    SharedPhone(a, b)
             PROVE  \E p, q \in Requests :
                      /\ Overlap(p, q)
                      /\ req[p].phone = users[a].phone /\ req[q].phone = users[a].phone
  BY DEF PhonesAreSharedByRacesOnly
<1>1. /\ a # b /\ users[a].phone = users[b].phone
      /\ users[a].phone # NoPhone /\ users[b].phone # NoPhone
  BY DEF SharedPhone
<1>2. PICK p \in Requests :
        /\ HasStored(p) /\ Target(p) = a /\ req[p].phone = users[a].phone
        /\ \A q \in Requests :
             Checked(q) /\ Target(q) # a /\ req[q].phone = users[a].phone
             => p \notin req[q].before
  BY <1>1 DEF Stored
<1>3. PICK q \in Requests :
        /\ HasStored(q) /\ Target(q) = b /\ req[q].phone = users[b].phone
        /\ \A o \in Requests :
             Checked(o) /\ Target(o) # b /\ req[o].phone = users[b].phone
             => q \notin req[o].before
  BY <1>1 DEF Stored
<1>4. p # q /\ p \notin req[q].before /\ q \notin req[p].before
  BY <1>1, <1>2, <1>3 DEF Checked
<1>5. req[p].pc # "idle" /\ req[q].pc # "idle"
  BY <1>2, <1>3 DEF HasStored, TypeInv, Registered, Mailing
<1> QED
  BY <1>1, <1>2, <1>3, <1>4, <1>5 DEF Overlap

(* Two accounts share a number only if two calls that gave it overlapped,  *)
(* for any number of calls: the look before the insert is enough for calls *)
(* that follow one another (AuthService.register, updateProfile).          *)
THEOREM PhonesRaceOnly == Spec => []PhonesAreSharedByRacesOnly
<1> DEFINE Inv == TypeInv /\ BeforeOver /\ Stored
<1>1. Init => Inv
  BY TypeInit, StoredInit
<1>2. Inv /\ [Next]_vars => Inv'
  BY TypeNext, BeforeNext, StoredNext
<1>3. Inv => PhonesAreSharedByRacesOnly
  BY StoredIsRace
<1> QED
  BY <1>1, <1>2, <1>3, PTL DEF Spec

-----------------------------------------------------------------------------
(* What a step does to the rows of codes and mails. *)

RowStep ==
    /\ DOMAIN codes \subseteq DOMAIN codes' /\ DOMAIN mails \subseteq DOMAIN mails'
    /\ \A k \in DOMAIN codes :
         /\ codes'[k].code = codes[k].code /\ codes'[k].user_id = codes[k].user_id
         /\ codes[k].used => codes'[k].used
         /\ purpose(k)' = purpose(k)
    /\ \A k \in DOMAIN codes' \ DOMAIN codes :
         /\ req[k].kind \in Mailers /\ req[k].pc = "insertCode" /\ ~Over(k)
         /\ codes'[k].user_id = req[k].user
         /\ purpose(k)' = purpose(k)
         /\ \A j \in DOMAIN codes' : j # k =>
              j \in DOMAIN codes /\ codes'[j].code # codes'[k].code

LEMMA RowsStay ==
    ASSUME TypeInv, [Next]_vars, UNCHANGED codes, DOMAIN mails \subseteq DOMAIN mails'
    PROVE  RowStep
<1>1. \A k \in DOMAIN codes : k \in Requests /\ req[k].pc # "idle"
  BY DEF TypeInv, TypeOK, IsTable, RowsBelong
<1>2. \A k \in DOMAIN codes : req'[k].kind = req[k].kind
  BY <1>1, CallsAreSteady DEF Steady
<1> QED
  BY <1>2 DEF RowStep, purpose

LEMMA RowsGrow ==
    ASSUME TypeInv, [Next]_vars
    PROVE  RowStep
<1>0. /\ \A k \in DOMAIN codes : k \in Requests /\ req[k].pc # "idle"
      /\ DOMAIN mails \subseteq DOMAIN codes
  BY DEF TypeInv, TypeOK, IsTable, RowsBelong
<1>1. \A k \in Requests : req[k].pc # "idle" => purpose(k)' = purpose(k)
  BY CallsAreSteady DEF Steady, purpose
<1>2. ASSUME NEW r \in Requests, Invalidate(r)
      PROVE  RowStep
  <2>1. UNCHANGED mails
    BY <1>2 DEF Invalidate
  <2> QED
    BY <1>0, <1>1, <1>2, <2>1, InvalidateCodes DEF RowStep
<1>3. ASSUME NEW r \in Requests, InsertCode(r)
      PROVE  RowStep
  <2>1. /\ UNCHANGED mails /\ req[r].kind \in Mailers /\ req[r].pc = "insertCode"
        /\ ~Over(r)
    BY <1>3 DEF InsertCode, At, Over, Outcomes
  <2>2. /\ DOMAIN codes' = DOMAIN codes \cup {r}
        /\ codes'[r].user_id = req[r].user
        /\ \A k \in DOMAIN codes : codes'[k] = codes[k] /\ codes'[r].code # codes[k].code
    BY <1>3, InsertCodes
  <2>3. purpose(r)' = purpose(r)
    BY <1>1, <2>1
  <2> QED
    BY <1>0, <1>1, <2>1, <2>2, <2>3 DEF RowStep
<1>4. ASSUME NEW r \in Requests, Consume(r)
      PROVE  RowStep
  <2>1. UNCHANGED mails
    BY <1>4 DEF Consume
  <2>2. PICK k \in DOMAIN codes :
          /\ DOMAIN codes' = DOMAIN codes
          /\ codes'[k].user_id = codes[k].user_id /\ codes'[k].code = codes[k].code
          /\ codes'[k].used = TRUE
          /\ \A j \in DOMAIN codes : j # k => codes'[j] = codes[j]
    BY <1>4, ConsumeCodes
  <2> QED
    BY <1>0, <1>1, <2>1, <2>2 DEF RowStep
<1>5. ASSUME NEW r \in Requests, Lapse(r)
      PROVE  RowStep
  <2>1. UNCHANGED mails
    BY <1>5 DEF Lapse
  <2> QED
    BY <1>0, <1>1, <1>5, <2>1, LapseCodes DEF RowStep
<1>6. ASSUME NEW r \in Requests, Send(r)
      PROVE  RowStep
  <2>1. UNCHANGED codes /\ DOMAIN mails' = DOMAIN mails \cup {r}
    BY <1>6 DEF Send, Insert
  <2> QED
    BY <2>1, RowsStay
<1>7. CASE UNCHANGED <<codes, mails>>
  BY <1>7, RowsStay
<1>8. ASSUME NEW r \in Requests,
             Quietly(r) \/ RegisterCreate(r) \/ ProfileUpdate(r) \/ Verify(r)
      PROVE  UNCHANGED <<codes, mails>>
  BY <1>8 DEF Quietly, Register, RegisterPhone, RegisterDuplicate, Resend, Forgot,
     InsertCollides, SendFails, Profile, ProfileEmail, ProfilePhone, ProfileDuplicate,
     ProfileReread, Peek, CheckEmail, TooLate, RegisterCreate, ProfileUpdate, Verify
<1> QED
  BY <1>2, <1>3, <1>4, <1>5, <1>6, <1>7, <1>8 DEF Next, Quiet, Quietly, vars

(* token_hash is UNIQUE. *)
Unique == \A k, g \in DOMAIN codes : codes[k].code = codes[g].code => k = g

LEMMA UniqueNext ==
    ASSUME TypeInv, Unique, [Next]_vars
    PROVE  Unique'
  BY RowsGrow DEF RowStep, Unique

-----------------------------------------------------------------------------
(* A call that has invalidated what was mailed before, or inserted its row. *)
Past(g) ==
    \/ g \in DOMAIN codes
    \/ req[g].kind \in Mailers /\ req[g].pc = "insertCode"

(* What was mailed by a call that was over when such a call began is used. *)
Superseded ==
    \A g \in Requests, k \in DOMAIN codes :
        /\ Past(g) /\ k \in req[g].before
        /\ purpose(k) = purpose(g) /\ codes[k].user_id = req[g].user
        => codes[k].used

LEMMA PastSteps ==
    ASSUME TypeInv, [Next]_vars, NEW g \in Requests, Past(g)'
    PROVE  Past(g) \/ Invalidate(g)
<1>0. /\ TypeOK /\ req \in [Requests -> Call]
      /\ {"ok", "refused", "create", "findPhone", "update", "consume"} \subseteq PCs
      /\ req[g].user \in DOMAIN users
  BY DEF TypeInv, TypeOK, UsersKnown, PCs, Steps, Outcomes
<1>1. CASE g \in DOMAIN codes'
  <2>1. RowStep
    BY RowsGrow
  <2> QED
    BY <1>1, <2>1 DEF RowStep, Past
<1>2. CASE req'[g].kind \in Mailers /\ req'[g].pc = "insertCode" /\ req'[g] # req[g]
  <2>1. ASSUME Register(g) \/ Resend(g) \/ Forgot(g) \/ Profile(g) \/ Peek(g)
        PROVE  FALSE
    <3>1. CASE Register(g)
      BY <1>0, <1>2, <3>1, RegisterStep DEF Fresh
    <3>2. CASE Resend(g) \/ Forgot(g)
      BY <1>0, <1>2, <3>2, ResendStep, ForgotStep DEF Fresh
    <3>3. CASE Profile(g)
      BY <1>0, <1>2, <3>3, ProfileStep DEF Fresh
    <3>4. CASE Peek(g)
      BY <1>0, <1>2, <3>4, PeekStep DEF Fresh
    <3> QED
      BY <2>1, <3>1, <3>2, <3>3, <3>4
  <2>2. ASSUME RegisterDuplicate(g) \/ InsertCollides(g) \/ ProfileDuplicate(g)
        PROVE  Past(g)
    <3>1. Fails(g)
      BY <1>0, <2>2, ThrowMoves DEF RegisterDuplicate, InsertCollides, ProfileDuplicate
    <3> QED
      BY <1>2, <3>1 DEF Fails, Past
  <2>3. ASSUME \/ RegisterPhone(g) \/ ProfileEmail(g) \/ ProfilePhone(g)
               \/ CheckEmail(g) \/ TooLate(g) \/ SendFails(g)
        PROVE  FALSE
    <3>1. PICK next \in {"ok", "refused", "create", "findPhone", "update", "consume"} :
            Goto(g, next)
      BY <2>3 DEF RegisterPhone, ProfileEmail, ProfilePhone, CheckEmail, TooLate, SendFails
    <3> QED
      BY <1>0, <1>2, <3>1, GotoMoves DEF Moves
  <2>4. ASSUME ProfileUpdate(g) \/ Verify(g) \/ Consume(g) \/ InsertCode(g) \/ Send(g)
        PROVE  FALSE
    BY <1>2, <2>4, TableMoves DEF Moves
  <2>5. ASSUME RegisterCreate(g) \/ ProfileReread(g)
        PROVE  FALSE
    BY <1>0, <1>2, <2>5, CreateMoves, RereadMoves DEF Moves
  <2>6. ASSUME NEW r \in Requests, r # g,
               \/ Quietly(r) \/ RegisterCreate(r) \/ Invalidate(r) \/ InsertCode(r)
               \/ Send(r) \/ ProfileUpdate(r) \/ Consume(r) \/ Verify(r)
        PROVE  FALSE
    BY <1>2, <2>6, PhoneSteps DEF PhoneStep, OthersStay
  <2>7. ASSUME NEW r \in Requests, Lapse(r)
        PROVE  FALSE
    BY <1>2, <2>7 DEF Lapse
  <2> QED
    BY <1>2, <2>1, <2>2, <2>3, <2>4, <2>5, <2>6, <2>7 DEF Next, Quiet, Quietly, vars
<1> QED
  BY <1>1, <1>2 DEF Past

LEMMA SupersededNext ==
    ASSUME TypeInv, BeforeOver, Superseded, [Next]_vars
    PROVE  Superseded'
<1> SUFFICES ASSUME NEW g \in Requests, NEW k \in DOMAIN codes',
                    Past(g)', k \in req'[g].before,
                    purpose(k)' = purpose(g)', codes'[k].user_id = req'[g].user
             PROVE  codes'[k].used
  BY DEF Superseded
<1>1. RowStep /\ Steady(g)
  BY RowsGrow, CallsAreSteady
<1>2. \/ Past(g)
      \/ Invalidate(g)
  BY PastSteps
<1>3. /\ req[g].pc \notin {"idle", "create"}
      /\ \A j \in DOMAIN codes : j \in Requests /\ req[j].pc # "idle"
  BY <1>2 DEF Past, Invalidate, At, TypeInv, TypeOK, IsTable, RowsBelong
<1>4. /\ k \in req[g].before
      /\ req'[g].user = req[g].user /\ purpose(g)' = purpose(g)
  BY <1>1, <1>3 DEF Steady, purpose
<1>5. Over(k) /\ k \in DOMAIN codes
  BY <1>1, <1>4 DEF BeforeOver, RowStep
<1>6. /\ purpose(k) = purpose(g) /\ codes[k].user_id = req[g].user
      /\ codes[k].used => codes'[k].used
  BY <1>1, <1>4, <1>5 DEF RowStep
<1>7. CASE Past(g)
  BY <1>4, <1>5, <1>6, <1>7 DEF Superseded
<1>8. CASE Invalidate(g)
  BY <1>5, <1>6, <1>8, InvalidateCodes
<1> QED
  BY <1>2, <1>7, <1>8

-----------------------------------------------------------------------------
(* Calls that present a code. *)

Redeeming == {"checkEmail", "consume", "verify", "ok"}
Spent == {"verify", "ok"}

Holds(v) == req[v].kind \in Redeemers /\ req[v].pc \in Redeeming

(* The row whose code v presents. *)
RowOf(v, k) ==
    /\ k \in DOMAIN codes \cap DOMAIN mails
    /\ codes[k].code = req[v].code /\ codes[k].user_id = req[v].user
    /\ req[v].kind = IF purpose(k) = "password_reset" THEN "resetPassword" ELSE "verifyEmail"

Holding ==
    \A v \in Requests : Holds(v) =>
        \E k \in DOMAIN codes : RowOf(v, k) /\ (req[v].pc \in Spent => codes[k].used)

(* Call v has just read the row that it will redeem. *)
Peeked(v) ==
    /\ req'[v].pc = "checkEmail" /\ req[v].pc = "idle"
    /\ \E k \in DOMAIN codes : RowOf(v, k)' /\ ~codes[k].used

HoldStep(v) ==
    Holds(v)' =>
        \/ Peeked(v)
        \/ /\ Holds(v)
           /\ req'[v].pc \in Spent => req[v].pc \in Spent \/ Consume(v)

LEMMA HoldSteps ==
    ASSUME TypeInv, [Next]_vars, NEW v \in Requests
    PROVE  HoldStep(v)
<1> SUFFICES ASSUME Holds(v)', req'[v] # req[v]
             PROVE  \/ Peeked(v)
                    \/ /\ Holds(v)
                       /\ req'[v].pc \in Spent => req[v].pc \in Spent \/ Consume(v)
  BY DEF HoldStep, Holds
<1>0. /\ TypeOK /\ req \in [Requests -> Call] /\ req[v].user \in DOMAIN users
      /\ {"ok", "refused", "create", "findPhone", "update", "consume"} \subseteq PCs
  BY DEF TypeInv, TypeOK, UsersKnown, PCs, Steps, Outcomes
<1>1. CASE Register(v)
  BY <1>0, <1>1, RegisterStep DEF Fresh, Holds, Redeemers
<1>2. CASE Resend(v) \/ Forgot(v)
  BY <1>0, <1>2, ResendStep, ForgotStep DEF Fresh, Holds, Redeemers
<1>3. CASE Profile(v)
  BY <1>0, <1>3, ProfileStep DEF Fresh, Holds, Redeemers
<1>4. CASE Peek(v)
  <2>1. PICK k \in DOMAIN codes \cap DOMAIN mails :
          /\ \/ Fresh(v, "resetPassword", req'[v].pc) /\ purpose(k) = "password_reset"
             \/ Fresh(v, "verifyEmail", req'[v].pc) /\ purpose(k) # "password_reset"
          /\ req'[v].pc = IF Redeemable(k) THEN "checkEmail" ELSE "refused"
          /\ req'[v].user = codes[k].user_id /\ req'[v].code = codes[k].code
    BY <1>0, <1>4, PeekStep
  <2>2. req'[v].pc = "checkEmail" /\ req[v].pc = "idle" /\ ~codes[k].used
    BY <2>1 DEF Fresh, Holds, Redeeming, Redeemable
  <2>3. UNCHANGED <<codes, mails>> /\ RowStep
    BY <1>4, RowsGrow DEF Peek
  <2>4. RowOf(v, k)'
    BY <2>1, <2>3 DEF Fresh, RowOf, RowStep
  <2> QED
    BY <2>1, <2>2, <2>4 DEF Peeked
<1>5. CASE RegisterDuplicate(v) \/ InsertCollides(v) \/ ProfileDuplicate(v)
  <2>1. Fails(v) /\ req[v].kind \in Mailers
    BY <1>0, <1>5, ThrowMoves
       DEF RegisterDuplicate, InsertCollides, ProfileDuplicate, At, Mailers
  <2> QED
    BY <2>1 DEF Fails, Holds, Redeemers, Mailers
<1>6. CASE \/ RegisterPhone(v) \/ ProfileEmail(v) \/ ProfilePhone(v) \/ SendFails(v)
  <2>1. PICK next \in {"ok", "refused", "create", "findPhone", "update"} : Goto(v, next)
    BY <1>6 DEF RegisterPhone, ProfileEmail, ProfilePhone, SendFails
  <2>2. Moves(v, next) /\ req[v].kind \in Mailers
    BY <1>0, <1>6, <2>1, GotoMoves
       DEF RegisterPhone, ProfileEmail, ProfilePhone, SendFails, At, Mailers
  <2> QED
    BY <2>2 DEF Moves, Holds, Redeemers, Mailers
<1>7. CASE CheckEmail(v) \/ TooLate(v)
  <2>1. PICK next \in {"refused", "consume"} : Goto(v, next)
    BY <1>7 DEF CheckEmail, TooLate
  <2>2. Moves(v, next) /\ req[v].pc \in {"checkEmail", "consume"}
    BY <1>0, <1>7, <2>1, GotoMoves DEF CheckEmail, TooLate, At
  <2> QED
    BY <2>1, <2>2 DEF Moves, Holds, Redeeming, Spent
<1>8. CASE RegisterCreate(v) \/ ProfileReread(v)
  BY <1>0, <1>8, CreateMoves, RereadMoves DEF Moves, Holds, Redeeming
<1>9. CASE Invalidate(v) \/ InsertCode(v) \/ Send(v) \/ ProfileUpdate(v)
  <2>1. req[v].kind \in Mailers
    BY <1>9 DEF Invalidate, InsertCode, Send, ProfileUpdate, At, Mailers
  <2>2. req'[v].kind = req[v].kind
    BY <1>9, TableMoves DEF Moves
  <2> QED
    BY <2>1, <2>2 DEF Holds, Redeemers, Mailers
<1>10. CASE Consume(v) \/ Verify(v)
  <2>1. /\ req[v].kind \in Redeemers /\ req[v].pc \in {"consume", "verify"}
        /\ Verify(v) => req[v].pc = "verify"
    BY <1>10 DEF Consume, Verify, At, Redeemers
  <2> QED
    BY <1>10, <2>1 DEF Holds, Redeeming, Spent
<1>11. ASSUME NEW r \in Requests, r # v,
              \/ Quietly(r) \/ RegisterCreate(r) \/ Invalidate(r) \/ InsertCode(r)
              \/ Send(r) \/ ProfileUpdate(r) \/ Consume(r) \/ Verify(r)
       PROVE  FALSE
  BY <1>11, PhoneSteps DEF PhoneStep, OthersStay
<1>12. ASSUME NEW r \in Requests, Lapse(r)
       PROVE  FALSE
  BY <1>12 DEF Lapse
<1> QED
  BY <1>1, <1>2, <1>3, <1>4, <1>5, <1>6, <1>7, <1>8, <1>9, <1>10, <1>11, <1>12
     DEF Next, Quiet, Quietly, vars

LEMMA HoldingNext ==
    ASSUME TypeInv, Unique, Holding, [Next]_vars
    PROVE  Holding'
<1> SUFFICES ASSUME NEW v \in Requests, Holds(v)'
             PROVE  \E k \in DOMAIN codes' :
                      RowOf(v, k)' /\ (req'[v].pc \in Spent => codes'[k].used)
  BY DEF Holding
<1>1. RowStep /\ Steady(v) /\ HoldStep(v)
  BY RowsGrow, CallsAreSteady, HoldSteps
<1>2. CASE Peeked(v)
  BY <1>1, <1>2 DEF Peeked, RowStep, Spent
<1>3. CASE Holds(v) /\ (req'[v].pc \in Spent => req[v].pc \in Spent \/ Consume(v))
  <2>1. PICK k \in DOMAIN codes : RowOf(v, k) /\ (req[v].pc \in Spent => codes[k].used)
    BY <1>3 DEF Holding
  <2>2. req[v].pc # "idle" /\ req[v].kind # "register"
    BY <1>3 DEF Holds, Redeeming, Redeemers
  <2>3. RowOf(v, k)'
    BY <1>1, <2>1, <2>2 DEF RowOf, RowStep, Steady
  <2>4. ASSUME Consume(v)
        PROVE  codes'[k].used
    <3>1. PICK j \in DOMAIN codes : codes[j].code = req[v].code /\ codes'[j].used = TRUE
      BY <2>4, ConsumeCodes
    <3>2. j = k
      BY <2>1, <3>1 DEF Unique, RowOf
    <3> QED
      BY <3>1, <3>2
  <2> QED
    BY <1>1, <1>3, <2>1, <2>3, <2>4 DEF RowStep
<1> QED
  BY <1>1, <1>2, <1>3 DEF HoldStep

(* No code is spent twice. *)
SpentOnce ==
    \A r, q \in Requests :
        Holds(r) /\ Holds(q) /\ req[r].pc \in Spent /\ req[q].pc \in Spent
        /\ req[r].code = req[q].code => r = q

LEMMA SpentOnceNext ==
    ASSUME TypeInv, Unique, Holding, SpentOnce, [Next]_vars
    PROVE  SpentOnce'
<1>1. ASSUME NEW r \in Requests, NEW q \in Requests, r # q, Consume(r),
             Holds(q)', req'[q].pc \in Spent
      PROVE  req'[q].code # req[r].code
  <2>1. req'[q] = req[q]
    BY <1>1, PhoneSteps DEF PhoneStep, OthersStay
  <2>2. PICK k \in DOMAIN codes : RowOf(q, k) /\ codes[k].used
    BY <1>1, <2>1 DEF Holding, Holds
  <2>3. PICK j \in DOMAIN codes : codes[j].code = req[r].code /\ ~codes[j].used
    BY <1>1, ConsumeCodes
  <2> QED
    BY <2>1, <2>2, <2>3 DEF RowOf, Unique
<1>2. ASSUME NEW r \in Requests, Holds(r)', req'[r].pc \in Spent
      PROVE  /\ req'[r].code = req[r].code /\ Holds(r)
             /\ req[r].pc \in Spent \/ Consume(r)
  <2>1. HoldStep(r) /\ Steady(r) /\ ~Peeked(r)
    BY <1>2, HoldSteps, CallsAreSteady DEF Peeked, Spent
  <2> QED
    BY <1>2, <2>1 DEF HoldStep, Steady, Holds, Redeeming
<1> QED
  BY <1>1, <1>2 DEF SpentOnce, Holds

(* Nothing that a later mail superseded is presented by a later call. *)
NotSuperseded ==
    \A v \in Requests, k, g \in DOMAIN codes :
        /\ Holds(v) /\ codes[k].code = req[v].code
        /\ purpose(g) = purpose(k) /\ codes[g].user_id = codes[k].user_id
        => ~(k \in req[g].before /\ g \in req[v].before)

LEMMA NotSupersededNext ==
    ASSUME TypeInv, BeforeOver, Unique, Superseded, NotSuperseded, [Next]_vars
    PROVE  NotSuperseded'
<1> SUFFICES ASSUME NEW v \in Requests, NEW k \in DOMAIN codes', NEW g \in DOMAIN codes',
                    Holds(v)', codes'[k].code = req'[v].code,
                    purpose(g)' = purpose(k)', codes'[g].user_id = codes'[k].user_id,
                    k \in req'[g].before, g \in req'[v].before
             PROVE  FALSE
  BY DEF NotSuperseded
<1>1. /\ RowStep /\ HoldStep(v) /\ Unique'
      /\ \A q \in Requests : Steady(q)
  BY RowsGrow, HoldSteps, CallsAreSteady, UniqueNext
<1>2. Over(g)
  BY <1>1 DEF Steady, BeforeOver, TypeInv, TypeOK, IsTable
<1>3. /\ g \in DOMAIN codes /\ g \in Requests /\ req[g].pc # "idle"
      /\ codes[g].user_id = req[g].user
  BY <1>1, <1>2 DEF RowStep, TypeInv, TypeOK, IsTable, RowsBelong
<1>4. k \in req[g].before
  BY <1>1, <1>3 DEF Steady
<1>5. k \in DOMAIN codes
  BY <1>1, <1>3, <1>4 DEF RowStep, BeforeOver
<1>6. /\ purpose(g) = purpose(k) /\ codes[g].user_id = codes[k].user_id
      /\ codes[k].code = req'[v].code
  BY <1>1, <1>3, <1>5 DEF RowStep
<1>7. CASE Peeked(v)
  <2>1. PICK j \in DOMAIN codes : RowOf(v, j)' /\ ~codes[j].used
    BY <1>7 DEF Peeked
  <2>2. j = k
    BY <1>1, <2>1 DEF RowOf, Unique, RowStep
  <2>3. codes[k].used
    BY <1>3, <1>4, <1>5, <1>6 DEF Superseded, Past
  <2> QED
    BY <2>1, <2>2, <2>3
<1>8. CASE Holds(v)
  <2>1. req'[v].code = req[v].code /\ req'[v].before = req[v].before
    BY <1>1, <1>8 DEF Steady, Holds, Redeeming
  <2> QED
    BY <1>3, <1>4, <1>5, <1>6, <1>8, <2>1 DEF NotSuperseded
<1> QED
  BY <1>1, <1>7, <1>8 DEF HoldStep

CodesInv ==
    /\ TypeInv /\ BeforeOver
    /\ Unique /\ Holding /\ Superseded
    /\ SpentOnce /\ NotSuperseded

LEMMA CodesInit == Init => CodesInv
<1> SUFFICES ASSUME Init PROVE CodesInv
  OBVIOUS
<1>1. TypeInv /\ BeforeOver
  BY TypeInit, StoredInit
<1>2. /\ DOMAIN codes = {}
      /\ \A r \in Requests : req[r].pc = "idle"
  BY DEF Init
<1> QED
  BY <1>1, <1>2
     DEF CodesInv, Unique, Holding, Superseded, SpentOnce, NotSuperseded, Holds, Redeeming

LEMMA CodesNext == CodesInv /\ [Next]_vars => CodesInv'
  BY TypeNext, BeforeNext, UniqueNext, HoldingNext, SupersededNext, SpentOnceNext,
     NotSupersededNext DEF CodesInv

(* A mailed code works for one call, and for no call that began after a    *)
(* later mail for the same account and purpose was answered, for any       *)
(* number of calls: consume is one UPDATE, and every mail first marks what *)
(* was mailed before it (AuthTokenRepository.issueWithToken, consume).     *)
THEOREM CodesAreSpentOnce == Spec => []CodeSpentOnce
<1>1. CodesInv => CodeSpentOnce
  <2> SUFFICES ASSUME CodesInv PROVE CodeSpentOnce
    OBVIOUS
  <2>1. \A r \in Requests : \A c :
          HasSpent(r, c) => Holds(r) /\ req[r].pc \in Spent /\ req[r].code = c
    BY DEF HasSpent, Holds, Spent, Redeeming
  <2> QED
    BY <2>1 DEF CodeSpentOnce, CodesInv, SpentOnce, NotSuperseded
<1> QED
  BY <1>1, CodesInit, CodesNext, PTL DEF Spec

-----------------------------------------------------------------------------
(* Which address a code speaks for. *)

(* Account u has been given another address since it was made. *)
Moved(u) ==
    \E p \in Requests :
        /\ req[p].kind = "updateProfile" /\ req[p].user = u /\ req[p].changed
        /\ req[p].pc \notin {"idle", "findEmail", "findPhone", "update", "refused"}

(* The address of call q is the one of its account, or was. *)
HasAddress(q) ==
    users[req[q].user].email = req[q].email \/ Moved(req[q].user)

(* The calls that were compared with the row: a reset mail is addressed by *)
(* the row, a reset is accepted after the comparison, and a profile update *)
(* whose address counts as unchanged was compared with it.                 *)
Compared(q) ==
    \/ req[q].kind = "forgotPassword" /\ (req[q].pc \in Mailing \/ q \in DOMAIN codes)
    \/ req[q].kind = "resetPassword" /\ req[q].pc \in {"consume", "verify", "ok"}
    \/ /\ req[q].kind = "updateProfile" /\ ~req[q].changed /\ req[q].email # None
       /\ req[q].pc \in {"findEmail", "findPhone", "update"}

Addresses == \A q \in Requests : Compared(q) => HasAddress(q)

JustCompared(q) ==
    users' = users /\ users[req'[q].user].email = req'[q].email

CompareStep(q) ==
    Compared(q)' => \/ Compared(q) /\ req'[q].user = req[q].user /\ req'[q].email = req[q].email
                    \/ JustCompared(q)

LEMMA CompareSteps ==
    ASSUME TypeInv, [Next]_vars, NEW q \in Requests
    PROVE  CompareStep(q)
<1> SUFFICES ASSUME Compared(q)', req'[q] # req[q] \/ q \notin DOMAIN codes
             PROVE  \/ Compared(q) /\ req'[q].user = req[q].user /\ req'[q].email = req[q].email
                    \/ JustCompared(q)
  BY DEF CompareStep, Compared
<1>0. /\ TypeOK /\ req \in [Requests -> Call] /\ req[q].user \in DOMAIN users
      /\ {"ok", "refused", "create", "findPhone", "update", "consume"} \subseteq PCs
      /\ q \in DOMAIN codes => req[q].kind \in Mailers /\ req[q].pc \in {"send", "ok"}
  BY DEF TypeInv, TypeOK, UsersKnown, RowsBelong, PCs, Steps, Outcomes
<1>1. CASE Register(q)
  BY <1>0, <1>1, RegisterStep DEF Fresh, Compared
<1>2. CASE Resend(q)
  BY <1>0, <1>2, ResendStep DEF Fresh, Compared
<1>3. CASE Forgot(q)
  <2>1. UNCHANGED <<users, codes>>
    BY <1>3 DEF Forgot
  <2> QED
    BY <1>0, <1>3, <2>1, ForgotStep DEF Fresh, Compared, JustCompared, Holders, Mailing
<1>4. CASE Profile(q)
  <2>1. UNCHANGED <<users, codes>>
    BY <1>4 DEF Profile
  <2> QED
    BY <1>0, <1>4, <2>1, ProfileStep DEF Fresh, Compared, JustCompared
<1>5. CASE Peek(q)
  BY <1>0, <1>5, PeekStep DEF Fresh, Compared
<1>6. CASE RegisterDuplicate(q) \/ InsertCollides(q) \/ ProfileDuplicate(q)
  <2>1. Fails(q) /\ UNCHANGED codes
    BY <1>0, <1>6, ThrowMoves DEF RegisterDuplicate, InsertCollides, ProfileDuplicate
  <2> QED
    BY <2>1 DEF Fails, Stands, Compared
<1>7. CASE RegisterPhone(q) \/ TooLate(q)
  <2>1. PICK next \in {"refused", "create"} :
          /\ Goto(q, next)
          /\ \/ req[q].kind = "register"
             \/ next = "refused" /\ req[q].kind \in Redeemers
    BY <1>7 DEF RegisterPhone, TooLate, At
  <2>2. Moves(q, next)
    BY <1>0, <2>1, GotoMoves
  <2> QED
    BY <2>1, <2>2 DEF Moves, Compared, Redeemers
<1>8. CASE SendFails(q)
  <2>1. /\ Goto(q, "ok") /\ UNCHANGED codes
        /\ req[q].pc = "send" /\ req[q].kind \in Mailers
    BY <1>8 DEF SendFails, At
  <2>2. Moves(q, "ok") /\ Stands(q)
    BY <1>0, <2>1, GotoMoves
  <2> QED
    BY <2>1, <2>2 DEF Moves, Stands, Compared, Mailing, Mailers
<1>9. CASE ProfileEmail(q) \/ ProfilePhone(q)
  <2>1. PICK next \in {"refused", "findPhone", "update"} : Goto(q, next)
    BY <1>9 DEF ProfileEmail, ProfilePhone
  <2>2. req[q].kind = "updateProfile" /\ req[q].pc \in {"findEmail", "findPhone"}
    BY <1>9 DEF ProfileEmail, ProfilePhone, At
  <2>3. Moves(q, next) /\ Stands(q)
    BY <1>0, <2>1, GotoMoves
  <2> QED
    BY <2>2, <2>3 DEF Moves, Stands, Compared
<1>10. CASE CheckEmail(q)
  <2>1. /\ Goto(q, IF users[req[q].user].email = req[q].email THEN "consume" ELSE "refused")
        /\ UNCHANGED <<users, codes>> /\ req[q].kind \in Redeemers
    BY <1>10 DEF CheckEmail, At
  <2>2. PICK next \in {"consume", "refused"} :
          /\ Moves(q, next) /\ Stands(q)
          /\ next = "consume" => users[req[q].user].email = req[q].email
    BY <1>0, <2>1, GotoMoves
  <2> QED
    BY <2>1, <2>2 DEF Moves, Stands, Compared, JustCompared, Redeemers
<1>11. CASE Consume(q) \/ Verify(q)
  <2>1. /\ req[q].kind \in Redeemers /\ UNCHANGED mails
        /\ req[q].pc = "consume" \/ req[q].kind = "verifyEmail"
    BY <1>11 DEF Consume, Verify, At, Redeemers
  <2>2. Stands(q) /\ req'[q].kind = req[q].kind
    BY <1>11, TableMoves DEF Moves
  <2> QED
    BY <2>1, <2>2 DEF Stands, Compared, Redeemers
<1>12. CASE Invalidate(q) \/ InsertCode(q) \/ Send(q) \/ ProfileUpdate(q)
  <2>1. /\ req[q].kind \in Mailers
        /\ req[q].pc \in Mailing \/ req[q].kind = "updateProfile"
    BY <1>12 DEF Invalidate, InsertCode, Send, ProfileUpdate, At, Mailers, Mailing
  <2>2. /\ Stands(q) /\ req'[q].kind = req[q].kind /\ req'[q].changed = req[q].changed
        /\ req'[q].pc \in {"reread", "ok", "insertCode", "send", "verify"}
    BY <1>12, TableMoves DEF Moves
  <2> QED
    BY <2>1, <2>2 DEF Stands, Compared, Mailers
<1>13. CASE RegisterCreate(q) \/ ProfileReread(q)
  <2>1. /\ req'[q].kind \in {"register", "updateProfile"}
        /\ req'[q].pc = "invalidate"
    BY <1>0, <1>13, CreateMoves, RereadMoves DEF Moves, RegisterCreate, ProfileReread, At
  <2> QED
    BY <2>1 DEF Compared
<1>14. CASE req'[q] = req[q]
  <2>1. q \in DOMAIN codes' => q \in DOMAIN codes \/ req[q].pc = "insertCode"
    BY RowsGrow DEF RowStep
  <2> QED
    BY <1>14, <2>1 DEF Compared, Mailing
<1>15. ASSUME NEW r \in Requests, r # q,
              \/ Quietly(r) \/ RegisterCreate(r) \/ Invalidate(r) \/ InsertCode(r)
              \/ Send(r) \/ ProfileUpdate(r) \/ Consume(r) \/ Verify(r)
       PROVE  req'[q] = req[q]
  BY <1>15, PhoneSteps DEF PhoneStep, OthersStay
<1>16. ASSUME NEW r \in Requests, Lapse(r)
       PROVE  req'[q] = req[q]
  BY <1>16 DEF Lapse
<1> QED
  BY <1>1, <1>2, <1>3, <1>4, <1>5, <1>6, <1>7, <1>8, <1>9, <1>10, <1>11, <1>12, <1>13, <1>14,
     <1>15, <1>16
     DEF Next, Quiet, Quietly, vars

(* An address changes only with a call that has the account moved. *)
MoveStep ==
    /\ DOMAIN users \subseteq DOMAIN users'
    /\ \A u \in DOMAIN users :
         /\ Moved(u) => Moved(u)'
         /\ users'[u].email = users[u].email \/ Moved(u)'

LEMMA MovedStays ==
    ASSUME TypeInv, [Next]_vars, NEW u, Moved(u)
    PROVE  Moved(u)'
<1>1. PICK p \in Requests :
        /\ req[p].kind = "updateProfile" /\ req[p].user = u /\ req[p].changed
        /\ req[p].pc \notin {"idle", "findEmail", "findPhone", "update", "refused"}
  BY DEF Moved
<1>2. Steady(p)
  BY CallsAreSteady
<1>3. HasStored(p)
  BY <1>1 DEF HasStored
<1>4. HasStored(p)'
  <2>1. ASSUME NEW r \in Requests, PhoneStep(r)
        PROVE  HasStored(p)'
    BY <1>1, <1>3, <2>1 DEF PhoneStep, OthersStay, HasStored
  <2>2. CASE UNCHANGED <<users, req>>
    BY <1>3, <2>2 DEF HasStored
  <2> QED
    BY <2>1, <2>2, PhoneSteps DEF Next, Quiet, Quietly, Lapse, vars
<1>5. /\ req'[p].kind = "updateProfile" /\ req'[p].user = u /\ req'[p].changed
  BY <1>1, <1>2 DEF Steady
<1> QED
  BY <1>4, <1>5 DEF Moved, HasStored

LEMMA MoveSteps ==
    ASSUME TypeInv, Addresses, [Next]_vars
    PROVE  MoveStep
<1>1. \A u \in DOMAIN users : Moved(u) => Moved(u)'
  BY MovedStays
<1>2. ASSUME NEW r \in Requests, RegisterCreate(r) \/ Verify(r)
      PROVE  MoveStep
  BY <1>1, <1>2, CreateUsers, VerifyUsers DEF MoveStep
<1>3. ASSUME NEW r \in Requests, ProfileUpdate(r)
      PROVE  MoveStep
  <2>0. PICK a : a = req[r].user
    OBVIOUS
  <2>1. /\ DOMAIN users' = DOMAIN users /\ a \in DOMAIN users
        /\ users'[a].email = IF req[r].email = None THEN users[a].email ELSE req[r].email
        /\ \A b \in DOMAIN users : b # a => users'[b] = users[b]
    BY <1>3, <2>0, ProfileUsers
  <2>2. req[r].kind = "updateProfile" /\ req[r].pc = "update"
    BY <1>3 DEF ProfileUpdate, At
  <2>3. CASE req[r].changed
    <3>1. Moves(r, "reread") /\ Stands(r)
      BY <1>3, <2>2, <2>3, TableMoves DEF Consume, Redeemers, At
    <3>2. Moved(a)'
      BY <2>0, <2>2, <2>3, <3>1 DEF Moves, Stands, Moved
    <3> QED
      BY <1>1, <2>1, <3>2 DEF MoveStep
  <2>4. CASE ~req[r].changed
    <3>1. req[r].email = None \/ users[a].email = req[r].email \/ Moved(a)
      BY <2>0, <2>2, <2>4 DEF Addresses, Compared, HasAddress
    <3>2. users'[a].email = users[a].email \/ Moved(a)'
      BY <1>1, <2>1, <3>1
    <3> QED
      BY <1>1, <2>1, <3>2 DEF MoveStep
  <2> QED
    BY <2>3, <2>4
<1>4. CASE UNCHANGED users
  BY <1>1, <1>4 DEF MoveStep
<1>5. ASSUME NEW r \in Requests,
             \/ Quietly(r) \/ Invalidate(r) \/ InsertCode(r) \/ Send(r) \/ Consume(r)
             \/ Lapse(r)
      PROVE  UNCHANGED users
  BY <1>5 DEF Quietly, Register, RegisterPhone, RegisterDuplicate, Resend, Forgot,
     InsertCollides, SendFails, Profile, ProfileEmail, ProfilePhone, ProfileDuplicate,
     ProfileReread, Peek, CheckEmail, TooLate, Invalidate, InsertCode, Send, Consume, Lapse
<1> QED
  BY <1>2, <1>3, <1>4, <1>5 DEF Next, Quiet, Quietly, vars

LEMMA AddressesNext ==
    ASSUME TypeInv, Addresses, [Next]_vars
    PROVE  Addresses'
<1> SUFFICES ASSUME NEW q \in Requests, Compared(q)' PROVE HasAddress(q)'
  BY DEF Addresses
<1>1. MoveStep /\ CompareStep(q) /\ TypeInv'
  BY MoveSteps, CompareSteps, TypeNext
<1>2. req[q].user \in DOMAIN users /\ req'[q].user \in DOMAIN users'
  BY <1>1 DEF TypeInv, UsersKnown
<1>3. CASE Compared(q) /\ req'[q].user = req[q].user /\ req'[q].email = req[q].email
  <2>0. PICK u : u = req[q].user
    OBVIOUS
  <2>1. users[u].email = req[q].email \/ Moved(u)
    BY <1>3, <2>0 DEF Addresses, HasAddress
  <2>2. users'[u].email = req[q].email \/ Moved(u)'
    BY <1>1, <1>2, <2>0, <2>1 DEF MoveStep
  <2> QED
    BY <1>3, <2>0, <2>2 DEF HasAddress, Moved
<1>4. CASE JustCompared(q)
  BY <1>4 DEF JustCompared, HasAddress
<1> QED
  BY <1>1, <1>3, <1>4 DEF CompareStep

AddressInv == CodesInv /\ Addresses

LEMMA AddressInit == Init => AddressInv
<1> SUFFICES ASSUME Init PROVE AddressInv
  OBVIOUS
<1>1. \A r \in Requests : req[r].kind = "register"
  BY DEF Init
<1> QED
  BY <1>1, CodesInit DEF AddressInv, Addresses, Compared

LEMMA AddressNext == AddressInv /\ [Next]_vars => AddressInv'
  BY CodesNext, AddressesNext DEF AddressInv, CodesInv

LEMMA ResetIsMatched == AddressInv => ResetMatchesMail
<1> SUFFICES ASSUME AddressInv,
                    NEW r \in Requests, NEW k \in DOMAIN codes \cap DOMAIN mails,
                    purpose(k) = "password_reset", HasSpent(r, codes[k].code)
             PROVE  req[r].email = mails[k] \/ Moved(codes[k].user_id)
  BY DEF ResetMatchesMail, Moved
<1>0. TypeInv /\ Unique /\ Holding /\ Addresses
  BY DEF AddressInv, CodesInv
<1>1. Holds(r) /\ req[r].code = codes[k].code
  BY DEF HasSpent, Holds, Redeeming
<1>2. PICK j \in DOMAIN codes : RowOf(r, j)
  BY <1>0, <1>1 DEF Holding
<1>3. j = k
  BY <1>0, <1>1, <1>2 DEF RowOf, Unique
<1>4. req[r].kind = "resetPassword" /\ codes[k].user_id = req[r].user
  BY <1>2, <1>3 DEF RowOf
<1>5. req[r].pc \in {"verify", "ok"}
  BY DEF HasSpent
<1>6. /\ k \in Requests /\ codes[k].user_id = req[k].user /\ mails[k] = req[k].email
      /\ req[k].kind = "forgotPassword"
  BY <1>0 DEF TypeInv, TypeOK, IsTable, RowsBelong, purpose
<1>7. HasAddress(r) /\ HasAddress(k)
  BY <1>0, <1>4, <1>5, <1>6 DEF Addresses, Compared
<1> QED
  BY <1>4, <1>6, <1>7 DEF HasAddress

(* A reset is accepted with the address its link was mailed to unless the  *)
(* account has changed its address since, for any number of calls: the     *)
(* address is compared with the row, not with the mail                     *)
(* (AuthService.resetPassword).                                            *)
THEOREM ResetsMatchMails == Spec => []ResetMatchesMail
  BY AddressInit, AddressNext, ResetIsMatched, PTL DEF Spec

-----------------------------------------------------------------------------
(* Verified addresses.  A call that changes an address of account a has    *)
(* failed or was not alone.                                                *)
Troubled(a) ==
    \E p \in Requests :
        /\ req[p].kind = "updateProfile" /\ req[p].pc # "idle" /\ req[p].user = a
        /\ req[p].failed \/ \E q \in Requests : Overlap(p, q)

(* The address of a has changed and what was mailed before still works. *)
ReplacedBy(p, a) ==
    /\ req[p].kind = "updateProfile" /\ req[p].user = a
    /\ req[p].pc \in {"reread", "invalidate"} /\ ~req[p].failed

Replacing(a) == \E p \in Requests : ReplacedBy(p, a)

Mails(q) == req[q].kind \in Mailers /\ req[q].pc \in Mailing /\ ~req[q].failed

Verifies(q) == req[q].kind = "verifyEmail" /\ req[q].pc = "verify" /\ ~req[q].failed

MarkIsProven(a) == users[a].verified => <<a, users[a].email>> \in proven

MailsGoToRow(a) ==
    \A q \in Requests : Mails(q) /\ req[q].user = a => req[q].email = users[a].email

UpdatesKeepRow(a) ==
    \A q \in Requests :
        /\ req[q].kind = "updateProfile" /\ req[q].user = a /\ ~req[q].changed
        /\ req[q].pc \in {"findEmail", "findPhone", "update"}
        => req[q].email \in {None, users[a].email}

CodesSpeakForRow(a) ==
    \A k \in DOMAIN codes \cap DOMAIN mails :
        /\ codes[k].user_id = a /\ ~codes[k].used /\ purpose(k) = "email_verification"
        => mails[k] = users[a].email \/ Replacing(a)

ShownForRow(a) ==
    \A q \in Requests : Verifies(q) /\ req[q].user = a => <<a, users[a].email>> \in proven

Good(a) ==
    /\ MarkIsProven(a) /\ MailsGoToRow(a) /\ UpdatesKeepRow(a)
    /\ CodesSpeakForRow(a) /\ ShownForRow(a)

GoodInv == \A a \in DOMAIN users : Troubled(a) \/ Good(a)

LEMMA TroubledStays ==
    ASSUME TypeInv, [Next]_vars, NEW a, Troubled(a)
    PROVE  Troubled(a)'
<1>1. PICK p \in Requests :
        /\ req[p].kind = "updateProfile" /\ req[p].pc # "idle" /\ req[p].user = a
        /\ req[p].failed \/ \E q \in Requests : Overlap(p, q)
  BY DEF Troubled
<1>2. \A q \in Requests : Steady(q)
  BY CallsAreSteady
<1>3. \A q \in Requests : Overlap(p, q) => Overlap(p, q)'
  BY <1>2 DEF Overlap, Steady
<1>4. /\ req'[p].kind = "updateProfile" /\ req'[p].pc # "idle" /\ req'[p].user = a
      /\ req[p].failed => req'[p].failed
  BY <1>1, <1>2 DEF Steady
<1> QED
  BY <1>1, <1>3, <1>4 DEF Troubled

(* Two calls in flight overlap. *)
LEMMA InFlightOverlap ==
    ASSUME BeforeOver, NEW p \in Requests, NEW q \in Requests, p # q,
           req[p].pc # "idle", req[q].pc # "idle", ~Over(p), ~Over(q)
    PROVE  Overlap(p, q)
  BY DEF BeforeOver, Overlap

MailStep(q) ==
    Mails(q)' =>
        \/ Mails(q) /\ req'[q].user = req[q].user /\ req'[q].email = req[q].email
        \/ RegisterCreate(q)
        \/ users' = users /\ req'[q].email = users[req'[q].user].email

VerifyStep(q) ==
    Verifies(q)' =>
        \/ Verifies(q) /\ req'[q].user = req[q].user
        \/ Consume(q) /\ req[q].kind = "verifyEmail" /\ req'[q].user = req[q].user

ReplaceStep(q) ==
    \A a : ReplacedBy(q, a) => ReplacedBy(q, a)' \/ Invalidate(q)

CallStep(q) == MailStep(q) /\ VerifyStep(q) /\ ReplaceStep(q)

LEMMA CallSteps ==
    ASSUME TypeInv, [Next]_vars, NEW q \in Requests
    PROVE  CallStep(q)
<1>0. /\ TypeOK /\ req \in [Requests -> Call] /\ req[q].user \in DOMAIN users
      /\ {"ok", "refused", "create", "findPhone", "update", "consume"} \subseteq PCs
  BY DEF TypeInv, TypeOK, UsersKnown, PCs, Steps, Outcomes
<1>1. CASE Register(q)
  BY <1>0, <1>1, RegisterStep
     DEF Fresh, CallStep, MailStep, VerifyStep, ReplaceStep, Mails, Verifies, ReplacedBy, Mailing
<1>2. CASE Resend(q) \/ Forgot(q)
  <2>1. UNCHANGED users
    BY <1>2 DEF Resend, Forgot
  <2> QED
    BY <1>0, <1>2, <2>1, ResendStep, ForgotStep
       DEF Fresh, CallStep, MailStep, VerifyStep, ReplaceStep, Mails, Verifies, ReplacedBy,
           Mailing, Holders
<1>3. CASE Profile(q)
  BY <1>0, <1>3, ProfileStep
     DEF Fresh, CallStep, MailStep, VerifyStep, ReplaceStep, Mails, Verifies, ReplacedBy, Mailing
<1>4. CASE Peek(q)
  BY <1>0, <1>4, PeekStep
     DEF Fresh, CallStep, MailStep, VerifyStep, ReplaceStep, Mails, Verifies, ReplacedBy, Mailing
<1>5. CASE RegisterDuplicate(q) \/ InsertCollides(q) \/ ProfileDuplicate(q)
  <2>1. Fails(q) /\ req[q].pc \in {"create", "insertCode", "update"}
    BY <1>0, <1>5, ThrowMoves DEF RegisterDuplicate, InsertCollides, ProfileDuplicate, At
  <2> QED
    BY <2>1 DEF Fails, CallStep, MailStep, VerifyStep, ReplaceStep, Mails, Verifies, ReplacedBy
<1>6. CASE \/ RegisterPhone(q) \/ ProfileEmail(q) \/ ProfilePhone(q)
           \/ CheckEmail(q) \/ TooLate(q) \/ SendFails(q)
  <2>1. PICK next \in {"ok", "refused", "create", "findPhone", "update", "consume"} : Goto(q, next)
    BY <1>6 DEF RegisterPhone, ProfileEmail, ProfilePhone, CheckEmail, TooLate, SendFails
  <2>2. Moves(q, next) /\ req[q].pc \in {"findPhone", "findEmail", "checkEmail", "consume", "send"}
    BY <1>0, <1>6, <2>1, GotoMoves
       DEF RegisterPhone, ProfileEmail, ProfilePhone, CheckEmail, TooLate, SendFails, At
  <2> QED
    BY <2>2 DEF Moves, CallStep, MailStep, VerifyStep, ReplaceStep, Mails, Verifies, ReplacedBy,
                Mailing
<1>7. CASE RegisterCreate(q)
  <2>1. Moves(q, "invalidate") /\ req[q].kind = "register"
    BY <1>0, <1>7, CreateMoves DEF RegisterCreate, At
  <2> QED
    BY <1>7, <2>1 DEF Moves, CallStep, MailStep, VerifyStep, ReplaceStep, Verifies, ReplacedBy
<1>8. CASE ProfileReread(q)
  <2>1. /\ Moves(q, "invalidate") /\ UNCHANGED users
        /\ req'[q].user = req[q].user /\ req'[q].email = users[req[q].user].email
    BY <1>0, <1>8, RereadMoves DEF ProfileReread
  <2> QED
    BY <2>1 DEF Moves, CallStep, MailStep, VerifyStep, ReplaceStep, Mails, Verifies, ReplacedBy
<1>9. CASE Invalidate(q) \/ InsertCode(q) \/ Send(q)
  <2>1. /\ req[q].pc \in Mailing /\ Stands(q)
        /\ req'[q].kind = req[q].kind /\ req'[q].failed = req[q].failed
        /\ req'[q].pc # "verify" /\ req[q].pc # "reread"
        /\ req[q].pc = "invalidate" => Invalidate(q)
    BY <1>9, TableMoves DEF Moves, Invalidate, InsertCode, Send, At, Mailing
  <2> QED
    BY <2>1 DEF Stands, CallStep, MailStep, VerifyStep, ReplaceStep, Mails, Verifies, ReplacedBy
<1>10. CASE ProfileUpdate(q) \/ Verify(q) \/ Consume(q)
  <2>1. PICK next \in {"reread", "ok", "verify"} :
          /\ Moves(q, next) /\ Stands(q)
          /\ next = "verify" => Consume(q) /\ req[q].kind = "verifyEmail"
    BY <1>10, TableMoves
  <2>2. req[q].pc \in {"update", "verify", "consume"}
    BY <1>10 DEF ProfileUpdate, Verify, Consume, At
  <2> QED
    BY <2>1, <2>2 DEF Moves, Stands, CallStep, MailStep, VerifyStep, ReplaceStep, Mails,
                      Verifies, ReplacedBy, Mailing
<1>11. CASE req'[q] = req[q]
  BY <1>11 DEF CallStep, MailStep, VerifyStep, ReplaceStep, Mails, Verifies, ReplacedBy
<1>12. ASSUME NEW r \in Requests, r # q,
              \/ Quietly(r) \/ RegisterCreate(r) \/ Invalidate(r) \/ InsertCode(r)
              \/ Send(r) \/ ProfileUpdate(r) \/ Consume(r) \/ Verify(r)
       PROVE  req'[q] = req[q]
  BY <1>12, PhoneSteps DEF PhoneStep, OthersStay
<1>13. ASSUME NEW r \in Requests, Lapse(r)
       PROVE  req'[q] = req[q]
  BY <1>13 DEF Lapse
<1> QED
  BY <1>1, <1>2, <1>3, <1>4, <1>5, <1>6, <1>7, <1>8, <1>9, <1>10, <1>11, <1>12, <1>13
     DEF Next, Quiet, Quietly, vars

LEMMA MailsGrow ==
    ASSUME TypeInv, [Next]_vars, NEW k \in DOMAIN mails'
    PROVE  /\ k \in DOMAIN codes
           /\ \/ k \in DOMAIN mails /\ mails'[k] = mails[k]
              \/ Mails(k) /\ mails'[k] = req[k].email
<1>1. ASSUME NEW r \in Requests, Send(r)
      PROVE  /\ k \in DOMAIN codes
             /\ \/ k \in DOMAIN mails /\ mails'[k] = mails[k]
                \/ Mails(k) /\ mails'[k] = req[k].email
  <2>1. /\ Mails(r) /\ r \in DOMAIN codes
        /\ mails' = Insert(mails, r, req[r].email)
    BY <1>1 DEF Send, At, Mails, Mailing, TypeInv, RowsBelong
  <2> QED
    BY <2>1 DEF Insert, TypeInv, RowsBelong
<1>2. CASE UNCHANGED mails
  BY <1>2 DEF TypeInv, RowsBelong
<1>3. ASSUME NEW r \in Requests,
             \/ Quietly(r) \/ RegisterCreate(r) \/ Invalidate(r) \/ InsertCode(r)
             \/ ProfileUpdate(r) \/ Consume(r) \/ Verify(r) \/ Lapse(r)
      PROVE  UNCHANGED mails
  BY <1>3 DEF Quietly, Register, RegisterPhone, RegisterDuplicate, Resend, Forgot,
     InsertCollides, SendFails, Profile, ProfileEmail, ProfilePhone, ProfileDuplicate,
     ProfileReread, Peek, CheckEmail, TooLate, RegisterCreate, Invalidate, InsertCode,
     ProfileUpdate, Consume, Verify, Lapse
<1> QED
  BY <1>1, <1>2, <1>3 DEF Next, Quiet, Quietly, vars

(* A step that leaves the address of a alone. *)
LEMMA GoodStays ==
    ASSUME TypeInv, BeforeOver, [Next]_vars, NEW a \in DOMAIN users, Good(a),
           users'[a].email = users[a].email,
           users'[a].verified => <<a, users[a].email>> \in proven,
           proven \subseteq proven',
           \A r \in Requests : Consume(r) /\ req[r].kind = "verifyEmail" /\ req[r].user = a
                               => <<a, users[a].email>> \in proven'
    PROVE  Good(a)'
<1>0. \A q \in Requests : CallStep(q) /\ CompareStep(q) /\ Steady(q)
  BY CallSteps, CompareSteps, CallsAreSteady
<1>1. MarkIsProven(a)'
  BY DEF MarkIsProven
<1>2. MailsGoToRow(a)'
  <2> SUFFICES ASSUME NEW q \in Requests, Mails(q)', req'[q].user = a
               PROVE  req'[q].email = users'[a].email
    BY DEF MailsGoToRow
  <2>1. CASE Mails(q) /\ req'[q].user = req[q].user /\ req'[q].email = req[q].email
    BY <2>1 DEF Good, MailsGoToRow
  <2>2. CASE RegisterCreate(q)
    BY <2>2, CreateMoves, CreateUsers DEF TypeInv
  <2>3. CASE users' = users /\ req'[q].email = users[req'[q].user].email
    BY <2>3
  <2> QED
    BY <1>0, <2>1, <2>2, <2>3 DEF CallStep, MailStep
<1>3. UpdatesKeepRow(a)'
  <2> SUFFICES ASSUME NEW q \in Requests,
                      req'[q].kind = "updateProfile", req'[q].user = a, ~req'[q].changed,
                      req'[q].pc \in {"findEmail", "findPhone", "update"},
                      req'[q].email # None
               PROVE  req'[q].email = users'[a].email
    BY DEF UpdatesKeepRow
  <2>1. CompareStep(q) /\ Steady(q) /\ Compared(q)'
    BY <1>0 DEF Compared
  <2>2. CASE Compared(q) /\ req'[q].user = req[q].user /\ req'[q].email = req[q].email
    <3>1. req[q].pc # "idle"
      BY <2>2 DEF Compared, TypeInv, RowsBelong, Mailing
    <3>2. req[q].kind = "updateProfile"
      BY <2>1, <3>1 DEF Steady
    <3> QED
      BY <2>2, <3>2 DEF Compared, Good, UpdatesKeepRow
  <2>3. CASE JustCompared(q)
    BY <2>3 DEF JustCompared
  <2> QED
    BY <2>1, <2>2, <2>3 DEF CompareStep
<1>4. CodesSpeakForRow(a)'
  <2> SUFFICES ASSUME NEW k \in DOMAIN codes', k \in DOMAIN mails',
                      codes'[k].user_id = a, ~codes'[k].used,
                      purpose(k)' = "email_verification"
               PROVE  mails'[k] = users'[a].email \/ Replacing(a)'
    BY DEF CodesSpeakForRow
  <2>1. /\ k \in DOMAIN codes
        /\ \/ k \in DOMAIN mails /\ mails'[k] = mails[k]
           \/ Mails(k) /\ mails'[k] = req[k].email
    BY MailsGrow
  <2>2. RowStep
    BY RowsGrow
  <2>3. /\ codes[k].user_id = a /\ ~codes[k].used /\ purpose(k) = "email_verification"
        /\ k \in Requests /\ codes[k].user_id = req[k].user
    BY <2>1, <2>2 DEF RowStep, TypeInv, TypeOK, IsTable, RowsBelong
  <2>4. CASE Mails(k) /\ mails'[k] = req[k].email
    BY <2>3, <2>4 DEF Good, MailsGoToRow
  <2>5. CASE k \in DOMAIN mails /\ mails'[k] = mails[k]
    <3>1. mails[k] = users[a].email \/ Replacing(a)
      BY <2>1, <2>3, <2>5 DEF Good, CodesSpeakForRow
    <3>2. ASSUME NEW p \in Requests, ReplacedBy(p, a)
          PROVE  ReplacedBy(p, a)'
      <4>1. ASSUME Invalidate(p)
            PROVE  FALSE
        <5>1. purpose(p) = "email_verification" /\ req[p].user = a
          BY <3>2 DEF ReplacedBy, purpose
        <5> QED
          BY <2>1, <2>3, <4>1, <5>1, InvalidateCodes
      <4> QED
        BY <1>0, <3>2, <4>1 DEF CallStep, ReplaceStep
    <3> QED
      BY <2>5, <3>1, <3>2 DEF Replacing
  <2> QED
    BY <2>1, <2>4, <2>5
<1>5. ShownForRow(a)'
  BY <1>0 DEF CallStep, VerifyStep, Good, ShownForRow
<1> QED
  BY <1>1, <1>2, <1>3, <1>4, <1>5 DEF Good

(* What a call shows is what was mailed to the account's address. *)
LEMMA ConsumeShows ==
    ASSUME CodesInv, NEW a \in DOMAIN users, Good(a), ~Troubled(a),
           NEW r \in Requests, Consume(r), req[r].kind = "verifyEmail", req[r].user = a
    PROVE  <<a, users[a].email>> \in proven'
<1>0. TypeInv /\ BeforeOver /\ Unique /\ Holding
  BY DEF CodesInv
<1>1. req[r].pc = "consume" /\ ~Over(r) /\ Holds(r)
  BY DEF Consume, At, Over, Outcomes, Holds, Redeeming
<1>2. PICK k \in DOMAIN codes :
        codes[k].code = req[r].code /\ ~codes[k].used /\ proven' = Shown({k})
  BY <1>0, ConsumeCodes
<1>3. PICK j \in DOMAIN codes : RowOf(r, j)
  BY <1>0, <1>1 DEF Holding
<1>4. j = k
  BY <1>0, <1>2, <1>3 DEF Unique, RowOf
<1>5. /\ k \in DOMAIN mails /\ codes[k].user_id = a
      /\ purpose(k) = "email_verification"
  BY <1>3, <1>4 DEF RowOf, purpose
<1>6. mails[k] = users[a].email \/ Replacing(a)
  BY <1>2, <1>5 DEF Good, CodesSpeakForRow
<1>7. ~Replacing(a)
  <2> SUFFICES ASSUME NEW p \in Requests, ReplacedBy(p, a) PROVE FALSE
    BY DEF Replacing
  <2>1. p # r /\ req[p].pc # "idle" /\ ~Over(p)
    BY DEF ReplacedBy, Over, Outcomes
  <2>2. Overlap(p, r)
    BY <1>0, <1>1, <2>1, InFlightOverlap
  <2> QED
    BY <2>1, <2>2 DEF Troubled, ReplacedBy
<1> QED
  BY <1>2, <1>5, <1>6, <1>7 DEF Shown

(* The step that gives a another address, with no other call in flight. *)
LEMMA GoodChanges ==
    ASSUME TypeInv, BeforeOver, [Next]_vars, NEW a \in DOMAIN users, Good(a), ~Troubled(a),
           NEW r \in Requests, ProfileUpdate(r), req[r].user = a, req[r].changed
    PROVE  Good(a)'
<1>1. /\ req[r].kind = "updateProfile" /\ req[r].pc = "update" /\ ~Over(r)
      /\ UNCHANGED <<codes, mails, proven>>
  BY DEF ProfileUpdate, At, Over, Outcomes
<1>2. Moves(r, "reread") /\ Stands(r)
  BY <1>1, TableMoves DEF Consume, Redeemers, At
<1>3. ReplacedBy(r, a)' /\ ~Mails(r)'
  BY <1>1, <1>2 DEF Moves, Stands, ReplacedBy, Mails, Mailing, Over
<1>4. ASSUME NEW q \in Requests, q # r
      PROVE  /\ req'[q] = req[q]
             /\ req[q].pc = "idle" \/ Over(q)
             /\ req[q].kind = "updateProfile" /\ req[q].user = a /\ req[q].pc # "idle"
                => ~req[q].failed
  BY <1>1, <1>2, <1>4, InFlightOverlap DEF Moves, OthersStay, Troubled
<1>5. users'[a].verified = FALSE
  BY ProfileUsers DEF TypeInv, TypeOK, IsTable, UserRow
<1>6. \A q \in Requests : ~Mails(q)' /\ ~Verifies(q)'
  BY <1>1, <1>2, <1>3, <1>4 DEF Mails, Verifies, Mailing, Over, Outcomes, Moves
<1>7. MarkIsProven(a)' /\ MailsGoToRow(a)' /\ ShownForRow(a)'
  BY <1>5, <1>6 DEF MarkIsProven, MailsGoToRow, ShownForRow
<1>8. UpdatesKeepRow(a)'
  BY <1>2, <1>4 DEF UpdatesKeepRow, Moves, Over, Outcomes
<1>9. CodesSpeakForRow(a)'
  BY <1>3 DEF CodesSpeakForRow, Replacing
<1> QED
  BY <1>7, <1>8, <1>9 DEF Good

(* The account that a call makes. *)
LEMMA GoodBegins ==
    ASSUME TypeInv, NEW a \in Requests, RegisterCreate(a)
    PROVE  Good(a)'
<1>1. /\ a \notin DOMAIN users /\ users'[a].email = req[a].email
      /\ users'[a].verified = FALSE
  BY CreateUsers
<1>2. /\ Moves(a, "invalidate") /\ req'[a].email = req[a].email
      /\ req[a].kind = "register" /\ UNCHANGED <<codes, mails>>
  BY CreateMoves DEF TypeInv, RegisterCreate, At
<1>3. \A q \in Requests : q # a => req'[q].user # a
  BY <1>1, <1>2 DEF Moves, OthersStay, TypeInv, UsersKnown
<1>4. \A k \in DOMAIN codes : codes[k].user_id # a
  BY <1>1 DEF TypeInv, TypeOK, IsTable, RowsBelong, UsersKnown
<1>5. MarkIsProven(a)' /\ MailsGoToRow(a)'
  BY <1>1, <1>2, <1>3 DEF MarkIsProven, MailsGoToRow
<1>6. UpdatesKeepRow(a)' /\ ShownForRow(a)'
  BY <1>2, <1>3 DEF UpdatesKeepRow, ShownForRow, Verifies, Moves
<1>7. CodesSpeakForRow(a)'
  BY <1>2, <1>4 DEF CodesSpeakForRow
<1> QED
  BY <1>5, <1>6, <1>7 DEF Good

LEMMA GoodNext ==
    ASSUME CodesInv, GoodInv, [Next]_vars
    PROVE  GoodInv'
<1> SUFFICES ASSUME NEW a \in DOMAIN users', ~Troubled(a)'
             PROVE  Good(a)'
  BY DEF GoodInv
<1>0. TypeInv /\ BeforeOver
  BY DEF CodesInv
<1>1. ASSUME NEW r \in Requests, RegisterCreate(r), a \notin DOMAIN users
      PROVE  Good(a)'
  <2>1. a = r
    BY <1>0, <1>1, CreateUsers
  <2> QED
    BY <1>0, <1>1, <2>1, GoodBegins
<1>2. a \in DOMAIN users => Good(a) /\ ~Troubled(a)
  BY <1>0, TroubledStays DEF GoodInv
<1>3. ASSUME a \in DOMAIN users, users'[a].email = users[a].email,
             users'[a].verified => <<a, users[a].email>> \in proven,
             proven \subseteq proven'
      PROVE  Good(a)'
  BY <1>0, <1>2, <1>3, GoodStays, ConsumeShows
<1>4. ASSUME a \in DOMAIN users, users'[a] = users[a], proven \subseteq proven'
      PROVE  Good(a)'
  BY <1>2, <1>3, <1>4 DEF Good, MarkIsProven
<1>5. ASSUME NEW r \in Requests, RegisterCreate(r), a \in DOMAIN users
      PROVE  Good(a)'
  BY <1>0, <1>4, <1>5, CreateUsers DEF RegisterCreate
<1>6. ASSUME NEW r \in Requests, ProfileUpdate(r)
      PROVE  Good(a)'
  <2>1. /\ DOMAIN users' = DOMAIN users /\ UNCHANGED proven
        /\ users'[req[r].user].email =
              IF req[r].email = None THEN users[req[r].user].email ELSE req[r].email
        /\ users'[req[r].user].verified <=> users[req[r].user].verified /\ ~req[r].changed
        /\ \A b \in DOMAIN users : b # req[r].user => users'[b] = users[b]
    BY <1>0, <1>6, ProfileUsers DEF ProfileUpdate
  <2>2. CASE req[r].user # a
    BY <1>4, <2>1, <2>2
  <2>3. CASE req[r].user = a /\ req[r].changed
    BY <1>0, <1>2, <1>6, <2>1, <2>3, GoodChanges
  <2>4. CASE req[r].user = a /\ ~req[r].changed
    <3>1. req[r].kind = "updateProfile" /\ req[r].pc = "update"
      BY <1>6 DEF ProfileUpdate, At
    <3>2. Good(a)
      BY <1>2, <2>1
    <3>3. req[r].email \in {None, users[a].email}
      BY <2>4, <3>1, <3>2 DEF Good, UpdatesKeepRow
    <3>4. /\ users'[a].email = users[a].email
          /\ users'[a].verified => <<a, users[a].email>> \in proven
      BY <2>1, <2>4, <3>2, <3>3 DEF Good, MarkIsProven
    <3> QED
      BY <1>3, <2>1, <3>4
  <2> QED
    BY <2>2, <2>3, <2>4
<1>7. ASSUME NEW r \in Requests, Verify(r)
      PROVE  Good(a)'
  <2>1. /\ DOMAIN users' = DOMAIN users /\ UNCHANGED proven
        /\ users'[a].email = users[a].email
        /\ a # req[r].user => users'[a] = users[a]
    BY <1>0, <1>7, VerifyUsers DEF Verify
  <2>2. CASE req[r].user # a
    BY <1>4, <2>1, <2>2
  <2>3. CASE req[r].user = a
    <3>1. Verifies(r)
      BY <1>7 DEF Verify, At, Verifies
    <3>2. <<a, users[a].email>> \in proven
      BY <1>2, <2>1, <2>3, <3>1 DEF Good, ShownForRow
    <3> QED
      BY <1>3, <2>1, <3>2
  <2> QED
    BY <2>2, <2>3
<1>8. ASSUME NEW r \in Requests,
             Quietly(r) \/ Invalidate(r) \/ InsertCode(r) \/ Send(r) \/ Consume(r) \/ Lapse(r)
      PROVE  Good(a)'
  <2>1. UNCHANGED users /\ proven \subseteq proven'
    BY <1>8 DEF Quietly, Register, RegisterPhone, RegisterDuplicate, Resend, Forgot,
       InsertCollides, SendFails, Profile, ProfileEmail, ProfilePhone, ProfileDuplicate,
       ProfileReread, Peek, CheckEmail, TooLate, Invalidate, InsertCode, Send, Consume, Lapse,
       Shown
  <2> QED
    BY <1>4, <2>1
<1>9. CASE UNCHANGED vars
  BY <1>4, <1>9 DEF vars
<1> QED
  BY <1>1, <1>5, <1>6, <1>7, <1>8, <1>9 DEF Next, Quiet, Quietly

LEMMA GoodInit == Init => GoodInv
<1> SUFFICES ASSUME Init PROVE GoodInv
  OBVIOUS
<1>1. \A r \in Requests : req[r].kind = "register" /\ req[r].pc = "idle"
  BY DEF Init
<1>2. /\ DOMAIN users = {Founder} /\ users[Founder].verified = FALSE
      /\ DOMAIN codes = {}
  BY DEF Init
<1>3. Good(Founder)
  BY <1>1, <1>2 DEF Good, MarkIsProven, MailsGoToRow, UpdatesKeepRow, CodesSpeakForRow,
                    ShownForRow, Mails, Mailing, Verifies
<1> QED
  BY <1>2, <1>3 DEF GoodInv

(* An account is marked as verified with an address whose mailbox never    *)
(* showed its code only after a change of address that failed half way or  *)
(* overlapped another call, for any number of calls                        *)
(* (AuthService.updateProfile, verifyEmail).                               *)
THEOREM VerifiedWasProven == Spec => []VerifiedInSequenceIsProven
<1> DEFINE Inv == CodesInv /\ GoodInv
<1>1. Init => Inv
  BY CodesInit, GoodInit
<1>2. Inv /\ [Next]_vars => Inv'
  BY CodesNext, GoodNext
<1>3. Inv => VerifiedInSequenceIsProven
  BY DEF GoodInv, Good, MarkIsProven, Troubled, VerifiedInSequenceIsProven, Unproven
<1> QED
  BY <1>1, <1>2, <1>3, PTL DEF Spec
=============================================================================
