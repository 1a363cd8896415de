------------------------------ MODULE Accounts ------------------------------
(***************************************************************************)
(* Identities and their addresses: registration, profile updates, the      *)
(* verification of an address by a mailed code, and the reset of a         *)
(* password by a mailed link.  Each await of a handler is a step of its    *)
(* own.  Time appears only as the lapse of a code.  What a reset does to   *)
(* password and sessions is in module Sessions.                            *)
(*                                                                         *)
(* Definitions whose name ends in "Slip" are no part of the model: each is *)
(* the definition below it with one plausible mistake.                     *)
(***************************************************************************)
EXTENDS Naturals, FiniteSets

CONSTANTS
    Requests,        \* the calls; a registration names the account it creates
    Founder,         \* an account that exists from the start
    Emails, Phones,
    FounderEmail,
    Codes,           \* the values of a verification code
    NoPhone,         \* the phone column is NULL
    None,            \* field absent from the request
    Kinds            \* the kinds of request clients send

ASSUME AccountsAssumption ==
    /\ Founder \notin Requests
    /\ FounderEmail \in Emails
    /\ None \notin Emails \cup Phones /\ NoPhone \notin Phones

VARIABLES
    users,           \* central_users
    codes,           \* email_verification_tokens and password_reset_tokens,
                     \* by the call that inserted the row
    mails,           \* mails that reached a mailbox: call -> address
    proven,          \* who has shown a code mailed to which address
    req

vars == <<users, codes, mails, proven, req>>

AllKinds == {"register", "resendVerification", "updateProfile", "verifyEmail",
             "forgotPassword", "resetPassword"}
Accounts == Requests \cup {Founder}

Steps == {"findEmail", "findPhone", "create", "update", "reread", "invalidate",
          "insertCode", "send", "checkEmail", "consume", "verify"}
Outcomes == {"ok", "refused"}

UserRow == [email : Emails, phone : Phones \cup {NoPhone}, verified : BOOLEAN]
CodeRow == [user_id : Accounts, code : Codes \cup Requests, used : BOOLEAN, expired : BOOLEAN]

Call == [kind : AllKinds, pc : {"idle"} \cup Steps \cup Outcomes,
         failed : BOOLEAN,
         user : Accounts,
         email : Emails \cup {None}, phone : Phones \cup {NoPhone, None},
         code : Codes \cup Requests, \* presented; a reset token is named by its call
         changed : BOOLEAN,          \* emailChanged
         before : SUBSET Requests]   \* calls over when it began

IsTable(table, Keys, Row) ==
    DOMAIN table \subseteq Keys /\ table \in [DOMAIN table -> Row]

TypeOK ==
    /\ IsTable(users, Accounts, UserRow)
    /\ IsTable(codes, Requests, CodeRow)
    /\ IsTable(mails, Requests, Emails)
    /\ proven \subseteq Accounts \X Emails
    /\ req \in [Requests -> Call]

Insert(table, key, row) ==
    [k \in DOMAIN table \cup {key} |-> IF k = key THEN row ELSE table[k]]

Init ==
    /\ users = [a \in {Founder} |-> [email |-> FounderEmail, phone |-> NoPhone,
                                     verified |-> FALSE]]
    /\ codes = [k \in {} |-> None]
    /\ mails = [k \in {} |-> None]
    /\ proven = {}
    /\ \E c \in Codes :
         req = [r \in Requests |->
            [kind |-> "register", pc |-> "idle", failed |-> FALSE, user |-> Founder,
             email |-> None, phone |-> None, code |-> c, changed |-> FALSE,
             before |-> {}]]

-----------------------------------------------------------------------------
(* The statements. *)

Holders(email) == {a \in DOMAIN users : users[a].email = email}
findAllByPhone(phone) == {a \in DOMAIN users : users[a].phone = phone}

Redeemable(k) == ~codes[k].used /\ ~codes[k].expired

Over(r) == req[r].pc \in Outcomes \/ req[r].failed

Begin(r, call) ==
    /\ call.kind \in Kinds
    /\ req[r].pc = "idle"
    /\ req' = [req EXCEPT ![r] =
                 [call EXCEPT !.before = {q \in Requests : Over(q)}]]

At(r, kinds, step) ==
    req[r].kind \in kinds /\ req[r].pc = step /\ ~req[r].failed

Goto(r, next) == req' = [req EXCEPT ![r].pc = next]
Throw(r) == req' = [req EXCEPT ![r].failed = TRUE]

(* A call of kind "kind" whose first statement is next. *)
Arrival(r, kind, next) == [req[r] EXCEPT !.kind = kind, !.pc = next]

-----------------------------------------------------------------------------
(* register *)

Register(r) == \E e \in Emails, p \in Phones \cup {None} :
    /\ Begin(r, [Arrival(r, "register",
                         IF Holders(e) # {} THEN "ok"
                         ELSE IF p # None THEN "findPhone" ELSE "create")
                 EXCEPT !.email = e, !.phone = p])
    /\ UNCHANGED <<users, codes, mails, proven>>

RegisterPhone(r) ==
    /\ At(r, {"register"}, "findPhone")
    /\ Goto(r, IF findAllByPhone(req[r].phone) # {} THEN "refused" ELSE "create")
    /\ UNCHANGED <<users, codes, mails, proven>>

RegisterCreate(r) ==
    /\ At(r, {"register"}, "create")
    /\ Holders(req[r].email) = {}
    /\ users' = Insert(users, r,
         [email |-> req[r].email, verified |-> FALSE,
          phone |-> IF req[r].phone = None THEN NoPhone ELSE req[r].phone])
    /\ req' = [req EXCEPT ![r].pc = "invalidate", ![r].user = r]
    /\ UNCHANGED <<codes, mails, proven>>

(* The UNIQUE key on the address. *)
RegisterDuplicate(r) ==
    /\ At(r, {"register"}, "create")
    /\ Holders(req[r].email) # {}
    /\ Throw(r)
    /\ UNCHANGED <<users, codes, mails, proven>>

-----------------------------------------------------------------------------
(* resendVerification, forgotPassword, and the mail they and others send *)

Resend(r) == \E e \in Emails :
    /\ IF \E a \in Holders(e) : ~users[a].verified
       THEN \E a \in Holders(e) :
              Begin(r, [Arrival(r, "resendVerification", "invalidate")
                        EXCEPT !.email = e, !.user = a])
       ELSE Begin(r, [Arrival(r, "resendVerification", "ok") EXCEPT !.email = e])
    /\ UNCHANGED <<users, codes, mails, proven>>

Forgot(r) == \E e \in Emails :
    /\ IF Holders(e) # {}
       THEN \E a \in Holders(e) :
              Begin(r, [Arrival(r, "forgotPassword", "invalidate")
                        EXCEPT !.email = e, !.user = a])
       ELSE Begin(r, [Arrival(r, "forgotPassword", "ok") EXCEPT !.email = e])
    /\ UNCHANGED <<users, codes, mails, proven>>

Mailers == {"register", "resendVerification", "updateProfile", "forgotPassword"}

(* The table a row is in. *)
purpose(k) ==
    IF req[k].kind = "forgotPassword" THEN "password_reset" ELSE "email_verification"

Invalidate(r) ==
    /\ At(r, Mailers, "invalidate")
    /\ codes' = [k \in DOMAIN codes |->
                   [codes[k] EXCEPT !.used = @ \/ /\ purpose(k) = purpose(r)
                                                  /\ codes[k].user_id = req[r].user]]
    /\ Goto(r, "insertCode")
    /\ UNCHANGED <<users, mails, proven>>

(* token_hash is UNIQUE over all rows, used and expired ones included. *)
Collides(c) == \E k \in DOMAIN codes : codes[k].code = c

InsertCode(r) == \E c \in IF purpose(r) = "password_reset" THEN {r} ELSE Codes :
    /\ At(r, Mailers, "insertCode")
    /\ ~Collides(c)
    /\ codes' = Insert(codes, r, [user_id |-> req[r].user, code |-> c,
                                  used |-> FALSE, expired |-> FALSE])
    /\ Goto(r, "send")
    /\ UNCHANGED <<users, mails, proven>>

InsertCollides(r) == \E c \in Codes :
    /\ At(r, Mailers \ {"forgotPassword"}, "insertCode")
    /\ Collides(c)
    /\ Throw(r)
    /\ UNCHANGED <<users, codes, mails, proven>>

Send(r) ==
    /\ At(r, Mailers, "send")
    /\ mails' = Insert(mails, r, req[r].email)
    /\ Goto(r, "ok")
    /\ UNCHANGED <<users, codes, proven>>

(* EmailService swallows the error. *)
SendFails(r) ==
    /\ At(r, Mailers, "send")
    /\ Goto(r, "ok")
    /\ UNCHANGED <<users, codes, mails, proven>>

-----------------------------------------------------------------------------
(* updateProfile *)

Profile(r) ==
    \E a \in DOMAIN users, e \in Emails \cup {None}, p \in Phones \cup {NoPhone, None} :
        LET changed == e # None /\ e # users[a].email
        IN  /\ Begin(r, [Arrival(r, "updateProfile",
                                 IF changed THEN "findEmail"
                                 ELSE IF p \in Phones THEN "findPhone" ELSE "update")
                         EXCEPT !.user = a, !.email = e, !.phone = p,
                                !.changed = changed])
            /\ UNCHANGED <<users, codes, mails, proven>>

ProfileEmail(r) ==
    /\ At(r, {"updateProfile"}, "findEmail")
    /\ Goto(r, IF Holders(req[r].email) \subseteq {req[r].user}
               THEN IF req[r].phone \in Phones THEN "findPhone" ELSE "update"
               ELSE "refused")
    /\ UNCHANGED <<users, codes, mails, proven>>

(* The holder is not looked for. *)
ProfilePhoneSlip(r) ==
    /\ At(r, {"updateProfile"}, "findPhone")
    /\ Goto(r, "update")
    /\ UNCHANGED <<users, codes, mails, proven>>

ProfilePhone(r) ==
    /\ At(r, {"updateProfile"}, "findPhone")
    /\ Goto(r, IF findAllByPhone(req[r].phone) \subseteq {req[r].user}
               THEN "update" ELSE "refused")
    /\ UNCHANGED <<users, codes, mails, proven>>

(* An absent field is stored. *)
UpdatedSlip(a, email, phone, changed) ==
    [email |-> IF email = None THEN users[a].email ELSE email,
     phone |-> phone,
     verified |-> users[a].verified /\ ~changed]

Updated(a, email, phone, changed) ==
    [email |-> IF email = None THEN users[a].email ELSE email,
     phone |-> IF phone = None THEN users[a].phone ELSE phone,
     verified |-> users[a].verified /\ ~changed]

(* The old verification is kept. *)
ProfileUpdateSlip(r) ==
    /\ At(r, {"updateProfile"}, "update")
    /\ Holders(req[r].email) \subseteq {req[r].user}
    /\ users' = [users EXCEPT ![req[r].user] =
                   Updated(req[r].user, req[r].email, req[r].phone, FALSE)]
    /\ Goto(r, IF req[r].changed THEN "reread" ELSE "ok")
    /\ UNCHANGED <<codes, mails, proven>>

ProfileUpdate(r) ==
    /\ At(r, {"updateProfile"}, "update")
    /\ Holders(req[r].email) \subseteq {req[r].user}
    /\ users' = [users EXCEPT ![req[r].user] =
                   Updated(req[r].user, req[r].email, req[r].phone, req[r].changed)]
    /\ Goto(r, IF req[r].changed THEN "reread" ELSE "ok")
    /\ UNCHANGED <<codes, mails, proven>>

ProfileDuplicate(r) ==
    /\ At(r, {"updateProfile"}, "update")
    /\ ~(Holders(req[r].email) \subseteq {req[r].user})
    /\ Throw(r)
    /\ UNCHANGED <<users, codes, mails, proven>>

(* The mail goes to the address the row holds by then. *)
ProfileReread(r) ==
    /\ At(r, {"updateProfile"}, "reread")
    /\ req' = [req EXCEPT ![r].pc = "invalidate",
                          ![r].email = users[req[r].user].email]
    /\ UNCHANGED <<users, codes, mails, proven>>

-----------------------------------------------------------------------------
(* verifyEmail and resetPassword, with what was mailed and any address *)

Redeemers == {"verifyEmail", "resetPassword"}

Peek(r) == \E e \in Emails, k \in DOMAIN codes \cap DOMAIN mails :
    /\ Begin(r, [Arrival(r, IF purpose(k) = "password_reset"
                            THEN "resetPassword" ELSE "verifyEmail",
                         IF Redeemable(k) THEN "checkEmail" ELSE "refused")
                 EXCEPT !.email = e, !.code = codes[k].code, !.user = codes[k].user_id])
    /\ UNCHANGED <<users, codes, mails, proven>>

(* The address is not compared. *)
CheckEmailSlip(r) ==
    /\ At(r, Redeemers, "checkEmail")
    /\ Goto(r, "consume")
    /\ UNCHANGED <<users, codes, mails, proven>>

CheckEmail(r) ==
    /\ At(r, Redeemers, "checkEmail")
    /\ Goto(r, IF users[req[r].user].email = req[r].email THEN "consume" ELSE "refused")
    /\ UNCHANGED <<users, codes, mails, proven>>

Matching(c) == {k \in DOMAIN codes : codes[k].code = c /\ Redeemable(k)}

Consumed(r) == Goto(r, IF req[r].kind = "verifyEmail" THEN "verify" ELSE "ok")

Shown(K) == proven \cup
    {<<codes[k].user_id, mails[k]>> : k \in {q \in K \cap DOMAIN mails :
                                             purpose(q) = "email_verification"}}

(* The row count of the UPDATE is not looked at. *)
ConsumeSlip(r) ==
    /\ At(r, Redeemers, "consume")
    /\ LET found == Matching(req[r].code)
       IN  /\ codes' = [k \in DOMAIN codes |->
                          [codes[k] EXCEPT !.used = @ \/ k \in found]]
           /\ proven' = Shown(found)
    /\ Consumed(r)
    /\ UNCHANGED <<users, mails>>

Consume(r) == \E k \in Matching(req[r].code) :
    /\ At(r, Redeemers, "consume")
    /\ codes' = [codes EXCEPT ![k].used = TRUE]
    /\ proven' = Shown({k})
    /\ Consumed(r)
    /\ UNCHANGED <<users, mails>>

TooLate(r) ==
    /\ At(r, Redeemers, "consume")
    /\ Matching(req[r].code) = {}
    /\ Goto(r, "refused")
    /\ UNCHANGED <<users, codes, mails, proven>>

Verify(r) ==
    /\ At(r, {"verifyEmail"}, "verify")
    /\ users' = [users EXCEPT ![req[r].user].verified = TRUE]
    /\ Goto(r, "ok")
    /\ UNCHANGED <<codes, mails, proven>>

-----------------------------------------------------------------------------
Lapse(k) ==
    /\ k \in DOMAIN codes /\ ~codes[k].expired
    /\ codes' = [codes EXCEPT ![k].expired = TRUE]
    /\ UNCHANGED <<users, mails, proven, req>>

(* Nothing is in flight: the server waits. *)
Quiet ==
    /\ \A r \in Requests : req[r].pc = "idle" \/ Over(r)
    /\ UNCHANGED vars

Next ==
    \/ \E r \in Requests :
        \/ Register(r) \/ RegisterPhone(r) \/ RegisterCreate(r) \/ RegisterDuplicate(r)
        \/ Resend(r) \/ Forgot(r) \/ Invalidate(r) \/ InsertCode(r) \/ InsertCollides(r)
        \/ Send(r) \/ SendFails(r)
        \/ Profile(r) \/ ProfileEmail(r) \/ ProfilePhone(r) \/ ProfileUpdate(r)
        \/ ProfileDuplicate(r) \/ ProfileReread(r)
        \/ Peek(r) \/ CheckEmail(r) \/ Consume(r) \/ TooLate(r) \/ Verify(r)
        \/ Lapse(r)
    \/ Quiet

Spec == Init /\ [][Next]_vars

-----------------------------------------------------------------------------
(* Two calls neither of which was over when the other began. *)
Overlap(p, q) ==
    /\ p # q /\ req[p].pc # "idle" /\ req[q].pc # "idle"
    /\ p \notin req[q].before /\ q \notin req[p].before

Unproven == {a \in DOMAIN users : users[a].verified /\ <<a, users[a].email>> \notin proven}

(* As long as a change of address fails for no account and overlaps no     *)
(* other call, a verified address is one whose mailbox has shown its code  *)
(* (AuthService.updateProfile, verifyEmail).                               *)
VerifiedInSequenceIsProven ==
    Unproven # {} =>
        \E p \in Requests :
            /\ req[p].kind = "updateProfile" /\ req[p].user \in Unproven
            /\ req[p].failed \/ \E q \in Requests : Overlap(p, q)

SharedPhone(a, b) ==
    a # b /\ users[a].phone = users[b].phone /\ users[a].phone # NoPhone

(* Two accounts share a number only if the calls that stored it overlapped *)
(* (findAllByPhone in AuthService.register and updateProfile).             *)
PhonesAreSharedByRacesOnly ==
    \A a, b \in DOMAIN users :
        SharedPhone(a, b) =>
            \E p, q \in Requests :
                /\ Overlap(p, q)
                /\ req[p].phone = users[a].phone /\ req[q].phone = users[a].phone

(* What a call has spent, if it got that far. *)
HasSpent(r, c) ==
    req[r].kind \in Redeemers /\ req[r].pc \in {"verify", "ok"} /\ req[r].code = c

(* One code verifies, or resets, for one call, and never after a later     *)
(* mail for the same account and purpose has been answered                 *)
(* (AuthTokenRepository.issueWithToken, consume).                          *)
CodeSpentOnce ==
    /\ \A r, q \in Requests : HasSpent(r, req[r].code) /\ HasSpent(q, req[r].code) => r = q
    /\ \A v \in Requests, k, g \in DOMAIN codes :
         /\ HasSpent(v, codes[k].code)
         /\ purpose(g) = purpose(k) /\ codes[g].user_id = codes[k].user_id
         => ~(k \in req[g].before /\ g \in req[v].before)

(* A reset is accepted with an address other than the one its link was     *)
(* mailed to only if the account has meanwhile changed its address         *)
(* (AuthService.resetPassword).                                            *)
ResetMatchesMail ==
    \A r \in Requests, k \in DOMAIN codes \cap DOMAIN mails :
        purpose(k) = "password_reset" /\ HasSpent(r, codes[k].code) =>
            \/ req[r].email = mails[k]
            \/ \E p \in Requests :
                 /\ req[p].kind = "updateProfile" /\ req[p].user = codes[k].user_id
                 /\ req[p].changed
                 /\ req[p].pc \notin {"findEmail", "findPhone", "update", "refused"}

-----------------------------------------------------------------------------
(* What the repository says and the code does not do. *)

(* AuthService.ts:239 "A new email address is treated as unverified until  *)
(* proven".                                                                *)
VerifiedIsProven == Unproven = {}
=============================================================================
