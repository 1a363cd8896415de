---------------------------- MODULE TokensProof ----------------------------
(***************************************************************************)
(* What a logout, a rotation, a password change, a reset, a forced sign-   *)
(* out, a ban or an unverified address takes away stays away, from every   *)
(* call that begins afterwards; and a session is refused for no other      *)
(* cause.  Each argument has two halves.  An ending leaves a mark in the   *)
(* tables that no later step removes: a revoked row, a row of the deny     *)
(* list, a cutoff, a status.  And a call that begins after the ending is   *)
(* over reads that mark before it can be answered "ok".                    *)
(*                                                                         *)
(* Then the tokens that can be redeemed once: an SSO ticket opens one      *)
(* session, at the application it was minted for, and a mailed reset token *)
(* sets one password, however many calls present it and however they       *)
(* interleave, fail and race with expiry, a newer mail and housekeeping.   *)
(* Both implement the abstract promise of SingleUse.                       *)
(***************************************************************************)
EXTENDS SessionsProof

-----------------------------------------------------------------------------
(* Refresh tokens. *)

(* The token a call presents is spent, whatever became of the call since. *)
Spends(w) == req[w].kind \in {"refresh", "logout"} /\ req[w].pc \notin {"idle", "revoke"}

(* The calls that have cut the rows of a user, and what they cut. *)
CutRows(w, s) ==
    /\ req[w].kind \in Cutters /\ req[w].pc \in {"setCutoff", "ok"}
    /\ s \in Opened /\ s \in req[w].before /\ req[w].user = req[s].user

Ended(w, s) == (Spends(w) /\ s = req[w].token) \/ CutRows(w, s)

EndedAreGone == \A w, s \in Requests : Ended(w, s) => ~refreshable(s)

RenewsNothing ==
    \A r, w \in Requests :
        /\ req[r].kind = "refresh" /\ req[r].pc # "idle"
        /\ w \in req[r].before /\ Ended(w, req[r].token)
        => req[r].pc = "refused"

-----------------------------------------------------------------------------
(* Access tokens that were logged out. *)

Denies(w) ==
    /\ req[w].kind = "logout" /\ req[w].pc = "ok" /\ ~req[w].failed
    /\ req[w].access # None

DenyRows ==
    \A j \in DOMAIN revoked_tokens : j \in Opened /\ revoked_tokens[j] = exp(j)

(* The clock has reached the expiry, or the row is there. *)
DeniedUntilExpiry ==
    \A w \in Requests : Denies(w) =>
        now >= exp(req[w].access) \/ req[w].access \in DOMAIN revoked_tokens

DeniedToLater ==
    \A r, w \in Requests :
        /\ req[r].kind = "validateToken" /\ req[r].pc # "idle"
        /\ w \in req[r].before /\ Denies(w) /\ req[r].access = req[w].access
        => \/ req[r].pc \in {"isTokenRevoked", "refused"}
           \/ req[r].pc = "checkAccount" /\ now >= exp(req[r].access)
           \/ req[r].pc = "ok" /\ req[r].time >= exp(req[r].access)

-----------------------------------------------------------------------------
(* Access tokens signed before a cutoff. *)

CutDone(w, s) ==
    /\ req[w].kind \in Cutters /\ req[w].pc = "ok"
    /\ s \in Opened /\ s \in req[w].before /\ req[w].user = req[s].user

CutoffSet == \A w, s \in Requests : CutDone(w, s) => issuedBeforeCutoff(req[s].time, req[s].user)

CutToLater ==
    \A r, w \in Requests :
        /\ req[r].kind = "validateToken" /\ req[r].pc # "idle"
        /\ w \in req[r].before /\ CutDone(w, req[r].access)
        => req[r].pc # "ok"

-----------------------------------------------------------------------------
(* Accounts that were banned, or whose address is not verified. *)

Bans(w) == req[w].kind = "ban" /\ req[w].pc = "ok"

BannedAreSuspended == \A w \in Requests : Bans(w) => users[req[w].user].status = "suspended"

(* A call past the check of the status. *)
PassedStatus(r) ==
    \/ req[r].kind = "login" /\ req[r].pc \in {"clearFailedLogins", "sign", "create", "ok"}
    \/ req[r].kind = "refresh" /\ req[r].pc \in {"sign", "create", "ok"}
    \/ req[r].kind = "redeemSsoTicket"
       /\ req[r].pc \in {"consumeTicket", "sign", "create", "ok"}
    \/ req[r].kind \in {"validateToken", "me"} /\ req[r].pc = "ok"
    \/ req[r].kind = "createSsoTicket" /\ req[r].pc \in {"insertTicket", "ok"}
    \/ req[r].kind = "forgotPassword" /\ req[r].pc \in {"invalidate", "insertReset", "ok"}

NotBannedBefore ==
    \A r, w \in Requests :
        PassedStatus(r) /\ w \in req[r].before /\ Bans(w) => req[w].user # req[r].user

Unverifies(w) == req[w].kind = "changeEmail" /\ req[w].pc = "ok"

NobodyVerified == \A v \in Requests : req[v].kind # "verifyEmail"

ChangedAreUnverified ==
    NobodyVerified => \A w \in Requests :
        Unverifies(w) => ~users[req[w].user].email_verified

(* A call past the check of the address. *)
PassedAddress(r) ==
    \/ req[r].kind = "login" /\ req[r].pc \in {"clearFailedLogins", "sign", "create", "ok"}
    \/ req[r].kind = "redeemSsoTicket"
       /\ req[r].pc \in {"consumeTicket", "sign", "create", "ok"}
    \/ req[r].kind = "validateToken" /\ req[r].pc = "ok"

VerifiedBefore ==
    RequireEmailVerification /\ NobodyVerified => \A r, w \in Requests :
        PassedAddress(r) /\ w \in req[r].before /\ Unverifies(w)
        => req[w].user # req[r].user

-----------------------------------------------------------------------------
(* Causes. *)

Begun(w) == req[w].pc # "idle"

CauseOf(s) == \E w \in Requests : Begun(w) /\ MayEnd(w, s)

(* Every mark in the tables is the doing of a call that has begun. *)
MarksHaveCauses ==
    /\ \A s \in Opened : refresh_tokens[s].revoked => CauseOf(s)
    /\ \A s \in DOMAIN revoked_tokens :
         \E w \in Requests : Begun(w) /\ req[w].kind = "logout" /\ req[w].access = s
    /\ \A u \in Users :
         /\ users[u].tokens_valid_from # 0 =>
              \E w \in Requests : Begun(w) /\ req[w].kind \in Cutters /\ req[w].user = u
         /\ users[u].status # "active" =>
              \E w \in Requests : Begun(w) /\ req[w].kind = "ban" /\ req[w].user = u
         /\ ~users[u].email_verified =>
              \E w \in Requests : Begun(w) /\ req[w].kind = "changeEmail" /\ req[w].user = u

-----------------------------------------------------------------------------
LEMMA EndedBack ==
    ASSUME CallInv, [Next]_vars, NEW w \in Requests, req'[w] = req[w], NEW s, Ended(w, s)'
    PROVE  Ended(w, s)
  BY OpenedBack DEF Ended, Spends, CutRows

LEMMA EndedAreGoneNext ==
    ASSUME FlowInv, EndedAreGone, [Next]_vars
    PROVE  EndedAreGone'
  <1> SUFFICES ASSUME NEW w \in Requests, NEW s \in Requests, Ended(w, s)'
               PROVE  ~refreshable(s)'
    BY DEF EndedAreGone
  <1>0. /\ RowInv /\ CallInv /\ TypeInv /\ Presented(w)
        /\ DOMAIN refresh_tokens = Opened
    BY DEF FlowInv, RowInv, CallInv, AllPresented, RefreshRows
  <1>1. req'[w] = req[w] \/ Begins(w) \/ Goes(w) \/ Fails(w)
    BY <1>0, CallStep
  <1>2. CASE Ended(w, s)
    <2>1. s \in Opened
      BY <1>0, <1>2 DEF Ended, Spends, CutRows, Presented
    <2> QED
      BY <1>0, <1>2, <2>1, GoneForGood DEF EndedAreGone
  <1>3. CASE Begins(w)
    <2>1. req'[w].kind = "refresh" /\ req'[w].token = s /\ s \in Opened /\ ~refreshable(s)
      BY <1>3 DEF Ended, Spends, CutRows, Begins, Arrival, Cutters
    <2> QED
      BY <1>0, <2>1, GoneForGood
  <1>4. CASE Goes(w) /\ ~Ended(w, s)
    <2>1. CASE Spends(w)' /\ s = req'[w].token
      <3>1. /\ req[w].pc = "revoke" /\ req[w].kind \in {"refresh", "logout"}
            /\ s = req[w].token /\ s \in Opened
        BY <1>0, <1>4, <2>1 DEF Goes, Keeps, Ended, Spends, Presented, Steps
      <3>2. revokeRefresh(s)
        BY <1>4, <3>1 DEF Goes, Path, Edge, Openers, Cutters
      <3>3. refresh_tokens'[s].revoked
        BY <1>0, <3>1, <3>2
           DEF revokeRefresh, TypeInv, TypeOK, StoreTypeOK, IsTable, RefreshRow
      <3> QED
        BY <3>3 DEF refreshable
    <2>2. CASE CutRows(w, s)'
      <3>1. /\ req'[w].kind = req[w].kind /\ req'[w].user = req[w].user
            /\ s \in req[w].before /\ s \in Opened'
        BY <1>4, <2>2 DEF Goes, Keeps, CutRows
      <3>2. s \in Opened /\ req'[s] = req[s]
        BY <1>0, <3>1, OpenedBack
      <3>3. Edge(w, Cutters, "revokeRefresh", "setCutoff") /\ revokeRefreshOfUser(req[w].user)
        <4>1. req[w].kind \in Cutters /\ req[w].pc \notin {"setCutoff", "ok"}
          BY <1>4, <2>2, <3>1, <3>2 DEF CutRows, Ended
        <4> QED
          BY <1>4, <2>2, <4>1 DEF CutRows, Goes, Path, Edge, Openers, Cutters
      <3>4. refresh_tokens[s].user_id = req[w].user /\ refresh_tokens[s] \in RefreshRow
        BY <1>0, <2>2, <3>1, <3>2
           DEF CutRows, RowInv, RefreshRows, TypeInv, TypeOK, StoreTypeOK, IsTable
      <3>5. refresh_tokens'[s].revoked
        BY <1>0, <3>2, <3>3, <3>4 DEF revokeRefreshOfUser, RefreshRow
      <3> QED
        BY <3>5 DEF refreshable
    <2> QED
      BY <2>1, <2>2 DEF Ended
  <1>5. CASE req'[w] = req[w]
    BY <1>0, <1>2, <1>5, EndedBack
  <1>6. CASE Fails(w)
    <2>1. Keeps(w) /\ (req'[w].pc = req[w].pc \/ Edge(w, {"logout"}, "revokeToken", "ok"))
      BY <1>6 DEF Fails
    <2>2. Ended(w, s)
      BY <1>0, <2>1, OpenedBack DEF Keeps, Ended, Spends, CutRows, Edge, Cutters
    <2> QED
      BY <1>2, <2>2
  <1> QED
    BY <1>1, <1>2, <1>3, <1>4, <1>5, <1>6

LEMMA RenewsNothingNext ==
    ASSUME FlowInv, EndedAreGone, RenewsNothing, [Next]_vars
    PROVE  RenewsNothing'
  <1>0. CallInv
    BY DEF FlowInv, RowInv
  <1>1. ASSUME NEW r \in Requests, NEW w \in Requests, NEW t, t = req'[r].token,
               req'[r].kind = "refresh", req'[r].pc # "idle",
               w \in req'[r].before, Ended(w, t)'
        PROVE  req'[r].pc = "refused"
    <2>1. /\ req'[w] = req[w]
          /\ ~Begins(r) => w \in req[r].before /\ Keeps(r)
      BY <1>0, <1>1, BeforeStep
    <2>2. Ended(w, t)
      BY <1>0, <1>1, <2>1, EndedBack
    <2>3. CASE Begins(r)
      <3>1. t \in Requests /\ (req'[r].pc = "refused" \/ refreshable(t))
        BY <1>1, <2>3 DEF Begins, Arrival, Opened
      <3> QED
        BY <2>2, <3>1 DEF EndedAreGone
    <2>4. CASE ~Begins(r)
      <3>1. req[r].pc # "idle"
        BY <1>0, <1>1, <2>4, CallStep DEF CallInv, Goes, Fails, Steps
      <3>2. req[r].pc = "refused"
        BY <1>1, <2>1, <2>2, <2>4, <3>1 DEF RenewsNothing, Keeps
      <3> QED
        BY <1>0, <3>2, CallsAreSteady DEF Steady, Over, Outcomes
    <2> QED
      BY <2>3, <2>4
  <1> QED
    BY <1>1 DEF RenewsNothing

-----------------------------------------------------------------------------
(* The deny list. *)

(* The row a logout inserts is about the access token it presents. *)
LEMMA DenyStep ==
    ASSUME FlowInv, NEW r \in Requests, LogoutDeny(r)
    PROVE  /\ req[r].kind = "logout" /\ req[r].pc = "revokeToken"
           /\ req[r].access \in Opened
           /\ revoked_tokens' = Insert(revoked_tokens, req[r].access, exp(req[r].access))
  <1>1. /\ req[r].kind = "logout" /\ req[r].pc = "revokeToken" /\ Presented(r)
        /\ req[r].access \in Requests
    BY DEF LogoutDeny, At, FlowInv, RowInv, CallInv, TypeInv, LogoutHasAccess, AllPresented
  <1>2. req[r].access # None
    BY <1>1, SessionsAssumption
  <1> QED
    BY <1>1, <1>2 DEF LogoutDeny, revokeToken, Presented

LEMMA DenyRowsNext ==
    ASSUME FlowInv, DenyRows, [Next]_vars
    PROVE  DenyRows'
  <1>0. CallInv
    BY DEF FlowInv, RowInv
  <1>1. \A s \in Opened : s \in Opened' /\ exp(s)' = exp(s)
    BY <1>0, AnswersStay DEF exp
  <1>2. CASE UNCHANGED revoked_tokens
    BY <1>1, <1>2 DEF DenyRows
  <1>3. CASE PurgeRevoked
    BY <1>1, <1>3 DEF DenyRows, PurgeRevoked, purgeRevoked
  <1>4. ASSUME NEW r \in Requests, LogoutDeny(r)
        PROVE  DenyRows'
    <2> DEFINE a == req[r].access
    <2>1. a \in Opened /\ revoked_tokens' = Insert(revoked_tokens, a, exp(a))
      BY <1>4, DenyStep
    <2>2. ASSUME NEW j \in DOMAIN revoked_tokens'
          PROVE  j \in Opened /\ revoked_tokens'[j] = exp(j)
      <3>1. CASE j = a
        BY <2>1, <3>1 DEF Insert
      <3>2. CASE j # a
        BY <2>1, <2>2, <3>2 DEF Insert, DenyRows
      <3> QED
        BY <3>1, <3>2
    <2> QED
      BY <1>1, <2>2 DEF DenyRows
  <1> QED
    BY <1>2, <1>3, <1>4, DenyWriters

LEMMA DeniedUntilExpiryNext ==
    ASSUME FlowInv, DenyRows, DeniedUntilExpiry, [Next]_vars
    PROVE  DeniedUntilExpiry'
  <1> SUFFICES ASSUME NEW w \in Requests, Denies(w)', NEW a, a = req'[w].access
               PROVE  now' >= exp(a)' \/ a \in DOMAIN revoked_tokens'
    BY DEF DeniedUntilExpiry
  <1>0. CallInv /\ TypeInv /\ Presented(w)
    BY DEF FlowInv, RowInv, CallInv, AllPresented
  <1>1. req'[w] = req[w] \/ Begins(w) \/ Goes(w) \/ Fails(w)
    BY <1>0, CallStep
  <1>2. Keeps(w) /\ req[w].pc # "idle" /\ a = req[w].access
    BY <1>1 DEF Begins, Arrival, Goes, Fails, Denies, Openers, Cutters, Keeps, Steps
  <1>3. a \in Opened /\ req'[a] = req[a] /\ exp(a)' = exp(a) /\ exp(a) \in Nat /\ now \in Nat
    <2>1. a \in Opened
      BY <1>0, <1>2 DEF Denies, Presented, Keeps
    <2>2. req'[a] = req[a]
      BY <1>0, <2>1, AnswersStay
    <2>3. req[a].time \in Nat /\ now \in Nat
      BY <1>0, <2>1 DEF TypeInv, TypeOK, StoreTypeOK, Opened, Call
    <2> QED
      BY <2>1, <2>2, <2>3, ConfigurationIsNumeric DEF exp
  <1>4. now' \in Nat /\ now' >= now
    BY <1>0, ClockAdvances
  <1>5. CASE now >= exp(a)
    BY <1>3, <1>4, <1>5
  <1>6. CASE a \in DOMAIN revoked_tokens
    <2>1. CASE PurgeRevoked
      <3>1. revoked_tokens[a] = exp(a)
        BY <1>6 DEF DenyRows
      <3>2. now' = now
        BY <2>1 DEF PurgeRevoked
      <3>3. exp(a) >= now => a \in DOMAIN revoked_tokens'
        BY <1>6, <2>1, <3>1 DEF PurgeRevoked, purgeRevoked
      <3> QED
        BY <1>3, <3>2, <3>3
    <2>2. CASE ~PurgeRevoked
      BY <1>6, <2>2, DenyWriters DEF LogoutDeny, revokeToken, Insert
    <2> QED
      BY <2>1, <2>2
  <1>7. CASE Goes(w)
    <2>1. req[w].kind = "logout" /\ req'[w].pc = "ok" /\ a # None
      BY <1>2 DEF Denies, Keeps
    <2>2. \/ ~verifies(a)
          \/ revokeToken(a, exp(a))
      BY <1>2, <1>7, <2>1 DEF Goes, Path, Edge, Openers, Cutters
    <2>3. now >= exp(a) \/ a \in DOMAIN revoked_tokens'
      BY <1>3, <2>2 DEF verifies, revokeToken, Insert
    <2> QED
      BY <1>5, <2>3
  <1>8. CASE req'[w] = req[w]
    BY <1>2, <1>5, <1>6, <1>8 DEF Denies, DeniedUntilExpiry
  <1> QED
    BY <1>1, <1>2, <1>7, <1>8 DEF Begins, Fails, Denies

LEMMA DeniedToLaterNext ==
    ASSUME FlowInv, DeniedUntilExpiry, DeniedToLater, [Next]_vars
    PROVE  DeniedToLater'
  <1>0. CallInv /\ TypeInv
    BY DEF FlowInv, RowInv, CallInv
  <1>1. ASSUME NEW r \in Requests, NEW w \in Requests, NEW a, a = req'[r].access,
               req'[r].kind = "validateToken", req'[r].pc # "idle",
               w \in req'[r].before, Denies(w)', a = req'[w].access
        PROVE  \/ req'[r].pc \in {"isTokenRevoked", "refused"}
               \/ req'[r].pc = "checkAccount" /\ now' >= exp(a)'
               \/ req'[r].pc = "ok" /\ req'[r].time >= exp(a)'
    <2>1. /\ req'[w] = req[w]
          /\ ~Begins(r) => w \in req[r].before /\ Keeps(r)
      BY <1>0, <1>1, BeforeStep
    <2>2. Denies(w) /\ a = req[w].access
      BY <1>1, <2>1 DEF Denies
    <2>3. CASE Begins(r)
      BY <1>1, <2>3 DEF Begins, Arrival, Openers, Cutters
    <2>4. CASE ~Begins(r)
      <3>1. req'[r] = req[r] \/ Goes(r) \/ Fails(r)
        BY <1>0, <2>4, CallStep
      <3>2. /\ req[r].pc # "idle" /\ req[r].kind = "validateToken" /\ req[r].access = a
            /\ Presented(r)
        BY <1>1, <2>1, <2>4, <3>1 DEF Goes, Fails, Steps, Keeps, FlowInv, AllPresented
      <3>3. a \in Opened /\ exp(a)' = exp(a) /\ exp(a) \in Nat /\ now \in Nat
        <4>1. a \in Opened /\ req'[a] = req[a]
          BY <1>0, <3>2, AnswersStay DEF Presented
        <4>2. req[a].time \in Nat /\ now \in Nat
          BY <1>0, <4>1 DEF TypeInv, TypeOK, StoreTypeOK, Opened, Call
        <4> QED
          BY <4>1, <4>2, ConfigurationIsNumeric DEF exp
      <3>4. now' \in Nat /\ now' >= now
        BY <1>0, ClockAdvances
      <3>5. \/ req[r].pc \in {"isTokenRevoked", "refused"}
            \/ req[r].pc = "checkAccount" /\ now >= exp(a)
            \/ req[r].pc = "ok" /\ req[r].time >= exp(a)
        BY <2>1, <2>2, <2>4, <3>2 DEF DeniedToLater
      <3>6. CASE req'[r].pc = req[r].pc /\ req'[r].time = req[r].time
        BY <3>3, <3>4, <3>5, <3>6
      <3>7. CASE Goes(r)
        <4>1. \/ req[r].pc = "isTokenRevoked" /\ req'[r].pc = "refused"
              \/ req[r].pc = "isTokenRevoked" /\ req'[r].pc = "checkAccount"
                   /\ ~isTokenRevoked(a)
              \/ req[r].pc = "checkAccount" /\ req'[r].pc \in {"ok", "refused"}
                   /\ req'[r].time = now
          BY <3>2, <3>7 DEF Goes, Path, Edge, Openers, Cutters
        <4>2. isTokenRevoked(a) \/ now >= exp(a)
          BY <2>2 DEF DeniedUntilExpiry, isTokenRevoked
        <4> QED
          BY <3>3, <3>4, <3>5, <4>1, <4>2
      <3>8. CASE Fails(r)
        BY <3>2, <3>6, <3>8 DEF Fails, Edge
      <3> QED
        BY <3>1, <3>6, <3>7, <3>8
    <2> QED
      BY <2>3, <2>4
  <1> QED
    BY <1>1 DEF DeniedToLater

-----------------------------------------------------------------------------
(* The cutoff. *)

LEMMA CutoffSetNext ==
    ASSUME FlowInv, CutoffSet, [Next]_vars
    PROVE  CutoffSet'
  <1> SUFFICES ASSUME NEW w \in Requests, NEW s \in Requests, CutDone(w, s)'
               PROVE  issuedBeforeCutoff(req[s].time, req[s].user)'
    BY DEF CutoffSet
  <1>0. CallInv /\ TypeInv /\ RowInv
    BY DEF FlowInv, RowInv, CallInv
  <1>1. req'[w] = req[w] \/ Begins(w) \/ Goes(w) \/ Fails(w)
    BY <1>0, CallStep
  <1>2. ~Begins(w)
    BY DEF CutDone, Begins, Arrival, Cutters, Openers
  <1>3. Keeps(w)
    BY <1>1, <1>2 DEF Goes, Fails, Keeps
  <1>4. /\ s \in Opened /\ req'[s] = req[s] /\ s \in req[w].before
        /\ req[w].kind \in Cutters /\ req[w].user = req[s].user
    BY <1>0, <1>3, OpenedBack DEF CutDone, Keeps
  <1> DEFINE u == req[s].user
  <1>5. /\ u \in Users /\ req[s].time \in Nat /\ now \in Nat /\ req[s].time <= now
        /\ users[u].tokens_valid_from \in Nat /\ users'[u].tokens_valid_from \in Nat
        /\ users \in [Users -> UserRow]
    BY <1>0, TypeStep
       DEF RowInv, TimesPast, TypeInv, TypeOK, StoreTypeOK, UserRow, Call
  <1>6. CASE req[w].pc = "ok"
    <2>1. req[s].time < users[u].tokens_valid_from
      BY <1>4, <1>6 DEF CutDone, CutoffSet, issuedBeforeCutoff
    <2>2. users'[u].tokens_valid_from >= users[u].tokens_valid_from
      BY <1>0, <1>5, DenialsStep
    <2>3. req[s].time < users'[u].tokens_valid_from
      BY <1>5, <2>1, <2>2
    <2> QED
      BY <1>4, <2>3 DEF issuedBeforeCutoff
  <1>7. CASE Goes(w) /\ req[w].pc # "ok"
    <2>1. setCutoff(u)
      BY <1>4, <1>7 DEF CutDone, Goes, Path, Edge, Openers, Cutters
    <2>2. users'[u].tokens_valid_from = now + 1
      BY <1>5, <2>1 DEF setCutoff, UserRow
    <2>3. req[s].time < users'[u].tokens_valid_from
      BY <1>5, <2>2
    <2> QED
      BY <1>4, <2>3 DEF issuedBeforeCutoff
  <1> QED
    BY <1>1, <1>2, <1>4, <1>6, <1>7 DEF Fails, Edge, CutDone, Cutters

LEMMA CutToLaterNext ==
    ASSUME FlowInv, CutoffSet, CutToLater, [Next]_vars
    PROVE  CutToLater'
  <1>0. CallInv /\ TypeInv
    BY DEF FlowInv, RowInv, CallInv
  <1>1. ASSUME NEW r \in Requests, NEW w \in Requests, NEW s, s = req'[r].access,
               req'[r].kind = "validateToken", req'[r].pc = "ok",
               w \in req'[r].before, CutDone(w, s)'
        PROVE  FALSE
    <2>1. /\ req'[w] = req[w]
          /\ ~Begins(r) => w \in req[r].before /\ Keeps(r)
      BY <1>0, <1>1, BeforeStep
    <2>2. CutDone(w, s) /\ s \in Requests
      BY <1>0, <1>1, <2>1, OpenedBack DEF CutDone, Opened
    <2>3. ~Begins(r)
      BY <1>1 DEF Begins, Arrival, Openers, Cutters
    <2>4. req[r].kind = "validateToken" /\ req[r].access = s /\ w \in req[r].before
      BY <1>1, <2>1, <2>3 DEF Keeps
    <2>5. req[r].pc \notin {"idle", "ok"} \/ req[r].pc = "idle"
      BY <2>2, <2>4 DEF CutToLater
    <2>6. Goes(r) /\ req[r].pc = "checkAccount" /\ accepts(s)
      BY <1>0, <1>1, <2>3, <2>4, <2>5, CallStep
         DEF Goes, Fails, Path, Edge, Openers, Cutters
    <2>7. issuedBeforeCutoff(req[s].time, req[s].user)
      BY <2>2 DEF CutoffSet
    <2> QED
      BY <2>6, <2>7 DEF accepts
  <1> QED
    BY <1>1 DEF CutToLater

-----------------------------------------------------------------------------
(* Bans and addresses. *)

LEMMA BannedAreSuspendedNext ==
    ASSUME FlowInv, BannedAreSuspended, [Next]_vars
    PROVE  BannedAreSuspended'
  <1> SUFFICES ASSUME NEW w \in Requests, Bans(w)'
               PROVE  users'[req'[w].user].status = "suspended"
    BY DEF BannedAreSuspended
  <1>0. CallInv /\ TypeInv /\ req[w].user \in Users
    BY DEF FlowInv, RowInv, CallInv, TypeInv, TypeOK, Call
  <1>1. req'[w] = req[w] \/ Begins(w) \/ Goes(w) \/ Fails(w)
    BY <1>0, CallStep
  <1>2. CASE Begins(w)
    BY <1>2 DEF Begins, Arrival, Bans
  <1>3. CASE ~Begins(w)
    <2>1. req'[w].user = req[w].user /\ Bans(w)
      BY <1>1, <1>3 DEF Goes, Fails, Keeps, Path, Edge, Bans, Openers, Cutters
    <2>2. users[req[w].user].status = "suspended"
      BY <2>1 DEF BannedAreSuspended
    <2>3. users'[req[w].user].status = "suspended"
      BY <1>0, <2>2, UserRowStep
    <2> QED
      BY <2>1, <2>3
  <1> QED
    BY <1>2, <1>3

(* A call passes the check of the status in a step that finds it active. *)
LEMMA PassesStatus ==
    ASSUME FlowInv, [Next]_vars, NEW r \in Requests, PassedStatus(r)'
    PROVE  \/ PassedStatus(r) /\ Keeps(r) /\ ~Begins(r)
           \/ active(req'[r].user)
  <1>0. CallInv /\ TypeInv /\ Presented(r)
    BY DEF FlowInv, RowInv, CallInv, AllPresented
  <1>1. req'[r] = req[r] \/ Begins(r) \/ Goes(r) \/ Fails(r)
    BY <1>0, CallStep
  <1>2. CASE Begins(r)
    BY <1>2 DEF Begins, Arrival, PassedStatus, Cutters
  <1>3. CASE Goes(r)
    <2>1. CASE req[r].kind = "validateToken"
      <3>1. accepts(req[r].access) /\ req'[r].user = req[r].user
        BY <1>3, <2>1 DEF Goes, Keeps, Path, Edge, PassedStatus, Openers, Cutters
      <3>2. req[r].user = req[req[r].access].user
        BY <1>0, <1>3, <2>1 DEF Presented, Goes, Steps
      <3> QED
        BY <3>1, <3>2 DEF accepts, active
    <2>2. CASE req[r].kind # "validateToken"
      BY <1>3, <2>2 DEF Goes, Keeps, Path, Edge, PassedStatus, Openers, Cutters, Begins, Steps
    <2> QED
      BY <2>1, <2>2
  <1>4. CASE Fails(r)
    BY <1>4 DEF Fails, Keeps, Edge, PassedStatus, Begins, Steps
  <1>5. CASE req'[r] = req[r] /\ ~Begins(r)
    BY <1>5 DEF PassedStatus, Keeps
  <1> QED
    BY <1>1, <1>2, <1>3, <1>4, <1>5

LEMMA NotBannedBeforeNext ==
    ASSUME FlowInv, BannedAreSuspended, NotBannedBefore, [Next]_vars
    PROVE  NotBannedBefore'
  <1> SUFFICES ASSUME NEW r \in Requests, NEW w \in Requests, PassedStatus(r)',
                      w \in req'[r].before, Bans(w)'
               PROVE  req'[w].user # req'[r].user
    BY DEF NotBannedBefore
  <1>1. /\ req'[w] = req[w]
        /\ ~Begins(r) => w \in req[r].before /\ Keeps(r)
    BY BeforeStep DEF FlowInv, RowInv
  <1>2. Bans(w) /\ users[req[w].user].status = "suspended"
    BY <1>1 DEF Bans, BannedAreSuspended
  <1> QED
    BY <1>1, <1>2, PassesStatus DEF NotBannedBefore, active, Keeps

LEMMA NobodyVerifiedBack ==
    ASSUME CallInv, [Next]_vars, NobodyVerified'
    PROVE  NobodyVerified
  BY CallsAreSteady DEF CallInv, Rested, NobodyVerified, Steady, Keeps

LEMMA ChangedAreUnverifiedNext ==
    ASSUME FlowInv, ChangedAreUnverified, [Next]_vars
    PROVE  ChangedAreUnverified'
  <1> SUFFICES ASSUME NobodyVerified', NEW w \in Requests, Unverifies(w)'
               PROVE  ~users'[req'[w].user].email_verified
    BY DEF ChangedAreUnverified
  <1>0. CallInv /\ TypeInv /\ req[w].user \in Users /\ NobodyVerified
    BY NobodyVerifiedBack DEF FlowInv, RowInv, CallInv, TypeInv, TypeOK, Call
  <1>1. req'[w] = req[w] \/ Begins(w) \/ Goes(w) \/ Fails(w)
    BY <1>0, CallStep
  <1>2. CASE Begins(w)
    BY <1>2 DEF Begins, Arrival, Unverifies
  <1>3. CASE ~Begins(w)
    <2>1. req'[w].user = req[w].user /\ Unverifies(w)
      BY <1>1, <1>3 DEF Goes, Fails, Keeps, Path, Edge, Unverifies, Openers, Cutters
    <2>2. ~users[req[w].user].email_verified
      BY <1>0, <2>1 DEF ChangedAreUnverified
    <2> QED
      BY <1>0, <2>1, <2>2, UserRowStep DEF NobodyVerified
  <1> QED
    BY <1>2, <1>3

LEMMA PassesAddress ==
    ASSUME FlowInv, [Next]_vars, NEW r \in Requests, PassedAddress(r)'
    PROVE  \/ PassedAddress(r) /\ Keeps(r) /\ ~Begins(r)
           \/ ~blocked(req'[r].user)
  <1>0. CallInv /\ TypeInv /\ Presented(r)
    BY DEF FlowInv, RowInv, CallInv, AllPresented
  <1>1. req'[r] = req[r] \/ Begins(r) \/ Goes(r) \/ Fails(r)
    BY <1>0, CallStep
  <1>2. CASE Begins(r)
    BY <1>2 DEF Begins, Arrival, PassedAddress, Cutters
  <1>3. CASE Goes(r)
    <2>1. CASE req[r].kind = "validateToken"
      <3>1. accepts(req[r].access) /\ req'[r].user = req[r].user
        BY <1>3, <2>1 DEF Goes, Keeps, Path, Edge, PassedAddress, Openers, Cutters
      <3>2. req[r].user = req[req[r].access].user
        BY <1>0, <1>3, <2>1 DEF Presented, Goes, Steps
      <3> QED
        BY <3>1, <3>2 DEF accepts
    <2>2. CASE req[r].kind # "validateToken"
      BY <1>3, <2>2 DEF Goes, Keeps, Path, Edge, PassedAddress, Openers, Cutters, Begins, Steps
    <2> QED
      BY <2>1, <2>2
  <1>4. CASE Fails(r)
    BY <1>4 DEF Fails, Keeps, Edge, PassedAddress, Begins, Steps
  <1>5. CASE req'[r] = req[r] /\ ~Begins(r)
    BY <1>5 DEF PassedAddress, Keeps
  <1> QED
    BY <1>1, <1>2, <1>3, <1>4, <1>5

LEMMA VerifiedBeforeNext ==
    ASSUME FlowInv, ChangedAreUnverified, VerifiedBefore, [Next]_vars
    PROVE  VerifiedBefore'
  <1> SUFFICES ASSUME RequireEmailVerification, NobodyVerified',
                      NEW r \in Requests, NEW w \in Requests, PassedAddress(r)',
                      w \in req'[r].before, Unverifies(w)'
               PROVE  req'[w].user # req'[r].user
    BY DEF VerifiedBefore
  <1>1. /\ req'[w] = req[w]
        /\ ~Begins(r) => w \in req[r].before /\ Keeps(r)
    BY BeforeStep DEF FlowInv, RowInv
  <1>2. NobodyVerified
    BY NobodyVerifiedBack DEF FlowInv, RowInv
  <1>3. Unverifies(w) /\ blocked(req[w].user)
    BY <1>1, <1>2 DEF Unverifies, ChangedAreUnverified, blocked
  <1> QED
    BY <1>1, <1>2, <1>3, PassesAddress DEF VerifiedBefore, Keeps

-----------------------------------------------------------------------------
(* Causes. *)

(* A call that has begun remains a cause of what it was a cause of. *)
LEMMA CausesStay ==
    ASSUME CallInv, [Next]_vars, NEW w \in Requests, Begun(w)
    PROVE  /\ Begun(w)' /\ Keeps(w)
           /\ \A s \in Opened : MayEnd(w, s) => MayEnd(w, s)'
  <1>1. Begun(w)' /\ Keeps(w)
    BY CallsAreSteady DEF Steady, Begun
  <1>2. \A s \in Opened : req'[s] = req[s]
    BY AnswersStay
  <1> QED
    BY <1>1, <1>2 DEF MayEnd, Keeps

LEMMA RevokedForCause ==
    ASSUME FlowInv, MarksHaveCauses, [Next]_vars, NEW s \in Opened',
           refresh_tokens'[s].revoked
    PROVE  CauseOf(s)'
  <1>0. CallInv /\ RowInv
    BY DEF FlowInv, RowInv
  <1>1. s \in Opened
    <2>1. CASE \E r \in Requests :
                /\ r \notin Opened /\ Opened' = Opened \cup {r}
                /\ refresh_tokens' = Insert(refresh_tokens, r,
                     [user_id |-> req[r].user, expires_at |-> now + RefreshTtl,
                      revoked |-> FALSE])
      BY <2>1 DEF Insert
    <2> QED
      BY <1>0, <2>1, RefreshStep
  <1>2. CASE refresh_tokens[s].revoked
    <2>1. PICK w \in Requests : Begun(w) /\ MayEnd(w, s)
      BY <1>1, <1>2 DEF MarksHaveCauses, CauseOf
    <2> QED
      BY <1>0, <1>1, <2>1, CausesStay DEF CauseOf
  <1>3. CASE \E r \in Requests :
                     /\ Goes(r) /\ req[r].pc \in {"revoke", "revokeRefresh"}
                     /\ \/ req[r].kind \in {"refresh", "logout"} /\ req[r].token = s
                        \/ req[r].kind \in Cutters /\ req[r].user = req[s].user
    <2>1. PICK r \in Requests :
                     /\ req[r].pc \in {"revoke", "revokeRefresh"}
                     /\ \/ req[r].kind \in {"refresh", "logout"} /\ req[r].token = s
                        \/ req[r].kind \in Cutters /\ req[r].user = req[s].user
      BY <1>3
    <2>2. Begun(r) /\ MayEnd(r, s)
      BY <2>1 DEF Begun, MayEnd
    <2> QED
      BY <1>0, <1>1, <2>2, CausesStay DEF CauseOf
  <1> QED
    BY <1>0, <1>1, <1>2, <1>3, SessionRowStep

LEMMA DeniedForCause ==
    ASSUME FlowInv, MarksHaveCauses, [Next]_vars, NEW s \in DOMAIN revoked_tokens'
    PROVE  \E w \in Requests : Begun(w)' /\ req'[w].kind = "logout" /\ req'[w].access = s
  <1>0. CallInv
    BY DEF FlowInv, RowInv
  <1>1. \/ s \in DOMAIN revoked_tokens
        \/ \E r \in Requests : LogoutDeny(r) /\ s = req[r].access
    BY DenyWriters DEF PurgeRevoked, purgeRevoked, LogoutDeny, revokeToken, Insert
  <1>2. PICK w \in Requests : Begun(w) /\ req[w].kind = "logout" /\ req[w].access = s
    BY <1>1, DenyStep DEF MarksHaveCauses, Begun
  <1> QED
    BY <1>0, <1>2, CausesStay DEF Keeps

LEMMA MarkedForCause ==
    ASSUME FlowInv, MarksHaveCauses, [Next]_vars, NEW u \in Users
    PROVE  /\ users'[u].tokens_valid_from # 0 =>
                \E w \in Requests : Begun(w)' /\ req'[w].kind \in Cutters /\ req'[w].user = u
           /\ users'[u].status # "active" =>
                \E w \in Requests : Begun(w)' /\ req'[w].kind = "ban" /\ req'[w].user = u
           /\ ~users'[u].email_verified =>
                \E w \in Requests :
                  Begun(w)' /\ req'[w].kind = "changeEmail" /\ req'[w].user = u
  <1>0. CallInv
    BY DEF FlowInv, RowInv
  <1>1. \A w \in Requests : Begun(w) => Begun(w)' /\ Keeps(w)
    BY <1>0, CausesStay
  <1>2. \A r \in Requests : Begins(r) => Begun(r)'
    BY DEF Begins, Arrival, Begun
  <1>3. \A r \in Requests : Goes(r) => Begun(r)
    BY DEF Goes, Begun, Steps
  <1>4. /\ users[u].tokens_valid_from # 0 =>
             \E w \in Requests : Begun(w) /\ req[w].kind \in Cutters /\ req[w].user = u
        /\ users[u].status # "active" =>
             \E w \in Requests : Begun(w) /\ req[w].kind = "ban" /\ req[w].user = u
        /\ ~users[u].email_verified =>
             \E w \in Requests : Begun(w) /\ req[w].kind = "changeEmail" /\ req[w].user = u
    BY DEF MarksHaveCauses
  <1>5. users'[u].tokens_valid_from # 0 =>
          \E w \in Requests : Begun(w)' /\ req'[w].kind \in Cutters /\ req'[w].user = u
    <2>1. CASE users'[u].tokens_valid_from = users[u].tokens_valid_from
      BY <1>1, <1>4, <2>1 DEF Keeps
    <2>2. CASE \E r \in Requests : /\ Goes(r) /\ req[r].user = u
                                   /\ Edge(r, Cutters, "setCutoff", "ok")
      BY <1>1, <1>3, <2>2 DEF Keeps, Edge
    <2> QED
      BY <1>0, <2>1, <2>2, UserRowStep
  <1>6. users'[u].status # "active" =>
          \E w \in Requests : Begun(w)' /\ req'[w].kind = "ban" /\ req'[w].user = u
    <2>1. CASE users'[u].status = users[u].status
      BY <1>1, <1>4, <2>1 DEF Keeps
    <2>2. CASE \E r \in Requests : Begins(r) /\ req'[r].kind = "ban" /\ req'[r].user = u
      BY <1>2, <2>2
    <2> QED
      BY <1>0, <2>1, <2>2, UserRowStep
  <1>7. ~users'[u].email_verified =>
          \E w \in Requests : Begun(w)' /\ req'[w].kind = "changeEmail" /\ req'[w].user = u
    <2>1. CASE users'[u].email_verified = users[u].email_verified
      BY <1>1, <1>4, <2>1 DEF Keeps
    <2>2. CASE \E r \in Requests :
                 Begins(r) /\ req'[r].kind = "changeEmail" /\ req'[r].user = u
      BY <1>2, <2>2
    <2> QED
      BY <1>0, <2>1, <2>2, UserRowStep
  <1> QED
    BY <1>5, <1>6, <1>7

LEMMA MarksHaveCausesNext ==
    ASSUME FlowInv, MarksHaveCauses, [Next]_vars
    PROVE  MarksHaveCauses'
  BY RevokedForCause, DeniedForCause, MarkedForCause DEF MarksHaveCauses

(* What a refusal is due to, when it is given. *)
LEMMA RefusalHasCause ==
    ASSUME FlowInv, MarksHaveCauses, [Next]_vars, AccessTtl <= RefreshTtl,
           NEW r \in Requests, NEW s \in Opened', Presents(r, s)', req'[r].pc = "refused",
           req[r].pc # "refused"
    PROVE  /\ s \in Opened
           /\ \/ now >= exp(s)
              \/ \E w \in Requests \ {r} : Begun(w) /\ MayEnd(w, s)
  <1>0. CallInv /\ TypeInv /\ Presented(r)
    BY DEF FlowInv, RowInv, CallInv, AllPresented
  <1>1. req'[r] = req[r] \/ Begins(r) \/ Goes(r) \/ Fails(r)
    BY <1>0, CallStep
  <1>2. CASE Begins(r)
    <2>1. /\ s \in Opened
          /\ \/ ~refreshable(s)
             \/ ~verifies(s)
      BY <1>2 DEF Begins, Arrival, Presents
    <2>2. /\ s \in Requests /\ req[s].time \in Nat /\ now \in Nat
          /\ s \in DOMAIN refresh_tokens /\ refresh_tokens[s].expires_at \in Nat
          /\ refresh_tokens[s].expires_at >= req[s].time + RefreshTtl
      BY <1>0, <2>1 DEF FlowInv, RowInv, RefreshRows, TypeInv, TypeOK, StoreTypeOK,
                        IsTable, RefreshRow, Call, Opened
    <2>3. CASE now >= exp(s)
      BY <2>1, <2>3
    <2>4. CASE refresh_tokens[s].revoked
      <3>1. PICK w \in Requests : Begun(w) /\ MayEnd(w, s)
        BY <2>1, <2>4 DEF MarksHaveCauses, CauseOf
      <3>2. w # r
        BY <1>2, <3>1 DEF Begins, Begun
      <3> QED
        BY <2>1, <3>1, <3>2
    <2> QED
      BY <2>1, <2>2, <2>3, <2>4, ConfigurationIsNumeric DEF refreshable, verifies, exp
  <1>3. CASE Goes(r)
    <2> DEFINE u == req[r].user
    <2>1. /\ s \in Opened /\ u = req[s].user /\ u \in Users
          /\ Presents(r, s) /\ req[r].kind \in {"refresh", "validateToken"}
      BY <1>0, <1>3 DEF Goes, Keeps, Steps, Presents, Presented, TypeInv, TypeOK, Call
    <2>2. \/ ~active(u)
          \/ req[r].kind = "validateToken" /\ (isTokenRevoked(s) \/ ~accepts(s))
      BY <1>3, <2>1 DEF Goes, Path, Edge, Openers, Cutters, Presents
    <2>3. \/ ~active(u)
          \/ /\ req[r].kind = "validateToken"
             /\ \/ isTokenRevoked(s) \/ ~users[u].email_verified
                \/ users[u].tokens_valid_from # 0
      <3>1. /\ req[s].time \in Nat /\ users[u].tokens_valid_from \in Nat
        BY <1>0, <2>1 DEF TypeInv, TypeOK, StoreTypeOK, UserRow, Call, Opened
      <3>2. issuedBeforeCutoff(req[s].time, u) => users[u].tokens_valid_from # 0
        BY <3>1 DEF issuedBeforeCutoff
      <3> QED
        BY <2>1, <2>2, <3>2 DEF accepts, active, blocked
    <2>4. CASE ~active(u)
      BY <2>1, <2>4 DEF MarksHaveCauses, active, MayEnd
    <2>5. CASE req[r].kind = "validateToken" /\ isTokenRevoked(s)
      BY <2>1, <2>5 DEF MarksHaveCauses, isTokenRevoked, MayEnd
    <2>6. CASE req[r].kind = "validateToken" /\ ~users[u].email_verified
      BY <2>1, <2>6 DEF MarksHaveCauses, MayEnd
    <2>7. CASE req[r].kind = "validateToken" /\ users[u].tokens_valid_from # 0
      BY <2>1, <2>7 DEF MarksHaveCauses, MayEnd, Cutters
    <2> QED
      BY <2>3, <2>4, <2>5, <2>6, <2>7
  <1> QED
    BY <1>1, <1>2, <1>3 DEF Fails, Edge

LEMMA RefusedForCauseNext ==
    ASSUME FlowInv, MarksHaveCauses, RefusedForCause, [Next]_vars, AccessTtl <= RefreshTtl
    PROVE  RefusedForCause'
  <1> SUFFICES ASSUME NEW r \in Requests, NEW s \in Requests,
                      s \in Opened', Presents(r, s)', req'[r].pc = "refused"
               PROVE  \/ now' >= exp(s)'
                      \/ \E w \in Requests \ {r} : req'[w].pc # "idle" /\ MayEnd(w, s)'
    BY DEF RefusedForCause
  <1>0. CallInv /\ TypeInv
    BY DEF FlowInv, RowInv, CallInv
  <1>1. /\ s \in Opened
        /\ \/ now >= exp(s)
           \/ \E w \in Requests \ {r} : Begun(w) /\ MayEnd(w, s)
    <2>1. CASE req[r].pc = "refused"
      <3>1. req'[r] = req[r] /\ Presents(r, s)
        BY <1>0, <2>1, CallsAreSteady DEF Steady, Over, Outcomes, Presents
      <3>2. s \in Opened
        BY <1>0, <2>1, <3>1 DEF Presents, Presented, FlowInv, AllPresented
      <3> QED
        BY <2>1, <3>1, <3>2 DEF RefusedForCause, Begun
    <2> QED
      BY <2>1, RefusalHasCause
  <1>2. CASE now >= exp(s)
    <2>1. exp(s)' = exp(s) /\ exp(s) \in Nat /\ now \in Nat
      <3>1. req'[s] = req[s] /\ req[s].time \in Nat /\ now \in Nat
        BY <1>0, <1>1, AnswersStay DEF TypeInv, TypeOK, StoreTypeOK, Call
      <3> QED
        BY <3>1, ConfigurationIsNumeric DEF exp
    <2> QED
      BY <1>0, <1>2, <2>1, ClockAdvances
  <1>3. CASE \E w \in Requests \ {r} : Begun(w) /\ MayEnd(w, s)
    BY <1>0, <1>1, <1>3, CausesStay DEF Begun
  <1> QED
    BY <1>1, <1>2, <1>3

-----------------------------------------------------------------------------
RevocationInv ==
    /\ FlowInv
    /\ EndedAreGone /\ RenewsNothing
    /\ DenyRows /\ DeniedUntilExpiry /\ DeniedToLater
    /\ CutoffSet /\ CutToLater
    /\ BannedAreSuspended /\ NotBannedBefore
    /\ ChangedAreUnverified /\ VerifiedBefore
    /\ MarksHaveCauses

LEMMA RevocationInit == Init => RevocationInv
  <1> SUFFICES ASSUME Init PROVE RevocationInv
    OBVIOUS
  <1>1. \A q \in Requests : req[q].pc = "idle" /\ req[q].kind = "login"
    BY DEF Init
  <1>2. Opened = {} /\ DOMAIN revoked_tokens = {}
    BY <1>1 DEF Init, StoreInit, EmptyTable, Opened
  <1>3. \A u \in Users : /\ users[u].tokens_valid_from = 0 /\ users[u].status = "active"
                         /\ users[u].email_verified
    BY DEF Init, StoreInit
  <1>4. EndedAreGone /\ RenewsNothing
    BY <1>1 DEF EndedAreGone, RenewsNothing, Ended, Spends, CutRows
  <1>5. DenyRows /\ DeniedUntilExpiry /\ DeniedToLater
    BY <1>1, <1>2 DEF DenyRows, DeniedUntilExpiry, DeniedToLater, Denies
  <1>6. CutoffSet /\ CutToLater
    BY <1>1 DEF CutoffSet, CutToLater, CutDone
  <1>7. BannedAreSuspended /\ NotBannedBefore /\ ChangedAreUnverified /\ VerifiedBefore
    BY <1>1 DEF BannedAreSuspended, NotBannedBefore, ChangedAreUnverified, VerifiedBefore,
                Bans, Unverifies
  <1>8. MarksHaveCauses
    BY <1>2, <1>3 DEF MarksHaveCauses
  <1> QED
    BY <1>4, <1>5, <1>6, <1>7, <1>8, FlowInit DEF RevocationInv

LEMMA RevocationNext == RevocationInv /\ [Next]_vars => RevocationInv'
  BY FlowNext, EndedAreGoneNext, RenewsNothingNext, DenyRowsNext, DeniedUntilExpiryNext,
     DeniedToLaterNext, CutoffSetNext, CutToLaterNext, BannedAreSuspendedNext,
     NotBannedBeforeNext, ChangedAreUnverifiedNext, VerifiedBeforeNext, MarksHaveCausesNext
     DEF RevocationInv

LEMMA RevocationHolds == Spec => []RevocationInv
  BY RevocationInit, RevocationNext, PTL DEF Spec

(* A refresh token that one call has spent, whatever became of that call,  *)
(* buys nothing from a call that begins when the first is over             *)
(* (AuthService.refresh, TokenRepository.revoke).                          *)
THEOREM SpentTokensBuyNothing == Spec => []SpentTokenBuysNothing
  <1>1. RevocationInv => SpentTokenBuysNothing
    BY DEF RevocationInv, RenewsNothing, SpentTokenBuysNothing, Ended, Spends
  <1> QED
    BY <1>1, RevocationHolds, PTL

(* After a logout has answered, no later call renews its refresh token,    *)
(* and none validates its access token before that token has expired       *)
(* (AuthService.logout, validateToken; RevocationRepository).              *)
THEOREM LogoutsAreFinal == Spec => []LogoutIsFinal
  <1>1. RevocationInv => LogoutIsFinal
    <2> SUFFICES ASSUME RevocationInv, NEW r \in Requests, NEW w \in Requests,
                        req[w].kind = "logout", Follows(r, w), req[r].pc = "ok"
                 PROVE  /\ ~(req[r].kind = "refresh" /\ req[r].token = req[w].token)
                        /\ req[r].kind = "validateToken" /\ req[r].access = req[w].access
                             => req[r].time >= exp(req[w].access)
      BY DEF LogoutIsFinal
    <2>1. ~(req[r].kind = "refresh" /\ req[r].token = req[w].token)
      BY DEF RevocationInv, RenewsNothing, Follows, Ended, Spends
    <2>2. ASSUME req[r].kind = "validateToken", req[r].access = req[w].access
          PROVE  req[r].time >= exp(req[w].access)
      <3>1. req[r].access # None
        BY <2>2, SessionsAssumption
           DEF RevocationInv, FlowInv, AllPresented, Presented, Opened
      <3>2. Denies(w)
        BY <2>2, <3>1 DEF Denies, Follows
      <3> QED
        BY <2>2, <3>2 DEF RevocationInv, DeniedToLater, Follows
    <2> QED
      BY <2>1, <2>2
  <1> QED
    BY <1>1, RevocationHolds, PTL

(* A session that was open when a password change, a reset or a forced     *)
(* sign-out began is neither renewed nor validated by a call that begins   *)
(* when it has answered (AuthService.changePassword, resetPassword,        *)
(* revokeAllSessions; setTokensValidFromNow).                              *)
THEOREM CutsAreFinal == Spec => []CutSessionsStayOut
  <1>1. RevocationInv => CutSessionsStayOut
    <2> SUFFICES ASSUME RevocationInv, NEW r \in Requests, NEW w \in Requests,
                        NEW s \in Requests, Cuts(w, s), Follows(r, w), Presents(r, s)
                 PROVE  req[r].pc # "ok"
      BY DEF CutSessionsStayOut
    <2>1. CASE req[r].kind = "refresh" /\ req[r].token = s
      BY <2>1 DEF RevocationInv, RenewsNothing, Cuts, Follows, Ended, CutRows
    <2>2. CASE req[r].kind = "validateToken" /\ req[r].access = s
      BY <2>2 DEF RevocationInv, CutToLater, Cuts, Follows, CutDone
    <2> QED
      BY <2>1, <2>2 DEF Presents
  <1> QED
    BY <1>1, RevocationHolds, PTL

(* An account banned before a call begins gets nothing from that call: no  *)
(* session, no renewal, no validation, no profile, no ticket, no mail (the *)
(* status checks of AuthService).                                          *)
THEOREM BansHold == Spec => []BannedGetsNothing
  <1>1. RevocationInv => BannedGetsNothing
    BY DEF RevocationInv, NotBannedBefore, BannedGetsNothing, Bans, Follows, PassedStatus,
           Openers
  <1> QED
    BY <1>1, RevocationHolds, PTL

(* Where verification is required, a call that begins after the address    *)
(* was changed, and not verified since, neither opens nor validates a      *)
(* session of the account (AuthService.login, redeemSsoTicket,             *)
(* validateToken).                                                         *)
THEOREM UnverifiedStaysOut == Spec => []UnverifiedGetsNoLogin
  <1>1. RevocationInv => UnverifiedGetsNoLogin
    BY DEF RevocationInv, VerifiedBefore, NobodyVerified, UnverifiedGetsNoLogin, Unverifies,
           Follows, PassedAddress
  <1> QED
    BY <1>1, RevocationHolds, PTL

(* When an access token lives no longer than a refresh token, as the       *)
(* defaults of config have it (900 s and 7 days), a session is refused     *)
(* only because its access token has expired or because another call that  *)
(* names it, or acts on its user, may have ended it (the WHERE clauses of  *)
(* TokenRepository and RevocationRepository).                              *)
THEOREM RefusalsHaveCauses ==
    ASSUME AccessTtl <= RefreshTtl
    PROVE  Spec => []RefusedForCause
  <1>1. Init => RefusedForCause
    BY DEF Init, RefusedForCause, Opened
  <1>2. RevocationInv /\ RefusedForCause /\ [Next]_vars => RefusedForCause'
    BY RefusedForCauseNext DEF RevocationInv
  <1> QED
    BY <1>1, <1>2, RevocationHolds, PTL DEF Spec

-----------------------------------------------------------------------------
(* Tickets and reset tokens. *)

(* A row names the target its ticket was minted for. *)
RowTargets == \A t \in DOMAIN sso_tickets : sso_tickets[t].target = req[t].target

(* A call past peek() holds a ticket minted for its application. *)
Admitted(r) ==
    /\ req[r].kind = "redeemSsoTicket"
    /\ req[r].pc \in {"findById", "consumeTicket", "sign", "create", "ok"}

AdmittedAtTarget ==
    \A r \in Requests : Admitted(r) => req[r].target = req[req[r].token].target

(* The row of a redeemed token is used, or gone: consume finds it no more. *)
Spent(table, t) == t \in DOMAIN table => table[t].used

RedeemedAreSpent ==
    /\ \A r \in Requests : HasRedeemed(r) => Spent(sso_tickets, req[r].token)
    /\ \A r \in Requests : HasReset(r) => Spent(password_reset_tokens, req[r].token)

OneRedeemer ==
    /\ \A r, q \in Requests :
         HasRedeemed(r) /\ HasRedeemed(q) /\ req[r].token = req[q].token => r = q
    /\ \A r, q \in Requests :
         HasReset(r) /\ HasReset(q) /\ req[r].token = req[q].token => r = q

TicketInv == FlowInv /\ RowTargets /\ AdmittedAtTarget /\ RedeemedAreSpent /\ OneRedeemer

-----------------------------------------------------------------------------
(* What a step does to the rows, and to what has been issued and redeemed. *)

(* A row that is gone does not come back. *)
LEMMA TicketsNotReissued ==
    ASSUME FlowInv, [Next]_vars, NEW t \in Tickets, t \in DOMAIN sso_tickets'
    PROVE  t \in DOMAIN sso_tickets
  <1>1. CASE UNCHANGED sso_tickets \/ PurgeTickets
    BY <1>1 DEF PurgeTickets, purgeTickets, Unexpired
  <1>2. CASE \E r \in Requests :
                /\ Goes(r) /\ Edge(r, {"createSsoTicket"}, "insertTicket", "ok")
                /\ insertTicket(r, req[r].user, req[r].target)
    BY <1>2 DEF Edge, Tickets, Answers, insertTicket, Insert
  <1>3. CASE \E r \in Requests : consumeTicket(req[r].token)
    BY <1>3 DEF consumeTicket
  <1> QED
    BY <1>1, <1>2, <1>3, TicketStep DEF FlowInv, RowInv

LEMMA ResetsNotReissued ==
    ASSUME FlowInv, [Next]_vars, NEW t \in Mailed, t \in DOMAIN password_reset_tokens'
    PROVE  t \in DOMAIN password_reset_tokens
  <1>1. CASE \/ UNCHANGED password_reset_tokens \/ PurgeResets
             \/ \E r \in Requests : \/ invalidateOutstanding(req[r].user)
                                    \/ consumeReset(req[r].token)
    BY <1>1 DEF PurgeResets, purgeResets, Unexpired, invalidateOutstanding, consumeReset
  <1>2. CASE \E r \in Requests :
                /\ Goes(r) /\ Edge(r, {"forgotPassword"}, "insertReset", "ok")
                /\ insertReset(r, req[r].user)
    BY <1>2 DEF Edge, Mailed, Answers, insertReset, Insert
  <1> QED
    BY <1>1, <1>2, ResetStep DEF FlowInv, RowInv

LEMMA SpentStays ==
    ASSUME FlowInv, [Next]_vars
    PROVE  /\ \A t \in Tickets : Spent(sso_tickets, t) => Spent(sso_tickets, t)'
           /\ \A t \in Mailed :
                Spent(password_reset_tokens, t) => Spent(password_reset_tokens, t)'
  BY TicketsNotReissued, ResetsNotReissued, TicketRowStep, ResetRowStep DEF Spent, FlowInv

Minting(r) == Goes(r) /\ Edge(r, {"createSsoTicket"}, "insertTicket", "ok")
Redeeming(r) == Goes(r) /\ Edge(r, {"redeemSsoTicket"}, "consumeTicket", "sign")
Mailing(r) == Goes(r) /\ Edge(r, {"forgotPassword"}, "insertReset", "ok")
Resetting(r) == Goes(r) /\ Edge(r, {"resetPassword"}, "consumeReset", "updatePassword")

(* Issuing and redeeming are edges of their handlers; no other edge does. *)
LEMMA IssueAndRedeem ==
    ASSUME CallInv, [Next]_vars, NEW r \in Requests
    PROVE  /\ r \in Tickets' <=> r \in Tickets \/ Minting(r)
           /\ r \in Mailed' <=> r \in Mailed \/ Mailing(r)
           /\ HasRedeemed(r)' <=> HasRedeemed(r) \/ Redeeming(r)
           /\ HasReset(r)' <=> HasReset(r) \/ Resetting(r)
           /\ HasRedeemed(r) \/ HasReset(r) \/ Redeeming(r) \/ Resetting(r) => Keeps(r)
           /\ Admitted(r)' => \/ Admitted(r) /\ Keeps(r)
                              \/ /\ Begins(r) /\ req'[r].kind = "redeemSsoTicket"
                                 /\ req'[r].pc = "findById"
  <1>1. req'[r] = req[r] \/ Begins(r) \/ Goes(r) \/ Fails(r)
    BY CallStep DEF CallInv
  <1>2. CASE req'[r] = req[r]
    BY <1>2 DEF Tickets, Mailed, Answers, HasRedeemed, HasReset, Minting, Mailing,
                Redeeming, Resetting, Edge, Keeps, Admitted
  <1>3. CASE Begins(r)
    BY <1>3 DEF Begins, Arrival, Tickets, Mailed, Answers, HasRedeemed, HasReset, Minting,
                Mailing, Redeeming, Resetting, Edge, Admitted, Goes, Steps, Openers, Cutters
  <1>4. CASE Goes(r)
    <2>1. Keeps(r) /\ Path(r)
      BY <1>4 DEF Goes
    <2> QED
      BY <1>4, <2>1 DEF Path, Keeps, Tickets, Mailed, Answers, HasRedeemed, HasReset, Minting,
                Mailing, Redeeming, Resetting, Edge, Admitted, Openers, Cutters
  <1>5. CASE Fails(r)
    BY <1>5 DEF Fails, Keeps, Tickets, Mailed, Answers, HasRedeemed, HasReset, Minting,
                Mailing, Redeeming, Resetting, Edge, Goes, Admitted
  <1> QED
    BY <1>1, <1>2, <1>3, <1>4, <1>5

LEMMA TicketInit == Init => TicketInv
  <1> SUFFICES ASSUME Init PROVE TicketInv
    OBVIOUS
  <1>1. \A r \in Requests : ~Admitted(r) /\ ~HasRedeemed(r) /\ ~HasReset(r)
    BY DEF Init, Admitted, HasRedeemed, HasReset
  <1>2. DOMAIN sso_tickets = {}
    BY DEF Init, StoreInit, EmptyTable
  <1> QED
    BY <1>1, <1>2, FlowInit
       DEF TicketInv, RowTargets, AdmittedAtTarget, RedeemedAreSpent, OneRedeemer

LEMMA RowTargetsNext ==
    ASSUME TicketInv, [Next]_vars
    PROVE  RowTargets'
  <1> SUFFICES ASSUME NEW t \in DOMAIN sso_tickets'
               PROVE  sso_tickets'[t].target = req'[t].target
    BY DEF RowTargets
  <1>0. CallInv /\ RowInv /\ FlowInv
    BY DEF TicketInv, FlowInv, RowInv
  <1>1. CASE t \in DOMAIN sso_tickets
    <2>1. t \in Tickets /\ req'[t] = req[t]
      BY <1>0, <1>1, AnswersStay DEF RowInv, OneTimeRows
    <2> QED
      BY <1>0, <1>1, <2>1, TicketRowStep DEF TicketInv, RowTargets
  <1>2. CASE t \notin DOMAIN sso_tickets
    <2>1. Goes(t) /\ insertTicket(t, req[t].user, req[t].target)
      BY <1>0, <1>2, TicketStep
         DEF PurgeTickets, purgeTickets, Unexpired, insertTicket, Insert, consumeTicket
    <2> QED
      BY <2>1 DEF Goes, Keeps, insertTicket, Insert
  <1> QED
    BY <1>1, <1>2

LEMMA AdmittedAtTargetNext ==
    ASSUME TicketInv, [Next]_vars
    PROVE  AdmittedAtTarget'
  <1> SUFFICES ASSUME NEW r \in Requests, Admitted(r)', NEW t, t = req'[r].token
               PROVE  req'[r].target = req'[t].target
    BY DEF AdmittedAtTarget
  <1>0. CallInv /\ Presented(r)
    BY DEF TicketInv, FlowInv, RowInv, AllPresented
  <1>1. \A k \in Tickets : req'[k] = req[k]
    BY <1>0, AnswersStay
  <1>2. CASE Admitted(r) /\ Keeps(r)
    <2>1. t \in Tickets /\ t = req[r].token
      BY <1>0, <1>2 DEF Presented, Admitted, Keeps
    <2> QED
      BY <1>1, <1>2, <2>1 DEF TicketInv, AdmittedAtTarget, Keeps
  <1>3. CASE Begins(r) /\ req'[r].kind = "redeemSsoTicket" /\ req'[r].pc = "findById"
    <2>1. t \in Tickets /\ redeemable(sso_tickets, t) /\ sso_tickets[t].target = req'[r].target
      BY <1>3 DEF Begins, Arrival
    <2> QED
      BY <1>1, <2>1 DEF TicketInv, RowTargets, redeemable
  <1> QED
    BY <1>0, <1>2, <1>3, IssueAndRedeem

(* What a redeeming step finds, and leaves. *)
LEMMA RedeemingSpends ==
    ASSUME TicketInv, [Next]_vars, NEW r \in Requests, Redeeming(r), NEW t, t = req[r].token
    PROVE  /\ t \in Tickets /\ redeemable(sso_tickets, t)
           /\ t \in DOMAIN sso_tickets' /\ sso_tickets'[t].used /\ Spent(sso_tickets, t)'
  <1>0. /\ Presented(r) /\ sso_tickets \in [DOMAIN sso_tickets -> TicketRow]
    BY DEF TicketInv, FlowInv, RowInv, AllPresented, CallInv, TypeInv, TypeOK, StoreTypeOK,
           IsTable
  <1>1. t \in Tickets /\ redeemable(sso_tickets, t) /\ consumeTicket(t)
    BY <1>0 DEF Redeeming, Goes, Path, Edge, Presented, Steps
  <1>2. t \in DOMAIN sso_tickets' /\ sso_tickets'[t].used
    BY <1>0, <1>1 DEF consumeTicket, redeemable, TicketRow
  <1> QED
    BY <1>1, <1>2 DEF Spent

LEMMA ResettingSpends ==
    ASSUME TicketInv, [Next]_vars, NEW r \in Requests, Resetting(r), NEW t, t = req[r].token
    PROVE  /\ t \in Mailed /\ redeemable(password_reset_tokens, t)
           /\ t \in DOMAIN password_reset_tokens' /\ password_reset_tokens'[t].used
           /\ Spent(password_reset_tokens, t)'
  <1>0. /\ Presented(r)
        /\ password_reset_tokens \in [DOMAIN password_reset_tokens -> ResetRow]
    BY DEF TicketInv, FlowInv, RowInv, AllPresented, CallInv, TypeInv, TypeOK, StoreTypeOK,
           IsTable
  <1>1. t \in Mailed /\ redeemable(password_reset_tokens, t) /\ consumeReset(t)
    BY <1>0 DEF Resetting, Goes, Path, Edge, Presented, Steps
  <1>2. t \in DOMAIN password_reset_tokens' /\ password_reset_tokens'[t].used
    BY <1>0, <1>1 DEF consumeReset, redeemable, ResetRow
  <1> QED
    BY <1>1, <1>2 DEF Spent

LEMMA RedeemedAreSpentNext ==
    ASSUME TicketInv, [Next]_vars
    PROVE  RedeemedAreSpent'
  <1>0. FlowInv /\ CallInv
    BY DEF TicketInv, FlowInv, RowInv
  <1>1. ASSUME NEW r \in Requests, HasRedeemed(r)'
        PROVE  Spent(sso_tickets, req[r].token)'
    <2>1. req'[r].token = req[r].token
      BY <1>0, <1>1, IssueAndRedeem DEF Keeps
    <2>2. CASE HasRedeemed(r)
      <3>1. req[r].token \in Tickets
        BY <2>2 DEF HasRedeemed, TicketInv, FlowInv, AllPresented, Presented
      <3>2. Spent(sso_tickets, req[r].token)
        BY <2>2 DEF TicketInv, RedeemedAreSpent
      <3> QED
        BY <1>0, <2>1, <3>1, <3>2, SpentStays DEF Spent
    <2>3. CASE Redeeming(r)
      BY <2>1, <2>3, RedeemingSpends DEF Spent
    <2> QED
      BY <1>0, <1>1, <2>2, <2>3, IssueAndRedeem
  <1>2. ASSUME NEW r \in Requests, HasReset(r)'
        PROVE  Spent(password_reset_tokens, req[r].token)'
    <2>1. req'[r].token = req[r].token
      BY <1>0, <1>2, IssueAndRedeem DEF Keeps
    <2>2. CASE HasReset(r)
      <3>1. req[r].token \in Mailed
        BY <2>2 DEF HasReset, TicketInv, FlowInv, AllPresented, Presented
      <3>2. Spent(password_reset_tokens, req[r].token)
        BY <2>2 DEF TicketInv, RedeemedAreSpent
      <3> QED
        BY <1>0, <2>1, <3>1, <3>2, SpentStays DEF Spent
    <2>3. CASE Resetting(r)
      BY <2>1, <2>3, ResettingSpends DEF Spent
    <2> QED
      BY <1>0, <1>2, <2>2, <2>3, IssueAndRedeem
  <1> QED
    BY <1>1, <1>2 DEF RedeemedAreSpent

LEMMA OneRedeemerNext ==
    ASSUME TicketInv, [Next]_vars
    PROVE  OneRedeemer'
  <1>0. CallInv
    BY DEF TicketInv, FlowInv, RowInv
  <1>1. ASSUME NEW r \in Requests, NEW q \in Requests, HasRedeemed(r)', HasRedeemed(q)',
               req'[r].token = req'[q].token, r # q
        PROVE  FALSE
    <2>1. req[r].token = req[q].token
      BY <1>0, <1>1, IssueAndRedeem DEF Keeps
    <2>2. ~(Redeeming(r) /\ Redeeming(q))
      BY <1>1 DEF Redeeming, Goes, OthersStay, Edge
    <2>3. ASSUME NEW p \in Requests, HasRedeemed(p), NEW w \in Requests, Redeeming(w),
                 req[p].token = req[w].token
          PROVE  FALSE
      BY <2>3, RedeemingSpends DEF TicketInv, RedeemedAreSpent, Spent, redeemable
    <2>4. ~(HasRedeemed(r) /\ HasRedeemed(q))
      BY <1>1, <2>1 DEF TicketInv, OneRedeemer
    <2> QED
      BY <1>0, <1>1, <2>1, <2>2, <2>3, <2>4, IssueAndRedeem
  <1>2. ASSUME NEW r \in Requests, NEW q \in Requests, HasReset(r)', HasReset(q)',
               req'[r].token = req'[q].token, r # q
        PROVE  FALSE
    <2>1. req[r].token = req[q].token
      BY <1>0, <1>2, IssueAndRedeem DEF Keeps
    <2>2. ~(Resetting(r) /\ Resetting(q))
      BY <1>2 DEF Resetting, Goes, OthersStay, Edge
    <2>3. ASSUME NEW p \in Requests, HasReset(p), NEW w \in Requests, Resetting(w),
                 req[p].token = req[w].token
          PROVE  FALSE
      BY <2>3, ResettingSpends DEF TicketInv, RedeemedAreSpent, Spent, redeemable
    <2>4. ~(HasReset(r) /\ HasReset(q))
      BY <1>2, <2>1 DEF TicketInv, OneRedeemer
    <2> QED
      BY <1>0, <1>2, <2>1, <2>2, <2>3, <2>4, IssueAndRedeem
  <1> QED
    BY <1>1, <1>2 DEF OneRedeemer

LEMMA TicketNext == TicketInv /\ [Next]_vars => TicketInv'
  BY FlowNext, RowTargetsNext, AdmittedAtTargetNext, RedeemedAreSpentNext, OneRedeemerNext
     DEF TicketInv

LEMMA TicketInvHolds == Spec => []TicketInv
  BY TicketInit, TicketNext, PTL DEF Spec

(* Of all the calls that present one SSO ticket, at most one opens a       *)
(* session, for the application and the user it was minted for             *)
(* (SsoTicketRepository.consume, redeemSsoTicket).                         *)
THEOREM TicketsOpenOneSession == Spec => []TicketRedeemedOnce
  <1>1. TicketInv => TicketRedeemedOnce
    <2> SUFFICES ASSUME TicketInv, NEW r \in Requests, HasRedeemed(r)
                 PROVE  /\ req[r].target = req[req[r].token].target
                        /\ req[r].user = req[req[r].token].user
      BY DEF TicketInv, OneRedeemer, TicketRedeemedOnce
    <2>1. Admitted(r) /\ req[r].pc # "idle" /\ req[r].kind = "redeemSsoTicket"
      BY DEF HasRedeemed, Admitted
    <2> QED
      BY <2>1 DEF TicketInv, AdmittedAtTarget, FlowInv, AllPresented, Presented
  <1> QED
    BY <1>1, TicketInvHolds, PTL

-----------------------------------------------------------------------------
(* Implementation of SingleUse. *)

(* A step that issues nothing and redeems nothing only lets tokens lapse. *)
LEMMA TicketsLapse ==
    ASSUME TicketInv, [Next]_vars, \A r \in Requests : ~Minting(r) /\ ~Redeeming(r)
    PROVE  /\ Tickets' = Tickets
           /\ \A t \in Requests : redeemable(sso_tickets, t)' => redeemable(sso_tickets, t)
           /\ \A r \in Requests : /\ HasRedeemed(r)' <=> HasRedeemed(r)
                                  /\ HasRedeemed(r) => req'[r].token = req[r].token
  <1>0. FlowInv /\ RowInv /\ CallInv /\ TypeInv
    BY DEF TicketInv, FlowInv, RowInv, CallInv
  <1>1. Tickets' = Tickets
    <2>1. \A r \in Requests : r \in Tickets' <=> r \in Tickets
      BY <1>0, IssueAndRedeem
    <2> QED
      BY <2>1 DEF Tickets, Answers
  <1>2. ASSUME NEW t \in Requests, redeemable(sso_tickets, t)'
        PROVE  redeemable(sso_tickets, t)
    <2>1. UNCHANGED sso_tickets \/ PurgeTickets
      BY <1>0, TicketStep DEF Minting, Redeeming
    <2>2. t \in DOMAIN sso_tickets
      BY <1>2, <2>1 DEF redeemable, PurgeTickets, purgeTickets, Unexpired
    <2>3. /\ sso_tickets[t].expires_at \in Nat /\ now \in Nat /\ now' \in Nat /\ now' >= now
      BY <1>0, <2>2, ClockAdvances DEF TypeInv, TypeOK, StoreTypeOK, IsTable, TicketRow
    <2> QED
      BY <1>0, <1>2, <2>2, <2>3, TicketRowStep DEF redeemable
  <1>3. ASSUME NEW r \in Requests
        PROVE  /\ HasRedeemed(r)' <=> HasRedeemed(r)
               /\ HasRedeemed(r) => req'[r].token = req[r].token
    BY <1>0, IssueAndRedeem DEF Keeps
  <1> QED
    BY <1>1, <1>2, <1>3

LEMMA MintingOffers ==
    ASSUME TicketInv, [Next]_vars, SsoTtl > 0, NEW r \in Requests, Minting(r)
    PROVE  TicketPromise!Offer(r)
  <1>0. FlowInv /\ RowInv /\ CallInv /\ TypeInv
    BY DEF TicketInv, FlowInv, RowInv, CallInv
  <1>1. /\ \A q \in Requests : q # r => req'[q] = req[q]
        /\ insertTicket(r, req[r].user, req[r].target)
        /\ req[r].kind = "createSsoTicket" /\ req[r].pc = "insertTicket"
        /\ req'[r].pc # req[r].pc
    BY DEF Minting, Goes, OthersStay, Path, Edge, Openers, Cutters
  <1>2. UNCHANGED now /\ now \in Nat
    BY <1>0, <1>1, ClockAdvances DEF TypeInv, TypeOK, StoreTypeOK
  <1>3. r \notin Tickets /\ Tickets' = Tickets \cup {r}
    <2>1. r \notin Tickets
      BY <1>1 DEF Tickets, Answers
    <2>2. \A q \in Requests : q \in Tickets' <=> q \in Tickets \/ q = r
      BY <1>0, <1>1, IssueAndRedeem DEF Minting, Edge, Tickets, Answers
    <2> QED
      BY <2>1, <2>2 DEF Tickets, Answers
  <1>4. \A t \in Requests : redeemable(sso_tickets, t)' <=> redeemable(sso_tickets, t) \/ t = r
    <2>1. now + SsoTtl > now
      BY <1>2, ConfigurationIsNumeric
    <2>2. redeemable(sso_tickets, r)'
      BY <1>1, <1>2, <2>1 DEF insertTicket, Insert, redeemable
    <2>3. \A t \in Requests : t # r =>
            (redeemable(sso_tickets, t)' <=> redeemable(sso_tickets, t))
      BY <1>1, <1>2 DEF insertTicket, Insert, redeemable
    <2> QED
      BY <2>2, <2>3
  <1>5. \A q \in Requests : /\ HasRedeemed(q)' <=> HasRedeemed(q)
                            /\ HasRedeemed(q) => req'[q].token = req[q].token
    <2>1. \A q \in Requests : ~Redeeming(q)
      BY <1>1 DEF Redeeming, Minting, Goes, OthersStay, Edge
    <2> QED
      BY <1>0, <2>1, IssueAndRedeem DEF Keeps
  <1> QED
    BY <1>3, <1>4, <1>5 DEF TicketPromise!Offer

LEMMA RedeemingTakes ==
    ASSUME TicketInv, [Next]_vars, NEW r \in Requests, Redeeming(r), NEW t, t = req[r].token
    PROVE  TicketPromise!Take(t, r) /\ t \in Requests
  <1>0. FlowInv /\ RowInv /\ CallInv /\ TypeInv
    BY DEF TicketInv, FlowInv, RowInv, CallInv
  <1>1. /\ \A q \in Requests : q # r => req'[q] = req[q]
        /\ req'[r].token = t /\ consumeTicket(t)
        /\ req[r].kind = "redeemSsoTicket" /\ req[r].pc = "consumeTicket"
        /\ req'[r].pc # req[r].pc
    BY DEF Redeeming, Goes, Keeps, OthersStay, Path, Edge, Openers, Cutters
  <1>2. UNCHANGED now
    BY <1>0, <1>1, ClockAdvances
  <1>3. t \in Requests /\ redeemable(sso_tickets, t) /\ ~redeemable(sso_tickets, t)'
    <2>1. t \in Tickets /\ redeemable(sso_tickets, t) /\ sso_tickets'[t].used
      BY RedeemingSpends
    <2> QED
      BY <2>1 DEF Tickets, Answers, redeemable
  <1>4. \A k \in Requests : k # t =>
          (redeemable(sso_tickets, k)' <=> redeemable(sso_tickets, k))
    BY <1>1, <1>2 DEF consumeTicket, redeemable
  <1>5. Tickets' = Tickets
    <2>1. \A q \in Requests : q \in Tickets' <=> q \in Tickets
      BY <1>0, <1>1, IssueAndRedeem DEF Minting, Edge, Tickets, Answers
    <2> QED
      BY <2>1 DEF Tickets, Answers
  <1>6. /\ HasRedeemed(r)' /\ ~HasRedeemed(r)
        /\ \A q \in Requests : q # r => (HasRedeemed(q)' <=> HasRedeemed(q))
    BY <1>0, <1>1, IssueAndRedeem DEF HasRedeemed
  <1>7. \A k \in Requests, q \in Requests :
          HasRedeemed(q)' /\ req'[q].token = k
          <=> (HasRedeemed(q) /\ req[q].token = k) \/ (q = r /\ k = t)
    BY <1>1, <1>6
  <1> DEFINE pairs == Requests \X Requests
             taken == {p \in pairs : HasRedeemed(p[2]) /\ req[p[2]].token = p[1]}
  <1>8. taken' = taken \cup {<<t, r>>}
    <2>1. <<t, r>> \in pairs
      BY <1>3
    <2>2. ASSUME NEW p \in pairs
          PROVE  p \in taken' <=> p \in taken \/ p = <<t, r>>
      <3>1. PICK k \in Requests, q \in Requests : p = <<k, q>>
        OBVIOUS
      <3>2. p[1] = k /\ p[2] = q /\ (p = <<t, r>> <=> q = r /\ k = t)
        BY <3>1
      <3>3. p \in taken <=> HasRedeemed(q) /\ req[q].token = k
        BY <3>2
      <3>4. p \in taken' <=> HasRedeemed(q)' /\ req'[q].token = k
        BY <3>2
      <3> QED
        BY <1>7, <3>2, <3>3, <3>4
    <2> QED
      BY <2>1, <2>2
  <1> QED
    BY <1>3, <1>4, <1>5, <1>8 DEF TicketPromise!Take

LEMMA TicketsImplement ==
    ASSUME TicketInv, [Next]_vars, SsoTtl > 0
    PROVE  [TicketPromise!Next]_(TicketPromise!vars)
  <1>1. CASE \E r \in Requests : Minting(r)
    BY <1>1, MintingOffers DEF TicketPromise!Next
  <1>2. CASE \E r \in Requests : Redeeming(r)
    BY <1>2, RedeemingTakes DEF TicketPromise!Next
  <1>3. CASE \A r \in Requests : ~Minting(r) /\ ~Redeeming(r)
    <2>1. TicketPromise!Withdraw
      BY <1>3, TicketsLapse DEF TicketPromise!Withdraw
    <2> QED
      BY <2>1 DEF TicketPromise!Next
  <1> QED
    BY <1>1, <1>2, <1>3

(* SSO tickets that live at all implement the promise of SingleUse: each   *)
(* can be redeemed from its INSERT until it lapses or one call takes it    *)
(* (SsoTicketRepository, createSsoTicket, redeemSsoTicket).                *)
THEOREM TicketsKeepThePromise ==
    ASSUME SsoTtl > 0
    PROVE  Spec => TicketsAreSingleUse
  <1>1. Init => TicketPromise!Init
    <2> SUFFICES ASSUME Init PROVE TicketPromise!Init
      OBVIOUS
    <2>1. \A r \in Requests : req[r].pc = "idle"
      BY DEF Init
    <2>2. DOMAIN sso_tickets = {}
      BY DEF Init, StoreInit, EmptyTable
    <2> QED
      BY <2>1, <2>2 DEF TicketPromise!Init, Tickets, Answers, redeemable, HasRedeemed
  <1>2. TicketInv /\ [Next]_vars => [TicketPromise!Next]_(TicketPromise!vars)
    BY TicketsImplement
  <1> QED
    BY <1>1, <1>2, TicketInvHolds, PTL DEF Spec, TicketsAreSingleUse, TicketPromise!Spec

(* The same of reset tokens, which a newer mail supersedes as well. *)
LEMMA ResetsLapse ==
    ASSUME TicketInv, [Next]_vars, \A r \in Requests : ~Mailing(r) /\ ~Resetting(r)
    PROVE  /\ Mailed' = Mailed
           /\ \A t \in Requests : redeemable(password_reset_tokens, t)'
                                  => redeemable(password_reset_tokens, t)
           /\ \A r \in Requests : /\ HasReset(r)' <=> HasReset(r)
                                  /\ HasReset(r) => req'[r].token = req[r].token
  <1>0. FlowInv /\ RowInv /\ CallInv /\ TypeInv
    BY DEF TicketInv, FlowInv, RowInv, CallInv
  <1>1. Mailed' = Mailed
    <2>1. \A r \in Requests : r \in Mailed' <=> r \in Mailed
      BY <1>0, IssueAndRedeem
    <2> QED
      BY <2>1 DEF Mailed, Answers
  <1>2. ASSUME NEW t \in Requests, redeemable(password_reset_tokens, t)'
        PROVE  redeemable(password_reset_tokens, t)
    <2>1. \/ UNCHANGED password_reset_tokens \/ PurgeResets
          \/ \E r \in Requests : invalidateOutstanding(req[r].user)
      BY <1>0, <1>2, ResetStep DEF Mailing, Resetting
    <2>2. t \in DOMAIN password_reset_tokens
      BY <1>2, <2>1 DEF redeemable, PurgeResets, purgeResets, Unexpired,
                        invalidateOutstanding
    <2>3. /\ password_reset_tokens[t].expires_at \in Nat
          /\ now \in Nat /\ now' \in Nat /\ now' >= now
      BY <1>0, <2>2, ClockAdvances DEF TypeInv, TypeOK, StoreTypeOK, IsTable, ResetRow
    <2> QED
      BY <1>0, <1>2, <2>2, <2>3, ResetRowStep DEF redeemable
  <1>3. ASSUME NEW r \in Requests
        PROVE  /\ HasReset(r)' <=> HasReset(r)
               /\ HasReset(r) => req'[r].token = req[r].token
    BY <1>0, IssueAndRedeem DEF Keeps
  <1> QED
    BY <1>1, <1>2, <1>3

LEMMA MailingOffers ==
    ASSUME TicketInv, [Next]_vars, ResetTtl > 0, NEW r \in Requests, Mailing(r)
    PROVE  ResetPromise!Offer(r)
  <1>0. FlowInv /\ RowInv /\ CallInv /\ TypeInv
    BY DEF TicketInv, FlowInv, RowInv, CallInv
  <1>1. /\ \A q \in Requests : q # r => req'[q] = req[q]
        /\ insertReset(r, req[r].user)
        /\ req[r].kind = "forgotPassword" /\ req[r].pc = "insertReset"
        /\ req'[r].pc # req[r].pc
    BY DEF Mailing, Goes, OthersStay, Path, Edge, Openers, Cutters
  <1>2. UNCHANGED now /\ now \in Nat
    BY <1>0, <1>1, ClockAdvances DEF TypeInv, TypeOK, StoreTypeOK
  <1>3. r \notin Mailed /\ Mailed' = Mailed \cup {r}
    <2>1. r \notin Mailed
      BY <1>1 DEF Mailed, Answers
    <2>2. \A q \in Requests : q \in Mailed' <=> q \in Mailed \/ q = r
      BY <1>0, <1>1, IssueAndRedeem DEF Mailing, Edge, Mailed, Answers
    <2> QED
      BY <2>1, <2>2 DEF Mailed, Answers
  <1>4. \A t \in Requests : redeemable(password_reset_tokens, t)'
                            <=> redeemable(password_reset_tokens, t) \/ t = r
    <2>1. now + ResetTtl > now
      BY <1>2, ConfigurationIsNumeric
    <2>2. redeemable(password_reset_tokens, r)'
      BY <1>1, <1>2, <2>1 DEF insertReset, Insert, redeemable
    <2>3. \A t \in Requests : t # r => (redeemable(password_reset_tokens, t)'
                                        <=> redeemable(password_reset_tokens, t))
      BY <1>1, <1>2 DEF insertReset, Insert, redeemable
    <2> QED
      BY <2>2, <2>3
  <1>5. \A q \in Requests : /\ HasReset(q)' <=> HasReset(q)
                            /\ HasReset(q) => req'[q].token = req[q].token
    <2>1. \A q \in Requests : ~Resetting(q)
      BY <1>1 DEF Resetting, Mailing, Goes, OthersStay, Edge
    <2> QED
      BY <1>0, <2>1, IssueAndRedeem DEF Keeps
  <1> QED
    BY <1>3, <1>4, <1>5 DEF ResetPromise!Offer

LEMMA ResettingTakes ==
    ASSUME TicketInv, [Next]_vars, NEW r \in Requests, Resetting(r), NEW t, t = req[r].token
    PROVE  ResetPromise!Take(t, r) /\ t \in Requests
  <1>0. FlowInv /\ RowInv /\ CallInv /\ TypeInv
    BY DEF TicketInv, FlowInv, RowInv, CallInv
  <1>1. /\ \A q \in Requests : q # r => req'[q] = req[q]
        /\ req'[r].token = t /\ consumeReset(t)
        /\ req[r].kind = "resetPassword" /\ req[r].pc = "consumeReset"
        /\ req'[r].pc # req[r].pc
    BY DEF Resetting, Goes, Keeps, OthersStay, Path, Edge, Openers, Cutters
  <1>2. UNCHANGED now
    BY <1>0, <1>1, ClockAdvances
  <1>3. /\ t \in Requests /\ redeemable(password_reset_tokens, t)
        /\ ~redeemable(password_reset_tokens, t)'
    <2>1. /\ t \in Mailed /\ redeemable(password_reset_tokens, t)
          /\ password_reset_tokens'[t].used
      BY ResettingSpends
    <2> QED
      BY <2>1 DEF Mailed, Answers, redeemable
  <1>4. \A k \in Requests : k # t => (redeemable(password_reset_tokens, k)'
                                      <=> redeemable(password_reset_tokens, k))
    BY <1>1, <1>2 DEF consumeReset, redeemable
  <1>5. Mailed' = Mailed
    <2>1. \A q \in Requests : q \in Mailed' <=> q \in Mailed
      BY <1>0, <1>1, IssueAndRedeem DEF Mailing, Edge, Mailed, Answers
    <2> QED
      BY <2>1 DEF Mailed, Answers
  <1>6. /\ HasReset(r)' /\ ~HasReset(r)
        /\ \A q \in Requests : q # r => (HasReset(q)' <=> HasReset(q))
    BY <1>0, <1>1, IssueAndRedeem DEF HasReset
  <1>7. \A k \in Requests, q \in Requests :
          HasReset(q)' /\ req'[q].token = k
          <=> (HasReset(q) /\ req[q].token = k) \/ (q = r /\ k = t)
    BY <1>1, <1>6
  <1> DEFINE pairs == Requests \X Requests
             taken == {p \in pairs : HasReset(p[2]) /\ req[p[2]].token = p[1]}
  <1>8. taken' = taken \cup {<<t, r>>}
    <2>1. <<t, r>> \in pairs
      BY <1>3
    <2>2. ASSUME NEW p \in pairs
          PROVE  p \in taken' <=> p \in taken \/ p = <<t, r>>
      <3>1. PICK k \in Requests, q \in Requests : p = <<k, q>>
        OBVIOUS
      <3>2. p[1] = k /\ p[2] = q /\ (p = <<t, r>> <=> q = r /\ k = t)
        BY <3>1
      <3>3. p \in taken <=> HasReset(q) /\ req[q].token = k
        BY <3>2
      <3>4. p \in taken' <=> HasReset(q)' /\ req'[q].token = k
        BY <3>2
      <3> QED
        BY <1>7, <3>2, <3>3, <3>4
    <2> QED
      BY <2>1, <2>2
  <1> QED
    BY <1>3, <1>4, <1>5, <1>8 DEF ResetPromise!Take

LEMMA ResetsImplement ==
    ASSUME TicketInv, [Next]_vars, ResetTtl > 0
    PROVE  [ResetPromise!Next]_(ResetPromise!vars)
  <1>1. CASE \E r \in Requests : Mailing(r)
    BY <1>1, MailingOffers DEF ResetPromise!Next
  <1>2. CASE \E r \in Requests : Resetting(r)
    BY <1>2, ResettingTakes DEF ResetPromise!Next
  <1>3. CASE \A r \in Requests : ~Mailing(r) /\ ~Resetting(r)
    <2>1. ResetPromise!Withdraw
      BY <1>3, ResetsLapse DEF ResetPromise!Withdraw
    <2> QED
      BY <2>1 DEF ResetPromise!Next
  <1> QED
    BY <1>1, <1>2, <1>3

(* Reset tokens that live at all implement the promise of SingleUse: each  *)
(* sets one password, from its INSERT until it lapses, a newer mail        *)
(* supersedes it or one call takes it (AuthTokenRepository, forgotPassword, *)
(* resetPassword).                                                         *)
THEOREM ResetsKeepThePromise ==
    ASSUME ResetTtl > 0
    PROVE  Spec => ResetTokensAreSingleUse
  <1>1. Init => ResetPromise!Init
    <2> SUFFICES ASSUME Init PROVE ResetPromise!Init
      OBVIOUS
    <2>1. \A r \in Requests : req[r].pc = "idle"
      BY DEF Init
    <2>2. DOMAIN password_reset_tokens = {}
      BY DEF Init, StoreInit, EmptyTable
    <2> QED
      BY <2>1, <2>2 DEF ResetPromise!Init, Mailed, Answers, redeemable, HasReset
  <1>2. TicketInv /\ [Next]_vars => [ResetPromise!Next]_(ResetPromise!vars)
    BY ResetsImplement
  <1> QED
    BY <1>1, <1>2, TicketInvHolds, PTL DEF Spec, ResetTokensAreSingleUse, ResetPromise!Spec

-----------------------------------------------------------------------------
(* What the promise comes to. *)

(* Of what is offered nothing that was taken is open again, so that there  *)
(* is nobody but the first to take it.                                     *)
LEMMA TicketPromiseOnce == TicketPromise!Spec => []TicketPromise!TakenOnce
  <1> DEFINE offered == Tickets
             open == {t \in Requests : redeemable(sso_tickets, t)}
             taken == {p \in Requests \X Requests : HasRedeemed(p[2]) /\ req[p[2]].token = p[1]}
             Promised == open \subseteq offered /\ TicketPromise!TakenOnce
  <1>1. TicketPromise!Init => Promised
    BY DEF TicketPromise!Init, TicketPromise!TakenOnce
  <1>2. Promised /\ [TicketPromise!Next]_(TicketPromise!vars) => Promised'
    <2> SUFFICES ASSUME Promised, [TicketPromise!Next]_(TicketPromise!vars)
                 PROVE  Promised'
      OBVIOUS
    <2> HIDE DEF offered, open, taken
    <2>1. CASE \E t \in Requests : TicketPromise!Offer(t)
      BY <2>1 DEF TicketPromise!Offer, TicketPromise!TakenOnce, offered, open, taken
    <2>2. CASE \E t, c \in Requests : TicketPromise!Take(t, c)
      BY <2>2 DEF TicketPromise!Take, TicketPromise!TakenOnce, offered, open, taken
    <2>3. CASE TicketPromise!Withdraw \/ UNCHANGED TicketPromise!vars
      BY <2>3 DEF TicketPromise!Withdraw, TicketPromise!vars, TicketPromise!TakenOnce, offered, open, taken
    <2> QED
      BY <2>1, <2>2, <2>3 DEF TicketPromise!Next
  <1> QED
    BY <1>1, <1>2, PTL DEF TicketPromise!Spec

LEMMA ResetPromiseOnce == ResetPromise!Spec => []ResetPromise!TakenOnce
  <1> DEFINE offered == Mailed
             open == {t \in Requests : redeemable(password_reset_tokens, t)}
             taken == {p \in Requests \X Requests : HasReset(p[2]) /\ req[p[2]].token = p[1]}
             Promised == open \subseteq offered /\ ResetPromise!TakenOnce
  <1>1. ResetPromise!Init => Promised
    BY DEF ResetPromise!Init, ResetPromise!TakenOnce
  <1>2. Promised /\ [ResetPromise!Next]_(ResetPromise!vars) => Promised'
    <2> SUFFICES ASSUME Promised, [ResetPromise!Next]_(ResetPromise!vars)
                 PROVE  Promised'
      OBVIOUS
    <2> HIDE DEF offered, open, taken
    <2>1. CASE \E t \in Requests : ResetPromise!Offer(t)
      BY <2>1 DEF ResetPromise!Offer, ResetPromise!TakenOnce, offered, open, taken
    <2>2. CASE \E t, c \in Requests : ResetPromise!Take(t, c)
      BY <2>2 DEF ResetPromise!Take, ResetPromise!TakenOnce, offered, open, taken
    <2>3. CASE ResetPromise!Withdraw \/ UNCHANGED ResetPromise!vars
      BY <2>3 DEF ResetPromise!Withdraw, ResetPromise!vars, ResetPromise!TakenOnce, offered, open, taken
    <2> QED
      BY <2>1, <2>2, <2>3 DEF ResetPromise!Next
  <1> QED
    BY <1>1, <1>2, PTL DEF ResetPromise!Spec

(* So of all the calls that present one ticket, at most one takes it, and  *)
(* nobody takes what was not minted or can still be redeemed               *)
(* (SsoTicketRepository.consume).                                          *)
THEOREM TicketsAreTakenOnce ==
    ASSUME SsoTtl > 0
    PROVE  Spec => []TicketPromise!TakenOnce
  BY TicketsKeepThePromise, TicketPromiseOnce, PTL DEF TicketsAreSingleUse

(* And of all the calls that present one reset token, at most one sets a   *)
(* password with it, however many were mailed and lapsed or were           *)
(* superseded meanwhile (AuthTokenRepository.consume).                     *)
THEOREM ResetsAreTakenOnce ==
    ASSUME ResetTtl > 0
    PROVE  Spec => []ResetPromise!TakenOnce
  BY ResetsKeepThePromise, ResetPromiseOnce, PTL DEF ResetTokensAreSingleUse

-----------------------------------------------------------------------------
(* A newer mail. *)

(* Call g has superseded the mail of f, which was out when g began. *)
Supersedes(g, f) ==
    /\ req[g].kind = "forgotPassword" /\ req[g].pc \in {"insertReset", "ok"}
    /\ f \in req[g].before /\ f \in Mailed /\ req[f].user = req[g].user

SupersededAreDead ==
    \A f, g \in Requests : Supersedes(g, f) => ~redeemable(password_reset_tokens, f)

RefusedAfterNewer ==
    \A r, f, g \in Requests :
        /\ req[r].kind = "resetPassword" /\ req[r].pc # "idle" /\ req[r].token = f
        /\ g \in req[r].before /\ Supersedes(g, f)
        => req[r].pc = "refused"

MailInv == FlowInv /\ SupersededAreDead /\ RefusedAfterNewer

LEMMA DeadForGood ==
    ASSUME FlowInv, [Next]_vars, NEW t \in Mailed, ~redeemable(password_reset_tokens, t)
    PROVE  ~redeemable(password_reset_tokens, t)'
  <1> SUFFICES ASSUME redeemable(password_reset_tokens, t)' PROVE FALSE
    OBVIOUS
  <1>0. FlowInv /\ RowInv /\ CallInv /\ TypeInv
    BY DEF FlowInv, RowInv, CallInv
  <1>1. t \in DOMAIN password_reset_tokens /\ t \in DOMAIN password_reset_tokens'
    BY ResetsNotReissued DEF redeemable
  <1>2. /\ password_reset_tokens[t].expires_at \in Nat
        /\ now \in Nat /\ now' \in Nat /\ now' >= now
    BY <1>0, <1>1, ClockAdvances DEF TypeInv, TypeOK, StoreTypeOK, IsTable, ResetRow
  <1> QED
    BY <1>0, <1>1, <1>2, ResetRowStep DEF redeemable

LEMMA SupersededAreDeadNext ==
    ASSUME FlowInv, SupersededAreDead, [Next]_vars
    PROVE  SupersededAreDead'
  <1> SUFFICES ASSUME NEW f \in Requests, NEW g \in Requests, Supersedes(g, f)'
               PROVE  ~redeemable(password_reset_tokens, f)'
    BY DEF SupersededAreDead
  <1>0. CallInv /\ RowInv /\ TypeInv
    BY DEF FlowInv, RowInv, CallInv
  <1>1. req'[g] = req[g] \/ Begins(g) \/ Goes(g) \/ Fails(g)
    BY <1>0, CallStep
  <1>2. ~Begins(g)
    BY DEF Begins, Arrival, Supersedes
  <1>3. Keeps(g)
    BY <1>1, <1>2 DEF Goes, Fails, Keeps
  <1>4. Over(f) /\ req'[f] = req[f]
    <2>1. Over(f)
      BY <1>0, <1>3 DEF Supersedes, Keeps, CallInv, BeforeOver
    <2> QED
      BY <1>0, <2>1, CallsAreSteady DEF Steady
  <1>5. f \in Mailed /\ req[f].user = req[g].user /\ f \in req[g].before
    BY <1>3, <1>4 DEF Supersedes, Keeps, Mailed, Answers
  <1>6. CASE Supersedes(g, f)
    BY <1>5, <1>6, DeadForGood DEF SupersededAreDead
  <1>7. CASE ~Supersedes(g, f)
    <2>1. invalidateOutstanding(req[g].user)
      BY <1>1, <1>2, <1>3, <1>5, <1>7
         DEF Supersedes, Keeps, Goes, Fails, Path, Edge, Openers, Cutters
    <2>2. ASSUME f \in DOMAIN password_reset_tokens
          PROVE  password_reset_tokens'[f].used
      <3>1. /\ password_reset_tokens[f] \in ResetRow
            /\ password_reset_tokens[f].user_id = req[g].user
        BY <1>0, <1>5, <2>2
           DEF RowInv, OneTimeRows, TypeInv, TypeOK, StoreTypeOK, IsTable
      <3> QED
        BY <2>1, <2>2, <3>1 DEF invalidateOutstanding, ResetRow
    <2>3. DOMAIN password_reset_tokens' = DOMAIN password_reset_tokens
      BY <2>1 DEF invalidateOutstanding
    <2> QED
      BY <2>2, <2>3 DEF redeemable
  <1> QED
    BY <1>6, <1>7

LEMMA RefusedAfterNewerNext ==
    ASSUME MailInv, [Next]_vars
    PROVE  RefusedAfterNewer'
  <1>0. CallInv
    BY DEF MailInv, FlowInv, RowInv
  <1>1. ASSUME NEW r \in Requests, NEW f \in Requests, NEW g \in Requests,
               req'[r].kind = "resetPassword", req'[r].pc # "idle", req'[r].token = f,
               g \in req'[r].before, Supersedes(g, f)'
        PROVE  req'[r].pc = "refused"
    <2>1. /\ req'[g] = req[g] /\ Over(g)
          /\ ~Begins(r) => g \in req[r].before /\ Keeps(r)
      BY <1>0, <1>1, BeforeStep
    <2>2. req'[f] = req[f]
      <3>1. Over(f)
        BY <1>0, <1>1, <2>1 DEF Supersedes, CallInv, BeforeOver
      <3> QED
        BY <1>0, <3>1, CallsAreSteady DEF Steady
    <2>3. Supersedes(g, f)
      BY <1>1, <2>1, <2>2 DEF Supersedes, Mailed, Answers
    <2>4. CASE Begins(r)
      BY <1>1, <2>3, <2>4 DEF Begins, Arrival, MailInv, SupersededAreDead, Cutters
    <2>5. CASE ~Begins(r)
      <3>1. req[r].pc # "idle"
        BY <1>0, <1>1, <2>5, CallStep DEF CallInv, Goes, Fails, Steps
      <3>2. req[r].pc = "refused"
        BY <1>1, <2>1, <2>3, <2>5, <3>1 DEF MailInv, RefusedAfterNewer, Keeps
      <3> QED
        BY <1>0, <3>2, CallsAreSteady DEF Steady, Over, Outcomes
    <2> QED
      BY <2>4, <2>5
  <1> QED
    BY <1>1 DEF RefusedAfterNewer

(* The mail of an earlier request resets nothing once a later request of   *)
(* the same user, begun after it, has been answered                        *)
(* (AuthTokenRepository.issueWithToken).                                   *)
THEOREM NewerMailsSupersede == Spec => []NewerMailSupersedes
  <1>1. Init => MailInv
    <2> SUFFICES ASSUME Init PROVE MailInv
      OBVIOUS
    <2>1. \A r \in Requests : req[r].pc = "idle"
      BY DEF Init
    <2> QED
      BY <2>1, FlowInit DEF MailInv, SupersededAreDead, RefusedAfterNewer, Supersedes
  <1>2. MailInv /\ [Next]_vars => MailInv'
    BY FlowNext, SupersededAreDeadNext, RefusedAfterNewerNext DEF MailInv
  <1>3. MailInv => NewerMailSupersedes
    <2> SUFFICES ASSUME MailInv, NEW r \in Requests, NEW f \in Requests, NEW g \in Requests,
                        req[f].kind = "forgotPassword", req[g].kind = "forgotPassword",
                        req[f].user = req[g].user, Follows(g, f), Follows(r, g),
                        req[r].kind = "resetPassword", req[r].token = f
                 PROVE  ~HasReset(r)
      BY DEF NewerMailSupersedes
    <2>1. Supersedes(g, f)
      BY DEF Follows, Supersedes, Mailed, Answers
    <2> QED
      BY <2>1 DEF MailInv, RefusedAfterNewer, Follows, HasReset
  <1> QED
    BY <1>1, <1>2, <1>3, PTL DEF Spec
=============================================================================
