---------------------------- MODULE KeyRotation ----------------------------
(***************************************************************************)
(* The signing keys: the key directory, the rotate-keys command that       *)
(* writes it one file at a time and may die between two of them, the       *)
(* service that reads it once when it boots, and the public keys deployed  *)
(* to the applications.                                                    *)
(*                                                                         *)
(* A key pair is a number.  A pem file is written in one step: a half of   *)
(* one is read only if active.key names it, which it does later.  But      *)
(* active.key is truncated in one step and filled in the next.             *)
(*                                                                         *)
(* Definitions whose name ends in "Slip" are no part of the model: each is *)
(* the definition below it with one plausible mistake.                     *)
(***************************************************************************)
EXTENDS Naturals, FiniteSets

CONSTANTS
    Kids,            \* names an operator gives to keys
    LegacyKid,       \* LEGACY_KID: the kid of tokens that name none
    NoFile,          \* active.key does not exist
    Truncated,       \* active.key exists and is empty
    FirstKid,        \* the key of a directory that has been rotated before
    LegacyLayout,    \* whether the directory starts as private.pem, public.pem
    MaxKeys          \* bound on the pairs generated

ASSUME KeyRotationAssumption ==
    /\ {LegacyKid, NoFile, Truncated} \cap Kids = {}
    /\ LegacyKid \notin {NoFile, Truncated} /\ NoFile # Truncated
    /\ FirstKid \in Kids
    /\ LegacyLayout \in BOOLEAN
    /\ MaxKeys \in Nat

VARIABLES
    private, public,   \* the pem files: kid -> pair
    active,            \* content of active.key
    cli,               \* the rotate-keys process
    made,              \* pairs generated so far
    up, keys,          \* the service, and the KeySet it loaded
    printed,           \* CENTRAL_AUTH_PUBLIC_KEYS as last printed
    apps,              \* public keys deployed to the applications
    tokens,            \* access tokens that have not expired
    overwritten,       \* history: keys whose public half was written over,
    hasty,             \*   keys signed with before the applications got them,
    distrusted         \*   keys dropped while tokens may be live

disk == <<private, public, active>>
history == <<overwritten, hasty, distrusted>>
vars == <<disk, cli, made, up, keys, printed, apps, tokens, history>>

Pairs == Nat
NamedKeys == [kid : Kids, pair : Pairs]
FirstPair == 0       \* the pair of the initial directory

KeyFiles(f) == DOMAIN f \subseteq Kids \cup {LegacyKid} /\ f \in [DOMAIN f -> Pairs]

Only(kid, pair) == [k \in {kid} |-> pair]
With(f, kid, pair) == [k \in DOMAIN f \cup {kid} |-> IF k = kid THEN pair ELSE f[k]]
Without(f, kid) == [k \in DOMAIN f \ {kid} |-> f[k]]

Named(kid, pair) == [kid |-> kid, pair |-> pair]
Publishes(f, key) == key.kid \in DOMAIN f /\ f[key.kid] = key.pair

Steps == {"writePrivate", "writePublic", "truncateActive", "writeActive", "retire", "print"}

TypeOK ==
    /\ KeyFiles(private) /\ KeyFiles(public) /\ KeyFiles(apps)
    /\ active \in Kids \cup {NoFile, Truncated}
    /\ cli \in [pc : {"none"} \cup Steps, kid : Kids,
                previous : Kids \cup {NoFile, Truncated}, pair : Pairs]
    /\ KeyFiles(printed)
    /\ made \in Nat
    /\ up \in BOOLEAN
    /\ keys.activeKid \in Kids \cup {LegacyKid} /\ keys.privateKey \in Pairs
    /\ KeyFiles(keys.publicKeys)
    /\ tokens \subseteq [kid : Kids \cup {LegacyKid}, pair : Pairs]
    /\ overwritten \subseteq NamedKeys /\ hasty \subseteq NamedKeys
    /\ distrusted \subseteq NamedKeys

(* The KeySet of the initial directory. *)
StartKid == IF LegacyLayout THEN LegacyKid ELSE FirstKid

Init ==
    /\ active = IF LegacyLayout THEN NoFile ELSE FirstKid
    /\ private = IF LegacyLayout THEN [k \in {} |-> FirstPair] ELSE Only(FirstKid, FirstPair)
    /\ public = private
    /\ cli = [pc |-> "none", kid |-> FirstKid, previous |-> NoFile, pair |-> FirstPair]
    /\ made = 0
    /\ up = TRUE
    /\ keys = [activeKid |-> StartKid, privateKey |-> FirstPair,
               publicKeys |-> Only(StartKid, FirstPair)]
    /\ printed = Only(StartKid, FirstPair)
    /\ apps = printed
    /\ tokens = {}
    /\ overwritten = {} /\ hasty = {} /\ distrusted = {}

-----------------------------------------------------------------------------
(* rotate-keys *)

(* The name must be free of a private key, which retirement deletes: the   *)
(* name of a retired key is taken again.                                   *)
RotateBegin(kid) ==
    /\ cli.pc = "none" /\ made < MaxKeys
    /\ kid \notin DOMAIN private
    /\ made' = made + 1
    /\ cli' = [pc |-> "writePrivate", kid |-> kid, previous |-> active, pair |-> made + 1]
    /\ UNCHANGED <<disk, up, keys, printed, apps, tokens, history>>

WritePrivate ==
    /\ cli.pc = "writePrivate"
    /\ private' = With(private, cli.kid, cli.pair)
    /\ cli' = [cli EXCEPT !.pc = "writePublic"]
    /\ UNCHANGED <<public, active, made, up, keys, printed, apps, tokens, history>>

(* The public half is left for later. *)
WritePublicSlip ==
    /\ cli.pc = "writePublic"
    /\ cli' = [cli EXCEPT !.pc = "truncateActive"]
    /\ UNCHANGED <<disk, made, up, keys, printed, apps, tokens, history>>

WritePublic ==
    /\ cli.pc = "writePublic"
    /\ public' = With(public, cli.kid, cli.pair)
    /\ overwritten' = overwritten \cup
         {Named(k, public[k]) : k \in DOMAIN public \cap {cli.kid}}
    /\ cli' = [cli EXCEPT !.pc = "truncateActive"]
    /\ UNCHANGED <<private, active, made, up, keys, printed, apps, tokens, hasty, distrusted>>

TruncateActive ==
    /\ cli.pc = "truncateActive"
    /\ active' = Truncated
    /\ cli' = [cli EXCEPT !.pc = "writeActive"]
    /\ UNCHANGED <<private, public, made, up, keys, printed, apps, tokens, history>>

(* The placeholder of the old layout is written for a name. *)
WriteActiveSlip ==
    /\ cli.pc = "writeActive"
    /\ active' = IF cli.previous = NoFile THEN LegacyKid ELSE cli.kid
    /\ cli' = [cli EXCEPT !.pc = "retire"]
    /\ UNCHANGED <<private, public, made, up, keys, printed, apps, tokens, history>>

WriteActive ==
    /\ cli.pc = "writeActive"
    /\ active' = cli.kid
    /\ cli' = [cli EXCEPT !.pc = "retire"]
    /\ UNCHANGED <<private, public, made, up, keys, printed, apps, tokens, history>>

(* Both halves of the previous key go. *)
RetireSlip ==
    /\ cli.pc = "retire"
    /\ private' = IF cli.previous # cli.kid THEN Without(private, cli.previous) ELSE private
    /\ public' = IF cli.previous # cli.kid THEN Without(public, cli.previous) ELSE public
    /\ cli' = [cli EXCEPT !.pc = "print"]
    /\ UNCHANGED <<active, made, up, keys, printed, apps, tokens, history>>

Retire ==
    /\ cli.pc = "retire"
    /\ private' = IF cli.previous # cli.kid THEN Without(private, cli.previous) ELSE private
    /\ cli' = [cli EXCEPT !.pc = "print"]
    /\ UNCHANGED <<public, active, made, up, keys, printed, apps, tokens, history>>

PrintKeys ==
    /\ cli.pc = "print"
    /\ printed' = public
    /\ cli' = [cli EXCEPT !.pc = "none"]
    /\ UNCHANGED <<disk, made, up, keys, apps, tokens, history>>

CommandDies ==
    /\ cli.pc # "none"
    /\ cli' = [cli EXCEPT !.pc = "none"]
    /\ UNCHANGED <<disk, made, up, keys, printed, apps, tokens, history>>

-----------------------------------------------------------------------------
(* loadKeySet: the pattern public-<kid>.pem does not match public.pem, so  *)
(* a directory with an active.key loads named keys only.                   *)

Bootable ==
    IF active = NoFile THEN LegacyLayout
    ELSE active \in DOMAIN private /\ active \in DOMAIN public

(* A public half that is missing is computed from the private one. *)
loadKeyedSlip ==
    [activeKid |-> active, privateKey |-> private[active],
     publicKeys |-> [k \in DOMAIN public \cup DOMAIN private |->
                       IF k \in DOMAIN public THEN public[k] ELSE private[k]]]

loadKeyed ==
    [activeKid |-> active, privateKey |-> private[active], publicKeys |-> public]

loadLegacy ==
    [activeKid |-> LegacyKid, privateKey |-> FirstPair,
     publicKeys |-> Only(LegacyKid, FirstPair)]

Boot ==
    /\ ~up /\ Bootable
    /\ up' = TRUE
    /\ keys' = IF active = NoFile THEN loadLegacy ELSE loadKeyed
    /\ hasty' = hasty \cup
         {key \in {Named(k, private[k]) : k \in DOMAIN private \cap {active}} :
            ~Publishes(apps, key)}
    /\ UNCHANGED <<disk, cli, made, printed, apps, tokens, overwritten, distrusted>>

Stop ==
    /\ up
    /\ up' = FALSE
    /\ UNCHANGED <<disk, cli, made, keys, printed, apps, tokens, history>>

-----------------------------------------------------------------------------
(* TokenService *)

generateAccessToken ==
    /\ up
    /\ tokens' = tokens \cup {[kid |-> keys.activeKid, pair |-> keys.privateKey]}
    /\ UNCHANGED <<disk, cli, made, up, keys, printed, apps, history>>

Expire == \E t \in tokens :
    /\ tokens' = tokens \ {t}
    /\ UNCHANGED <<disk, cli, made, up, keys, printed, apps, history>>

(* A token that names no key is tried against the only key, if there is    *)
(* one only, and else against the legacy key.                              *)
publicKeyFor(trusted, kid) ==
    IF kid = LegacyKid /\ Cardinality(DOMAIN trusted) = 1
    THEN {trusted[k] : k \in DOMAIN trusted}
    ELSE {trusted[k] : k \in DOMAIN trusted \cap {kid}}

verifyAccessToken(t) == t.pair \in publicKeyFor(keys.publicKeys, t.kid)

-----------------------------------------------------------------------------
(* The operator: pastes the printed keys into the applications, before or  *)
(* after restarting the service, and stops trusting a key: once its tokens *)
(* have expired, or at once when it is compromised.                        *)

Deploy ==
    /\ apps' = printed
    /\ hasty' = {key \in hasty : ~Publishes(printed, key)}
    /\ UNCHANGED <<disk, cli, made, up, keys, printed, tokens, overwritten, distrusted>>

(* The key is dropped while tokens it signed are live. *)
DropKeySlip(kid) ==
    /\ cli.pc = "none"
    /\ kid \in DOMAIN public \ {active}
    /\ up /\ keys.activeKid # kid
    /\ public' = Without(public, kid)
    /\ apps' = Without(apps, kid)
    /\ printed' = Without(printed, kid)
    /\ UNCHANGED <<private, active, cli, made, up, keys, tokens, history>>

DropKey(kid) ==
    /\ cli.pc = "none"
    /\ kid \in DOMAIN public \ {active}
    /\ up /\ keys.activeKid # kid
    /\ \A t \in tokens : t.kid # kid
    /\ public' = Without(public, kid)
    /\ apps' = Without(apps, kid)
    /\ printed' = Without(printed, kid)
    /\ UNCHANGED <<private, active, cli, made, up, keys, tokens, history>>

Distrust(kid) ==
    /\ cli.pc = "none"
    /\ kid \in DOMAIN public \ {active}
    /\ public' = Without(public, kid)
    /\ apps' = Without(apps, kid)
    /\ printed' = Without(printed, kid)
    /\ distrusted' = distrusted \cup {Named(kid, public[kid])}
    /\ UNCHANGED <<private, active, cli, made, up, keys, tokens, overwritten, hasty>>

Next ==
    \/ \E kid \in Kids : RotateBegin(kid) \/ DropKey(kid) \/ Distrust(kid)
    \/ WritePrivate \/ WritePublic \/ TruncateActive \/ WriteActive
    \/ Retire \/ PrintKeys
    \/ CommandDies
    \/ Boot \/ Stop
    \/ generateAccessToken \/ Expire
    \/ Deploy

Spec == Init /\ [][Next]_vars

-----------------------------------------------------------------------------
(* Whenever the command dies, the service boots, unless active.key was     *)
(* just being rewritten; and it signs with a key it trusts itself          *)
(* (rotate-keys writes the files before it names them in active.key).      *)
BootsAfterACrash ==
    /\ active # Truncated => Bootable
    /\ active \in Kids => private[active] = public[active]
    /\ keys.activeKid \in DOMAIN keys.publicKeys
    /\ keys.publicKeys[keys.activeKid] = keys.privateKey

(* A rotation is no forced logout: however it is interrupted, and however  *)
(* often the service restarts, a live token that names its key verifies.   *)
(* It is refused only if that key was distrusted, or if its public half    *)
(* was written over by a later rotation to the same name (public halves    *)
(* are retained, rotate-keys.ts).                                          *)
LiveTokensVerify ==
    up => \A t \in tokens :
            t.kid # LegacyKid => verifyAccessToken(t) \/ t \in overwritten \cup distrusted

(* The applications can check every live token that names its key, except  *)
(* those of a key that was distrusted or written over, and, until they get *)
(* the new keys, those of a service restarted before they got them.        *)
AppsVerifyLiveTokens ==
    \A t \in tokens :
        t.kid # LegacyKid => Publishes(apps, t) \/ t \in overwritten \cup distrusted \cup hasty

(* A distrusted key stays distrusted: no later rotation, deployment or     *)
(* restart brings it back to the applications, and from its next restart   *)
(* on the service refuses what it signed, whatever an interrupted rotation *)
(* left in the directory (loadKeySet).                                     *)
DistrustedKeysAreRefused ==
    [][\A t \in distrusted :
         /\ ~Publishes(apps, t)'
         /\ ~up /\ up' => ~verifyAccessToken(t)']_vars

-----------------------------------------------------------------------------
(* What the repository says and the code does not do. *)

(* config/jwt.ts:89 "tokens minted without a kid header still verify       *)
(* afterwards": after the first rotation too.                              *)
LegacyTokensSurvive ==
    up => \A t \in tokens : t.kid = LegacyKid => verifyAccessToken(t)
=============================================================================
