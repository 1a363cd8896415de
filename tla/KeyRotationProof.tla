-------------------------- MODULE KeyRotationProof --------------------------
(***************************************************************************)
(* That the service boots after an interrupted rotation, which live tokens *)
(* a rotation costs at the service and at the applications, and that a     *)
(* distrusted key does not come back, for any names, any number of keys    *)
(* and any order of the operator's steps.                                  *)
(***************************************************************************)
EXTENDS KeyRotation, TLAPS

(* active.key names a pair that is complete on disk, or is not there yet.  *)
DiskComplete ==
    /\ active \in Kids => /\ active \in DOMAIN private /\ active \in DOMAIN public
                          /\ private[active] = public[active]
    /\ active = NoFile => LegacyLayout

(* What rotate-keys has written by the time it reaches each of its steps.  *)
Written ==
    /\ cli.pc \in {"writePrivate", "writePublic"} => cli.kid # active
    /\ cli.pc = "writePublic" =>
         cli.kid \in DOMAIN private /\ private[cli.kid] = cli.pair
    /\ cli.pc \in {"truncateActive", "writeActive", "retire"} =>
         /\ cli.kid \in DOMAIN private /\ private[cli.kid] = cli.pair
         /\ cli.kid \in DOMAIN public /\ public[cli.kid] = cli.pair
    /\ cli.pc = "retire" => active = cli.kid

(* The service trusts the key it signs with. *)
SelfTrust ==
    /\ keys.activeKid \in DOMAIN keys.publicKeys
    /\ keys.publicKeys[keys.activeKid] = keys.privateKey

BootInv == TypeOK /\ DiskComplete /\ Written /\ SelfTrust

-----------------------------------------------------------------------------
(* The operators on pem files. *)

LEMMA OnlyIsKeyFiles ==
    ASSUME NEW kid \in Kids \cup {LegacyKid}, NEW pair \in Pairs
    PROVE  /\ KeyFiles(Only(kid, pair))
           /\ DOMAIN Only(kid, pair) = {kid}
           /\ Only(kid, pair)[kid] = pair
  BY DEF KeyFiles, Only

LEMMA WithIsKeyFiles ==
    ASSUME NEW f, KeyFiles(f), NEW kid \in Kids, NEW pair \in Pairs
    PROVE  KeyFiles(With(f, kid, pair))
  BY DEF KeyFiles, With

LEMMA WithoutIsKeyFiles ==
    ASSUME NEW f, KeyFiles(f), NEW kid
    PROVE  KeyFiles(Without(f, kid))
  BY DEF KeyFiles, Without

LEMMA PairsAreNumbers == Pairs = Nat /\ FirstPair \in Pairs
  BY DEF Pairs, FirstPair

-----------------------------------------------------------------------------
LEMMA TypeInit == Init => TypeOK
  <1> SUFFICES ASSUME Init PROVE TypeOK
    OBVIOUS
  <1>1. KeyFiles([k \in {} |-> FirstPair])
    BY DEF KeyFiles
  <1>2. FirstKid \in Kids /\ StartKid \in Kids \cup {LegacyKid}
    BY KeyRotationAssumption DEF StartKid
  <1>3. KeyFiles(private) /\ KeyFiles(public)
    BY <1>1, <1>2, OnlyIsKeyFiles, PairsAreNumbers DEF Init
  <1>4. KeyFiles(printed) /\ KeyFiles(apps) /\ KeyFiles(keys.publicKeys)
    BY <1>2, OnlyIsKeyFiles, PairsAreNumbers DEF Init
  <1>5. keys.activeKid \in Kids \cup {LegacyKid} /\ keys.privateKey \in Pairs
    BY <1>2, PairsAreNumbers DEF Init
  <1>6. cli \in [pc : {"none"} \cup Steps, kid : Kids,
                 previous : Kids \cup {NoFile, Truncated}, pair : Pairs]
    BY <1>2, PairsAreNumbers DEF Init
  <1> QED
    BY <1>2, <1>3, <1>4, <1>5, <1>6, PairsAreNumbers DEF Init, TypeOK, NamedKeys

LEMMA TypeStep == TypeOK /\ [Next]_vars => TypeOK'
  <1> SUFFICES ASSUME TypeOK, [Next]_vars PROVE TypeOK'
    OBVIOUS
  <1> USE PairsAreNumbers, KeyRotationAssumption
  <1>1. CASE \E kid \in Kids : RotateBegin(kid)
    BY <1>1 DEF RotateBegin, TypeOK, disk, history, Steps
  <1>2. CASE \E kid \in Kids : DropKey(kid)
    <2> PICK kid \in Kids : DropKey(kid)
      BY <1>2
    <2>1. KeyFiles(public') /\ KeyFiles(apps') /\ KeyFiles(printed')
      BY WithoutIsKeyFiles DEF DropKey, TypeOK
    <2> QED
      BY <2>1 DEF DropKey, TypeOK, history
  <1>2a. CASE \E kid \in Kids : Distrust(kid)
    <2> PICK kid \in Kids : Distrust(kid)
      BY <1>2a
    <2>1. KeyFiles(public') /\ KeyFiles(apps') /\ KeyFiles(printed')
      BY WithoutIsKeyFiles DEF Distrust, TypeOK
    <2>2. Named(kid, public[kid]) \in NamedKeys
      BY DEF Distrust, TypeOK, KeyFiles, Named, NamedKeys
    <2> QED
      BY <2>1, <2>2 DEF Distrust, TypeOK
  <1>3. CASE WritePrivate
    <2>1. KeyFiles(private')
      BY <1>3, WithIsKeyFiles DEF WritePrivate, TypeOK
    <2> QED
      BY <1>3, <2>1 DEF WritePrivate, TypeOK, history, Steps
  <1>4. CASE WritePublic
    <2>1. KeyFiles(public')
      BY <1>4, WithIsKeyFiles DEF WritePublic, TypeOK
    <2>2. \A k \in DOMAIN public \cap {cli.kid} : Named(k, public[k]) \in NamedKeys
      BY DEF TypeOK, KeyFiles, Named, NamedKeys
    <2>3. overwritten' \subseteq NamedKeys
      BY <1>4, <2>2 DEF WritePublic, TypeOK
    <2> QED
      BY <1>4, <2>1, <2>3 DEF WritePublic, TypeOK, Steps
  <1>5. CASE TruncateActive
    BY <1>5 DEF TruncateActive, TypeOK, history, Steps
  <1>6. CASE WriteActive
    BY <1>6 DEF WriteActive, TypeOK, history, Steps
  <1>7. CASE Retire
    <2>1. KeyFiles(private')
      BY <1>7, WithoutIsKeyFiles DEF Retire, TypeOK
    <2> QED
      BY <1>7, <2>1 DEF Retire, TypeOK, history, Steps
  <1>7a. CASE PrintKeys
    BY <1>7a DEF PrintKeys, TypeOK, disk, history
  <1>8. CASE CommandDies
    BY <1>8 DEF CommandDies, TypeOK, disk, history
  <1>9. CASE Boot
    <2>0. hasty' \subseteq NamedKeys
      <3>1. \A k \in DOMAIN private \cap {active} : Named(k, private[k]) \in NamedKeys
        BY DEF TypeOK, KeyFiles, Named, NamedKeys
      <3> QED
        BY <1>9, <3>1 DEF Boot, TypeOK
    <2>1. CASE active = NoFile
      <3>1. keys' = loadLegacy
        BY <1>9, <2>1 DEF Boot
      <3>2. KeyFiles(keys'.publicKeys)
        BY <3>1, OnlyIsKeyFiles DEF loadLegacy
      <3> QED
        BY <1>9, <2>0, <3>1, <3>2 DEF Boot, loadLegacy, TypeOK, disk
    <2>2. CASE active # NoFile
      <3>1. keys' = loadKeyed /\ active \in DOMAIN private
        BY <1>9, <2>2 DEF Boot, Bootable
      <3>2. active \in Kids /\ private[active] \in Pairs
        BY <3>1, <2>2 DEF TypeOK, KeyFiles
      <3> QED
        BY <1>9, <2>0, <3>1, <3>2 DEF Boot, loadKeyed, TypeOK, disk
    <2> QED
      BY <2>1, <2>2
  <1>10. CASE Stop
    BY <1>10 DEF Stop, TypeOK, disk, history
  <1>11. CASE generateAccessToken
    BY <1>11 DEF generateAccessToken, TypeOK, disk, history
  <1>12. CASE Expire
    BY <1>12 DEF Expire, TypeOK, disk, history
  <1>13. CASE Deploy
    BY <1>13 DEF Deploy, TypeOK, disk
  <1>14. CASE UNCHANGED vars
    BY <1>14 DEF vars, disk, history, TypeOK
  <1> QED
    BY <1>1, <1>2, <1>2a, <1>3, <1>4, <1>5, <1>6, <1>7, <1>7a, <1>8, <1>9, <1>10,
       <1>11, <1>12, <1>13, <1>14 DEF Next

(* The files, the command, the service and the tokens have the shapes the  *)
(* code gives them (config/jwt.ts, rotate-keys.ts).                        *)
THEOREM TypeCorrect == Spec => []TypeOK
  <1> QED
    BY TypeInit, TypeStep, PTL DEF Spec

-----------------------------------------------------------------------------
(* Boot chooses what DiskComplete has made safe to choose. *)
LEMMA ActiveIsNamed ==
    ASSUME TypeOK, Bootable, active # NoFile
    PROVE  active \in Kids
  BY KeyRotationAssumption DEF TypeOK, Bootable, KeyFiles

LEMMA BootInit == Init => BootInv
  <1> SUFFICES ASSUME Init PROVE BootInv
    OBVIOUS
  <1>1. TypeOK
    BY TypeInit
  <1>2. StartKid \in Kids \cup {LegacyKid} /\ FirstKid \in Kids
    BY KeyRotationAssumption DEF StartKid
  <1>3. DiskComplete
    <2>1. CASE LegacyLayout
      BY <2>1, KeyRotationAssumption DEF Init, DiskComplete
    <2>2. CASE ~LegacyLayout
      BY <2>2, <1>2, KeyRotationAssumption DEF Init, Only, DiskComplete
    <2> QED
      BY <2>1, <2>2
  <1>4. Written
    BY DEF Init, Written
  <1>5. SelfTrust
    BY <1>2, OnlyIsKeyFiles, PairsAreNumbers DEF Init, SelfTrust
  <1> QED
    BY <1>1, <1>3, <1>4, <1>5 DEF BootInv

LEMMA BootStep == BootInv /\ [Next]_vars => BootInv'
  <1> SUFFICES ASSUME BootInv, [Next]_vars PROVE BootInv'
    OBVIOUS
  <1> USE PairsAreNumbers, KeyRotationAssumption
  <1>0. TypeOK /\ TypeOK' /\ cli.kid \in Kids /\ cli.pair \in Pairs
    BY TypeStep DEF BootInv, TypeOK
  <1>1. CASE \E kid \in Kids : RotateBegin(kid)
    <2>1. Written'
      BY <1>1, <1>0 DEF RotateBegin, BootInv, DiskComplete, Written, disk, TypeOK
    <2> QED
      BY <1>1, <1>0, <2>1 DEF RotateBegin, BootInv, DiskComplete, SelfTrust, disk
  <1>2. CASE \E kid \in Kids : DropKey(kid) \/ Distrust(kid)
    <2> PICK kid \in Kids : DropKey(kid) \/ Distrust(kid)
      BY <1>2
    <2>1. DiskComplete'
      <3>1. /\ DOMAIN public' = DOMAIN public \ {kid}
            /\ \A k \in DOMAIN public : k # kid => public'[k] = public[k]
        BY DEF DropKey, Distrust, Without
      <3> QED
        BY <3>1 DEF DropKey, Distrust, BootInv, DiskComplete
    <2>2. Written'
      BY DEF DropKey, Distrust, Written
    <2> QED
      BY <1>0, <2>1, <2>2 DEF DropKey, Distrust, BootInv, SelfTrust
  <1>3. CASE WritePrivate
    <2>1. /\ DOMAIN private' = DOMAIN private \cup {cli.kid}
          /\ private'[cli.kid] = cli.pair
          /\ \A k \in DOMAIN private : k # cli.kid => private'[k] = private[k]
      BY <1>3, <1>0 DEF WritePrivate, With
    <2>2. cli'.pc = "writePublic" /\ cli'.kid = cli.kid /\ cli'.pair = cli.pair
      BY <1>3, <1>0 DEF WritePrivate, TypeOK
    <2>3. DiskComplete'
      BY <1>3, <2>1 DEF WritePrivate, BootInv, DiskComplete, Written
    <2>4. Written'
      BY <1>3, <2>1, <2>2 DEF WritePrivate, BootInv, Written
    <2> QED
      BY <1>3, <1>0, <2>3, <2>4 DEF WritePrivate, BootInv, SelfTrust
  <1>4. CASE WritePublic
    <2>1. /\ DOMAIN public' = DOMAIN public \cup {cli.kid}
          /\ public'[cli.kid] = cli.pair
          /\ \A k \in DOMAIN public : k # cli.kid => public'[k] = public[k]
      BY <1>4, <1>0 DEF WritePublic, With
    <2>2. cli'.pc = "truncateActive" /\ cli'.kid = cli.kid /\ cli'.pair = cli.pair
      BY <1>4, <1>0 DEF WritePublic, TypeOK
    <2>3. DiskComplete'
      BY <1>4, <2>1 DEF WritePublic, BootInv, DiskComplete, Written
    <2>4. Written'
      BY <1>4, <2>1, <2>2 DEF WritePublic, BootInv, Written
    <2> QED
      BY <1>4, <1>0, <2>3, <2>4 DEF WritePublic, BootInv, SelfTrust
  <1>5. CASE TruncateActive
    <2>1. cli'.pc = "writeActive" /\ cli'.kid = cli.kid /\ cli'.pair = cli.pair
      BY <1>5, <1>0 DEF TruncateActive, TypeOK
    <2> QED
      BY <1>5, <1>0, <2>1
         DEF TruncateActive, BootInv, DiskComplete, Written, SelfTrust
  <1>6. CASE WriteActive
    <2>1. cli'.pc = "retire" /\ cli'.kid = cli.kid /\ cli'.pair = cli.pair
      BY <1>6, <1>0 DEF WriteActive, TypeOK
    <2> QED
      BY <1>6, <1>0, <2>1
         DEF WriteActive, BootInv, DiskComplete, Written, SelfTrust
  <1>7. CASE Retire
    <2>1. cli'.pc = "print"
      BY <1>7, <1>0 DEF Retire, TypeOK
    <2>2. /\ active = cli.kid /\ active \in DOMAIN private'
          /\ private'[active] = private[active]
      BY <1>7, <1>0 DEF Retire, BootInv, Written, Without
    <2>3. DiskComplete'
      BY <1>7, <2>2 DEF Retire, BootInv, DiskComplete, Written
    <2> QED
      BY <1>7, <1>0, <2>1, <2>3 DEF Retire, BootInv, Written, SelfTrust
  <1>8. CASE PrintKeys \/ CommandDies
    <2>1. cli'.pc = "none"
      BY <1>8, <1>0 DEF PrintKeys, CommandDies, TypeOK
    <2> QED
      BY <1>8, <1>0, <2>1
         DEF PrintKeys, CommandDies, BootInv, DiskComplete, Written, SelfTrust, disk
  <1>9. CASE Boot
    <2>1. SelfTrust'
      <3>1. CASE active = NoFile
        BY <1>9, <3>1 DEF Boot, loadLegacy, Only, SelfTrust
      <3>2. CASE active # NoFile
        BY <1>9, <1>0, <3>2, ActiveIsNamed
           DEF Boot, loadKeyed, SelfTrust, BootInv, DiskComplete
      <3> QED
        BY <3>1, <3>2
    <2> QED
      BY <1>9, <1>0, <2>1 DEF Boot, BootInv, DiskComplete, Written, disk
  <1>10. CASE Stop \/ generateAccessToken \/ Expire \/ Deploy \/ UNCHANGED vars
    BY <1>10, <1>0 DEF Stop, generateAccessToken, Expire, Deploy, vars, disk,
                       BootInv, DiskComplete, Written, SelfTrust
  <1> QED
    BY <1>1, <1>2, <1>3, <1>4, <1>5, <1>6, <1>7, <1>8, <1>9, <1>10 DEF Next

LEMMA BootInvSuffices == BootInv => BootsAfterACrash
  BY KeyRotationAssumption
     DEF BootInv, TypeOK, DiskComplete, SelfTrust, Bootable, BootsAfterACrash

(* Whenever rotate-keys is interrupted, for any history of rotations, the  *)
(* directory boots unless active.key is truncated, and the service trusts  *)
(* the key it signs with (rotate-keys.ts, loadKeySet).                     *)
THEOREM RotationSurvivesACrash == Spec => []BootsAfterACrash
  <1> QED
    BY BootInit, BootStep, BootInvSuffices, PTL DEF Spec

-----------------------------------------------------------------------------
(* A key is lost to the service once it is distrusted or written over.     *)
Lost == overwritten \cup distrusted

(* Every named key in use is still published on disk, unless it is lost.   *)
StillPublished ==
    /\ up /\ keys.activeKid \in Kids =>
         LET key == Named(keys.activeKid, keys.privateKey)
         IN  key \in Lost \/ Publishes(public, key)
    /\ \A t \in tokens : t.kid \in Kids => t \in Lost \/ Publishes(public, t)

(* Before the first rotation no token names a key. *)
NoNamesYet ==
    active = NoFile =>
        keys.activeKid = LegacyKid /\ \A t \in tokens : t.kid \notin Kids

(* The running service trusts the key of every live token that names one,  *)
(* unless it is lost.                                                      *)
Trusted ==
    up => \A t \in tokens : t.kid \in Kids => t \in Lost \/ Publishes(keys.publicKeys, t)

TokenInv == BootInv /\ StillPublished /\ NoNamesYet /\ Trusted

(* A token that names its key is that name with the pair that signed it.   *)
LEMMA TokensAreNamed ==
    ASSUME TypeOK, NEW t \in tokens, t.kid \in Kids
    PROVE  t \in NamedKeys /\ t = Named(t.kid, t.pair)
  BY DEF TypeOK, NamedKeys, Named

LEMMA TokenInit == Init => TokenInv
  <1> SUFFICES ASSUME Init PROVE TokenInv
    OBVIOUS
  <1>1. BootInv
    BY BootInit
  <1>2. StillPublished
    <2>1. CASE LegacyLayout
      BY <2>1, KeyRotationAssumption DEF Init, StartKid, StillPublished
    <2>2. CASE ~LegacyLayout
      BY <2>2, KeyRotationAssumption
         DEF Init, StartKid, Only, Named, Publishes, StillPublished
    <2> QED
      BY <2>1, <2>2
  <1>3. NoNamesYet
    BY KeyRotationAssumption DEF Init, StartKid, NoNamesYet
  <1>4. Trusted
    BY DEF Init, Trusted
  <1> QED
    BY <1>1, <1>2, <1>3, <1>4 DEF TokenInv

LEMMA TokenStep == TokenInv /\ [Next]_vars => TokenInv'
  <1> SUFFICES ASSUME TokenInv, [Next]_vars PROVE TokenInv'
    OBVIOUS
  <1> USE PairsAreNumbers, KeyRotationAssumption
  <1>0. BootInv /\ BootInv' /\ TypeOK /\ cli.kid \in Kids /\ cli.pair \in Pairs
    BY BootStep DEF TokenInv, BootInv, TypeOK
  <1>1. CASE \E kid \in Kids : DropKey(kid)
    <2> PICK kid \in Kids : DropKey(kid)
      BY <1>1
    <2>1. /\ \A key : key.kid # kid /\ Publishes(public, key) => Publishes(public', key)
          /\ UNCHANGED <<active, keys, tokens, up, overwritten, distrusted>>
          /\ keys.activeKid # kid /\ \A t \in tokens : t.kid # kid
      BY DEF DropKey, Without, Publishes, history
    <2>2. Lost' = Lost
      BY <2>1 DEF Lost
    <2>3. Named(keys.activeKid, keys.privateKey).kid # kid
      BY <2>1 DEF Named
    <2>4. StillPublished'
      BY <2>1, <2>2, <2>3 DEF TokenInv, StillPublished
    <2> QED
      BY <1>0, <2>1, <2>2, <2>4 DEF TokenInv, NoNamesYet, Trusted
  <1>2. CASE \E kid \in Kids : Distrust(kid)
    <2> PICK kid \in Kids : Distrust(kid)
      BY <1>2
    <2>1. /\ UNCHANGED <<active, keys, tokens, up>> /\ Lost \subseteq Lost'
          /\ Named(kid, public[kid]) \in Lost'
          /\ \A key : key.kid # kid /\ Publishes(public, key) => Publishes(public', key)
      BY DEF Distrust, Without, Publishes, Lost
    <2>2. StillPublished'
      <3>1. ASSUME NEW key, key = Named(key.kid, key.pair), Publishes(public, key)
            PROVE  key \in Lost' \/ Publishes(public', key)
        BY <2>1, <3>1 DEF Publishes
      <3>2. ASSUME up, keys.activeKid \in Kids
            PROVE  \/ Named(keys.activeKid, keys.privateKey) \in Lost'
                   \/ Publishes(public', Named(keys.activeKid, keys.privateKey))
        BY <2>1, <3>1, <3>2 DEF TokenInv, StillPublished, Named
      <3>3. ASSUME NEW t \in tokens, t.kid \in Kids
            PROVE  t \in Lost' \/ Publishes(public', t)
        BY <1>0, <2>1, <3>1, <3>3, TokensAreNamed DEF TokenInv, StillPublished
      <3> QED
        BY <2>1, <3>2, <3>3 DEF StillPublished
    <2> QED
      BY <1>0, <2>1, <2>2 DEF TokenInv, NoNamesYet, Trusted
  <1>3. CASE WritePublic
    <2>1. /\ UNCHANGED <<active, keys, tokens, up>> /\ Lost \subseteq Lost'
          /\ cli.kid \in DOMAIN public => Named(cli.kid, public[cli.kid]) \in Lost'
          /\ \A key : key.kid # cli.kid /\ Publishes(public, key) => Publishes(public', key)
      BY <1>3 DEF WritePublic, With, Publishes, Lost
    <2>2. StillPublished'
      <3>1. ASSUME NEW key, key = Named(key.kid, key.pair), Publishes(public, key)
            PROVE  key \in Lost' \/ Publishes(public', key)
        BY <2>1, <3>1 DEF Publishes
      <3>2. ASSUME up, keys.activeKid \in Kids
            PROVE  \/ Named(keys.activeKid, keys.privateKey) \in Lost'
                   \/ Publishes(public', Named(keys.activeKid, keys.privateKey))
        BY <2>1, <3>1, <3>2 DEF TokenInv, StillPublished, Named
      <3>3. ASSUME NEW t \in tokens, t.kid \in Kids
            PROVE  t \in Lost' \/ Publishes(public', t)
        BY <1>0, <2>1, <3>1, <3>3, TokensAreNamed DEF TokenInv, StillPublished
      <3> QED
        BY <2>1, <3>2, <3>3 DEF StillPublished
    <2> QED
      BY <1>0, <2>1, <2>2 DEF TokenInv, NoNamesYet, Trusted
  <1>4. CASE Boot
    <2>1. UNCHANGED <<public, active, tokens, overwritten, distrusted>>
      BY <1>4 DEF Boot, disk
    <2>2. Lost' = Lost
      BY <2>1 DEF Lost
    <2>3. CASE active = NoFile
      <3>1. keys'.activeKid = LegacyKid
        BY <1>4, <2>3 DEF Boot, loadLegacy
      <3> QED
        BY <1>0, <2>1, <2>2, <2>3, <3>1 DEF TokenInv, StillPublished, NoNamesYet, Trusted
    <2>4. CASE active # NoFile
      <3>1. /\ active \in Kids /\ keys'.activeKid = active
            /\ keys'.privateKey = private[active] /\ keys'.publicKeys = public
        BY <1>0, <1>4, <2>4, ActiveIsNamed DEF Boot, loadKeyed
      <3>2. active \in DOMAIN public /\ public[active] = private[active]
        BY <1>0, <3>1 DEF BootInv, DiskComplete
      <3>3. Publishes(public, Named(keys'.activeKid, keys'.privateKey))
        BY <3>1, <3>2 DEF Publishes, Named
      <3>4. StillPublished' /\ Trusted'
        BY <2>1, <2>2, <3>1, <3>3 DEF TokenInv, StillPublished, Trusted
      <3> QED
        BY <1>0, <2>1, <2>4, <3>4 DEF TokenInv, NoNamesYet
    <2> QED
      BY <2>3, <2>4
  <1>5. CASE generateAccessToken
    <2>1. PICK t : /\ t = Named(keys.activeKid, keys.privateKey)
                   /\ tokens' = tokens \cup {t}
      BY <1>5 DEF generateAccessToken, Named
    <2>2. /\ t.kid = keys.activeKid /\ t.pair = keys.privateKey
          /\ UNCHANGED <<public, active, keys, up, overwritten, distrusted>> /\ up
      BY <1>5, <2>1 DEF generateAccessToken, disk, history, Named
    <2>3. Lost' = Lost
      BY <2>2 DEF Lost
    <2>4. Publishes(keys.publicKeys, t)
      BY <1>0, <2>2 DEF BootInv, SelfTrust, Publishes
    <2>5. StillPublished'
      BY <2>1, <2>2, <2>3 DEF TokenInv, StillPublished
    <2>6. Trusted'
      BY <2>1, <2>2, <2>3, <2>4 DEF TokenInv, Trusted
    <2>7. NoNamesYet'
      BY <2>1, <2>2 DEF TokenInv, NoNamesYet
    <2> QED
      BY <1>0, <2>5, <2>6, <2>7 DEF TokenInv
  <1>6. CASE \/ \E kid \in Kids : RotateBegin(kid)
             \/ WritePrivate \/ TruncateActive \/ WriteActive \/ Retire
             \/ PrintKeys \/ CommandDies \/ Stop \/ Expire \/ Deploy \/ UNCHANGED vars
    <2>1. /\ UNCHANGED <<public, keys, overwritten, distrusted>>
          /\ tokens' \subseteq tokens
          /\ up' => up
          /\ active' = active \/ active' # NoFile
      BY <1>0, <1>6 DEF RotateBegin, WritePrivate, TruncateActive, WriteActive, Retire,
         PrintKeys, CommandDies, Stop, Expire, Deploy, vars, disk, history
    <2>2. Lost' = Lost
      BY <2>1 DEF Lost
    <2>3. StillPublished'
      BY <2>1, <2>2 DEF TokenInv, StillPublished
    <2>4. NoNamesYet'
      BY <2>1 DEF TokenInv, NoNamesYet
    <2>5. Trusted'
      BY <2>1, <2>2 DEF TokenInv, Trusted
    <2> QED
      BY <1>0, <2>3, <2>4, <2>5 DEF TokenInv
  <1> QED
    BY <1>1, <1>2, <1>3, <1>4, <1>5, <1>6 DEF Next

LEMMA TokenInvSuffices == TokenInv => LiveTokensVerify
  <1> SUFFICES ASSUME TokenInv, up, NEW t \in tokens, t.kid # LegacyKid, t \notin Lost
               PROVE  verifyAccessToken(t)
    BY DEF LiveTokensVerify, Lost
  <1>1. t.kid \in Kids
    BY DEF TokenInv, BootInv, TypeOK
  <1>2. Publishes(keys.publicKeys, t)
    BY <1>1 DEF TokenInv, Trusted
  <1> QED
    BY <1>2 DEF Publishes, verifyAccessToken, publicKeyFor

(* Rotation is no forced logout: across crashes of the command, restarts   *)
(* of the service and dropped keys, a live token that names its key is     *)
(* refused only if the key was distrusted, or written over by a rotation   *)
(* to the same name (rotate-keys.ts, TokenService).                        *)
THEOREM RotationKeepsTokens == Spec => []LiveTokensVerify
  <1> QED
    BY TokenInit, TokenStep, TokenInvSuffices, PTL DEF Spec

-----------------------------------------------------------------------------
(* No copy of the keys holds one that was distrusted, and the pair on its  *)
(* way to the directory is a new one.                                      *)
Gone ==
    /\ \A key \in distrusted : /\ ~Publishes(public, key) /\ ~Publishes(printed, key)
                               /\ ~Publishes(apps, key)
                               /\ key.pair \leq made
    /\ \A k \in DOMAIN public : public[k] \leq made
    /\ cli.pc \in {"writePrivate", "writePublic"} =>
         cli.pair \leq made /\ \A key \in distrusted : key.pair # cli.pair

GoneInv == TypeOK /\ Gone

LEMMA GoneInit == Init => GoneInv
  <1> SUFFICES ASSUME Init PROVE GoneInv
    OBVIOUS
  <1>1. \A k \in DOMAIN public : public[k] \leq made
    BY DEF Init, Only, FirstPair
  <1> QED
    BY <1>1, TypeInit DEF Init, GoneInv, Gone

LEMMA GoneStep == GoneInv /\ [Next]_vars => GoneInv'
  <1> SUFFICES ASSUME GoneInv, [Next]_vars PROVE GoneInv'
    OBVIOUS
  <1> USE PairsAreNumbers
  <1>0. /\ TypeOK /\ TypeOK' /\ cli.pair \in Nat /\ made \in Nat
        /\ \A k \in DOMAIN public : public[k] \in Nat
        /\ \A key \in distrusted : key.pair \in Nat
    BY TypeStep DEF GoneInv, TypeOK, KeyFiles, NamedKeys
  <1>1. CASE \E kid \in Kids : RotateBegin(kid)
    <2>1. /\ made' = made + 1 /\ cli'.pair = made + 1
          /\ UNCHANGED <<public, printed, apps, distrusted>>
      BY <1>1 DEF RotateBegin, disk, history
    <2>2. \A n \in Nat : n \leq made => n \leq made' /\ n # made + 1
      BY <1>0, <2>1
    <2>3. \A key \in distrusted : key.pair \leq made' /\ key.pair # cli'.pair
      BY <1>0, <2>1, <2>2 DEF GoneInv, Gone
    <2>4. \A k \in DOMAIN public : public[k] \leq made'
      BY <1>0, <2>1, <2>2 DEF GoneInv, Gone
    <2>5. cli'.pair \leq made'
      BY <1>0, <2>1
    <2> QED
      BY <1>0, <2>1, <2>3, <2>4, <2>5 DEF GoneInv, Gone, Publishes
  <1>2. CASE \E kid \in Kids : DropKey(kid)
    <2> PICK kid \in Kids : DropKey(kid)
      BY <1>2
    <2>1. /\ \A key : /\ Publishes(public', key) => Publishes(public, key)
                      /\ Publishes(printed', key) => Publishes(printed, key)
                      /\ Publishes(apps', key) => Publishes(apps, key)
          /\ \A k \in DOMAIN public' : k \in DOMAIN public /\ public'[k] = public[k]
          /\ UNCHANGED <<cli, made, distrusted>>
      BY DEF DropKey, Without, Publishes, history
    <2> QED
      BY <1>0, <2>1 DEF GoneInv, Gone
  <1>3. CASE \E kid \in Kids : Distrust(kid)
    <2> PICK kid \in Kids : Distrust(kid)
      BY <1>3
    <2>1. /\ \A key : /\ Publishes(public', key) => Publishes(public, key) /\ key.kid # kid
                      /\ Publishes(printed', key) => Publishes(printed, key) /\ key.kid # kid
                      /\ Publishes(apps', key) => Publishes(apps, key) /\ key.kid # kid
          /\ \A k \in DOMAIN public' : k \in DOMAIN public /\ public'[k] = public[k]
          /\ UNCHANGED <<cli, made>> /\ cli.pc = "none" /\ kid \in DOMAIN public
          /\ distrusted' = distrusted \cup {Named(kid, public[kid])}
      BY DEF Distrust, Without, Publishes
    <2>2. /\ Named(kid, public[kid]).kid = kid
          /\ Named(kid, public[kid]).pair \leq made
      BY <2>1 DEF Named, GoneInv, Gone
    <2>3. \A key \in distrusted' : /\ ~Publishes(public', key) /\ ~Publishes(printed', key)
                                   /\ ~Publishes(apps', key)
                                   /\ key.pair \leq made
      BY <2>1, <2>2 DEF GoneInv, Gone
    <2>4. \A k \in DOMAIN public' : public'[k] \leq made
      BY <2>1 DEF GoneInv, Gone
    <2> QED
      BY <1>0, <2>1, <2>3, <2>4 DEF GoneInv, Gone
  <1>4. CASE WritePublic
    <2>1. /\ \A key : Publishes(public', key) =>
                        Publishes(public, key) \/ key.pair = cli.pair
          /\ \A k \in DOMAIN public' :
                public'[k] = cli.pair \/ (k \in DOMAIN public /\ public'[k] = public[k])
          /\ UNCHANGED <<made, printed, apps, distrusted>>
      BY <1>4 DEF WritePublic, With, Publishes
    <2>2. cli'.pc = "truncateActive" /\ cli.pc = "writePublic"
      BY <1>0, <1>4 DEF WritePublic, TypeOK
    <2>3. \A key \in distrusted : ~Publishes(public', key)
      BY <2>1, <2>2 DEF GoneInv, Gone
    <2>4. \A k \in DOMAIN public' : public'[k] \leq made
      BY <2>1, <2>2 DEF GoneInv, Gone
    <2> QED
      BY <1>0, <2>1, <2>2, <2>3, <2>4 DEF GoneInv, Gone, Publishes
  <1>5. CASE PrintKeys \/ Deploy
    <2>1. /\ printed' \in {printed, public} /\ apps' \in {apps, printed}
          /\ UNCHANGED <<public, made, distrusted>>
          /\ cli' = cli \/ cli'.pc = "none"
      BY <1>0, <1>5 DEF PrintKeys, Deploy, disk, history, TypeOK
    <2>2. \A key \in distrusted : ~Publishes(printed', key) /\ ~Publishes(apps', key)
      BY <2>1 DEF GoneInv, Gone, Publishes
    <2> QED
      BY <1>0, <2>1, <2>2 DEF GoneInv, Gone, Publishes
  <1>6. CASE \/ WritePrivate \/ TruncateActive \/ WriteActive \/ Retire \/ CommandDies
             \/ Boot \/ Stop \/ generateAccessToken \/ Expire \/ UNCHANGED vars
    <2>1. UNCHANGED <<public, printed, apps, made, distrusted>>
      BY <1>6 DEF WritePrivate, TruncateActive, WriteActive, Retire, CommandDies, Boot,
                  Stop, generateAccessToken, Expire, vars, disk, history
    <2>2. \/ cli' = cli
          \/ cli.pc = "writePrivate" /\ cli'.pair = cli.pair
          \/ cli'.pc \notin {"writePrivate", "writePublic"}
      BY <1>0, <1>6 DEF WritePrivate, TruncateActive, WriteActive, Retire, CommandDies, Boot,
                        Stop, generateAccessToken, Expire, vars, disk, TypeOK
    <2> QED
      BY <1>0, <2>1, <2>2 DEF GoneInv, Gone, Publishes
  <1> QED
    BY <1>1, <1>2, <1>3, <1>4, <1>5, <1>6 DEF Next

LEMMA BootRefuses ==
    ASSUME GoneInv, NEW t \in distrusted, Boot
    PROVE  ~verifyAccessToken(t)'
  <1>1. t.kid \in Kids /\ t.kid # LegacyKid /\ ~Publishes(public, t)
    BY KeyRotationAssumption DEF GoneInv, Gone, TypeOK, NamedKeys
  <1>2. CASE active = NoFile
    <2>1. DOMAIN keys'.publicKeys = {LegacyKid}
      BY <1>2 DEF Boot, loadLegacy, Only
    <2> QED
      BY <1>1, <2>1 DEF verifyAccessToken, publicKeyFor
  <1>3. CASE active # NoFile
    <2>1. keys'.publicKeys = public
      BY <1>3 DEF Boot, loadKeyed
    <2> QED
      BY <1>1, <2>1 DEF verifyAccessToken, publicKeyFor, Publishes
  <1> QED
    BY <1>2, <1>3

LEMMA DistrustLasts ==
    ASSUME GoneInv, GoneInv', [Next]_vars, NEW t \in distrusted
    PROVE  ~Publishes(apps, t)' /\ (~up /\ up' => ~verifyAccessToken(t)')
  <1>1. t \in distrusted'
    BY DEF Next, RotateBegin, DropKey, Distrust, WritePrivate, WritePublic, TruncateActive,
           WriteActive, Retire, PrintKeys, CommandDies, Boot, Stop, generateAccessToken,
           Expire, Deploy, vars, history
  <1>2. ~Publishes(apps, t)'
    BY <1>1 DEF GoneInv, Gone, Publishes
  <1>3. ~up /\ up' => Boot
    BY DEF Next, RotateBegin, DropKey, Distrust, WritePrivate, WritePublic, TruncateActive,
           WriteActive, Retire, PrintKeys, CommandDies, Stop, generateAccessToken,
           Expire, Deploy, vars
  <1> QED
    BY <1>2, <1>3, BootRefuses

(* Once a key is distrusted, no rotation, deployment or restart makes the  *)
(* applications accept it again, and the service refuses it from its next  *)
(* restart on, whatever keys there are and whatever an interrupted command *)
(* left behind (loadKeySet, rotate-keys.ts).                               *)
THEOREM DistrustIsFinal == Spec => DistrustedKeysAreRefused
  <1>1. GoneInv /\ GoneInv' /\ [Next]_vars =>
          [\A t \in distrusted : /\ ~Publishes(apps, t)'
                                 /\ ~up /\ up' => ~verifyAccessToken(t)']_vars
    BY DistrustLasts
  <1> QED
    BY <1>1, GoneInit, GoneStep, PTL DEF Spec, DistrustedKeysAreRefused

-----------------------------------------------------------------------------
(* A key an application can check, or is excused for not having.           *)
Covered(key) == Publishes(apps, key) \/ key \in Lost \cup hasty

(* What the applications hold was printed, and what was printed is in the  *)
(* directory, unless it has been written over there; and the service signs *)
(* only with keys that are covered.                                        *)
Handed ==
    /\ \A key \in NamedKeys :
         /\ Publishes(apps, key) => Publishes(printed, key) \/ key \in overwritten
         /\ Publishes(printed, key) => Publishes(public, key) \/ key \in overwritten
    /\ up /\ keys.activeKid \in Kids => Covered(Named(keys.activeKid, keys.privateKey))
    /\ \A t \in tokens : t.kid \in Kids => Covered(t)

HandedInv == TypeOK /\ Handed

LEMMA HandedInit == Init => HandedInv
  <1> SUFFICES ASSUME Init PROVE HandedInv
    OBVIOUS
  <1>1. \A key \in NamedKeys :
          /\ Publishes(apps, key) => Publishes(printed, key)
          /\ Publishes(printed, key) => Publishes(public, key)
    BY KeyRotationAssumption DEF Init, StartKid, Only, Publishes, NamedKeys
  <1>2. keys.activeKid \in Kids => Covered(Named(keys.activeKid, keys.privateKey))
    BY KeyRotationAssumption DEF Init, StartKid, Only, Publishes, Covered, Named
  <1> QED
    BY <1>1, <1>2, TypeInit DEF Init, HandedInv, Handed

(* The keys in use are named keys. *)
LEMMA UsedAreNamed ==
    ASSUME TypeOK
    PROVE  /\ keys.activeKid \in Kids => Named(keys.activeKid, keys.privateKey) \in NamedKeys
           /\ \A t \in tokens : t.kid \in Kids => t \in NamedKeys
  BY DEF TypeOK, NamedKeys, Named

LEMMA HandedKeep ==
    ASSUME HandedInv, TypeOK', UNCHANGED <<keys>>, up' => up, tokens' \subseteq tokens,
           \A key \in NamedKeys :
             /\ Publishes(apps, key)' => Publishes(printed, key)' \/ key \in overwritten'
             /\ Publishes(printed, key)' => Publishes(public, key)' \/ key \in overwritten'
             /\ Covered(key) => Covered(key)'
    PROVE  HandedInv'
  <1>1. up' /\ keys.activeKid \in Kids => Covered(Named(keys.activeKid, keys.privateKey))'
    BY UsedAreNamed DEF HandedInv, Handed
  <1>2. \A t \in tokens' : t.kid \in Kids => Covered(t)'
    BY UsedAreNamed DEF HandedInv, Handed
  <1> QED
    BY <1>1, <1>2 DEF HandedInv, Handed

LEMMA HandedStep == HandedInv /\ [Next]_vars => HandedInv'
  <1> SUFFICES ASSUME HandedInv, [Next]_vars PROVE HandedInv'
    OBVIOUS
  <1> USE KeyRotationAssumption
  <1>0. TypeOK /\ TypeOK'
    BY TypeStep DEF HandedInv
  <1>1. CASE \E kid \in Kids : DropKey(kid)
    <2> PICK kid \in Kids : DropKey(kid)
      BY <1>1
    <2>1. /\ \A key : /\ Publishes(public', key) <=> Publishes(public, key) /\ key.kid # kid
                      /\ Publishes(printed', key) <=> Publishes(printed, key) /\ key.kid # kid
                      /\ Publishes(apps', key) <=> Publishes(apps, key) /\ key.kid # kid
          /\ keys.activeKid # kid /\ \A t \in tokens : t.kid # kid
          /\ UNCHANGED <<keys, tokens, up, overwritten, hasty, distrusted>>
      BY DEF DropKey, Without, Publishes, history
    <2>2. \A key : key.kid # kid /\ Covered(key) => Covered(key)'
      BY <2>1 DEF Covered, Lost
    <2>3. Named(keys.activeKid, keys.privateKey).kid # kid
      BY <2>1 DEF Named
    <2>4. up' /\ keys.activeKid \in Kids => Covered(Named(keys.activeKid, keys.privateKey))'
      BY <2>1, <2>2, <2>3 DEF HandedInv, Handed
    <2>5. \A t \in tokens' : t.kid \in Kids => Covered(t)'
      BY <2>1, <2>2 DEF HandedInv, Handed
    <2>6. \A key \in NamedKeys :
            /\ Publishes(apps', key) => Publishes(printed', key) \/ key \in overwritten'
            /\ Publishes(printed', key) => Publishes(public', key) \/ key \in overwritten'
      BY <2>1 DEF HandedInv, Handed
    <2> QED
      BY <1>0, <2>1, <2>4, <2>5, <2>6 DEF HandedInv, Handed
  <1>2. CASE \E kid \in Kids : Distrust(kid)
    <2> PICK kid \in Kids : Distrust(kid)
      BY <1>2
    <2>1. /\ \A key : /\ Publishes(public', key) <=> Publishes(public, key) /\ key.kid # kid
                      /\ Publishes(printed', key) <=> Publishes(printed, key) /\ key.kid # kid
                      /\ Publishes(apps', key) <=> Publishes(apps, key) /\ key.kid # kid
          /\ UNCHANGED <<keys, tokens, up, overwritten, hasty>>
          /\ distrusted' = distrusted \cup {Named(kid, public[kid])}
      BY DEF Distrust, Without, Publishes
    <2>2. ASSUME NEW key \in NamedKeys, Covered(key) PROVE Covered(key)'
      <3>1. CASE key \in Lost \cup hasty
        BY <2>1, <3>1 DEF Covered, Lost
      <3>2. CASE Publishes(apps, key) /\ key.kid # kid
        BY <2>1, <3>2 DEF Covered
      <3>3. CASE Publishes(apps, key) /\ key.kid = kid /\ key \notin overwritten
        <4>1. Publishes(public, key)
          BY <3>3 DEF HandedInv, Handed
        <4>2. key = Named(kid, public[kid])
          BY <3>3, <4>1 DEF Publishes, NamedKeys, Named
        <4> QED
          BY <2>1, <4>2 DEF Covered, Lost
      <3> QED
        BY <2>2, <3>1, <3>2, <3>3 DEF Covered, Lost
    <2>3. \A key \in NamedKeys :
            /\ Publishes(apps', key) => Publishes(printed', key) \/ key \in overwritten'
            /\ Publishes(printed', key) => Publishes(public', key) \/ key \in overwritten'
      BY <2>1 DEF HandedInv, Handed
    <2> QED
      BY <1>0, <2>1, <2>2, <2>3, HandedKeep DEF Publishes
  <1>3. CASE WritePublic
    <2>1. /\ UNCHANGED <<apps, printed, keys, tokens, up, hasty, distrusted>>
          /\ overwritten \subseteq overwritten'
          /\ cli.kid \in DOMAIN public => Named(cli.kid, public[cli.kid]) \in overwritten'
          /\ \A key : key.kid # cli.kid /\ Publishes(public, key) => Publishes(public', key)
      BY <1>3 DEF WritePublic, With, Publishes
    <2>2. ASSUME NEW key \in NamedKeys, Publishes(public, key)
          PROVE  Publishes(public', key) \/ key \in overwritten'
      <3>1. key = Named(key.kid, public[key.kid])
        BY <2>2 DEF NamedKeys, Named, Publishes
      <3> QED
        BY <2>1, <2>2, <3>1 DEF Publishes
    <2>3. \A key : Covered(key) => Covered(key)'
      BY <2>1 DEF Covered, Lost, Publishes
    <2>4. \A key \in NamedKeys :
            /\ Publishes(apps', key) => Publishes(printed', key) \/ key \in overwritten'
            /\ Publishes(printed', key) => Publishes(public', key) \/ key \in overwritten'
      BY <2>1, <2>2 DEF HandedInv, Handed
    <2> QED
      BY <1>0, <2>1, <2>3, <2>4, HandedKeep DEF Publishes
  <1>4. CASE PrintKeys
    <2>1. printed' = public /\ UNCHANGED <<public, apps, keys, tokens, up, history>>
      BY <1>4 DEF PrintKeys, disk
    <2>2. \A key : Covered(key) => Covered(key)'
      BY <2>1 DEF Covered, Lost, history, Publishes
    <2>3. \A key \in NamedKeys :
            /\ Publishes(apps', key) => Publishes(printed', key) \/ key \in overwritten'
            /\ Publishes(printed', key) => Publishes(public', key) \/ key \in overwritten'
      BY <2>1 DEF HandedInv, Handed, history
    <2> QED
      BY <1>0, <2>1, <2>2, <2>3, HandedKeep DEF Publishes
  <1>5. CASE Deploy
    <2>1. /\ apps' = printed /\ hasty' = {key \in hasty : ~Publishes(printed, key)}
          /\ UNCHANGED <<public, printed, keys, tokens, up, overwritten, distrusted>>
      BY <1>5 DEF Deploy, disk
    <2>2. \A key \in NamedKeys : Covered(key) => Covered(key)'
      BY <2>1 DEF Covered, Lost, HandedInv, Handed, Publishes
    <2>3. \A key \in NamedKeys :
            /\ Publishes(apps', key) => Publishes(printed', key) \/ key \in overwritten'
            /\ Publishes(printed', key) => Publishes(public', key) \/ key \in overwritten'
      BY <2>1 DEF HandedInv, Handed
    <2> QED
      BY <1>0, <2>1, <2>2, <2>3, HandedKeep DEF Publishes
  <1>6. CASE Boot
    <2>1. /\ UNCHANGED <<public, printed, apps, tokens, overwritten, distrusted>>
          /\ hasty \subseteq hasty'
      BY <1>6 DEF Boot, disk
    <2>2. \A key : Covered(key) => Covered(key)'
      BY <2>1 DEF Covered, Lost, Publishes
    <2>3. ASSUME keys'.activeKid \in Kids
          PROVE  Covered(Named(keys.activeKid, keys.privateKey))'
      <3>1. active # NoFile
        BY <1>6, <2>3 DEF Boot, loadLegacy
      <3>2. /\ keys'.activeKid = active /\ keys'.privateKey = private[active]
            /\ active \in DOMAIN private
        BY <1>6, <3>1 DEF Boot, Bootable, loadKeyed
      <3>3. \/ Publishes(apps, Named(active, private[active]))
            \/ Named(active, private[active]) \in hasty'
        BY <1>6, <3>2 DEF Boot
      <3> QED
        BY <2>1, <3>2, <3>3 DEF Covered, Publishes
    <2> QED
      BY <1>0, <2>1, <2>2, <2>3 DEF HandedInv, Handed, Publishes
  <1>7. CASE generateAccessToken
    <2>1. PICK t : /\ t = Named(keys.activeKid, keys.privateKey)
                   /\ tokens' = tokens \cup {t}
      BY <1>7 DEF generateAccessToken, Named
    <2>2. /\ UNCHANGED <<public, printed, apps, keys, up, history>> /\ up
          /\ t.kid = keys.activeKid
      BY <1>7, <2>1 DEF generateAccessToken, disk, Named
    <2>3. \A key : Covered(key)' <=> Covered(key)
      BY <2>2 DEF Covered, Lost, Publishes, history
    <2> QED
      BY <1>0, <2>1, <2>2, <2>3 DEF HandedInv, Handed, Publishes, history
  <1>8. CASE \/ \E kid \in Kids : RotateBegin(kid)
             \/ WritePrivate \/ TruncateActive \/ WriteActive \/ Retire \/ CommandDies
             \/ Stop \/ Expire \/ UNCHANGED vars
    <2>1. /\ UNCHANGED <<public, printed, apps, keys, history>> /\ tokens' \subseteq tokens
          /\ up' => up
      BY <1>8 DEF RotateBegin, WritePrivate, TruncateActive, WriteActive, Retire,
                  CommandDies, Stop, Expire, vars, disk
    <2>2. \A key : Covered(key)' <=> Covered(key)
      BY <2>1 DEF Covered, Lost, Publishes, history
    <2> QED
      BY <1>0, <2>1, <2>2, HandedKeep DEF HandedInv, Handed, Publishes, history
  <1> QED
    BY <1>1, <1>2, <1>3, <1>4, <1>5, <1>6, <1>7, <1>8 DEF Next

LEMMA HandedSuffices == HandedInv => AppsVerifyLiveTokens
  BY DEF HandedInv, Handed, TypeOK, Covered, Lost, AppsVerifyLiveTokens

(* The applications can verify every live token that names its key, except *)
(* of keys distrusted or written over, and of keys the service was         *)
(* restarted with before the applications got them (rotate-keys.ts,        *)
(* loadKeySet).                                                            *)
THEOREM ApplicationsKeepUp == Spec => []AppsVerifyLiveTokens
  <1> QED
    BY HandedInit, HandedStep, HandedSuffices, PTL DEF Spec
=============================================================================
