# Verification of the central identity service

TLA+ models of the authentication service in this repository (`src/` below is
its TypeScript source directory), the TLC runs that check them, and theorems
about them checked by TLAPS. `PROJECT.json` lists the same things for tools:
components, runs, mutants, the map from definitions to source lines, findings,
hazards and theorems.

- [1. The system](#1-the-system)
- [2. The modules](#2-the-modules)
- [3. What is checked](#3-what-is-checked)
- [4. What the code does not do as documented](#4-what-the-code-does-not-do-as-documented)
- [5. What is proved](#5-what-is-proved)
- [6. What is not modelled, and the plan](#6-what-is-not-modelled-and-the-plan)

## 1. The system

One Node.js service holds the accounts of several applications. The
applications' backends call it over HTTP with a service secret; users never do.
All state is in MySQL, except the signing keys (files, read once when the
service boots) and the rate limiter's buckets (memory). **No handler opens a
transaction**: each SQL statement is atomic by itself, and every `await` is a
point where any other call may run, in the same process or in another one.

| Component | Source | State | Operations |
|---|---|---|---|
| Sessions | `services/AuthService.ts`, `middleware/authenticate.ts` | none of its own; the position of each call in flight | login, refresh, validateToken, logout, changePassword, forgotPassword, resetPassword, revokeAllSessions, createSsoTicket, redeemSsoTicket, me |
| Store | `repositories/*.ts` | `central_users`, `refresh_tokens`, `revoked_tokens`, `sso_tickets`, `password_reset_tokens`, `email_verification_tokens` | one method per SQL statement |
| Accounts | `services/AuthService.ts` | the address, number and verification of an account; the codes and links mailed | register, updateProfile, verifyEmail, resendVerification, forgotPassword, resetPassword |
| Signing keys | `cli/rotate-keys.ts`, `config/jwt.ts`, `services/TokenService.ts` | the key directory, the key set in memory, the public keys of the applications | rotate, boot, sign, verify, deploy, drop or distrust a key |
| Service credentials | `middleware/serviceAuth.ts`, `repositories/ServiceClientRepository.ts`, `cli/create-client.ts` | `service_clients` | provision, rotate, disable, enable, authenticate a caller, refuse to boot without any |
| Rate limiter | `middleware/rateLimiter.ts` | buckets in memory | consume |
| Identifiers | `utils/phone.ts`, `UserRepository.findAllByPhone`, `loginIdentifier`, `accountKey` | none | normalise, compare, choose the field of a body |
| Migrations | `migrations/run.ts`, `migrations/*.sql` | `schema_migrations` | apply what is not in the ledger |
| User import | `scripts/migrate-users.ts` | `central_users`, `central_user_id` in the applications | merge the users of two applications |
| Login history | `repositories/LoginHistoryRepository.ts` | append-only log | record |

**How they interact.** A login leaves a row in `refresh_tokens` and an access
token signed with the active key. The access token is checked in two ways:
`validateToken` looks at the deny list (`revoked_tokens`), the account's status
and its cutoff (`tokens_valid_from`); the `authenticate` middleware, in front of
the service's own endpoints, and the applications look only at the signature.
Sessions end by revoking the refresh row, by denying an access token, or by
moving the cutoff. Accounts and sessions meet in the account row: a change of
address clears the verification that login may require. Keys and sessions meet
in the access token, which names its key. Migrations, import and service meet in
the schema: the import writes columns as the first file makes them, the service
reads them as the last one leaves them. The limiter and the look-up of an account
must read an identifier alike.

**What is hard.**

- *Check, then act.* Refresh, login, password reset, registration and email
  verification each decide on one statement and write in a later one.
- *One-time tokens.* They are looked at (`peek`), then, after other checks, spent
  (`consume`); between the two they may expire, be superseded, be purged or be
  spent by somebody else.
- *Partial failure.* A handler that fails between two statements keeps what it
  has written. `logout` even answers success.
- *Seconds.* `iat`, the cutoff and every `expires_at` have a resolution of one
  second; comparisons differ in `<` and `<=`.
- *Crashes.* `rotate-keys` writes three files one after the other, and the
  migration runner applies a file and then records it.
- *Memory.* The counters of the rate limiter expire by timers that may be late,
  and die with the process.
- *Reruns.* Migrations and import are commands run by hand, which may die
  halfway, be run again, or be run twice at once. MySQL commits every `ALTER` by
  itself, so a file can be left half applied.
- *Two readings.* A number is normalised in SQL and again in TypeScript; a body
  is searched for an identifier by the limiter and again by the login.
- *Copies.* The running service and the applications hold copies of the keys.

**What makes it correct**, component by component: a session that was ended is
honoured by no later call (Sessions); a one-time token buys one thing once
(Sessions, Accounts); a verified address was proven, a number names one account
(Accounts); a rotation is no forced logout and never leaves a directory the
service cannot boot from (Keys); a dead secret opens nothing, a live one always
does, and a quota binds only those it counts (Service credentials, Rate limiter);
the schema is what the ledger says, a run that ended can be repeated, and the
service finds what its statements name (Migrations); an import loses no
verification and a row keeps its account (Import); a number finds the account that
holds it, and an attempt is counted where it is made (Identifiers).

## 2. The modules

| Module | Models |
|---|---|
| `IdentityStore` | the tables, and each SQL statement of the session handlers as an operator |
| `Sessions` | the session handlers of `AuthService`, extends `IdentityStore` |
| `SingleUse` | abstract: a token can be redeemed until it lapses or is withdrawn, by one call |
| `Accounts` | registration, profile, verification of an address, reset by a mailed link |
| `KeyRotation` | key directory, `rotate-keys`, boot, signing, verifying, deployment |
| `ServiceGate` | what a call passes before its handler: `serviceAuth` and the two quotas; provisioning, boot |
| `Identifiers` | addresses and numbers as people type them: `normalizePhone`, the SQL sieve, the limiter's key, the login's choice |
| `Schema` | the files of `migrations/`, statement by statement, and what the repositories name |
| `Migrations` | the runner: directory, ledger, statements, interruptions, two runners |
| `UserImport` | `migrate-users` beside the runner and the service, extends `Migrations` |
| `MCSessions`, `MCAccounts`, `MCKeyRotation`, `MCServiceGate`, `MCUserImport` | the instances TLC checks; `MCServiceGate` brings in `Identifiers`, `MCUserImport` the real files of `Schema` |
| `SessionsProof` | theorems about `Sessions`: types, denials, locks; the lemmas on calls and rows that the next one rests on |
| `TokensProof` | theorems about `Sessions`: what an ending takes away; one-time tokens, the refinements of `SingleUse` and what follows from them; extends `SessionsProof` |
| `AccountsProof` | theorems about `Accounts`: types and numbers; codes, links and addresses |
| `MigrationsProof` | the invariants of the runner, by itself; `UserImportProof` extends it |
| `KeyRotationProof`, `ServiceGateProof`, `IdentifiersProof`, `UserImportProof` | theorems about the module each is named for |

### Sessions and the store

*Calls.* `req[r]` is one call: its kind, the statement it executes next (`pc`),
its arguments, and its outcome. Arriving, a call executes its first read and
decides; each later action is one `await` of the handler. A call is refused or
answered; `failed` marks one in which a statement threw. A failed call keeps its
`pc`, so that what it had written is known. A crash of the process is the
failure of every call in flight, each at its own statement; nothing else of this
module lives in memory.

*Names.* Every token, hash and jti is drawn at random in the call that inserts
it, so a row is keyed by that call and the call's name stands for the token. A
password is named by the call that set it. `before` (which calls were over when
this one began) is history, used only to state properties.

*Time.* `now` is `NOW()` of the database and `Date.now()` of the service, in
seconds; the two clocks are taken to agree. Times to live are constants.

*Adversity.* Two calls interleave at every await. `MaxFaults` statements may
fail. Purges run whenever there is something to delete. Wrong passwords come if
`Mistypes`. A ban is an `UPDATE` by an operator: no handler writes the status.
A change of address, and its verification, are here single statements on the
account row; `Accounts` has them in full.

*Access tokens* are presented to `validateToken`, `logout`, and, through the
`authenticate` middleware, `changePassword` and `createSsoTicket`; for the last
two only the signature and `exp` are looked at, as in the code.
`revokeAllSessions` is a method that no route calls yet; it is modelled as the
call its comment announces.

*Left out.* `login_history` and `last_login_at` are written and never read.
The address that `resetPassword` compares with the account is in `Accounts`.

### Accounts

The same form: `req[r]`, one action per await. A code is a value of a small set,
because its hash is UNIQUE over *all* rows of `email_verification_tokens`, dead
ones included, so that two calls may draw the same one. `Send` may lose a mail
without an error (`SendFails`), as `EmailService` does. `proven` is history: who
has shown a code that was mailed to which address. Time is reduced to the lapse
of a code at any moment. An address or a number is absent (`None`), and a number
may be cleared (`NoPhone`), since `updateProfile` treats these differently.

Codes and reset links are rows of two tables with the same life, so they share
one variable and one set of actions (`Peek`, `CheckEmail`, `Consume`, `TooLate`);
`purpose` tells which table a row is in. A link is 256 random bits and is named by
the call that drew it. What a reset does to password and sessions is in
`Sessions`, and here it ends when the link is spent; the part that needs
addresses, the comparison in `resetPassword`, is here. `RegisterCreate` is the
`INSERT` together with the `SELECT` that reads the new row back: the mail goes to
the address the call came with, which differs from the one read back only if the new
account has changed its address between the two; that is not modelled.

### KeyRotation

A pem file is written in one step, since a half-written one is read only once
`active.key` names it; `active.key` itself is truncated in one step and filled
in the next. The command may die before each step. The service stops and boots
at any time it can, and keeps the key set it read. `tokens` are the live access
tokens, which expire at any time. `PrintKeys` reads the directory for
`CENTRAL_AUTH_PUBLIC_KEYS`, and an operator deploys the keys as last printed,
before or after the service restarts. The one constant that chooses the world is
`LegacyLayout`: the directory starts with `private.pem` and `public.pem`.

Names are free as in the code: `RotateBegin` asks for no private half of that name,
and retirement deletes the private half, so the name of a retired key can be
taken again. Keys are dropped in two ways. `DropKey` is the documented
procedure after a rotation: the service no longer signs with the key and its tokens
have expired. `Distrust` is the procedure after a compromise, at once and with
live tokens about. Neither touches the private half or the running service.

Three sets are history, and name the keys whose tokens may be refused:
`overwritten`, whose public half a later rotation to the same name has replaced;
`distrusted`; and `hasty`, which the service booted with before the applications
had them, and which they have not been given since.

`Boot` reads `active.key`, the public halves and the private half in one step. They
are three synchronous reads, without an `await`; that a rotation in another process
writes its files between two of them is not modelled.

### ServiceGate

A call is looked up by its secret, counted for its application, and, on routes
that have a limiter, counted for the account it names; then its handler runs.
Each `await` is an action, so secrets may change between any two. Secrets are
numbered as `create-client` draws them; number 0 is `SERVICE_SECRET`, and callers
known by it are counted under the name `Env`, which an application may also be
given. Two limiters stand for the five in use: `login`, which blocks, and
`sendMail`, which does not; `global` is constructed and used by no route. Accounts are
normalised identifiers; how a text becomes one is in `Identifiers`. Bodies that name
no account share the bucket of the address they come from (`keyFor`): such an
address counts as an account like any other, so an element of `Accounts` may be
one.

The counters are modelled as rate-limiter-flexible keeps them: `counted` adds to a
record until its timer has run, which may be late (`Timer`), and starts a new
record if the call falls on the instant the old one expires; the first call in
excess starts the block and later ones do not. `Die` loses the counters and the
calls in flight. `disable` is the operator's `UPDATE` of `DEPLOYMENT.md`, and `enable`
the one that takes it back, with the same secret (`scripts/smoke-policy.js`).
`live`, `life` and `time` of a call are history: whether its secret was in force
when it began or came into force between then and the look-up, which life of the process it reached, and when it was last
counted.

### Identifiers

Pure operators on texts, which are sequences of characters: what the service does
with an address or a number somebody typed. `foundByPhone` is the look-up of
`findAllByPhone`, the `WHERE` clause and then the filter; `accountKey` is the
bucket of the limiter. The references they are compared with are `SameNumber`
(enough digits, the same ones counted from the right) and `SameIdentifier`. The
variable `text` grows by one character at a time (`TextSpec`), so that every text over
the alphabet up to `MaxLength` is looked at, against every number made of digits and
every body over a few values. The alphabet has two digits, a separator the SQL
removes and one it does not, the blank, `@`, and a letter in both cases. `kept`, the
text without some of its characters, is written as a function over its
prefixes, so that it can be reasoned about.

### Schema and Migrations

A schema is a set of tables, of the columns and keys that some file changes later,
and of the values of `login_history.event`. A statement says what it needs, what
must not be there, and what it gives and takes, and is without effect if its
`IF [NOT] EXISTS` says so; those of 007 that touch rows say what they do to them.
The nine files are nine sequences of statements, as they are in `migrations/`;
`Migrations` takes any files. Its last section says what of their content the
theorems need. `MCUserImport` assumes of the nine the five conditions about the schema
(`FilesAssumption`), so that TLC evaluates them whenever `deploy` is run. The sixth,
`CopiedBeforeDropped`, is not among them: `deploy` itself checks what comes of it
(`NoLostVerification`), and must run on a file that has the two statements the
other way round to show that the property notices.

The runner is one execution of the command. It reads the directory, then the
ledger, and goes through the files by name; a file is one query of several
statements, each of which commits by itself (`Apply`), and the ledger row is one
more (`Record`). It may be interrupted between any two; the server is taken to
stop with its client. `Release` replaces the directory by a later one.
`MayFail` and `MaySucceed` overlap where the outcome depends on rows that are not
modelled: a value of an ENUM that some row holds cannot be taken out. `work` and
`overlapped` are history.

### UserImport

The script reads the tables of the two applications one after the other and
handles each row in three steps: look the address up, insert an account if there
is none, link the row (`Look`, `InsertAccount`, `LinkRow`). A failure ends the
application it happens in, not the script (`GiveUp`). It may die at any step, and
be run again. The runners and, once the schema is complete, the service's
`Register` and `ChangeEmail` run beside it. `abandoned` (the accounts that have moved
away from an address) and `brought` (those imported while no runner was at work) are
history.

### Conventions

Definitions keep the names of the source. A definition ending in `Slip` is not
part of the model: it is the definition below it with one plausible mistake, and
replacing the one by the other makes TLC report the property that is there to
notice it (`mutants` in `PROJECT.json`).

## 3. What is checked

All runs are exhaustive on their instance. Deadlock is checked in the session,
account and gate runs: `Quiet` is enabled exactly when no call is in flight, so a
deadlock would be a call that can neither proceed nor answer. In the key runs it
is not, because a directory with a truncated `active.key` really stops the
service, and the pairs are bounded; nor in `deploy`, where commands end and
their number is bounded.

A run of `MCSessions`, `MCAccounts`, `MCServiceGate` or `MCUserImport` explores several *scenarios*: sets of kinds
of call that may meet, each with its own bounds on the clock and on faults. The
state constraint (`SessionScenarios`, `CredentialScenarios`, `AccountScenarios`,
`GateScenarios`, `DeployScenarios`)
keeps a behaviour within one of them; inside a scenario every interleaving is
explored.

| Run | Scenarios | Properties |
|---|---|---|
| `sessions` | `Renewing`: login, refresh, logout, validate over two seconds, with expiry and purges | `LogoutIsFinal`, `SpentTokenBuysNothing`, `DenialsAreForever` |
| | `Failing`: the same calls, one statement fails | the same |
| | `Changing`, `Resetting`: password change and forced sign-out, or reset by mail, against logins, renewals and validations, across a second | `CutSessionsStayOut` |
| | `Banning`, `Verifying`: a ban, or a change of address, against every call that yields something (`me` included) | `BannedGetsNothing`, `UnverifiedGetsNoLogin` |
| `credentials` | `Mailing`: reset tokens requested and redeemed | `NewerMailSupersedes`, `ResetTokensAreSingleUse` |
| | `Signing`: tickets minted and redeemed | `TicketRedeemedOnce`, `TicketsAreSingleUse` |
| | `Mistyping`: right and wrong passwords racing, a lock that expires | `LockMatchesCounter`, `LockOpenedByRaceOnly` |
| `users` | two users, three calls, fair | `RefusedForCause`: nobody is signed out by somebody else's call; `CutTakesHold`: a cut that has begun ends every session open before it |
| `accounts` | `Sharing`: registrations and profiles; no code lapses, no mail arrives | `PhonesAreSharedByRacesOnly` |
| | `Verifying`: changes of address and codes | `VerifiedInSequenceIsProven`, `CodeSpentOnce` |
| | `Resetting`: changes of address and reset links | `ResetMatchesMail`, `CodeSpentOnce` |
| `keys_rotate` | up to three rotations from the old layout, interrupted anywhere, names taken again, restart and deployment in either order, keys dropped or distrusted | `BootsAfterACrash`, `LiveTokensVerify`, `AppsVerifyLiveTokens`, `DistrustedKeysAreRefused` |
| `gate` | `Provisioning`: clients created, rotated, disabled, enabled again, a service that boots and dies, a look-up that fails | `DeadSecretOpensNothing`, `LiveSecretIsNotRefused` |
| | `Throttling`: one application, one account, the clock | `QuotaHolds`, `BlockHolds` |
| | `Crowding`: two applications, two accounts | `OwnQuotaOnly` |
| | texts of up to four characters, before any call | `NumbersAgree`, `CountedWhereItTries` |
| `deploy` | `Rerunning`: three runs of the migrations, one after the other, interrupted anywhere, the last three files in a later release | `LedgerTellsSchema`, `RerunsAreSafe`, `ServiceFindsItsSchema` |
| | `Overlapping`: two runners at once | `LedgerInOrder` |
| | `Together`: an import while a runner is at work, or after it was interrupted | `RerunsAreSafe` |
| | `Apart`: two imports before, between and after two runs, and the service, whose accounts move | `NoLostVerification`, `RelinkedOnlyAfterAMove` |

`sessions`, `accounts`, `keys_rotate`, `gate` and `deploy` also check `TypeOK`. All properties of a
run are checked in all of its scenarios; the table names the ones a scenario is
there for.

**Bounds.** `Requests` (three or four) bounds the calls. The longest story a
property tells needs four: one call opens a session, one ends it, one presents
it, and one races with them. A one-time token needs four as well: login or
request, two redeemers, and a later request. Each call is its own statement
machine, so these few calls already give up to a million states. `MaxTime` is one
or two seconds beyond the shortest time to live, which lets rows expire, be
purged, and be compared at equality; runs about order alone keep the clock still.
`MaxFaults` is one: a fault leaves a call where it is, and two faults are two
such calls, which do not meet except through what they have written. One user is
enough except where the question is about two. `MaxKeys = 3` with three names
gives the first rotation of the old layout and two more, hence a previous key, a
retired name, and a rotation that takes it again; a rotation that dies after its
private half leaves its name taken, and one that dies earlier leaves it free. In `gate`, quotas are one point for an account and three for an
application, windows are two seconds and the block is three, over four calls and
three seconds: enough for a call that is served, one that starts the block, one
refused within it and one after it, and for a window that straddles two records.
Texts of four characters, with keys of three and numbers of at least two digits,
hold everything `normalizePhone` tells apart: a number too short, one that is the
key, one that is longer, a separator anywhere. In `deploy` the files are the real ones, so
nothing is bounded but the executions: three of the runner, two of the script, over
three rows of which two have one address, and three accounts. `FirstRelease` is
six files, the state in which 006 says the older databases were; the third run is the one that
meets what an interrupted one and its repetition have left.

**Fairness.** Only `users` assumes any: weak fairness of each call's next
statement. The event loop resumes every call whose statement has returned, and a
continuing call is enabled until it moves. Arrivals, the clock, faults and purges
are not assumed to happen. `SYMMETRY` is not used in this run.

## 4. What the code does not do as documented

Each of these is a run that TLC ends with a counterexample; `PROJECT.json` quotes
the sentence of the repository.

| Run | What happens |
|---|---|
| `replay` | two renewals of one refresh token that both find it each get a new pair |
| `evict` | a renewal past its look-up when a reset revokes everything leaves a live refresh token |
| `threshold` | the account locks one failure early: MySQL's `SET` runs left to right |
| `accounts_unproven` | a code mailed to the old address verifies the new one |
| `keys_cutover` | the first rotation refuses the tokens of the old layout |

The properties of `keys_rotate` pass, and disagree with four more sentences. The first
sentence is simply not so. The others are true but for the tokens that a property
excuses; with the excuse taken out of it, TLC finds a counterexample.

| Property | The repository says | The code |
|---|---|---|
| `LiveTokensVerify` | `DEPLOYMENT.md:291`: rotating "invalidates every access token in circulation" | leaves the old public halves, so that tokens that name their key go on verifying, as `cli/rotate-keys.ts:7` and `DEPLOYMENT.md:92` say |
| `LiveTokensVerify` (`overwritten`) | `cli/rotate-keys.ts:7`: public keys "are left in place, so tokens already in circulation keep verifying"; the message at line 43 warns of reusing a name | looks for the private half only (line 41): a retired name is accepted in silence, its public half is replaced, and its live tokens are refused |
| `AppsVerifyLiveTokens` (`hasty`) | `DEPLOYMENT.md:92`: "nothing breaks in either order" | a service restarted before the deployment signs with a key no application has |
| `DistrustedKeysAreRefused` (restarts) | `cli/rotate-keys.ts:15`: every token of a deleted key "is refused immediately"; `DEPLOYMENT.md:98`: "at once" | a running service keeps the key it has read, and refuses its tokens only after the next restart |

The models contain other behaviour a reader may not expect, which the properties
are stated around and no run is spent on:

- `logout` swallows a failed `INSERT` into the deny list and answers success
  (`LogoutDenyFails`; `LogoutIsFinal` speaks of logouts that did not fail);
- the `authenticate` middleware looks at the signature only, so that a logged-out
  access token still obtains an SSO ticket (`CreateTicket`);
- a login in flight when the account locks lifts the lock (`ClearFailedLogins`;
  `LockOpenedByRaceOnly` says that nothing else does);
- a call that is past its look at the status when the account is banned is served
  (`BannedGetsNothing` speaks of calls that begin after the ban);
- renewal does not look at the verification of the address (`RefreshAccount`);
- two concurrent requests for a mail leave two redeemable tokens
  (`InvalidateOutstanding`; `NewerMailSupersedes` speaks of one after the other);
- two concurrent registrations share a number (`PhonesAreSharedByRacesOnly`), and
  a code of a dead row drawn again makes the call fail (`InsertCollides`);
- the limiters count in fixed windows, so a window that lies across two records
  sees up to twice the points (`QuotaHolds` says no more), and a restart of the
  service lifts every block (`Die`);
- a client whose look-up finds nothing falls back to the shared secret, so with
  `SERVICE_SECRET` set no disabling of clients closes the service (`Fallback`);
- `originAllowed` is called by nobody: `allowed_origin` restricts no client;
- `resetPassword` compares with the address of the moment: after a change of
  address, a link mailed to the old one works with the new one, although the
  comment speaks of the address it was mailed to (`ResetMatchesMail` allows for the
  change);
- `me` looks at signature and status, and at neither the deny list nor the cutoff
  (`Me`; `BannedGetsNothing` is the property it has);
- a number with fewer than ten digits does not match itself with a country code,
  and one stored with a separator that `CLEAN_PHONE_SQL` does not know, such as
  `/`, is not found at all (`NumbersAgree` leaves these out);
- an address and the number of one account are two buckets, and the routes of
  account recovery read `email` while the limiter prefers `identifier`
  (`CountedWhereItTries` is about logins);
- a file that was interrupted after an `ALTER` fails in every later run, since the
  statement cannot be repeated, and needs an operator; two runners at once may leave
  the same, and so does an account that the import inserts while 007 fills the
  uuids (`RerunsAreSafe` says that nothing else makes a run fail);
- the import names `email_verified`, which 007 drops: after the migrations every
  new address fails and the rest of the application is left (`InsertFails`); the
  tables `providers` and `handymen` have no `central_user_id` in 002, so that
  linking their first row ends the first application (`LinkFails`);
- an import that is repeated after an account has moved links the row to whoever
  holds the address then (`RelinkedOnlyAfterAMove`).

The passing properties are stated around these: for instance
`SpentTokenBuysNothing` speaks of a renewal that begins after the other is over,
and `VerifiedInSequenceIsProven` of changes of address that overlap nothing.

## 5. What is proved

For every value of the constants allowed by the named assumptions (numeric
configuration, distinct model values), checked by TLAPS:

| Theorem | Statement |
|---|---|
| `SessionsProof!TypeCorrect` | `Spec => []TypeOK`, with any number of users, calls, seconds and faults |
| `SessionsProof!DenialsHold` | `Spec => DenialsAreForever` |
| `SessionsProof!CounterAndLock` | `LockoutThreshold >= 1` and `LockoutDuration >= 1` imply `Spec => []LockMatchesCounter` |
| `SessionsProof!LockOpensInARace` | `Spec => []LockOpenedByRaceOnly` |
| `TokensProof!SpentTokensBuyNothing` | `Spec => []SpentTokenBuysNothing` |
| `TokensProof!LogoutsAreFinal` | `Spec => []LogoutIsFinal` |
| `TokensProof!CutsAreFinal` | `Spec => []CutSessionsStayOut` |
| `TokensProof!BansHold` | `Spec => []BannedGetsNothing` |
| `TokensProof!UnverifiedStaysOut` | `Spec => []UnverifiedGetsNoLogin` |
| `TokensProof!RefusalsHaveCauses` | `AccessTtl <= RefreshTtl` implies `Spec => []RefusedForCause` |
| `TokensProof!TicketsOpenOneSession` | `Spec => []TicketRedeemedOnce` |
| `TokensProof!TicketsKeepThePromise` | `SsoTtl > 0` implies `Spec => TicketsAreSingleUse`: tickets implement `SingleUse` |
| `TokensProof!ResetsKeepThePromise` | `ResetTtl > 0` implies `Spec => ResetTokensAreSingleUse`: reset tokens do |
| `TokensProof!TicketsAreTakenOnce` | `SsoTtl > 0` implies `Spec => []TicketPromise!TakenOnce`: what `SingleUse` promises holds of tickets |
| `TokensProof!ResetsAreTakenOnce` | `ResetTtl > 0` implies `Spec => []ResetPromise!TakenOnce` |
| `TokensProof!NewerMailsSupersede` | `Spec => []NewerMailSupersedes` |
| `KeyRotationProof!TypeCorrect` | `Spec => []TypeOK` |
| `KeyRotationProof!RotationSurvivesACrash` | `Spec => []BootsAfterACrash` |
| `KeyRotationProof!RotationKeepsTokens` | `Spec => []LiveTokensVerify`, for any names, rotations and restarts |
| `KeyRotationProof!DistrustIsFinal` | `Spec => DistrustedKeysAreRefused` |
| `KeyRotationProof!ApplicationsKeepUp` | `Spec => []AppsVerifyLiveTokens` |
| `ServiceGateProof!TypeCorrect` | `Spec => []TypeOK` |
| `ServiceGateProof!RotationTakesHold` | `Spec => []DeadSecretOpensNothing`, with any number of applications, secrets and calls |
| `ServiceGateProof!RotationDisturbsNobody` | `Spec => LiveSecretIsNotRefused` |
| `ServiceGateProof!QuotasAreOnesOwn` | `Spec => []OwnQuotaOnly`, for any quotas |
| `ServiceGateProof!BlocksLast` | `Spec => []BlockHolds` |
| `ServiceGateProof!QuotasHold` | `BlocksOutlastWindows` implies `Spec => []QuotaHolds` |
| `UserImportProof!TypeCorrect` | `Spec => []TypeOK`, for any directory of files, runners and rows |
| `UserImportProof!LedgerKeepsOrder` | `Spec => []LedgerInOrder` |
| `UserImportProof!AccountsKeepTheirRows` | `Spec => RelinkedOnlyAfterAMove` |
| `UserImportProof!ImportsStayVerified` | `CopiedBeforeDropped` implies `Spec => []NoLostVerification` |
| `UserImportProof!LedgerDescribesSchema` | `RepeatsChangeNothing` and `UnrepeatablesFail` imply `Spec => []LedgerTellsSchema`, for any files |
| `UserImportProof!ServiceIsServed` | these and `ServiceFitsTheFiles` imply `Spec => []ServiceFindsItsSchema` |
| `UserImportProof!RunsAreRepeatable` | the first two, `FirstRunsSucceed` and `UuidsAreFilledOnce` imply `Spec => []RerunsAreSafe`, with any number of runs |
| `IdentifiersProof!NumbersFindTheirAccounts` | `TextSpec => []NumbersAgree`, for texts of any length over any alphabet |
| `IdentifiersProof!LoginsAreCountedWhereTheyTry` | `TextSpec => []CountedWhereItTries` |
| `AccountsProof!TypeCorrect` | `Spec => []TypeOK`, with any number of calls, accounts, addresses, numbers and codes |
| `AccountsProof!PhonesRaceOnly` | `Spec => []PhonesAreSharedByRacesOnly` |
| `AccountsProof!CodesAreSpentOnce` | `Spec => []CodeSpentOnce` |
| `AccountsProof!ResetsMatchMails` | `Spec => []ResetMatchesMail` |
| `AccountsProof!VerifiedWasProven` | `Spec => []VerifiedInSequenceIsProven` |

Every inductive invariant below was checked by TLC on the run of its module before
it was proved. The theorems about texts need none beyond the type of `text`.

**Hypotheses.** A theorem that needs more of the constants than the named
assumptions says so:

| Hypothesis | What in the repository makes it true |
|---|---|
| `LockoutThreshold >= 1`, `LockoutDuration >= 1` | `config/index.ts`: 10 failures and 900 seconds unless set otherwise; the model writes 0 for NULL, so a lock set at second 0 for no time could not be told from none |
| `AccessTtl <= RefreshTtl` | 900 and 604800 seconds; the property compares with the access token's expiry, and a longer one would be refused for a renewal that simply lapsed |
| `SsoTtl > 0`, `ResetTtl > 0` | 60 and 3600 seconds; a token that lapses at birth was never redeemable, which `SingleUse` does not describe |
| `BlocksOutlastWindows` | `middleware/rateLimiter.ts`: a login blocks for 300 seconds over windows of 60, mails do not block; a shorter block would end in the middle of a window |
| `CopiedBeforeDropped` | `007_schema_to_spec.sql` copies `email_verified` in the statement before the one that drops it, and no other file drops it |
| `RepeatsChangeNothing` | before its first `ALTER` that adds, drops or renames something, a file consists of `CREATE TABLE IF NOT EXISTS`, `DROP … IF EXISTS` and lists of ENUM values, and no two of them touch the same thing |
| `UnrepeatablesFail` | to add a column or a key that is there, and to drop or rename a column that is gone, are errors in MySQL, and no statement of the same file undoes the first execution |
| `FirstRunsSucceed` | the nine files, one after the other, apply to an empty server |
| `UuidsAreFilledOnce` | `007_schema_to_spec.sql` adds the column `uuid` before it fills it, and requires it afterwards |
| `ServiceFitsTheFiles` | every table, column and event that the repositories name is made by some file and removed by no later one |
| `IdentifierAssumption` (of the module) | a separator in `CLEAN_PHONE_SQL` is no digit, `trim` and `toLowerCase` change neither digits nor `@`, and the six digits `utils/phone.ts` asks for are no more than the ten of the key |

TLC evaluates the last five hypotheses about files on the nine real ones in every run of
`deploy`. That `CopiedBeforeDropped` is true of them is seen by reading 007, the only
file that drops the flag (lines 27 and 30).

*Calls.* The proofs about sessions share one description of a step. `CallStep`
says that a step begins one call, follows one edge of the graph of its handler
(`Path`, with the edge's condition and effect), fails it, or lets time or a purge
pass. `CallInv` adds to `TypeOK`, which is not inductive alone (`LogoutDeny`
inserts a row for the access token presented, which may be absent), that what was
over when a call began is over for good (`BeforeOver`). `RowInv` says that the row
of a token belongs to the call that was answered with it, and that no time is noted
before it comes; `FlowInv`, that a call acts for the user of the session, mail or
ticket it presents.

*Denials and locks.* `DenialsAreForever` follows from `RowInv` edge by edge; the
cutoff needs `TimesPast`, because `setCutoff` writes the present second plus one,
which is no less than any earlier cutoff. The lock is a matter of two columns that one
`UPDATE` writes in order: it adds one to a counter it has just raised, so the
lock comes one failure early, and `LockMatchesCounter` is inductive because every
failure from there on sets the lock again. A login past the check had
found no lock, so the failure that set the one it is about to lift was no earlier call.

*Endings.* `RevocationInv` has the same two halves for every ending. It leaves a mark
that no later step removes: a revoked row (`EndedAreGone`), a row of the deny
list or an expired token (`DeniedUntilExpiry`), a cutoff behind the token's second
(`CutoffSet`), a status, an address unverified. And a call that began after the
ending was over cannot be past the statement that reads the mark
(`RenewsNothing`, `DeniedToLater`, `CutToLater`, `NotBannedBefore`,
`VerifiedBefore`). The purge is the delicate case of the first half: it removes a row of the deny
list only when the token has expired, and the later call compares with the clock
at the answer. `RefusedForCause` reads the marks the other way: each is the doing
of a call that has begun (`MarksHaveCauses`).

*Tickets and reset tokens.* `TicketRedeemedOnce` says nothing of the rows, so it is
strengthened to `TicketInv`: a row names the target its ticket was minted for
(`RowTargets`); a call past `peek` has come to that target (`AdmittedAtTarget`); the
row of a redeemed token is used, or gone (`RedeemedAreSpent`); there is one redeemer. Nothing that is
spent is redeemable again, so the guard in the `WHERE` clause of `consume`
contradicts any earlier redeemer. The refinements of `SingleUse` then go edge by edge:
minting and mailing map to an issue, `consume` to a redemption, expiry, purge and
a newer mail to a withdrawal, everything else to a stutter. `SingleUse` by itself
lets no token be taken twice, nor while it is still open, once it is known that
only what was offered is open; through the refinement this holds of the store
(`TicketsAreTakenOnce`, `ResetsAreTakenOnce`). For a newer mail, `MailInv`
says that from its `invalidate` on the earlier token is dead (`SupersededAreDead`),
so that a reset which begins after it is refused (`RefusedAfterNewer`).

*Keys.* `BootInv` says what the command has written at each of its steps
(`Written`), that `active.key` names a complete pair (`DiskComplete`), and that
the service trusts its own key (`SelfTrust`). For `LiveTokensVerify`, `TokenInv`
adds that the keys in use stay published in the directory (`StillPublished`) and,
for live tokens, in the running service (`Trusted`), and that before the first
rotation no token names a key (`NoNamesYet`): a first rotation that is cut off may
leave a second one the same name. Both allow for keys that are `Lost`,
that is, written over or distrusted; nothing else takes a public half away from a
live token. `DropKey` waits for the tokens, and the key the service signs with
cannot be dropped.

*Distrust.* `DistrustedKeysAreRefused` would fail if a distrusted pair came back under
its name. `Gone` says that no copy holds one (the directory, what was printed, and
the applications), and that a pair under way is newer than every published
one, hence none of those distrusted. So what a restart reads is clean.

*Copies of the keys.* `AppsVerifyLiveTokens` compares the applications with the
tokens, and between them lie the directory and what was printed. `Handed` orders the
copies: what the applications know was printed, and what was printed is in the
directory, unless it has been written over there. And the key the service signs
with, like that of every live token, is `Covered`: the applications have it, or one
of the three excuses holds. So a deployment takes a key away from the applications
only if it has been written over.

*Gate.* `DeadSecretOpensNothing` is not inductive: what a look-up finds says nothing of the
time the call began. `GateInv` adds that no secret, stored or presented, is newer
than the last one drawn (`SecretsDrawn`), hence one that is out of force is never
drawn again; and that a call still waiting for its look-up is live if its secret is in
force now (`Judged`). The steps that change the table share one lemma
(`TableStep`): they bring into force only a secret that has not been drawn before,
except `enable`, which marks the calls that wait with the secret it revives.
`LiveSecretIsNotRefused` is an action property: a refusal is the step `Fallback`,
which has just found the secret in no active row and unlike the shared one.

*Quotas.* A counter stands for at least as many calls as it says (`ClientCounts`,
`AccountCount`), all of this life of the process and of this key, so whoever is refused
finds the points used by calls of its own: `QuotaInv`. It counts sets of
calls, and needs that those begun are finitely many, but no bound on their number. A
counter that a late timer leaves behind only counts for more calls than it says.

*Blocks.* `Blocked` says that while a counter is in excess some refusal has begun
its block, and that behind every refusal lies such a beginning, until the block has
run out. A call is let through only on a counter that is new, hence after the old
one has run out, or not in excess, hence when no refusal waits for the end of a block.

*Windows.* A window meets at most two counters. `Windowed` keeps, for the counter of
a key, the second `s` at which it began, and the calls let through before it whose
window reaches beyond `s`: they are at most the points, and so are those let through
on it. A counter that runs out leaves nothing that reaches beyond that moment
unless it was counted on it. In excess, the expiry is moved to the end of the block, which
is where `BlocksOutlastWindows` is needed: a window begun before the block must not
reach beyond it.

*Ledger.* The files are arbitrary sequences of statements. For their order nothing is
assumed of their content beyond `DirectoryAssumption`. `LedgerInOrder` says nothing of the
runners; `FilesInv` adds that the ledger a runner has read is part of the ledger of
now, and that every file before the one it is in is in the ledger or left out
(`Advanced`). Only `Record` extends the ledger, by the file a runner is in.

*Schema and ledger.* Between two runs the schema is what the ledger says, but during a
run, and after one that was cut off, it is not, and a run that repeats a file
executes statements on a schema they have changed already. Three facts
hold until two runners overlap (`FreshInv`). One runner is at work (`Alone`); it
knows of all files before it whether they are in the ledger (`UpToDate`); and there is
one file that is next, of which the first `m` statements have been executed, in
one of two conditions. In `Frontier` the schema is what the recorded files and these `m`
statements make, and as long as all of them are repeatable each is `Absorbed`: it
would have no effect, and is not refused. The runner is at the next
statement, or among those it may repeat. In `Stuck` it is before a
statement that cannot be repeated and has been executed, and every such statement is `Locked`: what
makes it fail cannot be taken away within its file. So the file is never recorded
with a statement executed twice to effect. `WorkInv` says that a runner
inside a file has itself executed all that comes before, which `work` records.

*Reruns.* A run that fails does so at statement `m + 1` of the file that is next, or
before. Had nobody else executed a statement of it that cannot be repeated,
the schema would be that of a first run, of which `FirstRunsSucceed` says that
nothing is refused; what remains are accounts without a uuid. `Excused` says that
one of the two causes is there whenever a run has failed, and it stays: the marks of `work`
do, and an account has no uuid until another run fills it, which by
`UuidsAreFilledOnce` has first executed a statement that cannot be repeated.

*Links.* `RelinkedOnlyAfterAMove` is an action property; it holds since at every
moment a linked account either holds the address of its row or has given it up
(`Belongs`), and so has the account the script is about to link (`Chosen`). The step that
matters is `LinkRow`: were the row linked to another account that has not moved,
two accounts would hold one address, which `Insert` and `ChangeEmail` exclude
(`OneHolder`, the UNIQUE key). Accounts are numbered without gaps (`Numbered`), so
a new one is new.

*The old flag.* `NoLostVerification` says nothing of how far a runner has come.
`FlagInv` adds that behind a runner that has executed a statement that copies the flag,
in the file it is in, every account that counts has the copy (`Copied`); an account that is imported
while anybody is at work does not count, and one that moves counts no longer. A
runner that is past a file's first statement is inside that file (`Begun`), so what it has
copied is never taken for the work of another file. Two runners need no order
between them: a copy is never taken back.

*Accounts.* All five invariants of the run are theorems. `TypeInv` adds that a
call speaks of an account there is (`UsersKnown`), that a call that mails has an
address, and that a row of codes or of mails belongs to a call that had reached
its insertion (`RowsBelong`). All other arguments use one lemma: a call that has
begun is `Steady`, that is, it keeps its kind, number, code and history, and once
over stays so; with `BeforeOver`, what preceded a call is over for good.

*Numbers.* `PhonesAreSharedByRacesOnly` names the calls that overlapped, which the
accounts do not. `Stored` finds them: the number of an account was stored by a
call that was not over when any other call that has checked the same number
began. A call that has just checked found nobody, so no account holds the number
then, and what is stored later is stored by a call that overlaps it.

*Codes.* Codes of rows are distinct (`Unique`, the UNIQUE hash). A call past its
look-up holds the code of a row of its own account and purpose (`Holding`), and
one past `consume` a used one, so two of them cannot hold one (`SpentOnce`): the
second would have found the row unused. For the second half, every code mailed
before an answered mail began is used (`Superseded`), since that mail marks
the earlier ones first; what is used no later call can look up (`NotSuperseded`).

*Resets.* A reset is compared with the row, and so was the mail; the property
compares them with each other. `Addresses` says that the address of either is the
account's, or that the account has moved, which it remembers in its calls.

*Verified addresses.* The property excuses an account whose change of address
failed or overlapped a call (`Troubled`), for ever. Of any other account
`GoodInv` says that its mark is proven, and what makes it so: mails under way go to
the address of the row, unchanged addresses are the row's, a call about to verify
has seen the mailbox of this address, and unused codes speak for it unless the
change is still before its `invalidate`. That last exception is why the change
must be alone: nobody redeems a code between the two statements.

*Texts.* `NumbersAgree` compares a column cleaned in SQL with a number
cleaned in TypeScript. `kept` of a text depends only on which of its characters are
kept (`KeptAlike`), and cleaning away separators leaves the digits if the column holds nothing else;
two texts agree in their last `n` characters exactly if they agree at every place
counted from the right (`RightsAgree`), which is how `SameNumber` compares. For
`CountedWhereItTries`, `trim` and `toLowerCase` keep the digits, the `@` and
their order (`TrimKeeps`, `LowerKeeps`), so the limiter and the login read the same
kind of identifier from a body; and the bucket of a number is never that of a text,
since it has too many digits to be no number (`NumberIsNoText`), for
which the key must not be shorter than `MIN_DIGITS`.

*Statements and characters.* What a function that is recursive over them
computes is proved by `NatSetInduction`: a set that holds 0, and with every number the
next one, holds all natural numbers. It is derived from the pigeonhole principle of
`FiniteSetTheorems`: were `x` missing, `i - 1` would map the missing numbers up to `x`
into themselves, one to one, hence onto, and nothing maps to `x`. It is stated
in `MigrationsProof` and in `IdentifiersProof`, which share no module.

Only model-checked: `CutTakesHold`, which rests on fairness and so is out of the
prover's reach. That the nine files are what the hypotheses say is evaluated
by TLC, or read off 007, and not proved.

## 6. What is not modelled, and the plan

Not modelled because there is nothing to check: mail templates and transport
(only that a mail may be lost), logging, the shape checks and answers of the
controllers, wiring, the rows of the login history, the smoke scripts, the
Laravel packages under `migrations/laravel` and the documents.

Left out of modelled parts:

- the profile columns other than address, number and verification, and
  `last_login_at`, `last_used_at`: they are written and decide nothing;
- `originAllowed`, `invalidateAllForUser`, `findByUuid`: nothing calls them. Nor does
  anything call the purges; those of `Sessions` stand for a scheduler that would, and
  that of verification codes (`AuthTokenRepository.ts:126`) is left out;
- case and accents: MySQL compares addresses by the collation of the column, the
  service by `toLowerCase`, and the two differ on accented letters;
- the numbers of imported accounts, which nothing compares with those there are;
- a `DB_NAME` other than `central_auth`: the files say `USE central_auth`, so the
  ledger row would be looked for in the wrong database.

Every invariant and action property of the passing runs is a theorem; only
`CutTakesHold` is not. What could be done next:

- `CutTakesHold`, of which the safety half, that a cut which is over ends the sessions
  before it, is `CutSessionsStayOut`; that every call comes to its end is missing, which
  needs the fairness of each statement and so another prover;
- case and accents of addresses, with a collation as a constant relation of
  `Accounts`, and the theorems under the hypothesis that `toLowerCase` is finer;
- the runner with two overlapping executions: `FreshInv` ends where they
  overlap, and only `LedgerInOrder` is known there.
