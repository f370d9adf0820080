# TLA+ models of AI Career OS: sessions, accounts, credentials, identities, roles, gateway

The repository is a TypeScript monorepo with two runnable services and a set of
shared packages. This directory holds TLA+ modules for the parts of it that keep
shared state, TLC configurations that check them on small instances, and proofs
of what should not depend on the size of the instance.

* [Inventory](#inventory): the components, their state, what is hard about them
* [Modules and how they map to the code](#modules-and-how-they-map-to-the-code)
* [Runs](#runs): what each checks and shows, its bounds
* [Fairness](#fairness)
* [Proofs](#proofs)
* [Where the code and its comments disagree](#where-the-code-and-its-comments-disagree)
* [Not modelled](#not-modelled)
* [Plan](#plan)

Commands, from this directory:

    tlc -workers 2 -config SessionTokens.cfg MCSessionTokens.tla
    tlapm SessionTokensProofs.tla

`PROJECT.json` lists components, runs, the source lines each definition stands
for, hazards and theorems. Definitions marked `MUTANT` are plausible bugs: putting
one in the place of the definition after it makes the property it belongs to fail.

## Inventory

Paths are relative to `src/`. "Auth" is `apps/auth-service/src`, "gateway" is
`apps/gateway/src`.

### What runs together

Clients talk to the gateway, which checks access tokens and content and proxies
to downstream services; the auth service is the only one whose code is here.
Several instances of each may run. Auth instances share PostgreSQL (through
Drizzle) and Redis. **No handler opens a database transaction and no script or
`MULTI` is used in Redis**, so one awaited statement is the unit of atomicity: any
other request, of this or another instance, may run between two statements, and a
request that throws or whose instance dies leaves the earlier statements done.
JavaScript between two awaits is atomic within one process.

| Component | State | Operations | What is hard |
|---|---|---|---|
| Sessions and refresh tokens (Auth `services/auth.service.ts`, `session.service.ts`) | tables `sessions`, `refresh_tokens` | login, MFA and OAuth login, restore, refresh, logout, logoutAll, change password, delete account, revoke one | count-then-insert of the session limit; rotation against replay, revocation and another refresh of the same token; death between two statements |
| Accounts (Auth `auth.service.ts`, `repositories/user.repository.ts`) | row of `users`; Redis `login:attempts`, `login:lockout` | login with and without a second factor, verify e-mail, reset, delete, restore, purge | a status field shared by verification, lockout and deletion, written back from an earlier read; a lock kept in two stores |
| One-time codes (Auth `services/otp.service.ts`) | five Redis keys, table `otp_codes` | generate, verify, invalidate | check-then-increment limits; INCR and EXPIRE as two calls; a code that lives in two stores |
| Passwords (Auth `services/password-reset.service.ts`, `auth.service.ts`) | `credentials`, `password_reset_tokens`, `password_history`, two Redis keys | forgot, reset, change | single use by find-then-mark; limits set after the mail; a history written before the password |
| Second factor (Auth `services/mfa.service.ts`, `repositories/mfa.repository.ts`) | `mfa_settings`, `recovery_codes`, Redis temporary tokens and setup secret | login with a code, enable, disable, rotate codes | get-then-delete tokens; find-then-mark codes; settings written back from a read; delete-then-insert of codes |
| Registration and OAuth (Auth `auth.service.ts`, `services/oauth.service.ts`) | `users`, `oauth_accounts`, `connected_accounts`, Redis flow state | register, initiate, callback, unlink | get-then-delete of a state; two tables written one after the other; a count before a delete |
| Roles (Auth `services/rbac.service.ts`) | role tables, Redis cache | seed, assign, revoke, read | cache filled with what was read before a revocation; seeding that dies half-way counts as done |
| Trusted devices, data export, audit, e-mail (Auth) | one table each, a Redis cooldown | find-then-insert, check-first-set-last | small races |
| Circuit breaker and proxy (gateway `proxy/reverse-proxy.ts`) | one entry per service, in memory | check, success, failure, retries | late answers of requests admitted earlier; a probe that is not alone; retries |
| Gateway pipeline (gateway `app.ts`, `routes/`, `middlewares/`) | none of its own | authenticate, validate, rate-limit, proxy | a write that is repeated although its first attempt was served; access tokens that outlive their session |
| Event bus (`packages/events`) | Redis publish/subscribe | publish, subscribe, handle | at most once, handler errors swallowed |
| Connections, config, logger, errors, utils, types, validation (`packages/*`) | connections | – | driver I/O |

### What makes each correct

* **Sessions.** A chain of refresh tokens belongs to one sign-in of one user and
  never outlives it; nothing that ended comes back; a token that was rotated out or
  whose session was revoked mints nothing; bulk revocations are complete when they
  answer; the session limit is exceeded only by sign-ins that overlap.
* **Accounts.** Every lock ends; a lock in force is lifted only by the steps that
  may lift it; "locked" always comes with an end; a verified account stays verified
  unless a stale copy overwrites it; after a deletion no session remains but those
  of logins that overlapped it or left a temporary token; nothing is purged before its
  time.
* **One-time codes.** A code is used once; it is not lost before its tries are used
  up; the hourly limit holds up to the number of overlapping requests; a
  suspension ends.
* **Passwords.** A token that was used or superseded sets no password; a password
  that comes into force was not one of the last five; the mails of a day are bounded.
* **Second factor.** A spent code or token grants nothing; enabling one factor
  leaves the other alone; whoever must present a TOTP has recovery codes.
* **Identities.** Addresses, names and identities are unique; a state serves once;
  the two link tables agree; unlinking leaves a way to sign in.
* **Roles.** A cached list is stale only because its read overlapped a change, or a
  call died before clearing it, or a role gained a permission; and then for one TTL
  at most. Instances that start together leave the default matrix complete.
* **Circuit breaker.** Status and count agree in every interleaving; the circuit
  recovers with the service.
* **Gateway and service together.** A session is ended as a replay only for a cause;
  an access token opens nothing longer than its own life after its session ended.

## Modules and how they map to the code

| Module | Role |
|---|---|
| `SessionTokens`, `MCSessionTokens` | the statements of all requests on `sessions` and `refresh_tokens` |
| `SessionLedger` | abstract specification: what the session subsystem promises |
| `SessionTokensProofs` | invariants and theorems; `SessionTokens` implements `SessionLedger` |
| `Accounts`, `AccountsProofs` | one `users` row, its two Redis keys and the temporary login tokens |
| `RedisKeys` | what SET, INCR, EXPIRE do to one key, for `Otp` and `Passwords` |
| `Otp`, `MCOtp`, `OtpProofs` | one-time codes of one user and purpose |
| `Passwords`, `MCPasswords`, `PasswordsProofs` | the password of one account, its reset tokens and its history |
| `SecondFactor`, `MCSecondFactor`, `SecondFactorProofs` | the second factor of one account |
| `Identities`, `MCIdentities`, `IdentitiesProofs` | registration, OAuth flows and links |
| `Roles`, `MCRoles`, `RolesProofs` | role tables, their seeding, and the cached lists |
| `CircuitBreaker` | the breaker of one service and the requests proxied to it |
| `Gateway`, `MCGateway`, `GatewayProofs` | a client, the gateway and the service: extends `CircuitBreaker` with the calls it carries, and implements it |

All modules of the auth service are written alike: `req[p]` is the local state of
the request in slot `p`; `req[p].pc` names the statement it executes next; an action
is one awaited statement with the synchronous code after it up to the next one.
`Begin...` actions are arrivals of requests, `Abort(p)` is a statement that throws or
an instance that dies. Variables and fields that only the properties read are
commented as history where they are declared. `Mixes` names the sets of operations
clients use: one is chosen in `Init`, which keeps the instances small; each mix combines
operations that meet on the same rows or keys.

How the modules fit: `Identities` ends where an account exists, `Accounts` where a
login has passed its checks, `SecondFactor` where the second factor was accepted, and
each of these goes on in `SessionTokens` as one of its sign-ins. `Passwords` goes on
in `SessionTokens` (the revocations) and `Accounts` (the lock that a reset lifts).
`Gateway` has one session, reduced to what `SessionTokens` promises of it, and puts
the real retry loop in front of it.

**SessionTokens.** `sessions` and `tokens` are the two tables; ids of sessions and
token hashes are numbers in the order of creation. `login`, `mfaVerify`,
`handleCallback` and `restoreAccount` meet in `createSession` followed by
`createRefreshToken`; the model has `signIn` for the first three (what comes before,
up to the decision to create a session, is in the other modules) and `restore` apart
because it stores no token row. Refresh is `FindToken` (lookup, replay, expiry),
`FindUser`, `FindSession`, `MarkUsed`, `InsertChild`, `UpdateHash`, `AnswerRefresh`,
with `ReplayRevoke`/`RevokeFamily` and `ExpireRevoke` as its error paths.
`RevokeFamily` revokes what the code's query revokes: the token and its direct
children. `authenticate` in front of the protected routes is the guard `SignedIn`.
`updateLastActivity`, audit rows and reads of roles change nothing the properties
see. `restoreAccount` after the grace period purges the user (`PurgeUser`): the rows that
the cascade takes away stay in the model as closed sessions and as tokens that no
request finds (`Stored`), and the foreign keys refuse what was about to be inserted
(`Refused`). Status "suspended" is written by no code in the repository and left out.
Two pieces of history are kept only for properties: `mark` (the youngest session
when the request looked) and `dead` (the presented token had ended when the refresh
arrived).

**SessionLedger** has no requests, clock or SQL: sessions are opened for a user and
closed for good, tokens are stored in the chain of one session and spent for good.
`Ledger` in `SessionTokens` is the refinement mapping: a token is spent when it is
used or revoked, a session is open when it is active.

**Accounts.** One row. Durations count down in ticks, so the row's `lockUntil`, the
key `login:lockout` and `deletedAt` run out independently, each at its own time. Login
is split at every statement; `incrementFailedAttempts` and `clearFailedAttempts` are
a read and a write each and carry the copy they read. The password is right or wrong
by choice. Of the key `login:attempts` only its expiry is kept (absent, expires, never):
nobody reads its count. With the second factor on (`MfaFind`), a login stores a
temporary token in `temps` and ends; `mfaVerify` (`MfaGet` to `MfaUser`) trades it for a
session later, for which it asks for neither the deletion nor the status nor the lock, and
clears no counter; what the code must be is in `SecondFactor`. A purge deletes the
credentials (`PurgeCred`), then the row (`Purge`). `live` holds the kinds of active sessions, `raced` for one
granted on a row that a deletion or restoration changed before the insert (with a second
factor, the row the password step read); `severed` says a deletion completed.

**RedisKeys, Otp.** A key is a value and whether it is absent, expires or never expires.
Time is abstract: a key or row with an expiry may reach it at any moment and in any
order. That includes Redis evicting keys or restarting empty while PostgreSQL keeps
the backup row, which is the case `verifyOtp` has its fallback for. A code is a
number, 0 is a wrong one; the hash of the key is not modelled. History: `mailed`,
`wrong`, `spent`, `overlapped`.

**Passwords.** `generateResetToken`, `resetPassword` and `changePassword`, statement by
statement, over `credentials`, `password_history`, `password_reset_tokens` and the keys
`pwd:reset:cooldown` and `pwd:reset:daily`. A hash stands for its password, as every
comparison in the code is an Argon2 verification of a plain one. The policy is the
order of its checks over a profile of each password (length, common, character
classes, contains the name or address). `past` is the true succession of passwords; `doubt`
counts how many changes it takes until the stored history agrees with it again; `dead`
are tokens that a completed reset or a newer mail ended.

**SecondFactor.** `mfa_settings` is one row that `upsertSettings` reads and writes back
(`FindRow`, `WriteRow`); recovery codes are deleted and inserted anew (`DelCodes`,
`InsertCodes`). A batch of ten codes is represented by one of them, as each is looked
up and marked on its own. A TOTP is right for its secret or wrong, and may be presented
again: `Totp.verifyToken` remembers nothing. `verifyMfaToken` is one chain of actions
(`ReadSettings`, `TryOtp`, `FindCodes`, `MarkCode`) used by the login, by disabling and by
rotation, as in the code. An e-mailed code is outstanding or not; the details are in `Otp`.

**Identities.** `register`, `initiateFlow`, `handleCallback` and `unlinkProvider` over
`users`, `oauth_accounts` and `connected_accounts`, with the unique indexes of
`schema.ts` as guards. What a provider discloses of a person (external) is chosen anew at
each callback, so addresses may change and be hidden. A callback finds its account by
the address alone. The profile of a test code (`Mocks`) is made up in the service, for any
provider; the ids of one provider's mocks share their first ten characters, hence the user
name. `status` and `deleted` (`deletedAt`) are apart: `updateUser` in the callback sets the
first only. `PurgeCred` and `Purge` are the two statements of `hardDeleteUser`. `FindLink`, `InsertOauth`, `InsertConnected` write the link. `torn` are
links of which one of the two writes was lost or crossed.

**Roles.** `svc[s]` is the start-up of an instance: `FindAllRoles`, then one statement
per row (`CreatePermission`, `CreateRole`, `LinkPermission`); a refused duplicate ends
it, as the `catch` in `buildApp` does (`SeedFails` is any other failed statement, `Die`
the death of the process). Permissions are created in the order of the matrix, which is
what makes the unique index a lock: of instances that start together only one gets past
its first permission. `req[r]` is a call: a change writes `user_roles`, then
deletes two keys; a read is `getUserRoles` followed by `getUserPermissions`, as every
issue of an access token calls them. `Register` stands for `register` and for the first
OAuth sign-in, which insert the user and then assign a role; no route calls
`revokeRoleFromUser` yet, it is modelled as the service offers it. Rows of `roles` and
`permissions` never change, so the last SELECT of each lookup is part of the one before.
The ghost `doubt` of a list says that something overlapped its read, that a call
died before clearing it, or that a permission was linked since; `cut` that a seeding was
cut short. Not modelled: the cascade that removes `user_roles` with a purged user (its
id is never used again).

**CircuitBreaker.** `checkCircuit`, `recordSuccess` and `recordFailure` are
synchronous and run atomically inside one process; requests interleave between
sending and the answer. `cooling` counts down to the moment the cooldown is over.
`up` is the downstream service (external): an attempt succeeds only if the service
was up at some time while it was in flight and fails only if it was down at some
time. A restart of the gateway forgets the breaker.

**Gateway.** Extends `CircuitBreaker`: the calls of one client ride on the requests of
that module. Each action conjoins one of the breaker's with what happens to the call:
`AdmitCall` has `Admit` in it, `CallAnswered` `OnResponse`, `AttemptFails`
`OnRetryableError`, `CallFails` `OnFinalError`, `RetryCall` `Retry`, and likewise
`RestartGateway`, `ClocksTick` and `ServiceFlips`; the others leave the breaker alone.
A call passes `Authenticates`; the checks of its content that follow refuse some calls
of every route and change nothing, so they are left to the client. An attempt that reaches the service becomes a `job` there, which
may go on after the gateway gave it up. A refresh is three steps of the service (the
checks, `MarkUsed`, `Mint`), and a statement of it may throw before any of them (`Throw`):
the error is a response to the gateway, and the client keeps its cookie. Logout, logoutAll and a protected read are one each. The
client keeps the cookie it was last given, as a browser does.

## Runs

| Run | Module, cfg | Checks | Bounds |
|---|---|---|---|
| `sessions` | `MCSessionTokens`, `SessionTokens.cfg` | `TypeOK`, `Lineage`, `EndedMintsNothing`, `ImplementsLedger` | 1 user, 2 requests, 3 sessions, 3 tokens, limit 1, one expiry |
| `session_owners` | `MCSessionTokens`, `SessionOwners.cfg` | `RevocationComplete`, `OvershootNeedsOverlap` | 2 users, 2 requests, 3 sessions, 3 tokens |
| `accounts` | `Accounts`, `Accounts.cfg` | `TypeOK`, `NoOrphanLock`, `NoSessionAfterDelete`, `VerificationKept`, `NoBlindUnlock`, `PurgeOnlyExpired`, `LockoutEnds` | 2 requests, four mixes of operations (lockout with reset, lockout with deletion, restoration, second factor), locks at 2 and 3 failures for 1 and 2 ticks; a deletion is due for the purge with the first tick |
| `otp_codes` | `MCOtp`, `Otp.cfg` | `TypeOK`, `ReuseNeedsOverlap`, `NoEarlyInvalidation` | 2 requests, 2 codes, 2 tries; the code and the cooldown expire |
| `otp_limits` | `Otp`, `OtpLimits.cfg` | `HourlyOvershoot`, `SuspensionEnds` | 2 generating requests, 3 codes, limit 1, one death, every key expires |
| `passwords` | `MCPasswords`, `Passwords.cfg` | `TypeOK`, `EndedTokenSetsNothing`, `MailsBounded`, `NoRecentReuse` | 2 requests, 3 passwords and a weak one, history of 2, daily limit 1, up to 4 tokens, one death, four mixes |
| `second_factor` | `MCSecondFactor`, `SecondFactor.cfg` | `TypeOK`, `SpentGrantsNothing`, `EnabledHasCodes`, `SettingsKept` | 2 requests, 1 secret, 2 batches, 1 temporary token, one death, four mixes |
| `identities` | `MCIdentities`, `Identities.cfg` | `TypeOK`, `StateServesOnce`, `LinksAgree`, `UnlinkLeavesAWayIn` | 2 requests, 3 identities at 2 providers, one of them a test code, 2 addresses, 2 accounts, four mixes: all operations with one flow and no death, three pairs of them with 2 flows and a death |
| `roles` | `MCRoles`, `Roles.cfg` | `TypeOK`, `CacheCoherent`, `SeedComplete`, `CacheSettles` | 1 user, 2 instances, 2 calls, 2 roles of 1 permission, 2 changes, one failure |
| `breaker` | `CircuitBreaker`, `CircuitBreaker.cfg` | `TypeOK`, `StatusMatchesCount`, `Recovers` | 3 requests, threshold 3, 3 attempts, cooldown 1 |
| `gateway` | `MCGateway`, `Gateway.cfg` | `GatewayTypeOK`, `ReplayHasCause`, `AccessEnds` | 2 calls, 2 attempts each, threshold 1, cooldown 0, 3 tokens of life 1, 2 attempts at work in the service, four mixes |
| `unverified_login` | `Accounts`, `AccountUnverified.cfg` | `UnverifiedKeptOut`, violated | see below |

Why the bounds are enough for the questions asked. The races are between two
requests: one that reads and later writes, and one that writes in between; three slots
are used where a third party matters (the probe, a late failure and a late success of
the breaker). Three sessions and three tokens allow an eviction, a rotation and a fork
of one chain; two batches a replacement and two saves that overlap; two flows a second
sign-in of one person or a first one of another. Limits of 1 or 2 stand for 5 and 10:
what matters is below, at and above. A cooldown of 0 in `gateway` leaves its length to
the interleaving; the breaker's own run has ticks. Counters are bounded in the guards
(`Room`, `MaxSessions`, `MaxTokens`, `MaxCodes`, `MaxDeaths`, `MaxTime`, `MaxChanges`,
`MaxFailures`, `MaxSecrets`, `MaxBatches`, `MaxTemps`, `MaxUsers`, `MaxFlows`,
`MaxJobs`); a run that has used them up can stop, so the runs of `SessionTokens`, `Otp`,
`Passwords`, `SecondFactor` and `Identities` do not check for deadlock. `Accounts`,
`CircuitBreaker`, `Gateway` and `Roles` go on for ever and do.

Clients never owe anything: every run lets requests stop half-way, except
`otp_codes`, where deaths would multiply the states without touching its properties
(a request that dies there only leaves out later statements); they are in
`otp_limits`. `Symmetry` is used in runs without liveness only; slots, users and strong
passwords are interchangeable.

What the passing runs say in words of the code:

* Rotation is safe against everything but itself: a refresh that starts after its
  token was rotated or its session revoked never reaches `markUsed`
  (`EndedMintsNothing`), every token leads back through used parents to one sign-in
  and has its expiry (`Lineage`), and no statement reopens or re-stores anything
  (`ImplementsLedger`). Two refreshes that *overlap* on one token can both succeed,
  because the flag is read and set by different statements.
* `logoutAll`, `deleteAccount` and `changePassword` leave no older session active
  when they answer; a sign-in in flight may insert its session afterwards. So may, after a
  deletion, whoever holds a temporary token of a login from before it, for the five minutes
  it lives and with no request overlapping the deletion (`NoSessionAfterDelete`). Such a
  session yields no access token: `findById` hides the user, so `mfaVerify` fails behind the
  insert, and refresh refuses.
* The session limit is overrun only when another sign-in inserted between the count
  and the insert, or the user was over it already (`OvershootNeedsOverlap`).
* Read-then-write of the users row loses a verification or lifts a lock only when the
  copy was read before (`VerificationKept`, `NoBlindUnlock`); it never leaves
  "locked" without `lockUntil` (`NoOrphanLock`), and neither store bars logins for
  ever (`LockoutEnds`): in particular an attempts key that lost its expiry does no harm.
  The one exception is an account deleted and restored for ever, which keeps its failures.
* A spent code is accepted again only by a verification that overlaps the first
  (`ReuseNeedsOverlap`), though it lives in two stores. The hourly count is overrun by less
  than the requests in flight, and loses its expiry only by a death between `INCR` and
  `EXPIRE` (`SuspensionEnds`).
* A reset token that was marked used, or whose successor was mailed, sets no password for a
  reset that arrives afterwards (`EndedTokenSetsNothing`). It works twice for resets that
  overlap, and, however much later, when the first died or threw between `updatePassword`
  and `markUsed`; after its successor only for a reset or a token that overlaps the request
  for that one; the history misses a recent password only after
  changes that overlapped or a death between its two writes, and it heals
  (`NoRecentReuse`).
* A temporary login token and a recovery code likewise (`SpentGrantsNothing`). One
  factor is lost to another's enabling only by a write between the two statements of
  `upsertSettings` (`SettingsKept`), and an enabled TOTP lacks recovery codes only while
  they are saved or after a save that died or met a disabling (`EnabledHasCodes`).
* An OAuth state serves twice only for callbacks that overlap (`StateServesOnce`); the
  two link tables disagree only after a death or a crossing (`LinksAgree`); unlinking
  shuts an account without a password out only if links went behind its count, if the first
  statement of a purge took the password behind its check, or if several identities of one provider were linked: it counts identities and deletes by
  provider (`UnlinkLeavesAWayIn`).
* What `getUserPermissions` cached after a change is written is right, whoever else
  reads, changes or dies (`CacheCoherent`); a list in doubt is gone with its TTL
  (`CacheSettles`). The claims of an access token may thus be one TTL and one token
  lifetime behind the tables.
* Instances that start together seed completely (`SeedComplete`); one that dies half-way
  leaves the tables as they are for good: the next start finds a role and stops, or
  fails at the first permission.
* The gateway repeats writes too, so a refresh that was served but answered late is
  presented again and ends the session as a replay; a refresh that throws or dies behind
  `markUsed` leaves the client with the cookie of a spent token, to the same end. Those, an
  attempt given up or lost on the way, and two refreshes that overlap are the only causes
  (`ReplayHasCause`). The service's
  `authenticate` looks at the access token only: a handler runs for an ended session
  while the token lives (`AccessEnds`).

## Fairness

* `Accounts!FairSpec`: time advances. Nothing is assumed of requests or clients, so
  `LockoutEnds` holds even if every request hangs.
* `Otp!FairSpec`: a key with an expiry expires, and an awaited statement returns or
  throws (the drivers have timeouts). No key that was given no expiry ever goes.
* `CircuitBreaker!FairSpec`: time advances, an attempt ends (undici's header and body
  timeouts are on by default) and the timer of a back-off fires. That requests keep
  coming and that the service stays up are hypotheses of `Recovers`, not fairness.
* `Roles!FairSpec`: a call in progress goes on or is dropped, and a key with an expiry
  expires. That changes come to an end is the bound `MaxChanges`, which is the
  hypothesis of `CacheSettles`; nothing is assumed of start-ups.
* The other modules have safety properties only and assume no fairness.

All are weak fairness of single steps the scheduler of the runtime provides.

## Proofs

Checked by `tlapm` for every number of users, requests, sessions, tokens, codes, limits
and ticks, from the named assumptions on constants only. The set of request slots is
assumed finite (`ProcsAssumption`) where requests are counted, and so is the set of
identities people have at the providers (`IdentitiesAssumption`), of which an unlink
counts those linked. Every safety invariant and every action property that a run checks
is stated by a theorem.

| Module | Inductive invariant | Theorems (property) |
|---|---|---|
| `SessionTokensProofs` | `IInv` | `TypeCorrect` (`TypeOK`), `LineageHolds` (`Lineage`), `RefreshSafe` (`EndedMintsNothing`), `RevocationSafe` (`RevocationComplete`), `RequestsIsolated`, `Invariance`, `OvershootExplained` (`OvershootNeedsOverlap`), `Refinement` (`ImplementsLedger`) |
| `AccountsProofs` | `AInv` | `AccountTypes` (`TypeOK`), `LocksHaveAnEnd` (`NoOrphanLock`), `DeletionEndsSessions` (`NoSessionAfterDelete`), `LocksAreSeen` (`NoBlindUnlock`), `VerificationsLast` (`VerificationKept`), `PurgesAreDue` (`PurgeOnlyExpired`) |
| `OtpProofs` | `OInv`; `TriesOK` | `OtpTypes` (`TypeOK`), `CodesServeOnce` (`ReuseNeedsOverlap`), `OvershootIsBounded` (`HourlyOvershoot`), `TriesAreKept` (`NoEarlyInvalidation`) |
| `PasswordsProofs` | `PInv`; `HistoryOK` | `PasswordTypes` (`TypeOK`), `TokensEnd` (`EndedTokenSetsNothing`), `MailsStayBounded` (`MailsBounded`), `RecentStaysOut` (`NoRecentReuse`) |
| `SecondFactorProofs` | `SInv` | `FactorTypes` (`TypeOK`), `SpentIsSpent` (`SpentGrantsNothing`), `FactorHasCodes` (`EnabledHasCodes`), `FactorsKept` (`SettingsKept`) |
| `RolesProofs` | `CacheCoherent` with `HandCoherent`; `SInv` | `RolesTypes` (`TypeOK`), `RolesCached` (`CacheCoherent`), `RolesSeeded` (`SeedComplete`) |
| `IdentitiesProofs` | `IInv` | `IdentityTypes` (`TypeOK`), `StatesServeOnce` (`StateServesOnce`), `LinkTablesAgree` (`LinksAgree`), `WayInLeft` (`UnlinkLeavesAWayIn`) |
| `GatewayProofs` | `BInv`; `GInv` | of the breaker `BreakerTypes` (`TypeOK`), `BreakerAgrees` (`StatusMatchesCount`); of the gateway `ProxyImplemented`, `GatewayBreakerAgrees`, `GatewayTypes` (`GatewayTypeOK`), `ReplaysHaveACause` (`ReplayHasCause`), `AccessHasAnEnd` (`AccessEnds`) |

**`SessionTokensProofs`.** `IInv` is the conjunction of `TypeOK`, `Lineage`, `RequestInv`,
`EndedMintsNothing` and `RevocationComplete`. None of the last four is inductive alone:
`Lineage` needs, at `InsertChild`, that the row the request read is still its parent,
used, and in the same session, which is what `RequestInv` says of a request between
its statements; `RequestInv` in turn needs that hashes are fresh and that no other
request stores them; `EndedMintsNothing` needs that no step reactivates a session or
clears a flag. The proof is by interference: `OthersOK` shows that whatever one request
does (`TablesGrow`: rows are added and kept, flags only set) leaves what every other
request relies on; `ActorSuffices` then reduces each step to the part of the request
that takes it, and there is one lemma per statement, grouped by the table it writes
(`QuietStep`, `SessionsStep`, `TokensStep`). `StepIInv` puts them together.
`OvershootExplained` rests on one more invariant of the sign-ins, `RoomOK`: of the sessions
a sign-in counted, those still active when it is about to insert are fewer than it counted,
fewer than the limit, or none, unless another sign-in of the user inserted one since. The
others only close sessions it counted or bring about that overlap (`RoomKept`).
The refinement, at the end of the module, has a lemma per kind of ledger step
(`LedgerOpens`, `LedgerCloses`, `LedgerStores`, `LedgerSpends`) and, from `IInv`, the one
each statement maps to. `SequenceTheorems` are used where `Open` appends to a sequence.

**`AccountsProofs`.** The invariants of the row say nothing of the copies that requests
carry, and it is the copies that are written back. `AInv` says of the temporary tokens that
none is fresh while a deletion is scheduled (`TempsOK`), and adds what each copy is worth:
one that says "locked" has the failures of a lock (`FailOK`), one that would take a
verification back is marked stale (`StaleOK`), and while no deletion or restoration came
between, `deletedAt` of the copy is that of the row (`FreshOK`).

**`OtpProofs`, `PasswordsProofs`, `SecondFactorProofs`** share a shape. What a request
knows is one predicate of its record and of the shared rows (`CodeOK`; `TokenOK` and
`SecretOK`; `WhyOK`, `PresentOK` and `CopyOK`), kept by the others because what has ended
does not come back. Bounds on counters are inductive only together with the requests
about to count: `CountsOK` adds the number of requests at the labels past a check
(`Crowd`, `InFlight`) to the counter, and `FiniteSetTheorems` give how that number changes
when one request moves. Reuse of a code needs, besides, that drawn codes are distinct and
that a spent one is in neither store. `EnabledHasCodes` rests on what a request that is
about to delete the codes knows of the row: a disabling has switched TOTP off itself,
unless another write crossed it (`CopyOK`), and a save goes on to its insert or tears.

Two more invariants stand beside these, each inductive only together with the module's
first one. `TriesOK`: once the counter of a code was set back, and no verification was in
flight then, every verification that goes on works on that code, and neither a counter it
has read nor the one in Redis exceeds the tries made of it; so whoever deletes the code for
its tries deletes it after `MaxTries` of them, though overlapping tries are counted as one.
`HistoryOK`: the history agrees with the passwords that were replaced in its newest
entries, as many as `doubt` leaves; while one change that nobody crossed is about to
update, it has the current password on top of them as well; and what that change read of
the history is still all there is to look at. A change that overlaps another may break any
of these, which is why `crossed` and `doubt` are in the statement.

**`RolesProofs`.** `CacheCoherent` alone is not inductive: `HandCoherent` says the same of
a list between its SELECT and its SET. For `SeedComplete`, `SInv` says that at most one
seeding is `Underway` (past its first permission) unless one was cut short, how far the
tables have come with it (`Progress`), and that an instance is up only once a permission
exists.

**`IdentitiesProofs`.** What a request filled in so far (`FieldsOK`) keeps it from naming an
account or a state that was never handed out. `LinksAgree` is about pairs of an account and
a provider: `PairOK` says of each that the two tables agree, or that a request is between
its two writes, or that the pair is torn. It holds because the first of the two writes
still stands when the second is made, which is what `LinkOK` knows of every request that
links or unlinks. `WayInLeft` needs that the links an unlink counted, and
the password it found, are still there unless it was crossed. They are finitely many because an identity is linked at most once
(`LinksOK`), and `FiniteSetTheorems` give how their number changes.

**`GatewayProofs`.** `BInv` adds to the breaker's types that an idle slot holds no attempts
from an earlier request. `ProxyImplemented` is the refinement `GatewaySpec => Spec`: every
step of the gateway is one of the breaker or leaves it alone, so what is proved of the
breaker holds of it with calls and tokens (`GatewayBreakerAgrees`). `GInv` adds four parts.
`CallsOK` and `JobsOK`: tokens travel only from the service to the client and back, and a
token that a refresh minted is new to the client and to the other attempts. `EndsOK`: once
the session is over, what is left of an access token and the time since then make up at
most one life, unless the end overtook its refresh. `ReplaysOK`: as long as nothing excuses a
replay, every attempt of a refresh is one that its call waits for, no two calls carry the
same token, and a spent token was spent by the attempt that is about to be answered, which
succeeds; the
checks of the service then find no token spent that they are given.

Only model-checked: liveness (`LockoutEnds`, `SuspensionEnds`, `Recovers`,
`CacheSettles`), which is out of the prover's reach. The violation of `UnverifiedKeptOut`
is a behaviour TLC exhibits. No module uses `RECURSIVE`.

## Where the code and its comments disagree

One disagreement is a run that must find a violation. `unverified_login`: step 6 of
login, "Verify email is confirmed" (`auth.service.ts:356`), looks at `status`. Five failed
logins overwrite `pending_verification` with `locked`; when the lock has run out the next
login clears it to `active`. No overlap is needed. `emailVerified` stays false.

Others met while modelling, which the models reproduce and no run is about:

* `createSession` is "enforcing the max active sessions policy"
  (`session.service.ts:27`); sign-ins that overlap each count before the other inserts.
  `OvershootNeedsOverlap` is what does hold.
* "Clear any account lockout (password reset is also a recovery mechanism)"
  (`password-reset.service.ts:211`) clears the row, not the key `login:lockout`, which
  login looks at first.
* "Allow one request to probe the system" (`reverse-proxy.ts:29`): every request that
  arrives while the probe is out is let through.
* "Token is marked as used (single-use)" (`password-reset.service.ts:137`): it is marked after
  the password was replaced, in another statement; two resets that overlap both get through,
  and one that dies in between leaves the token good for another.
* "Password is updated" (`password-reset.service.ts:136`): of an account without
  credentials, as OAuth creates them, nothing is updated though the reset succeeds.
* `incrementFailedAttempts` says "atomically" (`user.repository.ts:191`); it is a read
  and a write.
* The service calls `/logout` public (`routes/auth.ts:10`), the gateway protects it; for
  `/logout-all` it is the other way round.
* The gateway parses a multipart body into a stream, which `proxyTo` turns into JSON
  (`app.ts:132`, `reverse-proxy.ts:126`); it lists urlencoded bodies as allowed and has no
  parser for them; its rate limit is keyed before authentication, hence always by
  address (`app.ts:78`).
* `docs/details/auth.md` gives 15 minutes for the first lock, the code 30; the README of
  the auth service says a lock revokes sessions, no code does.
* A temporary login token survives a password reset; `restore:temp` is written and
  never read; an identity that was unlinked still signs in by its address; Microsoft and
  Apple flows can be initiated and fail for every code but a test code; the user name an OAuth account gets is a
  prefix of the profile's id, which collides when a known identity returns with another
  address.

## Not modelled

* Trusted devices: `trustDevice`, `isDeviceTrusted` and `revokeDevice` are never called.
* Data export: collects rows and mails them; its only protocol is a check-first, set-last
  daily limit, as the one of `Passwords`.
* Event bus: nothing publishes or subscribes yet.
* Audit log and login attempts: append-only rows that no modelled code reads.
* The content checks of the gateway (`validation.ts`, content types): they refuse a call and
  change nothing.
* Profile fields, security questions, listing of sessions: single reads and writes.
* The auth service's shell (wiring, health probes, input schemas), CORS, error payloads,
  the rate-limit plugin, `rbac.ts` of the gateway, which no route uses.
* Connections, configuration, logging, templates, SMTP, JWT signatures, password hashing,
  TOTP and base32 arithmetic: I/O or pure functions of strings and bytes.
* Scripts and deployment; services named only in documents, for which there is no code.

## Plan

Done, in this order because sessions are what every other part of the auth service
grants or ends: `SessionTokens` and its ledger; `Accounts`; `CircuitBreaker`; `Otp`;
`Roles`; `Passwords`; `SecondFactor`; `Identities`; `Gateway`. All have proofs.

Left:

1. `EventBus`, once a service publishes: what a subscriber that restarts may miss.
2. `register` on top of `Otp`: the two generations of a code it starts, and which mail
   arrives.
3. A bound on the tries of a code that escape the count (`otp.service.ts:141`).
